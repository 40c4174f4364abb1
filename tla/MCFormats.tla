----------------------------- MODULE MCFormats -----------------------------
(* Formats for TLC: an endpoint with more relays than a card has hints,     *)
(* their URLs short or so long that a card full of them is too long; a      *)
(* caller's rendezvous key, not at all, once or twice; see README.md for    *)
(* the other bounds.                                                        *)
EXTENDS Formats

MCOwns == {[i \in 1..17 |-> Relay(len)] : len \in {20, 255}}
MCExtras == {<<>>, <<Ephemeral>>, <<Ephemeral, Ephemeral>>}
=============================================================================
