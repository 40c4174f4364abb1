------------------------------- MODULE TagBook -------------------------------
(***************************************************************************)
(* The material of a tag book, crates/link-endpoint/src/rendezvous_book.rs, *)
(* and what it derives, for one pairing route.  A book here is             *)
(*   admission  the QR secret is registered (ExpiringSecret)               *)
(*   live       the connection whose exported secret the route carries on  *)
(*              with (LivePairingRoute; the connection's number stands for *)
(*              its generation and its secret), 0 for none                 *)
(* A tag is ideal: it is its inputs, so two tags are equal only when the   *)
(* secret, the relay host and the epoch are.  An operator that returns an  *)
(* Option in the code returns a set of at most one element here.           *)
(***************************************************************************)
EXTENDS Naturals

Admission == 0
Tag(secret, host, epoch) == [secret |-> secret, host |-> host, epoch |-> epoch]

\* The epoch before the first one does not exist.
Window(epoch) == {e \in Nat : e + 1 >= epoch /\ e <= epoch + 1}

Secrets(book) == {Admission : a \in {x \in {book.admission} : x}}
                 \cup {c \in {book.live} : c # 0}

\* registration and resolve: every secret of the route, over the window.
Resolves(book, tag, host, epoch) ==
  /\ tag.secret \in Secrets(book)
  /\ tag.host = host
  /\ tag.epoch \in Window(epoch)

TagFor_LiveFirst(book, host, epoch) ==
  IF book.live # 0 THEN {Tag(book.live, host, epoch)}
  ELSE {Tag(s, host, epoch) : s \in Secrets(book)}

\* tag_for_send without its cache: the admission tag while there is one.
TagFor(book, host, epoch) ==
  IF book.admission THEN {Tag(Admission, host, epoch)}
  ELSE {Tag(s, host, epoch) : s \in Secrets(book)}

RemovePairing_Keeps(book) == book
RemovePairing(book) == [book EXCEPT !.admission = FALSE]
Promote(book, c) == [book EXCEPT !.live = c]
RemoveLive(book, c) == IF book.live = c THEN [book EXCEPT !.live = 0] ELSE book

=============================================================================
