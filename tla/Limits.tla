------------------------------- MODULE Limits -------------------------------
(***************************************************************************)
(* The relay's two rate limits, crates/link-relay/src/lib.rs: the token    *)
(* bucket per source address of the UDP reflector (SourceLimiter), whose   *)
(* table is swept when it is large, and the byte budget of one relay       *)
(* session (ByteBudget).  Time passes in ticks; tokens are counted in      *)
(* ticks too, so that a refill is exact: PerSecond of them per tick, and   *)
(* PerTick of them to the reply or the byte.                               *)
(***************************************************************************)
EXTENDS Naturals, FiniteSets

CONSTANTS
  Sources,    \* addresses that ask the reflector
  PerSecond,  \* reflector_per_second, and the bytes per second of the budget
  PerTick,    \* ticks in a second
  SweepAt,    \* table size above which it is swept: 10_000
  SweepAge,   \* age in ticks of what a sweep forgets: 60 s
  MaxTick     \* the length of a behaviour, in ticks

ASSUME LimitBounds ==
  /\ {PerSecond, PerTick, SweepAge, MaxTick} \subseteq Nat \ {0} /\ SweepAt \in Nat
  /\ SweepAge >= 2 * PerTick

VARIABLES
  tick,     \* Instant::now()
  seen,     \* SourceLimiter::seen, a partial function
  exact,    \* the bucket of every source, as if nothing were ever forgotten
  agreed,   \* every answer so far is the one `exact` gives
  budget,   \* ByteBudget: tokens and last
  debt      \* bytes let through above the rate, at its least

limitVars == <<tick, seen, exact, agreed, budget, debt>>

AtMost(n, cap) == IF n > cap THEN cap ELSE n
Refill(b, cap) == AtMost(b.tokens + (tick - b.last) * PerSecond, cap)
Burst == 2 * PerSecond * PerTick
Full == [tokens |-> Burst, last |-> tick]

\* The entry of one source after `allow`.
Spent(b) ==
  LET tokens == Refill(b, Burst)
  IN [tokens |-> IF tokens >= PerTick THEN tokens - PerTick ELSE tokens, last |-> tick]
Allowed(b) == Refill(b, Burst) >= PerTick

\* The sweep forgets whoever it finds idle for a tick.
Swept_AtOnce(table) ==
  IF Cardinality(DOMAIN table) <= SweepAt THEN table
  ELSE [s \in {s \in DOMAIN table : table[s].last + 1 > tick} |-> table[s]]

Swept(table) ==
  IF Cardinality(DOMAIN table) <= SweepAt THEN table
  ELSE [s \in {s \in DOMAIN table : table[s].last + SweepAge > tick} |-> table[s]]

LimitInit ==
  /\ tick = 0 /\ seen = [s \in {} |-> 0]
  /\ exact = [s \in Sources |-> Full] /\ agreed = TRUE
  /\ budget = [tokens |-> PerSecond * PerTick, last |-> 0] /\ debt = 0

Reflect(source) ==
  LET table == Swept(seen)
      entry == IF source \in DOMAIN table THEN table[source] ELSE Full
  IN /\ seen' = [s \in DOMAIN table \cup {source} |-> IF s = source THEN Spent(entry) ELSE table[s]]
     /\ exact' = [exact EXCEPT ![source] = Spent(@)]
     /\ agreed' = (agreed /\ (Allowed(entry) <=> Allowed(exact[source])))
     /\ UNCHANGED <<tick, budget, debt>>

\* A datagram that was refused leaves the time of the last refill alone.
Spend_KeepsLast(bytes) ==
  LET tokens == Refill(budget, PerSecond * PerTick)
      fits == tokens >= bytes * PerTick
  IN /\ budget' = [tokens |-> IF fits THEN tokens - bytes * PerTick ELSE tokens,
                   last |-> IF fits THEN tick ELSE budget.last]
     /\ debt' = debt + (IF fits THEN bytes * PerTick ELSE 0)
     /\ UNCHANGED <<tick, seen, exact, agreed>>

\* ByteBudget::allow, with a budget that is not zero.
Spend(bytes) ==
  LET tokens == Refill(budget, PerSecond * PerTick)
      fits == tokens >= bytes * PerTick
  IN /\ budget' = [tokens |-> IF fits THEN tokens - bytes * PerTick ELSE tokens, last |-> tick]
     /\ debt' = debt + (IF fits THEN bytes * PerTick ELSE 0)
     /\ UNCHANGED <<tick, seen, exact, agreed>>

\* Between two events the rate pays the debt off.
LimitTick ==
  /\ tick < MaxTick /\ tick' = tick + 1
  /\ debt' = IF debt > PerSecond THEN debt - PerSecond ELSE 0
  /\ UNCHANGED <<seen, exact, agreed, budget>>

LimitNext ==
  \/ LimitTick
  \/ \E s \in Sources : Reflect(s)
  \/ \E bytes \in 1..PerSecond + 1 : Spend(bytes)

LimitSpec == LimitInit /\ [][LimitNext]_limitVars

\* SourceLimiter::allow: sweeping the table never answers a source that its
\* bucket, never forgotten, would have refused, nor the reverse.
SweepIsFree == agreed

\* ByteBudget::allow: over any stretch of time a session passes at most one
\* second's bytes more than its rate.
SpendBounded == debt <= PerSecond * PerTick

\* The relay's two limiters admit what their rates say (SourceLimiter,
\* ByteBudget).
LimitsHold == SweepIsFree /\ SpendBounded

=============================================================================
