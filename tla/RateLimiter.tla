---------------------------- MODULE RateLimiter ----------------------------
(***************************************************************************)
(* RateLimiter::allow of backend/src/rate_limiter.hpp on the entry it      *)
(* keeps for an address: the start of the address's window and the         *)
(* requests counted since.  A request brings the time it read before it    *)
(* waited for the lock, so it may be older than the window it meets.       *)
(***************************************************************************)
EXTENDS Integers

CONSTANTS
  MaxRequests,   \* requests per window (max_), 0 = no limit
  Window         \* length of a window in ticks of the clock (60 s)

ASSUME LimiterAssumption ==
  /\ MaxRequests \in Nat
  /\ Window \in Nat \ {0}

Entry == [start : Nat, count : Nat]

\* An entry as operator[] makes it: the start is the clock's epoch.
NewEntry == [start |-> 0, count |-> 0]

Over(e, t) == t - e.start >= Window

\* A slip in the reset: the window keeps its start.
CountedWithoutStart(e, t) ==
  IF Over(e, t) THEN [e EXCEPT !.count = 1] ELSE [e EXCEPT !.count = @ + 1]

\* A slip in the count: what is left is counted down.
CountedDown(e, t) ==
  IF Over(e, t) THEN [start |-> t, count |-> 1] ELSE [e EXCEPT !.count = @ - 1]

\* The entry after a request that read time t; refused ones count as well.
Counted(e, t) ==
  IF Over(e, t) THEN [start |-> t, count |-> 1] ELSE [e EXCEPT !.count = @ + 1]

Allowed(e, t) == Over(e, t) \/ Counted(e, t).count <= MaxRequests
=============================================================================
