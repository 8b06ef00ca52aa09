---------------------------- MODULE MCFragChat ----------------------------
(***************************************************************************)
(* Constants of the FragChat runs.                                         *)
(***************************************************************************)
EXTENDS FragChat, TLC

CONSTANTS alice, bob, n1, n2, m1, m2, p1, p2

\* Alice writes everything.
AliceWrites == [m \in Messages |-> alice]

\* Nothing expires.
NoTtl == [m \in Messages |-> 0]

\* m1 expires a second after it is stored.
ShortTtl == [m \in Messages |-> IF m = m1 THEN 1 ELSE 0]

\* Overlapping polls are alike.
Alike == Permutations(Polls)

TwoServers == <<n1, n2>>
============================================================================
