-------------------------- MODULE MCHttpConnection --------------------------
(***************************************************************************)
(* Constants of the HttpConnection runs: c1 makes every kind of request,   *)
(* the other connections only meet it at the rate limiter.                 *)
(***************************************************************************)
EXTENDS HttpConnection, TLC

CONSTANTS c1, c2, c3, a1

Bearer(token) == [scheme |-> "bearer", token |-> token]
Raw(token) == [scheme |-> "raw", token |-> token]

Api == <<"", "api", "fragments">>

Ask(method, path) ==
  [method |-> method, path |-> path, query |-> TRUE, header |-> Bearer("t"),
   size |-> 0, claim |-> 0, fields |-> TRUE]

Post(size, claim) ==
  [Ask("POST", Api) EXCEPT !.size = size, !.claim = claim]

Posts ==
  { Post(2, 2), Post(2, 1), Post(2, 0), Post(2, 9), Post(2, 15),
    Post(4, 4), Post(5, 5), Post(0, 0),
    [Post(2, 2) EXCEPT !.fields = FALSE],
    [Post(2, 2) EXCEPT !.header = Raw("other")] }

Others ==
  { Ask("GET", Api),
    [Ask("GET", Api \o <<"">>) EXCEPT !.query = FALSE],
    Ask("GET", Api \o <<"m", "all">>),
    Ask("GET", Api \o <<"", "all">>),
    [Ask("DELETE", Api \o <<"f", "">>) EXCEPT !.header = Raw("t")],
    [Ask("DELETE", Api \o <<"f">>) EXCEPT !.header = NoHeader],
    Ask("DELETE", Api \o <<"m", "all">>),
    Ask("PUT", Api),
    Ask("OPTIONS", Api) }

OneAddress == [c \in Connections |-> a1]

Offers ==
  [c \in Connections |->
     IF c = c1 THEN Posts \cup Others
     ELSE { Ask("GET", <<"", "health">>) }]

Callers ==
  [c \in Connections |-> IF c = c1 THEN ClientKinds ELSE {"sound"}]

Peers == Permutations({c2, c3})
=============================================================================
