------------------------ MODULE HttpConnectionProofs ------------------------
(***************************************************************************)
(* What holds of a node's connections for any number of them, any          *)
(* requests, clients, sizes and limits.                                    *)
(***************************************************************************)
EXTENDS HttpConnection, FiniteSetTheorems, SequenceTheorems, TLAPS

Connection(c) ==
  [pc : {"new", "limiter", "reading", "read", "sending", "closed"},
   client : ClientKinds, req : Requests[c] \cup {NoRequest},
   at : 0 .. now, admitted : BOOLEAN, window : Nat, raw : Nat,
   body : Nat, call : Operations, reply : Nat, delivered : BOOLEAN]

LEMMA TypeParts ==
  TypeOK <=> /\ now \in 0 .. MaxTime
             /\ table \in [Addresses -> Entry]
             /\ \A c \in Connections : conn[c] \in Connection(c)
  BY DEF TypeOK, Connection

\* The state is a function, which TypeOK need not say for TLC.
Shape == TypeOK /\ conn = [c \in Connections |-> conn[c]]

\* A step that changes the connection c only.
LEMMA OneConnection ==
  ASSUME Shape, NEW c \in Connections, NEW r \in Connection(c),
         conn' = [conn EXCEPT ![c] = r],
         now' = now, table' \in [Addresses -> Entry]
  PROVE  Shape'
<1>1. \A d \in Connections : conn'[d] = IF d = c THEN r ELSE conn[d]
  BY DEF Shape
<1>2. \A d \in Connections : Connection(d)' = Connection(d)
  BY DEF Connection
<1>3. \A d \in Connections : conn'[d] \in Connection(d)'
  BY <1>1, <1>2, TypeParts DEF Shape
<1>4. conn' = [d \in Connections |-> conn'[d]]
  BY DEF Shape
<1>5. TypeOK'
  BY <1>3, TypeParts DEF Shape, TypeOK, Connection
<1> QED
  BY <1>4, <1>5 DEF Shape

LEMMA ConstantTypes ==
  /\ HeadSize \in Nat \ {0} /\ MaxPayload \in Nat \ {0}
  /\ MaxRequest \in Nat \ {0} /\ Buffer \in Nat \ {0} /\ SizeLimit \in Nat \ {0}
  /\ MaxTime \in Nat
  /\ MaxRequests \in Nat /\ Window \in Nat \ {0}
  /\ \A c \in Connections : Requests[c] \subseteq Request /\ Clients[c] \subseteq ClientKinds
  BY ConnectionAssumption, LimiterAssumption

LEMMA RequestTypes ==
  ASSUME NEW c \in Connections, NEW req \in Requests[c] \cup {NoRequest}
  PROVE  req.size \in Nat /\ req.claim \in Nat
<1>1. CASE req \in Requests[c]
  BY <1>1, ConstantTypes DEF Request
<1>2. CASE req = NoRequest
  BY <1>2 DEF NoRequest
<1> QED
  BY <1>1, <1>2

LEMMA UnopenedType == \A c \in Connections : now \in Nat => Unopened \in Connection(c)
  BY DEF Unopened, Connection, ClientKinds, Operations

LEMMA ShapeInit == Init => Shape
<1> SUFFICES ASSUME Init
             PROVE  Shape
  OBVIOUS
<1>1. now \in 0 .. MaxTime
  BY ConstantTypes DEF Init
<1>2. table \in [Addresses -> Entry]
  BY DEF Init, NewEntry, Entry
<1>3. \A c \in Connections : conn[c] \in Connection(c)
  BY UnopenedType DEF Init
<1>4. conn = [c \in Connections |-> conn[c]]
  BY DEF Init
<1> QED
  BY <1>1, <1>2, <1>3, <1>4, TypeParts DEF Shape

LEMMA CountedType ==
  ASSUME NEW e \in Entry, NEW t \in Nat
  PROVE  /\ Counted(e, t) \in Entry
         /\ Over(e, t) => Counted(e, t) = [start |-> t, count |-> 1]
         /\ ~Over(e, t) => /\ Counted(e, t).start = e.start
                           /\ Counted(e, t).count = e.count + 1
  BY DEF Counted, Entry

-----------------------------------------------------------------------------
(***************************************************************************)
(* What a handler may do.                                                  *)
(***************************************************************************)
Outcome == [call : Operations, reply : Nat]

RouteOperations == {"count", "insert", "scan", "message", "delete"}

LEMMA RoutesAre ==
  /\ DOMAIN Routes = 1 .. 5
  /\ \A i \in 1 .. 5 : Routes[i].op \in RouteOperations
  /\ Routes[1].op = "count" /\ Routes[2].op = "insert" /\ Routes[3].op = "scan"
  /\ Routes[4].op = "message" /\ Routes[5].op = "delete"
  /\ \A i \in 1 .. 5 : Routes[i].method # ""
<1> DEFINE r1 == Route("GET", <<"", "health">>, "count")
           r2 == Route("POST", <<"", "api", "fragments">>, "insert")
           r3 == Route("GET", <<"", "api", "fragments">>, "scan")
           r4 == Route("GET", <<"", "api", "fragments", ":message_id", "all">>,
                       "message")
           r5 == Route("DELETE", <<"", "api", "fragments", ":id">>, "delete")
<1>1. /\ r1.op = "count" /\ r2.op = "insert" /\ r3.op = "scan"
      /\ r4.op = "message" /\ r5.op = "delete"
      /\ r1.method # "" /\ r2.method # "" /\ r3.method # ""
      /\ r4.method # "" /\ r5.method # ""
  BY Zenon DEF Route
<1>2. Routes = <<r1, r2, r3, r4, r5>>
  BY DEF Routes
<1> HIDE DEF r1, r2, r3, r4, r5
<1>3. /\ DOMAIN Routes = 1 .. 5
      /\ Routes[1] = r1 /\ Routes[2] = r2 /\ Routes[3] = r3
      /\ Routes[4] = r4 /\ Routes[5] = r5
  BY <1>2
<1>4. \A i \in 1 .. 5 : i = 1 \/ i = 2 \/ i = 3 \/ i = 4 \/ i = 5
  OBVIOUS
<1> QED
  BY <1>1, <1>3, <1>4 DEF RouteOperations

\* Their methods and patterns.
LEMMA RoutePatterns ==
  /\ Routes[1].method = "GET" /\ Routes[1].pattern = <<"", "health">>
  /\ Routes[2].method = "POST" /\ Routes[2].pattern = <<"", "api", "fragments">>
  /\ Routes[3].method = "GET" /\ Routes[3].pattern = <<"", "api", "fragments">>
  /\ Routes[4].method = "GET"
  /\ Routes[4].pattern = <<"", "api", "fragments", ":message_id", "all">>
  /\ Routes[5].method = "DELETE"
  /\ Routes[5].pattern = <<"", "api", "fragments", ":id">>
<1> DEFINE p1 == <<"", "health">>
           p2 == <<"", "api", "fragments">>
           p4 == <<"", "api", "fragments", ":message_id", "all">>
           p5 == <<"", "api", "fragments", ":id">>
           r1 == Route("GET", p1, "count")
           r2 == Route("POST", p2, "insert")
           r3 == Route("GET", p2, "scan")
           r4 == Route("GET", p4, "message")
           r5 == Route("DELETE", p5, "delete")
<1>1. Routes = <<r1, r2, r3, r4, r5>>
  BY DEF Routes
<1> HIDE DEF p1, p2, p4, p5
<1>2. /\ r1.method = "GET" /\ r1.pattern = p1
      /\ r2.method = "POST" /\ r2.pattern = p2
      /\ r3.method = "GET" /\ r3.pattern = p2
      /\ r4.method = "GET" /\ r4.pattern = p4
      /\ r5.method = "DELETE" /\ r5.pattern = p5
  BY Zenon DEF Route
<1> HIDE DEF r1, r2, r3, r4, r5
<1>3. /\ Routes[1] = r1 /\ Routes[2] = r2 /\ Routes[3] = r3
      /\ Routes[4] = r4 /\ Routes[5] = r5
  BY <1>1
<1> QED
  BY <1>2, <1>3 DEF p1, p2, p4, p5

\* The first three routes have no parameter.
LEMMA NoParameter ==
  ASSUME NEW i \in {1, 2, 3}, NEW path
  PROVE  ParameterGiven(Routes[i].pattern, path)
<1> DEFINE p1 == <<"", "health">>
           p2 == <<"", "api", "fragments">>
           given(p) == \A j \in DOMAIN p : p[j] \notin Parameters
<1>1. given(p1) /\ given(p2)
  <2>1. DOMAIN p1 = {1, 2} /\ p1[1] = "" /\ p1[2] = "health"
    OBVIOUS
  <2>2. DOMAIN p2 = {1, 2, 3} /\ p2[1] = "" /\ p2[2] = "api" /\ p2[3] = "fragments"
    OBVIOUS
  <2> HIDE DEF p1, p2
  <2> QED
    BY <2>1, <2>2 DEF Parameters
<1>2. \A p : given(p) => ParameterGiven(p, path)
  BY DEF ParameterGiven
<1>3. Routes[1].pattern = p1 /\ Routes[2].pattern = p2 /\ Routes[3].pattern = p2
  <2> DEFINE r1 == Route("GET", p1, "count")
             r2 == Route("POST", p2, "insert")
             r3 == Route("GET", p2, "scan")
             r4 == Route("GET", <<"", "api", "fragments", ":message_id", "all">>,
                         "message")
             r5 == Route("DELETE", <<"", "api", "fragments", ":id">>, "delete")
  <2>1. Routes = <<r1, r2, r3, r4, r5>>
    BY DEF Routes
  <2> HIDE DEF p1, p2
  <2>2. r1.pattern = p1 /\ r2.pattern = p2 /\ r3.pattern = p2
    BY Zenon DEF Route
  <2> HIDE DEF r1, r2, r3, r4, r5
  <2>3. Routes[1] = r1 /\ Routes[2] = r2 /\ Routes[3] = r3
    BY <2>1
  <2> QED
    BY <2>2, <2>3
<1> HIDE DEF p1, p2, given
<1> QED
  BY <1>1, <1>2, <1>3

\* The first of some routes.
LEMMA FirstRoute ==
  ASSUME NEW S \in SUBSET (1 .. 5), S # {}
  PROVE  (CHOOSE i \in S : \A j \in S : i <= j) \in S
<1>1. \E i \in S : \A j \in S : i <= j
  <2>1. PICK i \in S : TRUE
    OBVIOUS
  <2>2. CASE 1 \in S
    BY <2>2
  <2>3. CASE 1 \notin S /\ 2 \in S
    BY <2>3
  <2>4. CASE 1 \notin S /\ 2 \notin S /\ 3 \in S
    BY <2>4
  <2>5. CASE 1 \notin S /\ 2 \notin S /\ 3 \notin S /\ 4 \in S
    BY <2>5
  <2>6. CASE 1 \notin S /\ 2 \notin S /\ 3 \notin S /\ 4 \notin S
    BY <2>6, <2>1
  <2> QED
    BY <2>2, <2>3, <2>4, <2>5, <2>6
<1> QED
  BY <1>1

LEMMA RefuseType ==
  ASSUME NEW status \in Nat
  PROVE  Refuse(status) \subseteq Outcome /\ \A r \in Refuse(status) : r.call = "none"
  BY DEF Refuse, Outcome, Operations

LEMMA CallType ==
  ASSUME NEW op \in RouteOperations
  PROVE  Call(op) \subseteq Outcome /\ \A r \in Call(op) : r.call = op
<1>1. Answers(op) \subseteq Nat
  BY DEF Answers, RouteOperations
<1> QED
  BY <1>1 DEF Call, Outcome, Operations, RouteOperations

LEMMA PostOutcome ==
  ASSUME NEW req, NEW size \in Nat
  PROVE  /\ HandlePost(req, size) \subseteq Outcome
         /\ \A r \in HandlePost(req, size) : r.call \in {"none", "insert"}
<1> DEFINE D(f) == IF f THEN Call("insert") ELSE Refuse(400)
<1>1. \A f \in BOOLEAN :
        D(f) \subseteq Outcome /\ \A r \in D(f) : r.call \in {"none", "insert"}
  BY RefuseType, CallType DEF RouteOperations
<1>2. CASE size = 0
  BY <1>2, RefuseType DEF HandlePost
<1>3. CASE size > MaxPayload
  BY <1>3, RefuseType, ConstantTypes DEF HandlePost
<1>4. CASE size # 0 /\ size <= MaxPayload
  <2> DEFINE F == { f \in BOOLEAN : IF size < req.size THEN f => req.fields
                                                     ELSE f = req.fields }
  <2>1. HandlePost(req, size) = UNION { D(f) : f \in F }
    BY <1>4, ConstantTypes DEF HandlePost
  <2> HIDE DEF D
  <2> QED
    BY <2>1, <1>1
<1> QED
  BY <1>2, <1>3, <1>4, ConstantTypes

\* A handler asks for its route's operation or for none, and for any but the
\* count only with a token and the parameter of its path.
LEMMA HandleOutcome ==
  ASSUME NEW i \in 1 .. 5, NEW req, NEW size \in Nat
  PROVE  /\ Handle(Routes[i], req, size) \subseteq Outcome
         /\ \A r \in Handle(Routes[i], req, size) :
              r.call # "none" =>
                /\ r.call = Routes[i].op
                /\ r.call # "count" => Authorized(req)
                /\ r.call \in {"message", "delete"} =>
                     ParameterGiven(Routes[i].pattern, req.path)
<1>1. Routes[i].op \in RouteOperations
  BY RoutesAre
<1>2. CASE Routes[i].op = "count"
  <2>1. Handle(Routes[i], req, size) = Call("count")
    BY <1>2 DEF Handle
  <2> QED
    BY <2>1, <1>2, CallType DEF RouteOperations
<1>3. CASE Routes[i].op # "count" /\ ~Authorized(req)
  <2>1. Handle(Routes[i], req, size) = Refuse(401)
    BY <1>3 DEF Handle
  <2> QED
    BY <2>1, RefuseType
<1>4. CASE Routes[i].op = "insert" /\ Authorized(req)
  <2>1. Handle(Routes[i], req, size) = HandlePost(req, size)
    BY <1>4 DEF Handle
  <2> QED
    BY <2>1, <1>4, PostOutcome
<1>5. CASE Routes[i].op = "scan" /\ Authorized(req)
  <2>1. Handle(Routes[i], req, size) \in {Call("scan"), Refuse(400)}
    BY <1>5 DEF Handle
  <2> QED
    BY <2>1, <1>5, CallType, RefuseType DEF RouteOperations
<1>6. CASE Routes[i].op \in {"message", "delete"} /\ Authorized(req)
  <2>1. CASE ParameterGiven(Routes[i].pattern, req.path)
    <3>1. Handle(Routes[i], req, size) = Call(Routes[i].op)
      BY <1>6, <2>1 DEF Handle
    <3> QED
      BY <3>1, <1>1, <1>6, <2>1, CallType
  <2>2. CASE ~ParameterGiven(Routes[i].pattern, req.path)
    <3>1. Handle(Routes[i], req, size) = Refuse(400)
      BY <1>6, <2>2 DEF Handle
    <3> QED
      BY <3>1, RefuseType
  <2> QED
    BY <2>1, <2>2
<1> QED
  BY <1>1, <1>2, <1>3, <1>4, <1>5, <1>6 DEF RouteOperations

\* The routes that a request's path and method have.
Serving(req) ==
  { i \in { i \in DOMAIN Routes : Matches(Routes[i].pattern, req.path) } :
      Routes[i].method = req.method }

FirstServing(req) == CHOOSE i \in Serving(req) : \A j \in Serving(req) : i <= j

LEMMA RespondOutcome ==
  ASSUME NEW req, NEW size \in Nat
  PROVE  /\ Respond(req, size) \subseteq Outcome
         /\ \A r \in Respond(req, size) :
              r.call # "none" =>
                /\ Serving(req) # {}
                /\ FirstServing(req) \in Serving(req)
                /\ r.call = Routes[FirstServing(req)].op
                /\ r.call # "count" => Authorized(req)
                /\ ParameterGiven(Routes[FirstServing(req)].pattern, req.path)
<1> DEFINE matching == { i \in DOMAIN Routes : Matches(Routes[i].pattern, req.path) }
           other == IF matching # {} THEN 405 ELSE 404
<1>2. Serving(req) \in SUBSET (1 .. 5)
  BY RoutesAre DEF Serving
<1>3. Respond(req, size) =
        IF req.method = "OPTIONS" THEN Refuse(204)
        ELSE IF Serving(req) # {} THEN Handle(Routes[FirstServing(req)], req, size)
        ELSE Refuse(other)
  BY Zenon DEF Respond, FirstServing, Serving
<1>4. other \in Nat /\ 204 \in Nat
  OBVIOUS
<1>5. Serving(req) # {} => FirstServing(req) \in Serving(req)
  BY <1>2, FirstRoute DEF FirstServing
<1> HIDE DEF other
<1>6. CASE req.method = "OPTIONS"
  BY <1>6, <1>3, <1>4, RefuseType
<1>7. CASE req.method # "OPTIONS" /\ Serving(req) = {}
  BY <1>7, <1>3, <1>4, RefuseType
<1>8. CASE req.method # "OPTIONS" /\ Serving(req) # {}
  <2>1. FirstServing(req) \in 1 .. 5
    BY <1>8, <1>5, <1>2
  <2>2. Respond(req, size) = Handle(Routes[FirstServing(req)], req, size)
    BY <1>8, <1>3
  <2> DEFINE i == FirstServing(req)
  <2>3. i \in {1, 2, 3} => ParameterGiven(Routes[i].pattern, req.path)
    BY NoParameter
  <2>4. i \in {1, 2, 3} \/ Routes[i].op \in {"message", "delete"}
    <3>1. \A k \in 1 .. 5 : k \in {1, 2, 3} \/ k = 4 \/ k = 5
      OBVIOUS
    <3> HIDE DEF i
    <3> QED
      BY <2>1, <3>1, RoutesAre DEF i
  <2> HIDE DEF i
  <2> QED
    BY <2>1, <2>2, <2>3, <2>4, <1>5, <1>8, HandleOutcome DEF i
<1> QED
  BY <1>6, <1>7, <1>8

\* Sequences: the last element, and a beginning.
LEMMA LastAppended ==
  ASSUME NEW path \in Seq(STRING), path # << >>
  PROVE  /\ path = Append(SubSeq(path, 1, Len(path) - 1), path[Len(path)])
         /\ Len(path) - 1 \in Nat /\ Len(path) - 1 <= Len(path)
  OBVIOUS

LEMMA Beginning ==
  ASSUME NEW path \in Seq(STRING), NEW n \in Nat, n <= Len(path), NEW w,
         w = SubSeq(path, 1, n)
  PROVE  /\ w \in Seq(STRING) /\ Len(w) <= Len(path)
         /\ \A j \in 1 .. Len(w) : w[j] = path[j]
<1>1. Len(w) = n
  OBVIOUS
<1>2. w \in Seq(STRING)
  OBVIOUS
<1>3. \A j \in 1 .. n : w[j] = path[j]
  OBVIOUS
<1> QED
  BY <1>1, <1>2, <1>3

\* What a path is split into begins it, and the path spells it.
LEMMA SplitBegins ==
  ASSUME NEW path \in Seq(STRING)
  PROVE  LET parts == Split(path) IN
         /\ parts \in Seq(STRING) /\ Len(parts) <= Len(path)
         /\ \A j \in 1 .. Len(parts) : parts[j] = path[j]
         /\ Spells(path, parts)
<1>1. CASE path # << >> /\ path[Len(path)] = ""
  <2>1. Split(path) = SubSeq(path, 1, Len(path) - 1)
    BY <1>1, Zenon DEF Split
  <2> DEFINE n == Len(path) - 1
             parts == Split(path)
  <2>2. path = Append(SubSeq(path, 1, n), path[Len(path)]) /\ n \in Nat /\ n <= Len(path)
    BY <1>1, LastAppended, Zenon
  <2> HIDE DEF n
  <2>3. /\ parts \in Seq(STRING) /\ Len(parts) <= Len(path)
        /\ \A j \in 1 .. Len(parts) : parts[j] = path[j]
    BY <2>1, <2>2, Beginning, Zenon DEF n
  <2>4. path = Append(parts, "")
    BY <1>1, <2>1, <2>2, Zenon DEF n
  <2> QED
    BY <2>3, <2>4, Zenon DEF Spells
<1>2. CASE ~(path # << >> /\ path[Len(path)] = "")
  <2>1. Split(path) = path
    BY <1>2, Zenon DEF Split
  <2>2. Len(path) <= Len(path)
    OBVIOUS
  <2> QED
    BY <2>1, <2>2, Zenon DEF Spells
<1> QED
  BY <1>1, <1>2, Zenon

\* Where a pattern that matches names no parameter, the path has what it says.
LEMMA MatchedAt ==
  ASSUME NEW pattern, NEW path, Matches(pattern, path), NEW n, Len(pattern) = n,
         NEW j \in 1 .. n
  PROVE  /\ Len(Split(path)) = n
         /\ pattern[j] \notin Parameters => Split(path)[j] = pattern[j]
  BY Zenon DEF Matches

LEMMA GivenAt ==
  ASSUME NEW pattern, NEW path, ParameterGiven(pattern, path),
         NEW j \in DOMAIN pattern, pattern[j] \in Parameters
  PROVE  Split(path)[j] # ""
  BY Zenon DEF ParameterGiven

\* Sequences that are given by their elements.
LEMMA TwoParts ==
  ASSUME NEW s \in Seq(STRING), Len(s) = 2
  PROVE  s = <<s[1], s[2]>>
<1>1. s \in [1 .. 2 -> STRING]
  BY LenProperties
<1> QED
  BY <1>1

LEMMA ThreeParts ==
  ASSUME NEW s \in Seq(STRING), Len(s) = 3
  PROVE  s = <<s[1], s[2], s[3]>>
<1>1. s \in [1 .. 3 -> STRING]
  BY LenProperties
<1> QED
  BY <1>1

LEMMA FourParts ==
  ASSUME NEW s \in Seq(STRING), Len(s) = 4
  PROVE  s = <<s[1], s[2], s[3], s[4]>>
<1>1. s \in [1 .. 4 -> STRING]
  BY LenProperties
<1> QED
  BY <1>1

LEMMA FiveParts ==
  ASSUME NEW s \in Seq(STRING), Len(s) = 5
  PROVE  s = <<s[1], s[2], s[3], s[4], s[5]>>
<1>1. s \in [1 .. 5 -> STRING]
  BY LenProperties
<1> QED
  BY <1>1

LEMMA NoParameterNames ==
  \A name \in {"", "health", "api", "fragments", "all"} : name \notin Parameters
  BY DEF Parameters

LEMMA ParameterNames == ":message_id" \in Parameters /\ ":id" \in Parameters
  BY DEF Parameters

\* What a route serves is what the API says the request is for.
LEMMA ServedIsFor ==
  ASSUME NEW c \in Connections, NEW req \in Requests[c],
         NEW i \in Serving(req), ParameterGiven(Routes[i].pattern, req.path)
  PROVE  IsFor(req, Routes[i].op)
<1> DEFINE path == req.path
           parts == Split(path)
           pattern == Routes[i].pattern
<1>1. path \in Seq(STRING)
  BY ConstantTypes DEF Request
<1>2. /\ parts \in Seq(STRING) /\ Len(parts) <= Len(path)
      /\ \A j \in 1 .. Len(parts) : parts[j] = path[j]
      /\ Spells(path, parts)
  BY <1>1, SplitBegins, Zenon
<1>3. i \in 1 .. 5 /\ Routes[i].method = req.method /\ Matches(pattern, path)
  BY RoutesAre DEF Serving
<1>0. ParameterGiven(pattern, path)
  OBVIOUS
<1> HIDE DEF pattern, path
<1>4. \A j \in DOMAIN pattern : pattern[j] \in Parameters => parts[j] # ""
  BY <1>0, GivenAt, Zenon
<1>5. \A n, j : Len(pattern) = n /\ j \in 1 .. n =>
        /\ Len(parts) = n
        /\ pattern[j] \notin Parameters => parts[j] = pattern[j]
  BY <1>3, MatchedAt, Zenon
<1> HIDE DEF parts
<1>6. CASE i = 1
  <2>1. Routes[i].op = "count" /\ req.method = "GET"
    BY <1>3, <1>6, RoutePatterns, RoutesAre DEF pattern
  <2>2. pattern = <<"", "health">>
    BY <1>3, <1>6, RoutePatterns, Zenon DEF pattern
  <2>3. /\ Len(pattern) = 2
        /\ pattern[1] = "" /\ pattern[2] = "health"
    BY <2>2
  <2>4. Len(parts) = 2
    <3>1. 1 \in 1 .. 2
      OBVIOUS
    <3> QED
      BY <1>5, <2>3, <3>1, Zenon
  <2>5. parts[1] = "" /\ parts[2] = "health"
    <3>1. 1 \in 1 .. 2 /\ 2 \in 1 .. 2
      OBVIOUS
    <3> QED
      BY <1>5, <2>3, <3>1, NoParameterNames, Zenon
  <2>6. parts = <<"", "health">>
    BY <1>2, <2>4, <2>5, TwoParts, Zenon
  <2> QED
    BY <1>2, <2>1, <2>6, Zenon DEF IsFor, path
<1>7. CASE i = 2 \/ i = 3
  <2>1. /\ Routes[i].op \in {"insert", "scan"}
        /\ req.method = IF Routes[i].op = "insert" THEN "POST" ELSE "GET"
    BY <1>3, <1>7, RoutePatterns, RoutesAre DEF pattern
  <2>2. pattern = <<"", "api", "fragments">>
    BY <1>3, <1>7, RoutePatterns, Zenon DEF pattern
  <2>3. /\ Len(pattern) = 3
        /\ pattern[1] = "" /\ pattern[2] = "api" /\ pattern[3] = "fragments"
    BY <2>2
  <2>4. Len(parts) = 3
    <3>1. 1 \in 1 .. 3
      OBVIOUS
    <3> QED
      BY <1>5, <2>3, <3>1, Zenon
  <2>5. parts[1] = "" /\ parts[2] = "api" /\ parts[3] = "fragments"
    <3>1. 1 \in 1 .. 3 /\ 2 \in 1 .. 3 /\ 3 \in 1 .. 3
      OBVIOUS
    <3> QED
      BY <1>5, <2>3, <3>1, NoParameterNames, Zenon
  <2>6. parts = <<"", "api", "fragments">>
    BY <1>2, <2>4, <2>5, ThreeParts, Zenon
  <2> QED
    BY <1>2, <2>1, <2>6, Zenon DEF IsFor, path
<1>8. CASE i = 4
  <2>1. Routes[i].op = "message" /\ req.method = "GET"
    BY <1>3, <1>8, RoutePatterns, RoutesAre DEF pattern
  <2>2. pattern = <<"", "api", "fragments", ":message_id", "all">>
    BY <1>3, <1>8, RoutePatterns, Zenon DEF pattern
  <2>3. /\ Len(pattern) = 5
        /\ pattern[1] = "" /\ pattern[2] = "api" /\ pattern[3] = "fragments"
        /\ pattern[4] = ":message_id" /\ pattern[5] = "all"
    BY <2>2
  <2>4. Len(parts) = 5
    <3>1. 1 \in 1 .. 5
      OBVIOUS
    <3> QED
      BY <1>5, <2>3, <3>1, Zenon
  <2>5. /\ parts[1] = "" /\ parts[2] = "api" /\ parts[3] = "fragments"
        /\ parts[4] # "" /\ parts[5] = "all"
    <3>1. 1 \in 1 .. 5 /\ 2 \in 1 .. 5 /\ 3 \in 1 .. 5 /\ 4 \in 1 .. 5 /\ 5 \in 1 .. 5
      OBVIOUS
    <3>2. DOMAIN pattern = 1 .. 5
      <4>1. DOMAIN <<"", "api", "fragments", ":message_id", "all">> = 1 .. 5
        OBVIOUS
      <4> QED
        BY <2>2, <4>1, Zenon
    <3>3. parts[4] # ""
      BY <1>4, <2>3, <3>1, <3>2, ParameterNames, Zenon
    <3> QED
      BY <1>5, <2>3, <3>1, <3>3, NoParameterNames, Zenon
  <2>6. Len(path) >= 5 /\ path[4] = parts[4]
    <3>1. Len(path) \in Nat /\ 4 \in 1 .. 5
      BY <1>1
    <3>2. Len(path) >= 5
      BY <1>2, <2>4, <3>1
    <3> QED
      BY <1>2, <2>4, <3>1, <3>2, Zenon
  <2>7. parts = <<"", "api", "fragments", path[4], "all">>
    BY <1>2, <2>4, <2>5, <2>6, FiveParts, Zenon
  <2> QED
    BY <1>2, <2>1, <2>5, <2>6, <2>7, Zenon DEF IsFor, path
<1>9. CASE i = 5
  <2>1. Routes[i].op = "delete" /\ req.method = "DELETE"
    BY <1>3, <1>9, RoutePatterns, RoutesAre DEF pattern
  <2>2. pattern = <<"", "api", "fragments", ":id">>
    BY <1>3, <1>9, RoutePatterns, Zenon DEF pattern
  <2>3. /\ Len(pattern) = 4
        /\ pattern[1] = "" /\ pattern[2] = "api" /\ pattern[3] = "fragments"
        /\ pattern[4] = ":id"
    BY <2>2
  <2>4. Len(parts) = 4
    <3>1. 1 \in 1 .. 4
      OBVIOUS
    <3> QED
      BY <1>5, <2>3, <3>1, Zenon
  <2>5. /\ parts[1] = "" /\ parts[2] = "api" /\ parts[3] = "fragments"
        /\ parts[4] # ""
    <3>1. 1 \in 1 .. 4 /\ 2 \in 1 .. 4 /\ 3 \in 1 .. 4 /\ 4 \in 1 .. 4
      OBVIOUS
    <3>2. DOMAIN pattern = 1 .. 4
      <4>1. DOMAIN <<"", "api", "fragments", ":id">> = 1 .. 4
        OBVIOUS
      <4> QED
        BY <2>2, <4>1, Zenon
    <3>3. parts[4] # ""
      BY <1>4, <2>3, <3>1, <3>2, ParameterNames, Zenon
    <3> QED
      BY <1>5, <2>3, <3>1, <3>3, NoParameterNames, Zenon
  <2>6. Len(path) >= 4 /\ path[4] = parts[4]
    <3>1. Len(path) \in Nat /\ 4 \in 1 .. 4
      BY <1>1
    <3>2. Len(path) >= 4
      BY <1>2, <2>4, <3>1
    <3> QED
      BY <1>2, <2>4, <3>1, <3>2, Zenon
  <2>7. parts = <<"", "api", "fragments", path[4]>>
    BY <1>2, <2>4, <2>5, <2>6, FourParts, Zenon
  <2> QED
    BY <1>2, <2>1, <2>5, <2>6, <2>7, Zenon DEF IsFor, path
<1> QED
  BY <1>3, <1>6, <1>7, <1>8, <1>9

-----------------------------------------------------------------------------
(***************************************************************************)
(* The course of a connection.  Reading stops at the end of a request that *)
(* fits and nowhere before, if the client sends it all: that is what the   *)
(* size of the body handled and the reply rest on.  And nothing is asked   *)
(* of the database before the handler's step.                              *)
(***************************************************************************)
Course(x) ==
  /\ x.pc \in {"new", "limiter"} => x.raw = 0 /\ ~x.admitted
  /\ x.pc \in {"new", "limiter", "reading", "read"} =>
       x.reply = 0 /\ x.call = "none"
  /\ x.raw <= Size(x.req)
  /\ x.client = "sound" /\ Fits(x.req) =>
       /\ x.pc = "read" => x.raw = Size(x.req)
       /\ x.pc \in {"sending", "closed"} /\ x.reply # 429 =>
            x.raw = Size(x.req) /\ x.body = x.req.size
       /\ x.pc = "closed" => x.delivered \/ x.reply = 429
  /\ x.call # "none" =>
       IsFor(x.req, x.call) /\ (x.call # "count" => Authorized(x.req))

Courses == \A c \in Connections : Course(conn[c])

\* The connection c takes a step to r, and what the limiter made of it stays.
StepsTo(c, r) ==
  /\ r \in Connection(c)
  /\ Course(r)
  /\ conn' = [conn EXCEPT ![c] = r]
  /\ now' = now

Keeps(x, r) ==
  /\ r.admitted = x.admitted /\ r.client = x.client /\ r.req = x.req
  /\ r.at = x.at /\ r.window = x.window

LEMMA ConnectionFields ==
  ASSUME Shape, NEW c \in Connections
  PROVE  /\ conn[c] \in Connection(c)
         /\ conn[c].req \in Requests[c] \cup {NoRequest}
         /\ conn[c].req.size \in Nat /\ conn[c].req.claim \in Nat
         /\ conn[c].raw \in Nat /\ conn[c].body \in Nat /\ conn[c].reply \in Nat
         /\ conn[c].window \in Nat
         /\ conn[c].at \in Nat /\ conn[c].at <= now /\ now \in Nat
         /\ conn[c].admitted \in BOOLEAN
         /\ table \in [Addresses -> Entry] /\ table[Address[c]] \in Entry
         /\ Address[c] \in Addresses
<1>1. conn[c] \in Connection(c)
  BY TypeParts DEF Shape
<1>2. now \in Nat
  BY TypeParts, ConstantTypes DEF Shape
<1>3. conn[c].req \in Requests[c] \cup {NoRequest}
  BY <1>1 DEF Connection
<1>4. conn[c].req.size \in Nat /\ conn[c].req.claim \in Nat
  BY <1>3, RequestTypes
<1>5. Address[c] \in Addresses
  BY DEF Addresses
<1>6. table \in [Addresses -> Entry] /\ table[Address[c]] \in Entry
  BY <1>5, TypeParts DEF Shape
<1> QED
  BY <1>1, <1>2, <1>3, <1>4, <1>5, <1>6 DEF Connection

LEMMA UnopenedFields ==
  /\ Unopened.pc = "new" /\ Unopened.raw = 0 /\ Unopened.reply = 0
  /\ Unopened.call = "none" /\ ~Unopened.admitted
  /\ Unopened.req = NoRequest /\ NoRequest.size = 0
  BY Zenon DEF Unopened, NoRequest

LEMMA CoursesInit == Init => Courses
<1>1. Course(Unopened)
  BY UnopenedFields, ConstantTypes DEF Course, Size
<1>2. Init => \A c \in Connections : conn[c] = Unopened
  BY DEF Init
<1> QED
  BY <1>1, <1>2 DEF Courses

LEMMA SomeStep ==
  ASSUME Shape, Courses, NEW c \in Connections, NEW r, StepsTo(c, r),
         table' \in [Addresses -> Entry]
  PROVE  /\ Shape' /\ Courses'
         /\ conn'[c] = r
         /\ \A d \in Connections \ {c} : conn'[d] = conn[d]
<1>1. Shape'
  BY OneConnection DEF StepsTo
<1>2. \A d \in Connections : conn'[d] = IF d = c THEN r ELSE conn[d]
  BY DEF Shape, StepsTo
<1>3. \A d \in Connections : Course(conn'[d])
  BY <1>2 DEF Courses, StepsTo
<1> QED
  BY <1>1, <1>2, <1>3 DEF Courses

LEMMA AcceptTo ==
  ASSUME Shape, Courses, NEW c \in Connections, Accept(c)
  PROVE  \E r : StepsTo(c, r) /\ ~r.admitted
<1>1. PICK req \in Requests[c], client \in Clients[c] :
        conn' = [conn EXCEPT ![c] = [Unopened EXCEPT !.pc = "limiter",
                                       !.client = client, !.req = req, !.at = now]]
  BY DEF Accept
<1> DEFINE r == [Unopened EXCEPT !.pc = "limiter", !.client = client,
                                 !.req = req, !.at = now]
<1>2. now \in Nat /\ client \in ClientKinds /\ req.size \in Nat
  BY ConnectionFields, ConstantTypes, RequestTypes
<1>3. Unopened \in Connection(c)
  BY <1>2, UnopenedType
<1>4. r \in Connection(c)
  <2>1. now \in 0 .. now /\ req \in Requests[c] \cup {NoRequest}
    BY <1>2
  <2> DEFINE u == Unopened
  <2>2. u \in Connection(c)
    BY <1>3
  <2> HIDE DEF u
  <2>3. [u EXCEPT !.pc = "limiter", !.client = client, !.req = req, !.at = now]
          \in Connection(c)
    BY <1>2, <2>1, <2>2 DEF Connection
  <2> QED
    BY <2>3 DEF u
<1>5. /\ r.pc = "limiter" /\ r.raw = Unopened.raw /\ r.reply = Unopened.reply
      /\ r.call = Unopened.call /\ r.admitted = Unopened.admitted
      /\ r.req = req /\ r.at = now
  BY <1>3 DEF Connection
<1>6. Course(r)
  <2> HIDE DEF r
  <2> QED
    BY <1>2, <1>5, UnopenedFields, ConstantTypes DEF Course, Size
<1>7. conn' = [conn EXCEPT ![c] = r] /\ now' = now
  BY <1>1 DEF Accept
<1>8. ~r.admitted
  BY <1>5, UnopenedFields
<1> HIDE DEF r
<1> QED
  BY <1>4, <1>5, <1>6, <1>7, <1>8 DEF StepsTo

LEMMA ReceiveTo ==
  ASSUME Shape, Courses, NEW c \in Connections, Receive(c)
  PROVE  \E r : StepsTo(c, r) /\ Keeps(conn[c], r)
<1> DEFINE x == conn[c]
<1>1. PICK n \in 1 .. Buffer :
        /\ n <= Size(x.req) - x.raw
        /\ conn' = [conn EXCEPT ![c].raw = x.raw + n,
              ![c].pc = IF IsRead(x.req, x.raw + n) THEN "read" ELSE @]
  <2>1. PICK n \in 1 .. Buffer :
          /\ IF x.client = "quits" THEN n < Size(x.req) - x.raw
                                   ELSE n <= Size(x.req) - x.raw
          /\ conn' = [conn EXCEPT ![c].raw = x.raw + n,
                ![c].pc = IF IsRead(x.req, x.raw + n) THEN "read" ELSE @]
    BY DEF Receive, RecvGives
  <2>2. Size(x.req) \in Nat /\ x.raw \in Nat
    BY ConnectionFields, ConstantTypes DEF Size
  <2>3. n <= Size(x.req) - x.raw
    BY <2>1, <2>2
  <2> QED
    BY <2>1, <2>3
<1> DEFINE p == IF IsRead(x.req, x.raw + n) THEN "read" ELSE "reading"
           r == [x EXCEPT !.raw = x.raw + n, !.pc = p]
<1>2. x.pc = "reading" /\ now' = now
  BY DEF Receive
<1>3. conn' = [conn EXCEPT ![c] = r]
  BY <1>1, <1>2
<1>4. n \in Nat /\ x.raw + n \in Nat /\ p \in {"read", "reading"}
  BY <1>1, ConnectionFields, ConstantTypes
<1>5. x \in Connection(c)
  BY ConnectionFields
<1> HIDE DEF p
<1>6. r \in Connection(c)
  BY <1>4, <1>5 DEF Connection
<1>7. /\ r.raw = x.raw + n /\ r.pc = p /\ r.reply = x.reply /\ r.call = x.call
      /\ r.delivered = x.delivered /\ Keeps(x, r)
  BY <1>5 DEF Connection, Keeps
<1>8. p = "read" /\ Fits(x.req) => r.raw = Size(x.req)
  <2> SUFFICES ASSUME p = "read", Fits(x.req)
               PROVE  r.raw = Size(x.req)
    OBVIOUS
  <2>1. IsRead(x.req, x.raw + n)
    BY DEF p
  <2> DEFINE s == Size(x.req)
  <2>2. s \in Nat /\ x.raw + n <= s /\ s <= MaxRequest /\ s < SizeLimit
    BY <1>1, <1>4, ConnectionFields, ConstantTypes DEF Size, Fits
  <2>3. Needed(x.req) = s
    <3>1. HeadSize + x.req.claim = s
      BY DEF Fits, Size
    <3> HIDE DEF s
    <3>2. s % SizeLimit = s
      BY <2>2, ConstantTypes
    <3> QED
      BY <3>1, <3>2 DEF Needed
  <2>4. x.raw + n >= s
    <3> HIDE DEF s
    <3> QED
      BY <2>1, <2>2, <2>3, <1>4, ConstantTypes DEF IsRead
  <2> QED
    BY <2>2, <2>4, <1>4, <1>7
<1>9. r.raw <= Size(x.req)
  BY <1>1, <1>4, <1>7, ConnectionFields, ConstantTypes DEF Size
<1>10. Course(r)
  <2>1. Course(x)
    BY DEF Courses
  <2> HIDE DEF r
  <2> QED
    BY <2>1, <1>2, <1>4, <1>7, <1>8, <1>9 DEF Course, Keeps
<1> QED
  BY <1>2, <1>3, <1>6, <1>7, <1>10 DEF StepsTo

LEMMA ReceiveEndsTo ==
  ASSUME Shape, Courses, NEW c \in Connections, ReceiveEnds(c)
  PROVE  \E r : StepsTo(c, r) /\ Keeps(conn[c], r)
<1> DEFINE x == conn[c]
           r == [x EXCEPT !.pc = "read"]
<1>1. x.pc = "reading" /\ now' = now /\ (x.client = "quits" \/ x.raw = Size(x.req))
  BY DEF ReceiveEnds, RecvEnds
<1>2. conn' = [conn EXCEPT ![c] = r]
  BY DEF ReceiveEnds, RecvEnds
<1>3. x \in Connection(c) /\ Course(x)
  BY ConnectionFields DEF Courses
<1>4. r \in Connection(c)
  BY <1>3 DEF Connection
<1>5. /\ r.raw = x.raw /\ r.pc = "read" /\ r.reply = x.reply /\ r.call = x.call
      /\ r.delivered = x.delivered /\ Keeps(x, r)
  BY <1>3 DEF Connection, Keeps
<1>6. Course(r)
  <2> HIDE DEF r
  <2> QED
    BY <1>1, <1>3, <1>5 DEF Course, Keeps
<1> QED
  BY <1>1, <1>2, <1>4, <1>5, <1>6 DEF StepsTo

\* Whatever part of a request was parsed, no other operation is asked for.
LEMMA ParsedCall ==
  ASSUME NEW c \in Connections, NEW req \in Requests[c] \cup {NoRequest},
         NEW raw \in Nat, NEW part \in Parsed(req, raw), NEW size \in Nat,
         NEW result \in Respond(part, size), result.call # "none"
  PROVE  IsFor(req, result.call) /\ (result.call # "count" => Authorized(req))
<1>1. /\ Serving(part) # {}
      /\ FirstServing(part) \in Serving(part)
      /\ result.call = Routes[FirstServing(part)].op
      /\ result.call # "count" => Authorized(part)
      /\ ParameterGiven(Routes[FirstServing(part)].pattern, part.path)
  BY RespondOutcome
<1>2. Serving(NoRequest) = {}
  <2>1. NoRequest.method = ""
    BY DEF NoRequest
  <2> QED
    BY <2>1, RoutesAre DEF Serving
<1>3. part # NoRequest
  BY <1>1, <1>2
<1>4. CASE part = req
  <2>1. req \in Requests[c]
    BY <1>3, <1>4
  <2> QED
    BY <1>1, <1>4, <2>1, ServedIsFor
<1>5. CASE part # req
  <2>1. PICK h \in {req.header, NoHeader} : part = [req EXCEPT !.header = h]
    <3>1. part \in {NoRequest} \cup
            { [req EXCEPT !.header = h] : h \in {req.header, NoHeader} }
      BY <1>5 DEF Parsed
    <3> QED
      BY <3>1, <1>3
  <2>2. CASE req = NoRequest
    <3>1. part.method = ""
      BY <2>1, <2>2 DEF NoRequest
    <3>2. Serving(part) = {}
      BY <3>1, RoutesAre DEF Serving
    <3> QED
      BY <3>2, <1>1
  <2>3. CASE req \in Requests[c]
    <3>1. req \in Request
      BY <2>3, ConstantTypes
    <3>2. part.method = req.method /\ part.path = req.path /\ part.header = h
      BY <2>1, <3>1 DEF Request
    <3>3. Serving(part) = Serving(req)
      BY <3>2 DEF Serving
    <3>4. FirstServing(part) = FirstServing(req)
      BY <3>3 DEF FirstServing
    <3>5. Authorized(part) => Authorized(req)
      <4>1. NoHeader.scheme = "none"
        BY DEF NoHeader
      <4> QED
        BY <4>1, <3>2 DEF Authorized
    <3>6. IsFor(req, Routes[FirstServing(req)].op)
      BY <1>1, <2>3, <3>2, <3>3, <3>4, ServedIsFor
    <3> QED
      BY <1>1, <3>4, <3>5, <3>6
  <2> QED
    BY <2>2, <2>3
<1> QED
  BY <1>4, <1>5

LEMMA HandleTo ==
  ASSUME Shape, Courses, NEW c \in Connections, HandleConnection(c)
  PROVE  \E r : StepsTo(c, r) /\ Keeps(conn[c], r)
<1> DEFINE x == conn[c]
           body == IF x.raw > HeadSize THEN x.raw - HeadSize ELSE 0
<1>1. PICK req \in Parsed(x.req, x.raw) :
        \E result \in Respond(req, body) :
          conn' = [conn EXCEPT ![c].pc = "sending", ![c].body = body,
                     ![c].call = result.call, ![c].reply = result.reply]
  BY DEF HandleConnection, BodyRead
<1>11. PICK result \in Respond(req, body) :
        conn' = [conn EXCEPT ![c].pc = "sending", ![c].body = body,
                   ![c].call = result.call, ![c].reply = result.reply]
  BY <1>1
<1> DEFINE r == [x EXCEPT !.pc = "sending", !.body = body,
                   !.call = result.call, !.reply = result.reply]
<1>2. x.pc = "read" /\ now' = now
  BY DEF HandleConnection, BodyRead
<1>3. conn' = [conn EXCEPT ![c] = r]
  BY <1>11
<1>4. x \in Connection(c) /\ Course(x)
  BY ConnectionFields DEF Courses
<1>5. body \in Nat
  BY ConnectionFields, ConstantTypes
<1>6. x.raw = Size(x.req) => body = x.req.size
  BY ConnectionFields, ConstantTypes DEF Size
<1> HIDE DEF body
<1>7. result.call \in Operations /\ result.reply \in Nat
  BY <1>5, RespondOutcome DEF Outcome
<1>8. r \in Connection(c)
  BY <1>4, <1>5, <1>7 DEF Connection
<1>9. /\ r.raw = x.raw /\ r.pc = "sending" /\ r.body = body
      /\ r.call = result.call /\ Keeps(x, r)
  BY <1>4 DEF Connection, Keeps
<1>12. result.call # "none" =>
         IsFor(x.req, result.call) /\ (result.call # "count" => Authorized(x.req))
  BY <1>5, ConnectionFields, ParsedCall
<1>10. Course(r)
  <2> HIDE DEF r
  <2> QED
    BY <1>2, <1>4, <1>6, <1>9, <1>12 DEF Course, Keeps
<1> QED
  BY <1>2, <1>3, <1>8, <1>9, <1>10 DEF StepsTo

LEMMA CloseTo ==
  ASSUME Shape, Courses, NEW c \in Connections, Close(c)
  PROVE  \E r : StepsTo(c, r) /\ Keeps(conn[c], r)
<1> DEFINE x == conn[c]
           offers == IF x.client = "deaf" THEN {FALSE}
                     ELSE IF x.raw < Size(x.req) THEN BOOLEAN ELSE {TRUE}
<1>1. PICK delivered \in offers :
        conn' = [conn EXCEPT ![c].pc = "closed", ![c].delivered = delivered]
  BY DEF Close
<1> DEFINE r == [x EXCEPT !.pc = "closed", !.delivered = delivered]
<1>2. x.pc = "sending" /\ now' = now
  BY DEF Close
<1>3. conn' = [conn EXCEPT ![c] = r]
  BY <1>1
<1>4. x \in Connection(c) /\ Course(x)
  BY ConnectionFields DEF Courses
<1>5. offers \subseteq BOOLEAN
  OBVIOUS
<1>6. x.client = "sound" /\ x.raw = Size(x.req) => delivered
  <2> SUFFICES ASSUME x.client = "sound", x.raw = Size(x.req)
               PROVE  delivered
    OBVIOUS
  <2>1. ~(x.raw < Size(x.req))
    BY ConnectionFields, ConstantTypes DEF Size
  <2>2. offers = {TRUE}
    BY <2>1
  <2> QED
    BY <2>2
<1> HIDE DEF offers
<1>7. delivered \in BOOLEAN
  BY <1>5
<1>8. r \in Connection(c)
  BY <1>4, <1>7 DEF Connection
<1>9. /\ r.raw = x.raw /\ r.pc = "closed" /\ r.body = x.body
      /\ r.reply = x.reply /\ r.call = x.call /\ Keeps(x, r)
  BY <1>4 DEF Connection, Keeps
<1>10. r.delivered = delivered
  BY <1>4 DEF Connection
<1>11. Course(r)
  <2> HIDE DEF r
  <2> QED
    BY <1>2, <1>4, <1>6, <1>9, <1>10 DEF Course, Keeps
<1> QED
  BY <1>2, <1>3, <1>8, <1>9, <1>11 DEF StepsTo

\* The limiter's step: without a limit nothing is counted, otherwise the
\* address's entry counts the request, and r is admitted in its window.
LEMMA LimitTo ==
  ASSUME Shape, Courses, NEW c \in Connections, Limit(c)
  PROVE  LET e == table[Address[c]]
             t == conn[c].at
         IN
         \E r : /\ StepsTo(c, r) /\ r.at = t /\ ~conn[c].admitted
               /\ \/ MaxRequests = 0 /\ table' = table
                  \/ /\ table' = [table EXCEPT ![Address[c]] = Counted(e, t)]
                     /\ MaxRequests # 0
                     /\ r.admitted => Allowed(e, t) /\ r.window = Counted(e, t).start
                     /\ ~r.admitted => ~Allowed(e, t)
<1> DEFINE x == conn[c]
           e == table[Address[c]]
           t == x.at
<1>1. x.pc = "limiter" /\ now' = now
  BY DEF Limit
<1>2. x \in Connection(c) /\ Course(x)
  BY ConnectionFields DEF Courses
<1>3. x.raw = 0 /\ x.reply = 0 /\ x.call = "none" /\ ~x.admitted
  BY <1>1, <1>2 DEF Course
<1>4. CASE MaxRequests = 0
  <2> DEFINE r == [x EXCEPT !.pc = "reading"]
  <2>1. conn' = [conn EXCEPT ![c] = r] /\ table' = table
    BY <1>4 DEF Limit
  <2>2. r \in Connection(c)
    BY <1>2 DEF Connection
  <2>3. /\ r.pc = "reading" /\ r.raw = x.raw /\ r.reply = x.reply /\ r.call = x.call
        /\ r.req = x.req /\ r.at = x.at
    BY <1>2 DEF Connection
  <2> HIDE DEF r
  <2>4. Course(r)
    BY <1>2, <1>3, <2>3 DEF Course
  <2> QED
    BY <1>1, <1>3, <1>4, <2>1, <2>2, <2>3, <2>4 DEF StepsTo
<1>5. CASE MaxRequests # 0 /\ Allowed(e, t)
  <2> DEFINE w == Counted(e, t).start
             r == [x EXCEPT !.pc = "reading", !.admitted = TRUE, !.window = w]
  <2>1. /\ conn' = [conn EXCEPT ![c] = r]
        /\ table' = [table EXCEPT ![Address[c]] = Counted(e, t)]
    BY <1>5 DEF Limit
  <2>2. w \in Nat
    BY ConnectionFields, CountedType DEF Entry
  <2> HIDE DEF w
  <2>3. r \in Connection(c)
    BY <1>2, <2>2 DEF Connection
  <2>4. /\ r.pc = "reading" /\ r.raw = x.raw /\ r.reply = x.reply /\ r.call = x.call
        /\ r.req = x.req /\ r.at = x.at /\ r.window = w
    BY <1>2 DEF Connection
  <2>6. r.admitted
    BY <1>2 DEF Connection
  <2> HIDE DEF r
  <2>5. Course(r)
    BY <1>2, <1>3, <2>4 DEF Course
  <2> QED
    BY <1>1, <1>3, <1>5, <2>1, <2>3, <2>4, <2>5, <2>6 DEF StepsTo, w
<1>6. CASE MaxRequests # 0 /\ ~Allowed(e, t)
  <2> DEFINE status == 429
             r == [x EXCEPT !.pc = "sending", !.reply = status]
  <2>1. /\ conn' = [conn EXCEPT ![c] = r]
        /\ table' = [table EXCEPT ![Address[c]] = Counted(e, t)]
    BY <1>6 DEF Limit
  <2>6. status \in Nat
    OBVIOUS
  <2> HIDE DEF status
  <2>2. r \in Connection(c)
    BY <1>2, <2>6 DEF Connection
  <2>3. /\ r.pc = "sending" /\ r.raw = x.raw /\ r.reply = status
        /\ r.req = x.req /\ r.at = x.at /\ r.admitted = x.admitted
        /\ r.call = x.call
    BY <1>2 DEF Connection
  <2> HIDE DEF r
  <2>4. Course(r)
    BY <1>2, <1>3, <2>3 DEF Course, status
  <2>5. ~r.admitted
    BY <1>3, <2>3
  <2> QED
    BY <1>1, <1>3, <1>6, <2>1, <2>2, <2>3, <2>4, <2>5 DEF StepsTo
<1> QED
  BY <1>4, <1>5, <1>6

-----------------------------------------------------------------------------
(***************************************************************************)
(* The limiter.  The windows of an address never overlap, each admits at   *)
(* most MaxRequests, and the one under way has counted all it admitted.    *)
(* That a minute meets at most two windows gives the bound.                *)
(***************************************************************************)
Windows ==
  \A c \in Connections :
    conn[c].admitted =>
      /\ conn[c].at < conn[c].window + Window
      /\ \/ conn[c].window = table[Address[c]].start
         \/ conn[c].window + Window <= table[Address[c]].start
      /\ \A d \in Connections :
           conn[d].admitted /\ Address[d] = Address[c] =>
             \/ conn[c].window = conn[d].window
             \/ conn[c].window + Window <= conn[d].window
             \/ conn[d].window + Window <= conn[c].window

WithinLimit ==
  \A a \in Addresses, w \in Nat :
    /\ w = table[a].start => Cardinality(InWindow(a, w)) <= table[a].count
    /\ Cardinality(InWindow(a, w)) <= MaxRequests

Limited == MaxRequests # 0 => Windows /\ WithinLimit

LEMMA InWindowFinite ==
  ASSUME NEW a, NEW w
  PROVE  IsFiniteSet(InWindow(a, w)) /\ Cardinality(InWindow(a, w)) \in Nat
<1>1. InWindow(a, w) \subseteq Connections
  BY DEF InWindow
<1>2. IsFiniteSet(InWindow(a, w))
  BY <1>1, ConnectionAssumption, FS_Subset
<1> QED
  BY <1>2, FS_CardinalityType

LEMMA LimitedInit == Init => Limited
<1> SUFFICES ASSUME Init
             PROVE  Windows /\ WithinLimit
  BY DEF Limited
<1>1. \A c \in Connections : ~conn[c].admitted
  BY UnopenedFields DEF Init
<1>2. \A a, w : InWindow(a, w) = {}
  BY <1>1 DEF InWindow
<1>3. Cardinality({}) = 0
  BY FS_EmptySet
<1>4. \A a \in Addresses : table[a].count = 0
  BY DEF Init, NewEntry
<1>5. Windows
  BY <1>1 DEF Windows
<1>6. WithinLimit
  BY <1>2, <1>3, <1>4, ConstantTypes DEF WithinLimit
<1> QED
  BY <1>5, <1>6

LEMMA LimitedQuiet ==
  ASSUME Limited, table' = table,
         \A d \in Connections :
           /\ conn'[d].admitted <=> conn[d].admitted
           /\ conn[d].admitted => /\ conn'[d].window = conn[d].window
                                  /\ conn'[d].at = conn[d].at
  PROVE  Limited'
<1> SUFFICES ASSUME MaxRequests # 0
             PROVE  Windows' /\ WithinLimit'
  BY DEF Limited
<1>1. Windows /\ WithinLimit
  BY DEF Limited
<1>2. Windows'
  BY <1>1 DEF Windows
<1>3. \A a, w : InWindow(a, w)' = InWindow(a, w)
  BY DEF InWindow
<1>4. WithinLimit'
  BY <1>1, <1>3 DEF WithinLimit
<1> QED
  BY <1>2, <1>4

LEMMA LimitedLimit ==
  ASSUME Shape, Courses, Limited, NEW c \in Connections, Limit(c)
  PROVE  Limited'
<1> DEFINE a0 == Address[c]
           e == table[a0]
           t == conn[c].at
<1>1. PICK r :
        /\ StepsTo(c, r) /\ r.at = t /\ ~conn[c].admitted
        /\ \/ MaxRequests = 0 /\ table' = table
           \/ /\ table' = [table EXCEPT ![a0] = Counted(e, t)]
              /\ MaxRequests # 0
              /\ r.admitted => Allowed(e, t) /\ r.window = Counted(e, t).start
              /\ ~r.admitted => ~Allowed(e, t)
  BY LimitTo
<1> SUFFICES ASSUME MaxRequests # 0
             PROVE  Windows' /\ WithinLimit'
  BY DEF Limited
<1>2. Windows /\ WithinLimit
  BY DEF Limited
<1>3. /\ conn'[c] = r
      /\ \A d \in Connections \ {c} : conn'[d] = conn[d]
  BY <1>1 DEF Shape, StepsTo
<1>4. e \in Entry /\ t \in Nat /\ a0 \in Addresses /\ table \in [Addresses -> Entry]
  BY ConnectionFields
<1>5. /\ table'[a0] = Counted(e, t)
      /\ \A a \in Addresses \ {a0} : table'[a] = table[a]
  BY <1>1, <1>4
<1>6. e.start \in Nat /\ e.count \in Nat /\ Window \in Nat \ {0} /\ MaxRequests \in Nat
  BY <1>4, ConstantTypes DEF Entry
<1>7. ~r.admitted => /\ table'[a0].start = e.start
                     /\ table'[a0].count = e.count + 1
  BY <1>1, <1>4, <1>5, CountedType DEF Allowed
<1>8. r.admitted =>
        /\ r.window = table'[a0].start
        /\ t < r.window + Window
        /\ \/ /\ r.window = t /\ table'[a0].count = 1 /\ e.start + Window <= t
           \/ /\ r.window = e.start /\ table'[a0].count = e.count + 1
              /\ e.count + 1 <= MaxRequests
  <2> SUFFICES ASSUME r.admitted
               PROVE  /\ r.window = table'[a0].start
                      /\ t < r.window + Window
                      /\ \/ /\ r.window = t /\ table'[a0].count = 1
                            /\ e.start + Window <= t
                         \/ /\ r.window = e.start /\ table'[a0].count = e.count + 1
                            /\ e.count + 1 <= MaxRequests
    OBVIOUS
  <2>1. CASE Over(e, t)
    <3>1. Counted(e, t) = [start |-> t, count |-> 1]
      BY <2>1, <1>4, CountedType
    <3> QED
      BY <3>1, <2>1, <1>1, <1>4, <1>5, <1>6 DEF Over
  <2>2. CASE ~Over(e, t)
    <3>1. /\ Counted(e, t).start = e.start /\ Counted(e, t).count = e.count + 1
          /\ Counted(e, t).count <= MaxRequests
      BY <2>2, <1>1, <1>4, CountedType DEF Allowed
    <3> QED
      BY <3>1, <2>2, <1>1, <1>4, <1>5, <1>6 DEF Over
  <2> QED
    BY <2>1, <2>2
<1>9. \A a, w : InWindow(a, w)' =
        IF r.admitted /\ a = a0 /\ w = r.window THEN InWindow(a, w) \cup {c}
        ELSE InWindow(a, w)
  <2> TAKE a, w
  <2>1. \A d \in Connections :
          d \in InWindow(a, w)' <=>
            \/ d # c /\ d \in InWindow(a, w)
            \/ d = c /\ r.admitted /\ a = a0 /\ w = r.window
    BY <1>3 DEF InWindow
  <2>2. c \notin InWindow(a, w)
    BY <1>1 DEF InWindow
  <2>3. InWindow(a, w) \subseteq Connections /\ InWindow(a, w)' \subseteq Connections
    BY DEF InWindow
  <2> QED
    BY <2>1, <2>2, <2>3
<1>10. \A d \in Connections :
         conn[d].admitted /\ Address[d] = a0 =>
           conn[d].window \in Nat /\ conn[d].window <= e.start
  BY <1>2, <1>6, ConnectionFields DEF Windows
<1>11. Windows'
  <2>1. \A d \in Connections : conn[d].window \in Nat
    BY ConnectionFields
  <2>2. \A d \in Connections \ {c} : conn'[d].admitted =>
          /\ conn'[d].at < conn'[d].window + Window
          /\ \/ conn'[d].window = table'[Address[d]].start
             \/ conn'[d].window + Window <= table'[Address[d]].start
    <3> TAKE d \in Connections \ {c}
    <3> HAVE conn'[d].admitted
    <3>1. /\ conn[d].admitted
          /\ conn[d].at < conn[d].window + Window
          /\ \/ conn[d].window = table[Address[d]].start
             \/ conn[d].window + Window <= table[Address[d]].start
      BY <1>2, <1>3 DEF Windows
    <3>2. Address[d] \in Addresses
      BY ConnectionFields
    <3>3. CASE Address[d] # a0
      BY <3>1, <3>2, <3>3, <1>3, <1>5
    <3>4. CASE Address[d] = a0 /\ ~r.admitted
      BY <3>1, <3>4, <1>3, <1>7
    <3>5. CASE Address[d] = a0 /\ r.admitted
      BY <3>1, <3>5, <1>3, <1>4, <1>6, <1>8, <2>1
    <3> QED
      BY <3>3, <3>4, <3>5
  <2>3. r.admitted =>
          /\ conn'[c].at < conn'[c].window + Window
          /\ conn'[c].window = table'[Address[c]].start
    BY <1>1, <1>3, <1>8
  <2>4. \A d \in Connections \ {c} :
          r.admitted /\ conn[d].admitted /\ Address[d] = a0 =>
            r.window = conn[d].window \/ conn[d].window + Window <= r.window
    <3> TAKE d \in Connections \ {c}
    <3> HAVE r.admitted /\ conn[d].admitted /\ Address[d] = a0
    <3>1. conn[d].window = e.start \/ conn[d].window + Window <= e.start
      BY <1>2 DEF Windows
    <3> QED
      BY <3>1, <1>4, <1>6, <1>8, <2>1
  <2>5. \A d, f \in Connections :
          conn'[d].admitted /\ conn'[f].admitted /\ Address[f] = Address[d] =>
             \/ conn'[d].window = conn'[f].window
             \/ conn'[d].window + Window <= conn'[f].window
             \/ conn'[f].window + Window <= conn'[d].window
    <3> TAKE d, f \in Connections
    <3> HAVE conn'[d].admitted /\ conn'[f].admitted /\ Address[f] = Address[d]
    <3>1. CASE d # c /\ f # c
      BY <3>1, <1>2, <1>3 DEF Windows
    <3>2. CASE d = c /\ f # c
      BY <3>2, <1>3, <2>4
    <3>3. CASE d # c /\ f = c
      BY <3>3, <1>3, <2>4
    <3> QED
      BY <3>1, <3>2, <3>3
  <2> QED
    BY <2>2, <2>3, <2>5, <1>3 DEF Windows
<1>12. WithinLimit'
  <2> SUFFICES ASSUME NEW a \in Addresses, NEW w \in Nat
               PROVE  /\ w = table'[a].start =>
                           Cardinality(InWindow(a, w)') <= table'[a].count
                      /\ Cardinality(InWindow(a, w)') <= MaxRequests
    BY DEF WithinLimit
  <2> DEFINE W == InWindow(a, w)
  <2>1. /\ w = table[a].start => Cardinality(W) <= table[a].count
        /\ Cardinality(W) <= MaxRequests
    BY <1>2 DEF WithinLimit
  <2>2. c \notin W
    BY <1>1 DEF InWindow
  <2>3. IsFiniteSet(W) /\ Cardinality(W) \in Nat
    BY InWindowFinite
  <2>4. CASE a # a0
    <3>1. InWindow(a, w)' = W
      BY <2>4, <1>9
    <3>2. table'[a] = table[a]
      BY <2>4, <1>5
    <3> QED
      BY <3>1, <3>2, <2>1
  <2>5. CASE a = a0 /\ ~r.admitted
    <3>1. InWindow(a, w)' = W
      BY <2>5, <1>9
    <3> HIDE DEF W
    <3> QED
      BY <3>1, <2>1, <2>3, <2>5, <1>6, <1>7
  <2>6. CASE a = a0 /\ r.admitted /\ w # r.window
    <3>1. InWindow(a, w)' = W
      BY <2>6, <1>9
    <3> QED
      BY <3>1, <2>1, <2>6, <1>8
  <2>7. CASE a = a0 /\ r.admitted /\ w = r.window
    <3>1. InWindow(a, w)' = W \cup {c}
      BY <2>7, <1>9
    <3>2. Cardinality(W \cup {c}) = Cardinality(W) + 1
      BY <2>2, <2>3, FS_AddElement
    <3>3. CASE r.window = e.start /\ table'[a0].count = e.count + 1
               /\ e.count + 1 <= MaxRequests
      <4>1. Cardinality(W) <= e.count
        BY <2>1, <2>7, <3>3
      <4> HIDE DEF W
      <4> QED
        BY <4>1, <3>1, <3>2, <3>3, <2>3, <2>7, <1>6
    <3>4. CASE r.window = t /\ table'[a0].count = 1 /\ e.start + Window <= t
      <4>1. W = {}
        BY <1>4, <1>6, <1>10, <2>7, <3>4 DEF InWindow
      <4>2. Cardinality(W \cup {c}) = 1
        BY <4>1, <3>2, FS_EmptySet
      <4> HIDE DEF W
      <4> QED
        BY <4>2, <3>1, <3>4, <2>7, <1>6
    <3> QED
      BY <3>3, <3>4, <2>7, <1>8
  <2> QED
    BY <2>4, <2>5, <2>6, <2>7
<1> QED
  BY <1>11, <1>12

-----------------------------------------------------------------------------
(***************************************************************************)
(* The invariant, and what follows from it.                                *)
(***************************************************************************)
Inv == Shape /\ Courses /\ Limited

LEMMA TickStep ==
  ASSUME Inv, Tick
  PROVE  Inv'
<1>1. now' \in 0 .. MaxTime /\ now' = now + 1 /\ now \in Nat
  BY ConstantTypes DEF Inv, Shape, TypeOK, Tick
<1>2. table' = table /\ conn' = conn
  BY DEF Tick
<1>3. \A c \in Connections : Connection(c) \subseteq Connection(c)'
  <2> TAKE c \in Connections
  <2>1. 0 .. now \subseteq 0 .. now'
    BY <1>1
  <2> QED
    BY <2>1 DEF Connection
<1>4. Shape'
  BY <1>1, <1>2, <1>3, TypeParts DEF Inv, Shape, TypeOK, Connection
<1>5. Courses'
  BY <1>2 DEF Inv, Courses
<1>6. Limited'
  BY <1>2, LimitedQuiet DEF Inv
<1> QED
  BY <1>4, <1>5, <1>6 DEF Inv

LEMMA ConnectionStep ==
  ASSUME Inv, NEW c \in Connections, Accept(c) \/ Serve(c)
  PROVE  Inv'
<1> USE DEF Inv
<1> DEFINE Quiet(r) == /\ r.admitted <=> conn[c].admitted
                       /\ conn[c].admitted => /\ r.window = conn[c].window
                                              /\ r.at = conn[c].at
<1>1. ASSUME NEW r, StepsTo(c, r), table' = table, Quiet(r)
      PROVE  Inv'
  <2>1. table' \in [Addresses -> Entry]
    BY <1>1, ConnectionFields
  <2>2. /\ Shape' /\ Courses' /\ conn'[c] = r
        /\ \A d \in Connections \ {c} : conn'[d] = conn[d]
    BY <1>1, <2>1, SomeStep
  <2>3. Limited'
    BY <1>1, <2>2, LimitedQuiet
  <2> QED
    BY <2>2, <2>3
<1>2. \A r : Keeps(conn[c], r) => Quiet(r)
  BY DEF Keeps
<1>3. CASE Accept(c)
  <2>1. PICK r : StepsTo(c, r) /\ ~r.admitted
    BY <1>3, AcceptTo
  <2>2. ~conn[c].admitted
    BY <1>3 DEF Accept, Courses, Course
  <2>3. table' = table /\ Quiet(r)
    BY <1>3, <2>1, <2>2 DEF Accept
  <2> QED
    BY <1>1, <2>1, <2>3
<1>4. CASE Limit(c)
  <2>1. PICK r : /\ StepsTo(c, r)
                 /\ \/ table' = table
                    \/ table' = [table EXCEPT ![Address[c]] =
                                   Counted(table[Address[c]], conn[c].at)]
    BY <1>4, LimitTo
  <2>2. Counted(table[Address[c]], conn[c].at) \in Entry
    BY ConnectionFields, CountedType
  <2>3. table' \in [Addresses -> Entry]
    BY <2>1, <2>2, ConnectionFields
  <2>4. Shape' /\ Courses'
    BY <2>1, <2>3, SomeStep
  <2> QED
    BY <1>4, <2>4, LimitedLimit
<1>5. CASE Receive(c)
  <2>1. table' = table
    BY <1>5 DEF Receive
  <2> QED
    BY <1>1, <1>2, <1>5, <2>1, ReceiveTo
<1>6. CASE ReceiveEnds(c)
  <2>1. table' = table
    BY <1>6 DEF ReceiveEnds
  <2> QED
    BY <1>1, <1>2, <1>6, <2>1, ReceiveEndsTo
<1>7. CASE HandleConnection(c)
  <2>1. table' = table
    BY <1>7 DEF HandleConnection
  <2> QED
    BY <1>1, <1>2, <1>7, <2>1, HandleTo
<1>8. CASE Close(c)
  <2>1. table' = table
    BY <1>8 DEF Close
  <2> QED
    BY <1>1, <1>2, <1>8, <2>1, CloseTo
<1> QED
  BY <1>3, <1>4, <1>5, <1>6, <1>7, <1>8 DEF Serve

LEMMA InvStep == Inv /\ [Next]_vars => Inv'
<1> SUFFICES ASSUME Inv, [Next]_vars
             PROVE  Inv'
  OBVIOUS
<1>1. CASE Tick
  BY <1>1, TickStep
<1>2. CASE \E c \in Connections : Accept(c) \/ Serve(c)
  BY <1>2, ConnectionStep
<1>3. CASE UNCHANGED vars
  <2>1. now' = now /\ table' = table /\ conn' = conn
    BY <1>3 DEF vars
  <2> QED
    BY <2>1 DEF Inv, Shape, TypeOK, Courses, Limited, Windows, WithinLimit, InWindow
<1> QED
  BY <1>1, <1>2, <1>3 DEF Next

LEMMA InvHolds == Spec => []Inv
<1>1. Init => Inv
  BY ShapeInit, CoursesInit, LimitedInit DEF Inv
<1> QED
  BY <1>1, InvStep, PTL DEF Spec

\* Every state has the shape that TypeOK describes, for any connections,
\* requests and sizes.
THEOREM ConnectionTypes == Spec => []TypeOK
<1>1. Inv => TypeOK
  BY DEF Inv, Shape
<1> QED
  BY <1>1, InvHolds, PTL

\* Whatever pieces recv returns, the handler of a request that fits and is sent
\* to its end has all of its body (read_and_parse).
THEOREM WholeBodies == Spec => []WholeBodyHandled
<1>1. Inv => WholeBodyHandled
  BY DEF Inv, Courses, Course, WholeBodyHandled
<1> QED
  BY <1>1, InvHolds, PTL

\* A client that sends a request that fits and waits gets its answer, or is
\* refused by the limiter (handle_connection).
THEOREM SoundClients == Spec => []SoundIsAnswered
<1>1. Inv => SoundIsAnswered
  BY DEF Inv, Courses, Course, SoundIsAnswered
<1> QED
  BY <1>1, InvHolds, PTL

\* No part of a request, however little of it came, makes a handler ask for
\* anything but what the request is for, or for more than the count without a
\* token (handle_connection, match_pattern, handlers.cpp).
THEOREM NothingElseAsked == Spec => []OnlyWhatIsAsked
<1>1. Inv => OnlyWhatIsAsked
  BY DEF Inv, Courses, Course, OnlyWhatIsAsked
<1> QED
  BY <1>1, InvHolds, PTL

\* A window admits no more than the limit, whichever threads waited for the lock
\* while it began, and the windows of an address do not overlap
\* (rate_limiter.hpp:26-44).
THEOREM EachWindowKeepsLimit == Spec => []WindowsKeepLimit
<1>1. ASSUME Inv, MaxRequests > 0, NEW c \in Connections, conn[c].admitted
      PROVE  /\ Cardinality(InWindow(Address[c], conn[c].window)) <= MaxRequests
             /\ conn[c].at < conn[c].window + Window
             /\ \A d \in Connections :
                  conn[d].admitted /\ Address[d] = Address[c] =>
                    \/ conn[d].window = conn[c].window
                    \/ conn[d].window + Window <= conn[c].window
                    \/ conn[c].window + Window <= conn[d].window
  <2>1. Windows /\ WithinLimit
    BY <1>1 DEF Inv, Limited
  <2>2. Address[c] \in Addresses /\ conn[c].window \in Nat
    BY <1>1, ConnectionFields DEF Inv
  <2>3. Cardinality(InWindow(Address[c], conn[c].window)) <= MaxRequests
    BY <2>1, <2>2 DEF WithinLimit
  <2> QED
    BY <1>1, <2>1, <2>3 DEF Windows
<1>2. Inv => WindowsKeepLimit
  BY <1>1 DEF WindowsKeepLimit
<1> QED
  BY <1>2, InvHolds, PTL

\* Those of the requests that read their time from t on, for the length of a
\* window, that no window begun later took up.
InTime(a, t) == { c \in Admitted(a, t) : conn[c].window < t + Window }

\* At most two windows admit those that one length of a window gives.
LEMMA TwoWindows ==
  ASSUME Inv, MaxRequests # 0, NEW a \in Addresses, NEW t \in Nat
  PROVE  \E u, w \in Nat : InTime(a, t) \subseteq InWindow(a, u) \cup InWindow(a, w)
<1>1. \A c \in InTime(a, t) :
        /\ c \in Connections /\ Address[c] = a /\ conn[c].admitted
        /\ conn[c].window \in Nat /\ conn[c].at \in Nat
        /\ conn[c].window < t + Window /\ t < conn[c].window + Window
  <2> TAKE c \in InTime(a, t)
  <2>1. /\ c \in Connections /\ Address[c] = a /\ conn[c].admitted
        /\ conn[c].window < t + Window /\ t <= conn[c].at
    BY DEF InTime, Admitted
  <2>2. conn[c].at < conn[c].window + Window
    BY <2>1 DEF Inv, Limited, Windows
  <2>3. conn[c].window \in Nat /\ conn[c].at \in Nat
    BY <2>1, ConnectionFields DEF Inv
  <2> QED
    BY <2>1, <2>2, <2>3, ConstantTypes
<1>2. \A c, d \in InTime(a, t) :
        \/ conn[c].window = conn[d].window
        \/ conn[c].window + Window <= conn[d].window
        \/ conn[d].window + Window <= conn[c].window
  BY <1>1 DEF Inv, Limited, Windows
<1>3. CASE InTime(a, t) = {}
  <2>1. 0 \in Nat
    OBVIOUS
  <2> QED
    BY <1>3, <2>1
<1>4. CASE InTime(a, t) # {}
  <2>1. PICK c \in InTime(a, t) : TRUE
    BY <1>4
  <2> DEFINE u == conn[c].window
  <2>2. u \in Nat
    BY <1>1
  <2>3. CASE \A d \in InTime(a, t) : conn[d].window = u
    <3>1. InTime(a, t) \subseteq InWindow(a, u)
      BY <1>1, <2>3 DEF InWindow
    <3> QED
      BY <2>2, <3>1
  <2>4. CASE \E d \in InTime(a, t) : conn[d].window # u
    <3>1. PICK d \in InTime(a, t) : conn[d].window # u
      BY <2>4
    <3> DEFINE w == conn[d].window
    <3>2. w \in Nat /\ (u + Window <= w \/ w + Window <= u)
      BY <1>1, <1>2, <3>1
    <3>3. \A f \in InTime(a, t) : conn[f].window = u \/ conn[f].window = w
      <4> TAKE f \in InTime(a, t)
      <4> DEFINE v == conn[f].window
      <4>1. /\ v \in Nat /\ v < t + Window /\ t < v + Window
            /\ u < t + Window /\ t < u + Window
            /\ w < t + Window /\ t < w + Window
        BY <1>1
      <4>2. v = u \/ v + Window <= u \/ u + Window <= v
        BY <1>2
      <4>3. v = w \/ v + Window <= w \/ w + Window <= v
        BY <1>2
      <4> HIDE DEF u, w, v
      <4>4. v = u \/ v = w
        BY <4>1, <4>2, <4>3, <2>2, <3>2, ConstantTypes
      <4> QED
        BY <4>4 DEF v
    <3>4. InTime(a, t) \subseteq InWindow(a, u) \cup InWindow(a, w)
      BY <1>1, <3>3 DEF InWindow
    <3> QED
      BY <2>2, <3>2, <3>4
  <2> QED
    BY <2>3, <2>4
<1> QED
  BY <1>3, <1>4

\* Of the requests of an address that read their time within the length of a
\* window, those that no later window takes up are at most twice the limit, in
\* whatever order the threads read the clock and get the lock.  Those that waited
\* for the lock until a window began after that time count in that window, whose
\* own limit they keep: all in all they may be more (rate_limiter.hpp:26-44).
THEOREM TwiceTheLimit == Spec => []AtMostTwice
<1>1. ASSUME Inv, MaxRequests # 0, NEW a \in Addresses, NEW t \in 0 .. MaxTime
      PROVE  Cardinality(InTime(a, t)) <= 2 * MaxRequests
  <2>0. t \in Nat
    BY ConstantTypes
  <2>1. PICK u, w \in Nat :
          InTime(a, t) \subseteq InWindow(a, u) \cup InWindow(a, w)
    BY <1>1, <2>0, TwoWindows
  <2> DEFINE U == InWindow(a, u)
             W == InWindow(a, w)
  <2>2. /\ IsFiniteSet(U) /\ Cardinality(U) \in Nat /\ Cardinality(U) <= MaxRequests
        /\ IsFiniteSet(W) /\ Cardinality(W) \in Nat /\ Cardinality(W) <= MaxRequests
    BY <1>1, InWindowFinite DEF Inv, Limited, WithinLimit
  <2> HIDE DEF U, W
  <2>3. /\ IsFiniteSet(U \cup W)
        /\ Cardinality(U \cup W) =
             Cardinality(U) + Cardinality(W) - Cardinality(U \cap W)
    BY <2>2, FS_Union
  <2>4. Cardinality(U \cap W) \in Nat
    BY <2>2, FS_Intersection, FS_CardinalityType
  <2>5. /\ Cardinality(InTime(a, t)) \in Nat
        /\ Cardinality(InTime(a, t)) <= Cardinality(U \cup W)
    BY <2>1, <2>3, FS_Subset, FS_CardinalityType DEF U, W
  <2> QED
    BY <2>2, <2>3, <2>4, <2>5, ConstantTypes
<1>2. Inv => AtMostTwice
  BY <1>1 DEF AtMostTwice, InTime
<1> QED
  BY <1>2, InvHolds, PTL

-----------------------------------------------------------------------------
(***************************************************************************)
(* Threads end.  Every request is answered, whatever came of it: that asks *)
(* for what the cases of the handlers leave open to be nothing.            *)
(***************************************************************************)
LEMMA RefuseAnswers == \A status : Refuse(status) # {}
  BY DEF Refuse

LEMMA CallAnswers == \A op \in RouteOperations : Call(op) # {}
<1> SUFFICES ASSUME NEW op \in RouteOperations
             PROVE  \E status : status \in Answers(op)
  BY DEF Call
<1>1. CASE op = "insert"
  BY <1>1 DEF Answers
<1>2. CASE op = "delete"
  BY <1>2 DEF Answers
<1>3. CASE op \in {"scan", "message"}
  BY <1>3 DEF Answers
<1>4. CASE op = "count"
  BY <1>4 DEF Answers
<1> QED
  BY <1>1, <1>2, <1>3, <1>4 DEF RouteOperations

LEMMA PostAnswers ==
  ASSUME NEW req, req.size \in Nat, req.fields \in BOOLEAN, NEW size \in Nat
  PROVE  HandlePost(req, size) # {}
<1> DEFINE D(f) == IF f THEN Call("insert") ELSE Refuse(400)
           F == { f \in BOOLEAN : IF size < req.size THEN f => req.fields
                                  ELSE f = req.fields }
<1>1. CASE size = 0
  BY <1>1, RefuseAnswers DEF HandlePost
<1>2. CASE size > MaxPayload
  BY <1>2, RefuseAnswers, ConstantTypes DEF HandlePost
<1>3. CASE size # 0 /\ size <= MaxPayload
  <2>1. HandlePost(req, size) = UNION { D(f) : f \in F }
    BY <1>3, ConstantTypes DEF HandlePost
  <2>2. req.fields \in F
    OBVIOUS
  <2>3. D(req.fields) # {}
    BY RefuseAnswers, CallAnswers DEF RouteOperations
  <2> HIDE DEF D, F
  <2> QED
    BY <2>1, <2>2, <2>3
<1> QED
  BY <1>1, <1>2, <1>3, ConstantTypes

LEMMA HandleAnswers ==
  ASSUME NEW i \in 1 .. 5, NEW req, req.size \in Nat, req.fields \in BOOLEAN,
         NEW size \in Nat
  PROVE  Handle(Routes[i], req, size) # {}
<1>1. Routes[i].op \in RouteOperations
  BY RoutesAre
<1>2. CASE Routes[i].op = "count"
  BY <1>1, <1>2, CallAnswers DEF Handle
<1>3. CASE Routes[i].op # "count" /\ ~Authorized(req)
  BY <1>3, RefuseAnswers DEF Handle
<1>4. CASE Routes[i].op = "insert" /\ Authorized(req)
  BY <1>4, PostAnswers DEF Handle
<1>5. CASE Routes[i].op = "scan" /\ Authorized(req)
  BY <1>1, <1>5, CallAnswers, RefuseAnswers DEF Handle
<1>6. CASE Routes[i].op \in {"message", "delete"} /\ Authorized(req)
  BY <1>1, <1>6, CallAnswers, RefuseAnswers DEF Handle
<1> QED
  BY <1>1, <1>2, <1>3, <1>4, <1>5, <1>6 DEF RouteOperations

LEMMA RespondAnswers ==
  ASSUME NEW req, req.size \in Nat, req.fields \in BOOLEAN, NEW size \in Nat
  PROVE  Respond(req, size) # {}
<1> DEFINE matching == { i \in DOMAIN Routes : Matches(Routes[i].pattern, req.path) }
           other == IF matching # {} THEN 405 ELSE 404
<1>1. Respond(req, size) =
        IF req.method = "OPTIONS" THEN Refuse(204)
        ELSE IF Serving(req) # {} THEN Handle(Routes[FirstServing(req)], req, size)
        ELSE Refuse(other)
  BY Zenon DEF Respond, FirstServing, Serving
<1>2. Serving(req) # {} => FirstServing(req) \in 1 .. 5
  <2>1. Serving(req) \in SUBSET (1 .. 5)
    BY RoutesAre DEF Serving
  <2> QED
    BY <2>1, FirstRoute DEF FirstServing
<1> HIDE DEF other
<1> QED
  BY <1>1, <1>2, RefuseAnswers, HandleAnswers

LEMMA ParsedType ==
  ASSUME NEW c \in Connections, NEW req \in Requests[c] \cup {NoRequest},
         NEW raw, NEW part \in Parsed(req, raw)
  PROVE  part.size \in Nat /\ part.fields \in BOOLEAN
<1>1. /\ req.size \in Nat /\ req.fields \in BOOLEAN
      /\ \A h : LET q == [req EXCEPT !.header = h] IN
                q.size = req.size /\ q.fields = req.fields
  <2>1. CASE req \in Requests[c]
    BY <2>1, ConstantTypes DEF Request
  <2>2. CASE req = NoRequest
    BY <2>2 DEF NoRequest
  <2> QED
    BY <2>1, <2>2
<1>2. NoRequest.size \in Nat /\ NoRequest.fields \in BOOLEAN
  BY DEF NoRequest
<1>3. \/ part = req \/ part = NoRequest
      \/ \E h : part = [req EXCEPT !.header = h]
  BY DEF Parsed
<1> QED
  BY <1>1, <1>2, <1>3

\* Wherever its client stops sending, a thread is not kept reading, and its
\* handler always has an answer
\* (read_and_parse, handle_connection, handlers.cpp).
THEOREM NoThreadIsStuck == Spec => []NeverStuck
<1>1. ASSUME Inv, NEW c \in Connections
      PROVE  /\ conn[c].pc = "reading" =>
                  RecvEnds(c) \/ \E n \in 1 .. Buffer : RecvGives(c, n)
             /\ conn[c].pc = "read" =>
                  \A req \in Parsed(conn[c].req, conn[c].raw) :
                    Respond(req, BodyRead(c)) # {}
  <2>1. conn[c].raw \in Nat /\ Size(conn[c].req) \in Nat
        /\ conn[c].req \in Requests[c] \cup {NoRequest}
    BY <1>1, ConnectionFields, ConstantTypes DEF Inv, Size
  <2>2. conn[c].raw <= Size(conn[c].req)
    BY <1>1 DEF Inv, Courses, Course
  <2>3. RecvEnds(c) \/ RecvGives(c, 1)
    BY <2>1, <2>2 DEF RecvEnds, RecvGives
  <2>4. 1 \in 1 .. Buffer
    BY ConstantTypes
  <2>5. BodyRead(c) \in Nat
    BY <2>1, ConstantTypes DEF BodyRead
  <2>6. \A req \in Parsed(conn[c].req, conn[c].raw) : Respond(req, BodyRead(c)) # {}
    BY <2>1, <2>5, ParsedType, RespondAnswers
  <2> QED
    BY <2>3, <2>4, <2>6
<1>2. Inv => NeverStuck
  BY <1>1 DEF NeverStuck
<1> QED
  BY <1>2, InvHolds, PTL

\* A step of a thread leaves it fewer to take: Left is StepsLeft of a record.
Left(x) ==
  LET unread == Size(x.req) - x.raw IN
  CASE x.pc = "limiter" -> unread + 4
    [] x.pc = "reading" -> unread + 3
    [] x.pc = "read" -> 2
    [] x.pc = "sending" -> 1
    [] x.pc = "closed" -> 0

LEMMA ServeLowers ==
  ASSUME Inv, NEW c \in Connections, Serve(c)
  PROVE  0 <= Left(conn'[c]) /\ Left(conn'[c]) < Left(conn[c])
<1> DEFINE x == conn[c]
<1>1. /\ x \in Connection(c) /\ x.raw \in Nat /\ Size(x.req) \in Nat
      /\ x.raw <= Size(x.req)
      /\ conn = [d \in Connections |-> conn[d]]
  BY ConnectionFields, ConstantTypes DEF Inv, Shape, Courses, Course, Size
<1>3. CASE Limit(c)
  <2>1. x.pc = "limiter"
    BY <1>3 DEF Limit
  <2>2. /\ conn'[c].pc \in {"reading", "sending"}
        /\ conn'[c].raw = x.raw /\ conn'[c].req = x.req
    <3> DEFINE e == table[Address[c]]
               start == Counted(e, x.at).start
               y == IF MaxRequests = 0 THEN [x EXCEPT !.pc = "reading"]
                    ELSE IF Allowed(e, x.at)
                    THEN [x EXCEPT !.pc = "reading", !.admitted = TRUE,
                                   !.window = start]
                    ELSE [x EXCEPT !.pc = "sending", !.reply = 429]
    <3>1. conn' = [conn EXCEPT ![c] = y]
      <4>1. CASE MaxRequests = 0
        BY <1>3, <4>1 DEF Limit
      <4>2. CASE MaxRequests # 0 /\ Allowed(e, x.at)
        BY <1>3, <4>2 DEF Limit
      <4>3. CASE MaxRequests # 0 /\ ~Allowed(e, x.at)
        BY <1>3, <4>3 DEF Limit
      <4> QED
        BY <4>1, <4>2, <4>3
    <3> HIDE DEF e, start
    <3>2. y.pc \in {"reading", "sending"} /\ y.raw = x.raw /\ y.req = x.req
      <4>1. CASE MaxRequests = 0
        BY <1>1, <4>1 DEF Connection
      <4>2. CASE MaxRequests # 0 /\ Allowed(e, x.at)
        BY <1>1, <4>2 DEF Connection
      <4>3. CASE MaxRequests # 0 /\ ~Allowed(e, x.at)
        BY <1>1, <4>3 DEF Connection
      <4> QED
        BY <4>1, <4>2, <4>3
    <3> HIDE DEF y
    <3> QED
      BY <1>1, <3>1, <3>2
  <2> QED
    BY <1>1, <2>1, <2>2 DEF Left
<1>4. CASE Receive(c)
  <2>1. PICK n \in 1 .. Buffer :
          /\ IF x.client = "quits" THEN n < Size(x.req) - x.raw
                                   ELSE n <= Size(x.req) - x.raw
          /\ conn' = [conn EXCEPT ![c].raw = x.raw + n,
                ![c].pc = IF IsRead(x.req, x.raw + n) THEN "read" ELSE @]
    BY <1>4 DEF Receive, RecvGives
  <2> DEFINE p == IF IsRead(x.req, x.raw + n) THEN "read" ELSE "reading"
  <2>2. x.pc = "reading" /\ n \in Nat \ {0} /\ n <= Size(x.req) - x.raw
    BY <1>1, <1>4, <2>1, ConstantTypes DEF Receive
  <2>3. conn'[c] = [x EXCEPT !.raw = x.raw + n, !.pc = p] /\ p \in {"reading", "read"}
    BY <1>1, <2>1, <2>2
  <2> HIDE DEF p
  <2>4. conn'[c].pc = p /\ conn'[c].raw = x.raw + n /\ conn'[c].req = x.req
    BY <1>1, <2>3 DEF Connection
  <2> QED
    BY <1>1, <2>2, <2>3, <2>4 DEF Left
<1>5. CASE ReceiveEnds(c)
  <2>1. x.pc = "reading" /\ conn'[c] = [x EXCEPT !.pc = "read"]
    BY <1>1, <1>5 DEF ReceiveEnds
  <2>2. conn'[c].pc = "read"
    BY <1>1, <2>1 DEF Connection
  <2> QED
    BY <1>1, <2>1, <2>2 DEF Left
<1>6. CASE HandleConnection(c)
  <2>1. PICK req, result :
          conn' = [conn EXCEPT ![c].pc = "sending", ![c].body = BodyRead(c),
                     ![c].call = result.call, ![c].reply = result.reply]
    BY <1>6 DEF HandleConnection
  <2>2. x.pc = "read"
    BY <1>6 DEF HandleConnection
  <2>3. conn'[c].pc = "sending"
    BY <1>1, <2>1 DEF Connection
  <2> QED
    BY <2>2, <2>3 DEF Left
<1>7. CASE Close(c)
  <2>1. x.pc = "sending" /\ \E delivered :
          conn'[c] = [x EXCEPT !.pc = "closed", !.delivered = delivered]
    BY <1>1, <1>7 DEF Close
  <2>2. conn'[c].pc = "closed"
    BY <1>1, <2>1 DEF Connection
  <2> QED
    BY <2>1, <2>2 DEF Left
<1> QED
  BY <1>3, <1>4, <1>5, <1>6, <1>7 DEF Serve

LEMMA OthersStay ==
  ASSUME Inv, NEW c \in Connections, Accept(c) \/ Serve(c),
         NEW d \in Connections, d # c
  PROVE  conn'[d] = conn[d]
<1>1. conn = [e \in Connections |-> conn[e]]
  BY DEF Inv, Shape
<1> QED
  BY <1>1 DEF Accept, Serve, Limit, Receive, ReceiveEnds, HandleConnection, Close

\* In however small pieces a request arrives, each step of its thread brings the
\* thread closer to its end, within Size(req) + 4 steps: with NoThreadIsStuck,
\* every thread ends whose client reads (handle_connection, read_and_parse).
THEOREM ThreadsEnd == Spec => ThreadsDwindle
<1>1. ASSUME Inv, [Next]_vars, NEW c \in Connections,
             conn[c].pc # "new", conn'[c] # conn[c]
      PROVE  0 <= StepsLeft(c)' /\ StepsLeft(c)' < StepsLeft(c)
  <2>1. PICK d \in Connections : Accept(d) \/ Serve(d)
    BY <1>1 DEF Next, Tick, vars
  <2>2. d = c
    BY <1>1, <2>1, OthersStay
  <2>3. Serve(c)
    BY <1>1, <2>1, <2>2 DEF Accept
  <2>4. StepsLeft(c) = Left(conn[c]) /\ StepsLeft(c)' = Left(conn'[c])
    BY DEF StepsLeft, Left
  <2> QED
    BY <1>1, <2>3, <2>4, ServeLowers
<1>2. Inv /\ [Next]_vars =>
        [\A c \in Connections :
           conn[c].pc # "new" /\ conn'[c] # conn[c] =>
             0 <= StepsLeft(c)' /\ StepsLeft(c)' < StepsLeft(c)]_vars
  BY <1>1
<1> QED
  BY <1>2, InvHolds, PTL DEF Spec, ThreadsDwindle

=============================================================================
