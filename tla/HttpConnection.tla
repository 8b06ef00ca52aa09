--------------------------- MODULE HttpConnection ---------------------------
(***************************************************************************)
(* The connections of a node (backend/src/server.cpp): each has a thread   *)
(* that asks the rate limiter, reads one request, routes it, lets a        *)
(* handler check it and answers.                                           *)
(*                                                                         *)
(* A request is HeadSize units of head and req.size units of body.  recv   *)
(* returns whatever has arrived, so that a request comes in any pieces;    *)
(* what the client says of the body's length need not be so.  What the     *)
(* store makes of a request that passes is FragmentStore's business: here  *)
(* it is the reply, any that the store may give.                           *)
(***************************************************************************)
EXTENDS RateLimiter, Sequences, FiniteSets

CONSTANTS
  Connections,   \* the connections clients make, one request each
  Address,       \* [Connections -> addresses]: where they come from
  Requests,      \* [Connections -> sets of requests]: what may be sent
  Clients,       \* [Connections -> sets of ClientKinds]: by whom
  Tokens,        \* the tokens of the configuration (Auth::tokens_)
  HeadSize,      \* size of a request's head
  MaxPayload,    \* max_payload_bytes
  MaxRequest,    \* MAX_REQUEST_BYTES
  Buffer,        \* sizeof(buf) of read_and_parse
  SizeLimit,     \* 2^w for the width w of size_t
  MaxTime        \* bound on the clock

ClientKinds ==
  { "sound",   \* sends its request and waits for the answer
    "quits",   \* stops sending, or closes, before the request is sent
    "deaf" }   \* sends the request and never reads

Methods == {"GET", "POST", "DELETE", "OPTIONS", "PUT", ""}

\* header is the value of Authorization, claim the Content-Length, 0 if there is
\* none that can be read.
Request ==
  [method : Methods, path : Seq(STRING), query : BOOLEAN,
   header : [scheme : {"none", "bearer", "raw"}, token : STRING],
   size : Nat, claim : Nat, fields : BOOLEAN]

ASSUME ConnectionAssumption ==
  /\ IsFiniteSet(Connections)
  /\ DOMAIN Address = Connections
  /\ Requests \in [Connections -> SUBSET Request]
  /\ Clients \in [Connections -> SUBSET ClientKinds]
  /\ {HeadSize, MaxPayload, MaxRequest, Buffer, SizeLimit} \subseteq Nat \ {0}
  /\ MaxTime \in Nat

VARIABLES
  now,     \* the steady clock
  table,   \* [addresses -> Entry]: the limiter's entries
  conn     \* [Connections -> Connection]

vars == <<now, table, conn>>

Addresses == { Address[c] : c \in Connections }

NoHeader == [scheme |-> "none", token |-> ""]

\* What read_and_parse makes of nothing.
NoRequest ==
  [method |-> "", path |-> << >>, query |-> FALSE, header |-> NoHeader,
   size |-> 0, claim |-> 0, fields |-> FALSE]

(***************************************************************************)
(* The locals of a thread, and what is observed of it: at is the time read *)
(* for the limiter, window the start of the window that admitted it, raw   *)
(* the size of what was read, body the size of the body handled, call the  *)
(* operation asked of the database, delivered whether the client gets the  *)
(* answer.                                                                 *)
(***************************************************************************)
Unopened ==
  [pc |-> "new", client |-> "sound", req |-> NoRequest, at |-> 0,
   admitted |-> FALSE, window |-> 0, raw |-> 0, body |-> 0, call |-> "none",
   reply |-> 0, delivered |-> FALSE]

-----------------------------------------------------------------------------
(***************************************************************************)
(* Routing.                                                                *)
(***************************************************************************)
Route(method, pattern, op) == [method |-> method, pattern |-> pattern, op |-> op]

\* register_routes.  A path is the sequence of what its slashes separate.
Routes ==
  << Route("GET", <<"", "health">>, "count"),
     Route("POST", <<"", "api", "fragments">>, "insert"),
     Route("GET", <<"", "api", "fragments">>, "scan"),
     Route("GET", <<"", "api", "fragments", ":message_id", "all">>, "message"),
     Route("DELETE", <<"", "api", "fragments", ":id">>, "delete") >>

Parameters == {":message_id", ":id"}

\* utils::split: getline gives no empty part after a last slash.
Split(path) ==
  IF path # << >> /\ path[Len(path)] = "" THEN SubSeq(path, 1, Len(path) - 1)
  ELSE path

\* A slip in match_pattern: a longer path matches as well.
MatchesPrefix(pattern, path) ==
  LET parts == Split(path) IN
  /\ Len(pattern) <= Len(parts)
  /\ \A i \in 1 .. Len(pattern) :
       pattern[i] \in Parameters \/ pattern[i] = parts[i]

\* match_pattern.
Matches(pattern, path) ==
  LET parts == Split(path) IN
  /\ Len(pattern) = Len(parts)
  /\ \A i \in 1 .. Len(pattern) :
       pattern[i] \in Parameters \/ pattern[i] = parts[i]

\* The value of a pattern's parameter, if it has one, is not empty.
ParameterGiven(pattern, path) ==
  \A i \in DOMAIN pattern : pattern[i] \in Parameters => Split(path)[i] # ""

-----------------------------------------------------------------------------
(***************************************************************************)
(* Handling a request that was read with size units of body.               *)
(***************************************************************************)
\* is_authorized and Auth::verify: the token with or without "Bearer ".
Authorized(req) == req.header.scheme # "none" /\ req.header.token \in Tokens

\* What the database may make of an operation (FragmentStore's replies).
Answers(op) ==
  CASE op = "insert" -> {201, 200, 500}
    [] op = "delete" -> {204, 404, 500}
    [] op \in {"scan", "message"} -> {200, 500}
    [] op = "count" -> {200}

Refuse(status) == {[call |-> "none", reply |-> status]}

Call(op) == { [call |-> op, reply |-> status] : status \in Answers(op) }

\* The POST handler.  A body cut short may have lost fields.
HandlePost(req, size) ==
  CASE size = 0 -> Refuse(400)
    [] size > MaxPayload -> Refuse(413)
    [] size # 0 /\ size <= MaxPayload ->
         UNION { IF fields THEN Call("insert") ELSE Refuse(400) :
                   fields \in { f \in BOOLEAN :
                                  IF size < req.size THEN f => req.fields
                                  ELSE f = req.fields } }

\* The handler of a route: what it may do and answer.
Handle(route, req, size) ==
  CASE route.op = "count" -> Call("count")
    [] route.op # "count" /\ ~Authorized(req) -> Refuse(401)
    [] route.op = "insert" /\ Authorized(req) -> HandlePost(req, size)
    [] route.op = "scan" /\ Authorized(req) ->
         IF req.query THEN Call("scan") ELSE Refuse(400)
    [] route.op \in {"message", "delete"} /\ Authorized(req) ->
         IF ParameterGiven(route.pattern, req.path) THEN Call(route.op)
         ELSE Refuse(400)

\* handle_connection after reading: preflight, then the first route of the
\* path and method, 405 if only the path has one.
Respond(req, size) ==
  LET matching == { i \in DOMAIN Routes : Matches(Routes[i].pattern, req.path) }
      serving == { i \in matching : Routes[i].method = req.method }
  IN
  IF req.method = "OPTIONS" THEN Refuse(204)
  ELSE IF serving # {}
    THEN Handle(Routes[CHOOSE i \in serving : \A j \in serving : i <= j],
                req, size)
  ELSE Refuse(IF matching # {} THEN 405 ELSE 404)

-----------------------------------------------------------------------------
(***************************************************************************)
(* A connection.                                                           *)
(***************************************************************************)
Size(req) == HeadSize + req.size

\* accept returns, the thread starts and reads the clock for the limiter.
Accept(c) ==
  /\ conn[c].pc = "new"
  /\ \E req \in Requests[c], client \in Clients[c] :
       conn' = [conn EXCEPT ![c] = [Unopened EXCEPT !.pc = "limiter",
                                      !.client = client, !.req = req,
                                      !.at = now]]
  /\ UNCHANGED <<now, table>>

\* It gets the limiter's lock, and goes on or answers 429 unread.
Limit(c) ==
  LET e == table[Address[c]]
      t == conn[c].at
  IN
  /\ conn[c].pc = "limiter"
  /\ IF MaxRequests = 0
     THEN /\ conn' = [conn EXCEPT ![c].pc = "reading"]
          /\ table' = table
     ELSE /\ conn' = [conn EXCEPT ![c] =
               IF Allowed(e, t)
               THEN [@ EXCEPT !.pc = "reading", !.admitted = TRUE,
                              !.window = Counted(e, t).start]
               ELSE [@ EXCEPT !.pc = "sending", !.reply = 429]]
          /\ table' = [table EXCEPT ![Address[c]] = Counted(e, t)]
  /\ UNCHANGED now

\* headers_end + content_length, in the width of size_t.
Needed(req) == (HeadSize + req.claim) % SizeLimit

\* A slip in the loop: it ends with the head.
HeadIsRead(req, raw) == raw >= MaxRequest \/ raw >= HeadSize

\* The loop of read_and_parse ends by itself.
IsRead(req, raw) ==
  \/ raw >= MaxRequest
  \/ raw >= HeadSize /\ raw >= Needed(req)

\* recv may return n units of what the client has sent.
RecvGives(c, n) ==
  LET left == Size(conn[c].req) - conn[c].raw IN
  IF conn[c].client = "quits" THEN n < left ELSE n <= left

\* A slip in the set-up: without SO_RCVTIMEO a silent client is waited for.
RecvEndsUntimed(c) == conn[c].client = "quits" /\ conn[c].raw >= HeadSize

\* recv may return nothing: the client has closed, or nothing came for
\* RECV_TIMEOUT_SEC.  A sound client is waiting for the answer by then.
RecvEnds(c) == conn[c].client = "quits" \/ conn[c].raw = Size(conn[c].req)

\* A slip in the loop: each piece replaces the one before.
ReceiveAfresh(c) ==
  /\ conn[c].pc = "reading"
  /\ \E n \in 1 .. Buffer :
       /\ RecvGives(c, n)
       /\ conn' = [conn EXCEPT ![c].raw = n,
                     ![c].pc = IF IsRead(conn[c].req, n) THEN "read" ELSE @]
  /\ UNCHANGED <<now, table>>

\* The loop takes up a piece.
Receive(c) ==
  /\ conn[c].pc = "reading"
  /\ \E n \in 1 .. Buffer :
       /\ RecvGives(c, n)
       /\ LET raw == conn[c].raw + n IN
          conn' = [conn EXCEPT ![c].raw = raw,
                     ![c].pc = IF IsRead(conn[c].req, raw) THEN "read" ELSE @]
  /\ UNCHANGED <<now, table>>

\* The loop ends without another piece.
ReceiveEnds(c) ==
  /\ conn[c].pc = "reading"
  /\ RecvEnds(c)
  /\ conn' = [conn EXCEPT ![c].pc = "read"]
  /\ UNCHANGED <<now, table>>

\* The requests that raw units of req may be parsed to.  In an unfinished head
\* the request line and the header lines are there whole or not at all.
Parsed(req, raw) ==
  IF raw >= HeadSize THEN {req}
  ELSE {NoRequest} \cup
       (IF raw = 0 THEN {}
        ELSE { [req EXCEPT !.header = h] : h \in {req.header, NoHeader} })

BodyRead(c) == IF conn[c].raw > HeadSize THEN conn[c].raw - HeadSize ELSE 0

\* The request is parsed, routed and handled.
HandleConnection(c) ==
  /\ conn[c].pc = "read"
  /\ \E req \in Parsed(conn[c].req, conn[c].raw) :
       \E result \in Respond(req, BodyRead(c)) :
         conn' = [conn EXCEPT ![c].pc = "sending", ![c].body = BodyRead(c),
                    ![c].call = result.call, ![c].reply = result.reply]
  /\ UNCHANGED <<now, table>>

\* Rows may be more than the connection takes from a client that does not read:
\* send then waits, without a timeout.
SendReturns(c) ==
  conn[c].client = "deaf" => conn[c].call \notin {"scan", "message"}

\* send and close.  A connection closed over data that was not read is reset,
\* and the answer may be lost.
Close(c) ==
  LET unread == conn[c].raw < Size(conn[c].req) IN
  /\ conn[c].pc = "sending"
  /\ SendReturns(c)
  /\ \E delivered \in
         IF conn[c].client = "deaf" THEN {FALSE}
         ELSE IF unread THEN BOOLEAN ELSE {TRUE} :
       conn' = [conn EXCEPT ![c].pc = "closed", ![c].delivered = delivered]
  /\ UNCHANGED <<now, table>>

Tick ==
  /\ now < MaxTime
  /\ now' = now + 1
  /\ UNCHANGED <<table, conn>>

-----------------------------------------------------------------------------
Init ==
  /\ now = 0
  /\ table = [a \in Addresses |-> NewEntry]
  /\ conn = [c \in Connections |-> Unopened]

Serve(c) ==
  Limit(c) \/ Receive(c) \/ ReceiveEnds(c) \/ HandleConnection(c) \/ Close(c)

Next == Tick \/ \E c \in Connections : Accept(c) \/ Serve(c)

Spec == Init /\ [][Next]_vars

-----------------------------------------------------------------------------
(***************************************************************************)
(* Properties.                                                             *)
(***************************************************************************)
Operations == {"none", "count", "insert", "scan", "message", "delete"}

\* The state has the shape described above (the locals of handle_connection
\* and the entries of rate_limiter.hpp).
TypeOK ==
  /\ now \in 0 .. MaxTime
  /\ table \in [Addresses -> Entry]
  /\ \A c \in Connections :
       conn[c] \in
         [pc : {"new", "limiter", "reading", "read", "sending", "closed"},
          client : ClientKinds, req : Requests[c] \cup {NoRequest},
          at : 0 .. now, admitted : BOOLEAN, window : Nat, raw : Nat,
          body : Nat, call : Operations, reply : Nat, delivered : BOOLEAN]

\* The path is the one given, or has a slash after it.
Spells(path, whole) == path = whole \/ path = Append(whole, "")

\* What the node's API says a request is for: the operation op.
IsFor(req, op) ==
  \/ /\ op = "count" /\ req.method = "GET"
     /\ Spells(req.path, <<"", "health">>)
  \/ /\ op \in {"insert", "scan"}
     /\ req.method = IF op = "insert" THEN "POST" ELSE "GET"
     /\ Spells(req.path, <<"", "api", "fragments">>)
  \/ /\ op = "message" /\ req.method = "GET"
     /\ Len(req.path) >= 5 /\ req.path[4] # ""
     /\ Spells(req.path, <<"", "api", "fragments", req.path[4], "all">>)
  \/ /\ op = "delete" /\ req.method = "DELETE"
     /\ Len(req.path) >= 4 /\ req.path[4] # ""
     /\ Spells(req.path, <<"", "api", "fragments", req.path[4]>>)

\* However little of a request arrives and in whatever pieces, nothing is asked
\* of the database but the operation the request is for, and nothing beyond the
\* count without a token (server.cpp:131-149, handlers.cpp).
OnlyWhatIsAsked ==
  \A c \in Connections :
    conn[c].call # "none" =>
      /\ IsFor(conn[c].req, conn[c].call)
      /\ conn[c].call # "count" => Authorized(conn[c].req)

\* Content-Length is right and the request is within the server's limit.
Fits(req) ==
  /\ req.claim = req.size
  /\ Size(req) <= MaxRequest
  /\ Size(req) < SizeLimit

\* The handler of a request that fits and is sent to its end sees all of its
\* body, whatever pieces recv returns (server.cpp:177-201).
WholeBodyHandled ==
  \A c \in Connections :
    /\ conn[c].client = "sound"
    /\ Fits(conn[c].req)
    /\ conn[c].pc \in {"sending", "closed"}
    /\ conn[c].reply # 429
    => conn[c].body = conn[c].req.size

\* The requests of an address that the limiter admitted in the window from w on.
InWindow(a, w) ==
  { c \in Connections :
      Address[c] = a /\ conn[c].admitted /\ conn[c].window = w }

\* Whatever the order in which threads read the clock and get the lock: a window
\* admits no more than the limit, those included that read an earlier time and
\* waited for the lock while it began; two windows of an address do not overlap;
\* and none admits a request that read its time after its end
\* (rate_limiter.hpp:26-44).
WindowsKeepLimit ==
  MaxRequests > 0 =>
    \A c \in Connections :
      conn[c].admitted =>
        /\ Cardinality(InWindow(Address[c], conn[c].window)) <= MaxRequests
        /\ conn[c].at < conn[c].window + Window
        /\ \A d \in Connections :
             conn[d].admitted /\ Address[d] = Address[c] =>
               \/ conn[d].window = conn[c].window
               \/ conn[d].window + Window <= conn[c].window
               \/ conn[c].window + Window <= conn[d].window

\* The requests of an address that were admitted and read their time from t on
\* for the length of a window.
Admitted(a, t) ==
  { c \in Connections :
      /\ Address[c] = a
      /\ conn[c].admitted
      /\ t <= conn[c].at /\ conn[c].at < t + Window }

\* Of the requests of an address that read their time within the length of a
\* window, from t on, at most twice the limit are admitted before a window that
\* begins after that time (rate_limiter.hpp:26-44).
AtMostTwice ==
  MaxRequests > 0 =>
    \A a \in Addresses, t \in 0 .. MaxTime :
      Cardinality({ c \in Admitted(a, t) : conn[c].window < t + Window })
        <= 2 * MaxRequests

\* A client that sends a request that fits and waits gets an answer, unless the
\* limiter refuses it: nothing is left unread that would reset the connection
\* (server.cpp:112-200).
SoundIsAnswered ==
  \A c \in Connections :
    /\ conn[c].client = "sound"
    /\ Fits(conn[c].req)
    /\ conn[c].pc = "closed"
    => conn[c].delivered \/ conn[c].reply = 429

\* Wherever a client stops sending, its thread is not kept reading for ever; and
\* whatever part of a request has come, a handler has an answer to it
\* (server.cpp:121-179).
NeverStuck ==
  \A c \in Connections :
    /\ conn[c].pc = "reading" =>
         RecvEnds(c) \/ \E n \in 1 .. Buffer : RecvGives(c, n)
    /\ conn[c].pc = "read" =>
         \A req \in Parsed(conn[c].req, conn[c].raw) :
           Respond(req, BodyRead(c)) # {}

\* The most steps the thread of c can still take.
StepsLeft(c) ==
  LET unread == Size(conn[c].req) - conn[c].raw IN
  CASE conn[c].pc = "limiter" -> unread + 4
    [] conn[c].pc = "reading" -> unread + 3
    [] conn[c].pc = "read" -> 2
    [] conn[c].pc = "sending" -> 1
    [] conn[c].pc = "closed" -> 0

\* A thread comes closer to its end with every step, its own and those of other
\* connections, in however small pieces its request arrives: with NeverStuck,
\* each comes to an end, but those kept by a client that does not read
\* (server.cpp:112-201).
ThreadsDwindle ==
  [][\A c \in Connections :
       conn[c].pc # "new" /\ conn'[c] # conn[c] =>
         0 <= StepsLeft(c)' /\ StepsLeft(c)' < StepsLeft(c)]_vars

-----------------------------------------------------------------------------
(***************************************************************************)
(* What the documents say beyond that.                                     *)
(***************************************************************************)
\* main.cpp:161, "No auth tokens configured. Server is open to anyone!", and
\* README.md:83, "Empty = no auth": without tokens nobody is refused for one.
OpenWithoutTokens ==
  Tokens = {} => \A c \in Connections : conn[c].reply # 401

\* TECHNICAL_GUIDE.md:80, on incomplete requests: a request that did not arrive
\* as a whole changes nothing.
IncompleteDoesNothing ==
  \A c \in Connections :
    conn[c].call \in {"insert", "delete"} =>
      conn[c].raw >= Size(conn[c].req)

=============================================================================
