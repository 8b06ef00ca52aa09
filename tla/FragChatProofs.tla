--------------------------- MODULE FragChatProofs ---------------------------
(***************************************************************************)
(* Theorems about FragChat, for every value of its constants.              *)
(***************************************************************************)
EXTENDS FragChat, FiniteSetTheorems, TLAPS

-----------------------------------------------------------------------------
(***************************************************************************)
(* Types.                                                                  *)
(***************************************************************************)
\* Every entry of the server list is the name of a node.
LEMMA SlotNode == \A k \in Slots : ChatServers[k] \in Nodes
  BY ChatAssumption DEF ChatAssumption, Slots

\* The position of a chunk and the number of chunks are naturals.
LEMMA RankType ==
  ASSUME NEW K \in SUBSET Slots, NEW k \in Slots
  PROVE  Rank(K, k) \in Nat /\ Cardinality(K) \in Nat
<1>1. Len(ChatServers) \in Nat
  BY ChatAssumption DEF ChatAssumption
<1>2. IsFiniteSet(Slots)
  BY <1>1, FS_Interval, SMT DEF Slots
<1>3. IsFiniteSet(K) /\ IsFiniteSet({ j \in K : j <= k })
  BY <1>2, FS_Subset
<1> QED
  BY <1>3, FS_CardinalityType DEF Rank

\* An idle poll and a request not yet made are well formed.
LEMMA NothingType == NoPoll \in Poll /\ NoRequest \in Request /\ NoSend \in Send
  BY DEF NoPoll, Poll, NoRequest, Request, NoSend, Send, Arrivals

\* A request whose stage alone changes stays well formed.
LEMMA RestageType ==
  ASSUME NEW r \in Request
  PROVE  /\ [r EXCEPT !.stage = "rejected"] \in Request
         /\ [r EXCEPT !.stage = "stored"] \in Request
  BY DEF Request

\* The row made of a request has the columns of the schema.
LEMMA FragmentOfType ==
  ASSUME TypeOK, NEW m \in Messages, NEW k \in Slots
  PROVE  FragmentOf(m, k) \in Fragment
<1>1. send[m].servers \in SUBSET Slots /\ req[m][k].stamp \in Nat
  BY DEF TypeOK, Send, Request
<1>2. Rank(send[m].servers, k) \in Nat /\ Cardinality(send[m].servers) \in Nat
  BY <1>1, RankType
<1>3. [ChunkFor(m, send[m].servers, k)
         EXCEPT !.whole = req[m][k].got # "less"] \in Chunk
  BY <1>2 DEF ChunkFor, Chunk
<1>4. (IF req[m][k].got = "all" THEN Ttl[m] ELSE 0) \in Nat
  BY ChatAssumption DEF ChatAssumption
<1> QED
  BY <1>1, <1>2, <1>3, <1>4 DEF FragmentOf, Fragment

-----------------------------------------------------------------------------
Texts == {"plain", "[decryption failed]"}

Received(m, text) == [id |-> m, text |-> text, status |-> "received"]

\* Message m is appended as text, the poll becomes q2, the cursor stays or
\* moves on to t: the newest of what the poll, the cursor and m bring.
DecryptedTo(c, p, m, text, q2, t) ==
  /\ m \in poll[c][p].todo
  /\ text \in Readings(poll[c][p], m)
  /\ shown' = [shown EXCEPT ![c] = Append(@, Received(m, text))]
  /\ poll' = [poll EXCEPT ![c][p] = q2]
  /\ \/ q2 = NoPoll
     \/ q2 = [poll[c][p] EXCEPT !.todo = @ \ {m}, !.max = t]
  /\ \/ since' = since
     \/ since' = [since EXCEPT ![c] = t] /\ t >= since[c]
  /\ t \in {poll[c][p].max, since[c]}
            \cup { f.timestamp : f \in FirstOf(poll[c][p], m) }

\* What one turn of the loop of pollChat does to the list, the poll and the
\* cursor.
LEMMA DecryptedEffect ==
  ASSUME TypeOK, NEW c \in Clients, NEW p \in Polls, Decrypted(c, p)
  PROVE  \E m \in Messages, text \in Texts, q2 \in Poll, t \in Nat :
           DecryptedTo(c, p, m, text, q2, t)
<1> DEFINE q == poll[c][p]
           max(f) == IF f.timestamp > q.max THEN f.timestamp ELSE q.max
<1>1. PICK m \in q.todo :
        \E f \in FirstOf(q, m), text \in Readings(q, m) :
          /\ shown' = [shown EXCEPT ![c] =
                         Append(@, [id |-> m, text |-> text,
                                    status |-> "received"])]
          /\ IF q.todo = {m}
             THEN /\ poll' = [poll EXCEPT ![c][p] = NoPoll]
                  /\ since' = [since EXCEPT ![c] =
                                 IF max(f) > @ THEN max(f) ELSE @]
             ELSE /\ poll' = [poll EXCEPT ![c][p].todo = @ \ {m},
                                          ![c][p].max = max(f)]
                  /\ since' = since
  BY DEF Decrypted
<1>2. PICK f \in FirstOf(q, m), text \in Readings(q, m) :
        /\ shown' = [shown EXCEPT ![c] = Append(@, Received(m, text))]
        /\ IF q.todo = {m}
           THEN /\ poll' = [poll EXCEPT ![c][p] = NoPoll]
                /\ since' = [since EXCEPT ![c] =
                               IF max(f) > @ THEN max(f) ELSE @]
           ELSE /\ poll' = [poll EXCEPT ![c][p].todo = @ \ {m},
                                        ![c][p].max = max(f)]
                /\ since' = since
  BY <1>1 DEF Received
<1>3. q \in Poll /\ since \in [Clients -> Nat]
  BY DEF TypeOK
<1>4. f \in Fragment /\ m \in Messages /\ text \in Texts
  BY <1>3 DEF FirstOf, FragmentsAt, Lowest, Poll, Readings, Texts
<1>5. max(f) \in Nat
  BY <1>3, <1>4 DEF Poll, Fragment
<1>6. CASE q.todo = {m}
  <2> DEFINE t == IF max(f) > since[c] THEN max(f) ELSE since[c]
  <2>1. /\ t \in Nat /\ t >= since[c]
        /\ t \in {q.max, since[c]}
                  \cup { g.timestamp : g \in FirstOf(q, m) }
    BY <1>2, <1>3, <1>5
  <2>2. since' = [since EXCEPT ![c] = t]
    BY <1>2, <1>6
  <2>3. poll' = [poll EXCEPT ![c][p] = NoPoll]
    BY <1>2, <1>6
  <2> HIDE DEF t
  <2> QED
    BY <1>2, <1>4, <2>1, <2>2, <2>3, NothingType DEF DecryptedTo
<1>7. CASE q.todo # {m}
  <2> DEFINE t == max(f)
             q2 == [q EXCEPT !.todo = @ \ {m}, !.max = t]
  <2>1. q2 \in Poll
    BY <1>3, <1>5 DEF Poll
  <2>2. poll' = [poll EXCEPT ![c][p] = q2]
    BY <1>2, <1>3, <1>7 DEF TypeOK, Poll
  <2>3. since' = since
    BY <1>2, <1>7
  <2>4. /\ t \in Nat /\ q2 = [poll[c][p] EXCEPT !.todo = @ \ {m}, !.max = t]
        /\ t \in {q.max, since[c]}
                  \cup { g.timestamp : g \in FirstOf(q, m) }
    BY <1>2, <1>5
  <2> HIDE DEF t, q2
  <2> QED
    BY <1>2, <1>4, <2>1, <2>2, <2>3, <2>4 DEF DecryptedTo
<1> QED
  BY <1>6, <1>7

\* A poll that has its key asks the servers it began with; nothing else of it
\* changes.
ImportedTo(c, p, q) ==
  /\ poll' = [poll EXCEPT ![c][p] = q]
  /\ poll[c][p].stage = "importing" /\ q.stage = "fetching"
  /\ q.servers = poll[c][p].servers
  /\ q.results = poll[c][p].results
  /\ q.todo = poll[c][p].todo
  /\ q.max = poll[c][p].max

LEMMA KeyImportedEffect ==
  ASSUME TypeOK, NEW c \in Clients, NEW p \in Polls, KeyImported(c, p)
  PROVE  \E q \in Poll : ImportedTo(c, p, q)
<1> DEFINE old == poll[c][p]
           q == [old EXCEPT !.stage = "fetching", !.since = since[c],
                            !.awaiting = old.servers]
<1>1. old \in Poll /\ since[c] \in Nat
  BY DEF TypeOK
<1>2. /\ q \in Poll
      /\ q.stage = "fetching" /\ q.servers = old.servers
      /\ q.results = old.results /\ q.todo = old.todo /\ q.max = old.max
  BY <1>1 DEF Poll
<1>3. poll' = [poll EXCEPT ![c][p] = q] /\ old.stage = "importing"
  BY DEF KeyImported
<1> HIDE DEF q
<1> QED
  BY <1>2, <1>3 DEF ImportedTo

\* Slot k of the poll holds got now, rows of its node; the poll has become q.
AnsweredWith(c, p, k, got, q) ==
  /\ got \subseteq rows[ChatServers[k]]
  /\ poll' = [poll EXCEPT ![c][p] = q]
  /\ q.stage = poll[c][p].stage
  /\ q.servers = poll[c][p].servers
  /\ q.results = [poll[c][p].results EXCEPT ![k] = got]
  /\ q.todo = poll[c][p].todo
  /\ q.max = poll[c][p].max

\* A node answers with rows it has.
LEMMA FetchReplyEffect ==
  ASSUME TypeOK, NEW c \in Clients, NEW p \in Polls, NEW k \in Slots,
         FetchReply(c, p, k)
  PROVE  \E got \in SUBSET Fragment, q \in Poll :
           AnsweredWith(c, p, k, got, q)
<1>1. \A n, t : Answers(n, t) \subseteq SUBSET rows[n]
  BY DEF Answers, SelectSince
<1>2. PICK got \in Answers(ChatServers[k], poll[c][p].since) :
        poll' = [poll EXCEPT ![c][p].awaiting = @ \ {k},
                             ![c][p].results[k] = got]
  BY DEF FetchReply
<1> DEFINE old == poll[c][p]
           q == [old EXCEPT !.awaiting = @ \ {k}, !.results[k] = got]
<1>3. got \subseteq rows[ChatServers[k]]
  BY <1>1, <1>2
<1>4. got \in SUBSET Fragment
  BY <1>3, SlotNode DEF TypeOK
<1>5. old \in Poll
  BY DEF TypeOK
<1>6. poll' = [poll EXCEPT ![c][p] = q]
  BY <1>2, <1>5 DEF TypeOK, Poll
<1>7. /\ q \in Poll
      /\ q.stage = old.stage /\ q.servers = old.servers
      /\ q.results = [old.results EXCEPT ![k] = got]
      /\ q.todo = old.todo /\ q.max = old.max
  BY <1>4, <1>5 DEF Poll
<1> HIDE DEF q
<1> QED
  BY <1>3, <1>4, <1>6, <1>7 DEF AnsweredWith

\* Each action keeps the types.
LEMMA TypeStep == TypeOK /\ [Next]_vars => TypeOK'
<1> SUFFICES ASSUME TypeOK, [Next]_vars PROVE TypeOK'
  OBVIOUS
<1> USE SlotNode
<1>1. CASE Tick
  BY <1>1 DEF TypeOK, Tick, sendVars, clientVars
<1>2. ASSUME NEW n \in Nodes, NodeDown(n) PROVE TypeOK'
  <2>1. req' \in [Messages -> [Slots -> Request]]
    <3>1. \A m \in Messages, k \in Slots :
            req[m][k] \in Request
      BY DEF TypeOK
    <3> QED
      BY <1>2, <3>1, RestageType DEF NodeDown
  <2> QED
    BY <1>2, <2>1 DEF TypeOK, NodeDown, clientVars
<1>3. ASSUME NEW n \in Nodes, NodeUp(n) PROVE TypeOK'
  BY <1>3 DEF TypeOK, NodeUp, sendVars, clientVars
<1>4. ASSUME NEW n \in Nodes, Purge(n) PROVE TypeOK'
  BY <1>4 DEF TypeOK, Purge, sendVars, clientVars
<1>5. ASSUME NEW m \in Messages, StartSend(m) PROVE TypeOK'
  <2>1. kept[Author[m]] \in SUBSET Slots
    BY ChatAssumption DEF TypeOK, ChatAssumption
  <2>2. send' \in [Messages -> Send]
    <3>1. [send[m] EXCEPT !.stage = "posting", !.servers = kept[Author[m]]]
            \in Send
      BY <2>1 DEF TypeOK, Send
    <3>2. send' = [send EXCEPT ![m] =
            [send[m] EXCEPT !.stage = "posting", !.servers = kept[Author[m]]]]
      BY <1>5 DEF StartSend, TypeOK, Send
    <3> QED
      BY <3>1, <3>2 DEF TypeOK
  <2>3. req' \in [Messages -> [Slots -> Request]]
    BY <1>5 DEF TypeOK, StartSend, Request, NoRequest, Arrivals
  <2> QED
    BY <1>5, <2>2, <2>3 DEF TypeOK, StartSend, nodeVars, clientVars
<1>6. ASSUME NEW m \in Messages, FinishSend(m) PROVE TypeOK'
  <2>1. send' \in [Messages -> Send]
    <3>1. [send[m] EXCEPT !.stage = "done"] \in Send
      BY DEF TypeOK, Send
    <3> QED
      BY <1>6, <3>1 DEF FinishSend, TypeOK
  <2>2. shown' \in [Clients -> Seq(Entry)]
    <3>1. Author[m] \in Clients
      BY ChatAssumption DEF ChatAssumption
    <3>2. \A status \in {"sent", "partial"} :
            [id |-> m, text |-> "plain", status |-> status] \in Entry
      BY DEF Entry
    <3>3. \E e \in Entry : shown' = [shown EXCEPT ![Author[m]] = Append(@, e)]
      BY <1>6, <3>2 DEF FinishSend
    <3> QED
      BY <3>1, <3>3 DEF TypeOK
  <2> QED
    BY <1>6, <2>1, <2>2 DEF TypeOK, FinishSend, nodeVars
<1>7. ASSUME NEW m \in Messages, NEW k \in Slots, HandlePost(m, k)
      PROVE TypeOK'
  <2>1. clock[ChatServers[k]] \in Nat
    BY DEF TypeOK
  <2>2. req' \in [Messages -> [Slots -> Request]]
    <3>1. PICK got \in Arrivals :
            req' = [req EXCEPT ![m][k] =
              [stage |-> "stamped", stamp |-> clock[ChatServers[k]],
               got |-> got]]
      BY <1>7 DEF HandlePost, Arrivals
    <3>2. [stage |-> "stamped", stamp |-> clock[ChatServers[k]], got |-> got]
            \in Request
      BY <2>1 DEF Request
    <3> QED
      BY <3>1, <3>2 DEF TypeOK
  <2> QED
    BY <1>7, <2>2 DEF TypeOK, HandlePost, nodeVars, clientVars
<1>8. ASSUME NEW m \in Messages, NEW k \in Slots, RejectPost(m, k)
      PROVE TypeOK'
  <2>1. req' \in [Messages -> [Slots -> Request]]
    <3>1. [req[m][k] EXCEPT !.stage = "rejected"] \in Request
      BY RestageType DEF TypeOK
    <3> QED
      BY <1>8, <3>1 DEF RejectPost, TypeOK
  <2> QED
    BY <1>8, <2>1 DEF TypeOK, RejectPost, nodeVars, clientVars
<1>9. ASSUME NEW m \in Messages, NEW k \in Slots, InsertPost(m, k)
      PROVE TypeOK'
  <2>1. req' \in [Messages -> [Slots -> Request]]
    <3>1. [req[m][k] EXCEPT !.stage = "stored"] \in Request
      BY RestageType DEF TypeOK
    <3> QED
      BY <1>9, <3>1 DEF InsertPost, TypeOK
  <2>2. rows' \in [Nodes -> SUBSET Fragment]
    BY <1>9, FragmentOfType DEF TypeOK, InsertPost, InsertOrIgnore
  <2> QED
    BY <1>9, <2>1, <2>2 DEF TypeOK, InsertPost, clientVars
<1>10. ASSUME NEW m \in Messages, NEW k \in Slots,
              AckPost(m, k) \/ FailPost(m, k)
       PROVE TypeOK'
  <2>1. send' \in [Messages -> Send]
    <3>1. /\ [send[m] EXCEPT !.acked = @ \cup {k}] \in Send
          /\ [send[m] EXCEPT !.failed = @ \cup {k}] \in Send
      BY DEF TypeOK, Send
    <3> QED
      BY <1>10, <3>1 DEF AckPost, FailPost, TypeOK
  <2> QED
    BY <1>10, <2>1 DEF TypeOK, AckPost, FailPost, nodeVars, clientVars
<1>11. ASSUME NEW c \in Clients, NEW p \in Polls, StartPoll(c, p)
       PROVE TypeOK'
  <2>1. [NoPoll EXCEPT !.stage = "importing", !.servers = kept[c]] \in Poll
    BY DEF TypeOK, NoPoll, Poll
  <2>2. poll' \in [Clients -> [Polls -> Poll]]
    BY <1>11, <2>1 DEF TypeOK, StartPoll
  <2> QED
    BY <1>11, <2>2 DEF TypeOK, StartPoll, nodeVars, sendVars
<1>12. ASSUME NEW c \in Clients, NEW p \in Polls, Assemble(c, p)
       PROVE TypeOK'
  <2> DEFINE todo == Complete(poll[c][p]) \ IdsShown(c)
  <2>1. [poll[c][p] EXCEPT !.stage = "decrypting", !.todo = todo,
                           !.max = since[c]] \in Poll
    <3>1. /\ poll[c][p] \in Poll
          /\ since[c] \in Nat
          /\ todo \in SUBSET Messages
      BY DEF TypeOK, Complete
    <3> HIDE DEF todo
    <3> QED
      BY <3>1 DEF Poll
  <2>2. poll' \in [Clients -> [Polls -> Poll]]
    BY <1>12, <2>1, NothingType DEF TypeOK, Assemble
  <2> QED
    BY <1>12, <2>2 DEF TypeOK, Assemble, nodeVars, sendVars
<1>13. ASSUME NEW c \in Clients, NEW p \in Polls, Decrypted(c, p)
       PROVE TypeOK'
  <2>1. PICK m \in Messages, text \in Texts, q2 \in Poll, t \in Nat :
          DecryptedTo(c, p, m, text, q2, t)
    BY <1>13, DecryptedEffect
  <2>2. Received(m, text) \in Entry
    BY DEF Received, Texts, Entry
  <2>3. shown' \in [Clients -> Seq(Entry)]
    BY <2>1, <2>2 DEF TypeOK, DecryptedTo
  <2>4. poll' \in [Clients -> [Polls -> Poll]] /\ since' \in [Clients -> Nat]
    BY <2>1 DEF TypeOK, DecryptedTo
  <2>5. UNCHANGED <<nodeVars, sendVars, kept>>
    BY <1>13 DEF Decrypted
  <2> QED
    BY <2>3, <2>4, <2>5 DEF TypeOK, nodeVars, sendVars
<1>14. ASSUME NEW c \in Clients, NEW p \in Polls, NEW k \in Slots,
              FetchReply(c, p, k) \/ FetchFail(c, p, k)
       PROVE TypeOK'
  <2> DEFINE q == poll[c][p]
  <2>1. q \in Poll
    BY DEF TypeOK
  <2>2. \E q2 \in Poll : poll' = [poll EXCEPT ![c][p] = q2]
    <3>1. CASE FetchReply(c, p, k)
      <4>1. PICK got \in SUBSET Fragment, q2 \in Poll :
              AnsweredWith(c, p, k, got, q2)
        BY <3>1, FetchReplyEffect
      <4> QED
        BY <4>1 DEF AnsweredWith
    <3>2. CASE FetchFail(c, p, k)
      <4>1. [q EXCEPT !.awaiting = @ \ {k}] \in Poll
        BY <2>1 DEF Poll
      <4> QED
        BY <3>2, <4>1 DEF FetchFail, TypeOK
    <3> QED
      BY <1>14, <3>1, <3>2
  <2> QED
    BY <1>14, <2>2 DEF TypeOK, FetchReply, FetchFail, nodeVars, sendVars
<1>15. ASSUME NEW c \in Clients, Reload(c) PROVE TypeOK'
  <2>1. send' \in [Messages -> Send]
    <3>1. \A m \in Messages :
            send[m] \in Send /\ [send[m] EXCEPT !.stage = "done"] \in Send
      BY DEF TypeOK, Send
    <3> QED
      BY <1>15, <3>1 DEF Reload
  <2>2. poll' \in [Clients -> [Polls -> Poll]]
    BY <1>15, NothingType DEF TypeOK, Reload
  <2>3. << >> \in Seq(Entry)
    OBVIOUS
  <2>4. shown' \in [Clients -> Seq(Entry)]
    BY <1>15, <2>3 DEF TypeOK, Reload
  <2> QED
    BY <1>15, <2>1, <2>2, <2>4 DEF TypeOK, Reload, nodeVars
<1>16. ASSUME NEW c \in Clients, NEW k \in Slots, RemoveServer(c, k)
       PROVE TypeOK'
  BY <1>16 DEF TypeOK, RemoveServer, nodeVars, sendVars
<1>17. ASSUME NEW c \in Clients, NEW p \in Polls, KeyImported(c, p)
       PROVE TypeOK'
  <2>1. PICK q \in Poll : ImportedTo(c, p, q)
    BY <1>17, KeyImportedEffect
  <2> QED
    BY <1>17, <2>1 DEF ImportedTo, TypeOK, KeyImported, nodeVars, sendVars
<1>18. CASE UNCHANGED vars
  BY <1>18 DEF TypeOK, vars
<1> QED
  BY <1>1, <1>2, <1>3, <1>4, <1>5, <1>6, <1>7, <1>8, <1>9, <1>10, <1>11,
     <1>12, <1>13, <1>14, <1>15, <1>16, <1>17, <1>18
  DEF Next, NodeNext, SendNext, PollNext, UserNext

\* The types hold at the start.
LEMMA TypeInit == Init => TypeOK
<1> SUFFICES ASSUME Init PROVE TypeOK
  OBVIOUS
<1>1. << >> \in Seq(Entry)
  OBVIOUS
<1> QED
  BY <1>1, NothingType DEF Init, TypeOK

\* Every variable of a behaviour of the chat keeps the type its code gives it.
THEOREM TypeCorrect == Spec => []TypeOK
  BY TypeInit, TypeStep, PTL DEF Spec

\* A step of a poll concerns nothing but the client's memory, and but for the
\* end of a turn of the loop nothing but the poll.
LEMMA PollFrame ==
  ASSUME PollNext
  PROVE  /\ UNCHANGED <<nodeVars, sendVars, kept>>
         /\ \/ UNCHANGED <<since, shown>>
            \/ \E c \in Clients, p \in Polls : Decrypted(c, p)
<1>1. PICK c \in Clients, p \in Polls :
        \/ StartPoll(c, p)
        \/ KeyImported(c, p)
        \/ Assemble(c, p)
        \/ Decrypted(c, p)
        \/ \E k \in Slots : FetchReply(c, p, k) \/ FetchFail(c, p, k)
  BY DEF PollNext
<1>2. CASE StartPoll(c, p)
  BY <1>2 DEF StartPoll
<1>3. CASE Assemble(c, p)
  BY <1>3 DEF Assemble
<1>4. CASE Decrypted(c, p)
  BY <1>4 DEF Decrypted
<1>5. ASSUME NEW k \in Slots, FetchReply(c, p, k) \/ FetchFail(c, p, k)
      PROVE  UNCHANGED <<nodeVars, sendVars, kept, since, shown>>
  BY <1>5 DEF FetchReply, FetchFail
<1>6. CASE KeyImported(c, p)
  BY <1>6 DEF KeyImported
<1> QED
  BY <1>1, <1>2, <1>3, <1>4, <1>5, <1>6

-----------------------------------------------------------------------------
(***************************************************************************)
(* The cursor.                                                             *)
(***************************************************************************)
\* Only the end of a poll touches a cursor.
LEMMA CursorStep ==
  ASSUME TypeOK, [Next]_vars, NEW c \in Clients
  PROVE  since'[c] >= since[c]
<1>0. since[c] \in Nat
  BY DEF TypeOK
<1>1. CASE UNCHANGED since
  BY <1>0, <1>1
<1>2. ASSUME NEW d \in Clients, NEW p \in Polls, Decrypted(d, p)
      PROVE  since'[c] >= since[c]
  <2>1. PICK m \in Messages, text \in Texts, q2 \in Poll, t \in Nat :
          DecryptedTo(d, p, m, text, q2, t)
    BY <1>2, DecryptedEffect
  <2> QED
    <3>1. \/ since' = since
          \/ since' = [since EXCEPT ![d] = t] /\ t >= since[d]
      BY <2>1 DEF DecryptedTo
    <3>2. since \in [Clients -> Nat]
      BY DEF TypeOK
    <3> QED
      BY <3>1, <3>2
<1>3. CASE NodeNext
  <2>1. UNCHANGED since
    BY <1>3 DEF NodeNext, Tick, NodeDown, NodeUp, Purge, clientVars
  <2> QED
    BY <1>1, <2>1
<1>4. CASE SendNext
  <2>1. UNCHANGED since
    BY <1>4 DEF SendNext, StartSend, FinishSend, HandlePost, RejectPost,
                InsertPost, AckPost, FailPost, clientVars
  <2> QED
    BY <1>1, <2>1
<1>5. CASE PollNext
  <2>1. UNCHANGED since \/ \E d \in Clients, p \in Polls : Decrypted(d, p)
    BY <1>5, PollFrame
  <2> QED
    BY <1>1, <1>2, <2>1
<1>6. CASE UserNext
  <2>1. UNCHANGED since
    BY <1>6 DEF UserNext, Reload, RemoveServer
  <2> QED
    BY <1>1, <2>1
<1>7. CASE UNCHANGED vars
  BY <1>1, <1>7 DEF vars
<1> QED
  BY <1>3, <1>4, <1>5, <1>6, <1>7 DEF Next

\* No interleaving of polls, reloads or failures moves a cursor back
\* (pollChat compares with chat.lastSince before it stores, app.js:433).
THEOREM CursorForward == Spec => CursorNeverRetreats
<1>1. TypeOK /\ [Next]_vars =>
        [\A c \in Clients : since'[c] >= since[c]]_vars
  BY CursorStep
<1> QED
  BY <1>1, TypeCorrect, PTL DEF Spec, CursorNeverRetreats

-----------------------------------------------------------------------------
(***************************************************************************)
(* The nodes implement FragmentRegistry.                                   *)
(***************************************************************************)
\* A step of the chat is a step of every node's registry, or none.
LEMMA NodeStep ==
  ASSUME TypeOK, [Next]_vars, NEW n \in Nodes
  PROVE  [Registry(n)!Next]_<<rows[n], clock[n]>>
<1>0. clock \in [Nodes -> Nat] /\ rows \in [Nodes -> SUBSET Fragment]
  BY DEF TypeOK
<1>1. CASE Tick
  <2>1. clock'[n] >= clock[n] /\ rows'[n] = rows[n]
    BY <1>0, <1>1 DEF Tick
  <2> QED
    BY <2>1 DEF Registry!Next, Registry!Pass
<1>2. ASSUME NEW x \in Nodes, Purge(x)
      PROVE  [Registry(n)!Next]_<<rows[n], clock[n]>>
  <2>1. CASE x = n
    <3>1. PICK t \in 1 .. clock[n] :
            /\ clock'[n] = clock[n]
            /\ rows'[n] = rows[n] \ Expired(rows[n], t)
      BY <1>0, <1>2, <2>1 DEF Purge
    <3>2. Expired(rows[n], t) \subseteq Expired(rows[n], clock[n])
      <4>1. \A r \in rows[n] : r.timestamp \in Nat /\ r.ttl \in Nat
        BY <1>0 DEF Fragment
      <4>2. t \in Nat /\ clock[n] \in Nat /\ t <= clock[n]
        BY <1>0, <3>1
      <4> QED
        BY <4>1, <4>2 DEF Expired
    <3>3. rows'[n] \subseteq rows[n]
          /\ rows[n] \ rows'[n] \subseteq Expired(rows[n], clock[n])
      BY <3>1, <3>2
    <3> QED
      BY <3>1, <3>3
      DEF Registry!Next, Registry!Retire, Registry!Expired, Expired
  <2>2. CASE x # n
    BY <1>0, <1>2, <2>2 DEF Purge
  <2> QED
    BY <2>1, <2>2
<1>3. ASSUME NEW m \in Messages, NEW k \in Slots, InsertPost(m, k)
      PROVE  [Registry(n)!Next]_<<rows[n], clock[n]>>
  <2> DEFINE f == FragmentOf(m, k)
  <2>1. clock' = clock
    BY <1>3 DEF InsertPost
  <2>2. \/ rows'[n] = rows[n]
        \/ f.id \notin IdsOf(rows[n]) /\ rows'[n] = rows[n] \cup {f}
    BY <1>0, <1>3 DEF InsertPost, InsertOrIgnore
  <2>3. CASE rows'[n] = rows[n]
    BY <2>1, <2>3
  <2>4. CASE f.id \notin IdsOf(rows[n]) /\ rows'[n] = rows[n] \cup {f}
    <3> HIDE DEF f
    <3>1. f \in rows'[n] \ rows[n]
      BY <2>4 DEF IdsOf
    <3> QED
      BY <2>1, <2>4, <3>1
      DEF Registry!Next, Registry!Admit, Registry!IdsOf, IdsOf
  <2> QED
    BY <2>2, <2>3, <2>4
<1>4. CASE UNCHANGED <<rows, clock>>
  BY <1>4
<1>5. CASE NodeNext
  <2>1. \/ UNCHANGED <<rows, clock>>
        \/ Tick
        \/ \E x \in Nodes : Purge(x)
    BY <1>5 DEF NodeNext, NodeDown, NodeUp
  <2> QED
    BY <1>1, <1>2, <1>4, <2>1
<1>6. CASE SendNext
  <2>1. \/ UNCHANGED <<rows, clock>>
        \/ \E m \in Messages, k \in Slots : InsertPost(m, k)
    BY <1>6 DEF SendNext, StartSend, FinishSend, HandlePost, RejectPost,
                AckPost, FailPost, nodeVars
  <2> QED
    BY <1>3, <1>4, <2>1
<1>7. CASE PollNext \/ UserNext
  <2>1. UNCHANGED <<rows, clock>>
    BY <1>7, PollFrame DEF UserNext, Reload, RemoveServer, nodeVars
  <2> QED
    BY <1>4, <2>1
<1>8. CASE UNCHANGED vars
  BY <1>4, <1>8 DEF vars
<1> QED
  BY <1>5, <1>6, <1>7, <1>8 DEF Next

\* Every node of the chat implements FragmentRegistry: fragments enter under
\* fresh ids, stay as they are, and leave only when expired.
THEOREM NodesImplementRegistry == Spec => NodesKeepPromise
<1>1. Init => \A n \in Nodes : Registry(n)!Init
  BY DEF Init, Registry!Init
<1>2. TypeOK /\ [Next]_vars =>
        [\A n \in Nodes : [Registry(n)!Next]_<<rows[n], clock[n]>>]_vars
  BY NodeStep
<1> QED
  BY <1>1, <1>2, TypeCorrect, PTL DEF Spec, NodesKeepPromise

-----------------------------------------------------------------------------
(***************************************************************************)
(* What status "sent" means.  Alone, SentIsStored does not survive a step: *)
(* it needs what the acknowledgements and the rows behind it mean.         *)
(***************************************************************************)
\* An acknowledged post was carried out, and nothing is acknowledged before
\* the message is sent.
AckedMeansStored ==
  \A m \in Messages :
    /\ send[m].stage = "unsent" => send[m].acked = {}
    /\ \A k \in send[m].acked : req[m][k].stage = "stored"

\* A post carried out left a row, for good without a ttl.
PostedIsStored ==
  \A m \in Messages, k \in Slots :
    Ttl[m] = 0 /\ req[m][k].stage = "stored" => Stored(m, k)

\* A row is named after its message and lives no shorter than the message.
RowsAreNamed ==
  \A n \in Nodes : \A r \in rows[n] :
    /\ \E i \in Nat : r.id = <<r.message_id, i>>
    /\ Ttl[r.message_id] = 0 => r.ttl = 0

\* A message listed as sent has every post acknowledged.
SentMeansAcked ==
  \A c \in Clients : \A i \in DOMAIN shown[c] :
    LET m == shown[c][i].id IN
    shown[c][i].status = "sent" =>
      send[m].stage = "done" /\ send[m].servers \subseteq send[m].acked

SentInv ==
  AckedMeansStored /\ PostedIsStored /\ RowsAreNamed /\ SentMeansAcked

\* What a list shows is a message.
LEMMA ShownMessages ==
  ASSUME TypeOK, NEW c \in Clients, NEW i \in DOMAIN shown[c]
  PROVE  shown[c][i] \in Entry /\ shown[c][i].id \in Messages
<1>1. shown[c] \in Seq(Entry)
  BY DEF TypeOK
<1>2. shown[c][i] \in Entry
  BY <1>1
<1> QED
  BY <1>2 DEF Entry

\* The strengthened invariant implies the property.
LEMMA SentInvImplies == TypeOK /\ SentInv => SentIsStored
<1> SUFFICES ASSUME TypeOK, SentInv, NEW c \in Clients,
                    NEW i \in DOMAIN shown[c],
                    shown[c][i].status = "sent", Ttl[shown[c][i].id] = 0,
                    NEW k \in send[shown[c][i].id].servers
             PROVE  Stored(shown[c][i].id, k)
  BY DEF SentIsStored
<1> DEFINE m == shown[c][i].id
<1>1. m \in Messages
  BY ShownMessages
<1>2. k \in Slots
  BY <1>1 DEF TypeOK, Send
<1>3. k \in send[m].acked
  BY DEF SentInv, SentMeansAcked
<1>4. req[m][k].stage = "stored"
  BY <1>1, <1>3 DEF SentInv, AckedMeansStored
<1> QED
  BY <1>1, <1>2, <1>4 DEF SentInv, PostedIsStored

\* Posts, rows and sends stay, and a list that changes gains no "sent" entry.
LEMMA SentFrame ==
  ASSUME SentInv, UNCHANGED <<rows, req, send>>,
         \A c \in Clients : \A i \in DOMAIN shown'[c] :
           shown'[c][i].status = "sent" =>
             i \in DOMAIN shown[c] /\ shown'[c][i] = shown[c][i]
  PROVE  SentInv'
<1>1. AckedMeansStored' /\ PostedIsStored' /\ RowsAreNamed'
  BY DEF SentInv, AckedMeansStored, PostedIsStored, RowsAreNamed, Stored
<1>2. SentMeansAcked'
  BY DEF SentInv, SentMeansAcked
<1> QED
  BY <1>1, <1>2 DEF SentInv

\* Requests that are carried out stay so, and none becomes so.
LEMMA SentRequestFrame ==
  ASSUME SentInv, UNCHANGED <<rows, send, shown>>,
         \A m \in Messages, k \in Slots :
           req'[m][k].stage = "stored" <=> req[m][k].stage = "stored",
         TypeOK
  PROVE  SentInv'
<1>1. AckedMeansStored'
  <2>1. \A m \in Messages : send[m].acked \subseteq Slots
    BY DEF TypeOK, Send
  <2> QED
    BY <2>1 DEF SentInv, AckedMeansStored
<1>2. PostedIsStored' /\ RowsAreNamed' /\ SentMeansAcked'
  BY DEF SentInv, PostedIsStored, RowsAreNamed, SentMeansAcked, Stored
<1> QED
  BY <1>1, <1>2 DEF SentInv

\* Nodes: a crash drops requests not yet carried out, the cleanup leaves rows
\* without a ttl.
LEMMA SentNodeStep == TypeOK /\ SentInv /\ NodeNext => SentInv'
<1> SUFFICES ASSUME TypeOK, SentInv, NodeNext PROVE SentInv'
  OBVIOUS
<1>1. ASSUME NEW n \in Nodes, Purge(n) PROVE SentInv'
  <2>1. UNCHANGED <<send, req, shown>>
    BY <1>1 DEF Purge, sendVars, clientVars
  <2>2. \A x \in Nodes : /\ rows'[x] \subseteq rows[x]
                         /\ \A r \in rows[x] : r.ttl = 0 => r \in rows'[x]
    <3>1. rows \in [Nodes -> SUBSET Fragment]
      BY DEF TypeOK
    <3> QED
      BY <1>1, <3>1 DEF Purge, Expired
  <2>3. AckedMeansStored' /\ SentMeansAcked'
    BY <2>1 DEF SentInv, AckedMeansStored, SentMeansAcked
  <2>4. RowsAreNamed'
    BY <2>2 DEF SentInv, RowsAreNamed
  <2>5. ASSUME NEW m \in Messages, NEW k \in Slots,
               Ttl[m] = 0, req[m][k].stage = "stored"
        PROVE  Stored(m, k)'
    <3> DEFINE x == ChatServers[k]
    <3>1. PICK r \in rows[x] : r.id = <<m, Rank(send[m].servers, k)>>
      BY <2>5 DEF SentInv, PostedIsStored, Stored
    <3>2. x \in Nodes
      BY SlotNode
    <3>3. r.ttl = 0
      BY <2>5, <3>1, <3>2 DEF SentInv, RowsAreNamed
    <3> QED
      BY <2>1, <2>2, <3>1, <3>2, <3>3 DEF Stored
  <2>6. PostedIsStored'
    BY <2>1, <2>5 DEF PostedIsStored
  <2> QED
    BY <2>3, <2>4, <2>6 DEF SentInv
<1>2. ASSUME NEW n \in Nodes, NodeDown(n) PROVE SentInv'
  <2>1. UNCHANGED <<rows, send, shown>>
    BY <1>2 DEF NodeDown, clientVars
  <2>2. ASSUME NEW m \in Messages, NEW k \in Slots
        PROVE  req'[m][k].stage = "stored" <=> req[m][k].stage = "stored"
    <3>1. req[m][k] \in Request
      BY DEF TypeOK
    <3>2. \/ req'[m][k] = req[m][k]
          \/ /\ req[m][k].stage = "stamped"
             /\ req'[m][k] = [req[m][k] EXCEPT !.stage = "rejected"]
      BY <1>2 DEF NodeDown
    <3> QED
      BY <3>1, <3>2 DEF Request
  <2> QED
    BY <2>1, <2>2, SentRequestFrame
<1>3. CASE UNCHANGED <<rows, req, send, shown>>
  BY <1>3, SentFrame
<1> QED
  BY <1>1, <1>2, <1>3
  DEF NodeNext, Tick, NodeUp, sendVars, clientVars

\* Sending and posting.
LEMMA SentSendStep == TypeOK /\ TypeOK' /\ SentInv /\ SendNext => SentInv'
<1> SUFFICES ASSUME TypeOK, TypeOK', SentInv, SendNext PROVE SentInv'
  OBVIOUS
<1> USE DEF SentInv
<1>1. ASSUME NEW m \in Messages, StartSend(m) PROVE SentInv'
  <2>1. UNCHANGED <<rows, shown>> /\ send[m].stage = "unsent"
    BY <1>1 DEF StartSend, nodeVars, clientVars
  <2>2. \A x \in Messages : x # m => send'[x] = send[x] /\ req'[x] = req[x]
    BY <1>1 DEF StartSend, TypeOK
  <2>3. send'[m].acked = {} /\ send'[m].stage = "posting"
    <3>1. send[m] \in Send /\ send[m].acked = {}
      BY <2>1 DEF TypeOK, AckedMeansStored
    <3>2. send'[m] = [send[m] EXCEPT !.stage = "posting",
                                     !.servers = kept[Author[m]]]
      BY <1>1 DEF StartSend, TypeOK, Send
    <3> QED
      BY <3>1, <3>2 DEF Send
  <2>4. \A k \in Slots : req'[m][k].stage # "stored"
    BY <1>1 DEF StartSend, TypeOK, NoRequest
  <2>5. AckedMeansStored'
    BY <2>2, <2>3 DEF AckedMeansStored
  <2>6. PostedIsStored'
    BY <2>1, <2>2, <2>4 DEF PostedIsStored, Stored
  <2>7. RowsAreNamed'
    BY <2>1 DEF RowsAreNamed
  <2>8. SentMeansAcked'
    <3>1. \A c \in Clients : \A i \in DOMAIN shown[c] :
            shown[c][i].id \in Messages
      BY ShownMessages
    <3> QED
      BY <2>1, <2>2, <3>1 DEF SentMeansAcked
  <2> QED
    BY <2>5, <2>6, <2>7, <2>8
<1>2. ASSUME NEW m \in Messages, FinishSend(m) PROVE SentInv'
  <2> DEFINE a == Author[m]
             e == [id |-> m, text |-> "plain",
                   status |-> IF send[m].failed = {} THEN "sent"
                              ELSE "partial"]
  <2>1. /\ UNCHANGED <<rows, req>>
        /\ send' = [send EXCEPT ![m].stage = "done"]
        /\ shown' = [shown EXCEPT ![a] = Append(@, e)]
        /\ send[m].servers \subseteq send[m].acked \cup send[m].failed
        /\ send[m].stage = "posting"
    BY <1>2 DEF FinishSend, nodeVars, Unsettled
  <2>2. a \in Clients
    BY ChatAssumption DEF ChatAssumption
  <2>3. /\ \A x \in Messages :
             /\ send'[x].acked = send[x].acked
             /\ send'[x].servers = send[x].servers
             /\ x # m => send'[x].stage = send[x].stage
        /\ send'[m].stage = "done"
    BY <2>1 DEF TypeOK, Send
  <2>4. AckedMeansStored'
    BY <2>1, <2>3 DEF AckedMeansStored
  <2>5. PostedIsStored' /\ RowsAreNamed'
    BY <2>1, <2>3 DEF PostedIsStored, RowsAreNamed, Stored
  <2>6. SentMeansAcked'
    <3> SUFFICES ASSUME NEW c \in Clients, NEW i \in DOMAIN shown'[c],
                        shown'[c][i].status = "sent"
                 PROVE  /\ send'[shown'[c][i].id].stage = "done"
                        /\ send'[shown'[c][i].id].servers
                             \subseteq send'[shown'[c][i].id].acked
      BY DEF SentMeansAcked
    <3>1. shown[c] \in Seq(Entry) /\ shown \in [Clients -> Seq(Entry)]
      BY DEF TypeOK
    <3>2. CASE i \in DOMAIN shown[c] /\ shown'[c][i] = shown[c][i]
      <4>1. shown[c][i].id \in Messages
        BY <3>2, ShownMessages
      <4> QED
        BY <2>3, <3>2, <4>1 DEF SentMeansAcked
    <3>3. CASE shown'[c][i] = e
      <4>1. shown'[c][i].id = m /\ send[m].failed = {}
        BY <3>3
      <4> QED
        BY <2>1, <2>3, <4>1
    <3>4. \/ i \in DOMAIN shown[c] /\ shown'[c][i] = shown[c][i]
          \/ shown'[c][i] = e
      <4> HIDE DEF e, a
      <4>1. CASE c = a
        <5>1. shown'[c] = Append(shown[c], e)
          BY <2>1, <3>1, <4>1
        <5> QED
          BY <3>1, <5>1
      <4>2. CASE c # a
        BY <2>1, <3>1, <4>2
      <4> QED
        BY <4>1, <4>2
    <3> QED
      BY <3>2, <3>3, <3>4
  <2> QED
    BY <2>4, <2>5, <2>6
<1>3. ASSUME NEW m \in Messages, NEW k \in Slots,
             HandlePost(m, k) \/ RejectPost(m, k)
      PROVE  SentInv'
  <2>1. UNCHANGED <<rows, send, shown>>
    BY <1>3 DEF HandlePost, RejectPost, nodeVars, clientVars
  <2>2. \A x \in Messages, j \in Slots :
          req'[x][j].stage = "stored" <=> req[x][j].stage = "stored"
    <3>1. req \in [Messages -> [Slots -> Request]]
      BY DEF TypeOK
    <3>2. req[m][k].stage \in {"sent", "stamped"}
      BY <1>3 DEF HandlePost, RejectPost
    <3>3. \E r \in Request : /\ r.stage \in {"stamped", "rejected"}
                             /\ req' = [req EXCEPT ![m][k] = r]
      <4>1. CASE HandlePost(m, k)
        <5>1. clock[ChatServers[k]] \in Nat
          BY SlotNode DEF TypeOK
        <5>2. PICK got \in Arrivals :
                req' = [req EXCEPT ![m][k] =
                  [stage |-> "stamped", stamp |-> clock[ChatServers[k]],
                   got |-> got]]
          BY <4>1 DEF HandlePost, Arrivals
        <5> QED
          BY <5>1, <5>2 DEF Request
      <4>2. CASE RejectPost(m, k)
        <5>1. /\ [req[m][k] EXCEPT !.stage = "rejected"] \in Request
              /\ [req[m][k] EXCEPT !.stage = "rejected"].stage = "rejected"
          BY <3>1, RestageType DEF Request
        <5> QED
          BY <4>2, <5>1 DEF RejectPost
      <4> QED
        BY <1>3, <4>1, <4>2
    <3> QED
      BY <3>1, <3>2, <3>3
  <2> QED
    BY <2>1, <2>2, SentRequestFrame
<1>4. ASSUME NEW m \in Messages, NEW k \in Slots, InsertPost(m, k)
      PROVE  SentInv'
  <2> DEFINE n == ChatServers[k]
             f == FragmentOf(m, k)
  <2>1. /\ UNCHANGED <<send, shown>>
        /\ rows' = [rows EXCEPT ![n] = InsertOrIgnore(@, f)]
        /\ req' = [req EXCEPT ![m][k].stage = "stored"]
    BY <1>4 DEF InsertPost, clientVars
  <2>2. n \in Nodes /\ rows \in [Nodes -> SUBSET Fragment]
    BY SlotNode DEF TypeOK
  <2>3. /\ f.id = <<m, Rank(send[m].servers, k)>>
        /\ f.message_id = m
        /\ Ttl[m] = 0 => f.ttl = 0
    BY DEF FragmentOf
  <2>4. Rank(send[m].servers, k) \in Nat
    <3>1. send[m].servers \in SUBSET Slots
      BY DEF TypeOK, Send
    <3> QED
      BY <3>1, RankType
  <2> HIDE DEF f, n
  <2>5. /\ \A x \in Nodes : rows[x] \subseteq rows'[x]
        /\ \A x \in Nodes : \A r \in rows'[x] : r \in rows[x] \/ r = f
        /\ \E r \in rows'[n] : r.id = f.id
    BY <2>1, <2>2 DEF InsertOrIgnore, IdsOf
  <2>6. \A x \in Messages, j \in Slots :
          /\ req[x][j].stage = "stored" => req'[x][j].stage = "stored"
          /\ x # m \/ j # k => req'[x][j] = req[x][j]
    BY <2>1 DEF TypeOK, Request
  <2>7. AckedMeansStored'
    <3>1. \A x \in Messages : send[x].acked \subseteq Slots
      BY DEF TypeOK, Send
    <3> QED
      BY <2>1, <2>6, <3>1 DEF AckedMeansStored
  <2>8. PostedIsStored'
    <3> SUFFICES ASSUME NEW x \in Messages, NEW j \in Slots,
                        Ttl[x] = 0, req'[x][j].stage = "stored"
                 PROVE  Stored(x, j)'
      BY DEF PostedIsStored
    <3>1. CASE x = m /\ j = k
      BY <2>1, <2>3, <2>5, <3>1 DEF Stored, n
    <3>2. CASE x # m \/ j # k
      <4>1. Stored(x, j)
        BY <2>6, <3>2 DEF PostedIsStored
      <4> QED
        BY <2>1, <2>5, <4>1, SlotNode DEF Stored
    <3> QED
      BY <3>1, <3>2
  <2>9. RowsAreNamed'
    BY <2>3, <2>4, <2>5 DEF RowsAreNamed
  <2>10. SentMeansAcked'
    BY <2>1 DEF SentMeansAcked
  <2> QED
    BY <2>7, <2>8, <2>9, <2>10
<1>5. ASSUME NEW m \in Messages, NEW k \in Slots,
             AckPost(m, k) \/ FailPost(m, k)
      PROVE  SentInv'
  <2>1. UNCHANGED <<rows, req, shown>>
    BY <1>5 DEF AckPost, FailPost, nodeVars, clientVars
  <2>2. /\ \A x \in Messages :
             /\ send'[x].servers = send[x].servers
             /\ send'[x].stage = send[x].stage
             /\ send[x].acked \subseteq send'[x].acked
             /\ x # m => send'[x] = send[x]
        /\ send[m].stage = "posting"
        /\ \A j \in send'[m].acked :
             j \in send[m].acked \/ req[m][j].stage = "stored"
    <3> DEFINE acked  == [send[m] EXCEPT !.acked = @ \cup {k}]
               failed == [send[m] EXCEPT !.failed = @ \cup {k}]
    <3>1. send \in [Messages -> Send] /\ send[m].stage = "posting"
      BY <1>5 DEF AckPost, FailPost, TypeOK
    <3>2. CASE AckPost(m, k)
      <4>1. /\ send' = [send EXCEPT ![m] = acked]
            /\ req[m][k].stage = "stored"
        BY <3>2 DEF AckPost
      <4>2. /\ acked.servers = send[m].servers
            /\ acked.stage = send[m].stage
            /\ acked.acked = send[m].acked \cup {k}
        BY <3>1 DEF Send
      <4> HIDE DEF acked
      <4> QED
        BY <3>1, <4>1, <4>2
    <3>3. CASE FailPost(m, k)
      <4>1. send' = [send EXCEPT ![m] = failed]
        BY <3>3 DEF FailPost
      <4>2. /\ failed.servers = send[m].servers
            /\ failed.stage = send[m].stage
            /\ failed.acked = send[m].acked
        BY <3>1 DEF Send
      <4> HIDE DEF failed
      <4> QED
        BY <3>1, <4>1, <4>2
    <3> QED
      BY <1>5, <3>2, <3>3
  <2>3. AckedMeansStored'
    BY <2>1, <2>2 DEF AckedMeansStored
  <2>4. PostedIsStored' /\ RowsAreNamed'
    BY <2>1, <2>2 DEF PostedIsStored, RowsAreNamed, Stored
  <2>5. SentMeansAcked'
    <3>1. \A c \in Clients : \A i \in DOMAIN shown[c] :
            shown[c][i].id \in Messages
      BY ShownMessages
    <3> QED
      BY <2>1, <2>2, <3>1 DEF SentMeansAcked
  <2> QED
    BY <2>3, <2>4, <2>5
<1> QED
  BY <1>1, <1>2, <1>3, <1>4, <1>5 DEF SendNext

\* Polls append entries of status "received".
LEMMA SentPollStep == TypeOK /\ SentInv /\ PollNext => SentInv'
<1> SUFFICES ASSUME TypeOK, SentInv, PollNext PROVE SentInv'
  OBVIOUS
<1>1. UNCHANGED <<rows, req, send>>
  BY PollFrame DEF nodeVars, sendVars
<1>2. CASE UNCHANGED shown
  BY <1>1, <1>2, SentFrame
<1>3. ASSUME NEW c \in Clients, NEW p \in Polls, Decrypted(c, p)
      PROVE  SentInv'
  <2>1. PICK m \in Messages, text \in Texts, q2 \in Poll, t \in Nat :
          DecryptedTo(c, p, m, text, q2, t)
    BY <1>3, DecryptedEffect
  <2> DEFINE e == Received(m, text)
  <2>2. shown' = [shown EXCEPT ![c] = Append(@, e)]
    BY <2>1 DEF DecryptedTo
  <2>3. e.status = "received"
    BY DEF Received
  <2> HIDE DEF e
  <2>4. ASSUME NEW d \in Clients, NEW i \in DOMAIN shown'[d],
               shown'[d][i].status = "sent"
        PROVE  i \in DOMAIN shown[d] /\ shown'[d][i] = shown[d][i]
    <3>1. shown[d] \in Seq(Entry) /\ shown \in [Clients -> Seq(Entry)]
      BY DEF TypeOK
    <3>2. CASE d = c
      <4>1. shown'[d] = Append(shown[d], e)
        BY <2>2, <3>1, <3>2
      <4> QED
        BY <2>3, <2>4, <3>1, <4>1
    <3>3. CASE d # c
      BY <2>2, <3>1, <3>3
    <3> QED
      BY <3>2, <3>3
  <2> QED
    BY <1>1, <2>4, SentFrame
<1> QED
  BY <1>2, <1>3, PollFrame

\* Reloading forgets the list and ends what was being sent.
LEMMA SentUserStep == TypeOK /\ SentInv /\ UserNext => SentInv'
<1> SUFFICES ASSUME TypeOK, SentInv, UserNext PROVE SentInv'
  OBVIOUS
<1>1. ASSUME NEW c \in Clients, NEW k \in Slots, RemoveServer(c, k)
      PROVE  SentInv'
  <2>1. UNCHANGED <<rows, req, send, shown>>
    BY <1>1 DEF RemoveServer, nodeVars, sendVars
  <2> QED
    BY <2>1, SentFrame
<1>2. ASSUME NEW c \in Clients, Reload(c) PROVE SentInv'
  <2>1. /\ UNCHANGED <<rows, req>>
        /\ shown' = [shown EXCEPT ![c] = << >>]
    BY <1>2 DEF Reload, nodeVars
  <2>2. ASSUME NEW m \in Messages
        PROVE  /\ send'[m].servers = send[m].servers
               /\ send'[m].acked = send[m].acked
               /\ \/ send'[m].stage = send[m].stage
                  \/ send[m].stage = "posting" /\ send'[m].stage = "done"
    <3>1. send[m] \in Send
      BY DEF TypeOK
    <3>2. \/ send'[m] = send[m]
          \/ /\ send[m].stage = "posting"
             /\ send'[m] = [send[m] EXCEPT !.stage = "done"]
      BY <1>2 DEF Reload
    <3>3. LET s == [send[m] EXCEPT !.stage = "done"] IN
          /\ s.servers = send[m].servers
          /\ s.acked = send[m].acked
          /\ s.stage = "done"
      BY <3>1 DEF Send
    <3>4. CASE send'[m] = send[m]
      BY <3>4
    <3>5. CASE /\ send[m].stage = "posting"
               /\ send'[m] = [send[m] EXCEPT !.stage = "done"]
      BY <3>3, <3>5
    <3> QED
      BY <3>2, <3>4, <3>5
  <2>3. AckedMeansStored'
    BY <2>1, <2>2 DEF SentInv, AckedMeansStored
  <2>4. PostedIsStored' /\ RowsAreNamed'
    BY <2>1, <2>2 DEF SentInv, PostedIsStored, RowsAreNamed, Stored
  <2>5. SentMeansAcked'
    <3> SUFFICES ASSUME NEW d \in Clients, NEW i \in DOMAIN shown'[d],
                        shown'[d][i].status = "sent"
                 PROVE  /\ send'[shown'[d][i].id].stage = "done"
                        /\ send'[shown'[d][i].id].servers
                             \subseteq send'[shown'[d][i].id].acked
      BY DEF SentMeansAcked
    <3>1. d # c /\ shown'[d] = shown[d]
      BY <2>1 DEF TypeOK
    <3>2. shown[d][i].id \in Messages
      BY <3>1, ShownMessages
    <3> QED
      BY <2>2, <3>1, <3>2 DEF SentInv, SentMeansAcked
  <2> QED
    BY <2>3, <2>4, <2>5 DEF SentInv
<1> QED
  BY <1>1, <1>2 DEF UserNext

LEMMA SentInvHolds == Spec => []SentInv
<1>1. Init => SentInv
  BY DEF Init, SentInv, AckedMeansStored, PostedIsStored, RowsAreNamed,
         SentMeansAcked, NoSend, NoRequest
<1>2. TypeOK /\ TypeOK' /\ SentInv /\ [Next]_vars => SentInv'
  <2> SUFFICES ASSUME TypeOK, TypeOK', SentInv, [Next]_vars PROVE SentInv'
    OBVIOUS
  <2>1. CASE UNCHANGED vars
    <3>1. UNCHANGED <<rows, req, send, shown>>
      BY <2>1 DEF vars
    <3> QED
      BY <3>1, SentFrame
  <2> QED
    BY <2>1, SentNodeStep, SentSendStep, SentPollStep, SentUserStep DEF Next
<1> QED
  BY <1>1, <1>2, TypeCorrect, PTL DEF Spec

\* For every list of servers and every mix of failures, a message the author
\* sees as "sent" is stored on each server it was split over (app.js:319-330).
THEOREM SentIsTrue == Spec => []SentIsStored
<1>1. TypeOK /\ SentInv => SentIsStored
  BY SentInvImplies
<1> QED
  BY <1>1, SentInvHolds, TypeCorrect, PTL

=============================================================================
