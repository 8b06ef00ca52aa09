-------------------------- MODULE FragChatLossProofs --------------------------
(***************************************************************************)
(* What it takes for a message of FragChat to be unreadable: a server less *)
(* or a body cut short, whatever else fails.                               *)
(***************************************************************************)
EXTENDS FragChatReceiveProofs

\* What has been read of a request's body is settled when the handler starts.
ReadOnce ==
  \A m \in Messages, k \in Slots :
    req[m][k].stage \in {"none", "sent"} => req[m][k].got = "all"

\* Fragment f is what the node of slot k made of a request of its message.
Made(f, k) ==
  LET m == f.message_id IN
  /\ send[m].stage # "unsent"
  /\ req[m][k].stage = "stored"
  /\ f.payload = [ChunkFor(m, send[m].servers, k)
                    EXCEPT !.whole = req[m][k].got # "less"]

\* What the nodes hold, and what they answered, was made by them.
RowsMade == \A k \in Slots : \A f \in rows[ChatServers[k]] : Made(f, k)

\* A poll q of c asks every server that is left, and was answered by each what
\* that one made.
AnsweredTo(c, q) ==
  /\ q.stage # "idle" => kept[c] \subseteq q.servers
  /\ \A k \in Slots : \A f \in q.results[k] : Made(f, k)

PollsAnswered == \A c \in Clients, p \in Polls : AnsweredTo(c, poll[c][p])

\* Client c or the author of m lacked a server, or a body of m was cut.
Loss(c, m) ==
  \/ kept[c] # Slots
  \/ send[m].servers # Slots
  \/ \E k \in Slots : req[m][k].got = "less"

\* The property, of messages that were sent: only of those is it lasting.
GarbledWasSent ==
  \A c \in Clients, m \in Messages : \A i \in DOMAIN shown[c] :
    shown[c][i].id = m /\ shown[c][i].text # "plain" =>
      send[m].stage # "unsent" /\ Loss(c, m)

LossInv ==
  UnsentUnasked /\ ReadOnce /\ RowsMade /\ PollsAnswered /\ GarbledWasSent

-----------------------------------------------------------------------------
\* What a step may do to a request.
LEMMA RequestEffect ==
  ASSUME TypeOK, [Next]_vars, NEW m \in Messages, NEW k \in Slots
  PROVE  \/ req'[m][k] = req[m][k]
         \/ /\ req'[m][k].stage \in {"rejected", "stored"}
            /\ req'[m][k].got = req[m][k].got
         \/ /\ HandlePost(m, k)
            /\ req[m][k].stage = "sent" /\ req'[m][k].stage = "stamped"
         \/ send[m].stage = "unsent" /\ req'[m][k].got = "all"
<1>1. CASE UNCHANGED req
  BY <1>1
<1>2. \A s \in {"rejected", "stored"} :
        /\ [req[m][k] EXCEPT !.stage = s].stage = s
        /\ [req[m][k] EXCEPT !.stage = s].got = req[m][k].got
  BY DEF TypeOK, Request
<1>3. ASSUME NEW n \in Nodes, NodeDown(n)
      PROVE  \/ req'[m][k] = req[m][k]
             \/ /\ req'[m][k].stage \in {"rejected", "stored"}
                /\ req'[m][k].got = req[m][k].got
  <2>1. \/ req'[m][k] = req[m][k]
        \/ req'[m][k] = [req[m][k] EXCEPT !.stage = "rejected"]
    BY <1>3 DEF NodeDown
  <2> QED
    BY <1>2, <2>1
<1>4. ASSUME NEW x \in Messages, StartSend(x)
      PROVE  \/ req'[m][k] = req[m][k]
             \/ send[m].stage = "unsent" /\ req'[m][k].got = "all"
  <2>1. CASE x = m
    BY <1>4, <2>1 DEF StartSend, TypeOK, NoRequest
  <2>2. CASE x # m
    BY <1>4, <2>2 DEF StartSend, TypeOK
  <2> QED
    BY <2>1, <2>2
<1>5. ASSUME NEW x \in Messages, NEW j \in Slots,
             HandlePost(x, j) \/ RejectPost(x, j) \/ InsertPost(x, j)
      PROVE  \/ req'[m][k] = req[m][k]
             \/ /\ req'[m][k].stage \in {"rejected", "stored"}
                /\ req'[m][k].got = req[m][k].got
             \/ /\ HandlePost(m, k)
                /\ req[m][k].stage = "sent" /\ req'[m][k].stage = "stamped"
  <2>1. CASE ~(x = m /\ j = k)
    <3>1. \E r : req' = [req EXCEPT ![x][j] = r]
      BY <1>5 DEF HandlePost, RejectPost, InsertPost
    <3> QED
      BY <2>1, <3>1 DEF TypeOK
  <2>2. CASE x = m /\ j = k
    <3>1. CASE HandlePost(m, k)
      <4>1. req[m][k].stage = "sent" /\ req'[m][k].stage = "stamped"
        BY <3>1 DEF HandlePost, TypeOK
      <4> QED
        BY <3>1, <4>1
    <3>2. CASE RejectPost(m, k) \/ InsertPost(m, k)
      <4>1. \/ req' = [req EXCEPT ![m][k] =
                         [req[m][k] EXCEPT !.stage = "rejected"]]
            \/ req' = [req EXCEPT ![m][k] =
                         [req[m][k] EXCEPT !.stage = "stored"]]
        BY <3>2 DEF RejectPost, InsertPost
      <4>2. \/ req'[m][k] = [req[m][k] EXCEPT !.stage = "rejected"]
            \/ req'[m][k] = [req[m][k] EXCEPT !.stage = "stored"]
        BY <4>1 DEF TypeOK
      <4> QED
        BY <1>2, <4>2
    <3> QED
      BY <1>5, <2>2, <3>1, <3>2
  <2> QED
    BY <2>1, <2>2
<1>6. CASE PollNext
  BY <1>1, <1>6, PollFrame DEF sendVars
<1> QED
  BY <1>1, <1>3, <1>4, <1>5, <1>6
  DEF Next, NodeNext, Tick, NodeUp, Purge, SendNext, FinishSend, AckPost,
      FailPost, UserNext, Reload, RemoveServer, sendVars, vars

\* A message is split once.
LEMMA SplitStays ==
  ASSUME TypeOK, [Next]_vars, NEW m \in Messages, send[m].stage # "unsent"
  PROVE  send'[m].stage # "unsent" /\ send'[m].servers = send[m].servers
<1> DEFINE Same(s) == s.stage # "unsent" /\ s.servers = send[m].servers
<1>1. send \in [Messages -> Send] /\ Same(send[m])
  BY DEF TypeOK
<1>2. CASE UNCHANGED send
  BY <1>1, <1>2
<1>3. ASSUME NEW x \in Messages, StartSend(x) PROVE Same(send'[m])
  <2>1. x # m
    BY <1>3 DEF StartSend
  <2> QED
    BY <1>1, <1>3, <2>1 DEF StartSend
<1>4. ASSUME NEW x \in Messages, FinishSend(x) PROVE Same(send'[m])
  <2>1. send'[m] = send[m] \/ send'[m] = [send[m] EXCEPT !.stage = "done"]
    BY <1>1, <1>4 DEF FinishSend
  <2>2. Same([send[m] EXCEPT !.stage = "done"])
    BY <1>1 DEF Send
  <2> QED
    BY <1>1, <2>1, <2>2
<1>5. ASSUME NEW x \in Messages, NEW k \in Slots, AckPost(x, k) \/ FailPost(x, k)
      PROVE  Same(send'[m])
  <2>1. \/ send'[m] = send[m]
        \/ send'[m] = [send[m] EXCEPT !.acked = @ \cup {k}]
        \/ send'[m] = [send[m] EXCEPT !.failed = @ \cup {k}]
    BY <1>1, <1>5 DEF AckPost, FailPost
  <2>2. /\ Same([send[m] EXCEPT !.acked = @ \cup {k}])
        /\ Same([send[m] EXCEPT !.failed = @ \cup {k}])
    BY <1>1 DEF Send
  <2> QED
    BY <1>1, <2>1, <2>2
<1>6. ASSUME NEW c \in Clients, Reload(c) PROVE Same(send'[m])
  <2>1. send'[m] = send[m] \/ send'[m] = [send[m] EXCEPT !.stage = "done"]
    BY <1>6 DEF Reload
  <2>2. Same([send[m] EXCEPT !.stage = "done"])
    BY <1>1 DEF Send
  <2> QED
    BY <1>1, <2>1, <2>2
<1>7. CASE PollNext
  BY <1>2, <1>7, PollFrame DEF sendVars
<1> QED
  BY <1>2, <1>3, <1>4, <1>5, <1>6, <1>7
  DEF Next, NodeNext, Tick, NodeDown, NodeUp, Purge, SendNext, HandlePost,
      RejectPost, InsertPost, UserNext, RemoveServer, sendVars, vars

\* A list of servers only gets shorter.
LEMMA KeptShrinks ==
  ASSUME TypeOK, [Next]_vars
  PROVE  \A c \in Clients : kept'[c] \subseteq kept[c]
<1>1. CASE UNCHANGED kept
  BY <1>1
<1>2. ASSUME NEW c \in Clients, NEW k \in Slots, RemoveServer(c, k)
      PROVE  \A d \in Clients : kept'[d] \subseteq kept[d]
  BY <1>2 DEF RemoveServer, TypeOK
<1>3. CASE PollNext
  BY <1>1, <1>3, PollFrame
<1> QED
  BY <1>1, <1>2, <1>3
  DEF Next, NodeNext, Tick, NodeDown, NodeUp, Purge, SendNext, StartSend,
      FinishSend, HandlePost, RejectPost, InsertPost, AckPost, FailPost,
      UserNext, Reload, clientVars, vars

LEMMA ReadOnceStep ==
  ASSUME TypeOK, ReadOnce, [Next]_vars
  PROVE  ReadOnce'
<1> SUFFICES ASSUME NEW m \in Messages, NEW k \in Slots,
                    req'[m][k].stage \in {"none", "sent"}
             PROVE  req'[m][k].got = "all"
  BY DEF ReadOnce
<1> QED
  BY RequestEffect DEF ReadOnce

\* Hence what was lost of a message that was sent is lost for good.
LEMMA LossStays ==
  ASSUME TypeOK, ReadOnce, [Next]_vars, NEW c \in Clients, NEW m \in Messages,
         send[m].stage # "unsent", Loss(c, m)
  PROVE  send'[m].stage # "unsent" /\ Loss(c, m)'
<1>1. send'[m].stage # "unsent" /\ send'[m].servers = send[m].servers
  BY SplitStays
<1>2. ASSUME NEW k \in Slots, req[m][k].got = "less"
      PROVE  req'[m][k].got = "less"
  BY <1>2, RequestEffect DEF ReadOnce
<1>3. kept'[c] \subseteq kept[c] /\ kept[c] \subseteq Slots
  BY KeptShrinks DEF TypeOK
<1> QED
  BY <1>1, <1>2, <1>3 DEF Loss

\* What a node made stays what it made.
LEMMA MadeStays ==
  ASSUME TypeOK, UnsentUnasked, [Next]_vars,
         NEW f \in Fragment, NEW k \in Slots, Made(f, k)
  PROVE  Made(f, k)'
<1> DEFINE m == f.message_id
<1>1. m \in Messages /\ send[m].stage # "unsent" /\ req[m][k].stage = "stored"
  BY DEF Made, Fragment
<1>2. req'[m][k] = req[m][k]
  BY <1>1, StoredStays
<1>3. send'[m].stage # "unsent" /\ send'[m].servers = send[m].servers
  BY <1>1, SplitStays
<1> QED
  BY <1>1, <1>2, <1>3 DEF Made

\* Each action keeps the nodes to what they made.
LEMMA RowsMadeStep ==
  ASSUME DistinctNodes, TypeOK, UnsentUnasked, RowsMade, [Next]_vars
  PROVE  RowsMade'
<1>1. ASSUME NEW k \in Slots, NEW f \in rows'[ChatServers[k]],
             f \in rows[ChatServers[k]]
      PROVE  Made(f, k)'
  <2>1. f \in Fragment /\ Made(f, k)
    BY <1>1, SlotNode DEF TypeOK, RowsMade
  <2> QED
    BY <2>1, MadeStays
<1>2. CASE UNCHANGED rows
  BY <1>1, <1>2 DEF RowsMade
<1>3. ASSUME NEW n \in Nodes, Purge(n) PROVE RowsMade'
  <2>1. \A x \in Nodes : rows'[x] \subseteq rows[x]
    BY <1>3 DEF Purge, TypeOK
  <2> QED
    BY <1>1, <2>1, SlotNode DEF RowsMade
<1>4. ASSUME NEW m \in Messages, NEW k \in Slots, InsertPost(m, k)
      PROVE  RowsMade'
  <2> DEFINE f == FragmentOf(m, k)
  <2>1. /\ rows' = [rows EXCEPT ![ChatServers[k]] = InsertOrIgnore(@, f)]
        /\ req' = [req EXCEPT ![m][k] = [req[m][k] EXCEPT !.stage = "stored"]]
        /\ req[m][k].stage = "stamped"
        /\ UNCHANGED send
    BY <1>4 DEF InsertPost
  <2>2. /\ f.message_id = m
        /\ f.payload = [ChunkFor(m, send[m].servers, k)
                          EXCEPT !.whole = req[m][k].got # "less"]
    BY DEF FragmentOf
  <2> HIDE DEF f
  <2>3. \A x \in Nodes :
          rows'[x] \subseteq rows[x]
            \cup (IF x = ChatServers[k] THEN {f} ELSE {})
    BY <2>1 DEF InsertOrIgnore, TypeOK
  <2>4. req'[m][k].stage = "stored" /\ req'[m][k].got = req[m][k].got
    <3>1. LET r == [req[m][k] EXCEPT !.stage = "stored"] IN
          r.stage = "stored" /\ r.got = req[m][k].got
      BY DEF TypeOK, Request
    <3>2. req'[m][k] = [req[m][k] EXCEPT !.stage = "stored"]
      BY <2>1 DEF TypeOK
    <3> QED
      BY <3>1, <3>2
  <2>5. send'[m] = send[m] /\ send[m].stage # "unsent"
    BY <2>1 DEF UnsentUnasked
  <2>6. ASSUME NEW g, g = f PROVE Made(g, k)'
    BY <2>2, <2>4, <2>5, <2>6 DEF Made
  <2> QED
    BY <1>1, <2>3, <2>6, SlotNode DEF RowsMade, DistinctNodes
<1>5. CASE PollNext
  BY <1>2, <1>5, PollFrame DEF nodeVars
<1> QED
  BY <1>2, <1>3, <1>4, <1>5
  DEF Next, NodeNext, Tick, NodeDown, NodeUp, SendNext, StartSend, FinishSend,
      HandlePost, RejectPost, AckPost, FailPost, UserNext, Reload,
      RemoveServer, nodeVars, vars

\* What a poll has and does not change stays true.
LEMMA AnsweredToStays ==
  ASSUME TypeOK, UnsentUnasked, [Next]_vars, NEW c \in Clients, NEW q \in Poll,
         AnsweredTo(c, q)
  PROVE  AnsweredTo(c, q)'
<1>1. ASSUME NEW k \in Slots, NEW f \in q.results[k] PROVE Made(f, k)'
  <2>1. f \in Fragment /\ Made(f, k)
    BY <1>1 DEF AnsweredTo, Poll
  <2> QED
    BY <2>1, MadeStays
<1>2. q.stage # "idle" => kept'[c] \subseteq q.servers
  BY KeptShrinks DEF AnsweredTo
<1> QED
  BY <1>1, <1>2 DEF AnsweredTo

\* An idle poll was answered nothing.
LEMMA NoPollAnswered ==
  ASSUME NEW c PROVE AnsweredTo(c, NoPoll)
  BY DEF AnsweredTo, NoPoll

\* One poll changes.
LEMMA OnePollAnswered ==
  ASSUME TypeOK, UnsentUnasked, PollsAnswered, [Next]_vars,
         NEW c \in Clients, NEW p \in Polls, NEW q \in Poll, AnsweredTo(c, q),
         poll' = [poll EXCEPT ![c][p] = q]
  PROVE  PollsAnswered'
<1>1. ASSUME NEW d \in Clients, NEW r \in Polls, NEW x, x = poll'[d][r]
      PROVE  AnsweredTo(d, x)'
  <2>1. x = poll[d][r] \/ (d = c /\ x = q)
    BY <1>1 DEF TypeOK
  <2>2. poll[d][r] \in Poll /\ AnsweredTo(d, poll[d][r])
    BY DEF TypeOK, PollsAnswered
  <2>3. x \in Poll /\ AnsweredTo(d, x)
    BY <2>1, <2>2
  <2> QED
    BY <2>3, AnsweredToStays
<1> QED
  BY <1>1 DEF PollsAnswered, AnsweredTo

\* Each action keeps the polls to what the nodes made.
LEMMA PollsAnsweredStep ==
  ASSUME TypeOK, UnsentUnasked, RowsMade, PollsAnswered, [Next]_vars
  PROVE  PollsAnswered'
<1>1. ASSUME \A d \in Clients, r \in Polls :
               poll'[d][r] = poll[d][r] \/ poll'[d][r] = NoPoll
      PROVE  PollsAnswered'
  <2>1. ASSUME NEW d \in Clients, NEW r \in Polls, NEW x, x = poll'[d][r]
        PROVE  AnsweredTo(d, x)'
    <3>1. x \in Poll /\ AnsweredTo(d, x)
      BY <1>1, <2>1, NoPollAnswered, NothingType DEF TypeOK, PollsAnswered
    <3> QED
      BY <3>1, AnsweredToStays
  <2> QED
    BY <2>1 DEF PollsAnswered, AnsweredTo
<1>2. ASSUME NEW c \in Clients, NEW p \in Polls, StartPoll(c, p)
      PROVE  PollsAnswered'
  <2> DEFINE q == [NoPoll EXCEPT !.stage = "importing", !.servers = kept[c]]
  <2>1. AnsweredTo(c, q)
    BY DEF AnsweredTo, NoPoll
  <2>2. q \in Poll
    BY DEF TypeOK, NoPoll, Poll
  <2>3. poll' = [poll EXCEPT ![c][p] = q]
    BY <1>2 DEF StartPoll
  <2> HIDE DEF q
  <2> QED
    BY <2>1, <2>2, <2>3, OnePollAnswered
<1>3. ASSUME NEW c \in Clients, NEW p \in Polls, Assemble(c, p)
      PROVE  PollsAnswered'
  <2> DEFINE old == poll[c][p]
             todo == Complete(old) \ IdsShown(c)
             q == [old EXCEPT !.stage = "decrypting", !.todo = todo,
                              !.max = since[c]]
  <2>1. /\ old \in Poll /\ AnsweredTo(c, old) /\ old.stage = "fetching"
        /\ poll' = [poll EXCEPT ![c][p] = IF todo = {} THEN NoPoll ELSE q]
    BY <1>3 DEF Assemble, TypeOK, PollsAnswered
  <2>2. todo \subseteq Messages
    BY DEF Complete
  <2> HIDE DEF todo
  <2>3. q.servers = old.servers /\ q.results = old.results /\ q \in Poll
    BY <2>1, <2>2 DEF Poll, TypeOK
  <2> HIDE DEF q
  <2>4. AnsweredTo(c, q)
    BY <2>1, <2>3 DEF AnsweredTo
  <2> QED
    BY <2>1, <2>3, <2>4, NoPollAnswered, NothingType, OnePollAnswered
<1>4. ASSUME NEW c \in Clients, NEW p \in Polls, Decrypted(c, p)
      PROVE  PollsAnswered'
  <2>1. PICK m \in Messages, text \in Texts, q2 \in Poll, t \in Nat :
          DecryptedTo(c, p, m, text, q2, t)
    BY <1>4, DecryptedEffect
  <2>2. AnsweredTo(c, q2)
    <3>1. CASE q2 = NoPoll
      BY <3>1, NoPollAnswered
    <3>2. CASE q2 = [poll[c][p] EXCEPT !.todo = @ \ {m}, !.max = t]
      <4>1. poll[c][p] \in Poll /\ AnsweredTo(c, poll[c][p])
        BY DEF TypeOK, PollsAnswered
      <4>2. /\ q2.stage = poll[c][p].stage
            /\ q2.servers = poll[c][p].servers
            /\ q2.results = poll[c][p].results
        BY <3>2, <4>1 DEF Poll
      <4> QED
        BY <4>1, <4>2 DEF AnsweredTo
    <3> QED
      BY <2>1, <3>1, <3>2 DEF DecryptedTo
  <2> QED
    BY <2>1, <2>2, OnePollAnswered DEF DecryptedTo
<1>5. ASSUME NEW c \in Clients, NEW p \in Polls, NEW k \in Slots,
             FetchReply(c, p, k)
      PROVE  PollsAnswered'
  <2>1. PICK got \in SUBSET Fragment, q \in Poll :
          AnsweredWith(c, p, k, got, q)
    BY <1>5, FetchReplyEffect
  <2>2. \A f \in got : Made(f, k)
    BY <2>1 DEF RowsMade, AnsweredWith
  <2>3. /\ q.stage = poll[c][p].stage /\ q.servers = poll[c][p].servers
        /\ q.results = [poll[c][p].results EXCEPT ![k] = got]
        /\ poll[c][p].results \in [Slots -> SUBSET Fragment]
    BY <2>1 DEF AnsweredWith, TypeOK, Poll
  <2>4. AnsweredTo(c, poll[c][p])
    BY DEF PollsAnswered
  <2>5. AnsweredTo(c, q)
    BY <2>2, <2>3, <2>4 DEF AnsweredTo
  <2> QED
    BY <2>1, <2>5, OnePollAnswered DEF AnsweredWith
<1>6. ASSUME NEW c \in Clients, NEW p \in Polls, NEW k \in Slots,
             FetchFail(c, p, k)
      PROVE  PollsAnswered'
  <2> DEFINE old == poll[c][p]
             q == [old EXCEPT !.awaiting = @ \ {k}]
  <2>1. old \in Poll /\ AnsweredTo(c, old) /\ poll' = [poll EXCEPT ![c][p] = q]
    BY <1>6 DEF FetchFail, TypeOK, PollsAnswered
  <2>2. /\ q.stage = old.stage /\ q.servers = old.servers
        /\ q.results = old.results /\ q \in Poll
    BY <2>1 DEF Poll
  <2> HIDE DEF q
  <2>3. AnsweredTo(c, q)
    BY <2>1, <2>2 DEF AnsweredTo
  <2> QED
    BY <2>1, <2>2, <2>3, OnePollAnswered
<1>7. ASSUME NEW c \in Clients, Reload(c) PROVE PollsAnswered'
  BY <1>1, <1>7 DEF Reload, TypeOK
<1>8. ASSUME NEW c \in Clients, NEW p \in Polls, KeyImported(c, p)
      PROVE  PollsAnswered'
  <2>1. PICK q \in Poll : ImportedTo(c, p, q)
    BY <1>8, KeyImportedEffect
  <2>2. AnsweredTo(c, poll[c][p])
    BY DEF PollsAnswered
  <2>3. AnsweredTo(c, q)
    BY <2>1, <2>2 DEF ImportedTo, AnsweredTo
  <2> QED
    BY <2>1, <2>3, OnePollAnswered DEF ImportedTo
<1> QED
  BY <1>1, <1>2, <1>3, <1>4, <1>5, <1>6, <1>7, <1>8
  DEF Next, NodeNext, Tick, NodeDown, NodeUp, Purge, SendNext, StartSend,
      FinishSend, HandlePost, RejectPost, InsertPost, AckPost, FailPost,
      PollNext, UserNext, RemoveServer, clientVars, vars

\* Without a loss, the chunks a poll joins are those the message was split
\* into.
LEMMA LosslessReading ==
  ASSUME TypeOK, PollsAnswered, NEW c \in Clients, NEW p \in Polls,
         poll[c][p].stage = "decrypting", NEW m \in Messages,
         NEW text \in Readings(poll[c][p], m), text # "plain"
  PROVE  send[m].stage # "unsent" /\ Loss(c, m)
<1> DEFINE q == poll[c][p]
<1>1. q \in Poll /\ AnsweredTo(c, q)
  BY DEF TypeOK, PollsAnswered
<1>2. PICK k \in q.servers : \E f \in LastOf(q, m, k) :
        f.payload # ChunkFor(m, q.servers, k)
  BY DEF Readings
<1>3. PICK f \in LastOf(q, m, k) : f.payload # ChunkFor(m, q.servers, k)
  BY <1>2
<1>4. k \in Slots /\ q.servers \subseteq Slots /\ kept[c] \subseteq q.servers
  BY <1>1, <1>2 DEF Poll, AnsweredTo
<1>5. f \in q.results[k] /\ f.message_id = m
  BY <1>3 DEF LastOf, FragmentsAt
<1>6. Made(f, k)
  BY <1>1, <1>4, <1>5 DEF AnsweredTo
<1>7. send[m].stage # "unsent"
  BY <1>5, <1>6 DEF Made
<1>8. ASSUME ~Loss(c, m) PROVE FALSE
  <2>1. /\ q.servers = Slots /\ send[m].servers = Slots
        /\ req[m][k].got # "less"
    BY <1>4, <1>8 DEF Loss
  <2>2. f.payload = [ChunkFor(m, Slots, k) EXCEPT !.whole = TRUE]
    BY <1>5, <1>6, <2>1 DEF Made
  <2>3. [ChunkFor(m, Slots, k) EXCEPT !.whole = TRUE] = ChunkFor(m, Slots, k)
    <3> DEFINE a == Rank(Slots, k)
               b == Cardinality(Slots)
               r(w) == [msg |-> m, part |-> a, of |-> b, whole |-> w]
    <3>1. ChunkFor(m, Slots, k) = r(TRUE)
      BY DEF ChunkFor
    <3> HIDE DEF a, b
    <3>2. \A w \in BOOLEAN : [r(w) EXCEPT !.whole = w] = r(w)
      OBVIOUS
    <3>3. TRUE \in BOOLEAN
      OBVIOUS
    <3> HIDE DEF r
    <3>4. [r(TRUE) EXCEPT !.whole = TRUE] = r(TRUE)
      BY <3>2, <3>3, Zenon
    <3> QED
      BY <3>1, <3>4, Zenon
  <2> QED
    BY <1>3, <2>1, <2>2, <2>3
<1> QED
  BY <1>7, <1>8

\* An entry that is right, or wrong with a loss to account for it, keeps it.
LEMMA GarbledStep ==
  ASSUME TypeOK, ReadOnce, PollsAnswered, GarbledWasSent, [Next]_vars
  PROVE  GarbledWasSent'
<1> DEFINE Fair(c, e) ==
             e.text # "plain" => send[e.id].stage # "unsent" /\ Loss(c, e.id)
<1>2. SUFFICES ASSUME NEW c \in Clients, NEW i \in DOMAIN shown'[c]
               PROVE  \E e \in Entry : Fair(c, e) /\ shown'[c][i] = e
  <2>1. ASSUME NEW c \in Clients, NEW m \in Messages,
               NEW i \in DOMAIN shown'[c],
               shown'[c][i].id = m, shown'[c][i].text # "plain"
        PROVE  send'[m].stage # "unsent" /\ Loss(c, m)'
    <3>1. PICK e \in Entry : Fair(c, e) /\ shown'[c][i] = e
      BY <1>2
    <3>2. e.id = m /\ send[m].stage # "unsent" /\ Loss(c, m)
      BY <2>1, <3>1
    <3> QED
      BY <3>2, LossStays
  <2> QED
    BY <2>1 DEF GarbledWasSent
<1>3. ASSUME NEW j \in DOMAIN shown[c]
      PROVE  shown[c][j] \in Entry /\ Fair(c, shown[c][j])
  <2>1. shown[c][j] \in Entry
    BY DEF TypeOK
  <2> QED
    BY <2>1 DEF GarbledWasSent, Entry
<1>4. shown[c] \in Seq(Entry)
  BY DEF TypeOK
<1> HIDE DEF Fair
<1>5. CASE UNCHANGED shown
  BY <1>3, <1>5
<1>6. ASSUME NEW d \in Clients, Reload(d)
      PROVE  \E e \in Entry : Fair(c, e) /\ shown'[c][i] = e
  <2>1. shown'[c] = shown[c] \/ shown'[c] = << >>
    BY <1>6 DEF Reload, TypeOK
  <2> QED
    BY <1>2, <1>3, <2>1
<1>7. ASSUME NEW d \in Clients, NEW x \in Entry, Fair(d, x),
             shown' = [shown EXCEPT ![d] = Append(@, x)]
      PROVE  \E e \in Entry : Fair(c, e) /\ shown'[c][i] = e
  <2>1. shown'[c] = shown[c] \/ (d = c /\ shown'[c] = Append(shown[c], x))
    BY <1>7 DEF TypeOK
  <2>2. CASE shown'[c] = shown[c]
    BY <1>2, <1>3, <2>2
  <2>3. CASE d = c /\ shown'[c] = Append(shown[c], x)
    <3>1. \/ i \in DOMAIN shown[c] /\ shown'[c][i] = shown[c][i]
          \/ shown'[c][i] = x
      BY <1>2, <1>4, <2>3, Appended
    <3> QED
      BY <1>3, <1>7, <2>3, <3>1
  <2> QED
    BY <2>1, <2>2, <2>3
<1>8. ASSUME NEW m \in Messages, FinishSend(m)
      PROVE  \E e \in Entry : Fair(c, e) /\ shown'[c][i] = e
  <2>1. PICK x \in Entry :
          /\ x.text = "plain"
          /\ shown' = [shown EXCEPT ![Author[m]] = Append(@, x)]
    BY <1>8, FinishSendEffect
  <2>2. Author[m] \in Clients /\ Fair(Author[m], x)
    BY <2>1, ChatAssumption DEF ChatAssumption, Fair
  <2> QED
    BY <1>7, <2>1, <2>2
<1>9. ASSUME NEW d \in Clients, NEW p \in Polls, Decrypted(d, p)
      PROVE  \E e \in Entry : Fair(c, e) /\ shown'[c][i] = e
  <2>1. PICK m \in Messages, text \in Texts, q2 \in Poll, t \in Nat :
          DecryptedTo(d, p, m, text, q2, t)
    BY <1>9, DecryptedEffect
  <2>2. /\ shown' = [shown EXCEPT ![d] = Append(@, Received(m, text))]
        /\ text \in Readings(poll[d][p], m)
    BY <2>1 DEF DecryptedTo
  <2>3. /\ Received(m, text) \in Entry
        /\ Received(m, text).id = m /\ Received(m, text).text = text
    BY DEF Received, Texts, Entry
  <2>4. poll[d][p].stage = "decrypting"
    BY <1>9 DEF Decrypted
  <2>5. Fair(d, Received(m, text))
    BY <2>2, <2>3, <2>4, LosslessReading DEF Fair
  <2> QED
    BY <1>7, <2>2, <2>3, <2>5
<1> QED
  BY <1>5, <1>6, <1>8, <1>9, ListEffect

\* With one node per entry of the list, under every fault and with any number
\* of servers and overlapping polls, a message shows as "[decryption failed]"
\* only if a server was removed or a connection cut within its payload
\* (app.js:357-412, server.cpp:177-201).
THEOREM UnreadableOnlyByLoss ==
  ASSUME DistinctNodes PROVE Spec => []GarbledOnlyByLoss
<1>1. Init => LossInv
  BY SlotNode
  DEF Init, LossInv, UnsentUnasked, ReadOnce, RowsMade, PollsAnswered,
      AnsweredTo, GarbledWasSent, NoRequest, NoPoll
<1>2. TypeOK /\ LossInv /\ [Next]_vars => LossInv'
  BY UnsentStep, ReadOnceStep, RowsMadeStep, PollsAnsweredStep, GarbledStep
  DEF LossInv
<1>3. TypeOK /\ LossInv => GarbledOnlyByLoss
  <2> SUFFICES ASSUME TypeOK, GarbledWasSent, NEW c \in Clients,
                      NEW i \in DOMAIN shown[c], shown[c][i].text # "plain"
               PROVE  Loss(c, shown[c][i].id)
    BY DEF LossInv, Loss, GarbledOnlyByLoss
  <2>1. shown[c][i] \in Entry
    BY DEF TypeOK
  <2>2. shown[c][i].id \in Messages
    BY <2>1 DEF Entry
  <2> QED
    BY <2>2 DEF GarbledWasSent
<1> QED
  BY <1>1, <1>2, <1>3, TypeCorrect, PTL DEF Spec

-----------------------------------------------------------------------------
(***************************************************************************)
(* When "message not sent" is the truth.                                   *)
(***************************************************************************)
\* Answers come in time and nodes stay up.  Posts still fail: they are refused,
\* cut, or answered 500 after a statement that failed.
TimelyAnswers == "late" \notin Faults /\ "down" \notin Faults

NodesUp == \A n \in Nodes : up[n]

\* A post that failed was refused, and none fails before it is made.
FailedMeansRejected ==
  \A m \in Messages :
    /\ send[m].stage = "unsent" => send[m].failed = {}
    /\ \A k \in send[m].failed : req[m][k].stage = "rejected"

LEMMA NodesUpStep ==
  ASSUME TypeOK, TimelyAnswers, NodesUp, [Next]_vars
  PROVE  NodesUp'
<1>1. CASE UNCHANGED up
  BY <1>1 DEF NodesUp
<1>2. ASSUME NEW n \in Nodes, NodeUp(n) PROVE NodesUp'
  BY <1>2 DEF NodeUp, NodesUp
<1>3. ASSUME NEW n \in Nodes, NodeDown(n) PROVE NodesUp'
  BY <1>3 DEF NodeDown, TimelyAnswers
<1>4. CASE PollNext
  BY <1>1, <1>4, PollFrame DEF nodeVars
<1> QED
  BY <1>1, <1>2, <1>3, <1>4
  DEF Next, NodeNext, Tick, Purge, SendNext, StartSend, FinishSend,
      HandlePost, RejectPost, InsertPost, AckPost, FailPost, UserNext, Reload,
      RemoveServer, nodeVars, vars

\* What was refused stays refused: a post is not tried again.
LEMMA RejectedStays ==
  ASSUME TypeOK, UnsentUnasked, [Next]_vars,
         NEW m \in Messages, NEW k \in Slots, req[m][k].stage = "rejected"
  PROVE  req'[m][k] = req[m][k]
<1>1. CASE UNCHANGED req
  BY <1>1
<1>2. ASSUME NEW n \in Nodes, NodeDown(n) PROVE req'[m][k] = req[m][k]
  BY <1>2 DEF NodeDown
<1>3. ASSUME NEW x \in Messages, StartSend(x) PROVE req'[m][k] = req[m][k]
  <2>1. x # m
    BY <1>3 DEF StartSend, UnsentUnasked
  <2> QED
    BY <1>3, <2>1 DEF StartSend, TypeOK
<1>4. ASSUME NEW x \in Messages, NEW j \in Slots,
             HandlePost(x, j) \/ RejectPost(x, j) \/ InsertPost(x, j)
      PROVE  req'[m][k] = req[m][k]
  <2>1. req[x][j].stage # "rejected"
    BY <1>4 DEF HandlePost, RejectPost, InsertPost
  <2>2. \E r : req' = [req EXCEPT ![x][j] = r]
    BY <1>4 DEF HandlePost, RejectPost, InsertPost
  <2> QED
    BY <2>1, <2>2 DEF TypeOK
<1>5. CASE PollNext
  BY <1>1, <1>5, PollFrame DEF sendVars
<1> QED
  BY <1>1, <1>2, <1>3, <1>4, <1>5
  DEF Next, NodeNext, Tick, NodeUp, Purge, SendNext, FinishSend, AckPost,
      FailPost, UserNext, Reload, RemoveServer, sendVars, vars

\* A post fails in the step that settles it.
LEMMA FailedEffect ==
  ASSUME TypeOK, [Next]_vars, NEW m \in Messages, NEW k \in send'[m].failed,
         k \notin send[m].failed
  PROVE  k \in Slots /\ FailPost(m, k)
<1> DEFINE New(s) == s.failed = send[m].failed
<1>1. send \in [Messages -> Send] /\ send[m] \in Send /\ New(send[m])
  BY DEF TypeOK
<1>2. \A s : New(s) => send'[m] # s
  OBVIOUS
<1> HIDE DEF New
<1>3. CASE UNCHANGED send
  BY <1>1, <1>2, <1>3
<1>4. ASSUME NEW x \in Messages, StartSend(x) PROVE FALSE
  <2>1. \/ send'[m] = send[m]
        \/ send'[m] = [send[m] EXCEPT !.stage = "posting",
                                      !.servers = kept[Author[m]]]
    BY <1>1, <1>4 DEF StartSend
  <2>2. New([send[m] EXCEPT !.stage = "posting", !.servers = kept[Author[m]]])
    BY <1>1 DEF Send, New
  <2> QED
    BY <1>1, <1>2, <2>1, <2>2
<1>5. New([send[m] EXCEPT !.stage = "done"])
  BY <1>1 DEF Send, New
<1>6. ASSUME NEW x \in Messages, FinishSend(x) PROVE FALSE
  <2>1. send'[m] = send[m] \/ send'[m] = [send[m] EXCEPT !.stage = "done"]
    BY <1>1, <1>6 DEF FinishSend
  <2> QED
    BY <1>1, <1>2, <1>5, <2>1
<1>7. ASSUME NEW c \in Clients, Reload(c) PROVE FALSE
  <2>1. send'[m] = send[m] \/ send'[m] = [send[m] EXCEPT !.stage = "done"]
    BY <1>7 DEF Reload
  <2> QED
    BY <1>1, <1>2, <1>5, <2>1
<1>8. ASSUME NEW x \in Messages, NEW j \in Slots, AckPost(x, j) PROVE FALSE
  <2>1. \/ send'[m] = send[m]
        \/ send'[m] = [send[m] EXCEPT !.acked = @ \cup {j}]
    BY <1>1, <1>8 DEF AckPost
  <2>2. New([send[m] EXCEPT !.acked = @ \cup {j}])
    BY <1>1 DEF Send, New
  <2> QED
    BY <1>1, <1>2, <2>1, <2>2
<1>9. ASSUME NEW x \in Messages, NEW j \in Slots, FailPost(x, j)
      PROVE  k \in Slots /\ FailPost(m, k)
  <2>1. x = m
    BY <1>1, <1>2, <1>9 DEF FailPost
  <2>2. send'[m] = [send[m] EXCEPT !.failed = @ \cup {j}]
    BY <1>1, <1>9, <2>1 DEF FailPost
  <2>3. [send[m] EXCEPT !.failed = @ \cup {j}].failed = send[m].failed \cup {j}
    BY <1>1 DEF Send
  <2>4. k = j
    BY <2>2, <2>3
  <2> QED
    BY <1>9, <2>1, <2>4
<1>10. CASE PollNext
  BY <1>3, <1>10, PollFrame DEF sendVars
<1> QED
  BY <1>3, <1>4, <1>6, <1>7, <1>8, <1>9, <1>10
  DEF Next, NodeNext, Tick, NodeDown, NodeUp, Purge, SendNext, HandlePost,
      RejectPost, InsertPost, UserNext, RemoveServer, sendVars, vars

LEMMA FailedStep ==
  ASSUME TypeOK, TypeOK', TimelyAnswers, NodesUp, UnsentUnasked,
         FailedMeansRejected, [Next]_vars
  PROVE  FailedMeansRejected'
<1>1. ASSUME NEW m \in Messages, NEW k \in send'[m].failed
      PROVE  req'[m][k].stage = "rejected"
  <2>1. k \in Slots
    BY <1>1 DEF TypeOK, Send
  <2>2. CASE k \in send[m].failed
    BY <2>1, <2>2, RejectedStays DEF FailedMeansRejected
  <2>3. CASE k \notin send[m].failed
    <3>1. FailPost(m, k)
      BY <1>1, <2>3, FailedEffect
    <3>2. req[m][k].stage = "rejected"
      BY <2>1, <3>1, SlotNode DEF FailPost, TimelyAnswers, NodesUp
    <3> QED
      BY <2>1, <3>2, RejectedStays
  <2> QED
    BY <2>2, <2>3
<1>2. ASSUME NEW m \in Messages, send'[m].stage = "unsent"
      PROVE  send'[m].failed = {}
  <2>1. send[m].stage = "unsent"
    BY <1>2, SplitStays
  <2>2. ASSUME NEW k \in send'[m].failed PROVE FALSE
    <3>1. k \notin send[m].failed
      BY <2>1 DEF FailedMeansRejected
    <3>2. FailPost(m, k)
      BY <2>2, <3>1, FailedEffect
    <3> QED
      BY <2>1, <3>2 DEF FailPost
  <2> QED
    BY <2>2
<1> QED
  BY <1>1, <1>2 DEF FailedMeansRejected

\* "All servers failed - message not sent" (app.js:342) is the truth, no server
\* holds a fragment of the message, for posts that were refused, cut or failed
\* in SQLite; it is the timeout, and a node that goes down after its insert,
\* that make it untrue.
THEOREM TimelyFailuresAreTrue ==
  ASSUME DistinctNodes, TimelyAnswers PROVE Spec => []AllFailedIsNotSent
<1> DEFINE FailInv ==
      UnsentUnasked /\ RowsPosted /\ NodesUp /\ FailedMeansRejected
<1>1. Init => FailInv
  BY SlotNode
  DEF Init, UnsentUnasked, RowsPosted, NodesUp, FailedMeansRejected,
      NoRequest, NoSend
<1>2. TypeOK /\ TypeOK' /\ FailInv /\ [Next]_vars => FailInv'
  BY UnsentStep, RowsPostedStep, NodesUpStep, FailedStep
<1>3. TypeOK /\ SentInv /\ FailInv => AllFailedIsNotSent
  <2> SUFFICES ASSUME TypeOK, SentInv, FailInv, NEW m \in Messages,
                      NEW k \in send[m].servers,
                      send[m].failed = send[m].servers, Stored(m, k)
               PROVE  FALSE
    BY DEF AllFailedIsNotSent
  <2>1. k \in Slots /\ req[m][k].stage = "rejected"
    BY DEF FailedMeansRejected, TypeOK, Send
  <2>2. PICK r \in rows[ChatServers[k]] : r.id = <<m, Rank(send[m].servers, k)>>
    BY DEF Stored
  <2>3. r.message_id = m
    BY <2>1, <2>2, SlotNode DEF SentInv, RowsAreNamed
  <2>4. req[m][k].stage = "stored"
    BY <2>1, <2>3 DEF RowsPosted, Posted
  <2> QED
    BY <2>1, <2>4
<1> QED
  BY <1>1, <1>2, <1>3, SentInvHolds, TypeCorrect, PTL DEF Spec

=============================================================================
