------------------------ MODULE FragChatReceiveProofs ------------------------
(***************************************************************************)
(* Theorems about what FragChat's clients display: each message once, and  *)
(* each message right.                                                     *)
(***************************************************************************)
EXTENDS FragChatProofs

\* The entries of a list that has one more.
LEMMA Appended ==
  ASSUME NEW s \in Seq(Entry), NEW e \in Entry, NEW i \in DOMAIN Append(s, e)
  PROVE  \/ i \in DOMAIN s /\ Append(s, e)[i] = s[i]
         \/ i = Len(s) + 1 /\ Append(s, e)[i] = e
  OBVIOUS

\* What an action of a client does to the lists: nothing, a reload, an entry
\* for a message sent, or the end of a turn of a poll's loop.
LEMMA ListEffect ==
  ASSUME TypeOK, [Next]_vars
  PROVE  \/ UNCHANGED shown
         \/ \E c \in Clients : Reload(c)
         \/ \E m \in Messages : FinishSend(m)
         \/ \E c \in Clients, p \in Polls : Decrypted(c, p)
<1>1. CASE UNCHANGED vars
  BY <1>1 DEF vars
<1>2. CASE NodeNext
  BY <1>2 DEF NodeNext, Tick, NodeDown, NodeUp, Purge, clientVars
<1>3. CASE SendNext
  BY <1>3 DEF SendNext, StartSend, HandlePost, RejectPost, InsertPost, AckPost,
              FailPost, clientVars
<1>4. CASE PollNext
  BY <1>4, PollFrame
<1>5. CASE UserNext
  BY <1>5 DEF UserNext, RemoveServer
<1> QED
  BY <1>1, <1>2, <1>3, <1>4, <1>5 DEF Next

\* FinishSend appends an entry that is not "received".
LEMMA FinishSendEffect ==
  ASSUME TypeOK, NEW m \in Messages, FinishSend(m)
  PROVE  /\ UNCHANGED poll
         /\ \E e \in Entry :
              /\ e.text = "plain" /\ e.status # "received"
              /\ shown' = [shown EXCEPT ![Author[m]] = Append(@, e)]
<1> DEFINE e == [id |-> m, text |-> "plain",
                 status |-> IF send[m].failed = {} THEN "sent" ELSE "partial"]
<1>1. shown' = [shown EXCEPT ![Author[m]] = Append(@, e)] /\ UNCHANGED poll
  BY DEF FinishSend
<1>2. e \in Entry /\ e.text = "plain" /\ e.status # "received"
  BY DEF Entry
<1> QED
  BY <1>1, <1>2

-----------------------------------------------------------------------------
(***************************************************************************)
(* Each message once.                                                      *)
(***************************************************************************)
\* What a poll has still to decrypt is not on the list as received.
TodoIsNew ==
  \A c \in Clients, p \in Polls : \A i \in DOMAIN shown[c] :
    shown[c][i].status = "received" => shown[c][i].id \notin poll[c][p].todo

\* A poll q has something to decrypt only in its loop.
InLoop(q) == q.todo # {} => q.stage = "decrypting"

TodoInLoop == \A c \in Clients, p \in Polls : InLoop(poll[c][p])

OnceInv == ReceivedOnce /\ TodoIsNew /\ TodoInLoop

\* One poll changes.
LEMMA OneInLoop ==
  ASSUME TypeOK, TodoInLoop, NEW c \in Clients, NEW p \in Polls, NEW q,
         poll' = [poll EXCEPT ![c][p] = q], InLoop(q)
  PROVE  TodoInLoop'
<1>1. \A d \in Clients, r \in Polls :
        poll'[d][r] = q \/ poll'[d][r] = poll[d][r]
  BY DEF TypeOK
<1> QED
  BY <1>1 DEF TodoInLoop, InLoop

\* Only the loop has messages to decrypt.
LEMMA TodoInLoopStep ==
  ASSUME TypeOK, TodoInLoop, [Next]_vars
  PROVE  TodoInLoop'
<1>1. CASE UNCHANGED poll
  BY <1>1 DEF TodoInLoop, InLoop
<1>2. InLoop(NoPoll)
  BY DEF InLoop, NoPoll
<1>3. ASSUME NEW c \in Clients, Reload(c) PROVE TodoInLoop'
  <2>1. \A d \in Clients, r \in Polls :
          poll'[d][r] = NoPoll \/ poll'[d][r] = poll[d][r]
    BY <1>3 DEF Reload, TypeOK
  <2> QED
    BY <1>2, <2>1 DEF TodoInLoop, InLoop
<1>4. ASSUME NEW c \in Clients, NEW p \in Polls, StartPoll(c, p)
      PROVE  TodoInLoop'
  <2> DEFINE q == [NoPoll EXCEPT !.stage = "importing", !.servers = kept[c]]
  <2>1. InLoop(q)
    BY DEF InLoop, NoPoll
  <2>2. poll' = [poll EXCEPT ![c][p] = q]
    BY <1>4 DEF StartPoll
  <2> HIDE DEF q
  <2> QED
    BY <2>1, <2>2, OneInLoop
<1>5. ASSUME NEW c \in Clients, NEW p \in Polls, KeyImported(c, p)
      PROVE  TodoInLoop'
  <2>1. PICK q \in Poll : ImportedTo(c, p, q)
    BY <1>5, KeyImportedEffect
  <2>2. poll' = [poll EXCEPT ![c][p] = q] /\ InLoop(q)
    BY <2>1 DEF ImportedTo, InLoop, TodoInLoop
  <2> QED
    BY <2>2, OneInLoop
<1>6. ASSUME NEW c \in Clients, NEW p \in Polls, NEW k \in Slots,
             FetchReply(c, p, k)
      PROVE  TodoInLoop'
  <2>1. PICK got \in SUBSET Fragment, q \in Poll :
          AnsweredWith(c, p, k, got, q)
    BY <1>6, FetchReplyEffect
  <2>2. poll' = [poll EXCEPT ![c][p] = q] /\ InLoop(q)
    BY <2>1 DEF AnsweredWith, InLoop, TodoInLoop
  <2> QED
    BY <2>2, OneInLoop
<1>7. ASSUME NEW c \in Clients, NEW p \in Polls, NEW k \in Slots,
             FetchFail(c, p, k)
      PROVE  TodoInLoop'
  <2> DEFINE q == [poll[c][p] EXCEPT !.awaiting = @ \ {k}]
  <2>1. q.stage = poll[c][p].stage /\ q.todo = poll[c][p].todo
    BY DEF TypeOK, Poll
  <2>2. poll' = [poll EXCEPT ![c][p] = q]
    BY <1>7 DEF FetchFail, TypeOK
  <2> HIDE DEF q
  <2>3. InLoop(q)
    BY <2>1 DEF InLoop, TodoInLoop
  <2> QED
    BY <2>2, <2>3, OneInLoop
<1>8. ASSUME NEW c \in Clients, NEW p \in Polls, Assemble(c, p)
      PROVE  TodoInLoop'
  <2> DEFINE todo == Complete(poll[c][p]) \ IdsShown(c)
             q == [poll[c][p] EXCEPT !.stage = "decrypting", !.todo = todo,
                                     !.max = since[c]]
  <2>1. InLoop(q)
    BY DEF TypeOK, Poll, InLoop
  <2>2. poll' = [poll EXCEPT ![c][p] = IF todo = {} THEN NoPoll ELSE q]
    BY <1>8 DEF Assemble
  <2> HIDE DEF q, todo
  <2> QED
    BY <1>2, <2>1, <2>2, OneInLoop
<1>9. ASSUME NEW c \in Clients, NEW p \in Polls, Decrypted(c, p)
      PROVE  TodoInLoop'
  <2>1. PICK m \in Messages, text \in Texts, q2 \in Poll, t \in Nat :
          DecryptedTo(c, p, m, text, q2, t)
    BY <1>9, DecryptedEffect
  <2>2. poll[c][p].stage = "decrypting" /\ poll[c][p] \in Poll
    BY <1>9 DEF Decrypted, TypeOK
  <2>3. CASE q2 = [poll[c][p] EXCEPT !.todo = @ \ {m}, !.max = t]
    <3>1. InLoop(q2)
      BY <2>2, <2>3 DEF InLoop, Poll
    <3> QED
      BY <2>1, <3>1, OneInLoop DEF DecryptedTo
  <2>4. CASE q2 = NoPoll
    BY <1>2, <2>1, <2>4, OneInLoop DEF DecryptedTo
  <2> QED
    BY <2>1, <2>3, <2>4 DEF DecryptedTo
<1> QED
  BY <1>1, <1>3, <1>4, <1>5, <1>6, <1>7, <1>8, <1>9
  DEF Next, NodeNext, Tick, NodeDown, NodeUp, Purge, SendNext, StartSend,
      FinishSend, HandlePost, RejectPost, InsertPost, AckPost, FailPost,
      PollNext, UserNext, RemoveServer, clientVars, vars

\* A turn of the loop takes its message off the poll's list.
LEMMA DecryptedTodo ==
  ASSUME TypeOK, NEW c \in Clients, NEW p \in Polls,
         NEW m, NEW text, NEW q2, NEW t, DecryptedTo(c, p, m, text, q2, t)
  PROVE  q2.todo \subseteq poll[c][p].todo \ {m}
<1> DEFINE q == poll[c][p]
<1>1. q \in Poll
  BY DEF TypeOK
<1>2. [q EXCEPT !.todo = @ \ {m}, !.max = t].todo = q.todo \ {m}
  BY <1>1 DEF Poll
<1>3. NoPoll.todo = {}
  BY DEF NoPoll
<1> QED
  BY <1>2, <1>3 DEF DecryptedTo

\* A poll takes up only what is not displayed; its other steps leave todo be.
LEMMA TodoStep ==
  ASSUME TypeOK, TypeOK', [Next]_vars, NEW c \in Clients, NEW p \in Polls,
         NEW m \in poll'[c][p].todo
  PROVE  \/ m \in poll[c][p].todo
         \/ m \notin IdsShown(c) /\ UNCHANGED shown
<1>1. CASE UNCHANGED poll
  BY <1>1
<1>2. ASSUME NEW d \in Clients, Reload(d)
      PROVE  m \in poll[c][p].todo
  BY <1>2 DEF Reload, TypeOK, NoPoll
<1>3. ASSUME NEW d \in Clients, NEW q \in Polls, StartPoll(d, q)
      PROVE  m \in poll[c][p].todo
  BY <1>3 DEF StartPoll, TypeOK, NoPoll
<1>4. ASSUME NEW d \in Clients, NEW q \in Polls, Assemble(d, q)
      PROVE  \/ m \in poll[c][p].todo
             \/ m \notin IdsShown(c) /\ UNCHANGED shown
  <2> DEFINE todo == Complete(poll[d][q]) \ IdsShown(d)
             r == [poll[d][q] EXCEPT !.stage = "decrypting", !.todo = todo,
                                     !.max = since[d]]
  <2>1. /\ poll' = [poll EXCEPT ![d][q] = IF todo = {} THEN NoPoll ELSE r]
        /\ UNCHANGED shown
    BY <1>4 DEF Assemble
  <2>2. r.todo = todo /\ NoPoll.todo = {}
    BY DEF TypeOK, Poll, NoPoll
  <2> HIDE DEF r
  <2>3. CASE c = d /\ p = q
    <3>1. m \in todo
      BY <2>1, <2>2, <2>3 DEF TypeOK
    <3> QED
      BY <2>1, <2>3, <3>1
  <2>4. CASE ~(c = d /\ p = q)
    BY <2>1, <2>4 DEF TypeOK
  <2> QED
    BY <2>3, <2>4
<1>5. ASSUME NEW d \in Clients, NEW q \in Polls, Decrypted(d, q)
      PROVE  m \in poll[c][p].todo
  <2>1. PICK x \in Messages, text \in Texts, q2 \in Poll, t \in Nat :
          DecryptedTo(d, q, x, text, q2, t)
    BY <1>5, DecryptedEffect
  <2>2. poll' = [poll EXCEPT ![d][q] = q2] /\ q2.todo \subseteq poll[d][q].todo
    BY <2>1, DecryptedTodo DEF DecryptedTo
  <2> QED
    BY <2>2 DEF TypeOK
<1>6. ASSUME NEW d \in Clients, NEW q \in Polls, NEW k \in Slots,
             FetchReply(d, q, k) \/ FetchFail(d, q, k)
      PROVE  m \in poll[c][p].todo
  <2>1. poll'[d][q].todo = poll[d][q].todo
    <3>1. poll[d][q] \in Poll
      BY DEF TypeOK
    <3>2. CASE FetchReply(d, q, k)
      <4>1. PICK got \in SUBSET Fragment, new \in Poll :
              AnsweredWith(d, q, k, got, new)
        BY <3>2, FetchReplyEffect
      <4> QED
        BY <4>1 DEF AnsweredWith, TypeOK
    <3>3. CASE FetchFail(d, q, k)
      BY <3>1, <3>3 DEF FetchFail, TypeOK, Poll
    <3> QED
      BY <1>6, <3>2, <3>3
  <2>2. ~(c = d /\ p = q) => poll'[c][p] = poll[c][p]
    BY <1>6 DEF FetchReply, FetchFail, TypeOK
  <2> QED
    BY <2>1, <2>2
<1>7. ASSUME NEW d \in Clients, NEW q \in Polls, KeyImported(d, q)
      PROVE  m \in poll[c][p].todo
  <2>1. PICK new \in Poll : ImportedTo(d, q, new)
    BY <1>7, KeyImportedEffect
  <2> QED
    BY <2>1 DEF ImportedTo, TypeOK
<1> QED
  BY <1>1, <1>2, <1>3, <1>4, <1>5, <1>6, <1>7
  DEF Next, NodeNext, Tick, NodeDown, NodeUp, Purge, SendNext, StartSend,
      FinishSend, HandlePost, RejectPost, InsertPost, AckPost, FailPost,
      PollNext, UserNext, RemoveServer, clientVars, vars

\* Each action keeps the received messages apart, unless two polls of a client
\* are in their loops.
LEMMA OnceStep ==
  TypeOK /\ TypeOK' /\ LoopsApart /\ OnceInv /\ [Next]_vars => OnceInv'
<1> SUFFICES ASSUME TypeOK, TypeOK', LoopsApart, OnceInv, [Next]_vars
             PROVE  OnceInv'
  OBVIOUS
<1>0. TodoInLoop /\ TodoInLoop'
  BY TodoInLoopStep DEF OnceInv
<1>1. CASE UNCHANGED shown
  <2>1. ReceivedOnce'
    BY <1>1 DEF OnceInv, ReceivedOnce
  <2>2. TodoIsNew'
    BY <1>1, TodoStep DEF OnceInv, TodoIsNew, IdsShown
  <2> QED
    BY <1>0, <2>1, <2>2 DEF OnceInv
<1>2. ASSUME NEW c \in Clients, Reload(c) PROVE OnceInv'
  <2>1. shown' = [shown EXCEPT ![c] = << >>]
        /\ poll' = [poll EXCEPT ![c] = [p \in Polls |-> NoPoll]]
    BY <1>2 DEF Reload
  <2> QED
    BY <1>0, <2>1 DEF OnceInv, ReceivedOnce, TodoIsNew, TypeOK
<1>3. ASSUME NEW m \in Messages, FinishSend(m) PROVE OnceInv'
  <2>1. PICK e \in Entry :
          /\ e.status # "received"
          /\ shown' = [shown EXCEPT ![Author[m]] = Append(@, e)]
    BY <1>3, FinishSendEffect
  <2>2. ASSUME NEW c \in Clients, NEW i \in DOMAIN shown'[c],
               shown'[c][i].status = "received"
        PROVE  i \in DOMAIN shown[c] /\ shown'[c][i] = shown[c][i]
    <3>1. shown[c] \in Seq(Entry)
      BY DEF TypeOK
    <3>2. shown'[c] = shown[c] \/ shown'[c] = Append(shown[c], e)
      BY <2>1 DEF TypeOK
    <3> QED
      BY <2>1, <2>2, <3>1, <3>2, Appended
  <2>3. UNCHANGED poll
    BY <1>3, FinishSendEffect
  <2> QED
    BY <1>0, <2>2, <2>3 DEF OnceInv, ReceivedOnce, TodoIsNew
<1>4. ASSUME NEW c \in Clients, NEW p \in Polls, Decrypted(c, p)
      PROVE  OnceInv'
  <2>1. PICK m \in Messages, text \in Texts, q2 \in Poll, t \in Nat :
          DecryptedTo(c, p, m, text, q2, t)
    BY <1>4, DecryptedEffect
  <2> DEFINE e == Received(m, text)
  <2>2. /\ shown' = [shown EXCEPT ![c] = Append(@, e)]
        /\ poll' = [poll EXCEPT ![c][p] = q2]
        /\ m \in poll[c][p].todo
    BY <2>1 DEF DecryptedTo
  <2>3. q2.todo \subseteq poll[c][p].todo \ {m}
    BY <2>1, DecryptedTodo
  <2>4. e \in Entry /\ e.id = m
    BY DEF Received, Texts, Entry
  <2> HIDE DEF e
  <2>5. shown[c] \in Seq(Entry) /\ shown'[c] = Append(shown[c], e)
    BY <2>2 DEF TypeOK
  <2>6. \A d \in Clients : d # c => shown'[d] = shown[d] /\ poll'[d] = poll[d]
    BY <2>2 DEF TypeOK
  <2>7. \A q \in Polls : poll'[c][q].todo \subseteq poll[c][q].todo \ {m}
    <3>1. poll[c][p].stage = "decrypting"
      BY <1>4 DEF Decrypted
    <3>2. \A q \in Polls : q # p => poll[c][q].todo = {}
      BY <1>0, <3>1 DEF LoopsApart, TodoInLoop, InLoop
    <3>3. \A q \in Polls : q # p => poll'[c][q] = poll[c][q]
      BY <2>2 DEF TypeOK
    <3>4. poll'[c][p] = q2
      BY <2>2 DEF TypeOK
    <3> QED
      BY <2>3, <3>2, <3>3, <3>4
  <2>8. \A i \in DOMAIN shown'[c] :
          \/ i \in DOMAIN shown[c] /\ shown'[c][i] = shown[c][i]
          \/ i = Len(shown[c]) + 1 /\ shown'[c][i] = e
    BY <2>4, <2>5, Appended
  <2>9. \A i \in DOMAIN shown[c] :
          shown[c][i].status = "received" => shown[c][i].id # m
    BY <2>2 DEF OnceInv, TodoIsNew
  <2>10. ReceivedOnce'
    BY <2>4, <2>6, <2>8, <2>9 DEF OnceInv, ReceivedOnce
  <2>11. TodoIsNew'
    BY <2>4, <2>6, <2>7, <2>8 DEF OnceInv, TodoIsNew
  <2> QED
    BY <1>0, <2>10, <2>11 DEF OnceInv
<1> QED
  BY <1>1, <1>2, <1>3, <1>4, ListEffect

\* However the fetches of any number of polls overlap and sending, failures and
\* reloads interleave, a client lists a message it received once, as long as no
\* two of its polls are in the loop of pollChat at once (app.js:389-396).
THEOREM EachReceivedOnce == Spec => OnceIfLoopsApart
<1>1. Init => OnceInv
  BY DEF Init, OnceInv, ReceivedOnce, TodoIsNew, TodoInLoop, InLoop, NoPoll
<1>2. TypeOK /\ TypeOK' /\ LoopsApart /\ OnceInv /\ [Next]_vars => OnceInv'
  BY OnceStep
<1>3. OnceInv => ReceivedOnce
  BY DEF OnceInv
<1> QED
  BY <1>1, <1>2, <1>3, TypeCorrect, PTL DEF Spec, OnceIfLoopsApart

-----------------------------------------------------------------------------
(***************************************************************************)
(* Each message right.                                                     *)
(***************************************************************************)
\* Fragment f is what splitting its message over all servers gives slot k.
Rightly(f, k) == f.payload = ChunkFor(f.message_id, Slots, k)

\* No client has removed a server of the chat.
ListKept == \A c \in Clients : kept[c] = Slots

\* A message with requests on their way was split over all servers, and what
\* arrived of the requests is all of them.
SplitOverAll ==
  \A m \in Messages :
    /\ \A k \in Slots : req[m][k].got = "all"
    /\ \/ send[m].servers = Slots
       \/ \A k \in Slots : req[m][k].stage = "none"

\* The node of slot k holds the chunks of slot k, and so do polls' answers.
RowsRight ==
  \A k \in Slots : \A f \in rows[ChatServers[k]] : Rightly(f, k)

ResultsRight ==
  \A c \in Clients, p \in Polls :
    /\ poll[c][p].stage # "idle" => poll[c][p].servers = Slots
    /\ \A k \in Slots : \A f \in poll[c][p].results[k] : Rightly(f, k)

RightInv == ListKept /\ SplitOverAll /\ RowsRight /\ ResultsRight

\* The connections deliver whole bodies and nobody removes a server.
WholeAndKept == DistinctNodes /\ "cut" \notin Faults /\ "remove" \notin Faults

\* Only removeServer touches the list of servers.
LEMMA RightKept ==
  ASSUME "remove" \notin Faults, ListKept, [Next]_vars
  PROVE  ListKept'
<1>1. UNCHANGED kept
  <2>1. CASE UNCHANGED vars
    BY <2>1 DEF vars
  <2>2. CASE NodeNext
    BY <2>2 DEF NodeNext, Tick, NodeDown, NodeUp, Purge, clientVars
  <2>3. CASE SendNext
    BY <2>3 DEF SendNext, StartSend, FinishSend, HandlePost, RejectPost,
                InsertPost, AckPost, FailPost, clientVars
  <2>4. CASE PollNext
    BY <2>4, PollFrame
  <2>5. CASE UserNext
    BY <2>5 DEF UserNext, RemoveServer, Reload
  <2> QED
    BY <2>1, <2>2, <2>3, <2>4, <2>5 DEF Next
<1> QED
  BY <1>1 DEF ListKept

\* A message is split once, over the whole list; a body arrives whole.
LEMMA RightSplit ==
  ASSUME WholeAndKept, TypeOK, ListKept, SplitOverAll, [Next]_vars
  PROVE  SplitOverAll'
<1>1. CASE UNCHANGED <<req, send>>
  BY <1>1 DEF SplitOverAll
<1>2. ASSUME NEW n \in Nodes, NodeDown(n) PROVE SplitOverAll'
  <2>1. UNCHANGED send
    BY <1>2 DEF NodeDown
  <2>2. ASSUME NEW m \in Messages, NEW k \in Slots
        PROVE  /\ req'[m][k].got = req[m][k].got
               /\ req[m][k].stage = "none" => req'[m][k].stage = "none"
    <3>1. req[m][k] \in Request
      BY DEF TypeOK
    <3>2. \/ req'[m][k] = req[m][k]
          \/ /\ req[m][k].stage = "stamped"
             /\ req'[m][k] = [req[m][k] EXCEPT !.stage = "rejected"]
      BY <1>2 DEF NodeDown
    <3> QED
      BY <3>1, <3>2 DEF Request
  <2> QED
    BY <2>1, <2>2 DEF SplitOverAll
<1>3. ASSUME NEW m \in Messages, StartSend(m) PROVE SplitOverAll'
  <2>1. kept[Author[m]] = Slots
    BY ChatAssumption DEF ListKept, ChatAssumption
  <2>2. \A x \in Messages : x # m => send'[x] = send[x] /\ req'[x] = req[x]
    BY <1>3 DEF StartSend, TypeOK
  <2>3. send'[m].servers = Slots
    <3>1. send'[m] = [send[m] EXCEPT !.stage = "posting", !.servers = Slots]
      BY <1>3, <2>1 DEF StartSend, TypeOK, Send
    <3>2. send[m] \in Send
      BY DEF TypeOK
    <3> QED
      BY <3>1, <3>2 DEF Send
  <2>4. \A k \in Slots : req'[m][k].got = "all"
    BY <1>3 DEF StartSend, TypeOK, NoRequest
  <2> QED
    BY <2>2, <2>3, <2>4 DEF SplitOverAll
<1>4. ASSUME NEW m \in Messages, NEW k \in Slots,
             HandlePost(m, k) \/ RejectPost(m, k) \/ InsertPost(m, k)
      PROVE  SplitOverAll'
  <2>1. UNCHANGED send
    BY <1>4 DEF HandlePost, RejectPost, InsertPost
  <2>2. req[m][k].stage # "none"
    BY <1>4 DEF HandlePost, RejectPost, InsertPost
  <2>3. send[m].servers = Slots
    BY <2>2 DEF SplitOverAll
  <2>4. \E r \in Request : req' = [req EXCEPT ![m][k] = r] /\ r.got = "all"
    <3>1. req[m][k] \in Request /\ req[m][k].got = "all"
      BY DEF TypeOK, SplitOverAll
    <3>2. CASE HandlePost(m, k)
      <4>1. clock[ChatServers[k]] \in Nat
        BY SlotNode DEF TypeOK
      <4>2. req' = [req EXCEPT ![m][k] =
                      [stage |-> "stamped", stamp |-> clock[ChatServers[k]],
                       got |-> "all"]]
        BY <3>2 DEF HandlePost, WholeAndKept
      <4> DEFINE r == [stage |-> "stamped", stamp |-> clock[ChatServers[k]],
                       got |-> "all"]
      <4>3. r \in Request /\ r.got = "all"
        BY <4>1 DEF Request, Arrivals
      <4>4. req' = [req EXCEPT ![m][k] = r]
        BY <4>2
      <4> HIDE DEF r
      <4> QED
        BY <4>3, <4>4
    <3>3. CASE RejectPost(m, k)
      <4>1. req' = [req EXCEPT ![m][k] =
                      [req[m][k] EXCEPT !.stage = "rejected"]]
        BY <3>3 DEF RejectPost
      <4> QED
        BY <3>1, <4>1, RestageType DEF Request
    <3>4. CASE InsertPost(m, k)
      <4>1. req' = [req EXCEPT ![m][k] =
                      [req[m][k] EXCEPT !.stage = "stored"]]
        BY <3>4 DEF InsertPost
      <4> QED
        BY <3>1, <4>1, RestageType DEF Request
    <3> QED
      BY <1>4, <3>2, <3>3, <3>4
  <2> QED
    BY <2>1, <2>3, <2>4 DEF SplitOverAll, TypeOK
<1>5. ASSUME NEW m \in Messages,
             FinishSend(m) \/ \E k \in Slots : AckPost(m, k) \/ FailPost(m, k)
      PROVE  SplitOverAll'
  <2>1. UNCHANGED req
    BY <1>5 DEF FinishSend, AckPost, FailPost
  <2>2. \A x \in Messages : send'[x].servers = send[x].servers
    <3>1. send \in [Messages -> Send]
      BY DEF TypeOK
    <3>2. CASE FinishSend(m)
      BY <3>1, <3>2 DEF FinishSend, Send
    <3>3. ASSUME NEW k \in Slots, AckPost(m, k) \/ FailPost(m, k)
          PROVE  \A x \in Messages : send'[x].servers = send[x].servers
      <4>1. /\ [send[m] EXCEPT !.acked = @ \cup {k}].servers
                 = send[m].servers
            /\ [send[m] EXCEPT !.failed = @ \cup {k}].servers
                 = send[m].servers
        BY <3>1 DEF Send
      <4>2. \/ send' = [send EXCEPT ![m] =
                          [send[m] EXCEPT !.acked = @ \cup {k}]]
            \/ send' = [send EXCEPT ![m] =
                          [send[m] EXCEPT !.failed = @ \cup {k}]]
        BY <3>3 DEF AckPost, FailPost
      <4> QED
        BY <3>1, <4>1, <4>2
    <3> QED
      BY <1>5, <3>2, <3>3
  <2> QED
    BY <2>1, <2>2 DEF SplitOverAll
<1>6. ASSUME NEW c \in Clients, Reload(c) PROVE SplitOverAll'
  <2>1. UNCHANGED req
    BY <1>6 DEF Reload
  <2>2. \A x \in Messages : send'[x].servers = send[x].servers
    <3>1. \A x \in Messages :
            send[x] \in Send /\ [send[x] EXCEPT !.stage = "done"].servers
                                  = send[x].servers
      BY DEF TypeOK, Send
    <3> QED
      BY <1>6, <3>1 DEF Reload
  <2> QED
    BY <2>1, <2>2 DEF SplitOverAll
<1>7. CASE PollNext
  BY <1>1, <1>7, PollFrame DEF sendVars
<1> QED
  BY <1>1, <1>2, <1>3, <1>4, <1>5, <1>6, <1>7
  DEF Next, NodeNext, Tick, NodeUp, Purge, SendNext, UserNext, RemoveServer,
      sendVars, vars

\* A node of the list takes the chunks of its own slot and loses some.
LEMMA RightRows ==
  ASSUME WholeAndKept, TypeOK, SplitOverAll, RowsRight, [Next]_vars
  PROVE  RowsRight'
<1>1. CASE UNCHANGED rows
  BY <1>1 DEF RowsRight, Rightly
<1>2. ASSUME NEW n \in Nodes, Purge(n) PROVE RowsRight'
  <2>1. \A x \in Nodes : rows'[x] \subseteq rows[x]
    BY <1>2 DEF Purge, TypeOK
  <2> QED
    BY <2>1, SlotNode DEF RowsRight, Rightly
<1>3. ASSUME NEW m \in Messages, NEW k \in Slots, InsertPost(m, k)
      PROVE  RowsRight'
  <2> DEFINE f == FragmentOf(m, k)
  <2>1. req[m][k].stage = "stamped"
        /\ rows' = [rows EXCEPT ![ChatServers[k]] = InsertOrIgnore(@, f)]
    BY <1>3 DEF InsertPost
  <2>2. send[m].servers = Slots /\ req[m][k].got = "all"
    BY <2>1 DEF SplitOverAll
  <2>3. Rightly(f, k)
    BY <2>2 DEF FragmentOf, Rightly, ChunkFor
  <2> HIDE DEF f
  <2>4. \A x \in Nodes :
          rows'[x] \subseteq rows[x]
            \cup (IF x = ChatServers[k] THEN {f} ELSE {})
    BY <2>1 DEF InsertOrIgnore, TypeOK
  <2> QED
    BY <2>3, <2>4, SlotNode DEF RowsRight, Rightly, WholeAndKept, DistinctNodes
<1>4. CASE PollNext
  BY <1>1, <1>4, PollFrame DEF nodeVars
<1> QED
  BY <1>1, <1>2, <1>3, <1>4
  DEF Next, NodeNext, Tick, NodeDown, NodeUp, SendNext, StartSend, FinishSend,
      HandlePost, RejectPost, AckPost, FailPost, UserNext, Reload,
      RemoveServer, nodeVars, vars

\* A poll whose servers and answers are right.
Right(q) ==
  /\ q.stage # "idle" => q.servers = Slots
  /\ \A k \in Slots : \A f \in q.results[k] : Rightly(f, k)

\* An idle poll has nothing wrong.
LEMMA NoPollRight == Right(NoPoll)
  BY DEF Right, NoPoll

\* One poll changes and stays right.
LEMMA OnePollRight ==
  ASSUME TypeOK, ResultsRight, NEW c \in Clients, NEW p \in Polls, NEW q,
         poll' = [poll EXCEPT ![c][p] = q], Right(q)
  PROVE  ResultsRight'
<1>1. \A d \in Clients, r \in Polls :
        poll'[d][r] = q \/ poll'[d][r] = poll[d][r]
  BY DEF TypeOK
<1> QED
  BY <1>1 DEF ResultsRight, Right, Rightly

\* An answer is filed under the slot of the node that gave it.
LEMMA RightResults ==
  ASSUME WholeAndKept, TypeOK, ListKept, RowsRight, ResultsRight, [Next]_vars
  PROVE  ResultsRight'
<1>1. CASE UNCHANGED poll
  BY <1>1 DEF ResultsRight, Rightly
<1>2. ASSUME NEW c \in Clients, NEW p \in Polls, StartPoll(c, p)
      PROVE  ResultsRight'
  <2> DEFINE q == [NoPoll EXCEPT !.stage = "importing", !.servers = kept[c]]
  <2>1. Right(q)
    BY DEF Right, NoPoll, ListKept
  <2>2. poll' = [poll EXCEPT ![c][p] = q]
    BY <1>2 DEF StartPoll
  <2> HIDE DEF q
  <2> QED
    BY <2>1, <2>2, OnePollRight
<1>3. ASSUME NEW c \in Clients, NEW p \in Polls, Assemble(c, p)
      PROVE  ResultsRight'
  <2> DEFINE todo == Complete(poll[c][p]) \ IdsShown(c)
             q == [poll[c][p] EXCEPT !.stage = "decrypting", !.todo = todo,
                                     !.max = since[c]]
  <2>1. poll[c][p] \in Poll /\ poll[c][p].stage = "fetching"
        /\ poll' = [poll EXCEPT ![c][p] = IF todo = {} THEN NoPoll ELSE q]
    BY <1>3 DEF Assemble, TypeOK
  <2>2. q.servers = poll[c][p].servers /\ q.results = poll[c][p].results
    BY <2>1 DEF Poll
  <2> HIDE DEF todo, q
  <2>3. Right(q)
    BY <2>1, <2>2 DEF Right, ResultsRight
  <2> QED
    BY <2>1, <2>3, NoPollRight, OnePollRight
<1>4. ASSUME NEW c \in Clients, NEW p \in Polls, Decrypted(c, p)
      PROVE  ResultsRight'
  <2>1. PICK m \in Messages, text \in Texts, q2 \in Poll, t \in Nat :
          DecryptedTo(c, p, m, text, q2, t)
    BY <1>4, DecryptedEffect
  <2>2. poll' = [poll EXCEPT ![c][p] = q2]
    BY <2>1 DEF DecryptedTo
  <2>3. Right(q2)
    <3>1. CASE q2 = NoPoll
      BY <3>1, NoPollRight
    <3>2. CASE q2 = [poll[c][p] EXCEPT !.todo = @ \ {m}, !.max = t]
      <4>1. poll[c][p] \in Poll
        BY DEF TypeOK
      <4>2. /\ q2.stage = poll[c][p].stage
            /\ q2.servers = poll[c][p].servers
            /\ q2.results = poll[c][p].results
        BY <3>2, <4>1 DEF Poll
      <4> QED
        BY <4>2 DEF Right, ResultsRight
    <3> QED
      BY <2>1, <3>1, <3>2 DEF DecryptedTo
  <2> QED
    BY <2>2, <2>3, OnePollRight
<1>5. ASSUME NEW c \in Clients, NEW p \in Polls, NEW k \in Slots,
             FetchReply(c, p, k)
      PROVE  ResultsRight'
  <2>1. PICK got \in SUBSET Fragment, q \in Poll :
          AnsweredWith(c, p, k, got, q)
    BY <1>5, FetchReplyEffect
  <2>2. \A f \in got : Rightly(f, k)
    BY <2>1 DEF RowsRight, AnsweredWith
  <2>3. /\ q.stage = poll[c][p].stage /\ q.servers = poll[c][p].servers
        /\ q.results = [poll[c][p].results EXCEPT ![k] = got]
        /\ poll[c][p].results \in [Slots -> SUBSET Fragment]
    BY <2>1 DEF AnsweredWith, TypeOK, Poll
  <2>4. Right(q)
    BY <2>2, <2>3 DEF Right, ResultsRight
  <2> QED
    BY <2>1, <2>4, OnePollRight DEF AnsweredWith
<1>6. ASSUME NEW c \in Clients, NEW p \in Polls, NEW k \in Slots,
             FetchFail(c, p, k)
      PROVE  ResultsRight'
  <2> DEFINE q == [poll[c][p] EXCEPT !.awaiting = @ \ {k}]
  <2>1. poll[c][p] \in Poll /\ poll' = [poll EXCEPT ![c][p] = q]
    BY <1>6 DEF FetchFail, TypeOK
  <2>2. /\ q.stage = poll[c][p].stage
        /\ q.servers = poll[c][p].servers
        /\ q.results = poll[c][p].results
    BY <2>1 DEF Poll
  <2> HIDE DEF q
  <2>3. Right(q)
    BY <2>2 DEF Right, ResultsRight
  <2> QED
    BY <2>1, <2>3, OnePollRight
<1>7. ASSUME NEW c \in Clients, Reload(c) PROVE ResultsRight'
  <2>1. \A d \in Clients, p \in Polls :
          poll'[d][p] = NoPoll \/ poll'[d][p] = poll[d][p]
    BY <1>7 DEF Reload, TypeOK
  <2> QED
    BY <2>1, NoPollRight DEF ResultsRight, Right, Rightly
<1>8. ASSUME NEW c \in Clients, NEW p \in Polls, KeyImported(c, p)
      PROVE  ResultsRight'
  <2>1. PICK q \in Poll : ImportedTo(c, p, q)
    BY <1>8, KeyImportedEffect
  <2>2. Right(q)
    BY <2>1 DEF ImportedTo, Right, ResultsRight
  <2> QED
    BY <2>1, <2>2, OnePollRight DEF ImportedTo
<1> QED
  BY <1>1, <1>2, <1>3, <1>4, <1>5, <1>6, <1>7, <1>8
  DEF Next, NodeNext, Tick, NodeDown, NodeUp, Purge, SendNext, StartSend,
      FinishSend, HandlePost, RejectPost, InsertPost, AckPost, FailPost,
      PollNext, UserNext, RemoveServer, clientVars, vars

\* Right chunks, joined in the order of the servers, decrypt.
LEMMA RightReading ==
  ASSUME TypeOK, ResultsRight, NEW c \in Clients, NEW p \in Polls,
         poll[c][p].stage = "decrypting", NEW m, NEW text,
         text \in Readings(poll[c][p], m)
  PROVE  text = "plain"
<1>1. poll[c][p].servers = Slots
  BY DEF ResultsRight
<1>2. \A k \in Slots : \A f \in LastOf(poll[c][p], m, k) :
        f.payload = ChunkFor(m, Slots, k)
  BY DEF LastOf, FragmentsAt, ResultsRight, Rightly
<1> QED
  BY <1>1, <1>2 DEF Readings

\* Each action keeps the lists readable.
LEMMA NeverGarbledStep ==
  TypeOK /\ ResultsRight /\ NeverGarbled /\ [Next]_vars => NeverGarbled'
<1> SUFFICES ASSUME TypeOK, ResultsRight, NeverGarbled, [Next]_vars
             PROVE  NeverGarbled'
  OBVIOUS
<1>1. CASE UNCHANGED shown
  BY <1>1 DEF NeverGarbled
<1>2. ASSUME NEW c \in Clients, Reload(c) PROVE NeverGarbled'
  <2>1. shown' = [shown EXCEPT ![c] = << >>]
    BY <1>2 DEF Reload
  <2> QED
    BY <2>1 DEF NeverGarbled, TypeOK
<1>3. ASSUME NEW c \in Clients, NEW e \in Entry, e.text = "plain",
             shown' = [shown EXCEPT ![c] = Append(@, e)]
      PROVE  NeverGarbled'
  <2> SUFFICES ASSUME NEW d \in Clients, NEW i \in DOMAIN shown'[d]
               PROVE  shown'[d][i].text = "plain"
    BY DEF NeverGarbled
  <2>1. shown[d] \in Seq(Entry)
    BY DEF TypeOK
  <2>2. shown'[d] = shown[d] \/ shown'[d] = Append(shown[d], e)
    BY <1>3 DEF TypeOK
  <2> QED
    BY <1>3, <2>1, <2>2, Appended DEF NeverGarbled
<1>4. ASSUME NEW m \in Messages, FinishSend(m) PROVE NeverGarbled'
  <2>1. Author[m] \in Clients
    BY ChatAssumption DEF ChatAssumption
  <2> QED
    BY <1>3, <1>4, <2>1, FinishSendEffect
<1>5. ASSUME NEW c \in Clients, NEW p \in Polls, Decrypted(c, p)
      PROVE  NeverGarbled'
  <2>1. PICK m \in Messages, text \in Texts, q2 \in Poll, t \in Nat :
          DecryptedTo(c, p, m, text, q2, t)
    BY <1>5, DecryptedEffect
  <2>2. poll[c][p].stage = "decrypting"
    BY <1>5 DEF Decrypted
  <2>3. text = "plain"
    BY <2>1, <2>2, RightReading DEF DecryptedTo
  <2>4. Received(m, text) \in Entry /\ Received(m, text).text = "plain"
    BY <2>3 DEF Received, Texts, Entry
  <2> QED
    BY <1>3, <2>1, <2>4 DEF DecryptedTo
<1> QED
  BY <1>1, <1>2, <1>4, <1>5, ListEffect

\* With one node per entry of the list, whole bodies and no server removed,
\* whatever is put together from the nodes' answers decrypts, for any number
\* of servers, messages and overlapping polls (app.js:402-415).
THEOREM NothingGarbled ==
  ASSUME WholeAndKept PROVE Spec => []NeverGarbled
<1>1. Init => RightInv /\ NeverGarbled
  BY SlotNode DEF Init, RightInv, ListKept, SplitOverAll, RowsRight, ResultsRight,
         NeverGarbled, NoRequest, NoPoll
<1>2. TypeOK /\ RightInv /\ [Next]_vars => RightInv'
  BY RightKept, RightSplit, RightRows, RightResults
  DEF RightInv, WholeAndKept
<1>3. TypeOK /\ RightInv /\ NeverGarbled /\ [Next]_vars => NeverGarbled'
  BY NeverGarbledStep DEF RightInv
<1> QED
  BY <1>1, <1>2, <1>3, TypeCorrect, PTL DEF Spec

-----------------------------------------------------------------------------
(***************************************************************************)
(* Where the cursor rests.                                                 *)
(***************************************************************************)
\* A message not yet sent has no requests.
UnsentUnasked ==
  \A m \in Messages : send[m].stage = "unsent" =>
    \A k \in Slots : req[m][k].stage = "none"

\* Fragment f comes from the request that was stored on the node of slot k.
Posted(f, k) ==
  /\ req[f.message_id][k].stage = "stored"
  /\ f.timestamp = req[f.message_id][k].stamp

\* What the nodes hold was posted, and so was what polls were answered; what a
\* poll decrypts it was answered in full.
RowsPosted ==
  \A k \in Slots : \A f \in rows[ChatServers[k]] : Posted(f, k)

PostedTo(q) ==
  /\ q.stage # "idle" => q.servers = Slots
  /\ \A k \in Slots : \A f \in q.results[k] : Posted(f, k)
  /\ q.todo \subseteq { m \in Messages : StoredEverywhere(m) }

PollsPosted == \A c \in Clients, p \in Polls : PostedTo(poll[c][p])

\* Time t is a cursor's first, or that of the first fragment of a message that
\* had reached every server.
OnComplete(t) ==
  t # 0 =>
    \E m \in Messages :
      StoredEverywhere(m) /\ \E k \in Lowest(Slots) : t = req[m][k].stamp

CursorsOnComplete ==
  \A c \in Clients :
    OnComplete(since[c]) /\ \A p \in Polls : OnComplete(poll[c][p].max)

CursorInv ==
  /\ UnsentUnasked /\ ListKept /\ RowsPosted /\ PollsPosted
  /\ CursorsOnComplete

\* What a node has stored stays stored, with its time.
LEMMA StoredStays ==
  ASSUME TypeOK, UnsentUnasked, [Next]_vars,
         NEW m \in Messages, NEW k \in Slots, req[m][k].stage = "stored"
  PROVE  req'[m][k] = req[m][k]
<1>1. CASE UNCHANGED req
  BY <1>1
<1>2. ASSUME NEW n \in Nodes, NodeDown(n) PROVE req'[m][k] = req[m][k]
  BY <1>2 DEF NodeDown
<1>3. ASSUME NEW x \in Messages, StartSend(x) PROVE req'[m][k] = req[m][k]
  <2>1. x # m
    BY <1>3 DEF StartSend, UnsentUnasked
  <2> QED
    BY <1>3, <2>1 DEF StartSend, TypeOK
<1>4. ASSUME NEW x \in Messages, NEW j \in Slots,
             HandlePost(x, j) \/ RejectPost(x, j) \/ InsertPost(x, j)
      PROVE  req'[m][k] = req[m][k]
  <2>1. req[x][j].stage # "stored"
    BY <1>4 DEF HandlePost, RejectPost, InsertPost
  <2>2. \E r : req' = [req EXCEPT ![x][j] = r]
    BY <1>4 DEF HandlePost, RejectPost, InsertPost
  <2> QED
    BY <2>1, <2>2 DEF TypeOK
<1>5. CASE PollNext
  BY <1>1, <1>5, PollFrame DEF sendVars
<1> QED
  BY <1>1, <1>2, <1>3, <1>4, <1>5
  DEF Next, NodeNext, Tick, NodeUp, Purge, SendNext, FinishSend, AckPost,
      FailPost, UserNext, Reload, RemoveServer, sendVars, vars

\* Hence what was complete stays complete, and a cursor's place good.
LEMMA OnCompleteStays ==
  ASSUME TypeOK, UnsentUnasked, [Next]_vars
  PROVE  /\ \A m \in Messages : StoredEverywhere(m) => StoredEverywhere(m)'
         /\ \A t \in Nat : OnComplete(t) => OnComplete(t)'
<1>1. \A m \in Messages, k \in Slots :
        req[m][k].stage = "stored" => req'[m][k] = req[m][k]
  BY StoredStays
<1> QED
  BY <1>1 DEF StoredEverywhere, OnComplete, Lowest

\* Hence a fragment that was posted stays one that was posted.
LEMMA PostedStays ==
  ASSUME TypeOK, UnsentUnasked, [Next]_vars,
         NEW f \in Fragment, NEW k \in Slots, Posted(f, k)
  PROVE  Posted(f, k)'
  BY StoredStays DEF Posted, Fragment

\* Requests are made by the step that starts the sending.
LEMMA UnsentStep ==
  ASSUME TypeOK, UnsentUnasked, [Next]_vars
  PROVE  UnsentUnasked'
<1>1. ASSUME NEW m \in Messages, send'[m].stage = "unsent"
      PROVE  send[m].stage = "unsent"
  <2>1. CASE UNCHANGED send
    BY <1>1, <2>1
  <2>2. ASSUME NEW x \in Messages,
               \/ StartSend(x) \/ FinishSend(x)
               \/ \E k \in Slots : AckPost(x, k) \/ FailPost(x, k)
        PROVE  send[m].stage = "unsent"
    <3>1. send \in [Messages -> Send]
      BY DEF TypeOK
    <3>2. \E s : send' = [send EXCEPT ![x] = s] /\ s.stage # "unsent"
      <4>1. CASE StartSend(x)
        <5>1. send' = [send EXCEPT ![x] =
                         [send[x] EXCEPT !.stage = "posting",
                                         !.servers = kept[Author[x]]]]
          BY <3>1, <4>1 DEF StartSend, Send
        <5>2. [send[x] EXCEPT !.stage = "posting",
                              !.servers = kept[Author[x]]].stage = "posting"
          BY <3>1 DEF Send
        <5> QED
          BY <5>1, <5>2
      <4>2. CASE FinishSend(x)
        <5>1. send' = [send EXCEPT ![x] = [send[x] EXCEPT !.stage = "done"]]
          BY <4>2 DEF FinishSend
        <5>2. [send[x] EXCEPT !.stage = "done"].stage = "done"
          BY <3>1 DEF Send
        <5> QED
          BY <5>1, <5>2
      <4>3. ASSUME NEW k \in Slots, AckPost(x, k) \/ FailPost(x, k)
            PROVE  \E s : send' = [send EXCEPT ![x] = s] /\ s.stage # "unsent"
        <5>1. send[x].stage = "posting"
          BY <4>3 DEF AckPost, FailPost
        <5>2. \/ send' = [send EXCEPT ![x] =
                            [send[x] EXCEPT !.acked = @ \cup {k}]]
              \/ send' = [send EXCEPT ![x] =
                            [send[x] EXCEPT !.failed = @ \cup {k}]]
          BY <4>3 DEF AckPost, FailPost
        <5>3. /\ [send[x] EXCEPT !.acked = @ \cup {k}].stage = "posting"
              /\ [send[x] EXCEPT !.failed = @ \cup {k}].stage = "posting"
          BY <3>1, <5>1 DEF Send
        <5> QED
          BY <5>2, <5>3
      <4> QED
        BY <2>2, <4>1, <4>2, <4>3
    <3> QED
      BY <1>1, <3>1, <3>2
  <2>3. ASSUME NEW c \in Clients, Reload(c) PROVE send[m].stage = "unsent"
    BY <1>1, <2>3 DEF Reload, TypeOK, Send
  <2>4. CASE PollNext
    BY <1>1, <2>4, PollFrame DEF sendVars
  <2> QED
    BY <2>1, <2>2, <2>3, <2>4
    DEF Next, NodeNext, Tick, NodeDown, NodeUp, Purge, SendNext, HandlePost,
        RejectPost, InsertPost, UserNext, RemoveServer, sendVars, vars
<1>2. ASSUME NEW m \in Messages, NEW k \in Slots,
             send'[m].stage = "unsent", send[m].stage = "unsent"
      PROVE  req'[m][k].stage = "none"
  <2> USE <1>2 DEF UnsentUnasked
  <2>1. CASE UNCHANGED req
    BY <2>1
  <2>2. ASSUME NEW n \in Nodes, NodeDown(n) PROVE req'[m][k].stage = "none"
    BY <2>2 DEF NodeDown
  <2>3. ASSUME NEW x \in Messages, StartSend(x)
        PROVE  req'[m][k].stage = "none"
    <3>1. x # m
      <4>1. send'[x].stage = "posting"
        BY <2>3 DEF StartSend, TypeOK, Send
      <4> QED
        BY <4>1
    <3> QED
      BY <2>3, <3>1 DEF StartSend, TypeOK
  <2>4. ASSUME NEW x \in Messages, NEW j \in Slots,
               HandlePost(x, j) \/ RejectPost(x, j) \/ InsertPost(x, j)
        PROVE  req'[m][k].stage = "none"
    <3>1. req[x][j].stage # "none"
      BY <2>4 DEF HandlePost, RejectPost, InsertPost
    <3>2. \E r : req' = [req EXCEPT ![x][j] = r]
      BY <2>4 DEF HandlePost, RejectPost, InsertPost
    <3> QED
      BY <3>1, <3>2 DEF TypeOK
  <2>5. CASE PollNext
    BY <2>1, <2>5, PollFrame DEF sendVars
  <2> QED
    BY <2>1, <2>2, <2>3, <2>4, <2>5
    DEF Next, NodeNext, Tick, NodeUp, Purge, SendNext, FinishSend, AckPost,
        FailPost, UserNext, Reload, RemoveServer, sendVars, vars
<1> QED
  BY <1>1, <1>2 DEF UnsentUnasked

\* Each action keeps the nodes to what was posted to them.
LEMMA RowsPostedStep ==
  ASSUME DistinctNodes, TypeOK, UnsentUnasked, RowsPosted, [Next]_vars
  PROVE  RowsPosted'
<1>1. ASSUME NEW k \in Slots, NEW f \in rows'[ChatServers[k]],
             f \in rows[ChatServers[k]]
      PROVE  Posted(f, k)'
  <2>1. f \in Fragment /\ Posted(f, k)
    BY <1>1, SlotNode DEF TypeOK, RowsPosted
  <2> QED
    BY <2>1, PostedStays
<1>2. CASE UNCHANGED rows
  BY <1>1, <1>2 DEF RowsPosted
<1>3. ASSUME NEW n \in Nodes, Purge(n) PROVE RowsPosted'
  <2>1. \A x \in Nodes : rows'[x] \subseteq rows[x]
    BY <1>3 DEF Purge, TypeOK
  <2> QED
    BY <1>1, <2>1, SlotNode DEF RowsPosted
<1>4. ASSUME NEW m \in Messages, NEW k \in Slots, InsertPost(m, k)
      PROVE  RowsPosted'
  <2> DEFINE f == FragmentOf(m, k)
  <2>1. /\ rows' = [rows EXCEPT ![ChatServers[k]] = InsertOrIgnore(@, f)]
        /\ req' = [req EXCEPT ![m][k].stage = "stored"]
    BY <1>4 DEF InsertPost
  <2>2. f.message_id = m /\ f.timestamp = req[m][k].stamp
    BY DEF FragmentOf
  <2> HIDE DEF f
  <2>3. \A x \in Nodes :
          rows'[x] \subseteq rows[x]
            \cup (IF x = ChatServers[k] THEN {f} ELSE {})
    BY <2>1 DEF InsertOrIgnore, TypeOK
  <2>4. req'[m][k].stage = "stored" /\ req'[m][k].stamp = req[m][k].stamp
    <3>1. req[m][k] \in Request
      BY DEF TypeOK
    <3>2. LET r == [req[m][k] EXCEPT !.stage = "stored"] IN
          r.stage = "stored" /\ r.stamp = req[m][k].stamp
      BY <3>1 DEF Request
    <3>3. req'[m][k] = [req[m][k] EXCEPT !.stage = "stored"]
      BY <2>1 DEF TypeOK
    <3> QED
      BY <3>2, <3>3
  <2>5. ASSUME NEW g, g = f PROVE Posted(g, k)'
    BY <2>2, <2>4, <2>5 DEF Posted
  <2> QED
    BY <1>1, <2>3, <2>5, SlotNode DEF RowsPosted, DistinctNodes
<1>5. CASE PollNext
  BY <1>2, <1>5, PollFrame DEF nodeVars
<1> QED
  BY <1>2, <1>3, <1>4, <1>5
  DEF Next, NodeNext, Tick, NodeDown, NodeUp, SendNext, StartSend, FinishSend,
      HandlePost, RejectPost, AckPost, FailPost, UserNext, Reload,
      RemoveServer, nodeVars, vars

\* What a poll has and does not change stays true.
LEMMA PostedToStays ==
  ASSUME TypeOK, UnsentUnasked, [Next]_vars, NEW q \in Poll, PostedTo(q)
  PROVE  PostedTo(q)'
<1>1. ASSUME NEW k \in Slots, NEW f \in q.results[k] PROVE Posted(f, k)'
  <2>1. f \in Fragment /\ Posted(f, k)
    BY <1>1 DEF PostedTo, Poll
  <2> QED
    BY <2>1, PostedStays
<1>2. q.todo \subseteq { m \in Messages : StoredEverywhere(m)' }
  BY OnCompleteStays DEF PostedTo
<1> QED
  BY <1>1, <1>2 DEF PostedTo

\* An idle poll was answered nothing.
LEMMA NoPollPosted == PostedTo(NoPoll) /\ PostedTo(NoPoll)'
  BY DEF PostedTo, NoPoll

\* One poll changes.
LEMMA OnePollPosted ==
  ASSUME TypeOK, UnsentUnasked, PollsPosted, [Next]_vars,
         NEW c \in Clients, NEW p \in Polls, NEW q \in Poll, PostedTo(q),
         poll' = [poll EXCEPT ![c][p] = q]
  PROVE  PollsPosted'
<1>1. ASSUME NEW d \in Clients, NEW r \in Polls, NEW x, x = poll'[d][r]
      PROVE  PostedTo(x)'
  <2>1. x = q \/ x = poll[d][r]
    BY <1>1 DEF TypeOK
  <2>2. poll[d][r] \in Poll /\ PostedTo(poll[d][r])
    BY DEF TypeOK, PollsPosted
  <2>3. x \in Poll /\ PostedTo(x)
    BY <2>1, <2>2
  <2> QED
    BY <2>3, PostedToStays
<1> QED
  BY <1>1 DEF PollsPosted, PostedTo

\* Each action keeps the polls to what the nodes had.
LEMMA PollsPostedStep ==
  ASSUME TypeOK, UnsentUnasked, ListKept, RowsPosted, PollsPosted, [Next]_vars
  PROVE  PollsPosted'
<1>1. ASSUME \A d \in Clients, r \in Polls :
               poll'[d][r] = poll[d][r] \/ poll'[d][r] = NoPoll
      PROVE  PollsPosted'
  <2>1. ASSUME NEW d \in Clients, NEW r \in Polls, NEW x, x = poll'[d][r]
        PROVE  PostedTo(x)'
    <3>1. x \in Poll /\ PostedTo(x)
      BY <1>1, <2>1, NoPollPosted, NothingType DEF TypeOK, PollsPosted
    <3> QED
      BY <3>1, PostedToStays
  <2> QED
    BY <2>1 DEF PollsPosted, PostedTo
<1>2. ASSUME NEW c \in Clients, NEW p \in Polls, StartPoll(c, p)
      PROVE  PollsPosted'
  <2> DEFINE q == [NoPoll EXCEPT !.stage = "importing", !.servers = kept[c]]
  <2>1. PostedTo(q)
    BY DEF PostedTo, NoPoll, ListKept
  <2>2. q \in Poll
    BY DEF TypeOK, NoPoll, Poll
  <2>3. poll' = [poll EXCEPT ![c][p] = q]
    BY <1>2 DEF StartPoll
  <2> HIDE DEF q
  <2> QED
    BY <2>1, <2>2, <2>3, OnePollPosted
<1>3. ASSUME NEW c \in Clients, NEW p \in Polls, Assemble(c, p)
      PROVE  PollsPosted'
  <2> DEFINE old == poll[c][p]
             todo == Complete(old) \ IdsShown(c)
             q == [old EXCEPT !.stage = "decrypting", !.todo = todo,
                              !.max = since[c]]
  <2>1. /\ old \in Poll /\ PostedTo(old) /\ old.servers = Slots
        /\ poll' = [poll EXCEPT ![c][p] = IF todo = {} THEN NoPoll ELSE q]
    BY <1>3 DEF Assemble, TypeOK, PollsPosted, PostedTo
  <2>2. todo \subseteq { m \in Messages : StoredEverywhere(m) }
    BY <2>1 DEF Complete, FragmentsAt, PostedTo, Posted, StoredEverywhere
  <2> HIDE DEF todo
  <2>3. /\ q.servers = old.servers /\ q.results = old.results
        /\ q.todo = todo
        /\ q \in Poll
    BY <2>1, <2>2 DEF Poll, TypeOK
  <2> HIDE DEF q
  <2>4. PostedTo(q)
    BY <2>1, <2>2, <2>3 DEF PostedTo
  <2> QED
    BY <2>1, <2>3, <2>4, NoPollPosted, NothingType, OnePollPosted
<1>4. ASSUME NEW c \in Clients, NEW p \in Polls, Decrypted(c, p)
      PROVE  PollsPosted'
  <2>1. PICK m \in Messages, text \in Texts, q2 \in Poll, t \in Nat :
          DecryptedTo(c, p, m, text, q2, t)
    BY <1>4, DecryptedEffect
  <2>2. PostedTo(q2)
    <3>1. CASE q2 = NoPoll
      BY <3>1, NoPollPosted
    <3>2. CASE q2 = [poll[c][p] EXCEPT !.todo = @ \ {m}, !.max = t]
      <4>1. poll[c][p] \in Poll /\ PostedTo(poll[c][p])
        BY DEF TypeOK, PollsPosted
      <4>2. /\ q2.stage = poll[c][p].stage
            /\ q2.servers = poll[c][p].servers
            /\ q2.results = poll[c][p].results
            /\ q2.todo \subseteq poll[c][p].todo
        BY <3>2, <4>1 DEF Poll
      <4> QED
        BY <4>1, <4>2 DEF PostedTo
    <3> QED
      BY <2>1, <3>1, <3>2 DEF DecryptedTo
  <2> QED
    BY <2>1, <2>2, OnePollPosted DEF DecryptedTo
<1>5. ASSUME NEW c \in Clients, NEW p \in Polls, NEW k \in Slots,
             FetchReply(c, p, k)
      PROVE  PollsPosted'
  <2>1. PICK got \in SUBSET Fragment, q \in Poll :
          AnsweredWith(c, p, k, got, q)
    BY <1>5, FetchReplyEffect
  <2>2. \A f \in got : Posted(f, k)
    BY <2>1 DEF RowsPosted, AnsweredWith
  <2>3. /\ q.stage = poll[c][p].stage /\ q.servers = poll[c][p].servers
        /\ q.results = [poll[c][p].results EXCEPT ![k] = got]
        /\ q.todo = poll[c][p].todo
        /\ poll[c][p].results \in [Slots -> SUBSET Fragment]
    BY <2>1 DEF AnsweredWith, TypeOK, Poll
  <2>4. PostedTo(poll[c][p])
    BY DEF PollsPosted
  <2>5. PostedTo(q)
    BY <2>2, <2>3, <2>4 DEF PostedTo
  <2> QED
    BY <2>1, <2>5, OnePollPosted DEF AnsweredWith
<1>6. ASSUME NEW c \in Clients, NEW p \in Polls, NEW k \in Slots,
             FetchFail(c, p, k)
      PROVE  PollsPosted'
  <2> DEFINE old == poll[c][p]
             q == [old EXCEPT !.awaiting = @ \ {k}]
  <2>1. old \in Poll /\ PostedTo(old) /\ poll' = [poll EXCEPT ![c][p] = q]
    BY <1>6 DEF FetchFail, TypeOK, PollsPosted
  <2>2. /\ q.stage = old.stage /\ q.servers = old.servers
        /\ q.results = old.results /\ q.todo = old.todo
        /\ q \in Poll
    BY <2>1 DEF Poll
  <2> HIDE DEF q
  <2>3. PostedTo(q)
    BY <2>1, <2>2 DEF PostedTo
  <2> QED
    BY <2>1, <2>2, <2>3, OnePollPosted
<1>7. ASSUME NEW c \in Clients, Reload(c) PROVE PollsPosted'
  BY <1>1, <1>7 DEF Reload, TypeOK
<1>8. ASSUME NEW c \in Clients, NEW p \in Polls, KeyImported(c, p)
      PROVE  PollsPosted'
  <2>1. PICK q \in Poll : ImportedTo(c, p, q)
    BY <1>8, KeyImportedEffect
  <2>2. PostedTo(poll[c][p])
    BY DEF PollsPosted
  <2>3. PostedTo(q)
    BY <2>1, <2>2 DEF ImportedTo, PostedTo
  <2> QED
    BY <2>1, <2>3, OnePollPosted DEF ImportedTo
<1> QED
  BY <1>1, <1>2, <1>3, <1>4, <1>5, <1>6, <1>7, <1>8
  DEF Next, NodeNext, Tick, NodeDown, NodeUp, Purge, SendNext, StartSend,
      FinishSend, HandlePost, RejectPost, InsertPost, AckPost, FailPost,
      PollNext, UserNext, RemoveServer, clientVars, vars

\* The cursor, and what a poll is about to make of it, come from where they
\* were or from the first fragment of a message the poll has whole.
LEMMA CursorsStep ==
  ASSUME TypeOK, TypeOK', UnsentUnasked, PollsPosted, CursorsOnComplete,
         [Next]_vars
  PROVE  CursorsOnComplete'
<1> DEFINE Good(t) == t \in Nat /\ OnComplete(t)
<1>1. ASSUME NEW c \in Clients
      PROVE  Good(since[c]) /\ \A p \in Polls : Good(poll[c][p].max)
  BY DEF CursorsOnComplete, TypeOK, Poll
<1>2. Good(0) /\ NoPoll.max = 0
  BY DEF OnComplete, NoPoll
<1>3. SUFFICES ASSUME NEW c \in Clients
               PROVE  /\ \E t : Good(t) /\ since'[c] = t
                      /\ \A p \in Polls : \E t : Good(t) /\ poll'[c][p].max = t
  <2>1. ASSUME NEW t, Good(t) PROVE OnComplete(t)'
    BY <2>1, OnCompleteStays
  <2>2. ASSUME NEW c \in Clients, NEW t, Good(t), since'[c] = t
        PROVE  OnComplete(since[c])'
    BY <2>1, <2>2 DEF OnComplete
  <2>3. ASSUME NEW c \in Clients, NEW p \in Polls, NEW t, Good(t),
               poll'[c][p].max = t
        PROVE  OnComplete(poll[c][p].max)'
    BY <2>1, <2>3 DEF OnComplete
  <2> HIDE DEF Good
  <2> QED
    BY <2>2, <2>3 DEF CursorsOnComplete
<1>4. CASE UNCHANGED <<since, poll>>
  BY <1>1, <1>4
<1>5. ASSUME NEW d \in Clients, NEW r \in Polls, NEW q, NEW t, Good(t),
             poll' = [poll EXCEPT ![d][r] = q],
             q.max = t \/ q.max \in {0, poll[d][r].max},
             since' = since \/ since' = [since EXCEPT ![d] = t]
      PROVE  /\ \E u : Good(u) /\ since'[c] = u
             /\ \A p \in Polls : \E u : Good(u) /\ poll'[c][p].max = u
  <2>1. since'[c] = since[c] \/ since'[c] = t
    BY <1>5 DEF TypeOK
  <2>2. ASSUME NEW p \in Polls
        PROVE  poll'[c][p].max \in {poll[c][p].max, t, 0}
    BY <1>5 DEF TypeOK
  <2> HIDE DEF Good
  <2> QED
    BY <1>1, <1>2, <1>5, <2>1, <2>2
<1>6. ASSUME NEW d \in Clients, NEW r \in Polls, StartPoll(d, r)
      PROVE  \E q : /\ poll' = [poll EXCEPT ![d][r] = q] /\ q.max = 0
                    /\ since' = since
  <2> DEFINE q == [NoPoll EXCEPT !.stage = "importing", !.servers = kept[d]]
  <2>1. q.max = 0
    BY DEF NoPoll
  <2>2. poll' = [poll EXCEPT ![d][r] = q] /\ since' = since
    BY <1>6 DEF StartPoll
  <2> HIDE DEF q
  <2> QED
    BY <2>1, <2>2
<1>7. ASSUME NEW d \in Clients, NEW r \in Polls, Assemble(d, r)
      PROVE  \E q : /\ poll' = [poll EXCEPT ![d][r] = q]
                    /\ q.max = 0 \/ q.max = since[d]
                    /\ since' = since
  <2> DEFINE todo == Complete(poll[d][r]) \ IdsShown(d)
             q == [poll[d][r] EXCEPT !.stage = "decrypting", !.todo = todo,
                                     !.max = since[d]]
  <2>1. poll' = [poll EXCEPT ![d][r] = IF todo = {} THEN NoPoll ELSE q]
        /\ since' = since
    BY <1>7 DEF Assemble
  <2>2. q.max = since[d]
    BY DEF TypeOK, Poll
  <2> HIDE DEF q, todo
  <2> QED
    BY <1>2, <2>1, <2>2
<1>8. ASSUME NEW d \in Clients, NEW r \in Polls, Decrypted(d, r)
      PROVE  \E q, t : /\ poll' = [poll EXCEPT ![d][r] = q]
                       /\ Good(t)
                       /\ q.max = t \/ q.max = 0
                       /\ since' = since \/ since' = [since EXCEPT ![d] = t]
  <2>1. PICK m \in Messages, text \in Texts, q2 \in Poll, t \in Nat :
          DecryptedTo(d, r, m, text, q2, t)
    BY <1>8, DecryptedEffect
  <2> DEFINE q == poll[d][r]
  <2>2. /\ q \in Poll /\ PostedTo(q) /\ q.servers = Slots
        /\ m \in q.todo
    BY <1>8, <2>1 DEF Decrypted, DecryptedTo, TypeOK, PollsPosted, PostedTo
  <2>3. StoredEverywhere(m)
    BY <2>2 DEF PostedTo
  <2>4. ASSUME NEW f \in FirstOf(q, m) PROVE OnComplete(f.timestamp)
    <3>1. PICK k \in Lowest(Slots) : f \in FragmentsAt(q, m, k)
      BY <2>2 DEF FirstOf
    <3>2. k \in Slots /\ Posted(f, k) /\ f.message_id = m
      BY <2>2, <3>1 DEF PostedTo, FragmentsAt, Lowest
    <3>3. f.timestamp = req[m][k].stamp
      BY <3>2 DEF Posted
    <3> QED
      BY <2>3, <3>1, <3>3 DEF OnComplete
  <2>5. Good(t)
    BY <1>1, <2>1, <2>4 DEF DecryptedTo
  <2>6. q2.max = t \/ q2.max = 0
    BY <1>2, <2>1, <2>2 DEF DecryptedTo, Poll
  <2> QED
    BY <2>1, <2>5, <2>6 DEF DecryptedTo
<1>9. ASSUME NEW d \in Clients, NEW r \in Polls, NEW k \in Slots,
             FetchReply(d, r, k) \/ FetchFail(d, r, k)
      PROVE  UNCHANGED since
             /\ \A x \in Clients, p \in Polls :
                  poll'[x][p].max = poll[x][p].max
  <2>1. CASE FetchReply(d, r, k)
    <3>1. PICK got \in SUBSET Fragment, q \in Poll :
            AnsweredWith(d, r, k, got, q)
      BY <2>1, FetchReplyEffect
    <3>2. poll' = [poll EXCEPT ![d][r] = q] /\ q.max = poll[d][r].max
      BY <3>1 DEF AnsweredWith
    <3>3. UNCHANGED since
      BY <2>1 DEF FetchReply
    <3> QED
      BY <3>2, <3>3 DEF TypeOK
  <2>2. CASE FetchFail(d, r, k)
    BY <2>2 DEF FetchFail, TypeOK, Poll
  <2> QED
    BY <1>9, <2>1, <2>2
<1>13. ASSUME NEW d \in Clients, NEW r \in Polls, KeyImported(d, r)
       PROVE  UNCHANGED since
              /\ \A x \in Clients, p \in Polls :
                   poll'[x][p].max = poll[x][p].max
  <2>1. PICK q \in Poll : ImportedTo(d, r, q)
    BY <1>13, KeyImportedEffect
  <2>2. poll' = [poll EXCEPT ![d][r] = q] /\ q.max = poll[d][r].max
    BY <2>1 DEF ImportedTo
  <2>3. UNCHANGED since
    BY <1>13 DEF KeyImported
  <2> QED
    BY <2>2, <2>3 DEF TypeOK
<1>10. ASSUME NEW d \in Clients, Reload(d)
       PROVE  UNCHANGED since
              /\ \A x \in Clients, p \in Polls :
                   poll'[x][p].max \in {0, poll[x][p].max}
  BY <1>2, <1>10 DEF Reload, TypeOK
<1>11. CASE PollNext
  <2>1. PICK d \in Clients, r \in Polls :
          \/ StartPoll(d, r) \/ KeyImported(d, r)
          \/ Assemble(d, r) \/ Decrypted(d, r)
          \/ \E k \in Slots : FetchReply(d, r, k) \/ FetchFail(d, r, k)
    BY <1>11 DEF PollNext
  <2> HIDE DEF Good
  <2>2. CASE StartPoll(d, r)
    BY <1>1, <1>2, <1>5, <1>6, <2>2
  <2>3. CASE Assemble(d, r)
    BY <1>1, <1>2, <1>5, <1>7, <2>3
  <2>4. CASE Decrypted(d, r)
    BY <1>1, <1>2, <1>5, <1>8, <2>4
  <2>5. CASE \E k \in Slots : FetchReply(d, r, k) \/ FetchFail(d, r, k)
    BY <1>1, <1>9, <2>5
  <2>6. CASE KeyImported(d, r)
    BY <1>1, <1>13, <2>6
  <2> QED
    BY <2>1, <2>2, <2>3, <2>4, <2>5, <2>6
<1>12. ASSUME NEW d \in Clients, Reload(d)
       PROVE  /\ \E t : Good(t) /\ since'[c] = t
              /\ \A p \in Polls : \E t : Good(t) /\ poll'[c][p].max = t
  <2> HIDE DEF Good
  <2> QED
    BY <1>1, <1>2, <1>10, <1>12
<1> HIDE DEF Good
<1> QED
  BY <1>4, <1>11, <1>12
  DEF Next, NodeNext, Tick, NodeDown, NodeUp, Purge, SendNext, StartSend,
      FinishSend, HandlePost, RejectPost, InsertPost, AckPost, FailPost,
      UserNext, RemoveServer, clientVars, vars

\* The cursor follows only messages that had reached every server, whatever
\* fails or is cut, if the list is untouched and names each node once
\* (app.js:396, 430): a message of which a fragment is missing cannot be
\* passed over by its own fragments.
THEOREM CursorFollowsComplete ==
  ASSUME DistinctNodes, "remove" \notin Faults
  PROVE  Spec => []CursorOnComplete
<1>1. Init => CursorInv
  BY SlotNode
  DEF Init, CursorInv, UnsentUnasked, ListKept, RowsPosted, PollsPosted,
      PostedTo, CursorsOnComplete, OnComplete, NoPoll, NoRequest
<1>2. TypeOK /\ TypeOK' /\ CursorInv /\ [Next]_vars => CursorInv'
  BY UnsentStep, RightKept, RowsPostedStep, PollsPostedStep, CursorsStep
  DEF CursorInv
<1>3. CursorInv => CursorOnComplete
  BY DEF CursorInv, CursorsOnComplete, OnComplete, CursorOnComplete
<1> QED
  BY <1>1, <1>2, <1>3, TypeCorrect, PTL DEF Spec

-----------------------------------------------------------------------------
(***************************************************************************)
(* The clients implement ChatReader.  The cursor is set to what a poll has *)
(* carried through its awaits: MaxListed says that this is never ahead of  *)
(* both the cursor and the list, which needs that fragments bear the times *)
(* under which their messages were stored.                                 *)
(***************************************************************************)
Stamped(f) == f.timestamp \in TimesOf(f.message_id)

RowsStamped == \A n \in Nodes : \A f \in rows[n] : Stamped(f)

ResultsStamped ==
  \A c \in Clients, p \in Polls : \A k \in Slots :
    \A f \in poll[c][p].results[k] : Stamped(f)

\* The cursor of c has reached t, or a message listed for c bears it.
Reached(c, t) == t <= since[c] \/ \E m \in IdsShown(c) : t \in TimesOf(m)

MaxListed == \A c \in Clients, p \in Polls : Reached(c, poll[c][p].max)

ReaderInv == UnsentUnasked /\ RowsStamped /\ ResultsStamped /\ MaxListed

\* A message stays stored under its times.
LEMMA TimesStay ==
  ASSUME TypeOK, UnsentUnasked, [Next]_vars, NEW m \in Messages
  PROVE  TimesOf(m) \subseteq TimesOf(m)'
<1>1. \A k \in Slots : req[m][k].stage = "stored" => req'[m][k] = req[m][k]
  BY StoredStays
<1> QED
  BY <1>1 DEF TimesOf

LEMMA StampedStays ==
  ASSUME TypeOK, UnsentUnasked, [Next]_vars, NEW f \in Fragment, Stamped(f)
  PROVE  Stamped(f)'
<1>1. f.message_id \in Messages
  BY DEF Fragment
<1> QED
  BY <1>1, TimesStay DEF Stamped

\* What a node stores it stores under the time of the request.
LEMMA RowsStampedStep ==
  ASSUME TypeOK, UnsentUnasked, RowsStamped, [Next]_vars
  PROVE  RowsStamped'
<1>1. ASSUME NEW n \in Nodes, NEW f \in rows[n] PROVE Stamped(f)'
  BY StampedStays DEF TypeOK, RowsStamped
<1>2. CASE \A n \in Nodes : rows'[n] \subseteq rows[n]
  BY <1>1, <1>2 DEF RowsStamped
<1>3. ASSUME NEW m \in Messages, NEW k \in Slots, InsertPost(m, k)
      PROVE  RowsStamped'
  <2> DEFINE f == FragmentOf(m, k)
  <2>1. /\ rows' = [rows EXCEPT ![ChatServers[k]] = InsertOrIgnore(@, f)]
        /\ req' = [req EXCEPT ![m][k].stage = "stored"]
    BY <1>3 DEF InsertPost
  <2>2. f.message_id = m /\ f.timestamp = req[m][k].stamp
    BY DEF FragmentOf
  <2> HIDE DEF f
  <2>3. \A n \in Nodes : rows'[n] \subseteq rows[n] \cup {f}
    BY <2>1 DEF InsertOrIgnore, TypeOK
  <2>4. req'[m][k].stage = "stored" /\ req'[m][k].stamp = req[m][k].stamp
    <3>1. req[m][k] \in Request
      BY DEF TypeOK
    <3>2. req'[m][k] = [req[m][k] EXCEPT !.stage = "stored"]
      BY <2>1 DEF TypeOK
    <3> QED
      BY <3>1, <3>2 DEF Request
  <2>5. ASSUME NEW g, g = f PROVE Stamped(g)'
    BY <2>2, <2>4, <2>5 DEF Stamped, TimesOf
  <2> QED
    BY <1>1, <2>3, <2>5 DEF RowsStamped
<1>4. ASSUME NEW n \in Nodes, Purge(n) PROVE RowsStamped'
  BY <1>2, <1>4 DEF Purge, TypeOK
<1>5. CASE PollNext
  BY <1>2, <1>5, PollFrame DEF nodeVars
<1> QED
  BY <1>2, <1>3, <1>4, <1>5
  DEF Next, NodeNext, Tick, NodeDown, NodeUp, SendNext, StartSend, FinishSend,
      HandlePost, RejectPost, AckPost, FailPost, UserNext, Reload,
      RemoveServer, nodeVars, vars

\* A step of a poll leaves every other poll alone.
LEMMA OtherPollsStay ==
  ASSUME TypeOK, NEW c \in Clients, NEW p \in Polls,
         \/ StartPoll(c, p) \/ KeyImported(c, p)
         \/ Assemble(c, p) \/ Decrypted(c, p)
         \/ \E k \in Slots : FetchReply(c, p, k) \/ FetchFail(c, p, k),
         NEW d \in Clients, NEW r \in Polls, ~(d = c /\ r = p)
  PROVE  poll'[d][r] = poll[d][r]
<1>0. poll \in [Clients -> [Polls -> Poll]]
  BY DEF TypeOK
<1>1. CASE StartPoll(c, p)
  BY <1>0, <1>1 DEF StartPoll
<1>2. CASE Assemble(c, p)
  BY <1>0, <1>2 DEF Assemble
<1>3. CASE Decrypted(c, p)
  <2>1. PICK m \in Messages, text \in Texts, q2 \in Poll, t \in Nat :
          DecryptedTo(c, p, m, text, q2, t)
    BY <1>3, DecryptedEffect
  <2> QED
    BY <1>0, <2>1 DEF DecryptedTo
<1>4. ASSUME NEW k \in Slots, FetchReply(c, p, k)
      PROVE  poll'[d][r] = poll[d][r]
  <2>1. PICK got \in SUBSET Fragment, q \in Poll :
          AnsweredWith(c, p, k, got, q)
    BY <1>4, FetchReplyEffect
  <2> QED
    BY <1>0, <2>1 DEF AnsweredWith
<1>5. ASSUME NEW k \in Slots, FetchFail(c, p, k)
      PROVE  poll'[d][r] = poll[d][r]
  BY <1>0, <1>5 DEF FetchFail
<1>6. CASE KeyImported(c, p)
  <2>1. PICK q \in Poll : ImportedTo(c, p, q)
    BY <1>6, KeyImportedEffect
  <2> QED
    BY <1>0, <2>1 DEF ImportedTo
<1> QED
  BY <1>1, <1>2, <1>3, <1>4, <1>5, <1>6

\* A poll has its answers from the nodes, and carries the cursor, what it was
\* carrying, or the time of a message that is being listed.
LEMMA PollEffect ==
  ASSUME TypeOK, [Next]_vars, NEW c \in Clients, NEW p \in Polls
  PROVE  /\ \A k \in Slots : \A f \in poll'[c][p].results[k] :
              \/ f \in poll[c][p].results[k]
              \/ \E n \in Nodes : f \in rows[n]
         /\ \/ poll'[c][p].max \in {0, since[c], poll[c][p].max}
            \/ Decrypted(c, p)
<1>0. poll[c][p] \in Poll /\ poll \in [Clients -> [Polls -> Poll]]
  BY DEF TypeOK
<1>1. CASE poll'[c][p] = poll[c][p]
  BY <1>1
<1>2. CASE poll'[c][p] = NoPoll
  BY <1>2 DEF NoPoll
<1>3. CASE StartPoll(c, p)
  BY <1>0, <1>3 DEF StartPoll, NoPoll
<1>4. CASE Assemble(c, p)
  <2> DEFINE todo == Complete(poll[c][p]) \ IdsShown(c)
             q == [poll[c][p] EXCEPT !.stage = "decrypting", !.todo = todo,
                                     !.max = since[c]]
  <2>1. poll'[c][p] = NoPoll \/ poll'[c][p] = q
    BY <1>0, <1>4 DEF Assemble
  <2>2. q.results = poll[c][p].results /\ q.max = since[c]
    BY <1>0 DEF Poll
  <2> HIDE DEF q
  <2> QED
    BY <1>2, <2>1, <2>2
<1>5. CASE Decrypted(c, p)
  <2>1. PICK m \in Messages, text \in Texts, q2 \in Poll, t \in Nat :
          DecryptedTo(c, p, m, text, q2, t)
    BY <1>5, DecryptedEffect
  <2>2. poll'[c][p] = q2
    BY <1>0, <2>1 DEF DecryptedTo
  <2>3. CASE q2 = [poll[c][p] EXCEPT !.todo = @ \ {m}, !.max = t]
    <3>1. q2.results = poll[c][p].results
      BY <1>0, <2>3 DEF Poll
    <3> QED
      BY <1>5, <2>2, <3>1
  <2> QED
    BY <1>2, <2>1, <2>2, <2>3 DEF DecryptedTo
<1>6. ASSUME NEW k \in Slots, FetchReply(c, p, k)
      PROVE  /\ \A j \in Slots : \A f \in poll'[c][p].results[j] :
                  \/ f \in poll[c][p].results[j]
                  \/ \E n \in Nodes : f \in rows[n]
             /\ poll'[c][p].max = poll[c][p].max
  <2>1. PICK got \in SUBSET Fragment, q \in Poll :
          AnsweredWith(c, p, k, got, q)
    BY <1>6, FetchReplyEffect
  <2>2. \A f \in got : \E n \in Nodes : f \in rows[n]
    BY <2>1, SlotNode DEF AnsweredWith
  <2>3. /\ poll'[c][p].max = poll[c][p].max
        /\ poll'[c][p].results = [poll[c][p].results EXCEPT ![k] = got]
        /\ poll[c][p].results \in [Slots -> SUBSET Fragment]
    BY <1>0, <2>1 DEF AnsweredWith, Poll
  <2> QED
    BY <2>2, <2>3
<1>7. ASSUME NEW k \in Slots, FetchFail(c, p, k)
      PROVE  /\ poll'[c][p].results = poll[c][p].results
             /\ poll'[c][p].max = poll[c][p].max
  BY <1>0, <1>7 DEF FetchFail, Poll
<1>10. CASE KeyImported(c, p)
  <2>1. PICK q \in Poll : ImportedTo(c, p, q)
    BY <1>10, KeyImportedEffect
  <2> QED
    BY <1>0, <2>1 DEF ImportedTo
<1>8. CASE PollNext
  <2>1. PICK d \in Clients, r \in Polls :
          \/ StartPoll(d, r) \/ KeyImported(d, r)
          \/ Assemble(d, r) \/ Decrypted(d, r)
          \/ \E k \in Slots : FetchReply(d, r, k) \/ FetchFail(d, r, k)
    BY <1>8 DEF PollNext
  <2>2. CASE d = c /\ r = p
    BY <1>3, <1>4, <1>5, <1>6, <1>7, <1>10, <2>1, <2>2
  <2>3. CASE ~(d = c /\ r = p)
    <3>1. poll'[c][p] = poll[c][p]
      BY <2>1, <2>3, OtherPollsStay
    <3> QED
      BY <1>1, <3>1
  <2> QED
    BY <2>2, <2>3
<1>9. CASE UserNext
  BY <1>0, <1>1, <1>2, <1>9 DEF UserNext, Reload, RemoveServer
<1> QED
  BY <1>1, <1>8, <1>9
  DEF Next, NodeNext, Tick, NodeDown, NodeUp, Purge, SendNext, StartSend,
      FinishSend, HandlePost, RejectPost, InsertPost, AckPost, FailPost,
      clientVars, vars

LEMMA ResultsStampedStep ==
  ASSUME TypeOK, UnsentUnasked, RowsStamped, ResultsStamped, [Next]_vars
  PROVE  ResultsStamped'
<1> SUFFICES ASSUME NEW c \in Clients, NEW p \in Polls, NEW k \in Slots,
                    NEW f \in poll'[c][p].results[k]
             PROVE  Stamped(f)'
  BY DEF ResultsStamped
<1>1. f \in poll[c][p].results[k] \/ \E n \in Nodes : f \in rows[n]
  BY PollEffect
<1>2. f \in Fragment /\ Stamped(f)
  BY <1>1 DEF TypeOK, Poll, RowsStamped, ResultsStamped
<1> QED
  BY <1>2, StampedStays

LEMMA IdsAreMessages ==
  ASSUME TypeOK, NEW c \in Clients PROVE IdsShown(c) \subseteq Messages
<1>1. \A i \in DOMAIN shown[c] : shown[c][i].id \in Messages
  BY ShownMessages
<1> QED
  BY <1>1 DEF IdsShown

\* A list with one more entry shows one more message.
LEMMA IdsAppended ==
  ASSUME TypeOK, NEW d \in Clients, NEW e \in Entry,
         shown' = [shown EXCEPT ![d] = Append(@, e)], NEW c \in Clients
  PROVE  IdsShown(c)' = IdsShown(c) \cup (IF c = d THEN {e.id} ELSE {})
<1>1. shown[c] \in Seq(Entry)
  BY DEF TypeOK
<1>2. CASE c = d
  <2>1. shown'[c] = Append(shown[c], e)
    BY <1>2 DEF TypeOK
  <2>2. /\ DOMAIN shown'[c] = DOMAIN shown[c] \cup {Len(shown[c]) + 1}
        /\ shown'[c][Len(shown[c]) + 1] = e
        /\ \A i \in DOMAIN shown[c] : shown'[c][i] = shown[c][i]
    BY <1>1, <2>1
  <2> QED
    BY <1>2, <2>2 DEF IdsShown
<1>3. CASE c # d
  <2>1. shown'[c] = shown[c]
    BY <1>3 DEF TypeOK
  <2> QED
    BY <1>3, <2>1 DEF IdsShown
<1> QED
  BY <1>2, <1>3

\* A turn of a poll's loop lists a message and leaves behind a time, for the
\* poll or the cursor, that the cursor or the list has reached.
LEMMA DecryptedReach ==
  ASSUME TypeOK, ResultsStamped, MaxListed,
         NEW c \in Clients, NEW p \in Polls, Decrypted(c, p)
  PROVE  \E m \in Messages, t \in Nat :
           /\ IdsShown(c)' = IdsShown(c) \cup {m}
           /\ poll'[c][p].max \in {0, t}
           /\ since'[c] = since[c] \/ (since'[c] = t /\ t >= since[c])
           /\ t <= since[c] \/ \E x \in IdsShown(c)' : t \in TimesOf(x)
<1> DEFINE q == poll[c][p]
<1>1. PICK m \in Messages, text \in Texts, q2 \in Poll, t \in Nat :
        DecryptedTo(c, p, m, text, q2, t)
  BY DecryptedEffect
<1>2. q \in Poll /\ since[c] \in Nat
  BY DEF TypeOK
<1>3. IdsShown(c)' = IdsShown(c) \cup {m}
  <2>1. Received(m, text) \in Entry /\ Received(m, text).id = m
    BY DEF Received, Texts, Entry
  <2> QED
    BY <1>1, <2>1, IdsAppended DEF DecryptedTo
<1>4. poll'[c][p].max \in {0, t}
  <2>1. poll'[c][p] = q2
    BY <1>1 DEF DecryptedTo, TypeOK
  <2>2. NoPoll.max = 0 /\ [q EXCEPT !.todo = @ \ {m}, !.max = t].max = t
    BY <1>2 DEF NoPoll, Poll
  <2> QED
    BY <1>1, <2>1, <2>2 DEF DecryptedTo
<1>5. since'[c] = since[c] \/ (since'[c] = t /\ t >= since[c])
  BY <1>1 DEF DecryptedTo, TypeOK
<1>6. ASSUME NEW f \in FirstOf(q, m) PROVE f.timestamp \in TimesOf(m)
  <2>1. PICK k \in Lowest(q.servers) : f \in FragmentsAt(q, m, k)
    BY <1>6 DEF FirstOf
  <2>2. k \in Slots /\ f \in q.results[k] /\ f.message_id = m
    BY <1>2, <2>1 DEF FragmentsAt, Lowest, Poll
  <2> QED
    BY <2>2 DEF ResultsStamped, Stamped
<1>7. t <= since[c] \/ \E x \in IdsShown(c)' : t \in TimesOf(x)
  <2>1. Reached(c, q.max)
    BY DEF MaxListed
  <2>2. CASE t = q.max
    BY <1>3, <2>1, <2>2 DEF Reached
  <2>3. CASE t = since[c]
    BY <1>2, <2>3
  <2>4. CASE t \in { f.timestamp : f \in FirstOf(q, m) }
    BY <1>3, <1>6, <2>4
  <2> QED
    BY <1>1, <2>2, <2>3, <2>4 DEF DecryptedTo
<1> QED
  BY <1>3, <1>4, <1>5, <1>7

\* What a step does to the list and the cursor of one client.
LEMMA ListCursorEffect ==
  ASSUME TypeOK, [Next]_vars, NEW c \in Clients
  PROVE  \/ IdsShown(c)' = IdsShown(c) /\ since'[c] = since[c]
         \/ \E m \in Messages :
              IdsShown(c)' = IdsShown(c) \cup {m} /\ since'[c] = since[c]
         \/ /\ Reload(c)
            /\ IdsShown(c)' = {} /\ since'[c] = since[c]
         \/ \E p \in Polls : Decrypted(c, p)
<1>1. CASE \E m \in Messages : FinishSend(m)
  <2>1. PICK m \in Messages : FinishSend(m)
    BY <1>1
  <2> DEFINE e == [id |-> m, text |-> "plain",
                   status |-> IF send[m].failed = {} THEN "sent" ELSE "partial"]
  <2>2. /\ shown' = [shown EXCEPT ![Author[m]] = Append(@, e)]
        /\ UNCHANGED since
    BY <2>1 DEF FinishSend
  <2>3. e \in Entry /\ e.id = m /\ Author[m] \in Clients
    BY ChatAssumption DEF Entry
  <2> HIDE DEF e
  <2>4. IdsShown(c)' = IdsShown(c) \cup (IF c = Author[m] THEN {m} ELSE {})
    BY <2>2, <2>3, IdsAppended
  <2>5. since'[c] = since[c]
    BY <2>2
  <2> QED
    BY <2>4, <2>5
<1>2. CASE \E d \in Clients, p \in Polls : Decrypted(d, p)
  <2>1. PICK d \in Clients, p \in Polls : Decrypted(d, p)
    BY <1>2
  <2>2. CASE d # c
    <3>1. PICK m \in Messages, text \in Texts, q2 \in Poll, t \in Nat :
            DecryptedTo(d, p, m, text, q2, t)
      BY <2>1, DecryptedEffect
    <3>2. shown'[c] = shown[c] /\ since'[c] = since[c]
      BY <2>2, <3>1 DEF DecryptedTo, TypeOK
    <3> QED
      BY <3>2 DEF IdsShown
  <2> QED
    BY <2>1, <2>2
<1>3. ASSUME NEW d \in Clients, Reload(d)
      PROVE  /\ since'[c] = since[c]
             /\ IF d = c THEN IdsShown(c)' = {} ELSE IdsShown(c)' = IdsShown(c)
  BY <1>3 DEF Reload, IdsShown, TypeOK
<1>4. CASE UNCHANGED shown /\ ~\E d \in Clients, p \in Polls : Decrypted(d, p)
  <2>1. UNCHANGED since
    BY <1>4, PollFrame
    DEF Next, NodeNext, Tick, NodeDown, NodeUp, Purge, SendNext, StartSend,
        FinishSend, HandlePost, RejectPost, InsertPost, AckPost, FailPost,
        UserNext, Reload, RemoveServer, clientVars, vars
  <2> QED
    BY <1>4, <2>1 DEF IdsShown
<1> QED
  BY <1>1, <1>2, <1>3, <1>4, ListEffect

LEMMA MaxListedStep ==
  ASSUME TypeOK, TypeOK', UnsentUnasked, ResultsStamped, MaxListed, [Next]_vars
  PROVE  MaxListed'
<1> SUFFICES ASSUME NEW c \in Clients, NEW p \in Polls
             PROVE  Reached(c, poll[c][p].max)'
  BY DEF MaxListed
<1>1. /\ since[c] \in Nat /\ since'[c] \in Nat /\ since'[c] >= since[c]
      /\ poll[c][p].max \in Nat /\ poll'[c][p].max \in Nat
  BY CursorStep DEF TypeOK, Poll
<1>2. \A x \in IdsShown(c) : x \in Messages
  BY IdsAreMessages
<1>3. \A m \in Messages : TimesOf(m) \subseteq TimesOf(m)'
  BY TimesStay
<1>4. poll'[c][p].max = 0 \/ poll'[c][p].max = since[c] => Reached(c, poll[c][p].max)'
  BY <1>1 DEF Reached
<1>5. ASSUME IdsShown(c) \subseteq IdsShown(c)', poll'[c][p].max = poll[c][p].max
      PROVE  Reached(c, poll[c][p].max)'
  <2>1. Reached(c, poll[c][p].max)
    BY DEF MaxListed
  <2> QED
    BY <1>1, <1>2, <1>3, <1>5, <2>1 DEF Reached
<1>6. CASE Decrypted(c, p)
  <2>1. PICK m \in Messages, t \in Nat :
          /\ IdsShown(c)' = IdsShown(c) \cup {m}
          /\ poll'[c][p].max \in {0, t}
          /\ since'[c] = since[c] \/ (since'[c] = t /\ t >= since[c])
          /\ t <= since[c] \/ \E x \in IdsShown(c)' : t \in TimesOf(x)
    BY <1>6, DecryptedReach
  <2>2. \A x \in IdsShown(c)' : x \in Messages
    BY <1>2, <2>1
  <2> QED
    BY <1>1, <1>3, <2>1, <2>2 DEF Reached
<1>7. CASE Reload(c)
  BY <1>4, <1>7 DEF Reload, NoPoll, TypeOK
<1>8. CASE ~Reload(c) /\ ~Decrypted(c, p)
  <2>1. IdsShown(c) \subseteq IdsShown(c)'
    <3>1. ASSUME NEW r \in Polls, Decrypted(c, r)
          PROVE  IdsShown(c) \subseteq IdsShown(c)'
      BY <3>1, DecryptedReach
    <3> QED
      BY <1>8, <3>1, ListCursorEffect
  <2>2. poll'[c][p].max \in {0, since[c], poll[c][p].max}
    BY <1>8, PollEffect
  <2> QED
    BY <1>4, <1>5, <2>1, <2>2
<1> QED
  BY <1>6, <1>7, <1>8

\* Every step is a step of ChatReader for every client, or leaves its list and
\* cursor alone.
LEMMA ReaderStep ==
  ASSUME TypeOK, ReaderInv, [Next]_vars, NEW c \in Clients
  PROVE  [Reader(c)!Next]_<<IdsShown(c), since[c]>>
<1> DEFINE times == [m \in Messages |-> TimesOf(m)]
<1>1. ASSUME NEW m \in Messages, IdsShown(c)' = IdsShown(c) \cup {m},
             \/ since'[c] = since[c]
             \/ /\ since'[c] > since[c]
                /\ \E x \in IdsShown(c)' : x \in Messages /\ since'[c] \in TimesOf(x)
      PROVE  Reader(c)!Join
  BY <1>1 DEF Reader!Join, Reader!Times
<1>2. CASE IdsShown(c)' = {} /\ since'[c] = since[c]
  BY <1>2 DEF Reader!Leave, Reader!Next
<1>3. ASSUME NEW p \in Polls, Decrypted(c, p)
      PROVE  Reader(c)!Join
  <2>1. PICK m \in Messages, t \in Nat :
          /\ IdsShown(c)' = IdsShown(c) \cup {m}
          /\ since'[c] = since[c] \/ (since'[c] = t /\ t >= since[c])
          /\ t <= since[c] \/ \E x \in IdsShown(c)' : t \in TimesOf(x)
    BY <1>3, DecryptedReach DEF ReaderInv
  <2>2. since[c] \in Nat /\ \A x \in IdsShown(c)' : x \in Messages
    BY <2>1, IdsAreMessages DEF TypeOK
  <2> QED
    BY <1>1, <2>1, <2>2
<1> QED
  BY <1>1, <1>2, <1>3, ListCursorEffect DEF Reader!Next

\* Seen through overlapping polls, its own messages, reloads and every failure
\* of the network and the nodes, each client keeps the promise of ChatReader
\* (app.js:389-436): one message at a time joins its list, and the cursor moves
\* only then, forward, to the time of a message on the list.
THEOREM ReadersImplementChatReader == Spec => ReadersKeepPromise
<1>1. Init => \A c \in Clients : Reader(c)!Init
  BY DEF Init, Reader!Init, IdsShown
<1>2. Init => ReaderInv
  BY DEF Init, ReaderInv, UnsentUnasked, RowsStamped, ResultsStamped, MaxListed,
         Reached, NoPoll, NoRequest, NoSend
<1>3. TypeOK /\ TypeOK' /\ ReaderInv /\ [Next]_vars => ReaderInv'
  BY UnsentStep, RowsStampedStep, ResultsStampedStep, MaxListedStep DEF ReaderInv
<1>4. TypeOK /\ ReaderInv /\ [Next]_vars =>
        [\A c \in Clients : [Reader(c)!Next]_<<IdsShown(c), since[c]>>]_vars
  BY ReaderStep
<1> QED
  BY <1>1, <1>2, <1>3, <1>4, TypeCorrect, PTL DEF Spec, ReadersKeepPromise

=============================================================================
