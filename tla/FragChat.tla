------------------------------ MODULE FragChat ------------------------------
(***************************************************************************)
(* One chat of frag: clients that encrypt, split and post messages to the  *)
(* backend nodes of the chat (sendMessage), clients that poll the nodes    *)
(* and reassemble what they hold (pollChat), and the nodes in between.     *)
(*                                                                         *)
(* A step is what runs without giving up control: in app.js the code       *)
(* between two awaits, on a node the handler code between two accesses to  *)
(* the clock or to SQLite.  The network loses, delays and cuts requests as *)
(* the constant Faults allows.                                             *)
(***************************************************************************)
EXTENDS FragmentRows, Sequences

CONSTANTS
  Clients,      \* browsers that hold the chat's exported configuration
  Viewers,      \* the clients that have the chat open and so keep polling
  Nodes,        \* backend nodes
  Messages,     \* message ids (generateId)
  Author,       \* [Messages -> Clients]: who sends a message
  Ttl,          \* [Messages -> Nat]: the expiry picked by the author, 0 = none
  ChatServers,  \* the node behind each entry of the chat's server list
  ChatId,       \* the chat's id on the nodes
  Polls,        \* the invocations of pollChat a client can have in flight
  Faults,       \* the faults a run admits, a subset of FaultKinds
  MaxTime       \* bound on the nodes' clocks

FaultKinds ==
  { "down",      \* a node stops and comes back
    "late",      \* an answer comes after the client gave up on it
    "cut",       \* a connection ends in the middle of a request body
    "refuse",    \* a node that is up turns a request away: 401, 413 or 429
    "io",        \* a SQLite statement of a node fails
    "skew",      \* the nodes' clocks disagree
    "remove",    \* a client removes one of the chat's servers from its list
    "reload" }   \* a client reloads the page

\* Positions in the chat's server list (chat.serverIds).
Slots == 1 .. Len(ChatServers)

ASSUME ChatAssumption ==
  /\ ChatServers \in Seq(Nodes)
  /\ Viewers \subseteq Clients
  /\ Author \in [Messages -> Clients]
  /\ Ttl \in [Messages -> Nat]
  /\ Faults \subseteq FaultKinds
  /\ MaxTime \in Nat \ {0}

VARIABLES
  clock,   \* [Nodes -> Nat]: each node's system clock, whole seconds
  up,      \* [Nodes -> BOOLEAN]: does the node answer?
  rows,    \* [Nodes -> set of rows]: the fragments table of each node
  req,     \* [Messages -> [Slots -> Request]]: POST /api/fragments requests
  send,    \* [Messages -> Send]: the sendMessage invocation of a message
  kept,    \* [Clients -> SUBSET Slots]: the chat's servers still in the list
  since,   \* [Clients -> Nat]: chat.lastSince, kept in localStorage
  shown,   \* [Clients -> Seq(Entry)]: state.messages[chat.id]
  poll     \* [Clients -> [Polls -> Poll]]: pollChat invocations

nodeVars   == <<clock, up, rows>>
sendVars   == <<req, send>>
clientVars == <<kept, since, shown, poll>>
vars       == <<clock, up, rows, req, send, kept, since, shown, poll>>

-----------------------------------------------------------------------------
(***************************************************************************)
(* Data.  A chunk stands for one slice of one ciphertext: of message msg,  *)
(* slice part of of.  A chunk cut off by a broken connection is not whole. *)
(***************************************************************************)
Chunk == [msg : Messages, part : Nat, of : Nat, whole : BOOLEAN]

Fragment ==
  [id : Messages \X Nat, message_id : Messages, chat_id : {ChatId},
   payload : Chunk, timestamp : Nat, ttl : Nat]

\* "partial" is the status of a message some of whose posts failed.
Entry ==
  [id : Messages, text : {"plain", "[decryption failed]"},
   status : {"sent", "partial", "received"}]

\* What arrived of a request's body: all of it, all but the trailing ttl, or
\* less than the payload.
Arrivals == {"all", "payload", "less"}

Request ==
  [stage : {"none", "sent", "stamped", "stored", "rejected"},
   stamp : Nat, got : Arrivals]

Send ==
  [stage : {"unsent", "posting", "done"}, servers : SUBSET Slots,
   acked : SUBSET Slots, failed : SUBSET Slots]

Poll ==
  [stage : {"idle", "importing", "fetching", "decrypting"},
   servers : SUBSET Slots, since : Nat, awaiting : SUBSET Slots,
   results : [Slots -> SUBSET Fragment], todo : SUBSET Messages, max : Nat]

NoRequest == [stage |-> "none", stamp |-> 0, got |-> "all"]

NoSend ==
  [stage |-> "unsent", servers |-> {}, acked |-> {}, failed |-> {}]

NoPoll ==
  [stage |-> "idle", servers |-> {}, since |-> 0, awaiting |-> {},
   results |-> [k \in Slots |-> {}], todo |-> {}, max |-> 0]

\* The index of slot k among the servers K, counted from 1.
Rank(K, k) == Cardinality({ j \in K : j <= k })

\* What splitPayload hands to slot k when the ciphertext is split over K.
ChunkFor(m, K, k) ==
  [msg |-> m, part |-> Rank(K, k), of |-> Cardinality(K), whole |-> TRUE]

\* The row the node of slot k makes of the request for message m.
FragmentOf(m, k) ==
  [id |-> <<m, Rank(send[m].servers, k)>>, message_id |-> m,
   chat_id |-> ChatId,
   payload |-> [ChunkFor(m, send[m].servers, k)
                  EXCEPT !.whole = req[m][k].got # "less"],
   timestamp |-> req[m][k].stamp,
   ttl |-> IF req[m][k].got = "all" THEN Ttl[m] ELSE 0]

IdsShown(c) == { shown[c][i].id : i \in DOMAIN shown[c] }

-----------------------------------------------------------------------------
(***************************************************************************)
(* The nodes.                                                              *)
(***************************************************************************)
\* A second passes: on every node at once, or on one alone under "skew".
Tick ==
  /\ \E N \in (IF "skew" \in Faults THEN { {n} : n \in Nodes } ELSE {Nodes}) :
       /\ \A n \in N : clock[n] < MaxTime
       /\ clock' = [n \in Nodes |-> IF n \in N THEN clock[n] + 1 ELSE clock[n]]
  /\ UNCHANGED <<up, rows, sendVars, clientVars>>

\* The node's process ends.  The table survives, handlers in progress do not.
\* A request still on its way is refused (RejectPost) or comes after a restart.
NodeDown(n) ==
  /\ "down" \in Faults
  /\ up[n]
  /\ up' = [up EXCEPT ![n] = FALSE]
  /\ req' = [m \in Messages |-> [k \in Slots |->
               IF ChatServers[k] = n /\ req[m][k].stage = "stamped"
               THEN [req[m][k] EXCEPT !.stage = "rejected"]
               ELSE req[m][k]]]
  /\ UNCHANGED <<clock, rows, send, clientVars>>

NodeUp(n) ==
  /\ ~up[n]
  /\ up' = [up EXCEPT ![n] = TRUE]
  /\ UNCHANGED <<clock, rows, sendVars, clientVars>>

\* The handler has read the body and takes the time.  When the connection
\* ended or stalled early it goes on with the part of the body that arrived.
HandlePost(m, k) ==
  /\ req[m][k].stage = "sent"
  /\ up[ChatServers[k]]
  /\ \E got \in (IF "cut" \in Faults THEN Arrivals ELSE {"all"}) :
       req' = [req EXCEPT ![m][k] =
                 [stage |-> "stamped", stamp |-> clock[ChatServers[k]],
                  got |-> got]]
  /\ UNCHANGED <<nodeVars, send, clientVars>>

\* The connection or the request is refused, a cut left the body without a
\* payload (400), or the INSERT throws (500).
RejectPost(m, k) ==
  /\ \/ /\ req[m][k].stage = "sent"
        /\ ~up[ChatServers[k]] \/ {"cut", "refuse"} \cap Faults # {}
     \/ req[m][k].stage = "stamped" /\ "io" \in Faults
  /\ req' = [req EXCEPT ![m][k].stage = "rejected"]
  /\ UNCHANGED <<nodeVars, send, clientVars>>

\* The handler runs INSERT OR IGNORE and answers.
InsertPost(m, k) ==
  /\ req[m][k].stage = "stamped"
  /\ rows' = [rows EXCEPT ![ChatServers[k]] =
                InsertOrIgnore(@, FragmentOf(m, k))]
  /\ req' = [req EXCEPT ![m][k].stage = "stored"]
  /\ UNCHANGED <<clock, up, send, clientVars>>

\* A slip in the cleanup: ttl = 0 taken for "expires at once".
PurgeIgnoringZero(n) ==
  /\ up[n]
  /\ \E t \in 1 .. clock[n] :
       /\ ExpiredIgnoringZero(rows[n], t) # {}
       /\ rows' = [rows EXCEPT ![n] = @ \ ExpiredIgnoringZero(@, t)]
  /\ UNCHANGED <<clock, up, sendVars, clientVars>>

\* The cleanup thread deletes what had expired when it read the clock, which
\* may have been a while ago.
Purge(n) ==
  /\ up[n]
  /\ \E t \in 1 .. clock[n] :
       /\ Expired(rows[n], t) # {}
       /\ rows' = [rows EXCEPT ![n] = @ \ Expired(@, t)]
  /\ UNCHANGED <<clock, up, sendVars, clientVars>>

-----------------------------------------------------------------------------
(***************************************************************************)
(* Sending: sendMessage.                                                   *)
(***************************************************************************)
\* Encrypt, split over the servers known at the call, and post every chunk.  A
\* post that leaves later, after the awaits, is one longer on its way.
StartSend(m) ==
  LET K == kept[Author[m]] IN
  /\ send[m].stage = "unsent"
  /\ K # {}
  /\ send' = [send EXCEPT ![m].stage = "posting", ![m].servers = K]
  /\ req' = [req EXCEPT ![m] = [k \in Slots |->
               IF k \in K THEN [NoRequest EXCEPT !.stage = "sent"]
               ELSE NoRequest]]
  /\ UNCHANGED <<nodeVars, clientVars>>

Unsettled(m) == send[m].servers \ (send[m].acked \cup send[m].failed)

\* postFragment resolves: the node answered 200 or 201.
AckPost(m, k) ==
  /\ send[m].stage = "posting"
  /\ k \in Unsettled(m)
  /\ req[m][k].stage = "stored"
  /\ up[ChatServers[k]]
  /\ send' = [send EXCEPT ![m].acked = @ \cup {k}]
  /\ UNCHANGED <<nodeVars, req, clientVars>>

\* postFragment rejects: refused or reset, or given up on after TIMEOUT_MS
\* while the request is still on its way or in the handler.
FailPost(m, k) ==
  /\ send[m].stage = "posting"
  /\ k \in Unsettled(m)
  /\ \/ req[m][k].stage = "rejected"
     \/ req[m][k].stage = "stored" /\ ~up[ChatServers[k]]
     \/ /\ "late" \in Faults
        /\ req[m][k].stage = "sent" => up[ChatServers[k]]
  /\ send' = [send EXCEPT ![m].failed = @ \cup {k}]
  /\ UNCHANGED <<nodeVars, req, clientVars>>

\* A slip in the status: one stored fragment taken for success.
FinishSendIfAnyStored(m) ==
  LET status == IF send[m].acked = {} THEN "partial" ELSE "sent"
  IN
  /\ send[m].stage = "posting"
  /\ Unsettled(m) = {}
  /\ send' = [send EXCEPT ![m].stage = "done"]
  /\ shown' = [shown EXCEPT ![Author[m]] =
                 Append(@, [id |-> m, text |-> "plain", status |-> status])]
  /\ UNCHANGED <<nodeVars, req, kept, since, poll>>

\* All posts have settled: the author's own list gets the message.
FinishSend(m) ==
  LET status == IF send[m].failed = {} THEN "sent" ELSE "partial"
  IN
  /\ send[m].stage = "posting"
  /\ Unsettled(m) = {}
  /\ send' = [send EXCEPT ![m].stage = "done"]
  /\ shown' = [shown EXCEPT ![Author[m]] =
                 Append(@, [id |-> m, text |-> "plain", status |-> status])]
  /\ UNCHANGED <<nodeVars, req, kept, since, poll>>

-----------------------------------------------------------------------------
(***************************************************************************)
(* Receiving: pollChat.                                                    *)
(***************************************************************************)
\* A poll starts over the servers known now and awaits the import of the key.
StartPoll(c, p) ==
  /\ c \in Viewers
  /\ poll[c][p].stage = "idle"
  /\ kept[c] # {}
  /\ poll' = [poll EXCEPT ![c][p] =
                [NoPoll EXCEPT !.stage = "importing", !.servers = kept[c]]]
  /\ UNCHANGED <<nodeVars, sendVars, kept, since, shown>>

\* The key is there: it fetches from each of them, from the cursor as it is now.
KeyImported(c, p) ==
  LET q == poll[c][p] IN
  /\ q.stage = "importing"
  /\ poll' = [poll EXCEPT ![c][p] =
                [q EXCEPT !.stage = "fetching", !.since = since[c],
                          !.awaiting = q.servers]]
  /\ UNCHANGED <<nodeVars, sendVars, kept, since, shown>>

\* What node n may answer when asked for the fragments newer than t: all of
\* them, oldest first, or as many as it read before the scan failed (200).
Answers(n, t) ==
  LET all == SelectSince(rows[n], ChatId, t) IN
  IF "io" \in Faults
  THEN { some \in SUBSET all :
           \A f \in some, g \in all \ some : f.timestamp <= g.timestamp }
  ELSE {all}

\* A slip in the fetch: answers filed in the order they arrive.
FetchReplyInArrivalOrder(c, p, k) ==
  LET q == poll[c][p]
      i == Cardinality(q.servers \ q.awaiting) + 1
  IN
  /\ q.stage = "fetching"
  /\ k \in q.awaiting
  /\ up[ChatServers[k]]
  /\ \E got \in Answers(ChatServers[k], q.since) :
       poll' = [poll EXCEPT ![c][p].awaiting = @ \ {k},
                            ![c][p].results[i] = got]
  /\ UNCHANGED <<nodeVars, sendVars, kept, since, shown>>

\* The node of slot k answers with the fragments newer than the cursor.
FetchReply(c, p, k) ==
  LET q == poll[c][p] IN
  /\ q.stage = "fetching"
  /\ k \in q.awaiting
  /\ up[ChatServers[k]]
  /\ \E got \in Answers(ChatServers[k], q.since) :
       poll' = [poll EXCEPT ![c][p].awaiting = @ \ {k},
                            ![c][p].results[k] = got]
  /\ UNCHANGED <<nodeVars, sendVars, kept, since, shown>>

\* A slip in the fetch: the error of a failed one is kept as its answer.
FetchFailKeepingError(c, p, k) ==
  LET q == poll[c][p] IN
  /\ q.stage = "fetching"
  /\ k \in q.awaiting
  /\ ~up[ChatServers[k]] \/ {"late", "refuse", "io"} \cap Faults # {}
  /\ poll' = [poll EXCEPT ![c][p].awaiting = @ \ {k},
                          ![c][p].results[k] = { [error |-> "HTTP 500"] }]
  /\ UNCHANGED <<nodeVars, sendVars, kept, since, shown>>

\* A fetch that fails, is refused or times out counts as an empty answer.
FetchFail(c, p, k) ==
  LET q == poll[c][p] IN
  /\ q.stage = "fetching"
  /\ k \in q.awaiting
  /\ ~up[ChatServers[k]] \/ {"late", "refuse", "io"} \cap Faults # {}
  /\ poll' = [poll EXCEPT ![c][p].awaiting = @ \ {k}]
  /\ UNCHANGED <<nodeVars, sendVars, kept, since, shown>>

FragmentsAt(q, m, k) == { f \in q.results[k] : f.message_id = m }

\* The messages of which every server of the poll returned a fragment.
Complete(q) ==
  { m \in Messages : \A k \in q.servers : FragmentsAt(q, m, k) # {} }

\* A slip in the selection: nothing checks what is displayed already.
AssembleWithRepeats(c, p) ==
  LET q == poll[c][p]
      todo == Complete(q)
  IN
  /\ q.stage = "fetching"
  /\ q.awaiting = {}
  /\ poll' = [poll EXCEPT ![c][p] =
                IF todo = {} THEN NoPoll
                ELSE [q EXCEPT !.stage = "decrypting", !.todo = todo,
                               !.max = since[c]]]
  /\ UNCHANGED <<nodeVars, sendVars, kept, since, shown>>

\* A slip in the poll: one that found nothing new is never over.
AssembleWithoutEnd(c, p) ==
  LET q == poll[c][p]
      todo == Complete(q) \ IdsShown(c)
  IN
  /\ q.stage = "fetching"
  /\ q.awaiting = {}
  /\ todo # {}
  /\ poll' = [poll EXCEPT ![c][p] =
                [q EXCEPT !.stage = "decrypting", !.todo = todo,
                          !.max = since[c]]]
  /\ UNCHANGED <<nodeVars, sendVars, kept, since, shown>>

\* A slip in the cursor: it moves over whatever was fetched, complete or not.
AssembleCountingIncomplete(c, p) ==
  LET q == poll[c][p]
      todo == Complete(q) \ IdsShown(c)
      seen == { f.timestamp : f \in UNION { q.results[k] : k \in q.servers } }
      max == CHOOSE t \in seen \cup {since[c]} :
               \A u \in seen \cup {since[c]} : u <= t
  IN
  /\ q.stage = "fetching"
  /\ q.awaiting = {}
  /\ poll' = [poll EXCEPT ![c][p] =
                IF todo = {} THEN NoPoll
                ELSE [q EXCEPT !.stage = "decrypting", !.todo = todo,
                               !.max = max]]
  /\ UNCHANGED <<nodeVars, sendVars, kept, since, shown>>

\* All fetches have settled: the complete messages not displayed yet are
\* taken up.  Without any the poll is over.
Assemble(c, p) ==
  LET q == poll[c][p]
      todo == Complete(q) \ IdsShown(c)
  IN
  /\ q.stage = "fetching"
  /\ q.awaiting = {}
  /\ poll' = [poll EXCEPT ![c][p] =
                IF todo = {} THEN NoPoll
                ELSE [q EXCEPT !.stage = "decrypting", !.todo = todo,
                               !.max = since[c]]]
  /\ UNCHANGED <<nodeVars, sendVars, kept, since, shown>>

Lowest(K) == { k \in K : \A j \in K : k <= j }

\* The fragment of m a poll comes across first: it gives the message its
\* timestamp.  Answers are read in server order, each oldest fragment first.
FirstOf(q, m) ==
  { f \in UNION { FragmentsAt(q, m, k) : k \in Lowest(q.servers) } :
      \A g \in UNION { FragmentsAt(q, m, k) : k \in Lowest(q.servers) } :
        f.timestamp <= g.timestamp }

\* The fragment of m that slot k ends up with: a later one replaces it.
LastOf(q, m, k) ==
  { f \in FragmentsAt(q, m, k) :
      \A g \in FragmentsAt(q, m, k) : g.timestamp <= f.timestamp }

\* What decrypting the joined payloads gives: AES-GCM accepts exactly the
\* ciphertext that was encrypted.
Readings(q, m) ==
  { text \in {"plain", "[decryption failed]"} :
      IF text = "plain"
      THEN \A k \in q.servers : \E f \in LastOf(q, m, k) :
             f.payload = ChunkFor(m, q.servers, k)
      ELSE \E k \in q.servers : \E f \in LastOf(q, m, k) :
             f.payload # ChunkFor(m, q.servers, k) }

\* A slip at the end of a poll: the cursor is set without comparing.
DecryptedThenSetCursor(c, p) ==
  LET q == poll[c][p] IN
  /\ q.stage = "decrypting"
  /\ \E m \in q.todo : \E f \in FirstOf(q, m), text \in Readings(q, m) :
       LET max == IF f.timestamp > q.max THEN f.timestamp ELSE q.max IN
       /\ \A n \in q.todo : \A g \in FirstOf(q, n) : f.timestamp <= g.timestamp
       /\ shown' = [shown EXCEPT ![c] =
                      Append(@, [id |-> m, text |-> text,
                                 status |-> "received"])]
       /\ IF q.todo = {m}
          THEN /\ poll' = [poll EXCEPT ![c][p] = NoPoll]
               /\ since' = [since EXCEPT ![c] = max]
          ELSE /\ poll' = [poll EXCEPT ![c][p].todo = @ \ {m},
                                       ![c][p].max = max]
               /\ since' = since
  /\ UNCHANGED <<nodeVars, sendVars, kept>>

\* One message is decrypted and appended.  After the last one the cursor moves
\* to the newest timestamp, unless another poll moved it further meanwhile.
Decrypted(c, p) ==
  LET q == poll[c][p] IN
  /\ q.stage = "decrypting"
  /\ \E m \in q.todo : \E f \in FirstOf(q, m), text \in Readings(q, m) :
       LET max == IF f.timestamp > q.max THEN f.timestamp ELSE q.max IN
       /\ \A n \in q.todo : \A g \in FirstOf(q, n) : f.timestamp <= g.timestamp
       /\ shown' = [shown EXCEPT ![c] =
                      Append(@, [id |-> m, text |-> text,
                                 status |-> "received"])]
       /\ IF q.todo = {m}
          THEN /\ poll' = [poll EXCEPT ![c][p] = NoPoll]
               /\ since' = [since EXCEPT ![c] = IF max > @ THEN max ELSE @]
          ELSE /\ poll' = [poll EXCEPT ![c][p].todo = @ \ {m},
                                       ![c][p].max = max]
               /\ since' = since
  /\ UNCHANGED <<nodeVars, sendVars, kept>>

-----------------------------------------------------------------------------
(***************************************************************************)
(* The user.                                                               *)
(***************************************************************************)
\* removeServer: the chat's list keeps the entry, every use filters it out.
RemoveServer(c, k) ==
  /\ "remove" \in Faults
  /\ k \in kept[c]
  /\ kept' = [kept EXCEPT ![c] = @ \ {k}]
  /\ UNCHANGED <<nodeVars, sendVars, since, shown, poll>>

\* The page is loaded again: localStorage (servers, cursor) survives, memory
\* (messages, invocations in progress) does not.
Reload(c) ==
  /\ "reload" \in Faults
  /\ shown' = [shown EXCEPT ![c] = << >>]
  /\ poll' = [poll EXCEPT ![c] = [p \in Polls |-> NoPoll]]
  /\ send' = [m \in Messages |->
                IF Author[m] = c /\ send[m].stage = "posting"
                THEN [send[m] EXCEPT !.stage = "done"]
                ELSE send[m]]
  /\ UNCHANGED <<nodeVars, req, kept, since>>

-----------------------------------------------------------------------------
Init ==
  /\ clock = [n \in Nodes |-> 1]
  /\ up = [n \in Nodes |-> TRUE]
  /\ rows = [n \in Nodes |-> {}]
  /\ req = [m \in Messages |-> [k \in Slots |-> NoRequest]]
  /\ send = [m \in Messages |-> NoSend]
  /\ kept = [c \in Clients |-> Slots]
  /\ since = [c \in Clients |-> 0]
  /\ shown = [c \in Clients |-> << >>]
  /\ poll = [c \in Clients |-> [p \in Polls |-> NoPoll]]

NodeNext ==
  \/ Tick
  \/ \E n \in Nodes : NodeDown(n) \/ NodeUp(n) \/ Purge(n)

SendNext ==
  \E m \in Messages :
    \/ StartSend(m)
    \/ FinishSend(m)
    \/ \E k \in Slots :
         \/ HandlePost(m, k)
         \/ RejectPost(m, k)
         \/ InsertPost(m, k)
         \/ AckPost(m, k)
         \/ FailPost(m, k)

PollNext ==
  \E c \in Clients, p \in Polls :
    \/ StartPoll(c, p)
    \/ KeyImported(c, p)
    \/ Assemble(c, p)
    \/ Decrypted(c, p)
    \/ \E k \in Slots : FetchReply(c, p, k) \/ FetchFail(c, p, k)

UserNext ==
  \E c \in Clients :
    \/ Reload(c)
    \/ \E k \in Slots : RemoveServer(c, k)

Next == NodeNext \/ SendNext \/ PollNext \/ UserNext

Spec == Init /\ [][Next]_vars

(***************************************************************************)
(* Fairness: setInterval keeps starting polls, keys are imported, a node   *)
(* that is up answers, one that is down makes the fetch fail, and the      *)
(* event loop resumes what has settled.  Nothing is assumed of users,      *)
(* clocks, failures or senders.                                            *)
(***************************************************************************)
Fairness ==
  \A c \in Viewers, p \in Polls :
    /\ WF_vars(StartPoll(c, p))
    /\ WF_vars(KeyImported(c, p))
    /\ \A k \in Slots : WF_vars(FetchReply(c, p, k) \/ FetchFail(c, p, k))
    /\ WF_vars(Assemble(c, p))
    /\ WF_vars(Decrypted(c, p))

FairSpec == Spec /\ Fairness

-----------------------------------------------------------------------------
(***************************************************************************)
(* Properties.                                                             *)
(***************************************************************************)
\* The state has the shape described above (the maps and records of app.js and
\* the schema of database.cpp).
TypeOK ==
  /\ clock \in [Nodes -> Nat]
  /\ up \in [Nodes -> BOOLEAN]
  /\ rows \in [Nodes -> SUBSET Fragment]
  /\ req \in [Messages -> [Slots -> Request]]
  /\ send \in [Messages -> Send]
  /\ kept \in [Clients -> SUBSET Slots]
  /\ since \in [Clients -> Nat]
  /\ shown \in [Clients -> Seq(Entry)]
  /\ poll \in [Clients -> [Polls -> Poll]]

\* Two entries of the chat's server list never share a node.
DistinctNodes ==
  \A j, k \in Slots : ChatServers[j] = ChatServers[k] => j = k

\* With one node per entry, bodies that arrive whole and an untouched server
\* list, no interleaving of posts, polls, failures and expiry makes pollChat
\* put a message together wrongly (app.js:402-415).
NeverGarbled ==
  \A c \in Clients : \A i \in DOMAIN shown[c] : shown[c][i].text = "plain"

\* With one node per entry and under any fault, a message shows as "[decryption
\* failed]" only if a server was removed from the list it was split over or is
\* joined from, or a connection ended within its payload; not because of the
\* order of answers, of failures, of late posts or of a reload (app.js:357-412).
GarbledOnlyByLoss ==
  \A c \in Clients : \A i \in DOMAIN shown[c] :
    LET m == shown[c][i].id IN
    shown[c][i].text # "plain" =>
      \/ kept[c] # Slots \/ send[m].servers # Slots
      \/ \E k \in Slots : req[m][k].got = "less"

\* app.js:395, "already displayed": pollChat lists a message it received once.
ReceivedOnce ==
  \A c \in Clients : \A i, j \in DOMAIN shown[c] :
    /\ shown[c][i].status = "received"
    /\ shown[c][j].status = "received"
    /\ shown[c][i].id = shown[c][j].id
    => i = j

\* No client has two polls of the chat between taking up messages and listing
\* the last of them.
LoopsApart ==
  \A c \in Clients : \A p, q \in Polls :
    poll[c][p].stage = "decrypting" /\ poll[c][q].stage = "decrypting" => p = q

\* A message received is listed once, however the fetches of polls overlap and
\* posts and failures fall in between, as long as no two polls of a client
\* decrypt at once: the displayed ids are taken after the last await before the
\* loop (app.js:389-396).
OnceIfLoopsApart == []LoopsApart => []ReceivedOnce

Stored(m, k) ==
  \E r \in rows[ChatServers[k]] : r.id = <<m, Rank(send[m].servers, k)>>

\* Status "sent" is the truth: every server the message was split over holds
\* its fragment, for good when the message has no ttl (app.js:322-336).
SentIsStored ==
  \A c \in Clients : \A i \in DOMAIN shown[c] :
    LET m == shown[c][i].id IN
    shown[c][i].status = "sent" /\ Ttl[m] = 0 =>
      \A k \in send[m].servers : Stored(m, k)

StoredEverywhere(m) == \A k \in Slots : req[m][k].stage = "stored"

\* The cursor rests on a message that had reached every server: what pollChat
\* skips as incomplete does not move it (app.js:396, 430).
CursorOnComplete ==
  \A c \in Clients :
    since[c] # 0 =>
      \E m \in Messages :
        /\ StoredEverywhere(m)
        /\ \E k \in Lowest(Slots) : since[c] = req[m][k].stamp

\* Whatever order overlapping polls end in, the cursor kept in localStorage
\* does not move back (app.js:433).
CursorNeverRetreats ==
  [][\A c \in Clients : since'[c] >= since[c]]_vars

\* Each node, seen through the posts, cleanups and crashes of the chat, keeps
\* the promise of FragmentRegistry (clients never ask for a deletion).  This is
\* Registry(n)!Spec of every n, as one action formula.
Registry(n) ==
  INSTANCE FragmentRegistry
    WITH table <- rows[n], now <- clock[n], asked <- {}

NodesKeepPromise ==
  /\ \A n \in Nodes : Registry(n)!Init
  /\ [][\A n \in Nodes : [Registry(n)!Next]_<<rows[n], clock[n]>>]_vars

\* The times under which nodes have stored m.
TimesOf(m) ==
  { req[m][k].stamp : k \in { j \in Slots : req[m][j].stage = "stored" } }

\* Each client, seen through its overlapping polls, its own messages, reloads
\* and every failure of the network and the nodes, keeps the promise of
\* ChatReader (app.js:389-436): what decryptions list between two awaits and
\* what the cursor is set to after them stay in step.  This is Reader(c)!Spec of
\* every c, as one action formula.
Reader(c) ==
  INSTANCE ChatReader
    WITH listed <- IdsShown(c), cursor <- since[c],
         times <- [m \in Messages |-> TimesOf(m)]

ReadersKeepPromise ==
  /\ \A c \in Clients : Reader(c)!Init
  /\ [][\A c \in Clients : [Reader(c)!Next]_<<IdsShown(c), since[c]>>]_vars

\* The cursor of c no longer lets m through at every server.
Overtaken(c, m) == \E k \in Slots : since[c] >= req[m][k].stamp

\* When the nodes stay up from some point on, a message without ttl that
\* reached every server is displayed by every client that polls, unless its
\* cursor has moved over the message (app.js:366, 433; database.cpp:87).
StoredIsShownOrOvertaken ==
  (\A n \in Nodes : <>[]up[n]) =>
    \A c \in Viewers, m \in Messages :
      (StoredEverywhere(m) /\ Ttl[m] = 0)
        ~> (m \in IdsShown(c) \/ Overtaken(c, m))

-----------------------------------------------------------------------------
(***************************************************************************)
(* What the documents and comments of the repository say beyond that.      *)
(***************************************************************************)
BeingRead(c, m) == \E p \in Polls : m \in poll[c][p].todo

\* TECHNICAL_GUIDE.md:229, "re-fetched from servers on page reload": a message
\* stored everywhere is on the list of a page, being read, or within the reach
\* of its next polls.
RefetchedAfterReload ==
  \A c \in Viewers, m \in Messages :
    StoredEverywhere(m) /\ Overtaken(c, m) =>
      m \in IdsShown(c) \/ BeingRead(c, m)

\* A poll of c, its answers complete, holds a part of m.
Skipped(c, m) ==
  \E p \in Polls :
    /\ poll[c][p].stage = "fetching"
    /\ poll[c][p].awaiting = {}
    /\ m \notin Complete(poll[c][p])
    /\ \E k \in poll[c][p].servers : FragmentsAt(poll[c][p], m, k) # {}

\* TECHNICAL_GUIDE.md:209: a message with a slot missing is skipped until the
\* server is there, and so displayed once every server has its fragment.
SkippedOnlyUntilThere ==
  (\A n \in Nodes : <>[]up[n]) =>
    \A c \in Viewers, m \in Messages :
      [](Skipped(c, m) => [](StoredEverywhere(m) => <>(m \in IdsShown(c))))

\* TECHNICAL_GUIDE.md:209: a message one of whose servers is missing is
\* skipped, so nothing is displayed that could not be decrypted.
MissingServerSkips ==
  \A c \in Clients : \A i \in DOMAIN shown[c] :
    shown[c][i].text # "[decryption failed]"

\* app.js:342, "All servers failed - message not sent": no server holds a
\* fragment of a message whose posts all failed.
AllFailedIsNotSent ==
  \A m \in Messages :
    /\ send[m].stage = "done"
    /\ send[m].servers # {}
    /\ send[m].failed = send[m].servers
    => \A k \in send[m].servers : ~Stored(m, k)

\* TECHNICAL_GUIDE.md:80-81: incomplete requests are refused and stalled
\* connections dropped, so no fragment is stored from part of its body.
OnlyWholeBodiesStored ==
  \A n \in Nodes : \A r \in rows[n] :
    r.payload.whole /\ r.ttl = Ttl[r.message_id]

=============================================================================
