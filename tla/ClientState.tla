----------------------------- MODULE ClientState -----------------------------
(***************************************************************************)
(* A browser tab with several chats (frontend/js/app.js and ui.js): the    *)
(* chats and what of them is saved, the open chat and what is shown of it, *)
(* unread counts, the polling timer, and what goes on at awaits while the  *)
(* user opens and removes chats.                                           *)
(*                                                                         *)
(* FragChat says which messages a poll finds complete; here any of those   *)
(* behind the cursor may be.  Message lists are sets.                      *)
(***************************************************************************)
EXTENDS PayloadSplit, FiniteSets

CONSTANTS
  Chats,       \* ids of the chats this browser will ever have
  NoChat,      \* null
  Messages,
  Mine,        \* those written in this tab
  ChatOf,      \* [Messages -> Chats]
  Time,        \* [Messages -> times]
  Servers,     \* [Chats -> sets of numbers]: how many of a chat's servers may
               \* be known when a message is sent
  BadKeys,     \* chats whose imported key is none: importKey rejects
  Lengths,     \* lengths of encrypted messages
  Rounds,      \* bound on overlapping rounds of polls
  Stalls       \* may the body of an answer stall?

ASSUME ClientAssumption ==
  /\ NoChat \notin Chats
  /\ IsFiniteSet(Messages)
  /\ Mine \subseteq Messages
  /\ \A m \in Messages : ChatOf[m] \in Chats /\ Time[m] \in Nat \ {0}
  /\ \A c \in Chats : Servers[c] \subseteq Nat \ {0}
  /\ BadKeys \subseteq Chats
  /\ Lengths \subseteq { length \in Nat : length >= ShortestPayload }
  /\ Stalls \in BOOLEAN

VARIABLES
  saved,      \* localStorage "chats": [chats -> cursor]
  chats,      \* state.chats, a set of ids
  cursor,     \* [Chats -> chat.lastSince]
  list,       \* state.messages, [Chats -> sets of messages]
  unread,     \* state.unreadCounts
  active,     \* state.activeChatId
  timer,      \* is pollTimer set?
  view,       \* the messages in #message-list
  round,      \* [Rounds -> [kind, poll]]: a poll of each chat
  send,       \* the invocation of sendMessage, one at a time
  stalled,    \* observed: does openChat await an answer that stalls?
  removed,    \* observed: the chats the user has removed
  seen,       \* observed: the messages of others put into #message-list since
              \* the page was loaded
  left,       \* observed: the chats left while a poll took them for the open
              \* one, until they are opened again
  listed,     \* observed: the messages ever listed, in any life of the page
  posted      \* observed: those of Mine ever posted

vars == <<saved, chats, cursor, list, unread, active, timer, view, round, send,
          stalled, removed, seen, left, listed, posted>>

Of(c) == { m \in Messages : ChatOf[m] = c }

MaxOf(a, b) == IF a >= b THEN a ELSE b

\* saveChats.
Saved(cs, cur) == [ c \in cs |-> cur[c] ]

\* newCount is the number of the messages in fresh.
IdlePoll == [pc |-> "idle", since |-> 0, todo |-> {}, isActive |-> FALSE,
             max |-> 0, fresh |-> {}]

Fetching(since) == [IdlePoll EXCEPT !.pc = "fetching", !.since = since]

\* A poll of c that begins, awaiting the key.  Where it is good the nodes are
\* asked once it is imported; a cursor read earlier is no larger, so that the
\* answers to a later one are among those allowed.
Begun(c) == IF c \in BadKeys THEN [IdlePoll EXCEPT !.pc = "importing"]
            ELSE Fetching(cursor[c])

IdleRound == [kind |-> "none", poll |-> [c \in Chats |-> IdlePoll]]

IdleSend == [pc |-> "idle", chat |-> NoChat, msg |-> {}, servers |-> 1,
             length |-> 0, chunks |-> << >>]

Free(r) == round[r].kind = "none"

\* A round in which c is polled: what it is after the poll became p.  It is
\* over with the last of its polls.
After(r, c, p) ==
  LET polls == [round[r].poll EXCEPT ![c] = p] IN
  IF \A d \in Chats : polls[d].pc = "idle" THEN IdleRound
  ELSE [round[r] EXCEPT !.poll = polls]

-----------------------------------------------------------------------------
(***************************************************************************)
(* The user's chats.                                                       *)
(***************************************************************************)
\* createChat and importChat; the id is new.
CreateChat(c) ==
  /\ c \notin chats \cup removed
  /\ chats' = chats \cup {c}
  /\ saved' = Saved(chats', cursor)
  /\ UNCHANGED <<cursor, list, unread, active, timer, view, round, send,
                 stalled, removed, left, seen, listed, posted>>

\* A slip in removeChat: the removed chat stays the open one.
RemoveKeepsActive(c) ==
  /\ active = c
  /\ chats' = chats \ {c}
  /\ list' = [list EXCEPT ![c] = {}]
  /\ saved' = Saved(chats', cursor)
  /\ removed' = removed \cup {c}
  /\ UNCHANGED <<cursor, unread, active, timer, view, round, send, stalled,
                 left, seen, listed, posted>>

\* A slip in removeChat: what is saved is left as it is.
RemoveWithoutSave(c) ==
  /\ active = c
  /\ chats' = chats \ {c}
  /\ list' = [list EXCEPT ![c] = {}]
  /\ active' = NoChat
  /\ removed' = removed \cup {c}
  /\ UNCHANGED <<saved, cursor, unread, timer, view, round, send, stalled,
                 left, seen, listed, posted>>

\* removeChat: the button is that of the open chat, whose view is then hidden.
RemoveChat(c) ==
  /\ active = c
  /\ chats' = chats \ {c}
  /\ list' = [list EXCEPT ![c] = {}]
  /\ active' = NoChat
  /\ saved' = Saved(chats', cursor)
  /\ removed' = removed \cup {c}
  /\ UNCHANGED <<cursor, unread, timer, view, round, send, stalled, left,
                 seen, listed, posted>>

\* The open chat, if a poll has noted that it is the open one.
Behind ==
  { d \in Chats : d = active /\ \E r \in Rounds : round[r].poll[d].isActive }

\* openChat to its await: the chat becomes the open one and is shown, polling
\* stops and the chat is polled.
OpenChat(c, r) ==
  /\ c \in chats
  /\ Free(r)
  /\ active' = c
  /\ unread' = [unread EXCEPT ![c] = 0]
  /\ view' = list[c]
  /\ seen' = seen \cup (list[c] \ Mine)
  /\ left' = (left \cup Behind) \ {c}
  /\ timer' = FALSE
  /\ round' = [round EXCEPT ![r] =
       [IdleRound EXCEPT !.kind = "open", !.poll[c] = Begun(c)]]
  /\ stalled' = FALSE
  /\ UNCHANGED <<saved, chats, cursor, list, send, removed, listed, posted>>

\* The page is loaded again: what was in memory is lost (init).
Reload ==
  /\ chats' = DOMAIN saved
  /\ cursor' = [c \in Chats |-> IF c \in DOMAIN saved THEN saved[c] ELSE 0]
  /\ list' = [c \in Chats |-> {}]
  /\ unread' = [c \in Chats |-> 0]
  /\ active' = NoChat
  /\ timer' = FALSE
  /\ view' = {}
  /\ round' = [r \in Rounds |-> IdleRound]
  /\ send' = IdleSend
  /\ stalled' = FALSE
  /\ left' = {}
  /\ seen' = {}
  /\ UNCHANGED <<saved, removed, listed, posted>>

-----------------------------------------------------------------------------
(***************************************************************************)
(* Listing a message.                                                      *)
(***************************************************************************)
\* A slip in the listener of ui.js: it shows messages of any chat.
ShowsAny(c, m) == view \cup {m}

\* The listener of "message" in ui.js: it shows those of the open chat.
Shows(c, m) == IF c = active THEN view \cup {m} ELSE view

\* A message is appended to the list of c, which a chat that was removed gets
\* anew, and announced.
ListAndEmit(c, m) ==
  /\ list' = [list EXCEPT ![c] = @ \cup {m}]
  /\ listed' = listed \cup {m}
  /\ view' = Shows(c, m)
  /\ seen' = seen \cup (IF c = active THEN {m} \ Mine ELSE {})

ListOnly(c, m) ==
  /\ list' = [list EXCEPT ![c] = @ \cup {m}]
  /\ listed' = listed \cup {m}
  /\ UNCHANGED <<view, seen>>

-----------------------------------------------------------------------------
(***************************************************************************)
(* sendMessage.                                                            *)
(***************************************************************************)
\* The open chat is noted, the message split over those of its servers that are
\* known and its chunks posted.
StartSend(m, length) ==
  /\ active # NoChat
  /\ active \notin BadKeys
  /\ send.pc = "idle"
  /\ m \in (Of(active) \cap Mine) \ posted
  /\ posted' = posted \cup {m}
  /\ \E n \in Servers[active] :
       send' = [pc |-> "posting", chat |-> active, msg |-> {m}, servers |-> n,
                length |-> length, chunks |-> Split(length, n)]
  /\ UNCHANGED <<saved, chats, cursor, list, unread, active, timer, view,
                 round, stalled, removed, left, seen, listed>>

\* The posts have settled: the message joins the list of the chat noted.
FinishSend ==
  /\ send.pc = "posting"
  /\ \E m \in send.msg : ListAndEmit(send.chat, m)
  /\ send' = IdleSend
  /\ UNCHANGED <<saved, chats, cursor, unread, active, timer, round, stalled,
                 removed, left, posted>>

-----------------------------------------------------------------------------
(***************************************************************************)
(* pollChat.                                                               *)
(***************************************************************************)
\* The timer fires: pollAllChats.  Nothing comes of polls whose key is none.
TimerFires(r) ==
  /\ timer
  /\ Free(r)
  /\ chats \ BadKeys # {}
  /\ round' = [round EXCEPT ![r] =
       [kind |-> "timer",
        poll |-> [c \in Chats |-> IF c \in chats \ BadKeys
                                  THEN Begun(c) ELSE IdlePoll]]]
  /\ UNCHANGED <<saved, chats, cursor, list, unread, active, timer, view, send,
                 stalled, removed, left, seen, listed, posted>>

\* A slip in openChat: polling goes on only after a poll that went well.
KeyFailsUncaught(r, c) ==
  /\ round[r].poll[c].pc = "importing"
  /\ round' = [round EXCEPT ![r] = After(r, c, IdlePoll)]
  /\ UNCHANGED <<saved, chats, cursor, list, unread, active, timer, view, send,
                 stalled, removed, left, seen, listed, posted>>

\* importKey rejects and pollChat with it, which openChat catches.
KeyFails(r, c) ==
  /\ round[r].poll[c].pc = "importing"
  /\ round' = [round EXCEPT ![r] = After(r, c, IdlePoll)]
  /\ timer' = (timer \/ round[r].kind = "open")
  /\ UNCHANGED <<saved, chats, cursor, list, unread, active, view, send,
                 stalled, removed, left, seen, listed, posted>>

\* A slip at the end: it looks again which chat is open.
FinishLooksAgain(r, c, p) ==
  /\ cursor' = [cursor EXCEPT ![c] = MaxOf(@, p.max)]
  /\ saved' = IF p.max > cursor[c] THEN Saved(chats, cursor') ELSE saved
  /\ unread' = [unread EXCEPT ![c] = IF c = active THEN @
                                    ELSE @ + Cardinality(p.fresh)]
  /\ timer' = (timer \/ round[r].kind = "open")
  /\ round' = [round EXCEPT ![r] = After(r, c, IdlePoll)]

\* A slip at the end: the cursor moves in memory alone.
FinishUnsaved(r, c, p) ==
  /\ cursor' = [cursor EXCEPT ![c] = MaxOf(@, p.max)]
  /\ saved' = saved
  /\ unread' = [unread EXCEPT ![c] = IF p.isActive THEN @
                                    ELSE @ + Cardinality(p.fresh)]
  /\ timer' = (timer \/ round[r].kind = "open")
  /\ round' = [round EXCEPT ![r] = After(r, c, IdlePoll)]

\* The end of pollChat with p as its locals, and of openChat if it awaits it.
\* saveChats saves the cursors of the chats there are.
Finish(r, c, p) ==
  /\ cursor' = [cursor EXCEPT ![c] = MaxOf(@, p.max)]
  /\ saved' = IF p.max > cursor[c] THEN Saved(chats, cursor') ELSE saved
  /\ unread' = [unread EXCEPT ![c] = IF p.isActive THEN @
                                    ELSE @ + Cardinality(p.fresh)]
  /\ timer' = (timer \/ round[r].kind = "open")
  /\ round' = [round EXCEPT ![r] = After(r, c, IdlePoll)]

GoesOn(r, c, p) ==
  /\ round' = [round EXCEPT ![r] = After(r, c, p)]
  /\ UNCHANGED <<saved, cursor, unread, timer>>

\* pollChat goes on with p as its locals: with nothing left to list it ends.
Proceed(r, c, p) == IF p.todo = {} THEN Finish(r, c, p) ELSE GoesOn(r, c, p)

\* What the nodes may answer: of the chat's messages behind the cursor those
\* that were sent.
Fetched(c, since) ==
  { m \in Of(c) : Time[m] > since /\ (m \in Mine => m \in posted) }

\* A slip in the loop: the cursor moves over what is skipped.
AssembleSkipping(r, c) ==
  LET p == round[r].poll[c] IN
  /\ p.pc = "fetching"
  /\ \E some \in SUBSET Fetched(c, p.since) : \E complete \in SUBSET some :
       Proceed(r, c,
         [p EXCEPT !.pc = "decrypting", !.since = 0,
                   !.todo = complete \ list[c], !.isActive = (c = active),
                   !.max = CHOOSE t \in {cursor[c]} \cup {Time[m] : m \in some} :
                     \A m \in some : t >= Time[m] /\ t >= cursor[c]])
  /\ UNCHANGED <<chats, list, active, view, send, stalled, removed, left, seen,
                 listed, posted>>

\* All fetches have settled: what is complete and not listed is to be listed.
Assemble(r, c) ==
  LET p == round[r].poll[c] IN
  /\ p.pc = "fetching"
  /\ \E complete \in SUBSET Fetched(c, p.since) :
       Proceed(r, c,
         [p EXCEPT !.pc = "decrypting", !.since = 0,
                   !.todo = complete \ list[c], !.isActive = (c = active),
                   !.max = cursor[c]])
  /\ UNCHANGED <<chats, list, active, view, send, stalled, removed, left, seen,
                 listed, posted>>

\* One turn of the loop, after the await of its decryption.
Decrypted(r, c) ==
  LET p == round[r].poll[c] IN
  /\ p.pc = "decrypting"
  /\ \E m \in p.todo :
       /\ IF p.isActive THEN ListAndEmit(c, m) ELSE ListOnly(c, m)
       /\ Proceed(r, c,
            [p EXCEPT !.todo = @ \ {m}, !.max = MaxOf(@, Time[m]),
                      !.fresh = IF p.isActive THEN @ ELSE @ \cup {m}])
  /\ UNCHANGED <<chats, active, send, stalled, removed, left, posted>>

\* The body of an answer stalls: the timeout was cleared with the headers, so
\* the poll, and the openChat that awaits it, never go on.
Stall(r, c) ==
  /\ Stalls
  /\ round[r].poll[c].pc = "fetching"
  /\ round' = [round EXCEPT ![r] = After(r, c, IdlePoll)]
  /\ stalled' = (stalled \/ round[r].kind = "open")
  /\ UNCHANGED <<saved, chats, cursor, list, unread, active, timer, view, send,
                 removed, left, seen, listed, posted>>

-----------------------------------------------------------------------------
\* A first visit.
Init ==
  /\ saved = << >>
  /\ chats = {}
  /\ cursor = [c \in Chats |-> 0]
  /\ list = [c \in Chats |-> {}]
  /\ unread = [c \in Chats |-> 0]
  /\ active = NoChat
  /\ timer = FALSE
  /\ view = {}
  /\ round = [r \in Rounds |-> IdleRound]
  /\ send = IdleSend
  /\ stalled = FALSE
  /\ removed = {}
  /\ left = {}
  /\ seen = {}
  /\ listed = {}
  /\ posted = {}

PollNext(r, c) == KeyFails(r, c) \/ Assemble(r, c) \/ Decrypted(r, c)

Next ==
  \/ \E c \in Chats : CreateChat(c) \/ RemoveChat(c)
  \/ \E c \in Chats, r \in Rounds : OpenChat(c, r) \/ PollNext(r, c) \/ Stall(r, c)
  \/ \E r \in Rounds : TimerFires(r)
  \/ \E m \in Messages, length \in Lengths : StartSend(m, length)
  \/ FinishSend
  \/ Reload

Spec == Init /\ [][Next]_vars

\* The event loop goes on with what has settled, WebCrypto answers, and a fetch
\* whose body does not stall settles within TIMEOUT_MS.  Nothing is assumed of the user.
FairSpec ==
  /\ Spec
  /\ \A r \in Rounds, c \in Chats : WF_vars(PollNext(r, c))

-----------------------------------------------------------------------------
(***************************************************************************)
(* Properties.                                                             *)
(***************************************************************************)
Poll ==
  [pc : {"idle", "importing", "fetching", "decrypting"}, since : Nat,
   todo : SUBSET Messages, isActive : BOOLEAN, max : Nat,
   fresh : SUBSET Messages]

Chunk == [from : Nat, to : Nat]

\* The state has the shape described above, and the open chat is one of the
\* chats (app.js:44-53, 180).
TypeOK ==
  /\ chats \subseteq Chats
  /\ DOMAIN saved \subseteq Chats
  /\ saved \in [DOMAIN saved -> Nat]
  /\ cursor \in [Chats -> Nat]
  /\ list \in [Chats -> SUBSET Messages]
  /\ unread \in [Chats -> Nat]
  /\ active \in chats \cup {NoChat}
  /\ timer \in BOOLEAN
  /\ view \subseteq Messages
  /\ round \in [Rounds ->
       [kind : {"none", "open", "timer"}, poll : [Chats -> Poll]]]
  /\ send.pc \in {"idle", "posting"}
  /\ send.chat \in Chats \cup {NoChat}
  /\ send.msg \subseteq Messages
  /\ send.servers \in Nat
  /\ send.length \in Nat
  /\ stalled \in BOOLEAN
  /\ removed \subseteq Chats
  /\ left \subseteq Chats
  /\ seen \subseteq Messages
  /\ listed \subseteq Messages
  /\ posted \subseteq Messages

\* What the polls of c have listed and not yet added to the unread count.
Pending(c) == UNION { round[r].poll[c].fresh : r \in Rounds }

\* What others wrote that is listed, was never in view since the page was loaded
\* and is not about to be counted.
Hidden(c) == (list[c] \ Mine) \ (seen \cup Pending(c))

\* A poll keeps what it read of the open chat while the user opens another one
\* (app.js:391).  A listed message that was never in view is counted as unread
\* at the end of its poll (app.js:424-441, ui.js:280-304), unless its chat was
\* left after the poll took it for the open one.
HiddenIsCounted ==
  \A c \in chats \ left : Cardinality(Hidden(c)) <= unread[c]

\* "If the chat is not the active one, new messages increment the unread
\* counter" (app.js:352-353): in every chat but the open one as many messages
\* are counted as there are listed that were never in view.
NothingSwallowed ==
  \A c \in chats \ {active} : Cardinality(Hidden(c)) <= unread[c]

\* The view of a chat has messages of no other, whichever chats are opened while
\* posts and polls are awaited (app.js:339-340, ui.js:421-428).
ViewIsOfOpenChat == active # NoChat => view \subseteq list[active]

\* What goes on at awaits never brings a removed chat back, in memory or in what
\* is saved (app.js:177-183, 433-436).
RemovedStaysRemoved ==
  \A c \in removed : c \notin chats /\ c \notin DOMAIN saved

\* The cursor that is saved stands on a message that was listed, in this life
\* of the page or an earlier one (app.js:430-436).
SavedCursorWasListed ==
  \A c \in DOMAIN saved :
    saved[c] # 0 => \E m \in listed : ChatOf[m] = c /\ Time[m] = saved[c]

\* The page may be closed at any moment, between any two awaits, and loses no
\* chat and no cursor: what is saved is what is in memory (app.js:172, 181, 435).
NothingUnsaved == saved = Saved(chats, cursor)

Reader(c) ==
  INSTANCE ChatReader
    WITH listed <- list[c], cursor <- cursor[c],
         times <- [m \in Messages |-> {Time[m]}]

\* Over the whole life of a chat, with rounds of polls overlapping, posts
\* awaited, chats opened and removed and the page loaded again from what was
\* saved, its list and cursor keep the promise of ChatReader until the user
\* removes it (app.js:339, 389-436).
ChatsKeepPromise ==
  /\ \A c \in Chats : Reader(c)!Init
  /\ [][\A c \in Chats \ removed' :
         [Reader(c)!Next]_<<list[c], cursor[c]>>]_vars

\* The chunks that are posted give the payload back (crypto.js:81-99).
PayloadRejoins ==
  send.pc = "posting" =>
    Rejoins(send.chunks, send.servers, send.length)

\* Up to seven servers, nodes refuse no chunk for being empty (crypto.js:83,
\* handlers.cpp:139).
NoneEmptyUpToSeven ==
  send.pc = "posting" /\ send.servers <= MostServers =>
    EmptyChunks(send.chunks) = {}

\* The poll of c in round r has something left to do.
GoingOn(r, c) ==
  LET p == round[r].poll[c] IN
  p.pc \in {"importing", "fetching"} \/ (p.pc = "decrypting" /\ p.todo # {})

\* Opening a chat stops the timer and leaves it to one poll to set it again
\* (ui.js:280-309).  Whatever is opened, removed or reloaded while several of
\* them are awaited, there is such a poll, it can go on, and it belongs to an
\* openChat, unless the timer is set or the answer awaited stalls.
PollsGoOn ==
  active # NoChat =>
    \/ timer
    \/ stalled
    \/ \E r \in Rounds, c \in Chats : round[r].kind = "open" /\ GoingOn(r, c)

\* Opening a chat stops the timer; it is set again, whatever is opened, removed
\* or fails meanwhile, unless the answer awaited stalls (ui.js:280-309,
\* network.js:44).
PollingResumes ==
  (active # NoChat) ~> (timer \/ stalled \/ active = NoChat)

=============================================================================
