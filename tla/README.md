# frag in TLA+

A specification of [frag](../src/README.md): a chat whose messages are encrypted
in the browser, split into one chunk per server and posted to independent backend
nodes, none of which holds a whole message. This directory models the program's
protocol and its concurrency, checks the models with TLC on small instances and
proves what matters most with TLAPS for all instances.

## The system

| part | state | operations | where |
|---|---|---|---|
| **client, sending** | the invocation of `sendMessage`: chunks, settled posts; the displayed list | encrypt, split, post to all servers at once, wait for all, append to the list | `frontend/js/app.js:291-346`, `crypto.js:81-89`, `network.js` |
| **client, splitting** | none | `splitPayload`, `joinPayload` | `crypto.js:81-99` |
| **client, receiving** | invocations of `pollChat` in flight; the cursor `chat.lastSince` (localStorage); `state.messages` (memory) | fetch from all servers, group by message, skip what is shown or incomplete, decrypt and append, move the cursor | `app.js:357-460` |
| **client, state and UI** | chats, servers, active chat, messages in view, unread counts, nicknames, poll timer | create, import, remove, open chats; add, remove servers; reload | `app.js`, `ui.js` |
| **local storage** | servers, chats with cursors, identity | whole-value writes, shared by the tabs of a browser | `app.js:1-60` |
| **node, connections** | listening socket, one detached thread per connection | accept, rate limit, read, parse, route, answer, close | `backend/src/server.cpp` |
| **node, handlers** | locals of one request | authorize, validate, stamp, query, answer | `handlers.cpp` |
| **node, store** | the SQLite table `fragments`, one connection for all threads | `INSERT OR IGNORE`, three `SELECT`s, `DELETE`, count | `database.cpp` |
| **node, cleanup** | cut-off time | sleep, delete what has expired | `main.cpp:172-186`, `database.cpp:156-167` |
| **node, lifecycle** | `g_stop`, `running_`, the listening socket | start, stop, signals | `main.cpp:146-219`, `server.cpp:55-108` |
| **node, rate limiter** | window and count per address | `allow` | `rate_limiter.hpp` |

Clients and nodes interact by HTTP only; nodes know nothing of each other; the
clients of a chat share an exported configuration and nothing else. On a node all
threads share one SQLite connection, and on a client all asynchronous functions
share one `state` object and interleave at every `await`.

What is hard about it:

- polls are started by a timer that does not wait for the one before, so that
  several `pollChat` and `sendMessage` calls of one chat interleave at their awaits;
- a message becomes visible node by node, a cursor decides what is fetched again,
  and the cursor is one number for clocks that differ;
- a post may be stored although it timed out, refused after others were stored,
  or cut in the middle of its body;
- on a client the user opens, leaves and removes chats while polls and posts of
  them are awaited, and opening a chat stops the timer until a poll has ended;
- a request arrives in pieces, its length is what the client says, and a client may
  stop anywhere;
- on a node, threads are detached, stopping closes a socket on which another thread
  may be about to wait, and the rate limiter's time is read before its lock is taken;
- on a node, SQLite serializes calls, not sequences of calls: other threads come
  in between a statement and the question of how many rows it changed, and
  between two rows of a scan;
- an expiry, a crash or a reload may come between any two of these steps.

`PROJECT.json` lists these hazards with the line each bites at and the
properties that cover it.

## The modules

| module | what it is |
|---|---|
| `FragmentRows` | the SQL statements of `database.cpp` as operators on sets of rows |
| `FragmentRegistry` | abstract specification of a node's table: an id is admitted once, never altered, and leaves only by expiry or on request |
| `ChatReader` | abstract specification of a client's list and cursor: messages join one at a time, and the cursor moves only then, forward, to the time of a listed message |
| `FragmentStore` | a node's handlers and cleanup thread on their one connection |
| `RateLimiter` | `RateLimiter::allow` on the entry of an address |
| `HttpConnection` | a node's connections: limiter, reading, routing, authorization, checks, answer |
| `ServerLifecycle` | a node's process: start, accept loop, threads, signals, stop |
| `PayloadSplit` | `splitPayload` and `joinPayload` |
| `FragChat` | a chat: clients sending and polling, nodes, network, user |
| `ClientState` | a browser tab with several chats |
| `MC*` | constants for TLC |
| `*Proofs` | theorems |

How they fit together:

- `FragmentStore` and, for each of its nodes, `FragChat` implement
  `FragmentRegistry`. This is why `FragChat` may use a node whose insert is one step:
  the registry is all a chat knows of a node, and the threads of `FragmentStore` give
  the same.
- For each of its clients `FragChat`, and for each of its chats `ClientState`, implement
  `ChatReader`. The two models look at polls from different sides, `FragChat` at fetches,
  nodes and failures of one chat, `ClientState` at the user, storage and several chats,
  and abstract from the other's side; the promise to the reader is common to both.
- `HttpConnection` extends `RateLimiter`, whose entries its threads share. Its
  handlers end where `FragmentStore`'s begin: at the call of the database, of which
  it knows the replies that may come.
- `ServerLifecycle` knows of a connection only that a thread handles it.
- `ClientState` extends `PayloadSplit` for what it sends, and takes from `FragChat`
  that a poll finds some of the chat's messages behind the cursor complete, any of
  them.

### FragmentStore

A step is one `sqlite3_step`, one `sqlite3_changes`, or the part of a handler
around them. `table` holds the rows, `changes` is what `sqlite3_changes` would
return, `handler[t]` are the locals of the handler on thread `t`: its program
counter, the row, id or query of its request, the rows read, the reply. Three fields
only observe: `did`, whether the handler's own statement changed the table or its
scan came to the end, `begun`, the rows a scan matched at its beginning, and `gone`,
the rows that left the table since the request came in.

- POST: `ReceivePost` (validated and stamped), `Insert`, `AnswerPost`, or
  `InsertFails` when SQLite reports an error.
- DELETE: `ReceiveDelete`, `Delete`, `AnswerDelete`, or `DeleteFails`. A statement
  that fails in its step sets `sqlite3_changes` to 0, one that cannot be prepared
  leaves it as it was (`StatementFails`).
- GET: `ReceiveGet` and then `ScanRow` once per row, in the order of the index on
  `(chat_id, timestamp)`, which other threads may change meanwhile, then
  `ScanEnd`. An error (`ScanFails`) ends the loop like the end of the rows does.
- GET all: `ReadMessage`. No index gives that order, so the first step of the
  statement reads and sorts all rows, or fails and gives none (`ReadMessageFails`).
- `SelectFails`: either `SELECT` cannot be prepared, which is answered 500.
- `Health` counts, `Finish` closes the connection.
- `StartPurge` takes the cut-off time, `PurgeExpired` deletes, `PurgeFails`.
- `Crash` loses handlers and cleanup and keeps the table.

Requests refused before the handler reads the clock or the database have no
effect and are left out; every handler that is modelled could be preceded by any
number of them.

### FragChat

A step is what the browser runs between two awaits, or what a node's handler does
between two accesses to the clock or the table. Data is abstract: a chunk is
"slice `part` of `of` of the ciphertext of message `msg`", and joining slices
decrypts exactly when they are all the slices of one ciphertext in order, which is
what AES-GCM guarantees.

- Sending. `StartSend` splits over the servers still known and posts all chunks. The
  awaits of `importKey` and `encrypt` between the list and the posts are no steps: they
  change nothing but when a post leaves, and one that leaves later is one longer on
  its way, where a node that goes down does not touch it.
  `HandlePost`, `RejectPost` and `InsertPost` are the node's part; `AckPost` and
  `FailPost` settle a post at the client, the second also when the client gave up
  on an answer still to come; `FinishSend` appends the message with its status.
- Receiving. `StartPoll` notes the servers, `KeyImported`, after its `await`, the
  cursor; `FetchReply` and `FetchFail` settle one fetch, the first with the rows or, when
  the scan fails, with the oldest of them, which is answered 200 (`Answers`); `Assemble` is the selection after `Promise.all`, with the set
  of displayed ids and the cursor taken then; `Decrypted` is one turn of the loop,
  resumed after its `await`, and after the last turn the move of the cursor.
- Nodes. `Tick` moves clocks, together or, with skew, one by one; `NodeDown` and
  `NodeUp`; `Purge`, with a cut-off at any time up to now.
- User. `RemoveServer`; `Reload` keeps the cursor and the server list and loses
  the messages and every invocation in flight.

`Faults` says which of these a run admits: a node going down, an answer later than
the client's patience, a body cut short, a request that a node turns away although it is
up (401, 413, 429), a SQLite statement that fails (500, or a part of the rows), clock
skew, a removed server, a reload.
A body cut short arrives without its trailing `ttl` (which then reads 0) or with
part of its payload; cut earlier it is refused. A cut within the digits of the ttl
is counted as a lost ttl.

### HttpConnection and RateLimiter

Each connection is served by a thread, `conn[c]` are its locals: where it is, the
time it read for the limiter, how much of the request it has read. `Accept` starts
it, `Limit` is `allow` under its lock, `Receive` one `recv` that returns some of what
was sent, `ReceiveEnds` one that returns nothing (end of the stream or the receive
timeout), `HandleConnection` parsing, preflight, routing and the handler up to and
with its call of the database, `Close` the answer and the closing of the socket.

Sizes are in units: a head of `HeadSize`, a body of `req.size`, a Content-Length of
`req.claim`, which need not be the size, and a sum that wraps at the width of
`size_t`. What is known of a request whose head is unfinished is nothing, or the
request line with or without the authorization (`Parsed`). Paths are the sequences
of their parts, so that `split` and `match_pattern` are modelled as they are, empty
parts included; the routes are those of `register_routes` in their order. A body cut
short may or may not still have the fields the POST handler wants.

There are three kinds of clients: sound ones, ones that stop or close before the
request is complete, and ones that never read, on which `send` may block without a
timeout. Data left unread resets the connection, so that the answer may get lost.

`RateLimiter` has the entry of one address. A request may bring a time that is older
than the window it meets, since the clock is read before the lock is taken.

What a request asks for is said twice: `Respond` finds it as the code does, by the first
route that matches, and `IsFor`, for the property, from method and path as the API lists
them, without `Routes` and `Matches`.

### ServerLifecycle

One variable per flag of `main.cpp` and `server.hpp`, one per thread for where it is.
`Socket`, `Listen`, `SetRunning`, `Loop`, `AcceptOne` and `AcceptFails` are `start`;
`Stop` and `CloseSocket` are `stop`, in the two steps between which the server thread
may run; `Wake` and `Purged` the cleanup thread; `Destroy` the end of `main`'s
scope, `Exit` its return. `Fail` is an exception on the server thread (`socket`, `bind`,
`listen`, or a thread that cannot be made), whose catch sets `g_stop`. `SendKills` is an answer to a connection that was reset: SIGPIPE, with
its default action.

The socket is Linux's: closing it does not wake an `accept` that waits, and it takes
connections until that `accept` has returned. The racing read of `server_fd_` in
`start` gives the old number, which is closed, or -1: `accept` fails on both.

### ClientState

The state of one tab: `state.chats` and what of it is saved, messages as sets, unread
counts, the open chat, the view, whether the timer is set, and the invocations at
their awaits: rounds of polls (`round`), begun by the timer for all chats or by
opening one, and one `sendMessage`. `fresh` is what `newCount` counts. Observed, with
no variable in the code, are `removed`, `listed`, `posted`, `stalled` (openChat awaits
an answer whose body never ends), `seen` (put into the message list of the page) and
`left` (chats left while a poll took them for the open one).

The listener of "message" drops what is not of the open chat (`Shows`), so that
`ListAndEmit`, which a poll runs when its chat was the open one before it decrypted,
may list a message that is neither seen nor counted.

`OpenChat` runs to its await; `Finish` is the end of `pollChat` and, when openChat
awaits it, of openChat, which sets the timer again. `BadKeys` are chats
whose imported key is none, for which `importKey` rejects: `KeyFails`, which openChat
catches. Where the key is good its import is no step of its own: the cursor is read at
the beginning of the poll, and as cursors only grow what an answer from there may find
includes what a later one may (`Begun`). Chats that were removed
and the same chat imported again under its old id are left out: ids are new.

### PayloadSplit

A payload is its length, a chunk the positions from and to that it was cut from;
`ChunkSize` rounds up as `Math.ceil` does.

## What TLC checks

Passing runs:

| run | instance | shows |
|---|---|---|
| `chat_overlap` | 2 messages, one with a ttl, 2 nodes, 2 overlapping polls | nothing shown is wrong (`NeverGarbled`), the cursor stands on a message that was stored (`CursorOnComplete`) and never moves back (`CursorNeverRetreats`), nodes implement `FragmentRegistry` (`NodesKeepPromise`), the client `ChatReader` (`ReadersKeepPromise`) |
| `chat_faults` | 1 message, 2 nodes, every fault, the author polling | `TypeOK`; status "sent" is the truth (`SentIsStored`); a message that cannot be read lacks a removed server or was cut (`GarbledOnlyByLoss`) |
| `chat_live` | 1 message, 2 nodes that go down and come back, 2 polls, fair | a stored message is displayed, or the cursor has passed it (`StoredIsShownOrOvertaken`); while polls overlap in their fetches but no two decrypt at once, it is listed once (`OnceIfLoopsApart`) |
| `store_threads` | 2 threads, a lasting and an expiring fragment, every request, statements that fail, crashes | `TypeOK`; `OneRowPerId`; a positive answer means stored (`AnsweredIsStored`); a scan misses nothing that was there throughout (`ScanMissesNothing`); the store implements `FragmentRegistry` (`RefinesRegistry`) |
| `http_requests` | 3 connections of one address, 19 requests from 3 kinds of clients on one of them, in any pieces | `TypeOK`; the database is asked what the request says, with a token (`OnlyWhatIsAsked`); a handler sees the whole body of a sound request (`WholeBodyHandled`) and a sound client gets the answer (`SoundIsAnswered`); each window of the limiter admits no more than the limit, and no two overlap (`WindowsKeepLimit`); only a client that does not read keeps a thread (`NeverStuck`), and each step of a thread brings it nearer to its end (`ThreadsDwindle`) |
| `server_stop` | 3 connections, every fault, fair | `TypeOK`; of the threads that outlive the server one at most is new (`OutlivedByOneNew`); the accept loop winds down after a stop in time (`ServerWindsDown`); a stop ends the process unless it came before the loop or nobody wakes `accept` (`StopEnds`); so does a failed start (`FailedStartEnds`); nobody waits in the backlog for ever (`BacklogIsServed`); the cleanup comes again after a purge that threw (`CleanupGoesOn`) |
| `client_state` | 3 chats, one with a bad key, one of which 7 or 9 servers may be known when a message is sent, a message written here and one received, 2 overlapping rounds, stalling answers, fair | `TypeOK`; in chats that were not left while a poll took them for the open one, what is listed and was never in view is counted (`HiddenIsCounted`); the view is that of the open chat (`ViewIsOfOpenChat`); removed chats stay so (`RemovedStaysRemoved`); a saved cursor is a listed message's (`SavedCursorWasListed`); what is saved is what is in memory at every await (`NothingUnsaved`); each chat implements `ChatReader` until it is removed (`ChatsKeepPromise`); chunks rejoin (`PayloadRejoins`) and are not empty up to seven servers (`NoneEmptyUpToSeven`); there is always somebody to set the timer again (`PollsGoOn`), and polling resumes (`PollingResumes`) |

Runs that end in a violation, each a place where a document or comment of the
repository says more than the code does (`PROJECT.json`, "findings", quotes them):

| run | what it shows |
|---|---|
| `chat_overlap_repeat` | two overlapping polls list a message twice |
| `chat_skipped` | a message skipped as incomplete is lost once a newer one was shown |
| `store_duplicates` | the answer 201/200 is computed from another thread's statement |
| `client_swallows` | a message decrypted after its chat was left is neither shown nor counted as unread |
| `server_blocks` | `start` does not return on a `stop` that comes too early, or while `accept` waits |

### Other disagreements

The modules state more of what documents and comments say; the code does not keep to
it, and no run is spent on it:

| property | says | the code |
|---|---|---|
| `FragChat!RefetchedAfterReload` | TECHNICAL_GUIDE.md:229: messages are fetched again after a reload | the saved cursor is beyond them |
| `FragChat!MissingServerSkips` | TECHNICAL_GUIDE.md:209: without a server, messages are skipped | a removed server shortens the list and they show as "[decryption failed]" |
| `FragChat!AllFailedIsNotSent` | app.js:342: "All servers failed - message not sent" | posts that timed out may all have been stored; with answers in time and nodes that stay up, where posts fail by refusals, cuts and SQLite errors, it is true (`TimelyFailuresAreTrue`) |
| `FragChat!OnlyWholeBodiesStored` | TECHNICAL_GUIDE.md:80: incomplete requests are refused | what arrived is handled, a payload cut short is stored |
| `HttpConnection!IncompleteDoesNothing` | the same | so may an unfinished head whose lines are complete: a DELETE is carried out |
| `HttpConnection!OpenWithoutTokens` | main.cpp:161, README.md:83: without tokens the server is open | `Auth::verify` finds no token in the empty set: 401 |

Not stated as properties: the limiter counts windows from their first request, so "at
most `max` requests within any 60-second window" (rate_limiter.hpp:10) holds of its own
windows (`WindowsKeepLimit`) and of no others. In any other span of 60 seconds an
address may get twice the limit, once from each of two windows (`AtMostTwice`), and
more if one counts requests that read their time in it and waited for the lock until a
third window began: with a limit of 3, those at 59, 59, 60, 61, 62 and two that read
118 and get the lock after the reset at 120 are 7. The last chunk may be "slightly longer"
according to crypto.js:76, and is shorter or empty; with nine servers and more, chunks
of an encrypted message may be empty (`NoneEmptyUpToSeven` is for any length; a
base64 one, a multiple of four, fills eight as well) and are refused by the nodes
(handlers.cpp:139).
`sendMessage` does not look whether a poll has listed its message before
(app.js:339). A message stored within the second the cursor stands on is never
fetched, while the mock node of `tests/fragmentation.test.mjs:45` would return it. A
chat whose list has two entries for one node cannot be read, since that node answers
with both chunks (app.js:385). An expired fragment is served until the next cleanup
(database.cpp:87). Tabs of one browser overwrite each other's chats (app.js:144).

### Bounds

In the chat and the store at most two clients, messages, nodes, overlapping polls and
threads, clocks of two or three seconds. A race in this system is between two
invocations, an incomplete message needs two servers, an overtaken one two messages, an
order of timestamps or an expiry two seconds. No run is bounded in the number of
steps. `chat_overlap`, `chat_faults` and `store_threads` have millions of
states each, the first and last of them up to symmetry of polls and threads; that is
why no run has two messages, two polls and all faults together. The theorems do not
have these bounds.

`http_requests` has a limit of two requests per window of two ticks and a clock of
three: three connections then exceed the limit, share a window, meet the next one and
read the clock before another one resets it. Spans that meet two or three windows
need more connections than that; the bound for those is proved and not run. One connection makes every request, the others, which
meet it at the limiter only, are interchangeable. Requests of a head of 2 and a body up
to 5 units against a limit of 6, read 3 at a time, are in and above the limits, and are
read in several pieces; lengths of 15 and a width of 16 wrap.

`server_stop` has a connection that is served when stop comes, one that wakes
`accept`, and one more. In `client_state` two rounds overlap, chats can be opened
in either order during each of them. The message written here is split over 7 or 9 servers, and 40 over
9 makes an empty chunk, which `PayloadRejoins` evaluates; other lengths are the
theorems' business.

Deadlock is not checked where the system may come to rest: `chat_faults`, where a
client that has removed all its servers neither sends nor polls; `http_requests`,
where all connections may be closed; and the runs of `ServerLifecycle`, where the process
exits. Everywhere else it is checked. `chat_overlap` leaves
out all faults, those under which its first property is false, cut bodies and removed
servers, with the rest, and `chat_faults` overlapping polls.

### Fairness

`FragChat!FairSpec` assumes weak fairness of starting a poll (the timer fires
every five seconds), of importing its key, of an answer or failure of a fetch (the node is up and
answers, or the request fails at the latest after `TIMEOUT_MS`), and of going on
with what has settled (the event loop). Nothing is assumed of senders, users,
clocks, failures or nodes coming back; that the nodes stay up in the end is a
condition of the property itself.

`ServerLifecycle!FairSpec` assumes that the three threads go on when they can, and
strong fairness of taking a connection: `accept` may fail for lack of descriptors, but
not for ever while a connection waits. Nothing is assumed of signals, of clients and of
the threads that serve them. `ClientState!FairSpec` assumes that a poll goes on once
its answers are there; a stalling answer is a step that makes this impossible, and
`PollingResumes` says so.

## What is proved

With TLAPS, for every value of the constants that the assumptions below allow: any
number of clients, nodes, messages, servers, polls, threads and connections, every set
of faults, any clock:

| theorem | statement |
|---|---|
| `FragChatProofs!TypeCorrect` | `Spec => []TypeOK` |
| `FragChatProofs!CursorForward` | `Spec => CursorNeverRetreats` |
| `FragChatProofs!NodesImplementRegistry` | `Spec => NodesKeepPromise` |
| `FragChatProofs!SentIsTrue` | `Spec => []SentIsStored` |
| `FragChatReceiveProofs!EachReceivedOnce` | `Spec => OnceIfLoopsApart` |
| `FragChatReceiveProofs!NothingGarbled` | `WholeAndKept` gives `Spec => []NeverGarbled` |
| `FragChatReceiveProofs!CursorFollowsComplete` | `DistinctNodes` and no server removed give `Spec => []CursorOnComplete` |
| `FragChatLossProofs!UnreadableOnlyByLoss` | `DistinctNodes` gives `Spec => []GarbledOnlyByLoss` |
| `FragChatReceiveProofs!ReadersImplementChatReader` | `Spec => ReadersKeepPromise` |
| `FragChatLossProofs!TimelyFailuresAreTrue` | `DistinctNodes` and `TimelyAnswers` give `Spec => []AllFailedIsNotSent` |
| `FragmentStoreProofs!StoreTypes` | `Spec => []TypeOK` |
| `FragmentStoreProofs!IdsStayUnique` | `Spec => []OneRowPerId` |
| `FragmentStoreProofs!StoreRefinesRegistry` | `Spec => RefinesRegistry` |
| `FragmentStoreProofs!AnswersAreTrue` | `Spec => []AnsweredIsStored` |
| `FragmentStoreProofs!ScansAreWhole` | `Spec => []ScanMissesNothing` |
| `HttpConnectionProofs!ConnectionTypes` | `Spec => []TypeOK` |
| `HttpConnectionProofs!WholeBodies` | `Spec => []WholeBodyHandled` |
| `HttpConnectionProofs!SoundClients` | `Spec => []SoundIsAnswered` |
| `HttpConnectionProofs!NothingElseAsked` | `Spec => []OnlyWhatIsAsked` |
| `HttpConnectionProofs!EachWindowKeepsLimit` | `Spec => []WindowsKeepLimit` |
| `HttpConnectionProofs!TwiceTheLimit` | `Spec => []AtMostTwice` |
| `HttpConnectionProofs!NoThreadIsStuck` | `Spec => []NeverStuck` |
| `HttpConnectionProofs!ThreadsEnd` | `Spec => ThreadsDwindle` |
| `ServerLifecycleProofs!LifecycleTypes` | `Spec => []TypeOK` |
| `ServerLifecycleProofs!AtMostOneOutlives` | `Spec => []OutlivedByOneNew` |
| `ServerLifecycleProofs!LoopWindsDown` | `Spec => ServerWindsDown` |
| `ClientStateProofs!ClientTypes` | `Spec => []TypeOK` |
| `ClientStateProofs!NothingOfOthersIsShown` | `Spec => []ViewIsOfOpenChat` |
| `ClientStateProofs!NoChatComesBack` | `Spec => []RemovedStaysRemoved` |
| `ClientStateProofs!CursorsStandOnMessages` | `Spec => []SavedCursorWasListed` |
| `ClientStateProofs!NothingIsHidden` | `Spec => []HiddenIsCounted` |
| `ClientStateProofs!SentPayloadRejoins` | `Spec => []PayloadRejoins` |
| `ClientStateProofs!NoEmptyChunkIsSent` | `Spec => []NoneEmptyUpToSeven` |
| `ClientStateProofs!ClosingLosesNothing` | `Spec => []NothingUnsaved` |
| `ClientStateProofs!ChatsImplementChatReader` | `Spec => ChatsKeepPromise` |
| `ClientStateProofs!PollingIsNotLost` | `Spec => []PollsGoOn` |
| `PayloadSplitProofs!SplitIsLossless` | any payload over any number of servers is rejoined |
| `PayloadSplitProofs!NoChunkIsEmpty` | up to seven servers no chunk of a payload of `encrypt` is empty |

The assumptions `ChatAssumption`, `StoreAssumption`, `ConnectionAssumption`,
`LimiterAssumption` and `LifecycleAssumption` give constants their types, and finite
sets of what is counted, and nothing else; `ClientAssumption` adds that timestamps are
not 0 and payloads not shorter than what `encrypt` makes of one byte. Some theorems
assume more, as little as they need:

- `WholeAndKept`: entries of the server list are different nodes, no connection is
  cut in a body, no server is removed (what becomes of messages otherwise is in the
  table of other disagreements above; two entries for one node give that node both
  chunks of a message);
- `CursorFollowsComplete` allows cut bodies and every other fault but removal;
- `UnreadableOnlyByLoss` allows every fault, and says which of them it was;
- `TimelyAnswers`: neither the fault "late" nor "down", with either of which it is
  false. Posts still fail: bodies are cut, requests refused, statements fail; clocks
  differ, servers are removed, pages reloaded.

`OnceIfLoopsApart` has its condition in the formula: as long as no two polls of a
client are in the loop of `pollChat` at once. The timer does not see to that, and
`chat_overlap_repeat` shows what comes of it; fetches that overlap, in any order and
number, are within the theorem.

The arguments:

- `SentIsTrue`. That a "sent" message is stored says nothing of the posts it came
  from, so it is not inductive. `SentInv` adds the way there: a list says "sent"
  only if every post was acknowledged (`SentMeansAcked`); an acknowledged post was
  stored (`AckedMeansStored`); what was stored without a ttl is still there
  (`PostedIsStored`), because the cleanup takes only rows with a ttl, and a row of
  a given id is that of the message and slot the id names (`RowsAreNamed`), so
  that neither `INSERT OR IGNORE` nor a cut body can put something else in its
  place that expires.
- `EachReceivedOnce`. `TodoIsNew` says that what a poll has still to decrypt is not
  on the list; the check is made once, before the first `await` of the loop, so this
  is where two loops break it. With one loop at a time nobody else has anything to
  decrypt (`TodoInLoop`), only that loop adds received messages, and it takes each off
  its own `todo`; another poll looks at the list only after its fetches.
- `NothingGarbled`. `RightInv` follows a chunk: the list of servers is whole when a
  message is split (`ListKept`, `SplitOverAll`), the node of slot k stores chunk k
  (`RowsRight`, where different entries must be different nodes), and its answer is
  filed under slot k (`ResultsRight`); what is joined in slot order is then the
  ciphertext.
- `UnreadableOnlyByLoss`. The same way of a chunk when servers are removed and bodies
  cut: `RowsMade` and `PollsAnswered` say of each row and answer which server the
  chunk was made for, from how many, and whether it was read whole. That a loss
  once seen stays one is what makes this inductive: lists only shrink (a poll has
  taken at least the servers still kept), a message is split once
  (`UnsentUnasked`), and what was read of a body is settled (`ReadOnce`).
- `CursorFollowsComplete`. A stored request is final (`StoredStays`, because a
  message is sent once: `UnsentUnasked`); every row and every answer comes from a
  stored request and bears its time (`RowsPosted`, `PollsPosted`); a poll takes up
  only messages it has from every server. So the running maximum of a poll, and the
  cursor it becomes, are times of such messages (`CursorsOnComplete`).
- `ReadersImplementChatReader`. The steps that matter are those at which the list or the
  cursor moves (`ListCursorEffect`). What a poll will set the cursor to was computed
  awaits ago, perhaps of messages another poll has listed or a reload has lost
  meanwhile: `MaxListed` says that it is behind the cursor or a time of a listed
  message all the same, because fragments bear times at which nodes stored them
  (`RowsStamped`, `ResultsStamped`) and stored times stay (`TimesStay`). A reload
  empties the list and the polls together, which is why nothing is carried over it.
- `TimelyFailuresAreTrue`. Which faults make "message not sent" untrue. Without the two
  nodes are up (`NodesUp`) and nobody gives up on an answer, hence a post can only have failed because it was
  refused (`FailedMeansRejected`), and a refused post is never stored
  (`RejectedStays`); a row that bears its name would have come from a stored one
  (`RowsAreNamed`, `RowsPosted`).
- `StoreRefinesRegistry`. A `DELETE` takes one row because ids are unique, and
  uniqueness is kept because the insert looks at the ids; hence `StoreInv`:
  `TypeOK`, a finite table and unique ids. The cleanup's cut-off is never ahead of
  the clock (`TypeOK`), hence what it removes has expired by now.
- `AnswersAreTrue` and `ScansAreWhole` are both about what a handler answers several
  steps after it looked, so `HandlerInv` says it of the steps between: from its
  insert on, a post's id is in the table or among the rows seen leaving
  (`PostKept`); every row a scan matched at its beginning was read, or is still in
  the table and not older than what was read, or was seen leaving (`ScanKept`).
  Other threads add rows, which disturbs neither (`MoreRows`), or take rows away,
  which every handler that is at work notes in `gone` (`FewerRowsKept`).
- `CursorForward` needs only that numbers are numbers: the last step of a poll
  compares with the cursor as it is then.
- `WholeBodies`, `SoundClients` and `NothingElseAsked`. One invariant, `Course`, says
  where each connection is on its way: no more is read than was sent; reading ends for
  a sound client whose request fits only when all of it is there; what was handled,
  called and answered follows from that. That the first route which matches is for what
  method and path spell is a lemma about `Matches` and `Routes` (`ServedIsFor`), one
  case per route.
- `NoThreadIsStuck` is about the guards of `recv` and of the handlers,
  not about ENABLED: the code's conditions to go on are operators of the model
  (`RecvGives`, `RecvEnds`, `Respond`). That not more is read than was
  sent (`Course`) leaves a thread in `recv` either something to read or an end.
- `ThreadsEnd`. The measure `StepsLeft` counts the units not read and the stages not
  passed. Each step, of whichever thread, lowers it or leaves it, and it is never
  negative; together with `NoThreadIsStuck` this is that every thread ends, short of
  the fairness that makes it move.
- `EachWindowKeepsLimit`, `TwiceTheLimit`. Requests of one address are admitted before the end of the window
  they are counted in, and two of its windows are the same or do not overlap
  (`Windows`). A window admits `MaxRequests` (`WithinLimit`, through the table's
  count). So any span of a window's length meets two windows at most (`TwoWindows`).
  A request that read its time, and then waited for the lock while a newer window
  began, is counted in that window; `AtMostTwice` leaves it out where that window
  begins after the span.
- `AtMostOneOutlives`. Once `stop` was called in time, `running_` is false for good, so
  the loop ends and the only thread that can still be made is that of the `accept`
  that was waiting: `StopInv` holds that one thread
  open as long as `server` is "waiting". The cleanup thread does not purge
  anew, as `g_stop` is set.
- `LoopWindsDown` is from the same `StopInv`: `running_` is false, and the loop is past
  its beginning, so `accept` is not called again and at most two steps remain.
- `ClientStateProofs`. `Inv` has the properties and what the rounds in flight carry: the
  running maximum of a poll is that of messages it has listed (`CursorsOK`), what is
  listed of a chat that was neither removed nor left under a poll is counted or was seen
  (`HiddenOK`), a poll that took its chat for the open one is of the open chat or of such
  a chat (`LeftOK`), and the chunks in flight are
  those of `Split` (`SendOK`), of which `PayloadSplitProofs` tells the rest.
- `ClosingLosesNothing` and `ChatsImplementChatReader`. A reload takes its cursors from
  what was saved, so the promise over several lives of a page needs that nothing is
  unsaved (`NothingUnsaved`), that a chat not yet created has a cursor of 0 and no poll
  (`Untouched`), and that the maximum a poll carries was reached (`PollsReach`, the
  `MaxListed` of this module). A removed chat is outside the promise: its list is
  deleted while polls of it go on.
- `PollingIsNotLost`. `Alive` says of each round that a poll of it is not over and has
  something left to do. The round of an openChat ends by setting the timer or by
  stalling, also when its key is bad (`KeyFails`), and only openChat clears the timer or
  the observation of a stall, beginning such a round itself.
- `SplitIsLossless` and `NoChunkIsEmpty`. With `c` the size rounded up,
  `length <= n * c <= length + n - 1`: the last chunk ends at the end, and chunk
  `n - 1` begins before it when `n` is small against `length`.

Only model-checked: `StoredIsShownOrOvertaken`, `StopEnds`,
`FailedStartEnds`, `BacklogIsServed`, `CleanupGoesOn` and `PollingResumes`: liveness under fairness,
which this prover does not do. For three of them the safety part is proved: for
`PollingResumes` that somebody will set the timer (`PollingIsNotLost`), for `StopEnds`
that the accept loop winds down (`LoopWindsDown`), and for `StoredIsShownOrOvertaken`
that the cursor only moves when a message is listed (`ReadersImplementChatReader`).
What is missing is that enabled steps are taken. That a connection's thread is never
stuck (`NoThreadIsStuck`) and that each of its steps leaves it fewer steps to take
(`ThreadsEnd`) are proved.

Every other property of the passing runs is proved. No module has a RECURSIVE
operator, and nothing here needs induction over data, which the prover cannot do either:
`recv`'s loop and the rounds of polls are steps of a specification.

## Not modelled

- Several tabs of one browser. Each writes its whole state to the shared
  `localStorage`, so that the last one wins (app.js:144): there is no promise to check.
- Identity, nicknames, search, the health panel, forms and toasts: presentation, or
  values that are set and shown.
- Configuration, command line and the scanning of JSON: string functions without state.
  What the scanner makes of a truncated body is in `FragChat`, what it makes of a number
  beyond 64 bits (handlers.cpp:55) is not.
- base64, hashes and Web Crypto: taken as an ideal cipher, which decrypts exactly
  what it encrypted.
- The growth of the limiter's table, from which nothing is ever taken: a matter of
  memory.
- Markup and styles, build and deployment files, the SRI script, log output.
- What a power failure leaves of SQLite's write-ahead log (database.cpp:21): a crash in
  these models is the end of the process, after which committed rows are there.
