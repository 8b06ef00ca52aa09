-------------------------- MODULE ServerLifecycle --------------------------
(***************************************************************************)
(* The life of a node's process (backend/src/main.cpp and start, stop of   *)
(* server.cpp): the main thread, the server thread with its accept loop,   *)
(* the cleanup thread, a detached thread per connection, and the signal    *)
(* that ends them.                                                         *)
(*                                                                         *)
(* The socket is that of Linux: closing it does not wake an accept that    *)
(* waits, and it goes on listening until that accept returns.              *)
(***************************************************************************)
EXTENDS Integers, FiniteSets

CONSTANTS
  Connections,   \* the connections clients make
  Faults         \* the faults a run admits, a subset of FaultKinds

FaultKinds ==
  { "signal",    \* SIGINT or SIGTERM
    "socket",    \* no socket can be made
    "port",      \* the port is taken: bind fails
    "accept",    \* accept fails: too many files, a connection given up
    "thread",    \* no thread can be created
    "reset" }    \* a client resets its connection before it is answered

ASSUME LifecycleAssumption == Faults \subseteq FaultKinds

VARIABLES
  g_stop,     \* asks the main thread and the cleanup thread to stop
  running_,   \* asks the accept loop to go on
  fd,         \* server_fd_: "none" (-1), "open", or "listening" once listen
              \* was called on it
  main,       \* where the main thread is
  server,     \* where the server thread is
  cleaner,    \* where the cleanup thread is
  conn,       \* [Connections -> where the connection is]
  stop        \* observed when stop() was called: was it before start() had
              \* set running_, and who was using database and server

vars == <<g_stop, running_, fd, main, server, cleaner, conn, stop>>

\* Who is using the objects that main owns; "cleanup" is no connection.
Users ==
  { c \in Connections : conn[c] = "handled" } \cup
  (IF cleaner = "purging" THEN {"cleanup"} ELSE {})

Alive == main # "exited"

\* The kernel has the socket and takes connections into its backlog.
Listening == fd = "listening" \/ server = "waiting"

\* Connections in the backlog of a socket that is released are reset.
ResetBacklog == [c \in Connections |->
  IF conn[c] = "backlog" THEN "refused" ELSE conn[c]]

-----------------------------------------------------------------------------
(***************************************************************************)
(* Signals and clients.                                                    *)
(***************************************************************************)
\* on_signal.
Signal ==
  /\ "signal" \in Faults
  /\ Alive
  /\ ~g_stop
  /\ g_stop' = TRUE
  /\ UNCHANGED <<running_, fd, main, server, cleaner, conn, stop>>

Connect(c) ==
  /\ conn[c] = "new"
  /\ Listening
  /\ conn' = [conn EXCEPT ![c] = "backlog"]
  /\ UNCHANGED <<g_stop, running_, fd, main, server, cleaner, stop>>

\* The connection's thread has answered and closed: HttpConnection.
Handled(c) ==
  /\ conn[c] = "handled"
  /\ Alive
  /\ conn' = [conn EXCEPT ![c] = "closed"]
  /\ UNCHANGED <<g_stop, running_, fd, main, server, cleaner, stop>>

\* It answers into a connection that was reset: SIGPIPE, which nobody handles,
\* ends the process.
SendKills(c) ==
  /\ "reset" \in Faults
  /\ conn[c] = "handled"
  /\ Alive
  /\ main' = "exited"
  /\ UNCHANGED <<g_stop, running_, fd, server, cleaner, conn, stop>>

-----------------------------------------------------------------------------
(***************************************************************************)
(* HttpServer::start on the server thread.  Once the process has exited no *)
(* thread takes a step.                                                    *)
(***************************************************************************)
\* A slip in the thread's catch: g_stop is not set.
FailSilently ==
  /\ server' = "failed"
  /\ g_stop' = g_stop

\* An exception leaves start and ends the thread.
Fail ==
  /\ server' = "failed"
  /\ g_stop' = TRUE

Socket ==
  /\ server = "created"
  /\ Alive
  /\ \/ /\ server' = "bind"
        /\ fd' = "open"
        /\ UNCHANGED g_stop
     \/ /\ "socket" \in Faults
        /\ Fail
        /\ UNCHANGED fd
  /\ UNCHANGED <<running_, main, cleaner, conn, stop>>

\* bind and listen; they fail if stop has closed the socket meanwhile.
Listen ==
  /\ server = "bind"
  /\ Alive
  /\ \/ /\ fd = "open"
        /\ fd' = "listening"
        /\ server' = "listening"
        /\ UNCHANGED g_stop
     \/ /\ fd = "none" \/ "port" \in Faults
        /\ Fail
        /\ UNCHANGED fd
  /\ UNCHANGED <<running_, main, cleaner, conn, stop>>

SetRunning ==
  /\ server = "listening"
  /\ Alive
  /\ running_' = TRUE
  /\ server' = "loop"
  /\ UNCHANGED <<g_stop, fd, main, cleaner, conn, stop>>

\* The head of the loop, and the call of accept: it waits, or fails at once on
\* a socket that is closed; a failure ends the loop unless it is to go on.
\* The read of server_fd_ races with stop: the old number is a closed one.
Loop ==
  /\ server = "loop"
  /\ Alive
  /\ server' = IF ~running_ THEN "returned"
               ELSE IF fd = "listening" THEN "waiting" ELSE "refused"
  /\ UNCHANGED <<g_stop, running_, fd, main, cleaner, conn, stop>>

\* The connections after accept lets go of the socket: the last hold on one
\* that was closed.
LetGo == IF fd = "none" THEN ResetBacklog ELSE conn

\* accept returns a connection and a thread takes it.
AcceptOne(c) ==
  /\ server = "waiting"
  /\ Alive
  /\ conn[c] = "backlog"
  /\ \/ /\ server' = "loop"
        /\ conn' = [LetGo EXCEPT ![c] = "handled"]
        /\ UNCHANGED g_stop
     \/ /\ "thread" \in Faults
        /\ Fail
        /\ conn' = [LetGo EXCEPT ![c] = "leaked"]
  /\ UNCHANGED <<running_, fd, main, cleaner, stop>>

\* A slip in the loop: any failure of accept ends it.
AcceptFailsForGood ==
  /\ \/ server = "refused"
     \/ server = "waiting" /\ "accept" \in Faults
  /\ Alive
  /\ server' = "returned"
  /\ conn' = LetGo
  /\ UNCHANGED <<g_stop, running_, fd, main, cleaner, stop>>

\* accept fails: break or continue.
AcceptFails ==
  /\ \/ server = "refused"
     \/ server = "waiting" /\ "accept" \in Faults
  /\ Alive
  /\ server' = IF running_ THEN "loop" ELSE "returned"
  /\ conn' = LetGo
  /\ UNCHANGED <<g_stop, running_, fd, main, cleaner, stop>>

-----------------------------------------------------------------------------
(***************************************************************************)
(* The cleanup thread.                                                     *)
(***************************************************************************)
\* A slip in the loop: g_stop is looked at before the sleep only.
WakeAndPurge ==
  /\ cleaner = "asleep"
  /\ Alive
  /\ cleaner' = "purging"
  /\ UNCHANGED <<g_stop, running_, fd, main, server, conn, stop>>

Wake ==
  /\ cleaner = "asleep"
  /\ Alive
  /\ cleaner' = IF g_stop THEN "returned" ELSE "purging"
  /\ UNCHANGED <<g_stop, running_, fd, main, server, conn, stop>>

\* A slip in the loop: an exception of purge_expired is caught outside it.
PurgedOrOver ==
  /\ cleaner = "purging"
  /\ Alive
  /\ cleaner' \in {"asleep", "returned"}
  /\ g_stop => cleaner' = "returned"
  /\ UNCHANGED <<g_stop, running_, fd, main, server, conn, stop>>

\* purge_expired returns, or throws, which is logged and no more.
Purged ==
  /\ cleaner = "purging"
  /\ Alive
  /\ cleaner' = IF g_stop THEN "returned" ELSE "asleep"
  /\ UNCHANGED <<g_stop, running_, fd, main, server, conn, stop>>

-----------------------------------------------------------------------------
(***************************************************************************)
(* The main thread.                                                        *)
(***************************************************************************)
\* A slip in stop: running_ is left as it is.
StopByClosing ==
  /\ main = "polling"
  /\ g_stop
  /\ main' = "closing"
  /\ stop' = [early |-> server \in {"created", "bind", "listening"},
              users |-> Users]
  /\ UNCHANGED <<g_stop, running_, fd, server, cleaner, conn>>

\* main sees g_stop and calls stop.
Stop ==
  /\ main = "polling"
  /\ g_stop
  /\ running_' = FALSE
  /\ main' = "closing"
  /\ stop' = [early |-> server \in {"created", "bind", "listening"},
              users |-> Users]
  /\ UNCHANGED <<g_stop, fd, server, cleaner, conn>>

\* A slip in stop: server_fd_ keeps the number of the closed socket.
CloseWithoutReset ==
  /\ main = "closing"
  /\ fd' = "closed"
  /\ conn' = IF server = "waiting" THEN conn ELSE ResetBacklog
  /\ main' = "joining"
  /\ UNCHANGED <<g_stop, running_, server, cleaner, stop>>

\* The rest of stop: the socket is closed.
CloseSocket ==
  /\ main = "closing"
  /\ fd' = "none"
  /\ conn' = IF server = "waiting" THEN conn ELSE ResetBacklog
  /\ main' = "joining"
  /\ UNCHANGED <<g_stop, running_, server, cleaner, stop>>

\* join returns; server, context, tokens and database are destroyed.  The
\* server's destructor stops it again.
Destroy ==
  /\ main = "joining"
  /\ server \in {"returned", "failed"}
  /\ main' = "destroyed"
  /\ running_' = FALSE
  /\ fd' = "none"
  /\ conn' = ResetBacklog
  /\ UNCHANGED <<g_stop, server, cleaner, stop>>

\* main returns, which ends every thread.
Exit ==
  /\ main = "destroyed"
  /\ main' = "exited"
  /\ UNCHANGED <<g_stop, running_, fd, server, cleaner, conn, stop>>

-----------------------------------------------------------------------------
\* The threads are started and the signal handlers installed.
Init ==
  /\ g_stop = FALSE
  /\ running_ = FALSE
  /\ fd = "none"
  /\ main = "polling"
  /\ server = "created"
  /\ cleaner = "asleep"
  /\ conn = [c \in Connections |-> "new"]
  /\ stop = [early |-> FALSE, users |-> {}]

MainNext == Stop \/ CloseSocket \/ Destroy \/ Exit

ServerNext ==
  \/ Socket \/ Listen \/ SetRunning \/ Loop \/ AcceptFails
  \/ \E c \in Connections : AcceptOne(c)

CleanerNext == Wake \/ Purged

ConnectionNext(c) == Handled(c) \/ SendKills(c)

Next ==
  \/ Signal
  \/ MainNext
  \/ ServerNext
  \/ CleanerNext
  \/ \E c \in Connections : Connect(c) \/ ConnectionNext(c)

Spec == Init /\ [][Next]_vars

\* The threads of main.cpp go on when they can, and accept does not fail for
\* ever on a connection that stays in the backlog.  Nothing is assumed of
\* clients, of the threads that serve them and of signals.
FairSpec ==
  /\ Spec
  /\ WF_vars(MainNext) /\ WF_vars(ServerNext) /\ WF_vars(CleanerNext)
  /\ \A c \in Connections : SF_vars(AcceptOne(c))

-----------------------------------------------------------------------------
(***************************************************************************)
(* Properties.                                                             *)
(***************************************************************************)
Ended == server \in {"returned", "failed"}

\* From the call of stop to the end of the process.
Stopping == main \in {"closing", "joining", "destroyed"}

\* What the accept loop has left to do once running_ is FALSE: return from
\* accept, then leave the loop.
LoopLeft ==
  IF server \in {"waiting", "refused"} THEN 2
  ELSE IF server = "loop" THEN 1
  ELSE 0

\* The state has the shape described above (the flags of main.cpp and
\* server.hpp and the places a thread can be in).
TypeOK ==
  /\ g_stop \in BOOLEAN
  /\ running_ \in BOOLEAN
  /\ fd \in {"none", "open", "listening"}
  /\ main \in {"polling", "closing", "joining", "destroyed", "exited"}
  /\ server \in {"created", "bind", "listening", "loop", "waiting", "refused",
                 "returned", "failed"}
  /\ cleaner \in {"asleep", "purging", "returned"}
  /\ conn \in [Connections ->
       {"new", "backlog", "handled", "closed", "refused", "leaked"}]
  /\ stop \in [early : BOOLEAN, users : SUBSET (Connections \cup {"cleanup"})]

\* Detached threads outlive what they use.  Of those that still use database
\* and server when main destroys them, all but one were at it when stop was
\* called: the one is the connection that woke accept (main.cpp:172-210,
\* server.cpp:81-98).
OutlivedByOneNew ==
  main = "destroyed" /\ ~stop.early =>
    Cardinality(Users \ stop.users) <= 1

\* After stop, called when start had set running_, the accept loop does not come
\* back to accept: whatever it does next, other than wait, brings it nearer to
\* its end (server.cpp:80-108).
ServerWindsDown ==
  [][Stopping /\ ~stop.early /\ server' # server => LoopLeft' < LoopLeft]_vars

\* stop, called when start had set running_, ends the process if accept is not
\* waiting or another connection comes (server.cpp:81-108, main.cpp:206-210).
StopEnds ==
  (main = "joining" /\ ~stop.early
     /\ (server # "waiting" \/ \E c \in Connections : conn[c] = "backlog"))
    ~> (main = "exited")

\* A start that failed does not leave the process idle (main.cpp:197-203).
FailedStartEnds == (server = "failed") ~> (main = "exited")

\* The accept loop leaves no connection waiting: it is taken, or refused when
\* the socket is closed, whatever accepts fail before (server.cpp:81-99).
BacklogIsServed ==
  \A c \in Connections :
    (conn[c] = "backlog") ~> (conn[c] # "backlog" \/ main = "exited")

\* Whatever a purge comes to, while the node runs and was not told to stop there
\* is a next one (main.cpp:172-187).
CleanupGoesOn == []<>(cleaner = "purging" \/ g_stop \/ ~Alive)

-----------------------------------------------------------------------------
(***************************************************************************)
(* What a comment says beyond that.                                        *)
(***************************************************************************)
\* server.hpp:75, of start: "Blocks until stop() is called."
StartEndsWithStop == (main = "joining") ~> (Ended \/ main = "exited")

=============================================================================
