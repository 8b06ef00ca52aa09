----------------------- MODULE ServerLifecycleProofs -----------------------
(***************************************************************************)
(* What the threads of a node leave behind when it stops, for any number   *)
(* of connections and any faults.                                          *)
(***************************************************************************)
EXTENDS ServerLifecycle, FiniteSetTheorems, TLAPS

\* What is observed at stop has its type.
LEMMA ObservedType ==
  ASSUME NEW early \in BOOLEAN, NEW users \in SUBSET (Connections \cup {"cleanup"})
  PROVE  [early |-> early, users |-> users]
           \in [early : BOOLEAN, users : SUBSET (Connections \cup {"cleanup"})]
  BY Zenon

LEMMA TypeInit == Init => TypeOK
<1> SUFFICES ASSUME Init
             PROVE  TypeOK
  OBVIOUS
<1>1. stop \in [early : BOOLEAN, users : SUBSET (Connections \cup {"cleanup"})]
  BY ObservedType DEF Init
<1> QED
  BY <1>1 DEF Init, TypeOK

LEMMA TypeStep == TypeOK /\ [Next]_vars => TypeOK'
<1> SUFFICES ASSUME TypeOK, [Next]_vars
             PROVE  TypeOK'
  OBVIOUS
<1> USE DEF TypeOK
<1>1. CASE Signal
  BY <1>1 DEF Signal
<1>2. ASSUME NEW c \in Connections, Connect(c)
      PROVE  TypeOK'
  BY <1>2 DEF Connect
<1>3. ASSUME NEW c \in Connections, ConnectionNext(c)
      PROVE  TypeOK'
  BY <1>3 DEF ConnectionNext, Handled, SendKills
<1>4. CASE ServerNext
  <2>1. ResetBacklog \in [Connections -> {"new", "backlog", "handled", "closed",
                                          "refused", "leaked"}]
    BY DEF ResetBacklog
  <2>2. CASE Socket \/ Listen \/ SetRunning \/ Loop
    BY <2>2 DEF Socket, Listen, SetRunning, Loop, Fail
  <2>3. CASE AcceptFails
    BY <2>1, <2>3 DEF AcceptFails, LetGo
  <2>4. ASSUME NEW c \in Connections, AcceptOne(c)
        PROVE  TypeOK'
    BY <2>1, <2>4 DEF AcceptOne, LetGo, Fail
  <2> QED
    BY <1>4, <2>2, <2>3, <2>4 DEF ServerNext
<1>5. CASE CleanerNext
  BY <1>5 DEF CleanerNext, Wake, Purged
<1>6. CASE MainNext
  <2>1. ResetBacklog \in [Connections -> {"new", "backlog", "handled", "closed",
                                          "refused", "leaked"}]
    BY DEF ResetBacklog
  <2>2. CASE Stop
    <3>1. Users \in SUBSET (Connections \cup {"cleanup"})
      BY DEF Users
    <3>2. stop' \in [early : BOOLEAN, users : SUBSET (Connections \cup {"cleanup"})]
      BY <2>2, <3>1, ObservedType DEF Stop
    <3> QED
      BY <2>2, <3>2 DEF Stop
  <2>3. CASE CloseSocket
    BY <2>1, <2>3 DEF CloseSocket
  <2>4. CASE Destroy
    BY <2>1, <2>4 DEF Destroy
  <2>5. CASE Exit
    BY <2>5 DEF Exit
  <2> QED
    BY <1>6, <2>2, <2>3, <2>4, <2>5 DEF MainNext
<1>7. CASE UNCHANGED vars
  BY <1>7 DEF vars
<1> QED
  BY <1>1, <1>2, <1>3, <1>4, <1>5, <1>6, <1>7 DEF Next

\* The state keeps its shape (main.cpp:146-219, server.cpp:55-108).
THEOREM LifecycleTypes == Spec => []TypeOK
<1> QED
  BY TypeInit, TypeStep, PTL DEF Spec

-----------------------------------------------------------------------------
(***************************************************************************)
(* Once stop was called, in time, only an accept that was waiting then     *)
(* still makes a thread.                                                   *)
(***************************************************************************)
StopInv ==
  Stopping =>
    /\ g_stop
    /\ ~stop.early =>
         /\ ~running_
         /\ server \notin {"created", "bind", "listening"}
         /\ \E c \in Connections \cup {"cleanup"} :
              Users \subseteq stop.users \cup {c}
         /\ server = "waiting" => Users \subseteq stop.users

\* Nobody begins to use what main owns unless a connection is taken or the
\* cleanup wakes.
LEMMA NoNewUser ==
  ASSUME \A c \in Connections : conn'[c] = "handled" => conn[c] = "handled",
         cleaner' = "purging" => cleaner = "purging"
  PROVE  Users' \subseteq Users
  BY DEF Users

\* A step that takes no connection, and leaves flags and observation alone.
LEMMA QuietStep ==
  ASSUME StopInv,
         Stopping' => Stopping,
         Stopping => /\ g_stop'
                     /\ stop' = stop
                     /\ ~running_ => ~running_',
         Stopping => Users' \subseteq Users,
         Stopping /\ ~stop.early =>
           /\ server' \notin {"created", "bind", "listening"}
           /\ server' = "waiting" => server = "waiting"
  PROVE  StopInv'
  BY DEF StopInv

LEMMA BacklogIsUnhandled ==
  \A c \in Connections : ResetBacklog[c] = "handled" => conn[c] = "handled"
  BY DEF ResetBacklog

LEMMA StopStep == TypeOK /\ StopInv /\ [Next]_vars => StopInv'
<1> SUFFICES ASSUME TypeOK, StopInv, [Next]_vars
             PROVE  StopInv'
  OBVIOUS
<1> USE DEF Stopping
<1>1. CASE Signal
  BY <1>1, NoNewUser, QuietStep DEF Signal, StopInv, Users
<1>2. ASSUME NEW c \in Connections, Connect(c)
      PROVE  StopInv'
  <2>1. Users' \subseteq Users
    BY <1>2, NoNewUser DEF Connect, TypeOK
  <2> QED
    BY <1>2, <2>1, QuietStep DEF Connect, StopInv
<1>3. ASSUME NEW c \in Connections, ConnectionNext(c)
      PROVE  StopInv'
  <2>1. Users' \subseteq Users
    BY <1>3, NoNewUser DEF ConnectionNext, Handled, SendKills, TypeOK
  <2> QED
    BY <1>3, <2>1, QuietStep DEF ConnectionNext, Handled, SendKills, StopInv
<1>4. CASE Socket \/ Listen \/ SetRunning \/ Loop
  <2>1. Users' \subseteq Users
    BY <1>4, NoNewUser DEF Socket, Listen, SetRunning, Loop
  <2> QED
    BY <1>4, <2>1, QuietStep
       DEF Socket, Listen, SetRunning, Loop, Fail, StopInv
<1>5. CASE AcceptFails
  <2>1. Users' \subseteq Users
    BY <1>5, NoNewUser, BacklogIsUnhandled DEF AcceptFails, LetGo
  <2> QED
    BY <1>5, <2>1, QuietStep DEF AcceptFails, StopInv
<1>6. ASSUME NEW c \in Connections, AcceptOne(c)
      PROVE  StopInv'
  <2>1. Users' \subseteq Users \cup {c}
    <3>1. \A d \in Connections : conn'[d] = "handled" => d = c \/ conn[d] = "handled"
      BY <1>6, BacklogIsUnhandled DEF AcceptOne, LetGo, TypeOK, ResetBacklog
    <3> QED
      BY <1>6, <3>1 DEF AcceptOne, Users
  <2>2. server = "waiting" /\ server' \in {"loop", "failed"}
    BY <1>6 DEF AcceptOne, Fail
  <2> SUFFICES ASSUME Stopping'
               PROVE  /\ g_stop'
                      /\ ~stop.early' =>
                           /\ ~running_'
                           /\ \E d \in Connections \cup {"cleanup"} :
                                Users' \subseteq stop.users' \cup {d}
    BY <2>2 DEF StopInv
  <2>3. Stopping /\ UNCHANGED <<running_, stop>> /\ (g_stop => g_stop')
    BY <1>6 DEF AcceptOne, Fail
  <2> QED
    BY <2>1, <2>2, <2>3 DEF StopInv
<1>7. CASE CleanerNext
  <2>1. Stopping => Users' \subseteq Users
    BY <1>7, NoNewUser DEF CleanerNext, Wake, Purged, StopInv
  <2> QED
    BY <1>7, <2>1, QuietStep DEF CleanerNext, Wake, Purged, StopInv
<1>8. CASE Stop
  <2>1. Users' = Users /\ stop'.users = Users
    BY <1>8 DEF Stop, Users
  <2> QED
    BY <1>8, <2>1 DEF Stop, StopInv
<1>9. CASE CloseSocket \/ Destroy \/ Exit
  <2>1. Users' \subseteq Users
    BY <1>9, NoNewUser, BacklogIsUnhandled DEF CloseSocket, Destroy, Exit
  <2> QED
    BY <1>9, <2>1, QuietStep DEF CloseSocket, Destroy, Exit, StopInv
<1>10. CASE UNCHANGED vars
  BY <1>10 DEF vars, StopInv, Users
<1> QED
  BY <1>1, <1>2, <1>3, <1>4, <1>5, <1>6, <1>7, <1>8, <1>9, <1>10
     DEF Next, ServerNext, MainNext

LEMMA StopInvGives == StopInv => OutlivedByOneNew
<1> SUFFICES ASSUME StopInv, main = "destroyed", ~stop.early
             PROVE  Cardinality(Users \ stop.users) <= 1
  BY DEF OutlivedByOneNew
<1>1. PICK c \in Connections \cup {"cleanup"} :
        Users \subseteq stop.users \cup {c}
  BY DEF StopInv, Stopping
<1>2. Users \ stop.users = {} \/ Users \ stop.users = {c}
  BY <1>1
<1>3. Cardinality({}) = 0 /\ Cardinality({c}) = 1
  BY FS_EmptySet, FS_Singleton
<1> DEFINE late == Users \ stop.users
<1>4. late = {} \/ late = {c}
  BY <1>2
<1> HIDE DEF late
<1>5. Cardinality(late) = 0 \/ Cardinality(late) = 1
  BY <1>3, <1>4, Zenon
<1>6. Cardinality(late) <= 1
  BY <1>5
<1> QED
  BY <1>6 DEF late

\* Of the threads that use database and server while main destroys them, at most
\* one came after stop was called (main.cpp:205-212, server.cpp:81-108).
THEOREM AtMostOneOutlives == Spec => []OutlivedByOneNew
<1>1. Init => StopInv
  BY DEF Init, StopInv, Stopping
<1> QED
  BY <1>1, TypeInit, TypeStep, StopStep, StopInvGives, PTL DEF Spec

-----------------------------------------------------------------------------
(***************************************************************************)
(* StopInv also bounds what the server thread still does.                  *)
(***************************************************************************)
Winds == Stopping /\ ~stop.early /\ server' # server => LoopLeft' < LoopLeft

LEMMA WindsStep == TypeOK /\ StopInv /\ [Next]_vars => [Winds]_vars
<1> SUFFICES ASSUME TypeOK, StopInv, Next, Stopping, ~stop.early, server' # server
             PROVE  LoopLeft' < LoopLeft
  BY DEF Winds
<1>1. ~running_ /\ server \notin {"created", "bind", "listening"}
  BY DEF StopInv
<1>2. ServerNext
  BY DEF Next, Signal, Connect, ConnectionNext, Handled, SendKills,
         CleanerNext, Wake, Purged, MainNext, Stop, CloseSocket, Destroy, Exit
<1>3. CASE Socket \/ Listen \/ SetRunning
  BY <1>1, <1>3 DEF Socket, Listen, SetRunning, Fail
<1>4. CASE Loop
  BY <1>1, <1>4 DEF Loop, LoopLeft
<1>5. CASE AcceptFails
  BY <1>1, <1>5 DEF AcceptFails, LoopLeft
<1>6. ASSUME NEW c \in Connections, AcceptOne(c)
      PROVE  LoopLeft' < LoopLeft
  BY <1>6 DEF AcceptOne, Fail, LoopLeft
<1> QED
  BY <1>2, <1>3, <1>4, <1>5, <1>6 DEF ServerNext

\* After a stop in time the server thread takes two steps at most: accept
\* returns, and the loop ends (server.cpp:80-108).  What no proof can give is
\* that the accept it waits in does return.
THEOREM LoopWindsDown == Spec => ServerWindsDown
<1>1. Init => StopInv
  BY DEF Init, StopInv, Stopping
<1>2. Spec => [][Winds]_vars
  BY <1>1, TypeInit, TypeStep, StopStep, WindsStep, PTL DEF Spec
<1> QED
  BY <1>2 DEF ServerWindsDown, Winds
=============================================================================
