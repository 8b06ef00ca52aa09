-------------------------- MODULE ClientStateProofs --------------------------
(***************************************************************************)
(* What holds of a tab for any chats, messages, servers, lengths and any   *)
(* number of overlapping rounds of polls.  At the heart is that a cursor   *)
(* stands on a listed message wherever it is: in memory, in what is saved  *)
(* and in the polls under way.                                             *)
(***************************************************************************)
EXTENDS ClientState, PayloadSplitProofs, FiniteSetTheorems

RoundType == [kind : {"none", "open", "timer"}, poll : [Chats -> Poll]]

\* t is no time, or that of a message of c in L.
Stands(L, c, t) == t # 0 => \E m \in L : ChatOf[m] = c /\ Time[m] = t

\* A poll of c; only one that lists for a chat that is not open has counted.
PollOK(L, c, p) ==
  /\ p \in Poll
  /\ p.todo \subseteq Of(c)
  /\ Stands(L, c, p.max)
  /\ p.pc # "decrypting" \/ p.isActive => p.fresh = {}

RoundOK(L, q) ==
  /\ q \in RoundType
  /\ \A c \in Chats : PollOK(L, c, q.poll[c])
  /\ q.kind = "none" => \A c \in Chats : q.poll[c].pc = "idle"

SendOK ==
  send.pc = "posting" =>
    /\ send.chat \in Chats
    /\ send.msg \subseteq Mine
    /\ send.servers \in Servers[send.chat]
    /\ send.length \in Lengths
    /\ send.chunks = Split(send.length, send.servers)

CursorsOK ==
  /\ \A c \in Chats : Stands(listed, c, cursor[c])
  /\ \A c \in DOMAIN saved : Stands(listed, c, saved[c])
  /\ \A r \in Rounds : RoundOK(listed, round[r])

\* What a poll noted to be the open chat is open, or was left or removed.
LeftOK ==
  \A r \in Rounds, c \in Chats :
    round[r].poll[c].isActive => c = active \/ c \in left \cup removed

Unseen(c) == (list[c] \ Mine) \ seen

Watched == Chats \ (left \cup removed)

HiddenOK == \A c \in Watched : Cardinality(Hidden(c)) <= unread[c]

Inv ==
  /\ TypeOK
  /\ SendOK
  /\ CursorsOK
  /\ LeftOK
  /\ HiddenOK
  /\ ViewIsOfOpenChat
  /\ RemovedStaysRemoved

-----------------------------------------------------------------------------
LEMMA TimeType == \A m \in Messages : Time[m] \in Nat /\ ChatOf[m] \in Chats
  BY ClientAssumption

LEMMA IdleTypes ==
  ASSUME NEW L
  PROVE  /\ IdlePoll \in Poll /\ IdlePoll.todo = {} /\ IdlePoll.max = 0
         /\ IdlePoll.pc = "idle" /\ IdlePoll.fresh = {} /\ ~IdlePoll.isActive
         /\ IdleRound \in RoundType
         /\ \A c \in Chats : PollOK(L, c, IdlePoll) /\ IdleRound.poll[c] = IdlePoll
         /\ RoundOK(L, IdleRound)
<1>1. IdlePoll \in Poll
  BY Zenon DEF IdlePoll, Poll
<1>2. /\ IdlePoll.todo = {} /\ IdlePoll.max = 0
      /\ IdlePoll.pc = "idle" /\ IdlePoll.fresh = {} /\ ~IdlePoll.isActive
  BY Zenon DEF IdlePoll
<1>3. \A c \in Chats : PollOK(L, c, IdlePoll)
  BY <1>1, <1>2 DEF PollOK, Stands
<1>4. /\ IdleRound.kind = "none"
      /\ IdleRound.poll = [c \in Chats |-> IdlePoll]
      /\ IdleRound = [kind |-> IdleRound.kind, poll |-> IdleRound.poll]
  BY DEF IdleRound
<1>5. IdleRound \in RoundType
  BY <1>1, <1>4 DEF RoundType
<1> QED
  BY <1>1, <1>2, <1>3, <1>4, <1>5 DEF RoundOK

LEMMA BegunOK ==
  ASSUME NEW L, NEW c \in Chats, cursor[c] \in Nat
  PROVE  /\ PollOK(L, c, Begun(c))
         /\ Begun(c).pc \in {"importing", "fetching"}
         /\ Begun(c).max = 0 /\ ~Begun(c).isActive
<1> DEFINE p == Begun(c)
<1>1. /\ p \in Poll /\ p.todo = IdlePoll.todo /\ p.max = IdlePoll.max
      /\ p.fresh = IdlePoll.fresh /\ p.isActive = IdlePoll.isActive
      /\ p.pc \in {"importing", "fetching"}
  <2>1. IdlePoll \in Poll
    BY IdleTypes
  <2>2. CASE c \in BadKeys
    <3>1. p = [IdlePoll EXCEPT !.pc = "importing"]
      BY <2>2 DEF Begun
    <3> HIDE DEF p
    <3> QED
      BY <2>1, <3>1 DEF Poll
  <2>3. CASE c \notin BadKeys
    <3>1. p = [IdlePoll EXCEPT !.pc = "fetching", !.since = cursor[c]]
      BY <2>3 DEF Begun, Fetching
    <3> HIDE DEF p
    <3> QED
      BY <2>1, <3>1 DEF Poll
  <2> QED
    BY <2>2, <2>3
<1>2. p.todo = {} /\ p.max = 0 /\ p.fresh = {} /\ ~p.isActive
  BY <1>1, IdleTypes
<1> HIDE DEF p
<1>3. PollOK(L, c, p)
  BY <1>1, <1>2 DEF PollOK, Stands
<1> QED
  BY <1>1, <1>2, <1>3 DEF p

\* A listed message stays listed.
LEMMA StandsStill ==
  ASSUME NEW L, NEW M, L \subseteq M
  PROVE  /\ \A c, t : Stands(L, c, t) => Stands(M, c, t)
         /\ \A c, p : PollOK(L, c, p) => PollOK(M, c, p)
         /\ \A q : RoundOK(L, q) => RoundOK(M, q)
<1>1. \A c, t : Stands(L, c, t) => Stands(M, c, t)
  BY DEF Stands
<1>2. \A c, p : PollOK(L, c, p) => PollOK(M, c, p)
  BY <1>1 DEF PollOK
<1>3. \A q : RoundOK(L, q) => RoundOK(M, q)
  BY <1>2 DEF RoundOK
<1> QED
  BY <1>1, <1>2, <1>3

LEMMA AfterOK ==
  ASSUME NEW L, NEW r \in Rounds, NEW c \in Chats, NEW p,
         RoundOK(L, round[r]), round[r].kind # "none", PollOK(L, c, p)
  PROVE  /\ RoundOK(L, After(r, c, p))
         /\ After(r, c, p).poll[c].fresh = p.fresh
         /\ \A d \in Chats \ {c} :
              After(r, c, p).poll[d].fresh = round[r].poll[d].fresh
         /\ After(r, c, p).poll[c].isActive => p.isActive
         /\ \A d \in Chats \ {c} :
              After(r, c, p).poll[d].isActive => round[r].poll[d].isActive
<1> DEFINE polls == [round[r].poll EXCEPT ![c] = p]
           q == [round[r] EXCEPT !.poll = polls]
<1>1. round[r] \in RoundType /\ p \in Poll
  BY DEF RoundOK, PollOK
<1>2. polls \in [Chats -> Poll]
  BY <1>1 DEF RoundType
<1>3. /\ \A d \in Chats : PollOK(L, d, polls[d])
      /\ \A d \in Chats : polls[d] = IF d = c THEN p ELSE round[r].poll[d]
  BY <1>1 DEF RoundOK, RoundType
<1>4. \/ After(r, c, p) = q
      \/ After(r, c, p) = IdleRound /\ \A d \in Chats : polls[d].pc = "idle"
  BY DEF After
<1> HIDE DEF polls
<1>5. q \in RoundType /\ q.poll = polls /\ q.kind = round[r].kind
  BY <1>1, <1>2 DEF RoundType
<1>6. RoundOK(L, q)
  BY <1>3, <1>5 DEF RoundOK
<1> HIDE DEF q
<1>7. CASE After(r, c, p) = q
  BY <1>3, <1>5, <1>6, <1>7
<1>8. CASE After(r, c, p) = IdleRound /\ \A d \in Chats : polls[d].pc = "idle"
  <2>1. \A d \in Chats : polls[d].fresh = {}
    BY <1>3, <1>8 DEF PollOK
  <2>2. \A d \in Chats :
          IdleRound.poll[d].fresh = {} /\ ~IdleRound.poll[d].isActive
    BY IdleTypes
  <2>3. RoundOK(L, IdleRound)
    BY IdleTypes
  <2> QED
    BY <1>3, <1>8, <2>1, <2>2, <2>3
<1> QED
  BY <1>4, <1>7, <1>8

LEMMA InvTypes ==
  Inv => /\ chats \subseteq Chats /\ DOMAIN saved \subseteq Chats
         /\ saved \in [DOMAIN saved -> Nat]
         /\ cursor \in [Chats -> Nat] /\ unread \in [Chats -> Nat]
         /\ list \in [Chats -> SUBSET Messages]
         /\ timer \in BOOLEAN /\ stalled \in BOOLEAN
         /\ round \in [Rounds -> RoundType]
         /\ active \in chats \cup {NoChat}
         /\ seen \subseteq Messages
         /\ CursorsOK /\ LeftOK /\ HiddenOK
  BY DEF Inv, TypeOK, RoundType

\* One round changes.
LEMMA OneRound ==
  ASSUME Inv, NEW L, listed \subseteq L, NEW r \in Rounds, NEW q, RoundOK(L, q),
         round' = [round EXCEPT ![r] = q]
  PROVE  /\ round' \in [Rounds -> RoundType]
         /\ \A d \in Rounds : RoundOK(L, round'[d])
         /\ round'[r] = q
         /\ \A d \in Rounds \ {r} : round'[d] = round[d]
<1>1. \A d \in Rounds : RoundOK(L, round[d])
  BY InvTypes, StandsStill DEF CursorsOK
<1>2. round \in [Rounds -> RoundType] /\ q \in RoundType
  BY InvTypes DEF RoundOK
<1>3. \A d \in Rounds : round'[d] = IF d = r THEN q ELSE round[d]
  BY <1>2
<1>4. \A d \in Rounds : RoundOK(L, round'[d])
  BY <1>1, <1>3
<1> QED
  BY <1>2, <1>3, <1>4

\* Hidden messages are no more than before but for those of E.
LEMMA HiddenMore ==
  ASSUME Inv, NEW c \in Watched, NEW E \in SUBSET Messages,
         NEW H, H \subseteq Hidden(c) \cup E
  PROVE  Cardinality(H) <= unread[c] + Cardinality(E)
<1>1. /\ Hidden(c) \subseteq Messages
      /\ Cardinality(Hidden(c)) <= unread[c] /\ unread[c] \in Nat
  BY InvTypes DEF Hidden, HiddenOK, Watched
<1>2. /\ IsFiniteSet(Hidden(c)) /\ IsFiniteSet(E)
      /\ Cardinality(Hidden(c)) \in Nat /\ Cardinality(E) \in Nat
  BY <1>1, ClientAssumption, FS_Subset, FS_CardinalityType
<1>3. /\ IsFiniteSet(Hidden(c) \cup E)
      /\ Cardinality(Hidden(c) \cup E) =
           Cardinality(Hidden(c)) + Cardinality(E) - Cardinality(Hidden(c) \cap E)
  BY <1>2, FS_Union
<1>4. Cardinality(Hidden(c) \cap E) \in Nat
  BY <1>2, FS_Intersection, FS_CardinalityType
<1>5. Cardinality(H) \in Nat /\ Cardinality(H) <= Cardinality(Hidden(c) \cup E)
  BY <1>3, FS_Subset, FS_CardinalityType
<1> QED
  BY <1>1, <1>2, <1>3, <1>4, <1>5

\* What is listed, seen and pending may change as long as nothing more is
\* hidden.
LEMMA HiddenNoMore ==
  ASSUME Inv, unread' = unread, left \subseteq left', removed \subseteq removed',
         \A c \in Watched : Hidden(c)' \subseteq Hidden(c)
  PROVE  HiddenOK'
<1> SUFFICES ASSUME NEW c \in Watched
             PROVE  Cardinality(Hidden(c)') <= unread[c]
  BY DEF HiddenOK, Watched
<1>1. {} \in SUBSET Messages /\ Hidden(c)' \subseteq Hidden(c) \cup {}
  OBVIOUS
<1>2. Cardinality(Hidden(c)') <= unread[c] + Cardinality({})
  BY <1>1, HiddenMore
<1>3. Cardinality({}) = 0 /\ unread[c] \in Nat
  BY FS_EmptySet, InvTypes DEF Watched
<1> QED
  BY <1>2, <1>3

\* Polls note the open chat alone, and those that noted another go on.
LEMMA LeftKept ==
  ASSUME Inv, active' = active, left \subseteq left', removed \subseteq removed',
         \A k \in Rounds, d \in Chats :
           round'[k].poll[d].isActive => round[k].poll[d].isActive \/ d = active
  PROVE  LeftOK'
  BY InvTypes DEF LeftOK

\* A round that changes without losing what it counts keeps it pending, and a
\* free one counts nothing.
LEMMA PendingKept ==
  ASSUME Inv, NEW r \in Rounds, NEW q, round' = [round EXCEPT ![r] = q],
         NEW d \in Chats, round[r].poll[d].fresh \subseteq q.poll[d].fresh
  PROVE  Pending(d) \subseteq Pending(d)'
<1>1. \A k \in Rounds : round'[k] = IF k = r THEN q ELSE round[k]
  BY InvTypes
<1> QED
  BY <1>1 DEF Pending

LEMMA FreeCountsNothing ==
  ASSUME Inv, NEW r \in Rounds, Free(r)
  PROVE  \A d \in Chats : round[r].poll[d].fresh = {}
  BY InvTypes DEF Free, CursorsOK, RoundOK, PollOK

\* What Proceed does to the tab.
LEMMA ProceedOK ==
  ASSUME Inv, NEW r \in Rounds, NEW c \in Chats, NEW p,
         listed \subseteq listed', PollOK(listed', c, p),
         Proceed(r, c, p), round[r].kind # "none",
         UNCHANGED <<active, left, removed>>,
         \A d \in Chats \ {c} : Unseen(d)' \subseteq Unseen(d),
         c \in Watched => Unseen(c)' \subseteq Unseen(c) \cup p.fresh,
         round[r].poll[c].fresh \subseteq p.fresh,
         p.isActive => round[r].poll[c].isActive \/ c = active
  PROVE  /\ DOMAIN saved' \subseteq DOMAIN saved \cup chats
         /\ saved' \in [DOMAIN saved' -> Nat]
         /\ cursor' \in [Chats -> Nat]
         /\ unread' \in [Chats -> Nat]
         /\ timer' \in BOOLEAN
         /\ round' \in [Rounds -> RoundType]
         /\ CursorsOK'
         /\ LeftOK'
         /\ HiddenOK'
<1> DEFINE S(d, t) == Stands(listed', d, t)
<1>1. /\ chats \subseteq Chats /\ DOMAIN saved \subseteq Chats
      /\ saved \in [DOMAIN saved -> Nat]
      /\ cursor \in [Chats -> Nat] /\ unread \in [Chats -> Nat]
      /\ timer \in BOOLEAN
  BY InvTypes
<1>2. /\ \A d \in Chats : S(d, cursor[d])
      /\ \A d \in DOMAIN saved : S(d, saved[d])
      /\ RoundOK(listed', round[r])
  BY InvTypes, StandsStill DEF CursorsOK
<1>3. p \in Poll /\ S(c, p.max)
  BY DEF PollOK
<1>4. /\ p.max \in Nat /\ p.isActive \in BOOLEAN
      /\ p.fresh \in SUBSET Messages /\ Cardinality(p.fresh) \in Nat
  <2>1. p.max \in Nat /\ p.isActive \in BOOLEAN /\ p.fresh \in SUBSET Messages
    BY <1>3 DEF Poll
  <2> QED
    BY <2>1, ClientAssumption, FS_Subset, FS_CardinalityType
<1>7. /\ Watched \subseteq Chats /\ Watched' = Watched
      /\ \A d \in Watched \ {c} : Unseen(d)' \subseteq Unseen(d)
      /\ \A d \in Chats : Hidden(d) = Unseen(d) \ Pending(d)
      /\ \A d \in Chats : Hidden(d)' = Unseen(d)' \ Pending(d)'
  BY DEF Watched, Hidden, Unseen
<1>8. ASSUME NEW x, round' = [round EXCEPT ![r] = After(r, c, x)],
             PollOK(listed', c, x), x.isActive => p.isActive
      PROVE  LeftOK'
  <2>1. /\ After(r, c, x).poll[c].isActive => x.isActive
        /\ \A d \in Chats \ {c} :
             After(r, c, x).poll[d].isActive => round[r].poll[d].isActive
    BY <1>2, <1>8, AfterOK
  <2>2. \A k \in Rounds :
          round'[k] = IF k = r THEN After(r, c, x) ELSE round[k]
    BY <1>8, InvTypes
  <2>3. \A k \in Rounds, d \in Chats :
          round'[k].poll[d].isActive => round[k].poll[d].isActive \/ d = active
    BY <1>8, <2>1, <2>2
  <2> QED
    BY <2>3, LeftKept
<1>5. CASE p.todo # {}
  <2>1. /\ round' = [round EXCEPT ![r] = After(r, c, p)]
        /\ saved' = saved /\ cursor' = cursor /\ unread' = unread /\ timer' = timer
    BY <1>5 DEF Proceed, GoesOn
  <2>2. /\ RoundOK(listed', After(r, c, p))
        /\ After(r, c, p).poll[c].fresh = p.fresh
        /\ \A d \in Chats \ {c} :
             After(r, c, p).poll[d].fresh = round[r].poll[d].fresh
    BY <1>2, AfterOK
  <2>3. /\ round' \in [Rounds -> RoundType]
        /\ \A d \in Rounds : RoundOK(listed', round'[d])
    BY <2>1, <2>2, OneRound
  <2>4. \A d \in Chats : Pending(d) \subseteq Pending(d)'
    BY <2>1, <2>2, PendingKept
  <2>5. p.fresh \subseteq Pending(c)'
    BY <2>1, <2>2, OneRound DEF Pending
  <2>6. \A d \in Watched : Hidden(d)' \subseteq Hidden(d)
    BY <2>4, <2>5, <1>7
  <2>7. HiddenOK'
    BY <2>1, <2>6, HiddenNoMore
  <2>8. LeftOK'
    BY <2>1, <1>8
  <2> QED
    BY <1>1, <1>2, <2>1, <2>3, <2>7, <2>8 DEF CursorsOK
<1>6. CASE p.todo = {}
  <2>1. /\ cursor' = [cursor EXCEPT ![c] = MaxOf(@, p.max)]
        /\ saved' = IF p.max > cursor[c] THEN Saved(chats, cursor') ELSE saved
        /\ unread' = [unread EXCEPT ![c] =
             IF p.isActive THEN @ ELSE @ + Cardinality(p.fresh)]
        /\ timer' = (timer \/ round[r].kind = "open")
        /\ round' = [round EXCEPT ![r] = After(r, c, IdlePoll)]
    BY <1>6 DEF Proceed, Finish
  <2>2. cursor' \in [Chats -> Nat] /\ \A d \in Chats : S(d, cursor'[d])
    <3> DEFINE t == MaxOf(cursor[c], p.max)
    <3>1. t = cursor[c] \/ t = p.max
      BY DEF MaxOf
    <3>2. t \in Nat /\ S(c, t)
      <4> HIDE DEF t
      <4> QED
        BY <3>1, <1>1, <1>2, <1>3, <1>4
    <3>3. cursor' = [cursor EXCEPT ![c] = t]
      BY <2>1
    <3> HIDE DEF t
    <3>4. \A d \in Chats : cursor'[d] = IF d = c THEN t ELSE cursor[d]
      BY <3>3, <1>1
    <3> QED
      BY <3>2, <3>3, <3>4, <1>1, <1>2
  <2>3. /\ DOMAIN saved' \subseteq DOMAIN saved \cup chats
        /\ saved' \in [DOMAIN saved' -> Nat]
        /\ \A d \in DOMAIN saved' : S(d, saved'[d])
    <3>1. CASE p.max > cursor[c]
      <4>1. saved' = [d \in chats |-> cursor'[d]]
        BY <2>1, <3>1 DEF Saved
      <4> QED
        BY <4>1, <2>2, <1>1
    <3>2. CASE ~(p.max > cursor[c])
      BY <2>1, <3>2, <1>1, <1>2
    <3> QED
      BY <3>1, <3>2
  <2>4. unread' \in [Chats -> Nat]
    BY <2>1, <1>1, <1>4
  <2>5. timer' \in BOOLEAN
    BY <2>1, <1>1
  <2>6. /\ round' \in [Rounds -> RoundType]
        /\ \A d \in Rounds : RoundOK(listed', round'[d])
    <3>1. PollOK(listed', c, IdlePoll)
      BY IdleTypes
    <3>2. RoundOK(listed', After(r, c, IdlePoll))
      BY <3>1, <1>2, AfterOK
    <3> QED
      BY <3>2, <2>1, OneRound
  <2>8. HiddenOK'
    <3>1. PollOK(listed', c, IdlePoll)
      BY IdleTypes
    <3>2. /\ RoundOK(listed', After(r, c, IdlePoll))
          /\ \A d \in Chats \ {c} :
               After(r, c, IdlePoll).poll[d].fresh = round[r].poll[d].fresh
      BY <3>1, <1>2, AfterOK
    <3>3. \A d \in Watched \ {c} : Hidden(d)' \subseteq Hidden(d) \cup {}
      <4>1. \A d \in Chats \ {c} : Pending(d) \subseteq Pending(d)'
        BY <3>2, <2>1, PendingKept
      <4> QED
        BY <4>1, <1>7
    <3>4. c \in Watched => Hidden(c)' \subseteq Hidden(c) \cup p.fresh
      <4>1. \A x \in Pending(c) : x \in Pending(c)' \/ x \in p.fresh
        <5>1. \A k \in Rounds \ {r} : round'[k] = round[k]
          BY <2>1, InvTypes
        <5> QED
          BY <5>1 DEF Pending
      <4> QED
        BY <4>1, <1>7
    <3>5. \A d \in Watched \ {c} : Cardinality(Hidden(d)') <= unread'[d]
      <4> TAKE d \in Watched \ {c}
      <4>1. {} \in SUBSET Messages /\ Cardinality({}) = 0
        BY FS_EmptySet
      <4>2. Cardinality(Hidden(d)') <= unread[d] + Cardinality({})
        BY <3>3, <4>1, HiddenMore
      <4>3. unread'[d] = unread[d] /\ unread[d] \in Nat
        BY <2>1, <1>1, <1>7
      <4> QED
        BY <4>1, <4>2, <4>3
    <3>6. c \in Watched => Cardinality(Hidden(c)') <= unread'[c]
      <4> SUFFICES ASSUME c \in Watched
                   PROVE  Cardinality(Hidden(c)') <= unread'[c]
        OBVIOUS
      <4>1. Cardinality(Hidden(c)') <= unread[c] + Cardinality(p.fresh)
        BY <3>4, <1>4, HiddenMore
      <4>2. CASE p.isActive
        <5>1. p.fresh = {} /\ Cardinality({}) = 0
          BY <4>2, FS_EmptySet DEF PollOK
        <5>2. unread'[c] = unread[c] /\ unread[c] \in Nat
          BY <2>1, <4>2, <1>1
        <5> QED
          BY <4>1, <5>1, <5>2
      <4>3. CASE ~p.isActive
        BY <4>1, <4>3, <2>1, <1>1
      <4> QED
        BY <4>2, <4>3
    <3> QED
      BY <3>5, <3>6, <1>7 DEF HiddenOK
  <2>7. CursorsOK'
    BY <2>2, <2>3, <2>6 DEF CursorsOK
  <2>9. LeftOK'
    BY <2>1, <1>8, IdleTypes
  <2> QED
    BY <2>2, <2>3, <2>4, <2>5, <2>6, <2>7, <2>8, <2>9
<1> QED
  BY <1>5, <1>6

-----------------------------------------------------------------------------
(***************************************************************************)
(* The steps.                                                              *)
(***************************************************************************)
LEMMA ListingOK ==
  ASSUME Inv, NEW c \in Chats, NEW m \in Messages, active' = active,
         ListAndEmit(c, m) \/ ListOnly(c, m)
  PROVE  /\ list' \in [Chats -> SUBSET Messages]
         /\ listed' \subseteq Messages /\ listed \subseteq listed' /\ m \in listed'
         /\ view' \subseteq Messages /\ seen' \subseteq Messages
         /\ \A d \in Chats \ {c} : Unseen(d)' \subseteq Unseen(d)
         /\ Unseen(c)' \subseteq Unseen(c) \cup {m}
         /\ m \in Mine \/ (ListAndEmit(c, m) /\ c = active) =>
              Unseen(c)' \subseteq Unseen(c)
         /\ ViewIsOfOpenChat'
<1>1. /\ list' = [list EXCEPT ![c] = @ \cup {m}] /\ listed' = listed \cup {m}
      /\ \/ /\ view' = Shows(c, m)
            /\ seen' = seen \cup (IF c = active THEN {m} \ Mine ELSE {})
         \/ view' = view /\ seen' = seen
  BY DEF ListAndEmit, ListOnly
<1>2. /\ list \in [Chats -> SUBSET Messages] /\ listed \subseteq Messages
      /\ view \subseteq Messages /\ seen \subseteq Messages
      /\ active \in Chats \cup {NoChat}
  BY DEF Inv, TypeOK
<1>3. view' = view \/ (c = active /\ view' = view \cup {m})
  BY <1>1 DEF Shows
<1>4. list' \in [Chats -> SUBSET Messages]
  BY <1>1, <1>2
<1>5. \A d \in Chats : list'[d] = IF d = c THEN list[c] \cup {m} ELSE list[d]
  BY <1>1, <1>2
<1>6. ViewIsOfOpenChat'
  BY <1>2, <1>3, <1>5 DEF Inv, ViewIsOfOpenChat
<1>7. ListAndEmit(c, m) /\ c = active => seen' = seen \cup ({m} \ Mine)
  BY DEF ListAndEmit
<1>8. seen \subseteq seen' /\ seen' \subseteq Messages
  BY <1>1, <1>2
<1>9. /\ \A d \in Chats \ {c} : Unseen(d)' \subseteq Unseen(d)
      /\ Unseen(c)' \subseteq Unseen(c) \cup {m}
      /\ m \in Mine \/ (ListAndEmit(c, m) /\ c = active) =>
           Unseen(c)' \subseteq Unseen(c)
  BY <1>5, <1>7, <1>8 DEF Unseen
<1> QED
  BY <1>1, <1>2, <1>3, <1>4, <1>6, <1>8, <1>9

LEMMA InvInit == Init => Inv
<1> SUFFICES ASSUME Init
             PROVE  Inv
  OBVIOUS
<1>1. /\ chats = {} /\ cursor = [c \in Chats |-> 0] /\ list = [c \in Chats |-> {}]
      /\ unread = [c \in Chats |-> 0] /\ active = NoChat /\ timer = FALSE
      /\ view = {} /\ round = [r \in Rounds |-> IdleRound] /\ send = IdleSend
      /\ stalled = FALSE /\ removed = {} /\ left = {} /\ seen = {} /\ listed = {}
      /\ posted = {} /\ saved = << >>
  BY DEF Init
<1>2. /\ send.pc = "idle" /\ send.chat = NoChat /\ send.msg = {}
      /\ send.length = 0 /\ send.servers = 1
  BY <1>1, Zenon DEF IdleSend
<1>3. DOMAIN saved = {}
  BY <1>1
<1>4. saved \in [DOMAIN saved -> Nat]
  BY <1>1
<1>5. /\ IdleRound \in RoundType
      /\ RoundOK(listed, IdleRound)
  BY IdleTypes
<1>6. CursorsOK
  BY <1>1, <1>3, <1>5 DEF CursorsOK, Stands
<1>7. TypeOK
  <2>1. round \in [Rounds -> RoundType]
    BY <1>1, <1>5
  <2>2. cursor \in [Chats -> Nat] /\ unread \in [Chats -> Nat]
    BY <1>1
  <2>3. list \in [Chats -> SUBSET Messages]
    BY <1>1
  <2>4. timer \in BOOLEAN /\ stalled \in BOOLEAN
    BY <1>1
  <2>5. send.length \in Nat /\ send.servers \in Nat
    BY <1>2
  <2> QED
    BY <1>1, <1>2, <1>3, <1>4, <2>1, <2>2, <2>3, <2>4, <2>5, Zenon
       DEF TypeOK, RoundType
<1>8. HiddenOK
  <2>1. \A c \in Chats : Hidden(c) = {} /\ unread[c] = 0
    BY <1>1 DEF Hidden
  <2>2. Cardinality({}) = 0
    BY FS_EmptySet
  <2> QED
    BY <2>1, <2>2 DEF HiddenOK, Watched
<1>9. LeftOK
  BY <1>1, IdleTypes DEF LeftOK
<1> QED
  BY <1>1, <1>2, <1>3, <1>6, <1>7, <1>8, <1>9
     DEF Inv, SendOK, ViewIsOfOpenChat, RemovedStaysRemoved

LEMMA SavedOK ==
  ASSUME Inv, NEW cs \in SUBSET Chats
  PROVE  /\ DOMAIN Saved(cs, cursor) = cs
         /\ Saved(cs, cursor) \in [cs -> Nat]
         /\ \A c \in cs : Stands(listed, c, Saved(cs, cursor)[c])
  BY InvTypes DEF Saved, CursorsOK

LEMMA CreateStep ==
  ASSUME Inv, NEW c \in Chats, CreateChat(c)
  PROVE  Inv'
<1>1. /\ chats' = chats \cup {c} /\ saved' = Saved(chats', cursor)
      /\ c \notin removed
      /\ UNCHANGED <<cursor, list, unread, active, timer, view, round, send,
                     stalled, removed, left, seen, listed, posted>>
  BY DEF CreateChat
<1>2. chats' \in SUBSET Chats
  BY <1>1, InvTypes
<1>3. /\ DOMAIN saved' = chats' /\ saved' \in [chats' -> Nat]
      /\ \A d \in chats' : Stands(listed, d, saved'[d])
  BY <1>1, <1>2, SavedOK
<1>4. TypeOK'
  BY <1>1, <1>2, <1>3 DEF Inv, TypeOK
<1>5. CursorsOK'
  BY <1>1, <1>3 DEF Inv, CursorsOK
<1>6. ViewIsOfOpenChat'
  BY <1>1 DEF Inv, ViewIsOfOpenChat
<1>7. RemovedStaysRemoved'
  BY <1>1, <1>3 DEF Inv, RemovedStaysRemoved
<1>8. HiddenOK' /\ LeftOK'
  BY <1>1 DEF Inv, HiddenOK, Hidden, Pending, Watched, LeftOK
<1> QED
  BY <1>1, <1>4, <1>5, <1>6, <1>7, <1>8 DEF Inv, SendOK

LEMMA RemoveStep ==
  ASSUME Inv, NEW c \in Chats, RemoveChat(c)
  PROVE  Inv'
<1>1. /\ chats' = chats \ {c} /\ saved' = Saved(chats', cursor)
      /\ list' = [list EXCEPT ![c] = {}] /\ active' = NoChat
      /\ removed' = removed \cup {c}
      /\ active = c
      /\ UNCHANGED <<cursor, unread, timer, view, round, send, stalled, left,
                     seen, listed, posted>>
  BY DEF RemoveChat
<1>2. chats' \in SUBSET Chats /\ list' \in [Chats -> SUBSET Messages]
  BY <1>1, InvTypes
<1>3. /\ DOMAIN saved' = chats' /\ saved' \in [chats' -> Nat]
      /\ \A d \in chats' : Stands(listed, d, saved'[d])
  BY <1>1, <1>2, SavedOK
<1>4. TypeOK'
  BY <1>1, <1>2, <1>3 DEF Inv, TypeOK
<1>5. CursorsOK'
  BY <1>1, <1>3 DEF Inv, CursorsOK
<1>6. ViewIsOfOpenChat'
  BY <1>1 DEF ViewIsOfOpenChat
<1>7. RemovedStaysRemoved'
  BY <1>1, <1>3 DEF Inv, RemovedStaysRemoved
<1>8. HiddenOK'
  <2>1. \A d \in Chats : list'[d] \subseteq list[d]
    BY <1>1, InvTypes
  <2>2. \A d \in Watched : Hidden(d)' \subseteq Hidden(d)
    BY <1>1, <2>1 DEF Hidden, Pending, Watched
  <2> QED
    BY <1>1, <2>2, HiddenNoMore
<1>9. LeftOK'
  BY <1>1, InvTypes DEF LeftOK
<1> QED
  BY <1>1, <1>4, <1>5, <1>6, <1>7, <1>8, <1>9 DEF Inv, SendOK

LEMMA OpenStep ==
  ASSUME Inv, NEW c \in Chats, NEW r \in Rounds, OpenChat(c, r)
  PROVE  Inv'
<1> DEFINE polls == [IdleRound.poll EXCEPT ![c] = Begun(c)]
           q == [IdleRound EXCEPT !.kind = "open", !.poll[c] = Begun(c)]
<1>1. /\ c \in chats /\ Free(r) /\ active' = c /\ unread' = [unread EXCEPT ![c] = 0]
      /\ view' = list[c] /\ seen' = seen \cup (list[c] \ Mine)
      /\ left' = (left \cup Behind) \ {c}
      /\ timer' = FALSE /\ stalled' = FALSE
      /\ round' = [round EXCEPT ![r] = q]
      /\ UNCHANGED <<saved, chats, cursor, list, send, removed, listed, posted>>
  BY DEF OpenChat
<1>2. /\ RoundOK(listed, q)
      /\ \A d \in Chats : ~q.poll[d].isActive
  <2>1. IdleRound \in RoundType /\ RoundOK(listed, IdleRound)
    BY IdleTypes
  <2>2. PollOK(listed, c, Begun(c)) /\ ~Begun(c).isActive
    BY InvTypes, BegunOK
  <2>3. polls \in [Chats -> Poll] /\ \A d \in Chats : PollOK(listed, d, polls[d])
    BY <2>1, <2>2 DEF RoundOK, RoundType, PollOK
  <2>4. q = [IdleRound EXCEPT !.kind = "open", !.poll = polls]
    OBVIOUS
  <2>6. \A d \in Chats : ~polls[d].isActive
    BY <2>1, <2>2, IdleTypes DEF RoundType
  <2> HIDE DEF polls
  <2>5. q \in RoundType /\ q.poll = polls /\ q.kind = "open"
    <3> HIDE DEF q
    <3> QED
      BY <2>1, <2>3, <2>4 DEF RoundType
  <2> HIDE DEF q
  <2> QED
    BY <2>3, <2>5, <2>6 DEF RoundOK
<1> HIDE DEF q, polls
<1>3. round' \in [Rounds -> RoundType] /\ \A d \in Rounds : RoundOK(listed, round'[d])
  BY <1>1, <1>2, OneRound
<1>4. /\ list[c] \subseteq Messages /\ unread' \in [Chats -> Nat]
      /\ timer' \in BOOLEAN /\ stalled' \in BOOLEAN /\ left' \subseteq Chats
  <2>1. list[c] \subseteq Messages
    BY InvTypes
  <2>2. unread' \in [Chats -> Nat]
    BY <1>1, InvTypes
  <2>3. left' \subseteq Chats
    BY <1>1 DEF Behind, Inv, TypeOK
  <2> QED
    BY <1>1, <2>1, <2>2, <2>3
<1>5. TypeOK'
  BY <1>1, <1>3, <1>4 DEF Inv, TypeOK, RoundType
<1>6. CursorsOK'
  BY <1>1, <1>3 DEF Inv, CursorsOK
<1>7. ViewIsOfOpenChat' /\ RemovedStaysRemoved'
  BY <1>1 DEF Inv, ViewIsOfOpenChat, RemovedStaysRemoved
<1>8. HiddenOK'
  <2>1. \A d \in Chats : Pending(d) \subseteq Pending(d)'
    BY <1>1, FreeCountsNothing, PendingKept
  <2>2. Hidden(c)' = {} /\ unread'[c] = 0
    BY <1>1, InvTypes DEF Hidden
  <2>3. Cardinality({}) = 0
    BY FS_EmptySet
  <2>4. \A d \in Watched' \ {c} : Cardinality(Hidden(d)') <= unread'[d]
    <3> TAKE d \in Watched' \ {c}
    <3>4. d \in Watched /\ d \in Chats
      BY <1>1 DEF Watched
    <3>1. {} \in SUBSET Messages /\ Hidden(d)' \subseteq Hidden(d) \cup {}
      BY <1>1, <2>1, <3>4 DEF Hidden
    <3>2. Cardinality(Hidden(d)') <= unread[d] + Cardinality({})
      BY <3>1, <3>4, HiddenMore
    <3>3. unread'[d] = unread[d] /\ unread[d] \in Nat
      BY <1>1, <3>4, InvTypes
    <3> QED
      BY <2>3, <3>2, <3>3
  <2> QED
    BY <2>2, <2>3, <2>4 DEF HiddenOK
<1>9. LeftOK'
  <2> SUFFICES ASSUME NEW k \in Rounds, NEW d \in Chats, round'[k].poll[d].isActive
               PROVE  d = active' \/ d \in left' \cup removed'
    BY DEF LeftOK
  <2>1. k # r /\ round[k].poll[d].isActive
    BY <1>1, <1>2, InvTypes
  <2>2. d = active => d \in Behind
    BY <2>1 DEF Behind
  <2> QED
    BY <1>1, <2>1, <2>2, InvTypes DEF LeftOK
<1> QED
  BY <1>1, <1>5, <1>6, <1>7, <1>8, <1>9 DEF Inv, SendOK

LEMMA ReloadStep ==
  ASSUME Inv, Reload
  PROVE  Inv'
<1>1. /\ chats' = DOMAIN saved
      /\ cursor' = [c \in Chats |-> IF c \in DOMAIN saved THEN saved[c] ELSE 0]
      /\ list' = [c \in Chats |-> {}] /\ unread' = [c \in Chats |-> 0]
      /\ active' = NoChat /\ timer' = FALSE /\ view' = {}
      /\ round' = [r \in Rounds |-> IdleRound]
      /\ send' = IdleSend /\ stalled' = FALSE /\ left' = {} /\ seen' = {}
      /\ UNCHANGED <<saved, removed, listed, posted>>
  BY DEF Reload
<1>2. /\ send'.pc = "idle" /\ send'.chat = NoChat /\ send'.msg = {}
      /\ send'.length \in Nat /\ send'.servers \in Nat
  <2>1. /\ IdleSend.pc = "idle" /\ IdleSend.chat = NoChat /\ IdleSend.msg = {}
        /\ IdleSend.length = 0 /\ IdleSend.servers = 1
    BY Zenon DEF IdleSend
  <2> QED
    BY <1>1, <2>1
<1>3. IdleRound \in RoundType /\ RoundOK(listed, IdleRound)
  BY IdleTypes
<1>4. cursor' \in [Chats -> Nat] /\ \A c \in Chats : Stands(listed, c, cursor'[c])
  BY <1>1, InvTypes DEF CursorsOK, Stands
<1>5. round' \in [Rounds -> RoundType] /\ \A d \in Rounds : RoundOK(listed, round'[d])
  BY <1>1, <1>3
<1>6. /\ list' \in [Chats -> SUBSET Messages] /\ unread' \in [Chats -> Nat]
      /\ timer' \in BOOLEAN /\ stalled' \in BOOLEAN
  BY <1>1
<1>7. TypeOK'
  BY <1>1, <1>2, <1>4, <1>5, <1>6 DEF Inv, TypeOK, RoundType
<1>8. CursorsOK'
  BY <1>1, <1>4, <1>5 DEF Inv, CursorsOK
<1>9. ViewIsOfOpenChat' /\ RemovedStaysRemoved'
  BY <1>1 DEF Inv, ViewIsOfOpenChat, RemovedStaysRemoved
<1>10. HiddenOK'
  <2>1. \A c \in Chats : Hidden(c)' = {} /\ unread'[c] = 0
    BY <1>1 DEF Hidden
  <2>2. Cardinality({}) = 0
    BY FS_EmptySet
  <2> QED
    BY <2>1, <2>2 DEF HiddenOK, Watched
<1>11. LeftOK'
  BY <1>1, IdleTypes DEF LeftOK
<1> QED
  BY <1>2, <1>7, <1>8, <1>9, <1>10, <1>11 DEF Inv, SendOK

LEMMA StartSendStep ==
  ASSUME Inv, NEW m \in Messages, NEW length \in Lengths, StartSend(m, length)
  PROVE  Inv'
<1>1. /\ active # NoChat /\ posted' = posted \cup {m} /\ m \in Mine
      /\ UNCHANGED <<saved, chats, cursor, list, unread, active, timer, view,
                     round, stalled, removed, left, seen, listed>>
  BY DEF StartSend
<1>2. PICK n \in Servers[active] :
        /\ send'.pc = "posting" /\ send'.chat = active /\ send'.msg = {m}
        /\ send'.servers = n /\ send'.length = length
        /\ send'.chunks = Split(length, n)
  BY DEF StartSend
<1>3. active \in Chats /\ length \in Nat /\ n \in Nat
  <2>1. active \in Chats
    BY <1>1, InvTypes
  <2> QED
    BY <2>1, ClientAssumption
<1>4. TypeOK'
  BY <1>1, <1>2, <1>3 DEF Inv, TypeOK
<1>5. SendOK'
  BY <1>1, <1>2, <1>3 DEF SendOK
<1>6. CursorsOK' /\ ViewIsOfOpenChat' /\ RemovedStaysRemoved' /\ LeftOK'
  BY <1>1 DEF Inv, CursorsOK, ViewIsOfOpenChat, RemovedStaysRemoved, LeftOK
<1>7. HiddenOK'
  BY <1>1 DEF Inv, HiddenOK, Hidden, Pending, Watched
<1> QED
  BY <1>4, <1>5, <1>6, <1>7 DEF Inv

LEMMA FinishSendStep ==
  ASSUME Inv, FinishSend
  PROVE  Inv'
<1>1. PICK m \in send.msg : ListAndEmit(send.chat, m)
  BY DEF FinishSend
<1>2. /\ send.pc = "posting" /\ send' = IdleSend
      /\ UNCHANGED <<saved, chats, cursor, unread, active, timer, round, stalled,
                     removed, left, posted>>
  BY DEF FinishSend
<1>3. /\ send'.pc = "idle" /\ send'.chat = NoChat /\ send'.msg = {}
      /\ send'.length \in Nat /\ send'.servers \in Nat
  <2>1. /\ IdleSend.pc = "idle" /\ IdleSend.chat = NoChat /\ IdleSend.msg = {}
        /\ IdleSend.length = 0 /\ IdleSend.servers = 1
    BY Zenon DEF IdleSend
  <2> QED
    BY <1>2, <2>1
<1>4. send.chat \in Chats /\ m \in Messages /\ m \in Mine
  BY <1>2 DEF Inv, TypeOK, SendOK
<1>5. /\ list' \in [Chats -> SUBSET Messages]
      /\ listed' \subseteq Messages /\ listed \subseteq listed'
      /\ view' \subseteq Messages /\ seen' \subseteq Messages
      /\ ViewIsOfOpenChat'
      /\ \A d \in Chats : Unseen(d)' \subseteq Unseen(d)
  BY <1>1, <1>2, <1>4, ListingOK
<1>6. TypeOK'
  BY <1>2, <1>3, <1>5 DEF Inv, TypeOK
<1>7. CursorsOK'
  BY <1>2, <1>5, StandsStill DEF Inv, CursorsOK
<1>8. RemovedStaysRemoved'
  BY <1>2 DEF Inv, RemovedStaysRemoved
<1>9. HiddenOK'
  <2>1. \A d \in Watched : Hidden(d)' \subseteq Hidden(d)
    BY <1>2, <1>5 DEF Hidden, Unseen, Pending, Watched
  <2> QED
    BY <1>2, <2>1, HiddenNoMore
<1>10. LeftOK'
  BY <1>2, LeftKept
<1> QED
  BY <1>3, <1>5, <1>6, <1>7, <1>8, <1>9, <1>10 DEF Inv, SendOK

LEMMA TimerStep ==
  ASSUME Inv, NEW r \in Rounds, TimerFires(r)
  PROVE  Inv'
<1> DEFINE polls == [c \in Chats |-> IF c \in chats \ BadKeys
                                     THEN Begun(c) ELSE IdlePoll]
           q == [kind |-> "timer", poll |-> polls]
<1>1. /\ Free(r) /\ round' = [round EXCEPT ![r] = q]
      /\ UNCHANGED <<saved, chats, cursor, list, unread, active, timer, view, send,
                     stalled, removed, left, seen, listed, posted>>
  BY DEF TimerFires
<1>2. \A c \in Chats : PollOK(listed, c, polls[c]) /\ ~polls[c].isActive
  BY InvTypes, BegunOK, IdleTypes
<1>3. polls \in [Chats -> Poll] /\ q.poll = polls
  BY <1>2 DEF PollOK
<1> HIDE DEF polls
<1>4. RoundOK(listed, q)
  BY <1>2, <1>3 DEF RoundOK, RoundType
<1> HIDE DEF q
<1>5. round' \in [Rounds -> RoundType] /\ \A d \in Rounds : RoundOK(listed, round'[d])
  BY <1>1, <1>4, OneRound
<1>6. TypeOK'
  BY <1>1, <1>5 DEF Inv, TypeOK, RoundType
<1>7. CursorsOK' /\ ViewIsOfOpenChat' /\ RemovedStaysRemoved'
  BY <1>1, <1>5 DEF Inv, CursorsOK, ViewIsOfOpenChat, RemovedStaysRemoved
<1>8. HiddenOK'
  <2>1. \A d \in Chats : Pending(d) \subseteq Pending(d)'
    BY <1>1, FreeCountsNothing, PendingKept
  <2>2. \A d \in Watched : Hidden(d)' \subseteq Hidden(d)
    BY <1>1, <2>1 DEF Hidden, Watched
  <2> QED
    BY <1>1, <2>2, HiddenNoMore
<1>9. LeftOK'
  <2>1. \A k \in Rounds : round'[k] = IF k = r THEN q ELSE round[k]
    BY <1>1, InvTypes
  <2>2. \A k \in Rounds, d \in Chats :
          round'[k].poll[d].isActive => round[k].poll[d].isActive
    BY <1>2, <1>3, <2>1
  <2> QED
    BY <1>1, <2>2, LeftKept
<1> QED
  BY <1>1, <1>6, <1>7, <1>8, <1>9 DEF Inv, SendOK

\* The invariant after a step that ends in Proceed.
LEMMA ProceedStep ==
  ASSUME Inv, NEW r \in Rounds, NEW c \in Chats, NEW p,
         PollOK(listed', c, p), Proceed(r, c, p), round[r].kind # "none",
         \A d \in Chats \ {c} : Unseen(d)' \subseteq Unseen(d),
         c \in Watched => Unseen(c)' \subseteq Unseen(c) \cup p.fresh,
         round[r].poll[c].fresh \subseteq p.fresh,
         p.isActive => round[r].poll[c].isActive \/ c = active,
         list' \in [Chats -> SUBSET Messages],
         listed' \subseteq Messages, listed \subseteq listed',
         view' \subseteq Messages, seen' \subseteq Messages, ViewIsOfOpenChat',
         UNCHANGED <<chats, active, send, stalled, removed, left, posted>>
  PROVE  Inv'
<1>1. /\ DOMAIN saved' \subseteq DOMAIN saved \cup chats
      /\ saved' \in [DOMAIN saved' -> Nat]
      /\ cursor' \in [Chats -> Nat]
      /\ unread' \in [Chats -> Nat]
      /\ timer' \in BOOLEAN
      /\ round' \in [Rounds -> RoundType]
      /\ CursorsOK'
      /\ LeftOK'
      /\ HiddenOK'
  BY ProceedOK
<1>2. TypeOK'
  BY <1>1 DEF Inv, TypeOK, RoundType
<1>3. RemovedStaysRemoved'
  BY <1>1 DEF Inv, RemovedStaysRemoved
<1> QED
  BY <1>1, <1>2, <1>3 DEF Inv, SendOK

LEMMA AssembleStep ==
  ASSUME Inv, NEW r \in Rounds, NEW c \in Chats, Assemble(r, c)
  PROVE  Inv'
<1> DEFINE p == round[r].poll[c]
<1>1. /\ p.pc = "fetching"
      /\ UNCHANGED <<chats, list, active, view, send, stalled, removed, left, seen,
                     listed, posted>>
  BY DEF Assemble
<1>2. PICK complete \in SUBSET Fetched(c, p.since) :
        Proceed(r, c,
          [p EXCEPT !.pc = "decrypting", !.since = 0,
                    !.todo = complete \ list[c], !.isActive = (c = active),
                    !.max = cursor[c]])
  BY DEF Assemble
<1> DEFINE todo == complete \ list[c]
           isActive == (c = active)
           q == [p EXCEPT !.pc = "decrypting", !.since = 0, !.todo = todo,
                          !.isActive = isActive, !.max = cursor[c]]
<1>3. Proceed(r, c, q)
  BY <1>2
<1>4. p \in Poll
  BY InvTypes DEF RoundType
<1>5. todo \subseteq Of(c) /\ todo \subseteq Messages /\ isActive \in BOOLEAN
  BY DEF Fetched, Of
<1>10. round[r].kind # "none" /\ p.fresh = {}
  BY <1>1, InvTypes DEF CursorsOK, RoundOK, PollOK
<1>11. /\ round[r].poll[c].fresh = {}
       /\ isActive => c = active
       /\ \A d \in Chats : Unseen(d)' \subseteq Unseen(d)
  BY <1>1, <1>10 DEF Unseen
<1> HIDE DEF todo, isActive, p
<1>6. cursor[c] \in Nat /\ Stands(listed, c, cursor[c])
  BY InvTypes DEF CursorsOK
<1>7. /\ q \in Poll /\ q.todo = todo /\ q.max = cursor[c] /\ q.fresh = p.fresh
      /\ q.isActive = isActive
  BY <1>4, <1>5, <1>6 DEF Poll
<1> HIDE DEF q
<1>8. PollOK(listed', c, q)
  BY <1>1, <1>5, <1>6, <1>7, <1>10 DEF PollOK
<1>9. /\ list' \in [Chats -> SUBSET Messages]
      /\ listed' \subseteq Messages /\ listed \subseteq listed'
      /\ view' \subseteq Messages /\ seen' \subseteq Messages
      /\ ViewIsOfOpenChat'
  BY <1>1 DEF Inv, TypeOK, ViewIsOfOpenChat
<1>12. /\ \A d \in Chats \ {c} : Unseen(d)' \subseteq Unseen(d)
       /\ c \in Watched => Unseen(c)' \subseteq Unseen(c) \cup q.fresh
       /\ q.isActive => round[r].poll[c].isActive \/ c = active
  BY <1>7, <1>11
<1> QED
  BY <1>1, <1>3, <1>8, <1>9, <1>10, <1>11, <1>12, ProceedStep

LEMMA DecryptedStep ==
  ASSUME Inv, NEW r \in Rounds, NEW c \in Chats, Decrypted(r, c)
  PROVE  Inv'
<1> DEFINE p == round[r].poll[c]
<1>1. /\ p.pc = "decrypting"
      /\ UNCHANGED <<chats, active, send, stalled, removed, left, posted>>
  BY DEF Decrypted
<1>2. PICK m \in p.todo :
        /\ IF p.isActive THEN ListAndEmit(c, m) ELSE ListOnly(c, m)
        /\ Proceed(r, c,
             [p EXCEPT !.todo = @ \ {m}, !.max = MaxOf(@, Time[m]),
                       !.fresh = IF p.isActive THEN @ ELSE @ \cup {m}])
  BY DEF Decrypted
<1> DEFINE todo == p.todo \ {m}
           max == MaxOf(p.max, Time[m])
           fresh == IF p.isActive THEN p.fresh ELSE p.fresh \cup {m}
           q == [p EXCEPT !.todo = todo, !.max = max, !.fresh = fresh]
<1>3. Proceed(r, c, q)
  BY <1>2
<1>4. p \in Poll /\ PollOK(listed, c, p)
  BY InvTypes DEF CursorsOK, RoundOK, RoundType
<1>5. /\ p.todo \subseteq Messages /\ p.todo \subseteq Of(c) /\ p.max \in Nat
      /\ p.fresh \subseteq Messages /\ Stands(listed, c, p.max)
      /\ p.isActive => p.fresh = {}
  BY <1>4 DEF Poll, PollOK
<1>6. m \in Messages /\ ChatOf[m] = c /\ Time[m] \in Nat
  BY <1>5, TimeType DEF Of
<1>7. /\ list' \in [Chats -> SUBSET Messages]
      /\ listed' \subseteq Messages /\ listed \subseteq listed' /\ m \in listed'
      /\ view' \subseteq Messages /\ seen' \subseteq Messages
      /\ ViewIsOfOpenChat'
      /\ \A d \in Chats \ {c} : Unseen(d)' \subseteq Unseen(d)
      /\ Unseen(c)' \subseteq Unseen(c) \cup {m}
      /\ p.isActive /\ c = active => Unseen(c)' \subseteq Unseen(c)
  BY <1>1, <1>2, <1>6, ListingOK
<1>12. round[r].kind # "none"
  BY <1>1, InvTypes DEF CursorsOK, RoundOK
<1>13. round[r].poll[c].fresh \subseteq fresh
  OBVIOUS
<1>15. p.isActive /\ c \in Watched => c = active
  BY InvTypes DEF LeftOK, Watched
<1>14. /\ c \in Watched => Unseen(c)' \subseteq Unseen(c) \cup fresh
       /\ p.isActive => fresh = {} /\ round[r].poll[c].isActive
  BY <1>5, <1>7, <1>15
<1> HIDE DEF p
<1>8. max \in Nat /\ Stands(listed', c, max)
  <2>1. max = p.max \/ max = Time[m]
    BY DEF MaxOf
  <2>2. Stands(listed', c, p.max)
    BY <1>5, <1>7, StandsStill
  <2>3. Stands(listed', c, Time[m])
    BY <1>6, <1>7 DEF Stands
  <2> HIDE DEF max
  <2> QED
    BY <2>1, <2>2, <2>3, <1>5, <1>6
<1>9. /\ todo \subseteq Messages /\ todo \subseteq Of(c) /\ fresh \subseteq Messages
  BY <1>5, <1>6
<1> HIDE DEF todo, max, fresh
<1>10. /\ q \in Poll /\ q.todo = todo /\ q.max = max /\ q.fresh = fresh
       /\ q.pc = p.pc /\ q.isActive = p.isActive
  BY <1>4, <1>8, <1>9 DEF Poll
<1> HIDE DEF q
<1>11. PollOK(listed', c, q)
  BY <1>1, <1>8, <1>9, <1>10, <1>14 DEF PollOK, p
<1> QED
  BY <1>1, <1>3, <1>7, <1>10, <1>11, <1>12, <1>13, <1>14, ProceedStep

\* A poll that found nothing yet is given up.
LEMMA GivenUpStep ==
  ASSUME Inv, NEW r \in Rounds, NEW c \in Chats,
         round[r].poll[c].pc \in {"importing", "fetching"},
         round' = [round EXCEPT ![r] = After(r, c, IdlePoll)],
         timer' \in BOOLEAN, stalled' \in BOOLEAN,
         UNCHANGED <<saved, chats, cursor, list, unread, active, view, send,
                     removed, left, seen, listed, posted>>
  PROVE  Inv'
<1>2. /\ RoundOK(listed, After(r, c, IdlePoll))
      /\ \A d \in Chats :
           /\ round[r].poll[d].fresh \subseteq After(r, c, IdlePoll).poll[d].fresh
           /\ After(r, c, IdlePoll).poll[d].isActive => round[r].poll[d].isActive
  <2>1. RoundOK(listed, round[r]) /\ PollOK(listed, c, IdlePoll)
    BY InvTypes, IdleTypes DEF CursorsOK
  <2>2. round[r].kind # "none" /\ round[r].poll[c].fresh = {}
    BY <2>1 DEF RoundOK, PollOK
  <2>3. /\ RoundOK(listed, After(r, c, IdlePoll))
        /\ After(r, c, IdlePoll).poll[c].isActive => IdlePoll.isActive
        /\ \A d \in Chats \ {c} :
             /\ After(r, c, IdlePoll).poll[d].fresh = round[r].poll[d].fresh
             /\ After(r, c, IdlePoll).poll[d].isActive => round[r].poll[d].isActive
    BY <2>1, <2>2, AfterOK
  <2> QED
    BY <2>2, <2>3, IdleTypes
<1>3. round' \in [Rounds -> RoundType] /\ \A d \in Rounds : RoundOK(listed, round'[d])
  BY <1>2, OneRound
<1>5. TypeOK'
  BY <1>3 DEF Inv, TypeOK, RoundType
<1>6. CursorsOK' /\ ViewIsOfOpenChat' /\ RemovedStaysRemoved'
  BY <1>3 DEF Inv, CursorsOK, ViewIsOfOpenChat, RemovedStaysRemoved
<1>7. HiddenOK'
  <2>1. \A d \in Chats : Pending(d) \subseteq Pending(d)'
    BY <1>2, PendingKept
  <2>2. \A d \in Watched : Hidden(d)' \subseteq Hidden(d)
    BY <2>1 DEF Hidden, Watched
  <2> QED
    BY <2>2, HiddenNoMore
<1>8. LeftOK'
  <2>1. \A k \in Rounds :
          round'[k] = IF k = r THEN After(r, c, IdlePoll) ELSE round[k]
    BY InvTypes
  <2> QED
    BY <1>2, <2>1, LeftKept
<1> QED
  BY <1>5, <1>6, <1>7, <1>8 DEF Inv, SendOK

LEMMA StallStep ==
  ASSUME Inv, NEW r \in Rounds, NEW c \in Chats, Stall(r, c)
  PROVE  Inv'
<1>1. stalled' \in BOOLEAN /\ timer' \in BOOLEAN
  BY InvTypes DEF Stall
<1> QED
  BY <1>1, GivenUpStep DEF Stall

LEMMA KeyFailsStep ==
  ASSUME Inv, NEW r \in Rounds, NEW c \in Chats, KeyFails(r, c)
  PROVE  Inv'
<1>1. stalled' \in BOOLEAN /\ timer' \in BOOLEAN
  BY InvTypes DEF KeyFails
<1> QED
  BY <1>1, GivenUpStep DEF KeyFails

LEMMA InvStep == Inv /\ [Next]_vars => Inv'
<1> SUFFICES ASSUME Inv, [Next]_vars
             PROVE  Inv'
  OBVIOUS
<1>1. CASE \E c \in Chats : CreateChat(c) \/ RemoveChat(c)
  BY <1>1, CreateStep, RemoveStep
<1>2. CASE \E c \in Chats, r \in Rounds : OpenChat(c, r) \/ PollNext(r, c) \/ Stall(r, c)
  BY <1>2, OpenStep, KeyFailsStep, AssembleStep, DecryptedStep, StallStep
  DEF PollNext
<1>3. CASE \E r \in Rounds : TimerFires(r)
  BY <1>3, TimerStep
<1>4. CASE \E m \in Messages, length \in Lengths : StartSend(m, length)
  BY <1>4, StartSendStep
<1>5. CASE FinishSend
  BY <1>5, FinishSendStep
<1>6. CASE Reload
  BY <1>6, ReloadStep
<1>7. CASE UNCHANGED vars
  BY <1>7 DEF vars, Inv, TypeOK, SendOK, CursorsOK, LeftOK, HiddenOK, Hidden,
              Pending, Watched, ViewIsOfOpenChat, RemovedStaysRemoved
<1> QED
  BY <1>1, <1>2, <1>3, <1>4, <1>5, <1>6, <1>7 DEF Next

LEMMA InvHolds == Spec => []Inv
  BY InvInit, InvStep, PTL DEF Spec

-----------------------------------------------------------------------------
(***************************************************************************)
(* What follows.                                                           *)
(***************************************************************************)
\* Every state has the shape that TypeOK describes, and the open chat is one of
\* the chats.
THEOREM ClientTypes == Spec => []TypeOK
<1>1. Inv => TypeOK
  BY DEF Inv
<1> QED
  BY <1>1, InvHolds, PTL

\* Whichever chats are opened while posts and polls are awaited, what is shown
\* belongs to the open one (openChat, the listener of ui.js).
THEOREM NothingOfOthersIsShown == Spec => []ViewIsOfOpenChat
<1>1. Inv => ViewIsOfOpenChat
  BY DEF Inv
<1> QED
  BY <1>1, InvHolds, PTL

\* No poll or post that was awaited when a chat was removed brings it back, in
\* memory or in what is saved (removeChat, saveChats).
THEOREM NoChatComesBack == Spec => []RemovedStaysRemoved
<1>1. Inv => RemovedStaysRemoved
  BY DEF Inv
<1> QED
  BY <1>1, InvHolds, PTL

\* However many polls of a chat overlap and whenever the page is loaded again,
\* the saved cursor stands on a message that was listed (pollChat, saveChats).
THEOREM CursorsStandOnMessages == Spec => []SavedCursorWasListed
<1>1. Inv => SavedCursorWasListed
  BY DEF Inv, CursorsOK, SavedCursorWasListed, Stands
<1> QED
  BY <1>1, InvHolds, PTL

\* In every chat that was not left after a poll took it for the open one, what
\* others wrote that is listed and was never in view is counted as unread, however
\* polls, posts and the opening of chats interleave (pollChat, openChat, the
\* listener of ui.js).
THEOREM NothingIsHidden == Spec => []HiddenIsCounted
<1>1. ASSUME Inv PROVE HiddenIsCounted
  <2>1. chats \ left \subseteq Watched
    BY <1>1, InvTypes DEF Inv, RemovedStaysRemoved, Watched
  <2> QED
    BY <1>1, <2>1, InvTypes DEF HiddenOK, HiddenIsCounted
<1> QED
  BY <1>1, InvHolds, PTL

\* The chunks that sendMessage posts give the payload back, for every length and
\* number of servers (splitPayload, joinPayload).
THEOREM SentPayloadRejoins == Spec => []PayloadRejoins
<1>1. ASSUME Inv
      PROVE  PayloadRejoins
  <2> SUFFICES ASSUME send.pc = "posting"
               PROVE  Rejoins(send.chunks, send.servers, send.length)
    BY DEF PayloadRejoins
  <2>1. /\ send.chat \in Chats /\ send.length \in Lengths
        /\ send.servers \in Servers[send.chat]
        /\ send.chunks = Split(send.length, send.servers)
    BY <1>1 DEF Inv, SendOK
  <2>2. send.length \in Nat /\ send.servers \in Nat \ {0}
    BY <2>1, ClientAssumption
  <2> QED
    BY <2>1, <2>2, SplitIsLossless
<1> QED
  BY <1>1, InvHolds, PTL

\* Up to seven servers no chunk that sendMessage posts is empty, for every length
\* that encrypt can return (splitPayload).
THEOREM NoEmptyChunkIsSent == Spec => []NoneEmptyUpToSeven
<1>1. ASSUME Inv
      PROVE  NoneEmptyUpToSeven
  <2> SUFFICES ASSUME send.pc = "posting", send.servers <= MostServers
               PROVE  EmptyChunks(send.chunks) = {}
    BY DEF NoneEmptyUpToSeven
  <2>1. /\ send.chat \in Chats /\ send.length \in Lengths
        /\ send.servers \in Servers[send.chat]
        /\ send.chunks = Split(send.length, send.servers)
    BY <1>1 DEF Inv, SendOK
  <2>2. /\ send.length \in Nat /\ send.length >= ShortestPayload
        /\ send.servers \in 1 .. MostServers
    <3>1. send.length \in { length \in Nat : length >= ShortestPayload }
      BY <2>1, ClientAssumption
    <3>2. send.servers \in Nat \ {0}
      BY <2>1, ClientAssumption
    <3> QED
      BY <3>1, <3>2 DEF MostServers
  <2> QED
    BY <2>1, <2>2, NoChunkIsEmpty
<1> QED
  BY <1>1, InvHolds, PTL

-----------------------------------------------------------------------------
(***************************************************************************)
(* What is saved is what is in memory, and every chat implements           *)
(* ChatReader.  The cursor is set to what a poll carried through its       *)
(* awaits; PollsReach says that the cursor or the list has come as far.    *)
(* Reload takes the cursors from what is saved, and those of the chats     *)
(* there never were must be 0.                                             *)
(***************************************************************************)
\* The cursor u has come to t, or a message of L is of time t.
Reached(L, u, t) == t <= u \/ \E m \in L : Time[m] = t

Untouched ==
  \A c \in Chats \ (chats \cup removed) :
    /\ cursor[c] = 0
    /\ \A r \in Rounds : round[r].poll[c].pc = "idle"

PollsReach ==
  \A c \in Chats \ removed : \A r \in Rounds :
    Reached(list[c], cursor[c], round[r].poll[c].max)

ReaderInv == NothingUnsaved /\ Untouched /\ PollsReach

\* The step of chat c is one of ChatReader.
Reads(c) == [Reader(c)!Next]_<<list[c], cursor[c]>>

LEMMA StaysReached ==
  ASSUME NEW L, NEW M, L \subseteq M, NEW u \in Nat, NEW v \in Nat, u <= v,
         NEW t \in Nat, Reached(L, u, t)
  PROVE  Reached(M, v, t)
  BY DEF Reached

LEMMA ReachedZero ==
  ASSUME NEW L, NEW u \in Nat PROVE Reached(L, u, 0)
  BY DEF Reached

\* The polls of a round after one of them went on.
LEMMA AfterEffect ==
  ASSUME Inv, NEW r \in Rounds, NEW c \in Chats, NEW p, NEW d \in Chats
  PROVE  \/ After(r, c, p).poll[d] = IdlePoll
         \/ After(r, c, p).poll[d] = (IF d = c THEN p ELSE round[r].poll[d])
<1> DEFINE polls == [round[r].poll EXCEPT ![c] = p]
           q == [round[r] EXCEPT !.poll = polls]
<1>1. round[r] \in RoundType
  BY InvTypes
<1>2. polls[d] = IF d = c THEN p ELSE round[r].poll[d]
  BY <1>1 DEF RoundType
<1>3. After(r, c, p) = q \/ After(r, c, p) = IdleRound
  BY DEF After
<1> HIDE DEF polls
<1>4. q.poll = polls
  BY <1>1 DEF RoundType
<1> HIDE DEF q
<1> QED
  BY <1>2, <1>3, <1>4, IdleTypes

\* What Proceed does to what is saved, the cursors and the polls.
LEMMA ProceedEffect ==
  ASSUME Inv, NothingUnsaved, NEW r \in Rounds, NEW c \in Chats, NEW p,
         p.max \in Nat, Proceed(r, c, p), chats' = chats
  PROVE  /\ NothingUnsaved'
         /\ \A d \in Chats \ {c} : cursor'[d] = cursor[d]
         /\ \/ cursor'[c] = cursor[c]
            \/ cursor'[c] = p.max /\ p.max > cursor[c]
         /\ \A k \in Rounds, d \in Chats :
              \/ round'[k].poll[d] \in {round[k].poll[d], IdlePoll}
              \/ k = r /\ d = c /\ round'[k].poll[d] = p
<1>0. cursor \in [Chats -> Nat] /\ round \in [Rounds -> RoundType]
  BY InvTypes
<1>1. PICK x \in {p, IdlePoll} : round' = [round EXCEPT ![r] = After(r, c, x)]
  BY DEF Proceed, Finish, GoesOn
<1>2. \A k \in Rounds, d \in Chats :
        \/ round'[k].poll[d] \in {round[k].poll[d], IdlePoll}
        \/ k = r /\ d = c /\ round'[k].poll[d] = p
  <2> SUFFICES ASSUME NEW k \in Rounds, NEW d \in Chats
               PROVE  \/ round'[k].poll[d] \in {round[k].poll[d], IdlePoll}
                      \/ k = r /\ d = c /\ round'[k].poll[d] = p
    OBVIOUS
  <2>1. round'[k] = IF k = r THEN After(r, c, x) ELSE round[k]
    BY <1>0, <1>1
  <2>2. \/ After(r, c, x).poll[d] = IdlePoll
        \/ After(r, c, x).poll[d] = (IF d = c THEN x ELSE round[r].poll[d])
    BY AfterEffect
  <2> QED
    BY <2>1, <2>2
<1>3. CASE p.todo # {}
  BY <1>2, <1>3 DEF Proceed, GoesOn, NothingUnsaved
<1>4. CASE p.todo = {}
  <2>1. /\ cursor' = [cursor EXCEPT ![c] = MaxOf(@, p.max)]
        /\ saved' = IF p.max > cursor[c] THEN Saved(chats, cursor') ELSE saved
    BY <1>4 DEF Proceed, Finish
  <2>2. CASE p.max > cursor[c]
    <3>1. MaxOf(cursor[c], p.max) = p.max
      BY <1>0, <2>2 DEF MaxOf
    <3> QED
      BY <1>0, <1>2, <2>1, <2>2, <3>1 DEF NothingUnsaved
  <2>3. CASE ~(p.max > cursor[c])
    <3>1. MaxOf(cursor[c], p.max) = cursor[c]
      BY <1>0, <2>3 DEF MaxOf
    <3>2. cursor' = cursor /\ saved' = saved
      BY <1>0, <2>1, <2>3, <3>1
    <3> QED
      BY <1>2, <3>2 DEF NothingUnsaved
  <2> QED
    BY <2>2, <2>3
<1> QED
  BY <1>3, <1>4

\* ReaderInv after a step in which lists and cursors only grow, polls carry
\* nothing new that is not reached, and those that go on have chats.
LEMMA ReaderKept ==
  ASSUME Inv, Inv', ReaderInv, NothingUnsaved',
         chats \cup removed \subseteq chats' \cup removed',
         removed \subseteq removed',
         \A c \in Chats \ removed' :
           list[c] \subseteq list'[c] /\ cursor[c] <= cursor'[c],
         \A c \in Chats \ removed', r \in Rounds :
           \/ round'[r].poll[c].max \in {0, round[r].poll[c].max}
           \/ Reached(list'[c], cursor'[c], round'[r].poll[c].max),
         \A c \in Chats \ (chats' \cup removed') :
           /\ cursor'[c] = cursor[c]
           /\ \A r \in Rounds :
                round'[r].poll[c].pc \in {"idle", round[r].poll[c].pc}
  PROVE  ReaderInv'
<1>1. Untouched'
  BY DEF ReaderInv, Untouched
<1>2. ASSUME NEW c \in Chats \ removed', NEW r \in Rounds
      PROVE  Reached(list'[c], cursor'[c], round'[r].poll[c].max)
  <2>1. /\ cursor[c] \in Nat /\ cursor'[c] \in Nat
        /\ round[r].poll[c].max \in Nat
    BY InvTypes DEF Inv, TypeOK, RoundType, Poll
  <2>2. Reached(list[c], cursor[c], round[r].poll[c].max)
    BY DEF ReaderInv, PollsReach
  <2> QED
    BY <2>1, <2>2, StaysReached, ReachedZero
<1>3. PollsReach'
  BY <1>2 DEF PollsReach
<1> QED
  BY <1>1, <1>3 DEF ReaderInv

\* A step that leaves the polls, lists and cursors alone.
LEMMA ReaderSame ==
  ASSUME Inv, Inv', ReaderInv, UNCHANGED <<list, cursor, round, removed>>,
         chats \subseteq chats', NothingUnsaved'
  PROVE  ReaderInv' /\ \A c \in Chats \ removed' : Reads(c)
<1>1. \A c \in Chats \ removed' : list[c] \subseteq list'[c] /\ cursor[c] <= cursor'[c]
  BY InvTypes
<1>2. ReaderInv'
  BY <1>1, ReaderKept
<1> QED
  BY <1>2 DEF Reads

LEMMA RemoveReads ==
  ASSUME Inv, Inv', ReaderInv, NEW d \in Chats, RemoveChat(d)
  PROVE  ReaderInv' /\ \A c \in Chats \ removed' : Reads(c)
<1>1. /\ chats' = chats \ {d} /\ removed' = removed \cup {d}
      /\ list' = [list EXCEPT ![d] = {}] /\ saved' = Saved(chats', cursor)
      /\ UNCHANGED <<cursor, round>>
  BY DEF RemoveChat
<1>2. NothingUnsaved'
  BY <1>1 DEF NothingUnsaved
<1>3. \A c \in Chats \ removed' :
        list'[c] = list[c] /\ list[c] \subseteq list'[c] /\ cursor[c] <= cursor'[c]
  BY <1>1, InvTypes
<1>4. ReaderInv'
  BY <1>1, <1>2, <1>3, ReaderKept
<1> QED
  BY <1>1, <1>3, <1>4 DEF Reads

LEMMA OpenReads ==
  ASSUME Inv, Inv', ReaderInv, NEW d \in Chats, NEW r \in Rounds, OpenChat(d, r)
  PROVE  ReaderInv' /\ \A c \in Chats \ removed' : Reads(c)
<1> DEFINE q == [IdleRound EXCEPT !.kind = "open", !.poll[d] = Begun(d)]
<1>1. /\ d \in chats
      /\ round' = [round EXCEPT ![r] = q]
      /\ UNCHANGED <<saved, chats, cursor, list, removed>>
  BY DEF OpenChat
<1>2. /\ \A c \in Chats : q.poll[c].max = 0
      /\ \A c \in Chats \ {d} : q.poll[c].pc = "idle"
  <2>1. q.poll = [IdleRound.poll EXCEPT ![d] = Begun(d)]
    BY DEF IdleRound
  <2>2. IdleRound.poll \in [Chats -> Poll] /\ \A c \in Chats : IdleRound.poll[c] = IdlePoll
    BY IdleTypes DEF RoundType
  <2>3. Begun(d).max = 0
    BY BegunOK, InvTypes
  <2> HIDE DEF q
  <2> QED
    BY <2>1, <2>2, <2>3, IdleTypes
<1> HIDE DEF q
<1>3. \A k \in Rounds : round'[k] = round[k] \/ round'[k] = q
  BY <1>1, InvTypes
<1>4. NothingUnsaved'
  BY <1>1 DEF ReaderInv, NothingUnsaved
<1>5. \A c \in Chats \ removed' : list[c] \subseteq list'[c] /\ cursor[c] <= cursor'[c]
  BY <1>1, InvTypes
<1>6. ReaderInv'
  BY <1>1, <1>2, <1>3, <1>4, <1>5, ReaderKept
<1> QED
  BY <1>1, <1>6 DEF Reads

LEMMA TimerReads ==
  ASSUME Inv, Inv', ReaderInv, NEW r \in Rounds, TimerFires(r)
  PROVE  ReaderInv' /\ \A c \in Chats \ removed' : Reads(c)
<1> DEFINE polls == [c \in Chats |-> IF c \in chats \ BadKeys
                                     THEN Begun(c) ELSE IdlePoll]
           q == [kind |-> "timer", poll |-> polls]
<1>1. /\ round' = [round EXCEPT ![r] = q]
      /\ UNCHANGED <<saved, chats, cursor, list, removed>>
  BY DEF TimerFires
<1>2. /\ \A c \in Chats : polls[c].max = 0
      /\ \A c \in Chats \ chats : polls[c].pc = "idle"
  BY BegunOK, IdleTypes, InvTypes
<1>3. q.poll = polls
  OBVIOUS
<1> HIDE DEF q, polls
<1>4. \A k \in Rounds : round'[k] = round[k] \/ round'[k] = q
  BY <1>1, InvTypes
<1>5. NothingUnsaved'
  BY <1>1 DEF ReaderInv, NothingUnsaved
<1>6. \A c \in Chats \ removed' : list[c] \subseteq list'[c] /\ cursor[c] <= cursor'[c]
  BY <1>1, InvTypes
<1>7. ReaderInv'
  BY <1>1, <1>2, <1>3, <1>4, <1>5, <1>6, ReaderKept
<1> QED
  BY <1>1, <1>7 DEF Reads

LEMMA GivenUpReads ==
  ASSUME Inv, Inv', ReaderInv, NEW r \in Rounds, NEW d \in Chats,
         Stall(r, d) \/ KeyFails(r, d)
  PROVE  ReaderInv' /\ \A c \in Chats \ removed' : Reads(c)
<1>1. /\ round' = [round EXCEPT ![r] = After(r, d, IdlePoll)]
      /\ UNCHANGED <<saved, chats, cursor, list, removed>>
  BY DEF Stall, KeyFails
<1>2. \A k \in Rounds, c \in Chats :
        round'[k].poll[c] \in {IdlePoll, round[k].poll[c]}
  <2>1. \A c \in Chats :
          After(r, d, IdlePoll).poll[c] \in {IdlePoll, round[r].poll[c]}
    BY AfterEffect
  <2>2. \A k \in Rounds :
          round'[k] = IF k = r THEN After(r, d, IdlePoll) ELSE round[k]
    BY <1>1, InvTypes
  <2> QED
    BY <2>1, <2>2
<1>3. NothingUnsaved'
  BY <1>1 DEF ReaderInv, NothingUnsaved
<1>4. \A c \in Chats \ removed' : list[c] \subseteq list'[c] /\ cursor[c] <= cursor'[c]
  BY <1>1, InvTypes
<1>5. IdlePoll.max = 0 /\ IdlePoll.pc = "idle"
  BY IdleTypes
<1>6. ReaderInv'
  <2>1. /\ \A c \in Chats, k \in Rounds :
             /\ round'[k].poll[c].max \in {0, round[k].poll[c].max}
             /\ round'[k].poll[c].pc \in {"idle", round[k].poll[c].pc}
    BY <1>2, <1>5
  <2> QED
    BY <1>1, <1>3, <1>4, <2>1, ReaderKept
<1> QED
  BY <1>1, <1>6 DEF Reads

\* Every list is lost, and the cursors come back as they were.
LEMMA ReloadReads ==
  ASSUME Inv, Inv', ReaderInv, Reload
  PROVE  ReaderInv' /\ \A c \in Chats \ removed' : Reads(c)
<1>1. /\ chats' = DOMAIN saved
      /\ cursor' = [c \in Chats |-> IF c \in DOMAIN saved THEN saved[c] ELSE 0]
      /\ list' = [c \in Chats |-> {}]
      /\ round' = [r \in Rounds |-> IdleRound]
      /\ UNCHANGED <<saved, removed>>
  BY DEF Reload
<1>2. saved = [c \in chats |-> cursor[c]] /\ chats \subseteq Chats
  BY InvTypes DEF ReaderInv, NothingUnsaved, Saved
<1>3. chats' = chats
  BY <1>1, <1>2
<1>4. \A c \in Chats \ removed' : cursor'[c] = cursor[c]
  BY <1>1, <1>2 DEF ReaderInv, Untouched
<1>5. NothingUnsaved'
  BY <1>1, <1>2, <1>3 DEF NothingUnsaved, Saved
<1>6. \A r \in Rounds, c \in Chats :
        round'[r].poll[c].max = 0 /\ round'[r].poll[c].pc = "idle"
  BY <1>1, IdleTypes
<1>7. Untouched'
  BY <1>1, <1>3, <1>4, <1>6 DEF ReaderInv, Untouched
<1>8. PollsReach'
  <2>1. \A c \in Chats : cursor'[c] \in Nat
    BY InvTypes DEF Inv, TypeOK
  <2> QED
    BY <1>6, <2>1, ReachedZero DEF PollsReach
<1>9. \A c \in Chats \ removed' : Reads(c)
  BY <1>1, <1>4 DEF Reads, Reader!Next, Reader!Leave
<1> QED
  BY <1>5, <1>7, <1>8, <1>9 DEF ReaderInv

\* A message joins the list of d, whatever its poll does with the cursor.
LEMMA JoinReads ==
  ASSUME Inv, Inv', NEW d \in Chats, NEW m \in Messages,
         list' = [list EXCEPT ![d] = @ \cup {m}],
         \A c \in Chats \ {d} : cursor'[c] = cursor[c],
         \/ cursor'[d] = cursor[d]
         \/ /\ cursor'[d] > cursor[d]
            /\ \E x \in list'[d] : Time[x] = cursor'[d],
         NEW c \in Chats
  PROVE  Reads(c)
<1>1. CASE c # d
  BY <1>1, InvTypes DEF Reads
<1>2. CASE c = d
  <2> DEFINE times == [x \in Messages |-> {Time[x]}]
  <2>1. list'[c] = list[c] \cup {m} /\ list'[c] \subseteq Messages
    BY <1>2, InvTypes
  <2>2. \A x \in list'[c] : Time[x] \in UNION { times[y] : y \in list'[c] }
    BY <2>1
  <2>3. Reader(c)!Join
    BY <1>2, <2>1, <2>2 DEF Reader!Join, Reader!Times
  <2> QED
    BY <2>3 DEF Reads, Reader!Next
<1> QED
  BY <1>1, <1>2

LEMMA FinishSendReads ==
  ASSUME Inv, Inv', ReaderInv, FinishSend
  PROVE  ReaderInv' /\ \A c \in Chats \ removed' : Reads(c)
<1>1. PICK m \in send.msg : list' = [list EXCEPT ![send.chat] = @ \cup {m}]
  BY DEF FinishSend, ListAndEmit
<1>2. m \in Messages /\ send.chat \in Chats
  BY DEF FinishSend, Inv, TypeOK, SendOK
<1>3. UNCHANGED <<saved, chats, cursor, round, removed>>
  BY DEF FinishSend
<1>4. \A c \in Chats \ removed' : list[c] \subseteq list'[c] /\ cursor[c] <= cursor'[c]
  BY <1>1, <1>2, <1>3, InvTypes
<1>5. NothingUnsaved'
  BY <1>3 DEF ReaderInv, NothingUnsaved
<1>6. ReaderInv'
  BY <1>3, <1>4, <1>5, ReaderKept
<1> QED
  BY <1>1, <1>2, <1>3, <1>6, JoinReads

\* A poll under way has a chat, or had one.
LEMMA PollHasChat ==
  ASSUME ReaderInv, NEW r \in Rounds, NEW d \in Chats,
         round[r].poll[d].pc # "idle"
  PROVE  d \in chats \cup removed
  BY DEF ReaderInv, Untouched

\* ReaderInv after a turn of a poll that goes on, or ends, with p as its locals.
LEMMA ProceedReads ==
  ASSUME Inv, Inv', ReaderInv, NEW r \in Rounds, NEW d \in Chats, NEW p,
         round[r].poll[d].pc # "idle", p.max \in Nat, Proceed(r, d, p),
         \A c \in Chats : list[c] \subseteq list'[c],
         d \notin removed => Reached(list'[d], cursor[d], p.max),
         UNCHANGED <<chats, removed>>
  PROVE  /\ ReaderInv'
         /\ \A c \in Chats \ {d} : cursor'[c] = cursor[c]
         /\ \/ cursor'[d] = cursor[d]
            \/ cursor'[d] = p.max /\ p.max > cursor[d]
<1>1. /\ NothingUnsaved'
      /\ \A c \in Chats \ {d} : cursor'[c] = cursor[c]
      /\ \/ cursor'[d] = cursor[d]
         \/ cursor'[d] = p.max /\ p.max > cursor[d]
      /\ \A k \in Rounds, c \in Chats :
           \/ round'[k].poll[c] \in {round[k].poll[c], IdlePoll}
           \/ k = r /\ c = d /\ round'[k].poll[c] = p
  BY ProceedEffect DEF ReaderInv
<1>2. d \in chats \cup removed
  BY PollHasChat
<1>3. \A c \in Chats : cursor[c] \in Nat /\ cursor'[c] \in Nat
  BY InvTypes DEF Inv, TypeOK
<1>4. \A c \in Chats : cursor[c] <= cursor'[c]
  BY <1>1, <1>3
<1>5. IdlePoll.max = 0 /\ IdlePoll.pc = "idle"
  BY IdleTypes
<1>6. d \notin removed => Reached(list'[d], cursor'[d], p.max)
  BY <1>3, <1>4, StaysReached
<1>7. ReaderInv'
  BY <1>1, <1>2, <1>4, <1>5, <1>6, ReaderKept
<1> QED
  BY <1>1, <1>7

LEMMA AssembleReads ==
  ASSUME Inv, Inv', ReaderInv, NEW r \in Rounds, NEW d \in Chats, Assemble(r, d)
  PROVE  ReaderInv' /\ \A c \in Chats \ removed' : Reads(c)
<1> DEFINE q == round[r].poll[d]
<1>1. q.pc = "fetching" /\ UNCHANGED <<chats, list, removed>>
  BY DEF Assemble
<1>2. PICK complete \in SUBSET Fetched(d, q.since) :
        Proceed(r, d,
          [q EXCEPT !.pc = "decrypting", !.since = 0,
                    !.todo = complete \ list[d], !.isActive = (d = active),
                    !.max = cursor[d]])
  BY DEF Assemble
<1> DEFINE p == [q EXCEPT !.pc = "decrypting", !.since = 0,
                          !.todo = complete \ list[d],
                          !.isActive = (d = active), !.max = cursor[d]]
<1>3. q \in Poll /\ cursor[d] \in Nat
  BY InvTypes DEF RoundType
<1>4. p.max = cursor[d]
  BY <1>3 DEF Poll
<1>5. Proceed(r, d, p)
  BY <1>2
<1> HIDE DEF p
<1>6. Reached(list'[d], cursor[d], p.max)
  BY <1>3, <1>4 DEF Reached
<1>7. /\ ReaderInv'
      /\ \A c \in Chats \ {d} : cursor'[c] = cursor[c]
      /\ \/ cursor'[d] = cursor[d]
         \/ cursor'[d] = p.max /\ p.max > cursor[d]
  BY <1>1, <1>3, <1>4, <1>5, <1>6, ProceedReads
<1>8. cursor'[d] = cursor[d]
  BY <1>3, <1>4, <1>7
<1> QED
  BY <1>1, <1>7, <1>8 DEF Reads

LEMMA DecryptedReads ==
  ASSUME Inv, Inv', ReaderInv, NEW r \in Rounds, NEW d \in Chats, Decrypted(r, d)
  PROVE  ReaderInv' /\ \A c \in Chats \ removed' : Reads(c)
<1> DEFINE q == round[r].poll[d]
<1>1. q.pc = "decrypting" /\ UNCHANGED <<chats, removed>>
  BY DEF Decrypted
<1>2. PICK m \in q.todo :
        /\ IF q.isActive THEN ListAndEmit(d, m) ELSE ListOnly(d, m)
        /\ Proceed(r, d,
             [q EXCEPT !.todo = @ \ {m}, !.max = MaxOf(@, Time[m]),
                       !.fresh = IF q.isActive THEN @ ELSE @ \cup {m}])
  BY DEF Decrypted
<1> DEFINE fresh == IF q.isActive THEN q.fresh ELSE q.fresh \cup {m}
           p == [q EXCEPT !.todo = @ \ {m}, !.max = MaxOf(@, Time[m]),
                          !.fresh = fresh]
<1>3. Proceed(r, d, p)
  BY <1>2
<1>4. list' = [list EXCEPT ![d] = @ \cup {m}]
  BY <1>2 DEF ListAndEmit, ListOnly
<1>5. /\ q \in Poll /\ q.max \in Nat /\ m \in Messages /\ Time[m] \in Nat
      /\ cursor[d] \in Nat
  <2>1. q \in Poll
    BY InvTypes DEF RoundType
  <2> QED
    BY <2>1, TimeType, InvTypes DEF Poll
<1> HIDE DEF fresh
<1>6. p.max = q.max \/ p.max = Time[m]
  BY <1>5 DEF Poll, MaxOf
<1>7. p.max \in Nat
  <2> HIDE DEF p
  <2> QED
    BY <1>5, <1>6
<1>8. m \in list'[d] /\ \A c \in Chats : list[c] \subseteq list'[c]
  BY <1>4, InvTypes
<1>9. d \notin removed => Reached(list[d], cursor[d], q.max)
  BY DEF ReaderInv, PollsReach
<1>10. d \notin removed => Reached(list'[d], cursor[d], p.max)
  <2> HIDE DEF p, q
  <2> QED
    BY <1>5, <1>6, <1>8, <1>9 DEF Reached
<1> HIDE DEF p
<1>11. /\ ReaderInv'
       /\ \A c \in Chats \ {d} : cursor'[c] = cursor[c]
       /\ \/ cursor'[d] = cursor[d]
          \/ cursor'[d] = p.max /\ p.max > cursor[d]
  BY <1>1, <1>3, <1>7, <1>8, <1>10, ProceedReads
<1>12. ASSUME NEW c \in Chats \ removed'
       PROVE  Reads(c)
  <2>1. CASE c # d
    BY <1>4, <1>11, <2>1, InvTypes DEF Reads
  <2>2. CASE c = d
    <3>1. p.max > cursor[d] => \E x \in list'[d] : Time[x] = p.max
      BY <1>1, <1>5, <1>7, <1>10, <2>2 DEF Reached
    <3> QED
      BY <1>4, <1>5, <1>11, <3>1, JoinReads
  <2> QED
    BY <2>1, <2>2
<1> QED
  BY <1>11, <1>12

LEMMA ReaderStep ==
  ASSUME Inv, Inv', ReaderInv, [Next]_vars
  PROVE  ReaderInv' /\ \A c \in Chats \ removed' : Reads(c)
<1>1. ASSUME NEW c \in Chats, CreateChat(c)
      PROVE  ReaderInv' /\ \A d \in Chats \ removed' : Reads(d)
  <2>1. /\ UNCHANGED <<list, cursor, round, removed>>
        /\ chats \subseteq chats' /\ saved' = Saved(chats', cursor)
    BY <1>1 DEF CreateChat
  <2> QED
    BY <2>1, ReaderSame DEF NothingUnsaved
<1>2. ASSUME NEW m \in Messages, NEW length \in Lengths, StartSend(m, length)
      PROVE  ReaderInv' /\ \A d \in Chats \ removed' : Reads(d)
  BY <1>2, ReaderSame DEF StartSend, ReaderInv, NothingUnsaved
<1>3. CASE UNCHANGED vars
  BY <1>3, ReaderSame DEF vars, ReaderInv, NothingUnsaved
<1> QED
  BY <1>1, <1>2, <1>3, RemoveReads, OpenReads, TimerReads, GivenUpReads,
     ReloadReads, FinishSendReads, AssembleReads, DecryptedReads
  DEF Next, PollNext

LEMMA ReaderInit == Init => ReaderInv /\ \A c \in Chats : Reader(c)!Init
<1> SUFFICES ASSUME Init PROVE ReaderInv /\ \A c \in Chats : Reader(c)!Init
  OBVIOUS
<1>1. saved = Saved(chats, cursor)
  BY DEF Init, Saved
<1>2. /\ \A c \in Chats : cursor[c] = 0 /\ list[c] = {}
      /\ \A r \in Rounds : round[r] = IdleRound
  BY DEF Init
<1>3. Untouched /\ PollsReach
  BY <1>2, IdleTypes DEF Untouched, PollsReach, Reached
<1> QED
  BY <1>1, <1>2, <1>3 DEF ReaderInv, NothingUnsaved, Reader!Init

LEMMA ReaderInvHolds == Spec => []ReaderInv
<1>1. Inv /\ Inv' /\ ReaderInv /\ [Next]_vars => ReaderInv'
  BY ReaderStep
<1> QED
  BY <1>1, ReaderInit, InvHolds, PTL DEF Spec

\* At whatever await the page is closed, no chat and no cursor is lost: what is
\* saved is what is in memory (saveChats and its three callers).
THEOREM ClosingLosesNothing == Spec => []NothingUnsaved
<1>1. ReaderInv => NothingUnsaved
  BY DEF ReaderInv
<1> QED
  BY <1>1, ReaderInvHolds, PTL

\* Until it is removed each chat implements ChatReader, across overlapping
\* rounds of polls, posts, and lives of the page: one message at a time joins
\* its list, and its cursor moves only then, forward, to the time of a message
\* on the list (pollChat, sendMessage, init).
THEOREM ChatsImplementChatReader == Spec => ChatsKeepPromise
<1>1. Inv /\ Inv' /\ ReaderInv /\ [Next]_vars =>
        [\A c \in Chats \ removed' :
           [Reader(c)!Next]_<<list[c], cursor[c]>>]_vars
  BY ReaderStep DEF Reads
<1> QED
  BY <1>1, ReaderInit, ReaderInvHolds, InvHolds, PTL DEF Spec, ChatsKeepPromise

-----------------------------------------------------------------------------
(***************************************************************************)
(* Polling is never lost: what makes the timer's return a matter of        *)
(* fairness alone.                                                         *)
(***************************************************************************)
\* A poll that is not over has something left to do, and a round has a poll
\* that is not over.
GoesOnPoll(p) ==
  p.pc \in {"importing", "fetching"} \/ (p.pc = "decrypting" /\ p.todo # {})

Alive(q) ==
  /\ \A c \in Chats : q.poll[c].pc # "idle" => GoesOnPoll(q.poll[c])
  /\ q.kind # "none" => \E c \in Chats : q.poll[c].pc # "idle"

RoundsAlive == \A r \in Rounds : Alive(round[r])

\* Somebody awaits what will set the timer.
Awaited ==
  \E r \in Rounds, c \in Chats : round[r].kind = "open" /\ GoingOn(r, c)

AliveInv == RoundsAlive /\ PollsGoOn

LEMMA OpenIsAwaited ==
  ASSUME NEW r \in Rounds, Alive(round[r]), round[r].kind = "open"
  PROVE  Awaited
  BY DEF Alive, GoesOnPoll, Awaited, GoingOn

LEMMA AwaitedIsOpen ==
  ASSUME Awaited PROVE \E r \in Rounds : round[r].kind = "open"
  BY DEF Awaited

LEMMA IdleAlive == Alive(IdleRound)
<1>1. /\ IdleRound.kind = "none"
      /\ \A c \in Chats : IdleRound.poll[c] = IdlePoll
  <2>1. IdleRound.poll = [c \in Chats |-> IdlePoll]
    BY DEF IdleRound
  <2> QED
    BY <2>1 DEF IdleRound
<1>2. IdlePoll.pc = "idle"
  BY IdleTypes
<1> QED
  BY <1>1, <1>2 DEF Alive

\* A round in which one poll went on, or ended.
LEMMA AfterAlive ==
  ASSUME Inv, NEW r \in Rounds, Alive(round[r]), NEW c \in Chats, NEW p,
         p.pc # "idle" => GoesOnPoll(p)
  PROVE  /\ Alive(After(r, c, p))
         /\ p.pc # "idle" => After(r, c, p).kind = round[r].kind
<1> DEFINE polls == [round[r].poll EXCEPT ![c] = p]
           q == [round[r] EXCEPT !.poll = polls]
<1>1. round[r] \in RoundType
  BY InvTypes
<1>2. \A d \in Chats : polls[d] = IF d = c THEN p ELSE round[r].poll[d]
  BY <1>1 DEF RoundType
<1>3. After(r, c, p) = IF \A d \in Chats : polls[d].pc = "idle" THEN IdleRound ELSE q
  BY DEF After
<1> HIDE DEF polls
<1>4. q.poll = polls /\ q.kind = round[r].kind
  BY <1>1 DEF RoundType
<1> HIDE DEF q
<1>5. CASE \A d \in Chats : polls[d].pc = "idle"
  BY <1>2, <1>3, <1>5, IdleAlive
<1>6. CASE \E d \in Chats : polls[d].pc # "idle"
  <2>1. After(r, c, p) = q
    BY <1>3, <1>6
  <2>2. Alive(q)
    BY <1>2, <1>4, <1>6 DEF Alive
  <2> QED
    BY <1>4, <2>1, <2>2
<1> QED
  BY <1>5, <1>6

\* AliveInv after a step that changes round r to one that is alive and, if it
\* was that of an openChat, still is, unless the timer was set or it stalls.
LEMMA AliveKept ==
  ASSUME Inv, Inv', AliveInv, NEW r \in Rounds, NEW q, Alive(q),
         round' = [round EXCEPT ![r] = q],
         active' = active \/ active' = NoChat,
         timer => timer', stalled => stalled',
         round[r].kind = "open" => q.kind = "open" \/ timer' \/ stalled'
  PROVE  AliveInv'
<1>1. \A k \in Rounds : round'[k] = IF k = r THEN q ELSE round[k]
  BY InvTypes
<1>2. \A k \in Rounds : Alive(round'[k])
  BY <1>1 DEF AliveInv, RoundsAlive
<1>3. RoundsAlive'
  BY <1>2 DEF RoundsAlive, Alive
<1>4. ASSUME active' # NoChat, ~timer', ~stalled'
      PROVE  Awaited'
  <2>1. PICK k \in Rounds : round[k].kind = "open"
    BY <1>4 DEF AliveInv, PollsGoOn
  <2>2. round'[k].kind = "open"
    BY <1>1, <1>4, <2>1
  <2>3. \E c \in Chats : round'[k].poll[c].pc # "idle" /\ GoesOnPoll(round'[k].poll[c])
    BY <1>2, <2>2 DEF Alive
  <2> QED
    BY <2>2, <2>3 DEF Awaited, GoingOn, GoesOnPoll
<1> QED
  BY <1>3, <1>4 DEF AliveInv, PollsGoOn, Awaited

LEMMA AliveSame ==
  ASSUME AliveInv, round' = round, active' = active \/ active' = NoChat,
         timer' = timer, stalled' = stalled
  PROVE  AliveInv'
  BY DEF AliveInv, RoundsAlive, Alive, PollsGoOn, GoingOn

LEMMA OpenAlive ==
  ASSUME Inv, Inv', AliveInv, NEW c \in Chats, NEW r \in Rounds, OpenChat(c, r)
  PROVE  AliveInv'
<1> DEFINE q == [IdleRound EXCEPT !.kind = "open", !.poll[c] = Begun(c)]
<1>1. round' = [round EXCEPT ![r] = q]
  BY DEF OpenChat
<1>2. q.kind = "open" /\ q.poll = [IdleRound.poll EXCEPT ![c] = Begun(c)]
  BY DEF IdleRound
<1> HIDE DEF q
<1>3. IdleRound.poll \in [Chats -> Poll] /\ \A d \in Chats : IdleRound.poll[d] = IdlePoll
  BY IdleTypes DEF RoundType
<1>4. IdlePoll.pc = "idle" /\ Begun(c).pc \in {"importing", "fetching"}
  BY IdleTypes, BegunOK, InvTypes
<1>5. /\ q.poll[c].pc \in {"importing", "fetching"}
      /\ \A d \in Chats \ {c} : q.poll[d].pc = "idle"
  BY <1>2, <1>3, <1>4
<1>6. Alive(q)
  BY <1>5 DEF Alive, GoesOnPoll
<1>7. \A k \in Rounds : round'[k] = IF k = r THEN q ELSE round[k]
  BY <1>1, InvTypes
<1>8. RoundsAlive'
  BY <1>6, <1>7 DEF AliveInv, RoundsAlive, Alive
<1>9. Awaited'
  <2>1. round'[r].kind = "open" /\ round'[r].poll[c].pc \in {"importing", "fetching"}
    BY <1>2, <1>5, <1>7
  <2> QED
    BY <2>1 DEF Awaited, GoingOn
<1> QED
  BY <1>8, <1>9 DEF AliveInv, PollsGoOn, Awaited

LEMMA TimerAlive ==
  ASSUME Inv, Inv', AliveInv, NEW r \in Rounds, TimerFires(r)
  PROVE  AliveInv'
<1> DEFINE polls == [c \in Chats |-> IF c \in chats \ BadKeys
                                     THEN Begun(c) ELSE IdlePoll]
           q == [kind |-> "timer", poll |-> polls]
<1>1. /\ round' = [round EXCEPT ![r] = q] /\ round[r].kind = "none"
      /\ UNCHANGED <<active, timer, stalled>>
  BY DEF TimerFires, Free
<1>2. PICK c \in Chats : c \in chats \ BadKeys
  BY InvTypes DEF TimerFires
<1>3. IdlePoll.pc = "idle"
  BY IdleTypes
<1>4. \A d \in Chats : Begun(d).pc \in {"importing", "fetching"}
  BY BegunOK, InvTypes
<1>5. /\ \A d \in Chats : polls[d].pc \in {"importing", "fetching", "idle"}
      /\ polls[c].pc # "idle"
  BY <1>2, <1>3, <1>4
<1>6. q.poll = polls
  OBVIOUS
<1> HIDE DEF q, polls
<1>7. Alive(q)
  BY <1>5, <1>6 DEF Alive, GoesOnPoll
<1> QED
  BY <1>1, <1>7, AliveKept

LEMMA GivenUpAlive ==
  ASSUME Inv, Inv', AliveInv, NEW r \in Rounds, NEW c \in Chats,
         Stall(r, c) \/ KeyFails(r, c)
  PROVE  AliveInv'
<1>1. /\ round' = [round EXCEPT ![r] = After(r, c, IdlePoll)]
      /\ active' = active
      /\ timer => timer'
      /\ stalled => stalled'
      /\ round[r].kind = "open" => timer' \/ stalled'
  <2>1. CASE Stall(r, c)
    BY <2>1, Zenon DEF Stall
  <2>2. CASE KeyFails(r, c)
    BY <2>2, Zenon DEF KeyFails
  <2> QED
    BY <2>1, <2>2
<1>2. Alive(After(r, c, IdlePoll))
  BY AfterAlive, IdleTypes DEF AliveInv, RoundsAlive
<1> QED
  BY <1>1, <1>2, AliveKept

\* A poll that has nothing left to list sets the timer it may be awaited for.
LEMMA ProceedAlive ==
  ASSUME Inv, Inv', AliveInv, NEW r \in Rounds, NEW c \in Chats, NEW p,
         p.pc = "decrypting", Proceed(r, c, p), UNCHANGED <<active, stalled>>
  PROVE  AliveInv'
<1>1. Alive(round[r])
  BY DEF AliveInv, RoundsAlive
<1>2. CASE p.todo = {}
  <2>1. /\ round' = [round EXCEPT ![r] = After(r, c, IdlePoll)]
        /\ timer' = (timer \/ round[r].kind = "open")
    BY <1>2 DEF Proceed, Finish
  <2>2. Alive(After(r, c, IdlePoll))
    BY <1>1, AfterAlive, IdleTypes
  <2> QED
    BY <2>1, <2>2, AliveKept
<1>3. CASE p.todo # {}
  <2>1. /\ round' = [round EXCEPT ![r] = After(r, c, p)]
        /\ timer' = timer
    BY <1>3 DEF Proceed, GoesOn
  <2>2. Alive(After(r, c, p)) /\ After(r, c, p).kind = round[r].kind
    BY <1>1, <1>3, AfterAlive DEF GoesOnPoll
  <2> QED
    BY <2>1, <2>2, AliveKept
<1> QED
  BY <1>2, <1>3

LEMMA AssembleAlive ==
  ASSUME Inv, Inv', AliveInv, NEW r \in Rounds, NEW c \in Chats, Assemble(r, c)
  PROVE  AliveInv'
<1> DEFINE q == round[r].poll[c]
<1>1. UNCHANGED <<active, stalled>>
  BY DEF Assemble
<1>2. PICK complete \in SUBSET Fetched(c, q.since) :
        Proceed(r, c,
          [q EXCEPT !.pc = "decrypting", !.since = 0,
                    !.todo = complete \ list[c], !.isActive = (c = active),
                    !.max = cursor[c]])
  BY DEF Assemble
<1> DEFINE p == [q EXCEPT !.pc = "decrypting", !.since = 0,
                          !.todo = complete \ list[c],
                          !.isActive = (c = active), !.max = cursor[c]]
<1>3. q \in Poll
  BY InvTypes DEF RoundType
<1>4. p.pc = "decrypting"
  BY <1>3 DEF Poll
<1>5. Proceed(r, c, p)
  BY <1>2
<1> HIDE DEF p
<1> QED
  BY <1>1, <1>4, <1>5, ProceedAlive

LEMMA DecryptedAlive ==
  ASSUME Inv, Inv', AliveInv, NEW r \in Rounds, NEW c \in Chats, Decrypted(r, c)
  PROVE  AliveInv'
<1> DEFINE q == round[r].poll[c]
<1>1. q.pc = "decrypting" /\ UNCHANGED <<active, stalled>>
  BY DEF Decrypted
<1>2. PICK m \in q.todo :
        Proceed(r, c,
          [q EXCEPT !.todo = @ \ {m}, !.max = MaxOf(@, Time[m]),
                    !.fresh = IF q.isActive THEN @ ELSE @ \cup {m}])
  BY DEF Decrypted
<1> DEFINE fresh == IF q.isActive THEN q.fresh ELSE q.fresh \cup {m}
           p == [q EXCEPT !.todo = @ \ {m}, !.max = MaxOf(@, Time[m]),
                          !.fresh = fresh]
<1>3. Proceed(r, c, p)
  BY <1>2
<1>4. q \in Poll
  BY InvTypes DEF RoundType
<1> HIDE DEF fresh
<1>5. p.pc = "decrypting"
  BY <1>1, <1>4 DEF Poll
<1> HIDE DEF p
<1> QED
  BY <1>1, <1>3, <1>5, ProceedAlive

LEMMA AliveStep ==
  ASSUME Inv, Inv', AliveInv, [Next]_vars
  PROVE  AliveInv'
<1>1. ASSUME NEW c \in Chats, CreateChat(c) \/ RemoveChat(c)
      PROVE  AliveInv'
  BY <1>1, AliveSame DEF CreateChat, RemoveChat
<1>2. ASSUME NEW m \in Messages, NEW length \in Lengths, StartSend(m, length)
      PROVE  AliveInv'
  BY <1>2, AliveSame DEF StartSend
<1>3. CASE FinishSend
  BY <1>3, AliveSame DEF FinishSend
<1>4. CASE Reload
  <2>1. active' = NoChat /\ \A r \in Rounds : round'[r] = IdleRound
    BY <1>4 DEF Reload
  <2>2. \A r \in Rounds : Alive(round'[r])
    BY <2>1, IdleAlive
  <2> QED
    BY <2>1, <2>2 DEF AliveInv, RoundsAlive, Alive, PollsGoOn
<1>5. CASE UNCHANGED vars
  BY <1>5, AliveSame DEF vars
<1> QED
  BY <1>1, <1>2, <1>3, <1>4, <1>5, OpenAlive, TimerAlive, GivenUpAlive,
     AssembleAlive, DecryptedAlive
  DEF Next, PollNext

\* While a chat is open the timer is set, or some openChat awaits a poll that
\* has something left to do and will set it, or an answer stalls: no order of
\* opening, removing, failing and reloading ends with nobody to set it
\* (ui.js:280-309).  That such a poll does go on is what fairness adds.
THEOREM PollingIsNotLost == Spec => []PollsGoOn
<1>1. Init => AliveInv
  <2> SUFFICES ASSUME Init PROVE AliveInv
    OBVIOUS
  <2>1. active = NoChat /\ \A r \in Rounds : round[r] = IdleRound
    BY DEF Init
  <2> QED
    BY <2>1, IdleAlive DEF AliveInv, RoundsAlive, PollsGoOn
<1>2. Inv /\ Inv' /\ AliveInv /\ [Next]_vars => AliveInv'
  BY AliveStep
<1>3. AliveInv => PollsGoOn
  BY DEF AliveInv
<1> QED
  BY <1>1, <1>2, <1>3, InvHolds, PTL DEF Spec

=============================================================================
