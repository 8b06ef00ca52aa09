------------------------- MODULE PayloadSplitProofs -------------------------
(***************************************************************************)
(* What splitPayload promises for every length and number of servers.      *)
(***************************************************************************)
EXTENDS PayloadSplit, TLAPS

LEMMA ChunkSizeBounds ==
  ASSUME NEW length \in Nat, NEW n \in Nat \ {0}
  PROVE  /\ ChunkSize(length, n) \in Nat
         /\ n * ChunkSize(length, n) >= length
         /\ n * ChunkSize(length, n) <= length + n - 1
  BY DEF ChunkSize

\* Joining the chunks of a payload gives the payload back, whatever its length
\* and the number of servers (crypto.js:81-99).
THEOREM SplitIsLossless ==
  ASSUME NEW length \in Nat, NEW n \in Nat \ {0}
  PROVE  Rejoins(Split(length, n), n, length)
<1> DEFINE c == ChunkSize(length, n)
<1>1. /\ c \in Nat
      /\ n * c >= length
  BY ChunkSizeBounds
<1>2. Split(length, n) =
        [ i \in 0 .. n - 1 |-> Slice(length, i * c, (i + 1) * c) ]
  BY DEF Split
<1> HIDE DEF c
<1>3. Split(length, n)[0].from = 0
  BY <1>1, <1>2 DEF Slice
<1>4. \A i \in 0 .. n - 2 :
        Split(length, n)[i].to = Split(length, n)[i + 1].from
  <2> TAKE i \in 0 .. n - 2
  <2>1. i \in 0 .. n - 1 /\ i + 1 \in 0 .. n - 1
    OBVIOUS
  <2>2. Split(length, n)[i] = Slice(length, i * c, (i + 1) * c)
    BY <1>2, <2>1
  <2>3. Split(length, n)[i + 1] = Slice(length, (i + 1) * c, ((i + 1) + 1) * c)
    BY <1>2, <2>1
  <2> QED
    BY <2>2, <2>3 DEF Slice
<1>5. Split(length, n)[n - 1].to = length
  <2>1. Split(length, n)[n - 1] = Slice(length, (n - 1) * c, n * c)
    BY <1>2
  <2> QED
    BY <1>1, <2>1 DEF Slice
<1> QED
  BY <1>3, <1>4, <1>5 DEF Rejoins

\* Up to seven servers no chunk of a message is empty, so that no node refuses
\* one for that (crypto.js:83, handlers.cpp:139).
THEOREM NoChunkIsEmpty ==
  ASSUME NEW length \in Nat, length >= ShortestPayload,
         NEW n \in 1 .. MostServers
  PROVE  EmptyChunks(Split(length, n)) = {}
<1> DEFINE c == ChunkSize(length, n)
<1>1. /\ c \in Nat
      /\ n * c >= length
      /\ n * c <= length + n - 1
  BY ChunkSizeBounds DEF MostServers
<1>2. Split(length, n) =
        [ i \in 0 .. n - 1 |-> Slice(length, i * c, (i + 1) * c) ]
  BY DEF Split
<1> HIDE DEF c
<1>3. (n - 1) * c < length /\ c > 0
  <2>1. n \in {1, 2, 3, 4, 5, 6, 7} /\ length >= 40
    BY DEF MostServers, ShortestPayload
  <2>2. \A k \in {1, 2, 3, 4, 5, 6, 7} :
          n = k => (n - 1) * c < length /\ c > 0
    BY <1>1, <2>1
  <2> QED
    BY <2>1, <2>2
<1>4. ASSUME NEW i \in 0 .. n - 1
      PROVE  i * c < length /\ i * c < (i + 1) * c
  BY <1>1, <1>3
<1>5. ASSUME NEW i \in 0 .. n - 1
      PROVE  Split(length, n)[i].from # Split(length, n)[i].to
  <2>1. Split(length, n)[i] = Slice(length, i * c, (i + 1) * c)
    BY <1>2
  <2> QED
    BY <1>1, <1>4, <2>1 DEF Slice
<1> QED
  BY <1>2, <1>5 DEF EmptyChunks
=============================================================================
