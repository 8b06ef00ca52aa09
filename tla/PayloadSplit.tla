---------------------------- MODULE PayloadSplit ----------------------------
(***************************************************************************)
(* splitPayload and joinPayload of frontend/js/crypto.js.  A chunk is a    *)
(* range of the payload's positions, from .. to - 1: joining chunks gives  *)
(* the payload exactly when each begins where the one before ends.         *)
(***************************************************************************)
EXTENDS Integers

\* String.prototype.slice(from, to) with 0 <= from <= to.
Slice(length, from, to) ==
  [ from |-> IF from <= length THEN from ELSE length,
    to   |-> IF to <= length THEN to ELSE length ]

\* A slip in the rounding: what is left over is in no chunk.
ChunkSizeDown(length, n) == length \div n

\* A slip in the rounding: up to whole groups of base64.
ChunkSizeInGroups(length, n) == 4 * ((length + 4 * n - 1) \div (4 * n))

\* Math.ceil(length / n).
ChunkSize(length, n) == (length + n - 1) \div n

\* splitPayload; the first chunk is chunk 0.
Split(length, n) ==
  [ i \in 0 .. n - 1 |->
      Slice(length, i * ChunkSize(length, n), (i + 1) * ChunkSize(length, n)) ]

\* A node refuses an empty payload.
EmptyChunks(chunks) == { i \in DOMAIN chunks : chunks[i].from = chunks[i].to }

\* joinPayload gives back a payload of that length.
Rejoins(chunks, n, length) ==
  /\ chunks[0].from = 0
  /\ \A i \in 0 .. n - 2 : chunks[i].to = chunks[i + 1].from
  /\ chunks[n - 1].to = length

\* What encrypt makes of one byte: 12 bytes of nonce and 16 of tag with it, in
\* base64.
ShortestPayload == 40

\* The most servers over which no length from the shortest on is split into
\* empty chunks: 41 over 8 is, and of lengths of base64 40 over 9.
MostServers == 7
=============================================================================
