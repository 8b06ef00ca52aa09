--------------------------- MODULE MCFragmentStore ---------------------------
(***************************************************************************)
(* Constants of the FragmentStore runs.                                    *)
(***************************************************************************)
EXTENDS FragmentStore, TLC

CONSTANTS chat, msg, f1, f2, payload, t1, t2

Body(id, ttl) ==
  [id |-> id, message_id |-> msg, chat_id |-> chat, payload |-> payload,
   ttl |-> ttl]

\* Threads are alike.
Alike == Permutations(Threads)

\* f1 is kept until deleted, f2 expires after a second.
MixedBodies == { Body(f1, 0), Body(f2, 1) }
=============================================================================
