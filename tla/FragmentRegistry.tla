-------------------------- MODULE FragmentRegistry --------------------------
(***************************************************************************)
(* What a backend node promises about its table, with no threads, requests *)
(* or SQL in sight: a fragment enters once under a fresh id, is never      *)
(* altered, and leaves only when it has expired by the node's own clock or *)
(* when a client has asked for its deletion.  FragmentStore and FragChat   *)
(* implement this.                                                         *)
(***************************************************************************)
EXTENDS FragmentRows

VARIABLES
  table,   \* the rows stored
  now,     \* the node's clock, in seconds
  asked    \* the ids whose deletion some client is asking for: an input

Init == table = {}

\* A fragment whose id is not in the table is added; nothing else changes.
Admit ==
  /\ now' = now
  /\ \E f \in table' \ table :
       /\ f.id \notin IdsOf(table)
       /\ table' = table \cup {f}

\* Any number of expired rows leave together; the others stay as they are.
Retire ==
  /\ now' = now
  /\ table' \subseteq table
  /\ table \ table' \subseteq Expired(table, now)

\* One row leaves because its deletion was asked for.
Withdraw ==
  /\ now' = now
  /\ \E r \in table :
       /\ r.id \in asked
       /\ table' = table \ {r}

Pass ==
  /\ now' >= now
  /\ table' = table

Next == Admit \/ Retire \/ Withdraw \/ Pass

Spec == Init /\ [][Next]_<<table, now>>
=============================================================================
