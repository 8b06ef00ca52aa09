----------------------------- MODULE ChatReader -----------------------------
(***************************************************************************)
(* What a client promises of a chat it reads, with no polls, servers or    *)
(* awaits in sight: messages join its list one at a time, the list is lost *)
(* only as a whole, and the cursor moves only forward, at the moment a     *)
(* message joins, to the time of a message on the list.  FragChat and      *)
(* ClientState implement this.                                             *)
(***************************************************************************)
EXTENDS Integers

VARIABLES
  listed,   \* the messages on the list
  cursor,   \* the time from which on the nodes are asked
  times     \* [messages -> the times their fragments bear]: an input

Init == listed = {} /\ cursor = 0

Times(L) == UNION { times[m] : m \in L }

\* A message joins the list, or is there already.
Join ==
  /\ \E m \in DOMAIN times : listed' = listed \cup {m}
  /\ \/ cursor' = cursor
     \/ cursor' > cursor /\ cursor' \in Times(listed')

\* The page is left: its memory is lost, the cursor is not.
Leave ==
  /\ listed' = {}
  /\ cursor' = cursor

Next == Join \/ Leave

Spec == Init /\ [][Next]_<<listed, cursor>>
=============================================================================
