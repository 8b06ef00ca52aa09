------------------------- MODULE MCServerLifecycle -------------------------
(***************************************************************************)
(* Constants of the ServerLifecycle runs.                                  *)
(***************************************************************************)
EXTENDS ServerLifecycle, TLC

CONSTANTS c1, c2, c3
=============================================================================
