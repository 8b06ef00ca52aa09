--------------------------- MODULE MCClientState ---------------------------
(***************************************************************************)
(* Constants of the ClientState runs: chat a has seven or nine servers and *)
(* a message written here, chat b one of somebody else, and the key of     *)
(* chat k is none.                                                         *)
(***************************************************************************)
EXTENDS ClientState, TLC

CONSTANTS a, b, k, ma, mb

MCChatOf == ma :> a @@ mb :> b
MCTime == ma :> 1 @@ mb :> 2
MCServers == a :> {7, 9} @@ b :> {3} @@ k :> {3}
=============================================================================
