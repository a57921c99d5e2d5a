---------------------------- MODULE MCPeerStream ----------------------------
(***************************************************************************)
(* Two rounds among four processes: messages of one node and of three.     *)
(***************************************************************************)
EXTENDS PeerStream

FourProcesses == <<1, 3>>
=============================================================================
