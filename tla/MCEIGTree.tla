----------------------------- MODULE MCEIGTree ------------------------------
(***************************************************************************)
(* Two contents of a node; the shapes of the tree are in the cfg files.    *)
(***************************************************************************)
EXTENDS EIGTree, TLC

CONSTANTS zero, a

MCValue == {zero, a}
MCchecksum == (zero :> 0) @@ (a :> 1)
=============================================================================
