------------------------- MODULE MCBoschExperiment --------------------------
(***************************************************************************)
(* Instances of BoschExperiment for TLC.                                   *)
(***************************************************************************)
EXTENDS BoschExperiment

MCPeriods == <<0, 50, 100>>
MCShares == <<25, 50, 25>>

\* The hypothesis of the theorems about the schedule holds in the instance.
ASSUME OffsetsHypothesis == OffsetsFit
=============================================================================
