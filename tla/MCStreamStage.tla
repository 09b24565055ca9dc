--------------------------- MODULE MCStreamStage ----------------------------
(* The consume loop, for TLC. *)
EXTENDS StreamStageProps
=============================================================================
