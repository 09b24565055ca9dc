--------------------------- MODULE MCEngineDriver ---------------------------
(* Instances of the engine driver for TLC. *)
EXTENDS EngineDriverProps
=============================================================================
