--------------------------- MODULE PipelineNames ---------------------------
(***************************************************************************)
(* The pipelines of one server process: each is a thread that runs         *)
(* run_ci_pipeline once.                                                   *)
(***************************************************************************)
EXTENDS FiniteSets

CONSTANT Pipelines

ASSUME PipelineNamesAssumption == IsFiniteSet(Pipelines)
===========================================================================
