----------------------------- MODULE RunNames -----------------------------
(***************************************************************************)
(* The names the modules of the run service share: run identifiers (uuid4, *)
(* each created at most once) and the None that stands for no run.         *)
(***************************************************************************)
EXTENDS FiniteSets

CONSTANTS Runs, NoRun

ASSUME RunNamesAssumption == IsFiniteSet(Runs) /\ NoRun \notin Runs
===========================================================================
