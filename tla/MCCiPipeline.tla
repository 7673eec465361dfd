--------------------------- MODULE MCCiPipeline ---------------------------
(***************************************************************************)
(* Small instances of CiPipeline for TLC.  Action ids of f1 and f2 share   *)
(* their first 96 characters, as ids of two findings of one rule do.       *)
(***************************************************************************)
EXTENDS CiPipeline, TLC

CONSTANTS p1, p2, f1, f2, f3, MCShared, MCLab

MCDirs == Owners

MCIds == {1, 2} \X (1 .. MaxSteps)

MCShort == [f \in Findings |-> IF MCShared THEN 1 ELSE IF f = f1 THEN 1 ELSE 2]

\* p2 asks for the model, p1 takes the mode that is set.
MCAsked == [p \in Pipelines |-> IF p = p2 THEN "llm" ELSE "none"]

\* The stub has one tool for each rule; the model's second finding only ever
\* gets a command.
MCChoices ==
    [mode \in Modes |-> [f \in Findings |->
        IF mode = "llm" THEN (IF f = f1 THEN MCLab ELSE {"command"})
        ELSE IF f = f1 THEN {"inspect"} ELSE {"safe_noop", "observe"}]]
===========================================================================
