----------------------------- MODULE Settings -----------------------------
(***************************************************************************)
(* app/config.py has one settings object per process.  A pipeline          *)
(* (app/ci_pipeline.py, app/pipeline_run.py) copies its fields, overwrites *)
(* them with its own paths and puts the copies back when it ends.  A path  *)
(* is modelled by the pipeline it belongs to, Boot for the path the        *)
(* process started with.                                                   *)
(*                                                                         *)
(* Assignments that follow each other without a call in between are one    *)
(* step.  evidence_dir, executor_audit_log and executor_work_dir are       *)
(* assigned together, so they are one field, output; target_file is left   *)
(* out: with a profile at hand nobody reads it.                            *)
(***************************************************************************)
EXTENDS Naturals, Sequences, PipelineNames

CONSTANTS
    Boot,       \* owner of the paths the process was started with
    BootModes,  \* values agent_mode may have then
    Asked       \* agent_mode of each request, "none" when it names none

Modes == {"stub", "llm"}

ASSUME SettingsAssumption ==
    /\ Boot \notin Pipelines
    /\ BootModes \subseteq Modes
    /\ Asked \in [Pipelines -> Modes \cup {"none"}]

VARIABLES
    settings,   \* the global object
    snapshot    \* settings_snapshot of each pipeline

settingsVars == <<settings, snapshot>>

Owners == Pipelines \cup {Boot}

Values == [repo : Owners, output : Owners, mode : Modes]

SettingsTypeOK == settings \in Values /\ snapshot \in [Pipelines -> Values]

SettingsInit ==
    /\ settings \in [repo : {Boot}, output : {Boot}, mode : BootModes]
    /\ snapshot = [p \in Pipelines |-> settings]

TakeSnapshot(p) ==
    /\ snapshot' = [snapshot EXCEPT ![p] = settings]
    /\ UNCHANGED settings

\* _run_ci_pipeline_inner, after discovery.
TakePaths(p) ==
    /\ settings' = [settings EXCEPT !.repo = p, !.output = p]
    /\ UNCHANGED snapshot

\* run_pipeline, with the sandbox ready: the mode, and the repository again.
TakeMode(p) ==
    /\ settings' = [settings EXCEPT !.repo = p,
                        !.mode = IF Asked[p] = "none" THEN @ ELSE Asked[p]]
    /\ UNCHANGED snapshot

\* Mutant: the output paths are forgotten.
PutBackRepository(p) ==
    /\ settings' = [settings EXCEPT !.repo = snapshot[p].repo, !.mode = snapshot[p].mode]
    /\ UNCHANGED snapshot

\* The finally clause of _run_ci_pipeline_inner.
PutBack(p) ==
    /\ settings' = snapshot[p]
    /\ UNCHANGED snapshot
===========================================================================
