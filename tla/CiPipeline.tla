---------------------------- MODULE CiPipeline ----------------------------
(***************************************************************************)
(* app/ci_pipeline.py (run_ci_pipeline), app/pipeline_run.py (run_pipeline)*)
(* and pipeline/gate.py: pipelines that run in threads of one server, as   *)
(* PipelineRunService starts them.  They share the settings object, the    *)
(* limiters and the disk.  Each investigates its findings in turn and      *)
(* answers with the exit code of the gate, 2 for a technical failure, or   *)
(* is cancelled.                                                           *)
(***************************************************************************)
EXTENDS Investigation

CONSTANTS
    Static,         \* findings without a service or trusted artifacts
    Blocking,       \* findings that block the gate once they are confirmed
    Concurrent,     \* pipelines that may run at once: api_max_concurrent_runs
    Troubled,       \* bound: pipelines that fail, are cancelled or are slow
    Faults          \* bound: actions refused, writes of evidence and audit that fail

ASSUME CiPipelineAssumption ==
    /\ Static \subseteq Findings
    /\ Blocking \subseteq Findings
    /\ IsFiniteSet(Findings)
    /\ Concurrent \in Nat \ {0}
    /\ Troubled \subseteq Pipelines
    /\ Faults \in Nat

VARIABLES
    pc,         \* stage of each pipeline
    todo,       \* findings it has not begun
    reports,    \* status of the report of each finding, "none" without one
    errors,     \* is pipeline_errors not empty
    code,       \* exit code
    cancelled,  \* its cancellation token
    faults      \* refusals and failed writes so far

pipelineVars == <<pc, todo, reports, errors, code, cancelled, faults>>

vars == <<limiterVars, executorVars, settingsVars, graphVars, pipelineVars>>

Stages == {"new", "prepare", "open", "ready", "loop", "gate", "restore", "over"}

Codes == {"none", "pass", "risk", "technical", "cancelled"}

ReportStates == {"none", "confirmed", "rejected", "inconclusive", "policy_blocked"}

PipelineTypeOK ==
    /\ pc \in [Pipelines -> Stages]
    /\ todo \in [Pipelines -> SUBSET Findings]
    /\ reports \in [Pipelines -> [Findings -> ReportStates]]
    /\ errors \in [Pipelines -> BOOLEAN]
    /\ code \in [Pipelines -> Codes]
    /\ cancelled \in [Pipelines -> BOOLEAN]
    /\ faults \in 0 .. Faults

TypeOK == LimiterTypeOK /\ ExecutorTypeOK /\ SettingsTypeOK /\ GraphTypeOK /\ PipelineTypeOK

Init ==
    /\ LimiterInit
    /\ SettingsInit
    /\ ExecutorInit
    /\ GraphInit
    /\ pc = [p \in Pipelines |-> "new"]
    /\ todo = [p \in Pipelines |-> {}]
    /\ reports = [p \in Pipelines |-> [f \in Findings |-> "none"]]
    /\ errors = [p \in Pipelines |-> FALSE]
    /\ code = [p \in Pipelines |-> "none"]
    /\ cancelled = [p \in Pipelines |-> FALSE]
    /\ faults = 0

Running == {p \in Pipelines : pc[p] \notin {"new", "over"}}

\* check_cancelled lets the thread pass.
Proceeds(p) == ~cancelled[p]

Moves(p, stage) == pc' = [pc EXCEPT ![p] = stage]

---------------------------------------------------------------------------
\* run_ci_pipeline up to the first finding

Start(p) ==
    /\ pc[p] = "new"
    /\ Cardinality(Running) < Concurrent
    /\ TakeSnapshot(p)
    /\ Moves(p, "prepare")
    /\ UNCHANGED <<limiterVars, executorVars, graphVars, todo, reports, errors, code, cancelled, faults>>

Discover(p) ==
    /\ pc[p] = "prepare" /\ Proceeds(p)
    /\ TakePaths(p)
    /\ Moves(p, "open")
    /\ UNCHANGED <<limiterVars, executorVars, graphVars, todo, reports, errors, code, cancelled, faults>>

\* The sandbox is ready and run_pipeline begins.
OpenSandbox(p) ==
    /\ pc[p] = "open" /\ Proceeds(p)
    /\ TakeMode(p)
    /\ Moves(p, "ready")
    /\ UNCHANGED <<limiterVars, executorVars, graphVars, todo, reports, errors, code, cancelled, faults>>

\* SAST, the scout and PR analysis; the last may leave an error.
FindFindings(p, broken) ==
    /\ pc[p] = "ready" /\ Proceeds(p)
    /\ todo' = [todo EXCEPT ![p] = Findings]
    /\ errors' = [errors EXCEPT ![p] = broken]
    /\ Moves(p, "loop")
    /\ UNCHANGED <<limiterVars, executorVars, settingsVars, graphVars,
                   reports, code, cancelled, faults>>

---------------------------------------------------------------------------
\* One finding after the other

Between(p) == pc[p] = "loop" /\ At(p, "none")

BeginFinding(p, f) ==
    /\ Between(p) /\ Proceeds(p)
    /\ f \in todo[p] \ Static
    /\ todo' = [todo EXCEPT ![p] = @ \ {f}]
    /\ Investigate(p, f)
    /\ UNCHANGED <<limiterVars, settingsVars, pc, reports, errors, code, cancelled, faults>>

ReportStatic(p, f) ==
    /\ Between(p) /\ Proceeds(p)
    /\ f \in todo[p] \cap Static
    /\ todo' = [todo EXCEPT ![p] = @ \ {f}]
    /\ reports' = [reports EXCEPT ![p][f] = "inconclusive"]
    /\ UNCHANGED <<limiterVars, executorVars, settingsVars, graphVars,
                   pc, errors, code, cancelled, faults>>

\* Its report cannot be built or written: an error like that of any finding.
StaticFails(p, f) ==
    /\ Between(p) /\ Proceeds(p)
    /\ f \in todo[p] \cap Static
    /\ todo' = [todo EXCEPT ![p] = @ \ {f}]
    /\ errors' = [errors EXCEPT ![p] = TRUE]
    /\ UNCHANGED <<limiterVars, executorVars, settingsVars, graphVars,
                   pc, reports, code, cancelled, faults>>

\* Every node checks for cancellation before it does anything.
Think(p) ==
    /\ Proceeds(p)
    /\ NodeStep(p)
    /\ UNCHANGED <<limiterVars, settingsVars, pipelineVars>>

Execute(p) ==
    /\ Act(p)
    /\ UNCHANGED <<settingsVars, pipelineVars>>

\* An action is refused although its tool could run, or its writes fail;
\* faults only counts them.
Fault(p) ==
    /\ At(p, "acting") /\ faults < Faults
    /\ \/ RefuseAction(p, tool[p], InLab(p))
       \/ StoreFails(p) \/ AuditFails(p) \/ StoreFailureFails(p)
    /\ faults' = faults + 1
    /\ UNCHANGED <<settingsVars, graphVars, pc, todo, reports, errors, code, cancelled>>

ReportFinding(p) ==
    /\ At(p, "report") /\ Proceeds(p)
    /\ reports' = [reports EXCEPT ![p][finding[p]] = status[p]]
    /\ LeaveGraph(p) /\ Forget(p)
    /\ UNCHANGED <<limiterVars, settingsVars,
                   pc, todo, errors, code, cancelled, faults>>

\* May an exception, or RunCancelled, end the graph here: in a node, before
\* the action is counted or after its permit went back.
Interruptible(p) == phase[p] \in {"idle", "check", "done"} /\ gate[p] = Outside

\* The exception of one finding is kept for the gate; the others go on.
FindingFails(p) ==
    /\ ~At(p, "none") /\ Interruptible(p)
    /\ errors' = [errors EXCEPT ![p] = TRUE]
    /\ LeaveGraph(p) /\ Forget(p)
    /\ UNCHANGED <<limiterVars, settingsVars,
                   pc, todo, reports, code, cancelled, faults>>

---------------------------------------------------------------------------
\* The gate and the end

\* Mutant: the errors of single findings are forgotten.
EvaluateReportsOnly(p) ==
    /\ Between(p) /\ todo[p] = {} /\ Proceeds(p)
    /\ code' = [code EXCEPT ![p] =
           IF \E f \in Blocking : reports[p][f] = "confirmed" THEN "risk" ELSE "pass"]
    /\ Moves(p, "gate")
    /\ UNCHANGED <<limiterVars, executorVars, settingsVars, graphVars,
                   todo, reports, errors, cancelled, faults>>

\* evaluate_gate: exit codes 2, 1 and 0.
EvaluateGate(p) ==
    /\ Between(p) /\ todo[p] = {} /\ Proceeds(p)
    /\ code' = [code EXCEPT ![p] =
           IF errors[p] THEN "technical"
           ELSE IF \E f \in Blocking : reports[p][f] = "confirmed" THEN "risk" ELSE "pass"]
    /\ Moves(p, "gate")
    /\ UNCHANGED <<limiterVars, executorVars, settingsVars, graphVars,
                   todo, reports, errors, cancelled, faults>>

\* Telemetry and summary are written, the sandbox session is closed.
CloseSandbox(p) ==
    /\ pc[p] = "gate" /\ Proceeds(p)
    /\ Moves(p, "restore")
    /\ UNCHANGED <<limiterVars, executorVars, settingsVars, graphVars,
                   todo, reports, errors, code, cancelled, faults>>

\* Any exception outside the findings: also one after the gate's decision.
TechnicalFailure(p) ==
    /\ pc[p] \in {"prepare", "open", "ready", "gate"} \/ Between(p)
    /\ code' = [code EXCEPT ![p] = "technical"]
    /\ Moves(p, "restore")
    /\ UNCHANGED <<limiterVars, executorVars, settingsVars, graphVars,
                   todo, reports, errors, cancelled, faults>>

\* RunCancelled passes every except clause but runs every finally clause.
Unwind(p) ==
    /\ cancelled[p]
    /\ code' = [code EXCEPT ![p] = "cancelled"]
    /\ LeaveGraph(p)
    /\ Moves(p, "restore")
    /\ UNCHANGED <<settingsVars, todo, reports, errors, cancelled, faults>>

\* Mutant: cancellation is noticed between findings only.
RunCancelledBetween(p) ==
    /\ Between(p)
    /\ Forget(p)
    /\ Unwind(p)
    /\ UNCHANGED limiterVars

RunCancelled(p) ==
    /\ pc[p] \in {"prepare", "open", "ready", "loop", "gate"}
    /\ Interruptible(p)
    /\ Forget(p)
    /\ Unwind(p)
    /\ UNCHANGED limiterVars

RunCancelledInSandbox(p) ==
    /\ SandboxCancelled(p)
    /\ Unwind(p)

End(p) ==
    /\ pc[p] = "restore"
    /\ PutBack(p)
    /\ Moves(p, "over")
    /\ UNCHANGED <<limiterVars, executorVars, graphVars,
                   todo, reports, errors, code, cancelled, faults>>

\* Another thread cancels the token.
Cancel(p) ==
    /\ p \in Running /\ ~cancelled[p]
    /\ cancelled' = [cancelled EXCEPT ![p] = TRUE]
    /\ UNCHANGED <<limiterVars, executorVars, settingsVars, graphVars,
                   pc, todo, reports, errors, code, faults>>

Tick(p) ==
    /\ ClockRunsOut(p)
    /\ UNCHANGED <<limiterVars, settingsVars, pipelineVars>>

---------------------------------------------------------------------------
\* What the thread of p does without anything going wrong.
Work(p) ==
    \/ Discover(p) \/ OpenSandbox(p) \/ FindFindings(p, FALSE)
    \/ \E f \in Findings : BeginFinding(p, f) \/ ReportStatic(p, f)
    \/ Think(p) \/ Execute(p) \/ ReportFinding(p)
    \/ EvaluateGate(p) \/ CloseSandbox(p)
    \/ RunCancelled(p) \/ End(p)

Trouble(p) ==
    \/ FindFindings(p, TRUE) \/ Fault(p) \/ FindingFails(p)
    \/ \E f \in Findings : StaticFails(p, f)
    \/ TechnicalFailure(p) \/ RunCancelledInSandbox(p)
    \/ Cancel(p) \/ Tick(p)

AllOver == (\A p \in Pipelines : pc[p] = "over") /\ UNCHANGED vars

Next == \/ \E p \in Pipelines : Start(p) \/ Work(p)
        \/ \E p \in Troubled : Trouble(p)
        \/ AllOver

\* Threads are scheduled, and every command, request and model call that
\* Work waits for has a timeout.
Fairness == \A p \in Pipelines : WF_vars(Work(p))

Spec == Init /\ [][Next]_vars /\ Fairness

---------------------------------------------------------------------------
\* Properties

\* The exit code speaks for every finding: the gate only passes, or names a
\* risk, when each finding has a report, no failure was swallowed, and a
\* confirmed blocking finding never passes (evaluate_gate, and the comment
\* in run_pipeline that one failing finding hides neither the others nor
\* itself from the gate).
GateSeesEverything ==
    \A p \in Pipelines : pc[p] \in {"gate", "restore", "over"} /\ code[p] \in {"pass", "risk"} =>
        /\ \A f \in Findings : reports[p][f] # "none"
        /\ code[p] = "risk" <=> \E f \in Blocking : reports[p][f] = "confirmed"

\* While no pipeline runs, the process has the settings that a finished one
\* found: every way out of run_ci_pipeline puts all of them back.  It needs
\* pipelines that do not overlap (Concurrent = 1).
SettingsRestored ==
    Running = {} => \A p \in Pipelines : pc[p] = "over" => settings = snapshot[p]

\* A verdict that is confirmed or rejected rests on a record about the
\* pipeline's own repository.
OwnRepository ==
    \A p \in Pipelines, f \in Findings : reports[p][f] \in {"confirmed", "rejected"} =>
        \E x \in files : /\ x.run[1] = p /\ x.run[2] = f
                         /\ x.status = "completed" /\ x.says = reports[p][f]
                         /\ x.repo = p

\* A pipeline that starts ends, whatever fails, is denied or is cancelled,
\* and answers with a code.
PipelineEnds ==
    \A p \in Pipelines : pc[p] # "new" ~> pc[p] = "over" /\ code[p] # "none"

\* What a pipeline does is what README.md promises of verdicts: a case is a
\* finding of a pipeline, and an action is proven when a completed record
\* of it is on disk and an audit event for it was appended.
CaseAction(run) == <<<<run[1], run[2]>>, run[3]>>

Promise == INSTANCE Verdicts WITH
    Cases <- Pipelines \X Findings,
    Tries <- 1 .. MaxSteps,
    permitted <- {CaseAction(run) : run \in permitted},
    executed <- {CaseAction(x.run) : x \in executed},
    proven <- {<<CaseAction(x.run), x.says>> : x \in
                  {y \in files : y.status = "completed" /\ \E z \in log : z.run = y.run}},
    verdict <- [c \in Pipelines \X Findings |-> reports[c[1]][c[2]]]

ImplementsVerdicts == Promise!VerdictsSpec
===========================================================================
