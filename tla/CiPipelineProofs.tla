------------------------- MODULE CiPipelineProofs -------------------------
(***************************************************************************)
(* Pipelines for every number of pipelines, findings, steps and action     *)
(* ids, with every failure and in any overlap.                             *)
(***************************************************************************)
EXTENDS CiPipeline, ExecutorProofs

Made == [repo : Dirs, output : Dirs]

\* Where a pipeline stands in its stages, in the graph, in the executor and
\* in the limiter fits together.
Control(p) ==
    /\ node[p] = "none" => finding[p] = NoFinding /\ steps[p] = 0 /\ hops[p] = 0
    /\ node[p] # "none" => finding[p] \in Findings /\ pc[p] = "loop"
    /\ phase[p] = "idle" <=> node[p] # "acting"
    /\ phase[p] \in {"idle", "check"} => gate[p] = Outside
    /\ phase[p] = "limit" => gate[p].at \in {"counted", "refused"}
    /\ phase[p] = "sandbox" => gate[p].at = "inside"
    /\ phase[p] \in {"put", "append", "put_again", "done"} =>
           /\ gate[p] = Outside \/ gate[p].at = "inside"
           /\ result[p].status # "none"
    /\ gate[p] # Outside => gate[p].dir = box[p].output /\ gate[p].id = ActionId(Run(p))
    /\ lab[p] # "none" \/ node[p] = "acting" => box[p] \in Made

\* The super-steps so far, exactly, and what is left of the step budget.
Budget(p) ==
    /\ node[p] = "guard" => steps[p] < MaxSteps /\ hops[p] = 8 * steps[p] + 2
    /\ node[p] = "propose" => steps[p] < MaxSteps /\ hops[p] = 8 * steps[p] + 3
    /\ node[p] \in {"validate", "execute", "acting", "reevaluate"} => steps[p] \in 1 .. MaxSteps
    /\ node[p] = "validate" => hops[p] = 8 * steps[p] - 2
    /\ node[p] = "execute" => hops[p] = 8 * steps[p] - 1
    /\ node[p] = "acting" => hops[p] = 8 * steps[p]
    /\ node[p] = "reevaluate" => hops[p] = 8 * steps[p] + 1
    /\ node[p] = "report" => hops[p] <= 8 * MaxSteps + 2

\* Nothing is decided before the report.
Reason(p) ==
    /\ node[p] \notin {"none", "report"} => status[p] \in {"none", "continue"} /\ stop[p] = "none"
    /\ node[p] = "none" => status[p] = "none" /\ stop[p] = "none"
    /\ node[p] = "report" =>
           /\ status[p] \notin {"none", "continue"} /\ stop[p] # "none"
           /\ status[p] \in {"confirmed", "rejected"} <=> stop[p] = "terminal_evidence"
           /\ status[p] = "policy_blocked" <=> stop[p] \in {"policy_blocked", "plan_rejected"}

\* Without an error every finding waits, is under investigation or has its
\* report; the exit code is what evaluate_gate makes of that.
Seen(p) ==
    /\ pc[p] \notin {"gate", "restore", "over"} => code[p] = "none"
    /\ pc[p] = "loop" /\ ~errors[p] =>
           \A f \in Findings : f \in todo[p] \/ f = finding[p] \/ reports[p][f] # "none"
    /\ pc[p] \in {"gate", "restore", "over"} /\ code[p] \in {"pass", "risk"} =>
           /\ \A f \in Findings : reports[p][f] # "none"
           /\ code[p] = "risk" <=> \E f \in Blocking : reports[p][f] = "confirmed"

Local(p) == Control(p) /\ Budget(p) /\ Reason(p) /\ Seen(p)

PipelineInv ==
    /\ LimiterInv
    /\ ExecutorTypeOK /\ SettingsTypeOK /\ GraphTypeOK /\ PipelineTypeOK
    /\ \A p \in Pipelines : Local(p)

---------------------------------------------------------------------------
\* What a step of one pipeline leaves alone

SameGraph(q) ==
    /\ node'[q] = node[q] /\ finding'[q] = finding[q] /\ steps'[q] = steps[q]
    /\ lab'[q] = lab[q] /\ status'[q] = status[q] /\ stop'[q] = stop[q] /\ hops'[q] = hops[q]

SameExecutor(q) ==
    gate'[q] = gate[q] /\ box'[q] = box[q] /\ phase'[q] = phase[q] /\ result'[q] = result[q]

SamePipeline(q) ==
    /\ pc'[q] = pc[q] /\ todo'[q] = todo[q] /\ reports'[q] = reports[q]
    /\ errors'[q] = errors[q] /\ code'[q] = code[q]

LEMMA Untouched ==
    ASSUME NEW q \in Pipelines, Local(q), SameGraph(q), SameExecutor(q), SamePipeline(q)
    PROVE  Local(q)'
  <1> USE DEF SameGraph, SameExecutor, SamePipeline
  <1>1. Control(q)'
    BY DEF Local, Control, Run, ActionId
  <1>2. Budget(q)'
    BY DEF Local, Budget
  <1>3. Reason(q)'
    BY DEF Local, Reason
  <1>4. Seen(q)'
    BY DEF Local, Seen
  <1> QED
    BY <1>1, <1>2, <1>3, <1>4 DEF Local

LEMMA GraphUnchanged ==
    ASSUME UNCHANGED graphVars PROVE \A q \in Pipelines : SameGraph(q)
  BY DEF graphVars, SameGraph

LEMMA ExecutorUnchanged ==
    ASSUME UNCHANGED <<executorVars, limiterVars>> PROVE \A q \in Pipelines : SameExecutor(q)
  BY DEF executorVars, limiterVars, SameExecutor

LEMMA PipelineUnchanged ==
    ASSUME UNCHANGED <<pc, todo, reports, errors, code>>
    PROVE  \A q \in Pipelines : SamePipeline(q)
  BY DEF SamePipeline

---------------------------------------------------------------------------
\* The stages of a pipeline

\* The steps between and around the investigations.
StageStep(p) ==
    \/ Start(p) \/ Discover(p) \/ OpenSandbox(p) \/ \E broken \in BOOLEAN : FindFindings(p, broken)
    \/ \E f \in Findings : ReportStatic(p, f) \/ StaticFails(p, f)
    \/ EvaluateGate(p) \/ CloseSandbox(p) \/ TechnicalFailure(p) \/ End(p) \/ Cancel(p)

LEMMA SettingsKeep ==
    ASSUME SettingsTypeOK, NEW p \in Pipelines,
           TakeSnapshot(p) \/ TakePaths(p) \/ TakeMode(p) \/ PutBack(p) \/ UNCHANGED settingsVars
    PROVE  SettingsTypeOK'
  <1> USE SettingsAssumption DEF SettingsTypeOK, Values, Owners
  <1>1. CASE TakeSnapshot(p)
    BY <1>1 DEF TakeSnapshot
  <1>2. CASE TakePaths(p)
    BY <1>2 DEF TakePaths
  <1>3. CASE TakeMode(p)
    BY <1>3 DEF TakeMode
  <1>4. CASE PutBack(p)
    BY <1>4 DEF PutBack
  <1> QED
    BY <1>1, <1>2, <1>3, <1>4 DEF settingsVars

LEMMA StageKeeps ==
    ASSUME PipelineInv, NEW p \in Pipelines, StageStep(p)
    PROVE  PipelineInv'
  <1>1. UNCHANGED <<limiterVars, executorVars, graphVars>>
    BY DEF StageStep, Start, Discover, OpenSandbox, FindFindings, ReportStatic, StaticFails, EvaluateGate,
           CloseSandbox, TechnicalFailure, End, Cancel
  <1>2. LimiterInv'
    <2>1. LimiterStep(p)
      BY <1>1 DEF LimiterStep, executorVars
    <2> QED
      BY <2>1, LimiterInductive DEF PipelineInv
  <1>3. ExecutorTypeOK' /\ GraphTypeOK'
    BY <1>1 DEF PipelineInv, executorVars, graphVars, ExecutorTypeOK, GraphTypeOK
  <1>4. SettingsTypeOK'
    BY SettingsKeep DEF PipelineInv, StageStep, Start, Discover, OpenSandbox, FindFindings,
           ReportStatic, StaticFails, EvaluateGate, CloseSandbox, TechnicalFailure, End, Cancel
  <1>5. PipelineTypeOK' /\ \A q \in Pipelines : q # p => SamePipeline(q)
    <2> USE DEF PipelineInv, PipelineTypeOK, Stages, Codes, ReportStates, SamePipeline, Moves
    <2>1. CASE Start(p) \/ Discover(p) \/ OpenSandbox(p) \/ CloseSandbox(p) \/ End(p)
      BY <2>1 DEF Start, Discover, OpenSandbox, CloseSandbox, End
    <2>2. ASSUME NEW broken \in BOOLEAN, FindFindings(p, broken)
          PROVE  PipelineTypeOK' /\ \A q \in Pipelines : q # p => SamePipeline(q)
      BY <2>2 DEF FindFindings
    <2>3. ASSUME NEW f \in Findings, ReportStatic(p, f)
          PROVE  PipelineTypeOK' /\ \A q \in Pipelines : q # p => SamePipeline(q)
      BY <2>3 DEF ReportStatic
    <2>6. ASSUME NEW f \in Findings, StaticFails(p, f)
          PROVE  PipelineTypeOK' /\ \A q \in Pipelines : q # p => SamePipeline(q)
      BY <2>6 DEF StaticFails
    <2>4. CASE EvaluateGate(p) \/ TechnicalFailure(p)
      BY <2>4 DEF EvaluateGate, TechnicalFailure
    <2>5. CASE Cancel(p)
      BY <2>5 DEF Cancel
    <2> QED
      BY <2>1, <2>2, <2>3, <2>4, <2>5, <2>6 DEF StageStep
  <1>6. \A q \in Pipelines : q # p => Local(q)'
    BY <1>1, <1>5, Untouched, GraphUnchanged, ExecutorUnchanged DEF PipelineInv
  <1>7. SameGraph(p) /\ SameExecutor(p)
    BY <1>1, GraphUnchanged, ExecutorUnchanged
  <1>8. Local(p)
    BY DEF PipelineInv
  <1>9. Budget(p)' /\ Reason(p)'
    BY <1>7, <1>8 DEF SameGraph, Local, Budget, Reason
  <1>10. Control(p)'
    <2>1. pc[p] = "loop" => pc'[p] = "loop" \/ node[p] = "none"
      BY DEF StageStep, Start, Discover, OpenSandbox, FindFindings, ReportStatic, StaticFails, EvaluateGate,
             CloseSandbox, TechnicalFailure, End, Cancel, Between, At
    <2> QED
      BY <2>1, <1>7, <1>8 DEF SameGraph, SameExecutor, Local, Control, Run, ActionId
  <1>11. Seen(p)'
    <2> USE <1>7, <1>8 DEF SameGraph, Local, Seen, PipelineInv, PipelineTypeOK, Moves
    <2>1. CASE Start(p) \/ Discover(p) \/ OpenSandbox(p)
      BY <2>1 DEF Start, Discover, OpenSandbox
    <2>2. ASSUME NEW broken \in BOOLEAN, FindFindings(p, broken) PROVE Seen(p)'
      BY <2>2 DEF FindFindings
    <2>3. ASSUME NEW f \in Findings, ReportStatic(p, f) \/ StaticFails(p, f) PROVE Seen(p)'
      BY <2>3 DEF ReportStatic, StaticFails, Between
    <2>4. CASE EvaluateGate(p)
      <3>1. finding[p] \notin Findings
        BY <2>4, InvestigationAssumption DEF EvaluateGate, Between, At, Control
      <3> QED
        BY <2>4, <3>1 DEF EvaluateGate, Between
    <2>5. CASE CloseSandbox(p) \/ End(p)
      BY <2>5 DEF CloseSandbox, End
    <2>6. CASE TechnicalFailure(p)
      BY <2>6 DEF TechnicalFailure
    <2>7. CASE Cancel(p)
      BY <2>7 DEF Cancel
    <2> QED
      BY <2>1, <2>2, <2>3, <2>4, <2>5, <2>6, <2>7 DEF StageStep
  <1> QED
    BY <1>2, <1>3, <1>4, <1>5, <1>6, <1>9, <1>10, <1>11 DEF PipelineInv, Local

---------------------------------------------------------------------------
\* The nodes of the graph

LEMMA PathsMade ==
    ASSUME SettingsTypeOK PROVE Paths \in Made
  BY InvestigationAssumption DEF SettingsTypeOK, Values, Paths, Made

LEMMA BeginFindingKeeps ==
    ASSUME PipelineInv, NEW p \in Pipelines, NEW f \in Findings, BeginFinding(p, f)
    PROVE  PipelineInv'
  <1> USE DEF BeginFinding, Investigate, Goto, At
  <1>1. LimiterInv' /\ SettingsTypeOK'
    <2>1. LimiterStep(p)
      BY DEF LimiterStep
    <2> QED
      BY <2>1, LimiterInductive DEF PipelineInv, settingsVars, SettingsTypeOK
  <1>2. ExecutorTypeOK'
    BY PathsMade DEF PipelineInv, ExecutorTypeOK, Boxes, Made
  <1>3. GraphTypeOK'
    BY DEF PipelineInv, GraphTypeOK, Nodes
  <1>4. PipelineTypeOK'
    BY DEF PipelineInv, PipelineTypeOK
  <1>5. \A q \in Pipelines : q # p => SameGraph(q) /\ SameExecutor(q) /\ SamePipeline(q)
    BY DEF PipelineInv, GraphTypeOK, ExecutorTypeOK, PipelineTypeOK, limiterVars,
           SameGraph, SameExecutor, SamePipeline
  <1>6. \A q \in Pipelines : q # p => Local(q)'
    BY <1>5, Untouched DEF PipelineInv
  <1>7. Local(p)
    BY DEF PipelineInv
  <1>8. Control(p)'
    <2>1. node'[p] = "guard" /\ finding'[p] = f /\ pc'[p] = "loop" /\ gate'[p] = Outside
          /\ phase'[p] = "idle" /\ (lab'[p] = "none" \/ box'[p] = Paths)
      BY <1>7 DEF PipelineInv, GraphTypeOK, ExecutorTypeOK, Between, Local, Control, limiterVars
    <2> QED
      BY <2>1, PathsMade DEF Control, PipelineInv
  <1>9. Budget(p)' /\ Reason(p)'
    <2>1. steps[p] = 0 /\ hops[p] = 0 /\ status[p] = "none" /\ stop[p] = "none"
      BY <1>7 DEF Between, Local, Control, Reason
    <2> QED
      BY <2>1, InvestigationAssumption DEF PipelineInv, GraphTypeOK, Budget, Reason
  <1>10. Seen(p)'
    <2>1. finding[p] = NoFinding /\ pc[p] = "loop" /\ finding'[p] = f /\ todo'[p] = todo[p] \ {f}
      BY <1>7 DEF PipelineInv, PipelineTypeOK, GraphTypeOK, Local, Control, Between
    <2>2. \A g \in Findings : g # finding[p]
      BY <2>1, InvestigationAssumption
    <2> QED
      BY <1>7, <2>1, <2>2 DEF Local, Seen
  <1> QED
    BY <1>1, <1>2, <1>3, <1>4, <1>6, <1>8, <1>9, <1>10 DEF PipelineInv, Local

\* A node that stays inside the graph: what is left to show of it.
LEMMA NodeKeeps ==
    ASSUME PipelineInv, NEW p \in Pipelines,
           UNCHANGED <<limiterVars, settingsVars, pipelineVars, executed>>,
           ExecutorTypeOK', GraphTypeOK',
           \A q \in Pipelines : q # p => SameGraph(q) /\ SameExecutor(q),
           node[p] # "none", node'[p] # "none", finding'[p] = finding[p],
           Control(p)', Budget(p)', Reason(p)'
    PROVE  PipelineInv'
  <1>1. LimiterInv' /\ SettingsTypeOK' /\ PipelineTypeOK'
    <2>1. LimiterStep(p)
      BY DEF LimiterStep
    <2> QED
      BY <2>1, LimiterInductive
         DEF PipelineInv, settingsVars, SettingsTypeOK, pipelineVars, PipelineTypeOK
  <1>2. \A q \in Pipelines : SamePipeline(q)
    BY PipelineUnchanged DEF pipelineVars
  <1>3. \A q \in Pipelines : q # p => Local(q)'
    BY <1>2, Untouched DEF PipelineInv
  <1>4. Seen(p)'
    BY <1>2 DEF PipelineInv, Local, Seen, SamePipeline
  <1> QED
    BY <1>1, <1>3, <1>4 DEF PipelineInv, Local

LEMMA ThinkKeeps ==
    ASSUME PipelineInv, NEW p \in Pipelines, Think(p)
    PROVE  PipelineInv'
  <1>1. UNCHANGED <<limiterVars, settingsVars, pipelineVars, executed>>
    BY DEF Think, NodeStep, GuardBudget, Propose, Validate, BeginAction, Collect, Reevaluate,
           executorVars
  <1>2. Local(p)
    BY DEF PipelineInv
  <1>3. gate'[p] = gate[p] /\ pc'[p] = pc[p]
    BY <1>1 DEF limiterVars, pipelineVars
  <1>4. CASE GuardBudget(p)
    <2> USE <1>4 DEF GuardBudget, Goto, Decides, At
    <2>1. GraphTypeOK'
      BY DEF PipelineInv, GraphTypeOK, Nodes, Statuses, Stops
    <2>2. ExecutorTypeOK'
      BY DEF PipelineInv, ExecutorTypeOK, executorVars
    <2>3. \A q \in Pipelines : q # p => SameGraph(q) /\ SameExecutor(q)
      BY <1>1 DEF PipelineInv, GraphTypeOK, executorVars, limiterVars, SameGraph, SameExecutor
    <2>4. node[p] # "none" /\ node'[p] \in {"propose", "report"} /\ finding'[p] = finding[p]
      BY DEF PipelineInv, GraphTypeOK
    <2>5. Control(p)'
      BY <1>2, <1>3, <2>4 DEF Local, Control, executorVars
    <2>6. Budget(p)'
      BY <1>2, InvestigationAssumption DEF Local, Budget, PipelineInv, GraphTypeOK, OutOfSteps
    <2>7. Reason(p)'
      BY <1>2 DEF Local, Reason, PipelineInv, GraphTypeOK
    <2> QED
      BY <1>1, <2>1, <2>2, <2>3, <2>4, <2>5, <2>6, <2>7, NodeKeeps
  <1>5. CASE Propose(p)
    <2> USE <1>5 DEF Propose, Goto, At
    <2>1. PICK t \in Tools, ok \in BOOLEAN :
              tool' = [tool EXCEPT ![p] = t] /\ planOk' = [planOk EXCEPT ![p] = ok]
      <3>1. settings.mode \in Modes /\ finding[p] \in Findings
        BY <1>2 DEF PipelineInv, SettingsTypeOK, Values, Local, Control
      <3>2. Choices[settings.mode][finding[p]] \subseteq Tools
        BY <3>1, InvestigationAssumption
      <3>3. PICK t \in Tools, n \in PlanLengths :
                tool' = [tool EXCEPT ![p] = t]
                /\ planOk' = [planOk EXCEPT ![p] = n <= MaxSteps - steps[p]]
        BY <3>2
      <3>4. (n <= MaxSteps - steps[p]) \in BOOLEAN
        OBVIOUS
      <3> QED
        BY <3>3, <3>4
    <2>2. steps[p] < MaxSteps
      BY <1>2 DEF Local, Budget
    <2>3. GraphTypeOK'
      BY <2>1, <2>2, InvestigationAssumption DEF PipelineInv, GraphTypeOK, Nodes
    <2>4. ExecutorTypeOK'
      BY DEF PipelineInv, ExecutorTypeOK, executorVars
    <2>5. \A q \in Pipelines : q # p => SameGraph(q) /\ SameExecutor(q)
      BY <1>1 DEF PipelineInv, GraphTypeOK, executorVars, limiterVars, SameGraph, SameExecutor
    <2>6. node[p] # "none" /\ node'[p] = "validate" /\ finding'[p] = finding[p]
      BY DEF PipelineInv, GraphTypeOK
    <2>7. Control(p)'
      BY <1>2, <1>3, <2>6 DEF Local, Control, executorVars
    <2>8. Budget(p)'
      BY <1>2, <2>2, InvestigationAssumption DEF Local, Budget, PipelineInv, GraphTypeOK
    <2>9. Reason(p)'
      BY <1>2 DEF Local, Reason, PipelineInv, GraphTypeOK
    <2> QED
      BY <1>1, <2>3, <2>4, <2>5, <2>6, <2>7, <2>8, <2>9, NodeKeeps
  <1>6. CASE Validate(p)
    <2> USE <1>6 DEF Validate, Goto, Decides, At
    <2>1. Run(p) \in Runs
      BY <1>2, InvestigationAssumption DEF Run, Runs, Local, Control, PipelineInv, GraphTypeOK
    <2>2. GraphTypeOK'
      BY <2>1 DEF PipelineInv, GraphTypeOK, Nodes, Statuses, Stops
    <2>3. ExecutorTypeOK'
      BY DEF PipelineInv, ExecutorTypeOK, executorVars
    <2>4. \A q \in Pipelines : q # p => SameGraph(q) /\ SameExecutor(q)
      BY <1>1 DEF PipelineInv, GraphTypeOK, executorVars, limiterVars, SameGraph, SameExecutor
    <2>5. node[p] # "none" /\ node'[p] \in {"execute", "report"} /\ finding'[p] = finding[p]
      BY DEF PipelineInv, GraphTypeOK
    <2>6. Control(p)'
      BY <1>2, <1>3, <2>5 DEF Local, Control, executorVars
    <2>7. Budget(p)'
      BY <1>2, InvestigationAssumption DEF Local, Budget, PipelineInv, GraphTypeOK
    <2>8. Reason(p)'
      BY <1>2 DEF Local, Reason, PipelineInv, GraphTypeOK
    <2> QED
      BY <1>1, <2>2, <2>3, <2>4, <2>5, <2>6, <2>7, <2>8, NodeKeeps
  <1>7. CASE BeginAction(p)
    <2> USE <1>7 DEF BeginAction, Goto, At
    <2>1. Paths \in Made
      BY PathsMade DEF PipelineInv
    <2>2. GraphTypeOK'
      BY DEF PipelineInv, GraphTypeOK, Nodes
    <2>3. ExecutorTypeOK'
      BY <2>1 DEF PipelineInv, ExecutorTypeOK, Phases, Boxes, Made
    <2>4. \A q \in Pipelines : q # p => SameGraph(q) /\ SameExecutor(q)
      BY <1>1 DEF PipelineInv, GraphTypeOK, ExecutorTypeOK, limiterVars, SameGraph, SameExecutor
    <2>5. node[p] # "none" /\ node'[p] = "acting" /\ finding'[p] = finding[p] /\ phase'[p] = "check"
      BY DEF PipelineInv, GraphTypeOK, ExecutorTypeOK
    <2>6. gate[p] = Outside /\ (lab[p] # "none" => box[p] \in Made) /\ pc[p] = "loop"
          /\ finding[p] \in Findings
      BY <1>2 DEF Local, Control
    <2>7. box'[p] \in Made
      BY <2>1, <2>6 DEF PipelineInv, ExecutorTypeOK
    <2>8. Control(p)'
      BY <1>3, <2>5, <2>6, <2>7 DEF Control
    <2>9. Budget(p)'
      BY <1>2, InvestigationAssumption DEF Local, Budget, PipelineInv, GraphTypeOK
    <2>10. Reason(p)'
      BY <1>2 DEF Local, Reason, PipelineInv, GraphTypeOK
    <2> QED
      BY <1>1, <2>2, <2>3, <2>4, <2>5, <2>8, <2>9, <2>10, NodeKeeps
  <1>8. CASE Collect(p)
    <2> USE <1>8 DEF Collect, Goto, At, InPhase
    <2>1. ASSUME NEW x \in Loaded(p) PROVE x.says \in Verdict
      BY DEF Loaded, PipelineInv, ExecutorTypeOK, Records
    <2>2. evidence' = [evidence EXCEPT ![p] = evidence'[p]] /\ evidence'[p] \in Verdict
      <3>1. CASE \E x \in Loaded(p) : x.status = "completed"
        <4>1. (CHOOSE x \in Loaded(p) : x.status = "completed") \in Loaded(p)
          BY <3>1
        <4> QED
          BY <3>1, <4>1, <2>1 DEF PipelineInv, GraphTypeOK
      <3>2. CASE ~\E x \in Loaded(p) : x.status = "completed"
        BY <3>2 DEF PipelineInv, GraphTypeOK, Verdict
      <3> QED
        BY <3>1, <3>2
    <2>3. GraphTypeOK'
      BY <2>2 DEF PipelineInv, GraphTypeOK, Nodes
    <2>4. ExecutorTypeOK'
      BY DEF PipelineInv, ExecutorTypeOK, Phases
    <2>5. \A q \in Pipelines : q # p => SameGraph(q) /\ SameExecutor(q)
      BY <1>1 DEF PipelineInv, GraphTypeOK, ExecutorTypeOK, limiterVars, SameGraph, SameExecutor
    <2>6. node[p] # "none" /\ node'[p] = "reevaluate" /\ finding'[p] = finding[p] /\ phase'[p] = "idle"
      BY DEF PipelineInv, GraphTypeOK, ExecutorTypeOK
    <2>7. Control(p)'
      BY <1>2, <1>3, <2>6 DEF Local, Control
    <2>8. Budget(p)'
      BY <1>2, InvestigationAssumption DEF Local, Budget, PipelineInv, GraphTypeOK
    <2>9. Reason(p)'
      BY <1>2 DEF Local, Reason, PipelineInv, GraphTypeOK
    <2> QED
      BY <1>1, <2>3, <2>4, <2>5, <2>6, <2>7, <2>8, <2>9, NodeKeeps
  <1>9. CASE Reevaluate(p)
    <2> USE <1>9 DEF Reevaluate, Goto, At
    <2>1. PICK s \in Statuses, why \in Stops :
              /\ Decides(p, s, why)
              /\ s \notin {"none", "policy_blocked"} /\ why \notin {"policy_blocked", "plan_rejected"}
              /\ s = "continue" <=> why = "none"
              /\ s = "continue" => ~OutOfSteps(p)
              /\ s \in {"confirmed", "rejected"} <=> why = "terminal_evidence"
      <3> USE DEF Statuses, Stops
      <3>1. CASE tool[p] = "safe_noop"
        BY <3>1 DEF GuardNoop
      <3>2. CASE tool[p] # "safe_noop"
        <4>1. GuardEvidence(p)
          BY <3>2
        <4>2. evidence[p] \in {"confirmed", "rejected", "nothing"}
          BY DEF PipelineInv, GraphTypeOK, Verdict
        <4>3. \/ Decides(p, "inconclusive", "blocked")
              \/ ContinueOrStop(p, "execution_failed")
              \/ evidence[p] # "nothing" /\ Decides(p, evidence[p], "terminal_evidence")
              \/ ContinueOrStop(p, "insufficient_evidence")
          BY <4>1, <4>2 DEF GuardEvidence
        <4> QED
          BY <4>2, <4>3 DEF ContinueOrStop
      <3> QED
        BY <3>1, <3>2
    <2>2. status'[p] = s /\ stop'[p] = why
      BY <2>1 DEF Decides, PipelineInv, GraphTypeOK
    <2>3. GraphTypeOK'
      BY <2>1 DEF Decides, PipelineInv, GraphTypeOK, Nodes
    <2>4. ExecutorTypeOK'
      BY DEF PipelineInv, ExecutorTypeOK, executorVars
    <2>5. \A q \in Pipelines : q # p => SameGraph(q) /\ SameExecutor(q)
      BY <1>1, <2>1 DEF Decides, PipelineInv, GraphTypeOK, executorVars, limiterVars, SameGraph, SameExecutor
    <2>6. /\ node[p] = "reevaluate" /\ finding'[p] = finding[p] /\ steps'[p] = steps[p]
          /\ hops'[p] = hops[p] + 1
          /\ node'[p] = IF s = "continue" THEN "guard" ELSE "report"
      BY <2>2 DEF PipelineInv, GraphTypeOK
    <2>7. Control(p)'
      BY <1>2, <1>3, <2>6 DEF Local, Control, executorVars
    <2>8. Budget(p)'
      BY <1>2, <2>1, <2>6, InvestigationAssumption
         DEF Local, Budget, PipelineInv, GraphTypeOK, OutOfSteps
    <2>9. Reason(p)'
      BY <2>1, <2>2, <2>6 DEF Reason
    <2> QED
      BY <1>1, <2>3, <2>4, <2>5, <2>6, <2>7, <2>8, <2>9, NodeKeeps
  <1> QED
    BY <1>4, <1>5, <1>6, <1>7, <1>8, <1>9 DEF Think, NodeStep

---------------------------------------------------------------------------
\* The executor

\* What is left to show of a step of the executor.
LEMMA ExecutorKeeps ==
    ASSUME PipelineInv, NEW p \in Pipelines, node[p] = "acting",
           LimiterStep(p), UNCHANGED <<graphVars, settingsVars, pc, todo, reports, errors, code, cancelled>>,
           faults' \in 0 .. Faults,
           ExecutorTypeOK',
           \A q \in Pipelines : q # p => SameExecutor(q),
           box'[p] = box[p], phase'[p] # "idle",
           phase'[p] = "check" => gate'[p] = Outside,
           phase'[p] = "limit" => gate'[p].at \in {"counted", "refused"},
           phase'[p] = "sandbox" => gate'[p].at = "inside",
           phase'[p] \in {"put", "append", "put_again", "done"} =>
               (gate'[p] = Outside \/ gate'[p].at = "inside") /\ result'[p].status # "none",
           gate'[p] # Outside => gate'[p].dir = box[p].output /\ gate'[p].id = ActionId(Run(p))
    PROVE  PipelineInv'
  <1>1. LimiterInv' /\ SettingsTypeOK' /\ GraphTypeOK' /\ PipelineTypeOK'
    BY LimiterInductive
       DEF PipelineInv, settingsVars, SettingsTypeOK, PipelineTypeOK, graphVars, GraphTypeOK
  <1>2. \A q \in Pipelines : SamePipeline(q) /\ SameGraph(q)
    BY PipelineUnchanged, GraphUnchanged
  <1>3. \A q \in Pipelines : q # p => Local(q)'
    BY <1>2, Untouched DEF PipelineInv
  <1>4. Budget(p)' /\ Reason(p)' /\ Seen(p)'
    BY <1>2 DEF PipelineInv, Local, Budget, Reason, Seen, SamePipeline, SameGraph
  <1>5. Control(p)'
    <2>1. Run(p)' = Run(p)
      BY <1>2 DEF Run, SameGraph
    <2> QED
      BY <1>2, <2>1 DEF PipelineInv, Local, Control, SamePipeline, SameGraph, ActionId
  <1> QED
    BY <1>1, <1>3, <1>4, <1>5 DEF PipelineInv, Local

LEMMA ActingFacts ==
    ASSUME PipelineInv, NEW p \in Pipelines, node[p] = "acting"
    PROVE  /\ Run(p) \in Runs
           /\ ActionId(Run(p)) \in Ids
           /\ box[p] \in Made /\ box[p].output \in Dirs
  <1>1. Control(p) /\ steps[p] \in 1 .. MaxSteps
    BY DEF PipelineInv, Local, Budget
  <1>2. finding[p] \in Findings /\ box[p] \in Made
    BY <1>1 DEF Control
  <1>3. steps[p] \in Nat
    BY <1>1, InvestigationAssumption
  <1> QED
    BY <1>1, <1>2, <1>3, InvestigationAssumption DEF Run, Runs, ActionId, Made

LEMMA AnswersKeeps ==
    ASSUME ExecutorTypeOK, NEW p \in Pipelines, NEW r \in Results, Answers(p, r), UNCHANGED executed
    PROVE  /\ ExecutorTypeOK'
           /\ box'[p] = box[p] /\ phase'[p] = "put" /\ result'[p] = r
           /\ \A q \in Pipelines : q # p =>
                  box'[q] = box[q] /\ phase'[q] = phase[q] /\ result'[q] = result[q]
  BY DEF Answers, ExecutorTypeOK, Phases

\* What the limiter does to the gate of p.
LEMMA GateFacts ==
    ASSUME LimiterTypeOK, NEW p \in Pipelines
    PROVE  /\ \A d \in Dirs, id \in Ids : Count(p, d, id) =>
                  gate'[p] = [at |-> "counted", dir |-> d, id |-> id]
           /\ Enter(p) => gate'[p].at = "inside" /\ gate'[p].dir = gate[p].dir /\ gate'[p].id = gate[p].id
           /\ Refuse(p) => gate'[p].at = "refused" /\ gate'[p].dir = gate[p].dir /\ gate'[p].id = gate[p].id
           /\ Uncount(p) \/ Leave(p) => gate'[p] = Outside
           /\ (Enter(p) \/ Refuse(p) \/ Uncount(p) \/ Leave(p)
                 \/ \E d \in Dirs, id \in Ids : Count(p, d, id)) =>
                  \A q \in Pipelines : q # p => gate'[q] = gate[q]
  <1> USE DEF LimiterTypeOK
  <1>1. gate[p].at \in {"counted", "inside", "refused"} =>
            gate[p] \in [at : {"counted", "refused", "inside"}, dir : Dirs, id : Ids]
    BY DEF Gates, Outside
  <1> QED
    BY <1>1 DEF Count, Enter, Refuse, Uncount, Leave

\* _finish: its writes, and their failures, change no gate and no executor.
LEMMA WriteKeeps ==
    ASSUME PipelineInv, NEW p \in Pipelines, node[p] = "acting",
           UNCHANGED <<graphVars, settingsVars, pc, todo, reports, errors, code, cancelled>>,
           faults' \in 0 .. Faults,
           \/ StoreResult(p, Run(p), Mounted(p)) \/ AppendAudit(p, Run(p))
           \/ StoreFailure(p, Run(p), Mounted(p))
           \/ StoreFails(p) \/ AuditFails(p) \/ StoreFailureFails(p)
    PROVE  PipelineInv'
  <1> USE DEF StoreResult, AppendAudit, StoreFailure, StoreFails, AuditFails, StoreFailureFails,
              Stays, InPhase
  <1>1. /\ Control(p) /\ ExecutorTypeOK /\ Run(p) \in Runs
        /\ box[p] \in Made /\ box[p].output \in Dirs
    BY ActingFacts DEF PipelineInv, Local
  <1>2. /\ gate' = gate /\ box' = box /\ executed' = executed
        /\ phase[p] \in {"put", "append", "put_again"}
        /\ phase'[p] \in {"append", "put_again", "done"}
        /\ \A q \in Pipelines : q # p => phase'[q] = phase[q]
    BY <1>1 DEF limiterVars, ExecutorTypeOK
  <1>3. LimiterStep(p)
    BY DEF LimiterStep
  <1>4. Mounted(p) \in Dirs
    BY <1>1, InvestigationAssumption DEF Mounted, Owners, Made
  <1>5. \A copy \in {1, 2}, repo \in Dirs :
            result[p].status \in {"completed", "failed", "denied"} =>
                Record(p, Run(p), repo, copy) \in Records
    BY <1>1 DEF Record, Records, ExecutorTypeOK, Results
  <1>6. \A b \in BOOLEAN : Failed(b) \in Results /\ Failed(b).status # "none"
    BY DEF Failed, Results, Verdict
  <1>7. result[p].status \in {"completed", "failed", "denied"}
    BY <1>1, <1>2 DEF Control, ExecutorTypeOK, Results
  <1>8. ExecutorTypeOK'
    <2>1. phase' \in [Pipelines -> Phases] /\ ref' \in [Pipelines -> {0, 1, 2}]
      BY <1>1 DEF ExecutorTypeOK, Phases
    <2>2. result' \in [Pipelines -> Results]
      <3>1. result' = result \/ \E b \in BOOLEAN : result' = [result EXCEPT ![p] = Failed(b)]
        BY DEF ioVars
      <3> QED
        BY <1>1, <1>6, <3>1 DEF ExecutorTypeOK
    <2>3. files' \subseteq Records
      <3>1. files' = files \/ \E copy \in {1, 2} : files' = files \cup {Record(p, Run(p), Mounted(p), copy)}
        BY DEF ioVars
      <3> QED
        BY <1>1, <1>4, <1>5, <1>7, <3>1 DEF ExecutorTypeOK
    <2>4. log' \subseteq [dir : Dirs, run : Runs]
      <3>1. log' = log \/ log' = log \cup {[dir |-> box[p].output, run |-> Run(p)]}
        BY DEF ioVars
      <3> QED
        BY <1>1, <3>1 DEF ExecutorTypeOK
    <2> QED
      BY <1>1, <1>2, <2>1, <2>2, <2>3, <2>4 DEF ExecutorTypeOK
  <1>9. gate[p] # Outside => gate[p].dir = box[p].output /\ gate[p].id = ActionId(Run(p))
    BY <1>1 DEF Control
  <1>10. gate[p] = Outside \/ gate[p].at = "inside"
    BY <1>1, <1>2 DEF Control
  <1>11. result'[p].status # "none" /\ \A q \in Pipelines : q # p => result'[q] = result[q]
    <2>1. result' = result \/ \E b \in BOOLEAN : result' = [result EXCEPT ![p] = Failed(b)]
      BY DEF ioVars
    <2> QED
      BY <1>1, <1>6, <1>7, <2>1 DEF ExecutorTypeOK
  <1> QED
    BY <1>2, <1>3, <1>8, <1>9, <1>10, <1>11, ExecutorKeeps DEF SameExecutor

LEMMA ExecuteKeeps ==
    ASSUME PipelineInv, NEW p \in Pipelines, Execute(p)
    PROVE  PipelineInv'
  <1>1. /\ node[p] = "acting" /\ Acting(p)
        /\ UNCHANGED <<graphVars, settingsVars, pc, todo, reports, errors, code, cancelled>>
        /\ faults' \in 0 .. Faults
    BY DEF Execute, Act, At, pipelineVars, PipelineInv, PipelineTypeOK
  <1>2. /\ Control(p) /\ ExecutorTypeOK /\ LimiterTypeOK
        /\ Run(p) \in Runs /\ ActionId(Run(p)) \in Ids
        /\ box[p] \in Made /\ box[p].output \in Dirs
    BY <1>1, ActingFacts DEF PipelineInv, Local, LimiterInv
  <1>3. /\ Denied \in Results /\ Denied.status # "none"
        /\ \A b \in BOOLEAN : Failed(b) \in Results /\ Failed(b).status # "none"
        /\ \A v \in Verdict : Completed(v) \in Results /\ Completed(v).status # "none"
    BY DEF Denied, Failed, Completed, Results, Verdict
  <1> USE DEF InPhase
  <1>4. CASE DenyTool(p, tool[p], InLab(p))
    <2>1. LimiterStep(p)
      BY <1>4 DEF DenyTool, LimiterStep
    <2>2. gate' = gate /\ gate[p] = Outside /\ Answers(p, Denied) /\ UNCHANGED executed
      BY <1>2, <1>4 DEF DenyTool, Control, limiterVars
    <2> QED
      BY <1>1, <1>2, <1>3, <2>1, <2>2, AnswersKeeps, ExecutorKeeps DEF SameExecutor
  <1>5. CASE AskLimiter(p, tool[p], InLab(p), Run(p))
    <2>1. CASE Answers(p, Denied) /\ UNCHANGED <<executed, limiterVars>>
      <3>1. LimiterStep(p)
        BY <2>1 DEF LimiterStep
      <3>2. gate' = gate /\ gate[p] = Outside
        BY <1>2, <1>5, <2>1 DEF AskLimiter, Control, limiterVars
      <3> QED
        BY <1>1, <1>2, <1>3, <2>1, <3>1, <3>2, AnswersKeeps, ExecutorKeeps DEF SameExecutor
    <2>2. CASE /\ Count(p, box[p].output, ActionId(Run(p)))
               /\ phase' = [phase EXCEPT ![p] = "limit"]
               /\ UNCHANGED <<box, result, ref, files, log, executed>>
      <3>1. LimiterStep(p)
        BY <1>2, <2>2 DEF LimiterStep
      <3>2. /\ gate'[p] = [at |-> "counted", dir |-> box[p].output, id |-> ActionId(Run(p))]
            /\ \A q \in Pipelines : q # p => gate'[q] = gate[q]
        BY <1>2, <2>2, GateFacts
      <3>3. ExecutorTypeOK' /\ phase'[p] = "limit" /\ box' = box /\ result' = result
            /\ \A q \in Pipelines : q # p => phase'[q] = phase[q]
        BY <1>2, <2>2 DEF ExecutorTypeOK, Phases
      <3> QED
        BY <1>1, <3>1, <3>2, <3>3, ExecutorKeeps DEF SameExecutor
    <2> QED
      BY <1>5, <2>1, <2>2 DEF AskLimiter
  <1>6. CASE StartSandbox(p, Run(p))
    <2> USE <1>6 DEF StartSandbox
    <2>1. gate[p] # Outside
      BY DEF Enter, Outside
    <2>2. gate[p].dir = box[p].output /\ gate[p].id = ActionId(Run(p))
      BY <1>2, <2>1 DEF Control
    <2>3. Begins(p, Run(p))
      BY <2>2 DEF Begins
    <2>4. LimiterStep(p)
      BY <2>3 DEF LimiterStep
    <2>5. ExecutorTypeOK' /\ phase'[p] = "sandbox" /\ box' = box /\ result' = result
          /\ \A q \in Pipelines : q # p => phase'[q] = phase[q]
      BY <1>2 DEF ExecutorTypeOK, Phases
    <2> QED
      BY <1>1, <1>2, <2>2, <2>4, <2>5, GateFacts, ExecutorKeeps DEF SameExecutor
  <1>7. CASE LimiterRefuses(p)
    <2> USE <1>7 DEF LimiterRefuses
    <2>1. LimiterStep(p) /\ executorVars' = executorVars
      BY DEF LimiterStep, executorVars
    <2>2. gate[p] # Outside
      BY DEF Refuse, Outside
    <2>3. gate[p].dir = box[p].output /\ gate[p].id = ActionId(Run(p))
      BY <1>2, <2>2 DEF Control
    <2>4. ExecutorTypeOK' /\ phase' = phase /\ box' = box /\ result' = result /\ phase[p] = "limit"
      BY <1>2 DEF ExecutorTypeOK, executorVars
    <2> QED
      BY <1>1, <1>2, <2>1, <2>3, <2>4, GateFacts, ExecutorKeeps DEF SameExecutor
  <1>8. CASE DenyRun(p)
    <2>1. LimiterStep(p)
      BY <1>8 DEF DenyRun, LimiterStep
    <2> QED
      BY <1>1, <1>2, <1>3, <1>8, <2>1, GateFacts, AnswersKeeps, ExecutorKeeps DEF DenyRun, SameExecutor
  <1>9. CASE SandboxReturns(p, tool[p])
    <2>1. LimiterStep(p)
      BY <1>9 DEF SandboxReturns, LimiterStep
    <2>2. PICK r \in Results : Answers(p, r) /\ r.status # "none"
      BY <1>3, <1>9 DEF SandboxReturns, Verdict
    <2> QED
      BY <1>1, <1>2, <1>9, <2>1, <2>2, GateFacts, AnswersKeeps, ExecutorKeeps
         DEF SandboxReturns, SameExecutor
  <1>10. CASE SandboxRaises(p)
    <2> USE <1>10 DEF SandboxRaises
    <2>1. LimiterStep(p) /\ gate' = gate
      BY DEF LimiterStep, limiterVars
    <2>2. gate[p].at = "inside"
      BY <1>2 DEF Control
    <2>3. gate[p] # Outside => gate[p].dir = box[p].output /\ gate[p].id = ActionId(Run(p))
      BY <1>2 DEF Control
    <2>4. /\ Answers(p, Failed(FALSE)) /\ UNCHANGED executed
          /\ Failed(FALSE) \in Results /\ Failed(FALSE).status # "none"
      BY <1>3
    <2> QED
      BY <1>1, <1>2, <2>1, <2>2, <2>3, <2>4, AnswersKeeps, ExecutorKeeps DEF SameExecutor
  <1>11. CASE ReleaseLast(p)
    <2> USE <1>11 DEF ReleaseLast
    <2>1. LimiterStep(p) /\ executorVars' = executorVars
      BY DEF LimiterStep, executorVars
    <2>2. ExecutorTypeOK' /\ phase' = phase /\ box' = box /\ result' = result /\ phase[p] = "done"
      BY <1>2 DEF ExecutorTypeOK, executorVars
    <2>3. result[p].status # "none"
      BY <1>2, <2>2 DEF Control
    <2> QED
      BY <1>1, <1>2, <2>1, <2>2, <2>3, GateFacts, ExecutorKeeps DEF SameExecutor
  <1>12. CASE \/ StoreResult(p, Run(p), Mounted(p)) \/ AppendAudit(p, Run(p))
              \/ StoreFailure(p, Run(p), Mounted(p))
    <2> QED
      BY <1>1, <1>2, <1>12, WriteKeeps
  <1> QED
    BY <1>1, <1>4, <1>5, <1>6, <1>7, <1>8, <1>9, <1>10, <1>11, <1>12 DEF Acting

LEMMA FaultKeeps ==
    ASSUME PipelineInv, NEW p \in Pipelines, Fault(p)
    PROVE  PipelineInv'
  <1>1. /\ node[p] = "acting"
        /\ UNCHANGED <<graphVars, settingsVars, pc, todo, reports, errors, code, cancelled>>
    BY DEF Fault, At
  <1>2. faults' \in 0 .. Faults
    BY CiPipelineAssumption DEF Fault, PipelineInv, PipelineTypeOK
  <1>3. CASE RefuseAction(p, tool[p], InLab(p))
    <2>1. /\ Control(p) /\ ExecutorTypeOK /\ Run(p) \in Runs
          /\ box[p] \in Made /\ box[p].output \in Dirs
      BY <1>1, ActingFacts DEF PipelineInv, Local
    <2>2. LimiterStep(p)
      BY <1>3 DEF RefuseAction, LimiterStep
    <2>3. gate' = gate /\ gate[p] = Outside /\ UNCHANGED executed
      BY <2>1, <1>3 DEF RefuseAction, InPhase, Control, limiterVars
    <2>4. /\ Denied \in Results /\ Denied.status # "none"
          /\ Failed(FALSE) \in Results /\ Failed(FALSE).status # "none"
      BY DEF Denied, Failed, Results, Verdict
    <2>5. PICK r \in Results : Answers(p, r) /\ r.status # "none"
      BY <1>3, <2>4 DEF RefuseAction
    <2> QED
      BY <1>1, <1>2, <2>1, <2>2, <2>3, <2>5, AnswersKeeps, ExecutorKeeps DEF SameExecutor
  <1>4. CASE StoreFails(p) \/ AuditFails(p) \/ StoreFailureFails(p)
    BY <1>1, <1>2, <1>4, WriteKeeps
  <1> QED
    BY <1>3, <1>4 DEF Fault

---------------------------------------------------------------------------
\* Leaving the graph, and the clock

\* What is left to show when a pipeline leaves the graph.
LEMMA LeavingKeeps ==
    ASSUME PipelineInv, NEW p \in Pipelines, LeaveGraph(p), Forget(p), LimiterStep(p),
           UNCHANGED settingsVars, PipelineTypeOK', gate'[p] = Outside,
           \A q \in Pipelines : q # p => gate'[q] = gate[q] /\ SamePipeline(q),
           Seen(p)'
    PROVE  PipelineInv'
  <1>1. LimiterInv' /\ SettingsTypeOK'
    BY LimiterInductive DEF PipelineInv, settingsVars, SettingsTypeOK
  <1>2. GraphTypeOK'
    BY InvestigationAssumption
       DEF LeaveGraph, Decides, PipelineInv, GraphTypeOK, Nodes, Statuses, Stops, Tools, Verdict
  <1>3. ExecutorTypeOK'
    BY DEF Forget, PipelineInv, ExecutorTypeOK, Boxes, Phases, Results, Verdict, NoResult
  <1>4. \A q \in Pipelines : q # p => SameGraph(q) /\ SameExecutor(q)
    BY DEF LeaveGraph, Decides, Forget, PipelineInv, GraphTypeOK, ExecutorTypeOK,
           SameGraph, SameExecutor
  <1>5. \A q \in Pipelines : q # p => Local(q)'
    BY <1>4, Untouched DEF PipelineInv
  <1>6. /\ node'[p] = "none" /\ finding'[p] = NoFinding /\ steps'[p] = 0 /\ hops'[p] = 0
        /\ lab'[p] = "none" /\ status'[p] = "none" /\ stop'[p] = "none" /\ phase'[p] = "idle"
    BY DEF LeaveGraph, Decides, Forget, PipelineInv, GraphTypeOK, ExecutorTypeOK
  <1>7. Control(p)' /\ Budget(p)' /\ Reason(p)'
    BY <1>6 DEF Control, Budget, Reason
  <1> QED
    BY <1>1, <1>2, <1>3, <1>5, <1>7 DEF PipelineInv, Local

LEMMA ReportFindingKeeps ==
    ASSUME PipelineInv, NEW p \in Pipelines, ReportFinding(p)
    PROVE  PipelineInv'
  <1> USE DEF ReportFinding, At
  <1>1. Local(p) /\ node[p] = "report" /\ pc[p] = "loop" /\ finding[p] \in Findings
    BY DEF PipelineInv, Local, Control
  <1>2. status[p] \in ReportStates /\ status[p] # "none"
    BY <1>1 DEF Local, Reason, PipelineInv, GraphTypeOK, Statuses, ReportStates
  <1>3. PipelineTypeOK' /\ \A q \in Pipelines : q # p => SamePipeline(q)
    BY <1>1, <1>2 DEF PipelineInv, PipelineTypeOK, SamePipeline
  <1>4. gate' = gate /\ gate[p] = Outside /\ LimiterStep(p)
    BY <1>1 DEF limiterVars, Local, Control, LimiterStep, Forget
  <1>5. Seen(p)'
    BY <1>1, <1>2 DEF Local, Seen, PipelineInv, PipelineTypeOK
  <1> QED
    BY <1>3, <1>4, <1>5, LeavingKeeps

LEMMA FindingFailsKeeps ==
    ASSUME PipelineInv, NEW p \in Pipelines, FindingFails(p)
    PROVE  PipelineInv'
  <1> USE DEF FindingFails, At
  <1>1. Local(p) /\ pc[p] = "loop" /\ gate[p] = Outside
    BY DEF PipelineInv, Local, Control, Interruptible
  <1>2. PipelineTypeOK' /\ \A q \in Pipelines : q # p => SamePipeline(q)
    BY DEF PipelineInv, PipelineTypeOK, SamePipeline
  <1>3. gate' = gate /\ LimiterStep(p)
    BY DEF limiterVars, LimiterStep, Forget
  <1>4. Seen(p)'
    BY <1>1 DEF Local, Seen, PipelineInv, PipelineTypeOK
  <1> QED
    BY <1>1, <1>2, <1>3, <1>4, LeavingKeeps

LEMMA UnwindKeeps ==
    ASSUME PipelineInv, NEW p \in Pipelines, RunCancelled(p) \/ RunCancelledInSandbox(p)
    PROVE  PipelineInv'
  <1>1. Unwind(p) /\ Forget(p)
    BY DEF RunCancelled, RunCancelledInSandbox, SandboxCancelled
  <1>2. /\ LimiterStep(p) /\ gate'[p] = Outside
        /\ \A q \in Pipelines : q # p => gate'[q] = gate[q]
    <2>1. CASE RunCancelled(p)
      BY <2>1 DEF RunCancelled, Interruptible, limiterVars, LimiterStep, Forget
    <2>2. CASE RunCancelledInSandbox(p)
      <3>1. Leave(p) /\ UNCHANGED executed
        BY <2>2 DEF RunCancelledInSandbox, SandboxCancelled, Forget
      <3> QED
        BY <3>1, GateFacts DEF LimiterStep, PipelineInv, LimiterInv
    <2> QED
      BY <2>1, <2>2
  <1>3. PipelineTypeOK' /\ \A q \in Pipelines : q # p => SamePipeline(q)
    BY <1>1 DEF Unwind, Moves, PipelineInv, PipelineTypeOK, SamePipeline, Stages, Codes
  <1>4. Seen(p)'
    BY <1>1 DEF Unwind, Moves, Seen, PipelineInv, PipelineTypeOK
  <1> QED
    BY <1>1, <1>2, <1>3, <1>4, LeavingKeeps DEF Unwind

LEMMA TickKeeps ==
    ASSUME PipelineInv, NEW p \in Pipelines, Tick(p)
    PROVE  PipelineInv'
  <1> USE DEF Tick, ClockRunsOut
  <1>1. LimiterStep(p)
    BY DEF LimiterStep, executorVars
  <1>2. LimiterInv' /\ ExecutorTypeOK' /\ SettingsTypeOK' /\ GraphTypeOK' /\ PipelineTypeOK'
    BY <1>1, LimiterInductive
       DEF PipelineInv, executorVars, ExecutorTypeOK, settingsVars, SettingsTypeOK, GraphTypeOK,
           pipelineVars, PipelineTypeOK
  <1>3. \A q \in Pipelines : SameGraph(q) /\ SameExecutor(q) /\ SamePipeline(q)
    BY ExecutorUnchanged, PipelineUnchanged DEF SameGraph, pipelineVars
  <1> QED
    BY <1>2, <1>3, Untouched DEF PipelineInv

---------------------------------------------------------------------------
\* The invariant

LEMMA PipelineStart == Init => PipelineInv
  <1> SUFFICES ASSUME Init PROVE PipelineInv
    OBVIOUS
  <1>1. LimiterInv
    BY LimiterStart DEF Init, ExecutorInit
  <1>2. ExecutorTypeOK
    BY DEF Init, ExecutorInit, ExecutorTypeOK, Boxes, Phases, Results, NoResult, Verdict
  <1>3. SettingsTypeOK
    BY SettingsAssumption DEF Init, SettingsInit, SettingsTypeOK, Values, Owners
  <1>4. GraphTypeOK
    BY InvestigationAssumption DEF Init, GraphInit, GraphTypeOK, Nodes, Tools, Verdict, Statuses, Stops
  <1>5. PipelineTypeOK
    BY CiPipelineAssumption DEF Init, PipelineTypeOK, Stages, Codes, ReportStates
  <1>6. ASSUME NEW p \in Pipelines PROVE Local(p)
    BY DEF Init, LimiterInit, ExecutorInit, GraphInit, Local, Control, Budget, Reason, Seen
  <1> QED
    BY <1>1, <1>2, <1>3, <1>4, <1>5, <1>6 DEF PipelineInv

LEMMA PipelineStep == PipelineInv /\ [Next]_vars => PipelineInv'
  <1> SUFFICES ASSUME PipelineInv, [Next]_vars PROVE PipelineInv'
    OBVIOUS
  <1>1. ASSUME NEW p \in Pipelines, Start(p) \/ Work(p) PROVE PipelineInv'
    <2>1. CASE \/ Start(p) \/ Discover(p) \/ OpenSandbox(p) \/ FindFindings(p, FALSE)
               \/ \E f \in Findings : ReportStatic(p, f)
               \/ EvaluateGate(p) \/ CloseSandbox(p) \/ End(p)
      BY <2>1, StageKeeps DEF StageStep
    <2> QED
      BY <1>1, <2>1, BeginFindingKeeps, ThinkKeeps, ExecuteKeeps, ReportFindingKeeps, UnwindKeeps
         DEF Work
  <1>2. ASSUME NEW p \in Pipelines, Trouble(p) PROVE PipelineInv'
    <2>1. CASE \/ FindFindings(p, TRUE) \/ TechnicalFailure(p) \/ Cancel(p)
               \/ \E f \in Findings : StaticFails(p, f)
      BY <2>1, StageKeeps DEF StageStep
    <2> QED
      BY <1>2, <2>1, FaultKeeps, FindingFailsKeeps, UnwindKeeps, TickKeeps DEF Trouble
  <1>3. CASE UNCHANGED vars
    <2>1. /\ UNCHANGED <<executorVars, limiterVars>> /\ UNCHANGED graphVars
          /\ UNCHANGED <<pc, todo, reports, errors, code>>
          /\ UNCHANGED settingsVars /\ UNCHANGED pipelineVars
      BY <1>3 DEF vars, pipelineVars
    <2>2. ExecutorTypeOK' /\ SettingsTypeOK' /\ GraphTypeOK' /\ PipelineTypeOK'
      BY <2>1 DEF PipelineInv, executorVars, ExecutorTypeOK, settingsVars, SettingsTypeOK,
             graphVars, GraphTypeOK, pipelineVars, PipelineTypeOK
    <2>3. LimiterInv'
      BY <2>1 DEF PipelineInv, limiterVars, executorVars, LimiterInv, LimiterTypeOK,
             PermitsBalanced, CountsCover, Inside, Waiting, Started
    <2>4. \A q \in Pipelines : Local(q)'
      BY <2>1, Untouched, GraphUnchanged, ExecutorUnchanged, PipelineUnchanged DEF PipelineInv
    <2> QED
      BY <2>2, <2>3, <2>4 DEF PipelineInv
  <1>4. Troubled \subseteq Pipelines
    BY CiPipelineAssumption
  <1> QED
    BY <1>1, <1>2, <1>3, <1>4 DEF Next, AllOver

LEMMA PipelineInductive == Spec => []PipelineInv
  BY PipelineStart, PipelineStep, PTL DEF Spec

---------------------------------------------------------------------------
\* Theorems

\* Every variable of a pipeline keeps its type: no count of the limiter
\* becomes negative, no step is taken beyond max_steps, no record is
\* written outside the work directories.
THEOREM PipelineTypeCorrect == Spec => []TypeOK
  <1>1. PipelineInv => TypeOK
    BY DEF PipelineInv, LimiterInv, TypeOK
  <1> QED
    BY <1>1, PipelineInductive, PTL

\* However pipelines overlap and end, a permit of RunLimiter is free or held
\* by a thread inside a sandbox.
THEOREM PermitsNeverLost == Spec => []PermitsBalanced
  <1>1. PipelineInv => PermitsBalanced
    BY DEF PipelineInv, LimiterInv
  <1> QED
    BY <1>1, PipelineInductive, PTL

\* No action id starts more sandboxes in one work directory than the policy
\* allows, whatever pipelines share the directory.
THEOREM LimitsHold == Spec => []ActionsLimited
  <1>1. PipelineInv => ActionsLimited
    BY LimiterLimits DEF PipelineInv
  <1> QED
    BY <1>1, PipelineInductive, PTL

\* An investigation takes at most 8 super-steps for each step of its budget,
\* and so ends before LangGraph's recursion limit.
THEOREM InvestigationStops == Spec => []StopsWithinBudget
  <1>1. ASSUME PipelineInv, NEW p \in Pipelines PROVE hops[p] <= 2 + 8 * MaxSteps
    <2>1. Control(p) /\ Budget(p) /\ node[p] \in Nodes /\ MaxSteps \in Nat /\ MaxSteps >= 1
          /\ steps[p] \in Nat /\ steps[p] <= MaxSteps
      BY <1>1, InvestigationAssumption DEF PipelineInv, Local, GraphTypeOK
    <2> QED
      BY <2>1 DEF Control, Budget, Nodes
  <1>2. PipelineInv => StopsWithinBudget
    BY <1>1 DEF StopsWithinBudget
  <1> QED
    BY <1>2, PipelineInductive, PTL

\* A report always carries the reason that belongs to its status: budgets,
\* failures and denials never end in a verdict.
THEOREM ReasonsFit == Spec => []StopReasonFits
  <1>1. PipelineInv => StopReasonFits
    BY DEF PipelineInv, Local, Reason, StopReasonFits, At
  <1> QED
    BY <1>1, PipelineInductive, PTL

\* The gate passes, or names a risk, only with a report of every finding and
\* no swallowed failure.
THEOREM GateComplete == Spec => []GateSeesEverything
  <1>1. PipelineInv => GateSeesEverything
    BY DEF PipelineInv, Local, Seen, GateSeesEverything
  <1> QED
    BY <1>1, PipelineInductive, PTL

---------------------------------------------------------------------------
\* The settings of pipelines that do not overlap

Begun == {p \in Pipelines : pc[p] # "new"}

\* Every pipeline found the same settings, and they are back when none runs.
SettingsInv ==
    /\ \A p, q \in Running : p = q
    /\ \A p, q \in Begun : snapshot[p] = snapshot[q]
    /\ Running = {} => \A p \in Begun : settings = snapshot[p]

\* A pipeline starts, ends, or stays among those that run.
LEMMA RunningFacts ==
    ASSUME PipelineInv, NEW p \in Pipelines, Start(p) \/ Work(p) \/ Trouble(p)
    PROVE  \/ Start(p)
           \/ End(p)
           \/ /\ pc[p] \notin {"new", "over"} /\ UNCHANGED snapshot
              /\ pc' = [pc EXCEPT ![p] = pc'[p]] /\ pc'[p] \notin {"new", "over"}
  <1> USE DEF PipelineInv, PipelineTypeOK, Moves, settingsVars, pipelineVars
  <1>1. CASE Discover(p) \/ OpenSandbox(p) \/ \E broken \in BOOLEAN : FindFindings(p, broken)
    BY <1>1 DEF Discover, TakePaths, OpenSandbox, TakeMode, FindFindings
  <1>2. CASE EvaluateGate(p) \/ CloseSandbox(p) \/ TechnicalFailure(p) \/ Cancel(p)
             \/ \E f \in Findings : BeginFinding(p, f) \/ ReportStatic(p, f) \/ StaticFails(p, f)
    BY <1>2 DEF EvaluateGate, CloseSandbox, TechnicalFailure, Cancel, BeginFinding, ReportStatic, StaticFails,
           Between, Running
  <1>3. CASE node[p] # "none" /\ UNCHANGED <<pc, snapshot>>
    BY <1>3 DEF Local, Control
  <1>4. CASE RunCancelled(p)
    BY <1>4 DEF RunCancelled, Unwind
  <1>5. CASE RunCancelledInSandbox(p)
    <2>1. node[p] = "acting"
      BY <1>5 DEF RunCancelledInSandbox, SandboxCancelled, InPhase, Local, Control
    <2> QED
      BY <1>5, <2>1 DEF RunCancelledInSandbox, Unwind, Local, Control
  <1>6. CASE Think(p)
    BY <1>3, <1>6 DEF Think, NodeStep, GuardBudget, Propose, Validate, BeginAction, Collect,
           Reevaluate, At
  <1>7. CASE Execute(p) \/ Fault(p) \/ ReportFinding(p) \/ FindingFails(p) \/ Tick(p)
    BY <1>3, <1>7 DEF Execute, Act, Fault, ReportFinding, FindingFails, Tick, ClockRunsOut, At
  <1> QED
    BY <1>1, <1>2, <1>4, <1>5, <1>6, <1>7 DEF Work, Trouble

LEMMA NoneRuns ==
    ASSUME Concurrent = 1, NEW p \in Pipelines, Start(p)
    PROVE  Running = {}
  <1>1. Running \subseteq Pipelines
    BY DEF Running
  <1>2. IsFiniteSet(Running)
    BY <1>1, FS_Subset, PipelineNamesAssumption
  <1>3. Cardinality(Running) \in Nat /\ Cardinality(Running) < 1
    BY <1>2, FS_CardinalityType DEF Start
  <1>4. Cardinality(Running) = 0
    BY <1>3
  <1> QED
    BY <1>2, <1>4, FS_EmptySet

LEMMA SettingsStep ==
    ASSUME Concurrent = 1, PipelineInv, SettingsInv, [Next]_vars
    PROVE  SettingsInv'
  <1> USE DEF PipelineInv, PipelineTypeOK, SettingsTypeOK, Running, Begun, SettingsInv
  <1>1. ASSUME NEW p \in Pipelines, Start(p) PROVE SettingsInv'
    <2>1. Running = {}
      BY <1>1, NoneRuns
    <2>2. /\ pc[p] = "new" /\ pc' = [pc EXCEPT ![p] = "prepare"]
          /\ snapshot' = [snapshot EXCEPT ![p] = settings] /\ UNCHANGED settings
      BY <1>1 DEF Start, Moves, TakeSnapshot
    <2> QED
      BY <2>1, <2>2
  <1>2. ASSUME NEW p \in Pipelines, End(p) PROVE SettingsInv'
    <2>1. /\ pc[p] = "restore" /\ pc' = [pc EXCEPT ![p] = "over"]
          /\ settings' = snapshot[p] /\ UNCHANGED snapshot
      BY <1>2 DEF End, Moves, PutBack
    <2> QED
      BY <2>1
  <1>3. ASSUME NEW p \in Pipelines, pc[p] \notin {"new", "over"}, UNCHANGED snapshot,
               pc' = [pc EXCEPT ![p] = pc'[p]], pc'[p] \notin {"new", "over"}
        PROVE  SettingsInv'
    BY <1>3
  <1>4. CASE UNCHANGED vars
    BY <1>4 DEF vars, settingsVars, pipelineVars
  <1>5. Troubled \subseteq Pipelines
    BY CiPipelineAssumption
  <1>6. ASSUME NEW p \in Pipelines, Start(p) \/ Work(p) \/ Trouble(p) PROVE SettingsInv'
    BY <1>1, <1>2, <1>3, <1>6, RunningFacts
  <1> QED
    BY <1>4, <1>5, <1>6 DEF Next, AllOver

\* When pipelines do not overlap, the process has its own settings back
\* whenever none runs, however the last one ended.
THEOREM SettingsComeBack ==
    ASSUME Concurrent = 1
    PROVE  Spec => []SettingsRestored
  <1>1. Init => SettingsInv
    BY DEF Init, SettingsInv, Running, Begun
  <1>2. PipelineInv /\ SettingsInv /\ [Next]_vars => SettingsInv'
    BY SettingsStep
  <1>3. SettingsInv => SettingsRestored
    BY DEF SettingsInv, SettingsRestored, Begun
  <1> QED
    BY <1>1, <1>2, <1>3, PipelineInductive, PTL DEF Spec
===========================================================================
