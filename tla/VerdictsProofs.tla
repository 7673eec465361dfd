-------------------------- MODULE VerdictsProofs --------------------------
(***************************************************************************)
(* CiPipeline implements Verdicts for every number of pipelines, findings  *)
(* and steps, with every failure and in any overlap: no sandbox without a  *)
(* permission, no verdict without a completed, stored and audited          *)
(* execution of the same finding of the same pipeline; and, when pipelines *)
(* do not overlap, about the repository of that pipeline.                  *)
(***************************************************************************)
EXTENDS CiPipelineProofs

Early == {"new", "prepare", "open", "ready"}

\* The run r of pipeline p is not one that is still to come.
Past(p, r) ==
    /\ pc[p] \notin Early
    /\ r[2] \notin todo[p]
    /\ r[2] = finding[p] => r[3] <= steps[p]

\* The current action has not been started in a sandbox yet.
Coming(p) ==
    \/ node[p] \in {"validate", "execute"}
    \/ node[p] = "acting" /\ phase[p] \in {"check", "limit"}

\* What is on disk belongs to actions that were begun, and of the current
\* action only what its phase has written.
Traces(p) ==
    /\ \A x \in executed : x.run[1] = p =>
           Past(p, x.run) /\ (x.run = Run(p) => ~Coming(p))
    /\ \A x \in files : x.run[1] = p =>
           /\ Past(p, x.run)
           /\ x.run = Run(p) =>
                  /\ ~Coming(p)
                  /\ node[p] = "acting" => phase[p] \in {"append", "put_again", "done"}
                  /\ node[p] = "acting" /\ x.copy = 2 => phase[p] = "done"
    /\ \A x \in log : x.run[1] = p =>
           /\ Past(p, x.run)
           /\ x.run = Run(p) => ~Coming(p) /\ (node[p] = "acting" => phase[p] = "done")

Unreported(p) ==
    /\ finding[p] \notin todo[p]
    /\ pc[p] \in Early => \A f \in Findings : reports[p][f] = "none"
    /\ \A f \in Findings : f \in todo[p] \/ f = finding[p] => reports[p][f] = "none"

Ran(p) == \E x \in executed : x.run = Run(p)

Logged(p) == \E x \in log : x.run = Run(p)

\* A record that says v and an audit event prove the current action.
Shown(p, v) ==
    /\ \E x \in files : x.run = Run(p) /\ x.status = "completed" /\ x.says = v
    /\ Logged(p)

\* The current action: its result, its record and its evidence agree.
Current(p) ==
    /\ node[p] \in {"execute", "acting"} => Run(p) \in permitted
    /\ phase[p] = "sandbox" => Ran(p)
    /\ phase[p] = "put" /\ result[p].status = "completed" => Ran(p)
    /\ phase[p] = "put_again" => result[p].status # "completed"
    /\ phase[p] \in {"append", "done"} =>
           /\ \A x \in files : x.run = Run(p) /\ x.copy = ref[p] =>
                  x.status = result[p].status /\ x.says = result[p].says
           /\ result[p].status = "completed" => \E x \in files : x.run = Run(p) /\ x.copy = ref[p]
    /\ phase[p] = "done" /\ result[p].status = "completed" => Logged(p)
    /\ node[p] = "reevaluate" /\ result[p].status = "completed" /\ evidence[p] # "nothing" =>
           Shown(p, evidence[p])
    /\ node[p] = "report" /\ status[p] \in {"confirmed", "rejected"} =>
           steps[p] \in 1 .. MaxSteps /\ Shown(p, status[p])

History(p) == Traces(p) /\ Unreported(p) /\ Current(p)

\* Over all pipelines: executed actions were permitted, completed records
\* are first copies of executed actions, and a copy is written once.
Accounts ==
    /\ \A x \in executed : x.run \in permitted
    /\ \A x \in files : x.status = "completed" =>
           x.copy = 1 /\ \E y \in executed : y.run = x.run
    /\ \A x, y \in files : x.run = y.run /\ x.copy = y.copy => x = y

VerdictsInv == PipelineInv /\ Accounts /\ \A p \in Pipelines : History(p)

---------------------------------------------------------------------------
\* What a step of one pipeline leaves alone

SameHistory(q) ==
    /\ node'[q] = node[q] /\ finding'[q] = finding[q] /\ steps'[q] = steps[q]
    /\ phase'[q] = phase[q] /\ result'[q] = result[q] /\ ref'[q] = ref[q]
    /\ evidence'[q] = evidence[q] /\ status'[q] = status[q]
    /\ pc'[q] = pc[q] /\ todo'[q] = todo[q] /\ reports'[q] = reports[q]

\* Only traces of p are added.
Grows(p) ==
    /\ permitted \subseteq permitted'
    /\ executed \subseteq executed' /\ \A x \in executed' \ executed : x.run[1] = p
    /\ files \subseteq files' /\ \A x \in files' \ files : x.run[1] = p
    /\ log \subseteq log' /\ \A x \in log' \ log : x.run[1] = p

LEMMA OthersKeep ==
    ASSUME NEW p \in Pipelines, NEW q \in Pipelines, p # q, History(q), SameHistory(q), Grows(p)
    PROVE  History(q)'
  <1> USE DEF SameHistory, Grows
  <1>1. Run(q)' = Run(q) /\ Run(q)[1] = q
    BY DEF Run
  <1>2. /\ Coming(q)' = Coming(q)
        /\ \A r : Past(q, r)' = Past(q, r)
    BY DEF Coming, Past
  <1>3. Traces(q)'
    BY <1>1, <1>2 DEF History, Traces
  <1>4. Unreported(q)'
    BY DEF History, Unreported
  <1>5. (Ran(q) => Ran(q)') /\ (Logged(q) => Logged(q)') /\ \A v : Shown(q, v) => Shown(q, v)'
    BY <1>1 DEF Ran, Logged, Shown
  <1>6. Current(q)'
    <2>1. \A x \in files' : x.run = Run(q) => x \in files
      BY <1>1
    <2> QED
      BY <1>1, <1>5, <2>1 DEF History, Current
  <1> QED
    BY <1>3, <1>4, <1>6 DEF History

\* What is left to show of a step of p.
LEMMA HistoryKeeps ==
    ASSUME VerdictsInv, NEW p \in Pipelines, PipelineInv', Grows(p),
           \A q \in Pipelines : q # p => SameHistory(q),
           Accounts', History(p)'
    PROVE  VerdictsInv'
  BY OthersKeep DEF VerdictsInv

LEMMA QuietAccounts ==
    ASSUME Accounts, NEW p \in Pipelines, UNCHANGED <<executed, files, log>>, permitted \subseteq permitted',
           \A x \in permitted' \ permitted : x[1] = p
    PROVE  Accounts' /\ Grows(p)
  BY DEF Accounts, Grows

LEMMA StageHistory ==
    ASSUME VerdictsInv, NEW p \in Pipelines, StageStep(p)
    PROVE  VerdictsInv'
  <1>1. PipelineInv'
    BY StageKeeps DEF VerdictsInv
  <1>2. UNCHANGED <<limiterVars, executorVars, graphVars>>
    BY DEF StageStep, Start, Discover, OpenSandbox, FindFindings, ReportStatic, StaticFails, EvaluateGate,
           CloseSandbox, TechnicalFailure, End, Cancel
  <1>3. Accounts' /\ Grows(p)
    BY <1>2, QuietAccounts DEF executorVars, graphVars, VerdictsInv
  <1>4. /\ pc' = [pc EXCEPT ![p] = pc'[p]]
        /\ pc[p] \notin Early => pc'[p] \notin Early
        /\ \/ /\ UNCHANGED reports
              /\ todo' = todo \/ (pc[p] \in Early /\ todo' = [todo EXCEPT ![p] = Findings])
           \/ \E f \in todo[p] : /\ node[p] = "none" /\ pc[p] = "loop" /\ pc' = pc
                                 /\ todo' = [todo EXCEPT ![p] = @ \ {f}]
                                 /\ \/ UNCHANGED reports
                                    \/ reports' = [reports EXCEPT ![p][f] = "inconclusive"]
    <2> USE DEF VerdictsInv, PipelineInv, PipelineTypeOK, Moves, Early, Stages
    <2>1. CASE Start(p) \/ Discover(p) \/ OpenSandbox(p) \/ CloseSandbox(p) \/ End(p) \/ Cancel(p)
      BY <2>1 DEF Start, Discover, OpenSandbox, CloseSandbox, End, Cancel
    <2>2. CASE EvaluateGate(p) \/ TechnicalFailure(p)
      BY <2>2 DEF EvaluateGate, TechnicalFailure
    <2>3. ASSUME NEW broken \in BOOLEAN, FindFindings(p, broken)
          PROVE  /\ pc' = [pc EXCEPT ![p] = "loop"] /\ pc[p] = "ready"
                 /\ UNCHANGED reports /\ todo' = [todo EXCEPT ![p] = Findings]
      BY <2>3 DEF FindFindings
    <2>4. ASSUME NEW f \in Findings, ReportStatic(p, f) \/ StaticFails(p, f)
          PROVE  /\ f \in todo[p] /\ node[p] = "none" /\ pc[p] = "loop" /\ pc' = pc
                 /\ todo' = [todo EXCEPT ![p] = @ \ {f}]
                 /\ UNCHANGED reports \/ reports' = [reports EXCEPT ![p][f] = "inconclusive"]
      BY <2>4 DEF ReportStatic, StaticFails, Between, At
    <2> QED
      BY <2>1, <2>2, <2>3, <2>4 DEF StageStep
  <1>5. \A q \in Pipelines : q # p => SameHistory(q)
    BY <1>2, <1>4 DEF SameHistory, executorVars, graphVars, VerdictsInv, PipelineInv, PipelineTypeOK
  <1>6. History(p)
    BY DEF VerdictsInv
  <1>7. /\ Run(p)' = Run(p) /\ Coming(p)' = Coming(p)
        /\ \A r : Past(p, r) => Past(p, r)'
    BY <1>2, <1>4 DEF Run, Coming, Past, executorVars, graphVars, VerdictsInv, PipelineInv, PipelineTypeOK
  <1>8. Traces(p)'
    BY <1>2, <1>6, <1>7 DEF History, Traces, executorVars, graphVars
  <1>9. Unreported(p)'
    <2>1. finding' = finding /\ (node[p] = "none" => finding[p] \notin Findings)
      BY <1>2, InvestigationAssumption DEF graphVars, VerdictsInv, PipelineInv, Local, Control
    <2>2. Unreported(p) /\ todo \in [Pipelines -> SUBSET Findings]
          /\ reports \in [Pipelines -> [Findings -> ReportStates]]
      BY <1>6 DEF History, VerdictsInv, PipelineInv, PipelineTypeOK
    <2>3. finding'[p] \notin todo'[p]
      BY <1>2, <1>4, <2>1, <2>2 DEF Unreported, VerdictsInv, PipelineInv, Local, Control, Early, graphVars
    <2> QED
      BY <1>4, <2>1, <2>2, <2>3 DEF Unreported, Early
  <1>10. Current(p)'
    BY <1>2, <1>6, <1>7 DEF History, Current, Ran, Logged, Shown, executorVars, graphVars
  <1> QED
    BY <1>1, <1>3, <1>5, <1>8, <1>9, <1>10, HistoryKeeps DEF History

---------------------------------------------------------------------------
\* The graph

\* What a step of the graph or of the executor leaves alone.
LEMMA InsideStages ==
    ASSUME VerdictsInv, NEW p \in Pipelines, UNCHANGED <<pc, todo, reports, finding>>,
           node[p] # "none", steps'[p] \in Nat, steps[p] <= steps'[p]
    PROVE  /\ Unreported(p)' /\ Past(p, Run(p))'
           /\ \A r \in Runs : Past(p, r) => Past(p, r)'
  <1>1. Unreported(p) /\ Control(p) /\ steps[p] \in Nat
    BY DEF VerdictsInv, History, PipelineInv, Local, GraphTypeOK
  <1>2. Run(p)'[2] = finding[p] /\ Run(p)'[3] = steps'[p]
    BY DEF Run
  <1>3. pc[p] \notin Early
    BY <1>1 DEF Control, Early
  <1>4. Unreported(p)'
    BY <1>1 DEF Unreported
  <1>5. Past(p, Run(p))'
    BY <1>1, <1>2, <1>3 DEF Unreported, Past
  <1>6. \A r \in Runs : Past(p, r) => Past(p, r)'
    <2> SUFFICES ASSUME NEW r \in Runs, Past(p, r), r[2] = finding[p] PROVE r[3] <= steps'[p]
      BY DEF Past
    <2> QED
      BY <1>1 DEF Past, Runs
  <1> QED
    BY <1>4, <1>5, <1>6

LEMMA TracesStay ==
    ASSUME ExecutorTypeOK, NEW p \in Pipelines, Traces(p), UNCHANGED <<executed, files, log>>,
           Run(p)' = Run(p), \A r \in Runs : Past(p, r) => Past(p, r)',
           Coming(p)' => Coming(p), node'[p] = "acting" => Coming(p)'
    PROVE  Traces(p)'
  <1>1. /\ \A x \in executed : x.run \in Runs
        /\ \A x \in files : x.run \in Runs
        /\ \A x \in log : x.run \in Runs
    BY DEF ExecutorTypeOK, Records
  <1> QED
    BY <1>1 DEF Traces

LEMMA OtherHistories ==
    ASSUME VerdictsInv, NEW p \in Pipelines, UNCHANGED <<pc, todo, reports, finding>>,
           \A q \in Pipelines : q # p =>
               /\ node'[q] = node[q] /\ steps'[q] = steps[q] /\ phase'[q] = phase[q]
               /\ result'[q] = result[q] /\ ref'[q] = ref[q]
               /\ evidence'[q] = evidence[q] /\ status'[q] = status[q]
    PROVE  \A q \in Pipelines : q # p => SameHistory(q)
  BY DEF SameHistory

LEMMA BeginFindingHistory ==
    ASSUME VerdictsInv, NEW p \in Pipelines, NEW f \in Findings, BeginFinding(p, f)
    PROVE  VerdictsInv'
  <1> USE DEF VerdictsInv, PipelineInv, GraphTypeOK, ExecutorTypeOK, PipelineTypeOK
  <1>1. PipelineInv'
    BY BeginFindingKeeps
  <1>2. /\ UNCHANGED <<pc, reports, phase, result, ref, files, log, executed, permitted>>
        /\ UNCHANGED <<steps, evidence, status>>
        /\ node[p] = "none" /\ pc[p] = "loop" /\ f \in todo[p]
        /\ node' = [node EXCEPT ![p] = "guard"] /\ finding' = [finding EXCEPT ![p] = f]
        /\ todo' = [todo EXCEPT ![p] = @ \ {f}]
    BY DEF BeginFinding, Investigate, Goto, At, Between
  <1>3. Accounts' /\ Grows(p)
    BY <1>2, QuietAccounts
  <1>4. \A q \in Pipelines : q # p => SameHistory(q)
    BY <1>2 DEF SameHistory
  <1>5. Traces(p) /\ Unreported(p) /\ phase[p] = "idle"
    BY <1>2 DEF History, Local, Control
  <1>6. Run(p)'[2] = f /\ \A r : Past(p, r) => r[2] # f /\ Past(p, r)'
    BY <1>2 DEF Run, Past
  <1>7. Traces(p)'
    BY <1>2, <1>5, <1>6 DEF Traces
  <1>8. Unreported(p)'
    BY <1>2, <1>5 DEF Unreported, Early
  <1>9. Current(p)'
    BY <1>2, <1>5 DEF Current
  <1> QED
    BY <1>1, <1>3, <1>4, <1>7, <1>8, <1>9, HistoryKeeps DEF History

LEMMA ThinkHistory ==
    ASSUME VerdictsInv, NEW p \in Pipelines, Think(p)
    PROVE  VerdictsInv'
  <1> USE DEF VerdictsInv, PipelineInv, GraphTypeOK, ExecutorTypeOK, At, Goto, Decides
  <1>1. PipelineInv' /\ NodeStep(p) /\ UNCHANGED <<pc, todo, reports>>
    BY ThinkKeeps DEF Think, pipelineVars
  <1>2. Traces(p) /\ Unreported(p) /\ Current(p) /\ Control(p) /\ Budget(p)
    BY DEF History, Local
  <1>3. ASSUME UNCHANGED <<finding, executed, files, log>>, permitted \subseteq permitted',
               \A x \in permitted' \ permitted : x[1] = p,
               node[p] # "none", steps'[p] \in Nat, steps[p] <= steps'[p],
               \A q \in Pipelines : q # p =>
                   /\ node'[q] = node[q] /\ steps'[q] = steps[q] /\ phase'[q] = phase[q]
                   /\ result'[q] = result[q] /\ ref'[q] = ref[q]
                   /\ evidence'[q] = evidence[q] /\ status'[q] = status[q],
               Traces(p)', Current(p)'
        PROVE  VerdictsInv'
    BY <1>1, <1>3, InsideStages, OtherHistories, QuietAccounts, HistoryKeeps DEF History
  <1>4. CASE GuardBudget(p)
    <2>1. /\ UNCHANGED <<finding, steps, evidence, permitted, executorVars>> /\ node[p] = "guard"
          /\ node' = [node EXCEPT ![p] = node'[p]] /\ node'[p] \in {"report", "propose"}
          /\ status' = [status EXCEPT ![p] = status'[p]]
          /\ node'[p] = "report" => status'[p] = "inconclusive"
      BY <1>4 DEF GuardBudget
    <2>2. Run(p)' = Run(p) /\ (Coming(p)' => Coming(p)) /\ (node'[p] = "acting" => Coming(p)')
      BY <1>2, <2>1 DEF executorVars, Run, Coming, Control
    <2>3. Traces(p)'
      BY <1>1, <1>2, <2>1, <2>2, TracesStay, InsideStages DEF executorVars
    <2>4. Current(p)'
      BY <1>2, <2>1, <2>2 DEF executorVars, Current, Control
    <2> QED
      BY <1>3, <2>1, <2>3, <2>4 DEF executorVars
  <1>5. CASE Propose(p)
    <2>1. /\ UNCHANGED <<finding, evidence, status, permitted, executorVars>> /\ node[p] = "propose"
          /\ node' = [node EXCEPT ![p] = "validate"] /\ steps' = [steps EXCEPT ![p] = @ + 1]
      BY <1>5 DEF Propose
    <2>2. /\ steps[p] \in Nat /\ steps'[p] = steps[p] + 1
          /\ Run(p)'[2] = finding[p] /\ Run(p)'[3] = steps[p] + 1
      BY <2>1 DEF Run
    <2>3. \A r \in Runs : Past(p, r) => r # Run(p)' /\ Past(p, r)'
      <3> SUFFICES ASSUME NEW r \in Runs, Past(p, r) PROVE r # Run(p)' /\ Past(p, r)'
        OBVIOUS
      <3>1. r[2] = finding[p] => r[3] <= steps[p]
        BY DEF Past
      <3>2. r # Run(p)'
        BY <2>2, <3>1 DEF Runs
      <3> QED
        BY <1>1, <2>1, <2>2, InsideStages, <3>2
    <2>4. /\ \A x \in executed : x.run \in Runs
          /\ \A x \in files : x.run \in Runs
          /\ \A x \in log : x.run \in Runs
      BY DEF Records
    <2>5. Traces(p)'
      BY <1>2, <2>1, <2>3, <2>4 DEF executorVars, Traces
    <2>6. Current(p)'
      BY <1>2, <2>1 DEF executorVars, Current, Control
    <2> QED
      BY <1>3, <2>1, <2>2, <2>5, <2>6 DEF executorVars
  <1>6. CASE Validate(p)
    <2>1. /\ UNCHANGED <<finding, steps, evidence, executorVars>> /\ node[p] = "validate"
          /\ node' = [node EXCEPT ![p] = node'[p]] /\ status' = [status EXCEPT ![p] = status'[p]]
          /\ \/ node'[p] = "execute" /\ permitted' = permitted \cup {Run(p)}
             \/ node'[p] = "report" /\ permitted' = permitted /\ status'[p] = "policy_blocked"
      BY <1>6 DEF Validate
    <2>2. Run(p)' = Run(p) /\ (Coming(p)' => Coming(p)) /\ (node'[p] = "acting" => Coming(p)')
      BY <1>2, <2>1 DEF executorVars, Run, Coming, Control
    <2>3. Traces(p)'
      BY <1>1, <1>2, <2>1, <2>2, TracesStay, InsideStages DEF executorVars
    <2>4. Current(p)'
      BY <1>2, <2>1, <2>2 DEF executorVars, Current, Control
    <2> QED
      BY <1>3, <2>1, <2>3, <2>4 DEF executorVars, Run
  <1>7. CASE BeginAction(p)
    <2>1. /\ UNCHANGED <<finding, steps, evidence, status, permitted, result, ref, files, log, executed>>
          /\ node[p] = "execute" /\ node' = [node EXCEPT ![p] = "acting"]
          /\ phase' = [phase EXCEPT ![p] = "check"]
      BY <1>7 DEF BeginAction
    <2>2. Run(p)' = Run(p) /\ (Coming(p)' => Coming(p)) /\ (node'[p] = "acting" => Coming(p)')
      BY <1>2, <2>1 DEF Run, Coming
    <2>3. Traces(p)'
      BY <1>1, <1>2, <2>1, <2>2, TracesStay, InsideStages
    <2>4. Current(p)'
      BY <1>2, <2>1, <2>2 DEF Current
    <2> QED
      BY <1>3, <2>1, <2>3, <2>4
  <1>8. CASE Collect(p)
    <2>1. /\ UNCHANGED <<finding, steps, status, permitted, result, ref, files, log, executed>>
          /\ node[p] = "acting" /\ node' = [node EXCEPT ![p] = "reevaluate"]
          /\ phase[p] = "done" /\ phase' = [phase EXCEPT ![p] = "idle"]
          /\ evidence' = [evidence EXCEPT ![p] = evidence'[p]]
      BY <1>8 DEF Collect, InPhase
    <2>2. Traces(p)'
      <3>1. Run(p)' = Run(p) /\ (Coming(p)' => Coming(p)) /\ node'[p] # "acting"
        BY <2>1 DEF Run, Coming
      <3> QED
        BY <1>1, <1>2, <2>1, <3>1, TracesStay, InsideStages
    <2>3. evidence'[p] # "nothing" =>
              \E x \in files : x.run = Run(p) /\ x.status = "completed" /\ x.says = evidence'[p]
      BY <1>8, <2>1 DEF Collect, Loaded
    <2>4. Run(p)' = Run(p)
      BY <2>1 DEF Run
    <2>5. Current(p)'
      BY <1>2, <2>1, <2>3, <2>4 DEF Current, Shown, Logged
    <2> QED
      BY <1>3, <2>1, <2>2, <2>5
  <1>9. CASE Reevaluate(p)
    <2>1. /\ UNCHANGED <<finding, steps, evidence, permitted, executorVars>>
          /\ node[p] = "reevaluate" /\ node' = [node EXCEPT ![p] = node'[p]]
          /\ node'[p] \in {"guard", "report"}
      BY <1>9 DEF Reevaluate
    <2>2. /\ status' = [status EXCEPT ![p] = status'[p]]
          /\ status'[p] \in {"confirmed", "rejected"} =>
                 /\ result[p].status = "completed" /\ evidence[p] # "nothing"
                 /\ status'[p] = evidence[p]
      <3>1. CASE tool[p] = "safe_noop"
        BY <1>9, <3>1 DEF Reevaluate, GuardNoop
      <3>2. CASE tool[p] # "safe_noop"
        BY <1>9, <3>2 DEF Reevaluate, GuardEvidence, ContinueOrStop
      <3> QED
        BY <3>1, <3>2
    <2>3. Traces(p)'
      <3>1. Run(p)' = Run(p) /\ ~Coming(p)' /\ node'[p] # "acting"
        BY <2>1 DEF Run, Coming
      <3> QED
        BY <1>1, <1>2, <2>1, <3>1, TracesStay, InsideStages DEF executorVars
    <2>4. Run(p)' = Run(p) /\ steps[p] \in 1 .. MaxSteps
      BY <1>2, <2>1 DEF Run, Budget
    <2>5. Current(p)'
      BY <1>2, <2>1, <2>2, <2>4 DEF executorVars, Current, Control, Shown, Logged
    <2> QED
      BY <1>3, <2>1, <2>2, <2>3, <2>5 DEF executorVars
  <1> QED
    BY <1>1, <1>4, <1>5, <1>6, <1>7, <1>8, <1>9 DEF NodeStep

---------------------------------------------------------------------------
\* The executor

LEMMA NothingNew ==
    ASSUME VerdictsInv, PipelineInv',
           UNCHANGED <<node, finding, steps, evidence, status, permitted, executorVars, pc, todo, reports>>
    PROVE  VerdictsInv'
  <1> USE DEF executorVars
  <1>1. Accounts'
    BY DEF VerdictsInv, Accounts
  <1>2. ASSUME NEW q \in Pipelines PROVE History(q)'
    <2>1. Run(q)' = Run(q) /\ Coming(q)' = Coming(q) /\ \A r : Past(q, r)' = Past(q, r)
      BY DEF Run, Coming, Past
    <2>2. (Ran(q) => Ran(q)') /\ (Logged(q) => Logged(q)') /\ \A v : Shown(q, v) => Shown(q, v)'
      BY <2>1 DEF Ran, Logged, Shown
    <2>3. Traces(q)'
      BY <2>1 DEF VerdictsInv, History, Traces
    <2>4. Unreported(q)'
      BY DEF VerdictsInv, History, Unreported
    <2>5. Current(q)'
      BY <2>1, <2>2 DEF VerdictsInv, History, Current
    <2> QED
      BY <2>3, <2>4, <2>5 DEF History
  <1> QED
    BY <1>1, <1>2 DEF VerdictsInv

\* Only the phase, the result and evidence_ref of p change.
Proceeding(p) ==
    /\ UNCHANGED <<graphVars, pc, todo, reports>>
    /\ phase' = [phase EXCEPT ![p] = phase'[p]]
    /\ result' = [result EXCEPT ![p] = result'[p]]
    /\ ref' = [ref EXCEPT ![p] = ref'[p]]

LEMMA ActingHistory ==
    ASSUME VerdictsInv, NEW p \in Pipelines, node[p] = "acting", PipelineInv', Proceeding(p),
           Grows(p), Accounts', Traces(p)', Current(p)'
    PROVE  VerdictsInv'
  <1>1. /\ UNCHANGED <<pc, todo, reports, finding, steps>>
        /\ steps[p] \in Nat /\ steps[p] <= steps'[p]
    BY DEF Proceeding, graphVars, VerdictsInv, PipelineInv, GraphTypeOK
  <1>2. \A q \in Pipelines : q # p => SameHistory(q)
    BY DEF SameHistory, Proceeding, graphVars, VerdictsInv, PipelineInv, ExecutorTypeOK
  <1>3. Unreported(p)'
    BY <1>1, InsideStages
  <1> QED
    BY <1>2, <1>3, HistoryKeeps DEF History

LEMMA PlaceFacts ==
    ASSUME VerdictsInv, NEW p \in Pipelines, node[p] = "acting", Proceeding(p)
    PROVE  /\ Run(p)' = Run(p) /\ Past(p, Run(p)) /\ Run(p)[1] = p
           /\ \A r : Past(p, r)' = Past(p, r)
           /\ node'[p] = "acting"
           /\ UNCHANGED <<permitted, node, finding, steps, evidence, status>>
           /\ Traces(p) /\ Current(p) /\ Accounts
  <1>1. Unreported(p) /\ Control(p) /\ steps[p] \in Nat
    BY DEF VerdictsInv, History, PipelineInv, Local, GraphTypeOK
  <1>2. Run(p)[2] = finding[p] /\ Run(p)[3] = steps[p] /\ Run(p)[1] = p
    BY DEF Run
  <1>3. Past(p, Run(p))
    BY <1>1, <1>2 DEF Past, Unreported, Control, Early
  <1>4. UNCHANGED <<permitted, node, finding, steps, evidence, status>>
    BY DEF Proceeding, graphVars
  <1>5. Run(p)' = Run(p) /\ \A r : Past(p, r)' = Past(p, r)
    BY <1>4 DEF Proceeding, Run, Past
  <1> QED
    BY <1>2, <1>3, <1>4, <1>5 DEF VerdictsInv, History

\* Steps that write nothing.
LEMMA QuietActing ==
    ASSUME VerdictsInv, NEW p \in Pipelines, node[p] = "acting", PipelineInv', Proceeding(p),
           UNCHANGED <<executed, files, log>>,
           Coming(p)' => Coming(p),
           \/ Coming(p)
           \/ phase[p] = "sandbox" /\ phase'[p] = "put"
           \/ phase[p] = "put" /\ phase'[p] = "append"
           \/ phase[p] = "append" /\ phase'[p] = "put_again"
           \/ phase[p] = "put_again" /\ phase'[p] = "done",
           Current(p)'
    PROVE  VerdictsInv'
  <1>1. Accounts' /\ Grows(p)
    BY QuietAccounts, PlaceFacts
  <1>2. Traces(p)'
    BY PlaceFacts DEF Traces
  <1> QED
    BY <1>1, <1>2, ActingHistory

LEMMA AnsweredHistory ==
    ASSUME VerdictsInv, NEW p \in Pipelines, node[p] = "acting", PipelineInv',
           UNCHANGED <<graphVars, pc, todo, reports, executed>>,
           NEW r \in Results, Answers(p, r),
           phase[p] \in {"check", "limit", "sandbox"},
           r.status = "completed" => phase[p] = "sandbox"
    PROVE  VerdictsInv'
  <1>1. /\ UNCHANGED <<executed, files, log>> /\ phase'[p] = "put" /\ result'[p] = r
        /\ Proceeding(p)
    BY DEF Answers, Proceeding, VerdictsInv, PipelineInv, ExecutorTypeOK
  <1>2. ~Coming(p)' /\ (Coming(p) \/ phase[p] = "sandbox")
    BY <1>1, PlaceFacts DEF Coming
  <1>3. Ran(p) => Ran(p)'
    BY <1>1, PlaceFacts DEF Ran
  <1>4. Current(p)'
    BY <1>1, <1>3, PlaceFacts DEF Current
  <1> QED
    BY <1>1, <1>2, <1>4, QuietActing

LEMMA ExecuteHistory ==
    ASSUME VerdictsInv, NEW p \in Pipelines, Execute(p)
    PROVE  VerdictsInv'
  <1> USE DEF VerdictsInv, PipelineInv, InPhase, Stays
  <1>1. /\ node[p] = "acting" /\ Acting(p) /\ PipelineInv'
        /\ UNCHANGED <<graphVars, pc, todo, reports>>
        /\ UNCHANGED <<node, finding, steps, evidence, status, permitted>>
    BY ExecuteKeeps DEF Execute, Act, At, pipelineVars, graphVars
  <1>2. /\ phase \in [Pipelines -> Phases] /\ result \in [Pipelines -> Results]
        /\ ref \in [Pipelines -> {0, 1, 2}]
        /\ files \subseteq Records
    BY DEF ExecutorTypeOK
  <1>3. /\ Denied \in Results /\ Failed(TRUE) \in Results /\ Failed(FALSE) \in Results
        /\ \A v \in Verdict : Completed(v) \in Results
        /\ Denied.status = "denied" /\ \A b \in BOOLEAN : Failed(b).status = "failed"
    BY DEF Denied, Failed, Completed, Results, Verdict
  <1>4. CASE DenyTool(p, tool[p], InLab(p))
    <2>1. Answers(p, Denied) /\ UNCHANGED executed /\ phase[p] = "check"
      BY <1>4 DEF DenyTool
    <2> QED
      BY <1>1, <1>3, <2>1, AnsweredHistory
  <1>5. CASE AskLimiter(p, tool[p], InLab(p), Run(p))
    <2>1. CASE Answers(p, Denied) /\ UNCHANGED executed
      BY <1>1, <1>3, <1>5, <2>1, AnsweredHistory DEF AskLimiter
    <2>2. CASE /\ phase' = [phase EXCEPT ![p] = "limit"] /\ phase[p] = "check"
               /\ UNCHANGED <<result, ref, files, log, executed>>
      <3>1. Proceeding(p) /\ phase'[p] = "limit"
        BY <1>1, <1>2, <2>2 DEF Proceeding
      <3>2. Coming(p) /\ Current(p)'
        BY <1>1, <2>2, <3>1, PlaceFacts DEF Coming, Current
      <3> QED
        BY <1>1, <2>2, <3>1, <3>2, QuietActing
    <2> QED
      BY <1>5, <2>1, <2>2 DEF AskLimiter
  <1>6. CASE StartSandbox(p, Run(p))
    <2>1. /\ phase[p] = "limit" /\ phase' = [phase EXCEPT ![p] = "sandbox"]
          /\ UNCHANGED <<result, ref, files, log>>
          /\ executed' = executed \cup {[run |-> Run(p), dir |-> box[p].output, id |-> ActionId(Run(p))]}
      BY <1>6 DEF StartSandbox
    <2>2. Proceeding(p) /\ phase'[p] = "sandbox"
      BY <1>1, <1>2, <2>1 DEF Proceeding
    <2>3. Grows(p)
      BY <1>1, <2>1, <2>2, PlaceFacts DEF Grows
    <2>4. Run(p) \in permitted
      BY <1>1, <2>2, PlaceFacts DEF Current
    <2>5. Accounts'
      BY <1>1, <2>1, <2>2, <2>4, PlaceFacts DEF Accounts
    <2>6. Coming(p) /\ ~Coming(p)'
      BY <1>1, <2>1, <2>2 DEF Coming
    <2>7. Traces(p)'
      BY <1>1, <2>1, <2>2, <2>6, PlaceFacts DEF Traces
    <2>8. Ran(p)'
      <3>1. [run |-> Run(p), dir |-> box[p].output, id |-> ActionId(Run(p))] \in executed'
        BY <2>1
      <3>2. [run |-> Run(p), dir |-> box[p].output, id |-> ActionId(Run(p))].run = Run(p)'
        BY <1>1, <2>2, PlaceFacts
      <3> QED
        BY <3>1, <3>2 DEF Ran
    <2>9. Current(p)'
      BY <1>1, <2>2, <2>4, <2>8, PlaceFacts DEF Current
    <2> QED
      BY <1>1, <2>2, <2>3, <2>5, <2>7, <2>9, ActingHistory
  <1>7. CASE LimiterRefuses(p) \/ ReleaseLast(p)
    BY <1>1, <1>7, NothingNew DEF LimiterRefuses, ReleaseLast
  <1>8. CASE DenyRun(p)
    BY <1>1, <1>3, <1>8, AnsweredHistory DEF DenyRun
  <1>9. CASE SandboxReturns(p, tool[p])
    <2>1. \E r \in Results : Answers(p, r)
      BY <1>3, <1>9 DEF SandboxReturns, Verdict
    <2>2. UNCHANGED executed /\ phase[p] = "sandbox"
      BY <1>9 DEF SandboxReturns
    <2> QED
      BY <1>1, <2>1, <2>2, AnsweredHistory
  <1>10. CASE SandboxRaises(p)
    BY <1>1, <1>3, <1>10, AnsweredHistory DEF SandboxRaises
  <1>11. CASE StoreResult(p, Run(p), Mounted(p))
    <2> DEFINE new == Record(p, Run(p), Mounted(p), 1)
    <2>1. /\ phase[p] = "put" /\ phase' = [phase EXCEPT ![p] = "append"]
          /\ files' = files \cup {new} /\ ref' = [ref EXCEPT ![p] = 1]
          /\ UNCHANGED <<result, log, executed>>
      BY <1>11 DEF StoreResult
    <2>2. /\ new.run = Run(p) /\ new.copy = 1 /\ new.status = result[p].status
          /\ new.says = result[p].says
      BY DEF Record
    <2> HIDE DEF new
    <2>3. Proceeding(p) /\ phase'[p] = "append" /\ ref'[p] = 1 /\ result'[p] = result[p]
      BY <1>1, <1>2, <2>1 DEF Proceeding
    <2>4. Grows(p)
      BY <1>1, <2>1, <2>2, <2>3, PlaceFacts DEF Grows
    <2>5. \A x \in files : x.run # Run(p)
      BY <1>1, <2>1, <2>3, PlaceFacts DEF Traces
    <2>6. Accounts'
      BY <1>1, <2>1, <2>2, <2>3, <2>5, PlaceFacts DEF Accounts, Current, Ran
    <2>7. ~Coming(p)'
      BY <1>1, <2>3 DEF Coming
    <2>8. Traces(p)'
      BY <1>1, <2>1, <2>2, <2>3, <2>5, <2>7, PlaceFacts DEF Traces
    <2>9. Current(p)'
      BY <1>1, <2>1, <2>2, <2>3, <2>5, PlaceFacts DEF Current
    <2> QED
      BY <1>1, <2>3, <2>4, <2>6, <2>8, <2>9, ActingHistory
  <1>12. CASE AppendAudit(p, Run(p))
    <2>1. /\ phase[p] = "append" /\ phase' = [phase EXCEPT ![p] = "done"]
          /\ log' = log \cup {[dir |-> box[p].output, run |-> Run(p)]}
          /\ UNCHANGED <<result, ref, files, executed>>
      BY <1>12 DEF AppendAudit
    <2>2. Proceeding(p) /\ phase'[p] = "done"
      BY <1>1, <1>2, <2>1 DEF Proceeding
    <2>3. Grows(p)
      BY <1>1, <2>1, <2>2, PlaceFacts DEF Grows
    <2>4. Accounts'
      BY <1>1, <2>1, <2>2, PlaceFacts DEF Accounts
    <2>5. ~Coming(p)'
      BY <1>1, <2>2 DEF Coming
    <2>6. Traces(p)'
      BY <1>1, <2>1, <2>2, <2>5, PlaceFacts DEF Traces
    <2>7. Logged(p)'
      <3>1. [dir |-> box[p].output, run |-> Run(p)] \in log'
        BY <2>1
      <3>2. [dir |-> box[p].output, run |-> Run(p)].run = Run(p)'
        BY <1>1, <2>2, PlaceFacts
      <3> QED
        BY <3>1, <3>2 DEF Logged
    <2>8. Current(p)'
      BY <1>1, <2>1, <2>2, <2>7, PlaceFacts DEF Current
    <2> QED
      BY <1>1, <2>2, <2>3, <2>4, <2>6, <2>8, ActingHistory
  <1>13. CASE StoreFailure(p, Run(p), Mounted(p))
    <2> DEFINE new == Record(p, Run(p), Mounted(p), 2)
    <2>1. /\ phase[p] = "put_again" /\ phase' = [phase EXCEPT ![p] = "done"]
          /\ files' = files \cup {new} /\ ref' = [ref EXCEPT ![p] = 2]
          /\ UNCHANGED <<result, log, executed>>
      BY <1>13 DEF StoreFailure
    <2>2. /\ new.run = Run(p) /\ new.copy = 2 /\ new.status = result[p].status
          /\ new.says = result[p].says
      BY DEF Record
    <2> HIDE DEF new
    <2>3. Proceeding(p) /\ phase'[p] = "done" /\ ref'[p] = 2 /\ result'[p] = result[p]
      BY <1>1, <1>2, <2>1 DEF Proceeding
    <2>4. Grows(p)
      BY <1>1, <2>1, <2>2, <2>3, PlaceFacts DEF Grows
    <2>5. /\ \A x \in files : ~(x.run = Run(p) /\ x.copy = 2)
          /\ result[p].status # "completed"
      BY <1>1, <2>1, <2>3, PlaceFacts DEF Traces, Current
    <2>6. Accounts'
      BY <1>1, <2>1, <2>2, <2>3, <2>5, PlaceFacts DEF Accounts
    <2>7. ~Coming(p)'
      BY <1>1, <2>3 DEF Coming
    <2>8. Traces(p)'
      BY <1>1, <2>1, <2>2, <2>3, <2>7, PlaceFacts DEF Traces
    <2>9. Current(p)'
      BY <1>1, <2>1, <2>2, <2>3, <2>5, PlaceFacts DEF Current
    <2> QED
      BY <1>1, <2>3, <2>4, <2>6, <2>8, <2>9, ActingHistory
  <1> QED
    BY <1>1, <1>4, <1>5, <1>6, <1>7, <1>8, <1>9, <1>10, <1>11, <1>12, <1>13 DEF Acting

LEMMA FaultHistory ==
    ASSUME VerdictsInv, NEW p \in Pipelines, Fault(p)
    PROVE  VerdictsInv'
  <1> USE DEF VerdictsInv, PipelineInv, InPhase, Stays
  <1>0. CASE RefuseAction(p, tool[p], InLab(p))
    <2>1. /\ node[p] = "acting" /\ PipelineInv'
          /\ UNCHANGED <<graphVars, pc, todo, reports, executed>> /\ phase[p] = "check"
      BY <1>0, FaultKeeps DEF Fault, At, RefuseAction
    <2>2. /\ Denied \in Results /\ Denied.status # "completed"
          /\ Failed(FALSE) \in Results /\ Failed(FALSE).status # "completed"
      BY DEF Denied, Failed, Results, Verdict
    <2>3. PICK r \in Results : Answers(p, r) /\ r.status # "completed"
      BY <1>0, <2>2 DEF RefuseAction
    <2> QED
      BY <2>1, <2>3, AnsweredHistory
  <1> SUFFICES ASSUME StoreFails(p) \/ AuditFails(p) \/ StoreFailureFails(p) PROVE VerdictsInv'
    BY <1>0 DEF Fault
  <1>1. /\ node[p] = "acting" /\ PipelineInv' /\ UNCHANGED <<graphVars, pc, todo, reports>>
        /\ UNCHANGED <<executed, files, log>>
    BY FaultKeeps DEF Fault, At, StoreFails, AuditFails, StoreFailureFails, ioVars
  <1>2. /\ phase \in [Pipelines -> Phases] /\ result \in [Pipelines -> Results]
        /\ ref \in [Pipelines -> {0, 1, 2}]
        /\ \A x \in files : x.copy # 0
    BY DEF ExecutorTypeOK, Records
  <1>3. /\ Proceeding(p)
        /\ \/ /\ phase[p] = "put" /\ phase'[p] = "append" /\ ref'[p] = 0
              /\ \E b \in BOOLEAN : result'[p] = Failed(b)
           \/ /\ phase[p] = "append" /\ phase'[p] = "put_again"
              /\ \E b \in BOOLEAN : result'[p] = Failed(b)
           \/ /\ phase[p] = "put_again" /\ phase'[p] = "done" /\ ref'[p] = 0
              /\ result'[p] = result[p]
    BY <1>1, <1>2 DEF StoreFails, AuditFails, StoreFailureFails, Proceeding
  <1>4. Current(p)'
    <2>1. \A b \in BOOLEAN : Failed(b).status = "failed"
      BY DEF Failed
    <2>2. phase[p] \in {"put", "append"} => result'[p].status = "failed"
      BY <1>3, <2>1
    <2> QED
      BY <1>1, <1>2, <1>3, <2>2, PlaceFacts DEF Current
  <1>5. ~Coming(p)'
    BY <1>1, <1>3, PlaceFacts DEF Coming
  <1> QED
    BY <1>1, <1>3, <1>4, <1>5, QuietActing

---------------------------------------------------------------------------
\* Leaving the graph

LEMMA LeavingHistory ==
    ASSUME VerdictsInv, NEW p \in Pipelines, PipelineInv', LeaveGraph(p), Forget(p),
           UNCHANGED todo,
           \A q \in Pipelines : q # p => pc'[q] = pc[q] /\ reports'[q] = reports[q],
           pc[p] \notin Early => pc'[p] \notin Early,
           pc'[p] \notin Early \/ reports'[p] = reports[p],
           \A f \in Findings : f \in todo[p] => reports'[p][f] = reports[p][f]
    PROVE  VerdictsInv'
  <1> USE DEF VerdictsInv, PipelineInv
  <1>1. /\ UNCHANGED <<permitted, executed, files, log>>
        /\ node' = [node EXCEPT ![p] = "none"] /\ finding' = [finding EXCEPT ![p] = NoFinding]
        /\ steps' = [steps EXCEPT ![p] = 0] /\ phase' = [phase EXCEPT ![p] = "idle"]
        /\ result' = [result EXCEPT ![p] = NoResult] /\ ref' = [ref EXCEPT ![p] = 0]
        /\ evidence' = [evidence EXCEPT ![p] = "nothing"] /\ status' = [status EXCEPT ![p] = "none"]
    BY DEF LeaveGraph, Decides, Forget
  <1>2. Accounts' /\ Grows(p)
    BY <1>1, QuietAccounts
  <1>3. \A q \in Pipelines : q # p => SameHistory(q)
    BY <1>1 DEF SameHistory, GraphTypeOK, ExecutorTypeOK
  <1>4. /\ node'[p] = "none" /\ finding'[p] = NoFinding /\ phase'[p] = "idle"
    BY <1>1 DEF GraphTypeOK, ExecutorTypeOK
  <1>5. /\ \A x \in executed : x.run \in Runs
        /\ \A x \in files : x.run \in Runs
        /\ \A x \in log : x.run \in Runs
    BY DEF ExecutorTypeOK, Records
  <1>6. Traces(p) /\ Unreported(p) /\ todo[p] \subseteq Findings
    BY DEF History, PipelineTypeOK
  <1>7. \A r \in Runs : (Past(p, r) => Past(p, r)') /\ r # Run(p)'
    BY <1>4, InvestigationAssumption DEF Runs, Past, Run
  <1>8. Traces(p)'
    BY <1>1, <1>5, <1>6, <1>7 DEF Traces
  <1>9. Unreported(p)'
    BY <1>4, <1>6, InvestigationAssumption DEF Unreported
  <1>10. Current(p)'
    BY <1>4 DEF Current
  <1> QED
    BY <1>2, <1>3, <1>8, <1>9, <1>10, HistoryKeeps DEF History

LEMMA ReportFindingHistory ==
    ASSUME VerdictsInv, NEW p \in Pipelines, ReportFinding(p)
    PROVE  VerdictsInv'
  <1> USE DEF VerdictsInv, PipelineInv
  <1>1. /\ PipelineInv' /\ LeaveGraph(p) /\ Forget(p) /\ UNCHANGED <<pc, todo>>
        /\ reports' = [reports EXCEPT ![p][finding[p]] = status[p]] /\ node[p] = "report"
    BY ReportFindingKeeps DEF ReportFinding, At
  <1>2. /\ pc[p] = "loop" /\ finding[p] \in Findings /\ finding[p] \notin todo[p]
        /\ reports \in [Pipelines -> [Findings -> ReportStates]]
    BY <1>1 DEF History, Unreported, Local, Control, PipelineTypeOK
  <1>3. /\ \A q \in Pipelines : q # p => reports'[q] = reports[q]
        /\ \A f \in Findings : f \in todo[p] => reports'[p][f] = reports[p][f]
    BY <1>1, <1>2
  <1> QED
    BY <1>1, <1>2, <1>3, LeavingHistory DEF Early

LEMMA FindingFailsHistory ==
    ASSUME VerdictsInv, NEW p \in Pipelines, FindingFails(p)
    PROVE  VerdictsInv'
  BY FindingFailsKeeps, LeavingHistory DEF VerdictsInv, FindingFails

LEMMA UnwindHistory ==
    ASSUME VerdictsInv, NEW p \in Pipelines, RunCancelled(p) \/ RunCancelledInSandbox(p)
    PROVE  VerdictsInv'
  <1>1. PipelineInv' /\ Unwind(p) /\ Forget(p)
    BY UnwindKeeps DEF VerdictsInv, RunCancelled, RunCancelledInSandbox, SandboxCancelled
  <1>2. pc' = [pc EXCEPT ![p] = "restore"] /\ UNCHANGED <<todo, reports>> /\ LeaveGraph(p)
    BY <1>1 DEF Unwind, Moves
  <1>3. pc \in [Pipelines -> Stages]
    BY DEF VerdictsInv, PipelineInv, PipelineTypeOK
  <1> QED
    BY <1>1, <1>2, <1>3, LeavingHistory DEF Early

---------------------------------------------------------------------------
\* The invariant

LEMMA VerdictsStart == Init => VerdictsInv
  <1> SUFFICES ASSUME Init PROVE VerdictsInv
    OBVIOUS
  <1>1. PipelineInv
    BY PipelineStart
  <1>2. Accounts
    BY DEF Init, ExecutorInit, Accounts
  <1>3. ASSUME NEW p \in Pipelines PROVE History(p)
    BY DEF Init, ExecutorInit, GraphInit, History, Traces, Unreported, Current
  <1> QED
    BY <1>1, <1>2, <1>3 DEF VerdictsInv

LEMMA VerdictsStep == VerdictsInv /\ [Next]_vars => VerdictsInv'
  <1> SUFFICES ASSUME VerdictsInv, [Next]_vars PROVE VerdictsInv'
    OBVIOUS
  <1>1. ASSUME NEW p \in Pipelines, Start(p) \/ Work(p) PROVE VerdictsInv'
    <2>1. CASE \/ Start(p) \/ Discover(p) \/ OpenSandbox(p) \/ FindFindings(p, FALSE)
               \/ \E f \in Findings : ReportStatic(p, f)
               \/ EvaluateGate(p) \/ CloseSandbox(p) \/ End(p)
      BY <2>1, StageHistory DEF StageStep
    <2> QED
      BY <1>1, <2>1, BeginFindingHistory, ThinkHistory, ExecuteHistory, ReportFindingHistory,
         UnwindHistory
         DEF Work
  <1>2. ASSUME NEW p \in Pipelines, Trouble(p) PROVE VerdictsInv'
    <2>1. CASE \/ FindFindings(p, TRUE) \/ TechnicalFailure(p) \/ Cancel(p)
               \/ \E f \in Findings : StaticFails(p, f)
      BY <2>1, StageHistory DEF StageStep
    <2>2. CASE Tick(p)
      <3>1. PipelineInv'
        BY <2>2, TickKeeps DEF VerdictsInv
      <3> QED
        BY <2>2, <3>1, NothingNew DEF Tick, ClockRunsOut, pipelineVars
    <2> QED
      BY <1>2, <2>1, <2>2, FaultHistory, FindingFailsHistory, UnwindHistory DEF Trouble
  <1>3. CASE UNCHANGED vars
    <2>1. PipelineInv'
      BY PipelineStep DEF VerdictsInv
    <2>2. UNCHANGED <<node, finding, steps, evidence, status, permitted, executorVars, pc, todo, reports>>
      BY <1>3 DEF vars, graphVars, pipelineVars
    <2> QED
      BY <2>1, <2>2, NothingNew
  <1>4. Troubled \subseteq Pipelines
    BY CiPipelineAssumption
  <1> QED
    BY <1>1, <1>2, <1>3, <1>4 DEF Next, AllOver

LEMMA VerdictsInductive == Spec => []VerdictsInv
  BY VerdictsStart, VerdictsStep, PTL DEF Spec

---------------------------------------------------------------------------
\* Theorems

\* Whatever write of _finish fails, the result that the agent is given and
\* the record that its evidence_ref names agree, and a success is audited.
THEOREM ResultsOnDisk == Spec => []ResultMatchesRecord
  <1>1. VerdictsInv => ResultMatchesRecord
    BY DEF VerdictsInv, History, Current, Logged, ResultMatchesRecord, InPhase
  <1> QED
    BY <1>1, VerdictsInductive, PTL

---------------------------------------------------------------------------
\* The refinement of Verdicts

\* What Verdicts sees of a state.
PermittedActions == {CaseAction(run) : run \in permitted}

ExecutedActions == {CaseAction(x.run) : x \in executed}

Proofs == {y \in files : y.status = "completed" /\ \E z \in log : z.run = y.run}

ProvenActions == {<<CaseAction(x.run), x.says>> : x \in Proofs}

CaseVerdicts == [c \in Pipelines \X Findings |-> reports[c[1]][c[2]]]

Seeing == <<PermittedActions, ExecutedActions, ProvenActions, CaseVerdicts>>

PromiseStep == [Promise!VerdictsNext]_Seeing

LEMMA PromiseStutters ==
    ASSUME UNCHANGED <<permitted, executed, files, log, reports>>
    PROVE  PromiseStep
  BY DEF PromiseStep, Seeing, PermittedActions, ExecutedActions, Proofs, ProvenActions, CaseVerdicts,
         CaseAction

\* Two runs with one case action are one run.
LEMMA CaseActionsDiffer ==
    ASSUME NEW q \in Runs, NEW r \in Runs, CaseAction(q) = CaseAction(r)
    PROVE  q = r
  BY DEF CaseAction, Runs

LEMMA RunFacts ==
    ASSUME VerdictsInv, NEW p \in Pipelines,
           \/ node[p] \in {"validate", "execute", "acting", "reevaluate"}
           \/ node[p] = "report" /\ status[p] \in {"confirmed", "rejected"}
    PROVE  /\ Run(p) \in Runs /\ finding[p] \in Findings /\ steps[p] \in 1 .. MaxSteps
           /\ CaseAction(Run(p)) = <<<<p, finding[p]>>, steps[p]>>
           /\ CaseAction(Run(p)) \in Promise!Actions
  <1>1. Control(p) /\ Budget(p) /\ Current(p) /\ MaxSteps \in Nat
    BY InvestigationAssumption DEF VerdictsInv, History, PipelineInv, Local
  <1>2. finding[p] \in Findings /\ steps[p] \in 1 .. MaxSteps
    BY <1>1 DEF Control, Budget, Current
  <1> QED
    BY <1>1, <1>2 DEF Run, Runs, CaseAction, Promise!Actions

LEMMA PromiseThink ==
    ASSUME VerdictsInv, NEW p \in Pipelines, Think(p)
    PROVE  PromiseStep
  <1>1. UNCHANGED <<executed, files, log, reports>> /\ NodeStep(p)
    BY DEF Think, NodeStep, GuardBudget, Propose, Validate, BeginAction, Collect, Reevaluate,
           executorVars, pipelineVars
  <1>2. CASE UNCHANGED permitted
    BY <1>1, <1>2, PromiseStutters
  <1>3. CASE node[p] = "validate" /\ permitted' = permitted \cup {Run(p)}
    <2> DEFINE act == CaseAction(Run(p))
    <2>1. PermittedActions' = PermittedActions \cup {act}
      BY <1>3 DEF PermittedActions, CaseAction
    <2>2. UNCHANGED <<ExecutedActions, ProvenActions, CaseVerdicts>>
      BY <1>1 DEF ExecutedActions, Proofs, ProvenActions, CaseVerdicts, CaseAction
    <2>3. act \in Promise!Actions
      BY <1>3, RunFacts
    <2>4. Promise!Permit(act)
      BY <2>1, <2>2 DEF Promise!Permit, PermittedActions, ExecutedActions, Proofs, ProvenActions, CaseVerdicts
    <2> QED
      BY <2>3, <2>4 DEF PromiseStep, Promise!VerdictsNext
  <1> QED
    BY <1>1, <1>2, <1>3 DEF NodeStep, GuardBudget, Propose, Validate, BeginAction, Collect,
           Reevaluate, At

LEMMA PromiseProves ==
    ASSUME NEW a \in Promise!Actions, NEW v \in Promise!Outcomes, a \in ExecutedActions,
           ProvenActions' = ProvenActions \cup {<<a, v>>},
           UNCHANGED <<PermittedActions, ExecutedActions, CaseVerdicts>>
    PROVE  PromiseStep
  <1>1. Promise!Prove(a, v)
    BY DEF Promise!Prove, PermittedActions, ExecutedActions, Proofs, ProvenActions, CaseVerdicts
  <1> QED
    BY <1>1 DEF PromiseStep, Promise!VerdictsNext

LEMMA PromiseExecute ==
    ASSUME VerdictsInv, NEW p \in Pipelines, Execute(p)
    PROVE  PromiseStep
  <1> USE DEF InPhase, Stays
  <1> DEFINE act == CaseAction(Run(p))
  <1>1. /\ node[p] = "acting" /\ Acting(p) /\ UNCHANGED <<permitted, reports>>
        /\ Traces(p) /\ Current(p) /\ Accounts
    BY DEF Execute, Act, At, graphVars, pipelineVars, VerdictsInv, History
  <1>2. Run(p) \in Runs /\ act \in Promise!Actions
    BY <1>1, RunFacts
  <1>3. /\ \A x \in executed : x.run \in Runs
        /\ \A x \in files : x.run \in Runs /\ x.says \in Verdict
    BY DEF VerdictsInv, PipelineInv, ExecutorTypeOK, Records
  <1>4. UNCHANGED <<PermittedActions, CaseVerdicts>>
    BY <1>1 DEF PermittedActions, CaseVerdicts, CaseAction
  <1>5. CASE UNCHANGED <<executed, files, log>>
    BY <1>1, <1>5, PromiseStutters
  <1>6. CASE StartSandbox(p, Run(p))
    <2>1. /\ phase[p] = "limit" /\ UNCHANGED <<files, log>>
          /\ executed' = executed \cup {[run |-> Run(p), dir |-> box[p].output, id |-> ActionId(Run(p))]}
      BY <1>6 DEF StartSandbox
    <2>2. ExecutedActions' = ExecutedActions \cup {act}
      <3> DEFINE new == [run |-> Run(p), dir |-> box[p].output, id |-> ActionId(Run(p))]
      <3>1. executed' = executed \cup {new} /\ CaseAction(new.run) = act
        BY <2>1
      <3> HIDE DEF new
      <3> QED
        BY <3>1 DEF ExecutedActions, CaseAction
    <2>3. UNCHANGED ProvenActions
      BY <2>1 DEF Proofs, ProvenActions, CaseAction
    <2>4. act \in PermittedActions
      BY <1>1 DEF Current, PermittedActions
    <2>5. act \notin ExecutedActions
      <3>1. \A x \in executed : x.run # Run(p)
        BY <1>1, <2>1 DEF Traces, Coming, Run
      <3> QED
        BY <1>2, <1>3, <3>1, CaseActionsDiffer DEF ExecutedActions
    <2>6. Promise!Execute(act)
      BY <1>4, <2>2, <2>3, <2>4, <2>5
         DEF Promise!Execute, PermittedActions, ExecutedActions, Proofs, ProvenActions, CaseVerdicts
    <2> QED
      BY <1>2, <2>6 DEF PromiseStep, Promise!VerdictsNext
  <1>7. CASE StoreResult(p, Run(p), Mounted(p)) \/ StoreFailure(p, Run(p), Mounted(p))
    <2>1. PICK copy \in {1, 2} :
              /\ files' = files \cup {Record(p, Run(p), Mounted(p), copy)}
              /\ UNCHANGED <<log, executed>>
              /\ phase[p] = "put" \/ phase[p] = "put_again"
      BY <1>7 DEF StoreResult, StoreFailure
    <2>2. \A z \in log : z.run # Run(p)
      BY <1>1, <2>1 DEF Traces, Run
    <2>3. Proofs' = Proofs
      BY <2>1, <2>2 DEF Proofs, Record
    <2>4. UNCHANGED <<ExecutedActions, ProvenActions>>
      BY <2>1, <2>3 DEF ExecutedActions, ProvenActions, CaseAction
    <2> QED
      BY <1>4, <2>4 DEF PromiseStep, Seeing
  <1>8. CASE AppendAudit(p, Run(p))
    <2> DEFINE New == {y \in files : y.status = "completed" /\ y.run = Run(p)}
    <2>1. UNCHANGED <<files, executed>> /\ log' = log \cup {[dir |-> box[p].output, run |-> Run(p)]}
      BY <1>8 DEF AppendAudit
    <2>2. Proofs' = Proofs \cup New
      <3>1. [dir |-> box[p].output, run |-> Run(p)].run = Run(p)
        OBVIOUS
      <3>2. \A r : (\E z \in log' : z.run = r) <=> (\E z \in log : z.run = r) \/ r = Run(p)
        BY <2>1, <3>1
      <3> QED
        BY <2>1, <3>2 DEF Proofs
    <2>3. UNCHANGED ExecutedActions
      BY <2>1 DEF ExecutedActions, CaseAction
    <2>4. CASE New = {}
      <3>1. UNCHANGED ProvenActions
        BY <2>2, <2>4 DEF ProvenActions, CaseAction
      <3> QED
        BY <1>4, <2>3, <3>1 DEF PromiseStep, Seeing
    <2>5. ASSUME NEW x \in New PROVE PromiseStep
      <3>1. New = {x}
        BY <1>1 DEF Accounts
      <3>2. ProvenActions' = ProvenActions \cup {<<act, x.says>>}
        BY <2>2, <3>1 DEF ProvenActions, CaseAction
      <3>3. act \in ExecutedActions
        BY <1>1 DEF Accounts, ExecutedActions
      <3>4. x.says \in Promise!Outcomes
        BY <1>3 DEF Promise!Outcomes, Promise!Terminal, Verdict
      <3> QED
        BY <1>2, <1>4, <2>3, <3>2, <3>3, <3>4, PromiseProves
    <2> QED
      BY <2>4, <2>5
  <1> QED
    BY <1>1, <1>5, <1>6, <1>7, <1>8
       DEF Acting, DenyTool, AskLimiter, LimiterRefuses, DenyRun, SandboxReturns, SandboxRaises,
           ReleaseLast, Answers, executorVars

LEMMA PromiseDecides ==
    ASSUME VerdictsInv, NEW p \in Pipelines, NEW f \in Findings, NEW v \in Promise!Reports,
           UNCHANGED <<permitted, executed, files, log>>,
           reports' = [reports EXCEPT ![p][f] = v], reports[p][f] = "none",
           v \in {"confirmed", "rejected"} =>
               \E n \in 1 .. MaxSteps : <<<<<<p, f>>, n>>, v>> \in ProvenActions
    PROVE  PromiseStep
  <1> DEFINE c == <<p, f>>
  <1>1. UNCHANGED <<PermittedActions, ExecutedActions, ProvenActions>>
    BY DEF PermittedActions, ExecutedActions, Proofs, ProvenActions, CaseAction
  <1>2. c \in Pipelines \X Findings /\ CaseVerdicts[c] = "none"
    BY DEF CaseVerdicts
  <1>3. CaseVerdicts' = [CaseVerdicts EXCEPT ![c] = v]
    <2>1. reports \in [Pipelines -> [Findings -> ReportStates]]
      BY DEF VerdictsInv, PipelineInv, PipelineTypeOK
    <2>2. ASSUME NEW d \in Pipelines \X Findings
          PROVE  reports'[d[1]][d[2]] = IF d = c THEN v ELSE reports[d[1]][d[2]]
      <3>1. d[1] \in Pipelines /\ d[2] \in Findings /\ (d = c <=> d[1] = p /\ d[2] = f)
        OBVIOUS
      <3> QED
        BY <2>1, <3>1
    <2> QED
      BY <2>2 DEF CaseVerdicts
  <1>4. Promise!Decide(c, v)
    BY <1>1, <1>2, <1>3
       DEF Promise!Decide, Promise!Terminal, PermittedActions, ExecutedActions, Proofs, ProvenActions,
           CaseVerdicts
  <1> QED
    BY <1>2, <1>4 DEF PromiseStep, Promise!VerdictsNext

LEMMA PromiseReports ==
    ASSUME VerdictsInv, NEW p \in Pipelines, ReportFinding(p)
    PROVE  PromiseStep
  <1>1. /\ node[p] = "report" /\ UNCHANGED <<permitted, executed, files, log>>
        /\ reports' = [reports EXCEPT ![p][finding[p]] = status[p]]
    BY DEF ReportFinding, At, LeaveGraph, Forget
  <1>2. Control(p) /\ Reason(p) /\ Unreported(p) /\ Current(p) /\ status[p] \in Statuses
    BY DEF VerdictsInv, History, PipelineInv, Local, GraphTypeOK
  <1>3. finding[p] \in Findings /\ reports[p][finding[p]] = "none"
    BY <1>1, <1>2 DEF Control, Unreported
  <1>4. status[p] \in Promise!Reports
    BY <1>1, <1>2 DEF Reason, Statuses, Promise!Reports, Promise!Terminal
  <1>5. ASSUME status[p] \in {"confirmed", "rejected"}
        PROVE  <<<<<<p, finding[p]>>, steps[p]>>, status[p]>> \in ProvenActions /\ steps[p] \in 1 .. MaxSteps
    <2>1. Shown(p, status[p])
      BY <1>1, <1>2, <1>5 DEF Current
    <2>2. PICK x \in files : x.run = Run(p) /\ x.status = "completed" /\ x.says = status[p]
      BY <2>1 DEF Shown
    <2>3. x \in Proofs
      BY <2>1, <2>2 DEF Proofs, Shown, Logged
    <2> QED
      BY <1>1, <1>5, <2>2, <2>3, RunFacts DEF ProvenActions
  <1> QED
    BY <1>1, <1>3, <1>4, <1>5, PromiseDecides

LEMMA PromiseStages ==
    ASSUME VerdictsInv, NEW p \in Pipelines, StageStep(p)
    PROVE  PromiseStep
  <1>1. UNCHANGED <<permitted, executed, files, log>>
    BY DEF StageStep, Start, Discover, OpenSandbox, FindFindings, ReportStatic, StaticFails, EvaluateGate,
           CloseSandbox, TechnicalFailure, End, Cancel, graphVars, executorVars
  <1>2. CASE UNCHANGED reports
    BY <1>1, <1>2, PromiseStutters
  <1>3. ASSUME NEW f \in Findings, ReportStatic(p, f) PROVE PromiseStep
    <2>1. reports' = [reports EXCEPT ![p][f] = "inconclusive"] /\ f \in todo[p]
      BY <1>3 DEF ReportStatic
    <2>2. reports[p][f] = "none" /\ "inconclusive" \in Promise!Reports
      BY <2>1 DEF VerdictsInv, History, Unreported, Promise!Reports
    <2> QED
      BY <1>1, <2>1, <2>2, PromiseDecides
  <1> QED
    BY <1>2, <1>3 DEF StageStep, Start, Discover, OpenSandbox, FindFindings, StaticFails, EvaluateGate,
           CloseSandbox, TechnicalFailure, End, Cancel

\* However many pipelines overlap, whatever fails, is denied or is cancelled:
\* nothing runs that was not permitted, nothing runs twice under one
\* permission, and a verdict rests on a stored and audited execution for the
\* same finding of the same pipeline.
THEOREM KeepsPromise == Spec => ImplementsVerdicts
  <1>1. Init => Promise!VerdictsInit
    BY DEF Init, ExecutorInit, GraphInit, Promise!VerdictsInit
  <1>2. ASSUME VerdictsInv, NEW p \in Pipelines, Start(p) \/ Work(p) PROVE PromiseStep
    <2>1. CASE \/ Start(p) \/ Discover(p) \/ OpenSandbox(p) \/ FindFindings(p, FALSE)
               \/ \E f \in Findings : ReportStatic(p, f)
               \/ EvaluateGate(p) \/ CloseSandbox(p) \/ End(p)
      BY <1>2, <2>1, PromiseStages DEF StageStep
    <2>2. CASE RunCancelled(p) \/ \E f \in Findings : BeginFinding(p, f)
      BY <2>2, PromiseStutters DEF RunCancelled, Forget, Unwind, LeaveGraph, BeginFinding, Investigate
    <2> QED
      BY <1>2, <2>1, <2>2, PromiseThink, PromiseExecute, PromiseReports DEF Work
  <1>3. ASSUME VerdictsInv, NEW p \in Pipelines, Trouble(p) PROVE PromiseStep
    <2>1. CASE \/ FindFindings(p, TRUE) \/ TechnicalFailure(p) \/ Cancel(p)
               \/ \E f \in Findings : StaticFails(p, f)
      BY <1>3, <2>1, PromiseStages DEF StageStep
    <2>2. CASE RunCancelledInSandbox(p) \/ FindingFails(p)
      BY <2>2, PromiseStutters DEF RunCancelledInSandbox, SandboxCancelled, FindingFails, Forget, Unwind,
             LeaveGraph
    <2>3. CASE Fault(p)
      BY <2>3, PromiseStutters DEF Fault, RefuseAction, Answers, StoreFails, AuditFails, StoreFailureFails, Stays, ioVars, graphVars
    <2>4. CASE Tick(p)
      BY <2>4, PromiseStutters DEF Tick, ClockRunsOut, executorVars, pipelineVars
    <2> QED
      BY <1>3, <2>1, <2>2, <2>3, <2>4 DEF Trouble
  <1>4. ASSUME UNCHANGED vars PROVE PromiseStep
    BY <1>4, PromiseStutters DEF vars, graphVars, executorVars, pipelineVars
  <1>5. VerdictsInv /\ [Next]_vars => PromiseStep
    BY <1>2, <1>3, <1>4, CiPipelineAssumption DEF Next, AllOver
  <1>6. VerdictsInv /\ [Next]_vars =>
            [Promise!VerdictsNext]_<<{CaseAction(run) : run \in permitted},
                {CaseAction(x.run) : x \in executed},
                {<<CaseAction(x.run), x.says>> : x \in
                    {y \in files : y.status = "completed" /\ \E z \in log : z.run = y.run}},
                [c \in Pipelines \X Findings |-> reports[c[1]][c[2]]]>>
    BY <1>5 DEF PromiseStep, Seeing, PermittedActions, ExecutedActions, Proofs, ProvenActions, CaseVerdicts
  <1> QED
    BY <1>1, <1>6, VerdictsInductive, PTL DEF Spec, ImplementsVerdicts, Promise!VerdictsSpec

---------------------------------------------------------------------------
\* The repository of pipelines that do not overlap

\* The settings and the executor of p point at its own repository where p
\* reads them.
OwnPaths(p) ==
    /\ pc[p] \in {"open", "ready", "loop"} => settings.repo = p
    /\ lab[p] # "none" \/ node[p] = "acting" => box[p].repo = p

\* The report of f by p rests on a record about the repository of p.
Rests(p, f) ==
    reports[p][f] \in {"confirmed", "rejected"} =>
        \E x \in files : /\ x.run[1] = p /\ x.run[2] = f
                         /\ x.status = "completed" /\ x.says = reports[p][f]

OwnInv ==
    /\ \A p \in Pipelines : OwnPaths(p)
    /\ \A x \in files : x.repo = x.run[1]
    /\ \A p \in Pipelines, f \in Findings : Rests(p, f)

Aside(p, q) ==
    /\ pc[q] \notin {"open", "ready", "loop"} /\ pc'[q] = pc[q]
    /\ node'[q] = node[q] /\ lab'[q] = lab[q] /\ box'[q] = box[q]

\* What is left to show of a step of p.
LEMMA OwnKeeps ==
    ASSUME OwnInv, NEW p \in Pipelines, OwnPaths(p)',
           \A q \in Pipelines : q # p => Aside(p, q),
           files \subseteq files', \A x \in files' \ files : x.repo = x.run[1],
           \A q \in Pipelines, f \in Findings : reports'[q][f] = reports[q][f] \/ Rests(q, f)'
    PROVE  OwnInv'
  <1>1. \A q \in Pipelines : OwnPaths(q)'
    BY DEF OwnInv, OwnPaths, Aside
  <1>2. \A x \in files' : x.repo = x.run[1]
    BY DEF OwnInv
  <1>3. ASSUME NEW q \in Pipelines, NEW f \in Findings PROVE Rests(q, f)'
    BY DEF OwnInv, Rests
  <1> QED
    BY <1>1, <1>2, <1>3 DEF OwnInv

\* The other pipelines of a step of p are new or over.
LEMMA OthersAside ==
    ASSUME Concurrent = 1, PipelineInv, SettingsInv, NEW p \in Pipelines,
           Start(p) \/ pc[p] \notin {"new", "over"},
           pc' = [pc EXCEPT ![p] = pc'[p]],
           \A q \in Pipelines : q # p => node'[q] = node[q] /\ lab'[q] = lab[q] /\ box'[q] = box[q]
    PROVE  \A q \in Pipelines : q # p => Aside(p, q)
  <1>1. \A q \in Pipelines : q # p => q \notin Running
    BY NoneRuns DEF SettingsInv, Running
  <1> QED
    BY <1>1 DEF Aside, Running, PipelineInv, PipelineTypeOK

LEMMA OwnStages ==
    ASSUME Concurrent = 1, PipelineInv, SettingsInv, OwnInv, NEW p \in Pipelines, StageStep(p)
    PROVE  OwnInv'
  <1> USE DEF PipelineInv, PipelineTypeOK, SettingsTypeOK, Moves
  <1>1. UNCHANGED <<limiterVars, executorVars, graphVars>>
    BY DEF StageStep, Start, Discover, OpenSandbox, FindFindings, ReportStatic, StaticFails, EvaluateGate,
           CloseSandbox, TechnicalFailure, End, Cancel
  <1>2. /\ Start(p) \/ pc[p] \notin {"new", "over"}
        /\ pc' = [pc EXCEPT ![p] = pc'[p]]
        /\ pc'[p] \in {"open", "ready", "loop"} => settings'.repo = p
        /\ \A q \in Pipelines, f \in Findings :
               reports'[q][f] = reports[q][f] \/ reports'[q][f] = "inconclusive"
    <2>0. pc[p] \in {"open", "ready", "loop"} => settings.repo = p
      BY DEF OwnInv, OwnPaths
    <2>1. CASE Start(p) \/ Discover(p) \/ OpenSandbox(p)
      BY <2>1, SettingsAssumption DEF Start, Discover, OpenSandbox, TakePaths, TakeMode, Values
    <2>2. CASE \E broken \in BOOLEAN : FindFindings(p, broken)
      BY <2>0, <2>2 DEF FindFindings, settingsVars
    <2>3. CASE CloseSandbox(p) \/ End(p) \/ Cancel(p)
      BY <2>0, <2>3 DEF CloseSandbox, End, Cancel, Running, settingsVars
    <2>4. CASE EvaluateGate(p) \/ TechnicalFailure(p)
      BY <2>0, <2>4 DEF EvaluateGate, TechnicalFailure, Between, settingsVars
    <2>5. CASE \E f \in Findings : ReportStatic(p, f) \/ StaticFails(p, f)
      BY <2>0, <2>5 DEF ReportStatic, StaticFails, Between, settingsVars
    <2> QED
      BY <2>1, <2>2, <2>3, <2>4, <2>5 DEF StageStep
  <1>3. \A q \in Pipelines : q # p => Aside(p, q)
    BY <1>1, <1>2, OthersAside DEF executorVars, graphVars
  <1>4. OwnPaths(p)'
    BY <1>1, <1>2 DEF OwnInv, OwnPaths, executorVars, graphVars
  <1> QED
    BY <1>1, <1>2, <1>3, <1>4, OwnKeeps DEF Rests, executorVars

\* A step inside or out of the graph, which leaves the settings alone.
LEMMA OwnInside ==
    ASSUME Concurrent = 1, PipelineInv, SettingsInv, OwnInv, NEW p \in Pipelines,
           pc[p] \notin {"new", "over"}, UNCHANGED settings,
           pc' = [pc EXCEPT ![p] = pc'[p]], pc'[p] \in {pc[p], "restore"},
           \A q \in Pipelines : q # p => node'[q] = node[q] /\ lab'[q] = lab[q] /\ box'[q] = box[q],
           lab'[p] # "none" \/ node'[p] = "acting" => box'[p].repo = p,
           files \subseteq files', \A x \in files' \ files : x.repo = x.run[1],
           \A q \in Pipelines, f \in Findings : reports'[q][f] = reports[q][f] \/ Rests(q, f)'
    PROVE  OwnInv'
  <1>1. OwnPaths(p)'
    BY DEF OwnInv, OwnPaths
  <1> QED
    BY <1>1, OthersAside, OwnKeeps

LEMMA OwnBegins ==
    ASSUME Concurrent = 1, PipelineInv, SettingsInv, OwnInv, NEW p \in Pipelines,
           (\E f \in Findings : BeginFinding(p, f)) \/ Think(p) \/ Tick(p)
    PROVE  OwnInv'
  <1> USE DEF PipelineInv, GraphTypeOK, ExecutorTypeOK, PipelineTypeOK, At, Goto
  <1>1. /\ UNCHANGED <<settings, pc, reports, files>> /\ pc[p] = "loop"
        /\ \/ UNCHANGED <<node, lab, box>>
           \/ /\ node' = [node EXCEPT ![p] = node'[p]] /\ lab' = [lab EXCEPT ![p] = lab'[p]]
              /\ box' = [box EXCEPT ![p] = box'[p]]
              /\ lab'[p] # "none" \/ node'[p] = "acting" =>
                     box'[p] = Paths \/ (box' = box /\ lab[p] # "none")
    <2>1. ASSUME NEW f \in Findings, BeginFinding(p, f) PROVE <1>1!:
      <3>1. /\ UNCHANGED <<settings, pc, reports, files>> /\ pc[p] = "loop"
            /\ node' = [node EXCEPT ![p] = "guard"]
        BY <2>1 DEF BeginFinding, Investigate, Between, settingsVars
      <3>2. CASE settings.mode = "llm"
        BY <2>1, <3>1, <3>2 DEF BeginFinding, Investigate
      <3>3. CASE settings.mode # "llm"
        BY <2>1, <3>1, <3>3 DEF BeginFinding, Investigate
      <3> QED
        BY <3>2, <3>3
    <2>2. CASE Think(p)
      <3>1. UNCHANGED <<settings, pc, reports>> /\ NodeStep(p)
        BY <2>2 DEF Think, settingsVars, pipelineVars
      <3>2. CASE GuardBudget(p) \/ Propose(p) \/ Validate(p) \/ Reevaluate(p)
        BY <3>1, <3>2 DEF GuardBudget, Propose, Validate, Reevaluate, executorVars, Local, Control
      <3>3. CASE BeginAction(p)
        BY <3>1, <3>3 DEF BeginAction, Local, Control
      <3>4. CASE Collect(p)
        BY <3>1, <3>4 DEF Collect, Local, Control
      <3> QED
        BY <3>1, <3>2, <3>3, <3>4 DEF NodeStep
    <2>3. CASE Tick(p)
      BY <2>3 DEF Tick, ClockRunsOut, settingsVars, pipelineVars, executorVars, Local, Control
    <2> QED
      BY <2>1, <2>2, <2>3
  <1>2. OwnPaths(p) /\ settings.repo = p
    BY <1>1 DEF OwnInv, OwnPaths
  <1>3. lab'[p] # "none" \/ node'[p] = "acting" => box'[p].repo = p
    BY <1>1, <1>2 DEF OwnPaths, Paths
  <1>4. \A q \in Pipelines : q # p => node'[q] = node[q] /\ lab'[q] = lab[q] /\ box'[q] = box[q]
    BY <1>1
  <1>5. pc' = [pc EXCEPT ![p] = pc'[p]] /\ pc'[p] = pc[p]
    BY <1>1
  <1> QED
    BY <1>1, <1>3, <1>4, <1>5, OwnInside

LEMMA OwnActs ==
    ASSUME Concurrent = 1, PipelineInv, SettingsInv, OwnInv, NEW p \in Pipelines,
           Execute(p) \/ Fault(p)
    PROVE  OwnInv'
  <1> USE DEF PipelineInv
  <1>1. /\ node[p] = "acting" /\ pc[p] = "loop" /\ UNCHANGED <<settings, pc, reports, graphVars>>
    BY DEF Execute, Act, Fault, At, settingsVars, pipelineVars, Local, Control
  <1>2. box[p].repo = p /\ Mounted(p) = p /\ Run(p)[1] = p
    BY <1>1 DEF OwnInv, OwnPaths, Mounted, Run
  <1>3. /\ box' = box
        /\ \/ files' = files
           \/ \E copy \in {1, 2} : files' = files \cup {Record(p, Run(p), Mounted(p), copy)}
    <2>1. CASE Fault(p)
      BY <2>1 DEF Fault, RefuseAction, Answers, StoreFails, AuditFails, StoreFailureFails, Stays, ioVars
    <2>2. CASE Execute(p)
      <3>1. Acting(p)
        BY <2>2 DEF Execute, Act
      <3>2. CASE DenyTool(p, tool[p], InLab(p)) \/ AskLimiter(p, tool[p], InLab(p), Run(p)) \/ DenyRun(p)
        BY <3>2 DEF DenyTool, AskLimiter, DenyRun, Answers
      <3>3. CASE StartSandbox(p, Run(p)) \/ LimiterRefuses(p) \/ ReleaseLast(p)
        BY <3>3 DEF StartSandbox, LimiterRefuses, ReleaseLast, executorVars
      <3>4. CASE SandboxReturns(p, tool[p]) \/ SandboxRaises(p)
        BY <3>4 DEF SandboxReturns, SandboxRaises, Answers
      <3>5. CASE \/ StoreResult(p, Run(p), Mounted(p)) \/ AppendAudit(p, Run(p))
                 \/ StoreFailure(p, Run(p), Mounted(p))
        BY <3>5 DEF StoreResult, AppendAudit, StoreFailure, Stays
      <3> QED
        BY <3>1, <3>2, <3>3, <3>4, <3>5 DEF Acting
    <2> QED
      BY <2>1, <2>2
  <1>4. files \subseteq files' /\ \A x \in files' \ files : x.repo = x.run[1]
    BY <1>2, <1>3 DEF Record
  <1>5. lab'[p] # "none" \/ node'[p] = "acting" => box'[p].repo = p
    BY <1>2, <1>3
  <1> QED
    BY <1>1, <1>3, <1>4, <1>5, OwnInside DEF graphVars, PipelineTypeOK

\* A report that says something says what the current record says.
LEMMA OwnReports ==
    ASSUME Concurrent = 1, VerdictsInv, SettingsInv, OwnInv, NEW p \in Pipelines,
           ReportFinding(p) \/ FindingFails(p) \/ RunCancelled(p) \/ RunCancelledInSandbox(p)
    PROVE  OwnInv'
  <1> USE DEF VerdictsInv, PipelineInv, PipelineTypeOK, GraphTypeOK, ExecutorTypeOK
  <1>1. /\ LeaveGraph(p) /\ Forget(p) /\ UNCHANGED <<settings, files>>
        /\ pc[p] \notin {"new", "over"} /\ pc' = [pc EXCEPT ![p] = pc'[p]] /\ pc'[p] \in {pc[p], "restore"}
    <2>1. CASE ReportFinding(p) \/ FindingFails(p)
      BY <2>1 DEF ReportFinding, FindingFails, At, settingsVars, Forget, Local, Control
    <2>2. CASE RunCancelled(p)
      BY <2>2 DEF RunCancelled, Unwind, Moves, settingsVars, Forget
    <2>3. CASE RunCancelledInSandbox(p)
      <3>1. phase[p] = "sandbox" /\ node[p] = "acting"
        BY <2>3 DEF RunCancelledInSandbox, SandboxCancelled, InPhase, Local, Control
      <3> QED
        BY <2>3, <3>1 DEF RunCancelledInSandbox, SandboxCancelled, Unwind, Moves, settingsVars,
               Forget, Local, Control
    <2> QED
      BY <2>1, <2>2, <2>3
  <1>2. ASSUME NEW q \in Pipelines, NEW f \in Findings
        PROVE  reports'[q][f] = reports[q][f] \/ Rests(q, f)'
    <2>1. CASE ReportFinding(p)
      <3>1. /\ node[p] = "report" /\ finding[p] \in Findings
            /\ reports' = [reports EXCEPT ![p][finding[p]] = status[p]]
        BY <2>1 DEF ReportFinding, At, Local, Control
      <3>2. CASE q # p \/ f # finding[p]
        BY <3>1, <3>2
      <3>3. CASE q = p /\ f = finding[p]
        <4>1. reports'[p][f] = status[p]
          BY <3>1, <3>3
        <4>2. status[p] \in {"confirmed", "rejected"} => Shown(p, status[p])
          BY <3>1 DEF History, Current
        <4>3. reports'[p][f] \in {"confirmed", "rejected"} =>
                  \E x \in files : /\ x.run[1] = p /\ x.run[2] = f
                                   /\ x.status = "completed" /\ x.says = reports'[p][f]
          <5> SUFFICES ASSUME status[p] \in {"confirmed", "rejected"}
                       PROVE  \E x \in files : /\ x.run[1] = p /\ x.run[2] = f
                                               /\ x.status = "completed" /\ x.says = status[p]
            BY <4>1
          <5>1. PICK x \in files : x.run = Run(p) /\ x.status = "completed" /\ x.says = status[p]
            BY <4>2 DEF Shown
          <5>2. x.run[1] = p /\ x.run[2] = f
            BY <3>3, <5>1 DEF Run
          <5> QED
            BY <5>1, <5>2
        <4> QED
          BY <1>1, <3>3, <4>3 DEF Rests
      <3> QED
        BY <3>2, <3>3
    <2>2. CASE ~ReportFinding(p)
      BY <2>2 DEF FindingFails, RunCancelled, RunCancelledInSandbox, Unwind
    <2> QED
      BY <2>1, <2>2
  <1>3. /\ \A q \in Pipelines : q # p => node'[q] = node[q] /\ lab'[q] = lab[q] /\ box'[q] = box[q]
        /\ lab'[p] = "none" /\ node'[p] = "none"
    BY <1>1 DEF LeaveGraph, Forget
  <1> QED
    BY <1>1, <1>2, <1>3, OwnInside

LEMMA OwnStep ==
    ASSUME Concurrent = 1, VerdictsInv, SettingsInv, OwnInv, [Next]_vars
    PROVE  OwnInv'
  <1>1. ASSUME NEW p \in Pipelines, Start(p) \/ Work(p) PROVE OwnInv'
    <2>1. CASE \/ Start(p) \/ Discover(p) \/ OpenSandbox(p) \/ FindFindings(p, FALSE)
               \/ \E f \in Findings : ReportStatic(p, f)
               \/ EvaluateGate(p) \/ CloseSandbox(p) \/ End(p)
      BY <2>1, OwnStages DEF StageStep, VerdictsInv
    <2> QED
      BY <1>1, <2>1, OwnBegins, OwnActs, OwnReports DEF Work, VerdictsInv
  <1>2. ASSUME NEW p \in Pipelines, Trouble(p) PROVE OwnInv'
    <2>1. CASE \/ FindFindings(p, TRUE) \/ TechnicalFailure(p) \/ Cancel(p)
               \/ \E f \in Findings : StaticFails(p, f)
      BY <2>1, OwnStages DEF StageStep, VerdictsInv
    <2> QED
      BY <1>2, <2>1, OwnBegins, OwnActs, OwnReports DEF Trouble, VerdictsInv
  <1>3. CASE UNCHANGED vars
    BY <1>3 DEF vars, executorVars, settingsVars, graphVars, pipelineVars, OwnInv, OwnPaths, Rests
  <1>4. Troubled \subseteq Pipelines
    BY CiPipelineAssumption
  <1> QED
    BY <1>1, <1>2, <1>3, <1>4 DEF Next, AllOver

\* When pipelines do not overlap, a verdict always rests on a record about
\* the pipeline's own repository: the settings object that pipelines share is
\* the only way in which another repository reaches one (run mixed_runs).
THEOREM OwnRepositoryAlone ==
    ASSUME Concurrent = 1
    PROVE  Spec => []OwnRepository
  <1>1. Init => SettingsInv /\ OwnInv
    BY DEF Init, ExecutorInit, GraphInit, SettingsInv, Running, Begun, OwnInv, OwnPaths, Rests
  <1>2. VerdictsInv /\ SettingsInv /\ OwnInv /\ [Next]_vars => SettingsInv' /\ OwnInv'
    BY SettingsStep, OwnStep DEF VerdictsInv
  <1>3. OwnInv => OwnRepository
    BY DEF OwnInv, Rests, OwnRepository
  <1> QED
    BY <1>1, <1>2, <1>3, VerdictsInductive, PTL DEF Spec
==============================================================================
