--------------------------- MODULE Investigation ---------------------------
(***************************************************************************)
(* agent/graph.py, agent/nodes.py: the LangGraph loop in which a pipeline  *)
(* investigates one finding.  A node is one action, except that the nodes  *)
(* which only call the model are one action (Propose) and that             *)
(* execute_action lasts from BeginAction to the end of the Executor's      *)
(* steps.  What the model says is any value its schema admits.             *)
(*                                                                         *)
(* settings are read where the code reads them: by the executor when it is *)
(* made, and by collect_evidence for the directory it loads from.          *)
(***************************************************************************)
EXTENDS Executor, Settings

CONSTANTS
    Choices,            \* tools a model may propose: [mode][finding]
    Allowed,            \* tools.allowed of the policy
    MaxSteps,           \* max_steps of the agent state, at most 8
    PolicyIterations,   \* limits.max_iterations of the policy
    PlanLengths,        \* max_steps a proposed plan may claim
    NoFinding

ASSUME InvestigationAssumption ==
    /\ Choices \in [Modes -> [Findings -> SUBSET Tools]]
    /\ Allowed \subseteq Tools
    /\ MaxSteps \in 1 .. 8
    /\ PolicyIterations \in Nat
    /\ PlanLengths \subseteq 1 .. 8
    /\ Dirs = Owners
    /\ Short \in [Findings -> Nat]
    /\ \A f \in Findings, n \in 1 .. MaxSteps : <<Short[f], n>> \in Ids
    /\ NoFinding \notin Findings

VARIABLES
    node,       \* next node of each pipeline's graph, "none" between findings
    finding,    \* the finding it investigates
    steps,      \* iteration_count
    late,       \* is the wall clock budget used up
    tool,       \* proposed_action.tool
    planOk,     \* plan_validation.approved
    lab,        \* no ManagedAgentLab, one entered, or its container open
    evidence,   \* verdict of the evidence for the current action
    status,     \* the status that build_report will read
    stop,       \* stop_reason
    hops,       \* super-steps that LangGraph has taken
    permitted   \* runs whose action the Validator approved

graphVars == <<node, finding, steps, late, tool, planOk, lab, evidence, status,
               stop, hops, permitted>>

Nodes == {"none", "guard", "propose", "validate", "execute", "acting",
          "reevaluate", "report"}

Statuses == {"none", "continue", "confirmed", "rejected", "inconclusive", "policy_blocked"}

Stops == {"none", "terminal_evidence", "policy_blocked", "plan_rejected", "step_budget",
          "wall_clock", "blocked", "execution_failed", "insufficient_evidence"}

GraphTypeOK ==
    /\ node \in [Pipelines -> Nodes]
    /\ finding \in [Pipelines -> Findings \cup {NoFinding}]
    /\ steps \in [Pipelines -> 0 .. MaxSteps]
    /\ late \in [Pipelines -> BOOLEAN]
    /\ tool \in [Pipelines -> Tools]
    /\ planOk \in [Pipelines -> BOOLEAN]
    /\ lab \in [Pipelines -> {"none", "entered", "open"}]
    /\ evidence \in [Pipelines -> Verdict]
    /\ status \in [Pipelines -> Statuses]
    /\ stop \in [Pipelines -> Stops]
    /\ hops \in [Pipelines -> Nat]
    /\ permitted \in SUBSET Runs

GraphInit ==
    /\ node = [p \in Pipelines |-> "none"]
    /\ finding = [p \in Pipelines |-> NoFinding]
    /\ steps = [p \in Pipelines |-> 0]
    /\ late = [p \in Pipelines |-> FALSE]
    /\ tool = [p \in Pipelines |-> "safe_noop"]
    /\ planOk = [p \in Pipelines |-> FALSE]
    /\ lab = [p \in Pipelines |-> "none"]
    /\ evidence = [p \in Pipelines |-> "nothing"]
    /\ status = [p \in Pipelines |-> "none"]
    /\ stop = [p \in Pipelines |-> "none"]
    /\ hops = [p \in Pipelines |-> 0]
    /\ permitted = {}

Run(p) == <<p, finding[p], steps[p]>>

Paths == [repo |-> settings.repo, output |-> settings.output]

At(p, where) == node[p] = where

Goto(p, where, n) ==
    /\ node' = [node EXCEPT ![p] = where]
    /\ hops' = [hops EXCEPT ![p] = @ + n]

Decides(p, s, why) ==
    /\ status' = [status EXCEPT ![p] = s]
    /\ stop' = [stop EXCEPT ![p] = why]

---------------------------------------------------------------------------
\* Nodes

\* ManagedAgentLab, in llm mode only, makes its executor now; then
\* load_context and score_finding.
Investigate(p, f) ==
    /\ At(p, "none")
    /\ finding' = [finding EXCEPT ![p] = f]
    /\ lab' = [lab EXCEPT ![p] = IF settings.mode = "llm" THEN "entered" ELSE "none"]
    /\ box' = IF settings.mode = "llm" THEN [box EXCEPT ![p] = Paths] ELSE box
    /\ Goto(p, "guard", 2)
    /\ UNCHANGED <<steps, late, tool, planOk, evidence, status, stop, permitted,
                   phase, result, ref, files, log, executed>>

OutOfSteps(p) == steps[p] >= MaxSteps

GuardBudget(p) ==
    /\ At(p, "guard")
    /\ IF OutOfSteps(p) \/ late[p]
       THEN /\ Goto(p, "report", 1)
            /\ Decides(p, "inconclusive", IF OutOfSteps(p) THEN "step_budget" ELSE "wall_clock")
       ELSE Goto(p, "propose", 1) /\ UNCHANGED <<status, stop>>
    /\ UNCHANGED <<finding, steps, late, tool, planOk, lab, evidence, permitted, executorVars>>

\* Mutant: the iteration is not counted.
ProposeAgain(p) ==
    /\ At(p, "propose")
    /\ \E t \in Choices[settings.mode][finding[p]] : tool' = [tool EXCEPT ![p] = t]
    /\ planOk' = [planOk EXCEPT ![p] = TRUE]
    /\ steps' = [steps EXCEPT ![p] = 1]
    /\ Goto(p, "validate", 3)
    /\ UNCHANGED <<finding, late, lab, evidence, status, stop, permitted, executorVars>>

\* analyse, form_hypothesis, propose_action: the plan's first action is
\* proposed, whatever DynamicPlanValidator thinks of the plan.
Propose(p) ==
    /\ At(p, "propose")
    /\ \E t \in Choices[settings.mode][finding[p]], n \in PlanLengths :
           /\ tool' = [tool EXCEPT ![p] = t]
           /\ planOk' = [planOk EXCEPT ![p] = n <= MaxSteps - steps[p]]
    /\ steps' = [steps EXCEPT ![p] = @ + 1]
    /\ Goto(p, "validate", 3)
    /\ UNCHANGED <<finding, late, lab, evidence, status, stop, permitted, executorVars>>

\* PolicyValidator.validate, for actions that name the registered target.
Permits(p) == tool[p] \in Allowed /\ steps[p] <= PolicyIterations

\* Mutant: a refused plan is only recorded.
ValidateAnyway(p) ==
    /\ At(p, "validate")
    /\ permitted' = IF planOk[p] /\ Permits(p) THEN permitted \cup {Run(p)} ELSE permitted
    /\ Goto(p, "execute", 1)
    /\ UNCHANGED <<finding, steps, late, tool, planOk, lab, evidence, status, stop, executorVars>>

Validate(p) ==
    /\ At(p, "validate")
    /\ IF planOk[p] /\ Permits(p)
       THEN /\ permitted' = permitted \cup {Run(p)}
            /\ Goto(p, "execute", 1)
            /\ UNCHANGED <<status, stop>>
       ELSE /\ Decides(p, "policy_blocked", IF planOk[p] THEN "policy_blocked" ELSE "plan_rejected")
            /\ Goto(p, "report", 1)
            /\ UNCHANGED permitted
    /\ UNCHANGED <<finding, steps, late, tool, planOk, lab, evidence, executorVars>>

\* execute_action: without a lab a new executor is made from the settings;
\* a command opens the container of the lab, which mounts p's repository.
BeginAction(p) ==
    /\ At(p, "execute")
    /\ box' = IF lab[p] = "none" THEN [box EXCEPT ![p] = Paths] ELSE box
    /\ lab' = IF lab[p] = "entered" /\ tool[p] = "command" THEN [lab EXCEPT ![p] = "open"] ELSE lab
    /\ phase' = [phase EXCEPT ![p] = "check"]
    /\ Goto(p, "acting", 1)
    /\ UNCHANGED <<finding, steps, late, tool, planOk, evidence, status, stop, permitted,
                   result, ref, files, log, executed>>

InLab(p) == lab[p] = "open"

\* The repository the sandbox of the current action can read.
Mounted(p) == IF InLab(p) THEN p ELSE box[p].repo

Acting(p) ==
    \/ DenyTool(p, tool[p], InLab(p))
    \/ AskLimiter(p, tool[p], InLab(p), Run(p))
    \/ StartSandbox(p, Run(p))
    \/ LimiterRefuses(p)
    \/ DenyRun(p)
    \/ SandboxReturns(p, tool[p])
    \/ SandboxRaises(p)
    \/ ReleaseLast(p)
    \/ StoreResult(p, Run(p), Mounted(p))
    \/ AppendAudit(p, Run(p))
    \/ StoreFailure(p, Run(p), Mounted(p))

Act(p) ==
    /\ At(p, "acting")
    /\ Acting(p)
    /\ UNCHANGED graphVars

\* Mutant: the records in the directory, whoever wrote them.
AnyLoaded(p) == {x \in files : x.dir = settings.output}

\* get_execution: the record that evidence_ref names, in the directory the
\* settings name now.
Loaded(p) ==
    {x \in files : x.dir = settings.output /\ x.run = Run(p) /\ x.copy = ref[p]}

Collect(p) ==
    /\ At(p, "acting") /\ InPhase(p, "done") /\ gate[p] = Outside
    /\ evidence' = [evidence EXCEPT ![p] =
           IF \E x \in Loaded(p) : x.status = "completed"
           THEN (CHOOSE x \in Loaded(p) : x.status = "completed").says
           ELSE "nothing"]
    /\ phase' = [phase EXCEPT ![p] = "idle"]
    /\ Goto(p, "reevaluate", 1)
    /\ UNCHANGED <<finding, steps, late, tool, planOk, lab, status, stop, permitted,
                   box, result, ref, files, log, executed>>

\* Mutant: the budget stops the agent and gives no reason.
StopSilently(p, why) ==
    IF OutOfSteps(p) THEN Decides(p, "inconclusive", "none") ELSE Decides(p, "continue", "none")

\* evidence/guard.py, _continue_or_stop
ContinueOrStop(p, why) ==
    IF OutOfSteps(p) THEN Decides(p, "inconclusive", why) ELSE Decides(p, "continue", "none")

\* evidence/guard.py, evaluate_evidence: what it decides for every tool but
\* safe_noop.
GuardEvidence(p) ==
    CASE result[p].status # "completed" /\ result[p].blocked ->
             Decides(p, "inconclusive", "blocked")
      [] result[p].status # "completed" /\ ~result[p].blocked ->
             ContinueOrStop(p, "execution_failed")
      [] result[p].status = "completed" /\ evidence[p] # "nothing" ->
             Decides(p, evidence[p], "terminal_evidence")
      [] OTHER -> ContinueOrStop(p, "insufficient_evidence")

\* safe_noop proves nothing, so the model decides within the budgets: it goes
\* on, or in llm mode gives up on a blocked execution.  The severities TEST_*,
\* with which a synthetic finding dictates its outcome, are left out.
GuardNoop(p) ==
    IF late[p] THEN Decides(p, "inconclusive", "wall_clock")
    ELSE IF OutOfSteps(p) THEN Decides(p, "inconclusive", "step_budget")
    ELSE IF settings.mode = "llm" /\ result[p].status # "completed" /\ result[p].blocked
         THEN Decides(p, "inconclusive", "execution_failed")
    ELSE Decides(p, "continue", "none")

Reevaluate(p) ==
    /\ At(p, "reevaluate")
    /\ IF tool[p] = "safe_noop" THEN GuardNoop(p) ELSE GuardEvidence(p)
    /\ Goto(p, IF status'[p] = "continue" THEN "guard" ELSE "report", 1)
    /\ UNCHANGED <<finding, steps, late, tool, planOk, lab, evidence, permitted, executorVars>>

\* The clock of the agent budget, started by load_context.
ClockRunsOut(p) ==
    /\ node[p] # "none" /\ ~late[p]
    /\ late' = [late EXCEPT ![p] = TRUE]
    /\ UNCHANGED <<node, finding, steps, tool, planOk, lab, evidence, status, stop, hops,
                   permitted, executorVars>>

NodeStep(p) ==
    \/ GuardBudget(p) \/ Propose(p) \/ Validate(p) \/ BeginAction(p) \/ Collect(p)
    \/ Reevaluate(p)

\* The graph is left, with a report, an exception or RunCancelled, and its
\* state with it.
LeaveGraph(p) ==
    /\ node' = [node EXCEPT ![p] = "none"]
    /\ finding' = [finding EXCEPT ![p] = NoFinding]
    /\ steps' = [steps EXCEPT ![p] = 0]
    /\ late' = [late EXCEPT ![p] = FALSE]
    /\ tool' = [tool EXCEPT ![p] = "safe_noop"]
    /\ planOk' = [planOk EXCEPT ![p] = FALSE]
    /\ lab' = [lab EXCEPT ![p] = "none"]
    /\ evidence' = [evidence EXCEPT ![p] = "nothing"]
    /\ Decides(p, "none", "none")
    /\ hops' = [hops EXCEPT ![p] = 0]
    /\ UNCHANGED permitted

---------------------------------------------------------------------------
\* Properties

\* What the agent is told of its action is what the disk says: the result
\* and the record that its evidence_ref names have one status and one
\* verdict, and a result that claims success is stored and audited
\* (SafeExecutor._finish, whose three writes can fail separately).
ResultMatchesRecord ==
    \A p \in Pipelines : InPhase(p, "done") =>
        /\ \A x \in files : x.run = Run(p) /\ x.copy = ref[p] =>
               x.status = result[p].status /\ x.says = result[p].says
        /\ result[p].status = "completed" =>
               /\ \E x \in files : x.run = Run(p) /\ x.copy = ref[p]
               /\ \E x \in log : x.run = Run(p)

\* LangGraph's recursion limit is never what ends an investigation: up to
\* the report its super-steps are bounded by the step budget, whatever the
\* model proposes and however actions fail (agent/graph.py sets 128 for at
\* most 8 steps).
StopsWithinBudget == \A p \in Pipelines : hops[p] <= 2 + 8 * MaxSteps

\* A report states why the agent stopped, and terminal_evidence is the
\* reason exactly of terminal reports: budgets, failures and denials never
\* end in a verdict, and a verdict is never put down to a budget.
StopReasonFits ==
    \A p \in Pipelines : At(p, "report") =>
        /\ status[p] \notin {"none", "continue"} /\ stop[p] # "none"
        /\ status[p] \in {"confirmed", "rejected"} <=> stop[p] = "terminal_evidence"
        /\ status[p] = "policy_blocked" <=> stop[p] \in {"policy_blocked", "plan_rejected"}
===========================================================================
