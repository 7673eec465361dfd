----------------------------- MODULE Executor -----------------------------
(***************************************************************************)
(* executor/executor.py, SafeExecutor, for one action at a time of each    *)
(* pipeline: the checks and the limiter, the sandbox, and _finish, which   *)
(* stores the result (evidence/store.py), appends an audit event           *)
(* (evidence/audit.py) and stores the result again when the audit fails.   *)
(*                                                                         *)
(* A run <<p, f, n>> is the n-th action of pipeline p for finding f.  Its  *)
(* action id keeps only the first characters of the finding id: Short.     *)
(***************************************************************************)
EXTENDS RunLimiter

CONSTANTS
    Findings,
    Short,      \* finding id -> the part of it that its action ids keep
    Docker      \* is the backend Docker, or the process sandbox

VARIABLES
    box,        \* paths the executor of each pipeline was made with
    phase,      \* where it is with the current action
    result,     \* the ExecutionResult so far
    ref,        \* which record evidence_ref names, 0 for unavailable
    files,      \* execution records on disk
    log,        \* audit events on disk
    executed    \* runs that were started in a sandbox

ioVars == <<files, log>>

executorVars == <<box, phase, result, ref, files, log, executed>>

Tools == {"safe_noop", "inspect", "observe", "command"}

Phases == {"idle", "check", "limit", "sandbox", "put", "append", "put_again", "done"}

Verdict == {"confirmed", "rejected", "nothing"}

Runs == Pipelines \X Findings \X Nat

\* blocked: the failure is one that evidence/guard.py calls an isolation,
\* build or policy block; every other failure may be tried again.
NoResult == [status |-> "none", says |-> "nothing", blocked |-> FALSE]

Results == [status : {"none", "completed", "failed", "denied"}, says : Verdict, blocked : BOOLEAN]

Records == [dir : Dirs, run : Runs, copy : {1, 2}, repo : Dirs,
            status : {"completed", "failed", "denied"}, says : Verdict]

Unmade == [repo |-> "none", output |-> "none"]

Boxes == {Unmade} \cup [repo : Dirs, output : Dirs]

ExecutorTypeOK ==
    /\ box \in [Pipelines -> Boxes]
    /\ phase \in [Pipelines -> Phases]
    /\ result \in [Pipelines -> Results]
    /\ ref \in [Pipelines -> {0, 1, 2}]
    /\ files \subseteq Records
    /\ log \subseteq [dir : Dirs, run : Runs]
    /\ executed \subseteq [run : Runs, dir : Dirs, id : Ids]

ExecutorInit ==
    /\ box = [p \in Pipelines |-> Unmade]
    /\ phase = [p \in Pipelines |-> "idle"]
    /\ result = [p \in Pipelines |-> NoResult]
    /\ ref = [p \in Pipelines |-> 0]
    /\ files = {}
    /\ log = {}
    /\ executed = {}

\* _build_action_id
ActionId(run) == <<Short[run[2]], run[3]>>

InPhase(p, where) == phase[p] = where

\* The action is answered with r, which _finish stores next.
Answers(p, r) ==
    /\ phase' = [phase EXCEPT ![p] = "put"]
    /\ result' = [result EXCEPT ![p] = r]
    /\ UNCHANGED <<box, ref, files, log>>

Denied == [status |-> "denied", says |-> "nothing", blocked |-> TRUE]

Failed(blocked) == [status |-> "failed", says |-> "nothing", blocked |-> blocked]

\* A sandbox that exits with 0; only the output of an inspection can say
\* something about the finding.
Completed(says) == [status |-> "completed", says |-> says, blocked |-> FALSE]

---------------------------------------------------------------------------
\* execute_sequence and _execute_one

\* Requests to the target need the map of its services, which execute_sequence
\* only passes on from Docker or in the lab.  A command needs a DockerSandbox:
\* without a lab the node asks for one, and the runtime of a lab is none.
NeverRuns(tool, inLab) ==
    \/ tool = "observe" /\ ~Docker /\ ~inLab
    \/ tool = "command" /\ inLab

DenyTool(p, tool, inLab) ==
    /\ InPhase(p, "check")
    /\ NeverRuns(tool, inLab)
    /\ Answers(p, Denied)
    /\ UNCHANGED <<executed, limiterVars>>

\* What else is refused before the limiter: a service that is not ready, an
\* endpoint, target or environment that is not allowed; or the handler of
\* the tool finds the parameters wrong, and the action has failed.
RefuseAction(p, tool, inLab) ==
    /\ InPhase(p, "check")
    /\ ~NeverRuns(tool, inLab)
    /\ Answers(p, Denied) \/ Answers(p, Failed(FALSE))
    /\ UNCHANGED <<executed, limiterVars>>

\* The first section of acquire, which may answer: run limit reached.
AskLimiter(p, tool, inLab, run) ==
    /\ InPhase(p, "check")
    /\ ~NeverRuns(tool, inLab)
    /\ \/ /\ Spent(box[p].output, ActionId(run))
          /\ Answers(p, Denied)
          /\ UNCHANGED <<executed, limiterVars>>
       \/ /\ Count(p, box[p].output, ActionId(run))
          /\ phase' = [phase EXCEPT ![p] = "limit"]
          /\ UNCHANGED <<box, result, ref, files, log, executed>>

StartSandbox(p, run) ==
    /\ InPhase(p, "limit")
    /\ Enter(p)
    /\ phase' = [phase EXCEPT ![p] = "sandbox"]
    /\ executed' = executed \cup {[run |-> run, dir |-> box[p].output, id |-> ActionId(run)]}
    /\ UNCHANGED <<box, result, ref, files, log>>

\* Concurrent run limit reached.
LimiterRefuses(p) ==
    /\ InPhase(p, "limit")
    /\ Refuse(p)
    /\ UNCHANGED executorVars

DenyRun(p) ==
    /\ InPhase(p, "limit")
    /\ Uncount(p)
    /\ Answers(p, Denied)
    /\ UNCHANGED executed

\* A sandbox that ran to its end, whatever its exit code.
SandboxReturns(p, tool) ==
    /\ InPhase(p, "sandbox")
    /\ Leave(p)
    /\ \/ \E says \in IF tool = "inspect" THEN Verdict ELSE {"nothing"} :
              Answers(p, Completed(says))
       \/ \E blocked \in BOOLEAN : Answers(p, Failed(blocked))
    /\ UNCHANGED executed

\* The call of the sandbox raises: the failure is stored first and the
\* permit goes back in the finally clause, after that (ReleaseLast).
SandboxRaises(p) ==
    /\ InPhase(p, "sandbox")
    /\ Answers(p, Failed(FALSE))
    /\ UNCHANGED <<executed, limiterVars>>

ReleaseLast(p) ==
    /\ InPhase(p, "done")
    /\ Leave(p)
    /\ UNCHANGED executorVars

\* The executor and what it had in hand are gone.
Forget(p) ==
    /\ box' = [box EXCEPT ![p] = Unmade]
    /\ phase' = [phase EXCEPT ![p] = "idle"]
    /\ result' = [result EXCEPT ![p] = NoResult]
    /\ ref' = [ref EXCEPT ![p] = 0]
    /\ UNCHANGED <<files, log, executed>>

\* Mutant: the permit is lost.
CancelledInside(p) ==
    /\ InPhase(p, "sandbox")
    /\ gate' = [gate EXCEPT ![p] = Outside]
    /\ Forget(p)
    /\ UNCHANGED <<counts, permits>>

\* RunCancelled leaves no record; only the finally clause runs.
SandboxCancelled(p) ==
    /\ InPhase(p, "sandbox")
    /\ Leave(p)
    /\ Forget(p)

---------------------------------------------------------------------------
\* _finish

Record(p, run, repo, copy) ==
    [dir |-> box[p].output, run |-> run, copy |-> copy, repo |-> repo,
     status |-> result[p].status, says |-> result[p].says]

Stays(p, where) ==
    /\ phase' = [phase EXCEPT ![p] = where]
    /\ UNCHANGED <<box, executed, limiterVars>>

StoreResult(p, run, repo) ==
    /\ InPhase(p, "put")
    /\ files' = files \cup {Record(p, run, repo, 1)}
    /\ ref' = [ref EXCEPT ![p] = 1]
    /\ Stays(p, "append")
    /\ UNCHANGED <<result, log>>

\* PERSISTENCE_ERROR: whatever the sandbox did, the action has failed; what
\* it wrote to stderr is kept and may make the failure read as a block.
StoreFails(p) ==
    /\ InPhase(p, "put")
    /\ \E blocked \in BOOLEAN : result' = [result EXCEPT ![p] = Failed(blocked)]
    /\ ref' = [ref EXCEPT ![p] = 0]
    /\ Stays(p, "append")
    /\ UNCHANGED ioVars

AppendAudit(p, run) ==
    /\ InPhase(p, "append")
    /\ log' = log \cup {[dir |-> box[p].output, run |-> run]}
    /\ Stays(p, "done")
    /\ UNCHANGED <<result, ref, files>>

\* Mutant: a failed audit is only logged.
AuditFailsQuietly(p) ==
    /\ InPhase(p, "append")
    /\ Stays(p, "done")
    /\ UNCHANGED <<result, ref, files, log>>

AuditFails(p) ==
    /\ InPhase(p, "append")
    /\ \E blocked \in BOOLEAN : result' = [result EXCEPT ![p] = Failed(blocked)]
    /\ Stays(p, "put_again")
    /\ UNCHANGED <<ref, files, log>>

StoreFailure(p, run, repo) ==
    /\ InPhase(p, "put_again")
    /\ files' = files \cup {Record(p, run, repo, 2)}
    /\ ref' = [ref EXCEPT ![p] = 2]
    /\ Stays(p, "done")
    /\ UNCHANGED <<result, log>>

StoreFailureFails(p) ==
    /\ InPhase(p, "put_again")
    /\ ref' = [ref EXCEPT ![p] = 0]
    /\ Stays(p, "done")
    /\ UNCHANGED <<result, files, log>>

---------------------------------------------------------------------------
\* Properties

\* No action id is executed more often in one work directory than the
\* policy allows (RunLimiter), however pipelines meet in the directory.
ActionsLimited ==
    \A d \in Dirs, id \in Ids :
        Cardinality({x \in executed : x.dir = d /\ x.id = id}) <= MaxRuns
===========================================================================
