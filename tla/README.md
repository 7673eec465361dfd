# Verification of CFT Security Agent

TLA+ modules for the program in this repository, the TLC configurations that
check them on small instances, and proofs that TLAPS checks for every instance.
Every definition of a module is translated from the source; `PROJECT.json` maps
each of them to its lines.

    tlc -workers 2 -config faults.cfg MCOrchestrator     # one run
    tlapm OrchestratorProofs.tla                         # one proof module

## 1. Inventory

What the system does: an API service accepts analysis requests, executes a CI
pipeline for each of them on a bounded set of workers, and stores what the
pipeline found.  A pipeline finds problems with Semgrep, lets an agent
investigate each one (the agent proposes, the Validator permits, the Executor
runs the action in a Docker sandbox, Evidence decides), builds reports and a CI
verdict.  "The agent thinks, the Validator permits, the Executor executes, the
Evidence decides" (README.md) is the sentence the whole design follows.

| component | state | operations | talks to | what is hard | what makes it right |
|---|---|---|---|---|---|
| Run store `api/store.py` | SQLite: runs, results, chats, links, messages | one transaction per method | called by threads of the server and by workers | any order of transactions, crash between two | final statuses are final, no dangling reference, results precede verdicts |
| Scheduler `api/scheduler.py` | queue, tokens, worker threads, closed flag | submit, cancel, close, worker loop | runs callbacks of the orchestrator | submit against close, cancel against the end of a run | one worker per run, a token lives as long as its run, close stops everything |
| Budget `api/scheduler.py` | booked sandboxes, CPU, memory | acquire (polls), release | workers | waiting under cancellation, double release | nothing lost, never overbooked |
| Orchestrator `api/service.py` | closed flag, callback locals | create, cancel, message, delete, execute, close, restore | store, scheduler, budget, pipeline | three transactions per result, API calls between them, restarts | no run forgotten, every run ends, the chat learns the outcome |
| HTTP API `api/app.py`, `api/registry.py` | registry of targets | routes, bearer token, event stream | orchestrator | snapshots read in several transactions while the run goes on | the stream ends with the last snapshot |
| Project import `api/service.py` | workspace, registry, row of the store | upload, unpack, discover, register, discard | store, discovery | a crash or a failure between two of four places | an answered import is whole after any restart |
| Progress `pipeline/progress.py` | a file of events per run | append, read the last 500 | pipeline, service, browser | lost appends, a window that is too short | the count is never too high |
| Cancellation `pipeline/cancellation.py`, `pipeline/subprocess_runner.py` | token, scopes in context variables | cancel, check, suspend | everything that waits | nested scopes, cancellation while cleaning up | clean-up is never cancelled |
| CI pipeline `app/ci_pipeline.py`, `app/pipeline_run.py` | global settings, artifacts | stages, restore of settings | managers, agent, gate | two pipelines in one process share the settings | each pipeline sees its own values |
| Sandbox sessions `executor/sandbox_*.py` | compose project, overlay, network | start with retry, ready, teardown | Docker | partial start, teardown under cancellation | torn down once, nothing left behind |
| Sandboxes of actions `executor/sandbox.py`, `agent/lab.py` | containers in the network of the session | open a lab, run one action or a sequence, close | Docker, session | a lab that outlives its graph, a process group that is killed | the lab is closed before the session |
| Worker `executor/worker.py` | none | one action: inspections, requests, commands | executor | what the last line of a file changes | a verdict is what the whole source says |
| Runtime observation `executor/runtime_*.py` | none | service map, telemetry of a session | Docker | containers that stop while they are looked at | gaps of states and logs are noted, nothing of others is told |
| Executor `executor/executor.py`, `approvals.py`, `sandbox_runner.py` | approvals, counters, managed lab | record, execute, sequence, finish | validator, evidence, Docker | stale approvals, limits, audit failing after evidence | nothing runs unapproved or unrecorded |
| Agent graph `agent/graph.py`, `nodes.py`, `loop.py`, `planning.py` | AgentState | eleven nodes, three decisions | model, validator, executor, evidence | budgets, denials, model answers of any shape | ends within its budget, verdict only from evidence |
| Agent model `agent/model.py`, `llm.py`, `llm_model.py` | none | analyse, plan, reevaluate | providers, one after the other | invalid answers, refusals, misread errors | routes are tried in order and a refusal is respected, no answer is a verdict |
| Evidence `evidence/*` | JSON files, audit log | put, get, interpret, guard | agent, reports | partial writes, conflicting verdicts | verdicts rest on stored records |
| Gate and policy `pipeline/gate.py`, `policy.py` | none | classify, decide | reports | errors beside verdicts | errors never pass |
| Validator `validator/validator.py` | policy | validate | executor | order of checks | default is denial |
| Fix verification `fix_verification/*` | a temporary copy | scope, apply, re-tests, verdict | git, subprocesses | a failure between two processes | verified only when every re-test passed; the copy is gone |
| Discovery `discovery/*` | none | scan, detect, resolve, build a profile | files | identifiers that clash, a second discovery | names stay, what was written by hand comes first |
| Scoring, reporting, PR analysis, SAST, architecture, evaluation | files | pure functions and subprocesses | pipeline | matching across revisions | same input, same answer |
| LLM scripts `scripts/*` | none | discover, probe, fail over | providers | answers of any shape | a healthy provider is used |
| Frontend `frontend/src` | query caches | stream, poll, merge, import | HTTP API | answers and events out of order | the browser shows how a run ends |

The hazards behind the "hard" column are listed, each at its line, in
`PROJECT.json`.


## 2. Plan

Order: first what decides whether a run of the service ends in the right
state (store, scheduler, budget, orchestrator), then what decides whether its
verdict is right (pipeline, agent loop, executor, settings), then the parts
beside them, by what a failure costs.

| step | modules | composes | abstract specification | state |
|---|---|---|---|---|
| 1 | `RunNames`, `RunStore`, `ResourceBudget`, `RunScheduler` | | `RunLifecycle` | checked and proved |
| 2 | `Orchestrator` | the three of step 1 | `RunLifecycle` | checked; its safety is proved |
| 3 | `PipelineNames`, `RunLimiter`, `Settings`, `Executor`, `Investigation`, `CiPipeline` | each extends the ones before it | `Verdicts` | checked and proved |
| 4 | `SandboxSession`, `AgentLab` | `AgentLab` extends `SandboxSession` | | checked and proved |
| 5 | `FixVerification` | | | checked and proved |
| 6 | `RunTimeline`, `ChatView` | | | checked; proved but for the liveness of `ChatView` |
| 7 | `AgentReasoning`, `ProjectImport`, `RuntimeTelemetry` | | | checked and proved |
| 8 | `SourceInspection`, `Discovery`; `ServiceParts` | `ServiceParts` composes steps 4 to 8 | reference definitions of what they conclude | checked and proved |
| 9 | rules: classification of one finding (`pipeline/policy.py`), `PolicyValidator`, the scope rules of `DynamicPlanValidator`, risk scoring, pull request findings | the sets `Blocking`, `Allowed` and `Choices` of `CiPipeline` | reference definitions over bounded inputs | left |

The modules of steps 4 to 8 share no state with each other.  `ServiceParts` extends
all of them; the variable `part` of the initial state says which one a behaviour is
of, so one run (of `MCParts`, its small instance) asks each its questions.

## 3. From the code to the modules

### Service

`RunStore` has one action per method of `ApiStore` that writes: `_connection`
holds one lock per call and commits at its end, so a method is a transaction.
The conditional `UPDATE`s are actions that are always enabled and leave the
status alone when the `WHERE` clause does not hold; `MayStart` and `MayFinish`
are the row counts their callers read.  Only the column values that the
properties tell apart are kept: the status, the order of creation, whether
results are stored, and the references of the chat tables.

`RunScheduler` cuts `submit` into `Register` (under the lock) and `Put` (the
queue, after it), and `close` into `Shut`, one `SignalNext` per copied token and
one `PutPill` per worker, because other threads run in between.  `Take` merges
`queue.get` with the check of the token that follows it: no other thread can
tell the two apart.  `Die` is a callback that raised something `_worker` does
not catch.

`ResourceBudget` is `acquire` and `release`.  Waiting is an action that is not
enabled.  All requests of a process are equal, as `RunOrchestrator` makes one
request from the settings.

`Orchestrator` adds what is not in these objects: the local variables of API
calls (`call`), of callbacks (`step`, `fate`, `jobChat`) and of `close()`
(`closed`, `toClose`, `closing`).  A call or a callback is cut at every
transaction, critical section and read of the token.  The steps of
`_execute_run` follow its text: wait for the lease, `mark_running`, pipeline,
`replace_results`, summary in the chat, `mark_finished`; the except clause with
its message and `mark_failed`; the finally clause with the release, and
`mark_cancelled` after it.  `Restart` stands for the end of a process at any
point together with the start of the next one: `recover_abandoned`, then
`queued_jobs` submitted in the order of creation before the server accepts calls.
The code submits them one by one; the model does it in one step.  Nothing but the
workers runs meanwhile, and a worker that takes the first run while the second is
not submitted yet only does what it does right after the step too; a crash in
between leaves the rows as they were, so the next start finds the same runs.

`CallOpen` and `CallDelete` are one transaction and keep no local variables, so they
occupy no client: chats are opened and deleted beside every other call.

### Pipeline

`Settings` is the one settings object of the process with the copies that each
pipeline takes and puts back.  A path is modelled by its owner.  Assignments that
follow each other without a call in between are one step, and the three output
paths, always assigned together, are the field `output`.

`RunLimiter` is the object of that name.  Its `acquire` has three critical
sections: counting the action, taking the permit without waiting, and taking the
count back when there was none.

`Executor` is `SafeExecutor`.  The phases of `phase` are the places where
something outside can happen: the limiter, the sandbox, and the three writes of
`_finish`, each of which can fail.  A record on disk keeps what the properties
need: which run wrote it, in which directory, about which repository, with which
status and verdict.  `says` is what the interpreter of the evidence would read
out of it.  `DenyTool` is what never passes: a request to the target without Docker or
a lab, and a `sandbox_command` once the lab of the graph is open, because the check at
`executor/executor.py:519` asks for a `DockerSandbox` and the lab is none.
`RefuseAction` is every other answer before the limiter.

`Investigation` is the LangGraph loop.  `node` is the next node; nodes that only
call the model are one action (`Propose`), and `execute_action` lasts from
`BeginAction` to `Collect`.  What a model proposes is any tool its schema and its
mode admit.  `GuardEvidence` and `GuardNoop` are `evaluate_evidence`.  The stale
locals of a graph that was left are reset, so that equal states are equal.

`CiPipeline` is `run_ci_pipeline` with `run_pipeline`: stages, findings one after
the other (in any order, which covers the priority order), the gate, and the ways
out: return, technical failure, cancellation.  `Work` is what the thread does when
nothing goes wrong, `Trouble` everything else.

### Sandbox

`SandboxSession` is `SandboxSession` inside `ManagedSandboxSession` for Compose, and
the two adapters that build one image.  `pc` is the next docker command.  A command
passes, fails, times out, is stopped by the token, or cannot be started; unless it
passes it may have done a part of its work.  `phase` is who tears down: the start
that failed, the managed start around it, or the finally clause of the pipeline.
Commands of a teardown are not stopped by the token (`suspend_cancellation`).

`AgentLab` is what a pipeline does while the session is up: the service map with its
probe container, then a graph per finding, whose actions run in a process, in a
container for one action, in one for a sequence, or in the lab that the graph opened.
`guests` are containers in the network of the session that the session does not know;
`dead` is `os.killpg` on the group of the service.  `DenyAction` spends an action of the
graph without a container.

`SourceInspection` is the worker process: a file is read line by line and `noted` is
what the loops keep; a line is one of the kinds that the inspections tell apart.

`RuntimeTelemetry` is `collect`: containers are listed, then state, log, probes and
ports of each are read one call after the other while containers stop, start and go,
then the events are sorted and cut.  A failed read of the ports leaves no entry, and a
probe whose ports could not be read is a docker event all the same.

### Agent and fixes

`AgentReasoning` is one question to the agent's model: `complete_model` walks the
routes; what it answers, or that nobody answered, is turned into a step of a plan or a
verdict by the checks of `llm_model.py`, with the deterministic model behind them.  An
error is the set of signs its text contains, of which `_classify_error` takes the
first.

`FixVerification` is `verify`: request, scope, copy, `git apply --check` and `git
apply`, the re-tests, the verdict.  Each process can pass, fail, time out or not start.
A patch is two sets: the names its `+++` lines give, which `_patch_scope_error` looks at,
and the files it touches, which nothing in the code looks at.

### Around the runs

`ProjectImport` is an upload up to its answer or its clean-up, on threads of the
server, with crashes and the start of a service that reads the workspaces again.

`RunTimeline` is the progress file with its window, and the times by which the browser
orders findings, gate and summary.  Events of stages come before the findings and at the
gate and take places of the window like those of findings.

`ChatView` is the view of one chat: a snapshot is read in two transactions, by the
generator of the stream and by polling; events wait on the wire, connections are lost,
an answer of polling may be older than an event that came before it.  `view` is the
cache entry that both write.

`Discovery` is scan, detectors, resolver and builder; directories are numbers in the
order of the walk, and a project that was imported is discovered a second time with
the profile of the first.  Identifiers are strings, as the resolver compares strings:
`Numbered` gives the n-th one that is tried for a name, and a service may be called what
the second directory of another name would get.

## 4. Runs

| run | instance | what it shows |
|---|---|---|
| `faults` | 2 runs, 2 workers, 1 client, 1 chat, 1 restart, all faults; 1.8 million states | budget, leases, queue, tokens and life cycle stay consistent; a run is reported cancelled after its lease is back; a verdict has results behind it, the chat learns one outcome, and the references of the schema hold |
| `service` | 2 workers for one lease, crash, lost repository, request that never fits | no run is forgotten, every run ends |
| `hang` | pipelines that never return, `close()` with a list of one | cancelling ends, and so does `close()` |
| `second_run` | 2 messages at once | **violated**: two analyses in one chat |
| `lost_worker` | a chat deleted under a cancelled run | **violated**: a worker thread is lost |
| `verdicts` | 1 pipeline, 3 findings (two share their action ids, one is static), 2 steps, all failures, process sandbox; 0.75 million states | verdicts rest on proof, no action id runs more often than allowed, reports give the right reason, budgets stop the loop, the gate speaks for every finding, settings come back, the pipeline ends |
| `overlap` | 2 pipelines at once with a finding each, 1 may be cancelled or fail, Docker; 1.6 million states | permits are contended and none is lost, and no verdict is given without a proof of the same finding of the same pipeline |
| `mixed_runs` | 2 pipelines at once, nothing fails | **violated**: a verdict rests on an inspection of the other repository |
| `parts` | each part of steps 4 to 8 with all its failures; 0.44 million states | a closed session is clean and every session ends; a verified fix passed its re-tests and names one file; routes are asked in order, refused providers never again, and no model gives a verdict; an answered import survives crashes; progress and order of the timeline are true; telemetry notes missing states and logs and tells only of the target; an inspection concludes what the source says; discovery keeps identifiers; a browser shows that a run completed |
| `group_kill` | the sandbox part without cancellation of the run | **violated**: a docker worker that runs too long takes the service with it |
| `manual_lost` | the discovery part | **violated**: a discovered component replaces a service that was written by hand |
| `stuck_view` | the view part with a run that is cancelled | **violated**: a browser never shows how a cancelled run ended |

### Bounds

- Runs, workers, clients and chats: every property relates at most two runs, two
  threads or one chat with a run.  The theorems of section 6 hold for any number.
- `NameLeft` keeps a call from starting when no run identifier would be left for
  it; identifiers are uuid4 in the code and never run out.
- `MaxRestarts` = 1: the state a restart begins with is what the store holds, and
  a second one begins with a state of the same kind.
- `ListLimit` is the 500 of `close()`; `hang` sets it to 1 so that it matters.
- `Capacity` gives one lease to two workers, so that waiting happens.
- `MaxSteps` is 1 to 8 in a request and `PolicyIterations` 5 in the policy, so
  either can run out first.  In `verdicts` (2 and 2) the step budget does, in
  `overlap` (2 and 1) the policy does.  `PlanLengths` = {1, 2} lets plans be too
  long for what is left.
- `MaxRuns` = 1 in `verdicts` makes the run limit bite between the two findings
  that share their action ids.  `MaxConcurrent` = 1 makes two pipelines compete
  for a permit, and `MaxRuns` = 2 in `overlap` lets both come that far.
- `Allowed` has every tool in both runs: what is refused is refused by the length of a
  plan (`verdicts`) or by the iterations of the policy (`overlap`).
- `MCChoices` gives the second finding of a model only commands, which keeps `verdicts`
  small; the first one gets inspections and commands.
- `Troubled` names the pipelines that may fail, be cancelled or run late;
  `Faults` counts writes of evidence that fail and actions that
  are refused although their tool could run.  In `overlap` one pipeline is
  troubled and the other one meets the consequences.
- `Concurrent` = 1 in `verdicts` (one pipeline) and 2 in the others.

- `parts`: two findings and two actions per graph let a lab be opened, used and
  left behind, and a second graph begin.  Two re-tests are one of each kind.  Two
  lost connections let a reconnect meet a stale answer.  `MCRoutes` names two
  providers alternately, so that a refusal passes over a later route.  `MaxStarts` = 3
  lets an import be cut off, restored, and cut off again.  `Window` = 4, one event
  of a stage (`Stages`) and two findings (4 events, and perhaps one at the gate) make the
  window too short.  `MaxEvents` = 5 makes the cut bite.
  `MCLines` gives a Dockerfile two stages and a file of JavaScript two assignments.
  `MCAbove` and `MCNames` give two directories one name, which a service of Compose
  and one of a profile by hand bear as well; `MCServices` has a service of Compose named
  `api-2`, which is what the resolver makes of the second `api`.
- `Long` stands for the 20 to 100 seconds of `timeline.ts`; it is longer than the
  clock (`MaxClock`) runs, as those are longer than the gap they bridge.

Deadlock is checked in every run but `faults` and `hang`, where a service
that is closed or whose identifiers are used up really stops, and the four runs of
`MCParts`, whose parts end when their work is done.
Symmetry is used only in runs without liveness properties.

## 5. Fairness

`Threads`: every client call that began, every worker and the closing thread go on,
because the operating system schedules threads.  Calls, faults, restarts and
cancellations never have to happen.  `HangSpec` is that much.  `FairSpec` adds that
a pipeline returns: every command, HTTP request and model call in it has a timeout.
`hang` is checked without this.  `CiPipeline` has weak fairness of `Work(p)` for the
same reason; weak fairness of the whole disjunction suffices, as a thread is never
at two places.  The clock (`Tick`), failing writes and raising nodes are not fair.

`SandboxFair`: every docker command ends, by its timeout if nothing else, and a graph
has a budget; cancelling and opening a session are not fair.  `ViewFair`: the worker,
the generator of the stream, the server that answers a polling request and the browser
that connects and handles events go on.  Polling itself (it pauses in a hidden tab),
cancelling and losing a connection are not fair, and connections are lost finitely
often (`MaxDrops`).

## 6. Proofs

TLAPS checks the following for every value of the constants.

- `RunSchedulerProofs`: `SchedInv` adds to the types, to `OneWorkerPerRun` (which
  counts queue positions as well as workers) and to `TokenTracksRun` (a run with a
  token is being put, queued or with a worker, and nowhere without one) that a worker
  is busy exactly while it has a job (`JobsMatch`).  `ClosedIsSignalled` needs an
  invariant of its own about what `close` has copied: a token that is not signalled
  while `close` is at work is among the copies it still has to signal.  For the budget
  of the same file, `BudgetInv` says that the booked amount is the need times the
  number of leases, and fits; the clamp of `_release` then never bites.
- `RunStoreProofs`: types, `ForeignKeys`, and the refinement of `RunLifecycle`: each
  conditional `UPDATE` is a step of the life cycle or a stutter.
- `OrchestratorProofs`: `Inv` is the conjunction of `StoreTypeOK`, `BudgetInv`,
  `SchedInv`, `ControlInv` (what the local variables of calls and callbacks can be:
  a worker is busy exactly while it is in a step, a call that links, registers or
  signals has a run, a callback that writes its outcome has one to write) and
  `LeaseFollowsWork`.  A step of the service is a step of the store, of the budget
  and of the scheduler, or leaves them alone (`StoreComposes`, `BudgetComposes`,
  `SchedComposes`), so the lemmas of the components carry over; what is new is the
  control between them.  `StoppedAfterRelease` and `KeepsLifecycle` follow.  Three
  properties need more.  `ResultsInv`: between `replace_results` and `mark_finished`
  the results are stored; so `VerdictHasResults`.  `ChatInv`: a run that was not
  submitted belongs to one call, was told to nobody and has no token (`NewRunsInv`), a
  chat that a call or a callback knows has existed (`KnownChats`), and before its
  message a callback has told nothing, after it exactly that message (`OutcomeInv`); so
  `ChatLearnsOutcome`.  `ProgressInv`, when no chat is deleted and no pipeline exits
  the interpreter: while the service is open, the token of a run is cancelled only when
  its status says so, a run with a token waits unless a worker has it, and the status
  fits the step of its callback (`Suits`); so `NothingForgotten`, over a restart too,
  because an injective order of the queued runs contains all of them.
  `ServiceReferences` carries `ForeignKeys` over from the store.
- `ExecutorProofs`: `LimiterInv` says of every directory and action id that the
  sandboxes started and the threads between count and permit are at most the count,
  which is at most `MaxRuns` (`CountsCover`).  So taking a count back never makes it
  negative, `ActionsLimited` holds although counts are taken back, and, with
  `PermitsBalanced`, the clamp of `release` never bites.
- `CiPipelineProofs`: `PipelineInv` adds to `LimiterInv` and the types what holds of
  each pipeline alone: `Control` (stage, node, phase and place in the limiter fit
  together), `Budget` (the super-steps are exactly 8 for each step plus a constant
  of the node), `Reason` (nothing is decided before the report) and `Seen` (without
  an error every finding waits, is investigated or has its report).  Most steps
  touch one pipeline, so one lemma (`Untouched`) serves all the others.  Types,
  `PermitsBalanced`, `ActionsLimited`, `StopsWithinBudget`, `StopReasonFits` and
  `GateSeesEverything` follow, for any number of pipelines, findings and steps.
  `SettingsRestored` follows from `SettingsInv` when pipelines do not overlap
  (`Concurrent` = 1): all that have begun found the same settings, and those are
  back when none runs.
- `VerdictsProofs`: `VerdictsInv` adds to `PipelineInv` the history that the disk
  keeps.  `Traces`: a sandbox, a record or an audit event of p belongs to an
  action that p has begun, and of the current action there is only what its phase
  has produced, so no action is executed twice.  `Current`: result, record,
  evidence and status of the current action agree, and a terminal status is `Shown`
  by a completed record and an event of the same action.  `Accounts`: executed
  actions were permitted, and a completed record is the only first copy of an
  executed action.  `Unreported`: a finding has no report while it waits or is
  investigated.  A step adds traces of its own pipeline only (`Grows`), so the
  others keep theirs (`OthersKeep`).  From this, each step is one of `Verdicts` or a
  stutter (`KeepsPromise`): `Validate` is `Permit`, `StartSandbox` is `Execute`,
  `AppendAudit` of a completed result is `Prove`, a report is `Decide`.

- Three properties that a run violates (section 7) have a theorem that says when they
  hold, and so what the violation needs.  `OneRunPerCaller` (`OneActiveRunPerChat`):
  with one caller at a time no chat gets a second active run, over retries, failures
  and restarts.  `TurnsInv` says that only the current run of a chat is active and that
  a message on its way to a new run decided with the chat as it still is; a run that
  exists never becomes active again (`NotActiveAgain`).  So only messages that overlap
  do it.  `WorkersNeverDie` (`WorkersStay`): without deleted chats and `SystemExit` no
  thread of the pool is lost, whatever else fails.  `OwnRepositoryAlone`
  (`OwnRepository`): while pipelines do not overlap, every record, and so every
  verdict, is about the repository of its pipeline.  `OwnInv` follows the repository
  from the settings through the executor to the record, with the history of
  `VerdictsInv` from there to the report; so the shared settings are the only way in
  which another repository gets there.

- `PartsProofs`: one section per part.  `CleanInv` of a session says which commands
  belong to which adapter, and that a guest is there only with the network, which
  docker does not remove under it, so a session that ends closed had no guest.
  `FailoverInv` says of the routes before the next one that they were asked, are
 unusable or follow a refusal, in the order of the routes.  `ReasonInv` rests on a
  lemma that the last check leaves no verdict.  `FixInv` says what each stage may rely on: a patch whose names are in
  scope from the copy on, an applied patch in the tests, the results so far matching the checks.
  `ImportInv` says what each stage of a request has behind it, before and after a
  crash.  `TimelineInv` orders the times of cards (`TimesFit`) and counts the lines of
  the file (`FileFits`).  `TelemetryInv` follows each container through the collection
  (`TellsTarget`, `TakesOwn`, `MissesNothing`); that sorting keeps the events is a
  lemma about permutations.  The types of the parts have an invariant each; those of
  the session need a lemma for each way in which a command ends (`StartFailsTypes`,
  `TeardownRaisesTypes`, `ManagedEndsTypes`, ...), those of the telemetry that a
  container in work is one of the session (`TelemetryInv`).  The last section composes:
  a step of `ServiceParts` is a step of each part or leaves it alone (`PartsCompose`),
  so a behaviour of all is one of each (`PartsImplement`), and types
  (`PartsTypeCorrect`) and safety (`PartsAreSafe`) of the parts hold together.
- `SourceProofs`: the two parts that compare a loop with a definition over the whole.
  `InspectionInv` says of every field the worker keeps what the lines read so far say
  (`DockerNoted`, `CallsNoted`, `FlowNoted`), which files cannot have been read yet
  (`ReadInOrder`), and that an answer is the verdict that was called for (`Answered`).
  Its one lemma on sequences (`LinesGrow`) says what one more line does to "the file
  has" and "the last one is"; with it each line is a case of its own.  For discovery the
  identifiers come first: the resolver's recursion over directories has a solution
  (`IdsExist`: else there is a least directory without one), the identifiers tried
  for a name are never all taken (`OneIsFree`, a count against the number of directories), so
  components have different identifiers (`IdsDiffer`).  `MergeKeeps` says which
  identifiers last and who may stand under them in the dictionary of `TargetProfileBuilder.build`, and `MergeAgain` that a
  profile that has the components already is not changed by them.  `DiscoveryInv` adds
  that roots are unique in a base profile, and what the last step has built.

The assumptions are the named ASSUMEs of the modules: finite sets of workers, runs
and pipelines, natural numbers as bounds, markers (`NoRun`, `Pill`, `NoChat`) outside
the sets they extend.

Only model-checked: the six liveness properties `EveryRunEnds`, `CancelEnds`,
`ShutdownEnds`, `PipelineEnds`, `SessionsEnd` and `ViewSettles`, as fairness is outside
the prover's reach.  Every other property of a passing run is stated by a theorem.
Three theorems say less than one would wish, because the code does not ensure more
(section 7): `VerifiedFixes` speaks of the names in a patch, `FailoverOrdered` of failures
that are caught, and `StateGapsAreNoted` of states and logs but not of ports.
`NothingForgotten` is false with deleted chats or a `SystemExit`, `SettingsRestored`
with pipelines that overlap, and their theorems say so in their assumptions, as do
those of the three properties that a run violates.

Two definitions were corrected on the way: in `StartFails` (`SandboxSession`) and `Field`
(`SourceInspection`) two arms of a CASE overlapped, where TLC takes the first one and
the prover, rightly, any.

## 7. What the code does that its documents do not say

Six runs end with a violation; each quotes its line in `PROJECT.json`.

1. `second_run`: `send_chat_message` reads `active_run_id` once and creates the run
   several transactions later.  Two messages that overlap start two analyses; with
   one caller it cannot happen (`OneRunPerCaller`).
2. `lost_worker`: `append_chat_message` raises in the except clause of
   `_execute_run` when the chat was deleted, and the exception ends the worker.
3. `mixed_runs`: pipelines that overlap share the settings; one reads the
   repository of the other.  Without overlap it cannot (`OwnRepositoryAlone`).
4. `group_kill`: `_communicate_bounded` kills the process group of the worker, but a
   docker client is in the group of the service.  (`_run_docker` of the telemetry and
   of the service map has the same timeout.)
5. `stuck_view`: the browser counts only queued and running as active, so it stops
   listening and polling once it has shown a run as cancelling.
6. `manual_lost`: the builder enters components under their identifiers one after the
   other, and a component that the profile by hand does not know replaces the service
   whose identifier it happens to have; "the manual profile has precedence over
   discovery" (`discovery/profile.py:126`, in Russian).  `IdsAreKept` says what is left.

Four more meet a comment or a message of the repository.  They have no run of their own:
each is a single path of the code that the modules contain, and the property beside it
says exactly what still holds.

- `llm.py:197` catches `RuntimeError`, `TypeError` and `ValueError` only, and
  `_with_deterministic_fallback` two kinds.  Any other failure, such as a connection that
  ends within an answer (`http.client.IncompleteRead`), ends the question with usable
  routes unasked, although "an LLM may degrade but must not turn a check into a technical
  failure" (`agent/llm_model.py:331`).  The answer `escapes` of `AgentReasoning` is this
  failure; `FailoverInOrder` does not say that a question is answered.
- A failed read of ports is skipped (`executor/runtime_telemetry.py:241`), although "we
  record the gap in the timeline" (`executor/runtime_telemetry.py:401`).  `GapsAreNoted`
  is about states and logs.
- "The gate ends all finding reports, so we draw it after the report card even with the
  same time stamp" (`frontend/src/lib/timeline.ts:229`): this holds of finished runs
  (`GateIsLast`).  While a run goes on for more than 100 s, the fallback time of the gate
  is earlier than that of findings that came before it.
- "The proposal changes files outside the original finding scope."
  (`fix_verification/service.py:147`) is what a patch is refused with, but the scan reads
  `+++` lines only.  Renames, copies, changes of mode, binary patches, new empty files and
  deletions have none or name `/dev/null`, and a `+++` path without prefix is compared as
  it stands while `git apply` strips its first directory.  `VerifiedIsEarned` says that
  the names are those of the finding, not that the changes are.

Noted without a run, as no document of the repository says otherwise:

- `delete_chat_session` refuses while a run is queued or running, not while it is
  cancelling (`api/store.py`), which is how 2 can happen.
- A run that is cancelled while it is queued can hold its lease for the moment
  before `mark_running` refuses it.
- A restored run has lost its chat: its outcome is not posted.
- `run_pipeline` raises `SystemExit`, which nobody in a worker catches.
- A run that is being cancelled while the process ends can stay "cancelling" until
  the next start.
- Action ids keep 96 characters of the finding id, so of two findings of one rule
  the second one is denied by the limiter and ends inconclusive.
- The policy allows 5 iterations and the agent state 8 steps, so the sixth
  iteration is reported as blocked by policy, not as out of budget.
- After an overlap the process can keep the paths of a pipeline that has ended, and
  a record can be looked for in the other directory; the finding is then
  inconclusive.
- A cancelled sandbox leaves no record of its run.
- A session that could not be cleaned up for an OSError raises out of its teardown;
  a `docker rm` that fails is not noticed (`raise_on_failure=False`); a copy that fails
  half way in the framework adapter leaves its build context.
- The container of a lab that did not start in time stays until its session is torn
  down, which then ends FAILED.
- The other two adapters have no compose project, so a pipeline that needs services
  ends with "Sandbox has no ready services".
- In a graph with a lab, a `sandbox_command` opens the container of the lab and is then
  denied, as the lab is no `DockerSandbox` (`executor/executor.py:519`): commands run only
  in a pipeline without a session.
- The class of an LLM error is that of the first sign in its text, which may be quoted
  from another error.
- An exception after `register_generated` removes the workspace of an import but not
  its entry in the registry; a crash leaves the directory of the upload for ever.
- The browser takes the progress of a newer import back when the timer of an older one
  (2500 ms) ends.
- Progress counts the last 500 events, so a long run seems to go back.  A finding may
  be reported finished twice.
- An older answer of polling may overwrite a newer event until the next one comes.
- A cut of the telemetry keeps the earliest
  events, so late errors go first.  Containers of Compose lack the label by which they
  are found when the state could not be collected.  A log line that is split at a
  carriage return and goes on with a date without a zone makes the sort raise, which
  turns a pipeline that is done into a technical failure.
- The worker takes a computed `read_only_fields` for an empty one, looks only at the
  first sink that names the field, and takes the user of an earlier stage for missing.
  Output that is not UTF-8 fails it.

## 8. What is left out, and why

- SQLite errors, disk full for the database, and more than one server process.
- Floats: CPU is counted in integer units.
- Removal of projects, rendering of answers, wording, layout, logging.
- `TEST_*` severities, by which a synthetic finding dictates its outcome to the stub
  model.
- `target_file` (nobody reads it when a profile is at hand) and `base_url`.
- Runtime and telemetry evidence as an input of the graph: it never decides a verdict.
  Its collection is `RuntimeTelemetry`.
- The parsing of manifests, the requests and commands of the worker (they keep no
  state of the project), ports and addresses of the service map.
- The script that lists models of providers: requests and formatting.
- The components that section 1 lists and `PROJECT.json` marks `not_modelled`, with
  the reason there.
