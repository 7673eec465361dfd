----------------------------- MODULE AgentLab -----------------------------
(***************************************************************************)
(* The body of a pipeline that holds a sandbox session (app/ci_pipeline.py)*)
(* : the map of its services (executor/runtime_service_map.py), then one   *)
(* graph per finding, whose actions run in a sandbox (executor/sandbox.py) *)
(* that executor/executor.py selects: a process, a container per action, a *)
(* container for one sequence, or the lab of agent/lab.py, which serves    *)
(* all actions of the finding once an action has opened it.                *)
(***************************************************************************)
EXTENDS SandboxSession

CONSTANTS
    MaxFindings,
    MaxActions  \* the budget of one graph (agent/loop.py)

ASSUME LabBounds == MaxFindings \in Nat /\ MaxActions \in Nat

VARIABLES
    step,       \* where the body is
    backend,    \* the policy's sandbox: "process" or "docker"
    managedLab, \* is the graph in a ManagedAgentLab (agent_mode llm)
    lab,        \* _managed_lab: "none", "made", or "started"
    sandbox,    \* SafeExecutor._sandbox of the current executor
    unwinding,  \* the exception that leaves the graph
    todo,       \* findings that are left
    budget,     \* actions the graph may still take
    dead        \* the process group of the service was killed

labVars == <<step, backend, managedLab, lab, sandbox, unwinding, todo, budget, dead>>

LabTypeOK ==
    /\ step \in {"map", "findings", "graph", "act", "close", "leave"}
    /\ backend \in {"process", "docker"}
    /\ lab \in {"none", "made", "started"}
    /\ sandbox \in {"process", "docker", "sequence", "lab"}
    /\ unwinding \in {"none", "cancelled", "error"}
    /\ todo \in 0 .. MaxFindings
    /\ budget \in 0 .. MaxActions
    /\ {managedLab, dead} \subseteq BOOLEAN

LabInit ==
    /\ step = "map"
    /\ backend = "process"
    /\ managedLab = FALSE
    /\ lab = "none"
    /\ sandbox = "process"
    /\ unwinding = "none"
    /\ todo = MaxFindings
    /\ budget = 0
    /\ dead = FALSE

Holds(where) == pc = "ready" /\ step = where /\ ~dead

SessionKept == UNCHANGED <<adapter, pc, phase, sstatus, managed, closed, tornDown,
                           doubt, failure, cancelled, live, dir>>

\* docker run --detach: it succeeds, or it fails or times out and may
\* have started the container all the same.
Detached(name, ok) == guests' \in IF ok THEN {guests \cup {name}}
                                        ELSE {guests, guests \cup {name}}

\* docker rm --force: whether it removed the container is not looked at.
RemovedAnyway(name) == guests' \in {guests, guests \ {name}}

---------------------------------------------------------------------------
\* RuntimeServiceMapBuilder.build

\* Only Compose names a network, and only its services can become ready:
\* by their health, or by a probe from a container in that network.
BuildMap ==
    /\ Holds("map")
    /\ ~cancelled
    /\ backend' \in {"process", "docker"}
    /\ managedLab' \in BOOLEAN
    /\ \/ /\ adapter = "docker_compose"
          /\ guests' \in {guests, guests \cup {"probe"}}
          /\ step' = "findings"
          /\ UNCHANGED unwinding
       \/ /\ guests' \in IF adapter = "docker_compose" THEN {guests, guests \cup {"probe"}}
                                                       ELSE {guests}
          /\ step' = "leave"
          /\ unwinding' = "error"
    /\ UNCHANGED <<lab, sandbox, todo, budget, dead>>
    /\ SessionKept

\* check_cancelled, wherever the pipeline looks between two things.
CancelledBetween ==
    /\ Holds("map") \/ Holds("findings")
    /\ cancelled
    /\ step' = "leave"
    /\ unwinding' = "cancelled"
    /\ UNCHANGED <<backend, managedLab, lab, sandbox, todo, budget, dead, guests>>
    /\ SessionKept

---------------------------------------------------------------------------
\* One finding: ManagedAgentLab.__enter__, the actions of the graph, __exit__

BeginGraph ==
    /\ Holds("findings")
    /\ ~cancelled
    /\ todo > 0
    /\ todo' = todo - 1
    /\ budget' = MaxActions
    /\ sandbox' = backend
    /\ step' = "graph"
    /\ UNCHANGED <<backend, managedLab, lab, unwinding, dead, guests>>
    /\ SessionKept

LeaveGraph(why) ==
    /\ step' = "close"
    /\ unwinding' = why
    /\ UNCHANGED <<backend, managedLab, sandbox, todo>>

\* The report is made, a node raised, or the token is seen before an action.
GraphEnds ==
    /\ Holds("graph")
    /\ \/ cancelled /\ LeaveGraph("cancelled")
       \/ ~cancelled /\ \E why \in {"none", "error"} : LeaveGraph(why)
    /\ UNCHANGED <<lab, budget, dead, guests>>
    /\ SessionKept

\* open_managed_lab, before a sandbox_command: a second call finds the lab.
\* The runtime is stored before it is started; once it is, the command is
\* denied all the same, for the lab is no DockerSandbox (executor.py:519).
OpenLab ==
    /\ Holds("graph")
    /\ ~cancelled
    /\ budget > 0
    /\ budget' = budget - 1
    /\ managedLab
    /\ lab = "none"
    /\ \E ok \in BOOLEAN :
          /\ Detached("lab", ok)
          /\ lab' = IF ok THEN "started" ELSE "made"
          /\ IF ok THEN sandbox' = "lab" /\ UNCHANGED <<step, backend, managedLab, unwinding, todo>>
                   ELSE LeaveGraph("error")
    /\ UNCHANGED dead
    /\ SessionKept

\* Any action that _execute_one denies before its sandbox is asked.
DenyAction ==
    /\ Holds("graph")
    /\ ~cancelled
    /\ budget > 0
    /\ budget' = budget - 1
    /\ UNCHANGED <<step, backend, managedLab, lab, sandbox, unwinding, todo, dead, guests>>
    /\ SessionKept

\* execute_sequence: what is not denied runs in the lab while there is one.
\* An action that needs the target network and finds no lab gets a container
\* of its own for the sequence, and without a lab a sandbox_command asks
\* for Docker whatever the policy says.
BeginAction ==
    /\ Holds("graph")
    /\ ~cancelled
    /\ budget > 0
    /\ budget' = budget - 1
    /\ \/ /\ sandbox' \in IF lab = "started" THEN {"lab"}
                          ELSE IF managedLab THEN {backend} ELSE {backend, "docker"}
          /\ step' = "act"
          /\ UNCHANGED <<backend, managedLab, unwinding, todo, guests>>
       \/ /\ lab = "none"
          /\ backend = "docker"
          /\ \E ok \in BOOLEAN :
                /\ Detached("sequence", ok)
                /\ IF ok THEN /\ sandbox' = "sequence"
                              /\ step' = "act"
                              /\ UNCHANGED <<backend, managedLab, unwinding, todo>>
                         ELSE LeaveGraph("error")
    /\ UNCHANGED <<lab, dead>>
    /\ SessionKept

\* DockerSequenceRuntime.close at the end of its with statement.
CloseSequence == IF sandbox = "sequence" THEN RemovedAnyway("sequence") ELSE UNCHANGED guests

\* The worker answers, or fails.
ActionEnds ==
    /\ Holds("act")
    /\ CloseSequence
    /\ sandbox' = IF lab = "started" THEN "lab" ELSE backend
    /\ step' = "graph"
    /\ UNCHANGED <<backend, managedLab, lab, unwinding, todo, budget, dead>>
    /\ SessionKept

\* ProcessSandbox gives its worker a process group of its own (setsid in
\* preexec_fn), which is killed when it takes too long or is cancelled.
StopProcess ==
    /\ Holds("act")
    /\ sandbox = "process"
    /\ IF cancelled THEN LeaveGraph("cancelled")
                    ELSE step' = "graph" /\ UNCHANGED <<backend, managedLab, sandbox, unwinding, todo>>
    /\ UNCHANGED <<lab, budget, dead, guests>>
    /\ SessionKept

\* A docker client is stopped in the same way (_communicate_bounded), but
\* its process group is that of the service, which dies with it.
StopClient ==
    /\ Holds("act")
    /\ sandbox # "process"
    /\ dead' = TRUE
    /\ UNCHANGED <<step, backend, managedLab, lab, sandbox, unwinding, todo, budget, guests>>
    /\ SessionKept

\* close_managed_lab: a runtime that has no id is not removed.  A failed
\* finding does not stop the next one; a cancelled one does.
CloseLab ==
    /\ Holds("close")
    /\ IF lab = "started" THEN RemovedAnyway("lab") ELSE UNCHANGED guests
    /\ lab' = "none"
    /\ sandbox' = backend
    /\ step' = IF unwinding = "cancelled" THEN "leave" ELSE "findings"
    /\ UNCHANGED <<backend, managedLab, unwinding, todo, budget, dead>>
    /\ SessionKept

AllFindingsDone ==
    /\ Holds("findings")
    /\ todo = 0
    /\ step' = "leave"
    /\ unwinding' = "none"
    /\ UNCHANGED <<backend, managedLab, lab, sandbox, todo, budget, dead, guests>>
    /\ SessionKept

---------------------------------------------------------------------------
\* The session and its body

BodyStep == \/ BuildMap \/ CancelledBetween \/ BeginGraph \/ GraphEnds \/ OpenLab
            \/ DenyAction \/ BeginAction \/ ActionEnds \/ StopProcess \/ StopClient
            \/ CloseLab \/ AllFindingsDone

SandboxStep ==
    /\ ~dead
    /\ \/ SessionStep
       \/ step = "leave" /\ LeaveSession(unwinding)
    /\ UNCHANGED labVars

SandboxCall ==
    /\ ~dead
    /\ \/ \E a \in Adapters : Open(a) \/ OpenFails(a)
       \/ CopyFails
       \/ CancelSession
    /\ UNCHANGED labVars

sandboxVars == <<sessionVars, labVars>>

SandboxInit == SessionInit /\ LabInit

SandboxNext == SandboxCall \/ SandboxStep \/ BodyStep

SandboxSpec == SandboxInit /\ [][SandboxNext]_sandboxVars

\* Commands end, by their timeout if nothing else; a graph has a budget.
SandboxFair == WF_sandboxVars(SandboxStep) /\ WF_sandboxVars(BodyStep)

SandboxTypeOK == SessionTypeOK /\ LabTypeOK

---------------------------------------------------------------------------
\* Properties

\* A worker that is stopped, because it takes too long or because its run
\* was cancelled, never takes the service with it.
ServiceSurvives == ~dead

\* A session that was begun is torn down in the end, whatever fails and
\* whenever the run is cancelled, unless the teardown itself raises.
SessionsEnd == pc \in Preparing ~> dead \/ (pc = "over" /\ (closed \/ failure = "cleanup"))
===========================================================================
