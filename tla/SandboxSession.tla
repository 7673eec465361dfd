-------------------------- MODULE SandboxSession --------------------------
(***************************************************************************)
(* executor/sandbox_session.py and executor/sandbox_manager.py: one        *)
(* managed session of the target, from open to teardown.  A session of     *)
(* docker_compose is a SandboxSession inside a ManagedSandboxSession; the   *)
(* two other adapters build one image and run one container.               *)
(*                                                                         *)
(* Docker is external: live is what exists under the label of the session. *)
(* A command succeeds, fails, times out, is stopped because the run was    *)
(* cancelled (pipeline/subprocess_runner.py), or cannot be started at all  *)
(* ("broken", an OSError, which no except clause of the teardown expects). *)
(* A command that does not succeed may have done a part of its work.       *)
(***************************************************************************)
EXTENDS Naturals, FiniteSets

VARIABLES
    adapter,    \* which adapter SandboxManager selected
    pc,         \* the command to run next
    phase,      \* who tears down: SandboxSession.start, the managed start after it, or teardown
    sstatus,    \* SandboxSession.info.status (compose only)
    managed,    \* ManagedSandboxSession.status
    closed,     \* ManagedSandboxSession._closed
    tornDown,   \* SandboxSession._torn_down
    doubt,      \* verification_errors is not empty
    failure,    \* what start raised, and what the caller sees
    cancelled,  \* the token of the run
    live,       \* external: docker resources of the session
    guests,     \* external: containers of others that run in its network
    dir         \* the working directory, or the build context, exists

sessionVars == <<adapter, pc, phase, sstatus, managed, closed, tornDown, doubt,
                 failure, cancelled, live, guests, dir>>

Adapters == {"docker_compose", "dockerfile", "framework"}

Kinds == IF adapter = "docker_compose" THEN {"container", "network", "volume"}
                                       ELSE {"container", "image"}

Preparing == {"prepare", "up", "down_between", "up_again", "wait", "collect",
              "build", "run", "health"}

TearingDown == {"down", "remove", "verify", "rm_container", "rm_image"}

\* "cleanup": an exception of the teardown itself.
Ends == {"none", "cancelled", "timeout", "error", "cleanup"}

SessionTypeOK ==
    /\ adapter \in Adapters
    /\ pc \in {"new", "ready", "over"} \cup Preparing \cup TearingDown
    /\ phase \in {"start", "again", "exit"}
    /\ sstatus \in {"created", "preparing", "starting", "ready", "tearing_down",
                    "closed", "failed", "timed_out"}
    /\ managed \in {"created", "starting", "ready", "timed_out", "failed",
                    "tearing_down", "closed"}
    /\ {closed, tornDown, doubt, cancelled, dir} \subseteq BOOLEAN
    /\ failure \in Ends
    /\ live \subseteq {"container", "network", "volume", "image"}
    /\ guests \subseteq {"lab", "probe", "sequence"}

SessionInit ==
    /\ adapter = "docker_compose"
    /\ pc = "new"
    /\ phase = "start"
    /\ sstatus = "created"
    /\ managed = "created"
    /\ failure = "none"
    /\ closed = FALSE
    /\ tornDown = FALSE
    /\ doubt = FALSE
    /\ cancelled = FALSE
    /\ dir = FALSE
    /\ live = {}
    /\ guests = {}

---------------------------------------------------------------------------
\* Commands

\* run_cancellable_process looks at the token before anything else; during
\* a teardown the token is suspended.
Outcomes == IF cancelled /\ pc \notin TearingDown THEN {"cancelled"}
                                                  ELSE {"ok", "failed", "timeout", "broken"}

\* What a removal may leave: docker keeps a network in which others run.
Removed == {left \in SUBSET live :
               guests # {} /\ "network" \in live => "network" \in left}

Goes(to) == pc' = to

Raised(o) == IF o \in {"cancelled", "timeout"} THEN o ELSE "error"

\* Mutant: the status is the reason.
ManagedFailsAs(why) == managed' = IF why = "cancelled" THEN "cancelled" ELSE "failed"

ManagedFails(why) == managed' = IF why = "timeout" THEN "timed_out" ELSE "failed"

FirstOfTeardown == IF adapter = "docker_compose" THEN "down" ELSE "rm_container"

\* Mutant: a cancelled start is not torn down.
StartFailsUnlessCancelled(o) ==
    /\ failure' = Raised(o)
    /\ sstatus' = "failed"
    /\ Goes(IF o = "cancelled" THEN "over" ELSE FirstOfTeardown)
    /\ UNCHANGED <<adapter, phase, managed, closed, tornDown, doubt, cancelled, guests, dir>>

\* The except clauses of start: status, teardown, raise.
StartFails(o) ==
    /\ failure' = Raised(o)
    /\ sstatus' = IF adapter # "docker_compose" THEN sstatus
                  ELSE IF o = "timeout" THEN "timed_out" ELSE "failed"
    /\ Goes(FirstOfTeardown)
    /\ UNCHANGED <<adapter, phase, managed, closed, tornDown, doubt, cancelled, guests, dir>>

Continue(to, sstatus1) ==
    /\ Goes(to)
    /\ sstatus' = sstatus1
    /\ UNCHANGED <<adapter, phase, managed, closed, tornDown, doubt, failure,
                   cancelled, guests, dir>>

---------------------------------------------------------------------------
\* open and start

Open(a) ==
    /\ pc = "new"
    /\ adapter' = a
    /\ managed' = "starting"
    /\ dir' = (a # "dockerfile")
    /\ Goes(IF a = "docker_compose" THEN "prepare" ELSE "build")
    /\ UNCHANGED <<phase, sstatus, closed, tornDown, doubt, failure, cancelled, live, guests>>

\* No service fits, or a path leaves the repository: nothing was created.
OpenFails(a) ==
    /\ pc = "new"
    /\ adapter' = a
    /\ failure' = "error"
    /\ Goes("over")
    /\ UNCHANGED <<phase, sstatus, managed, closed, tornDown, doubt, cancelled, live, guests, dir>>

\* FrameworkAdapter.open cannot copy the target into the context it made.
CopyFails ==
    /\ pc = "new"
    /\ adapter' = "framework"
    /\ failure' = "error"
    /\ dir' = TRUE
    /\ Goes("over")
    /\ UNCHANGED <<phase, sstatus, managed, closed, tornDown, doubt, cancelled, live, guests>>

\* config, its validation, the override, and config again.
Prepare ==
    /\ pc = "prepare"
    /\ \E o \in Outcomes :
          IF o = "ok" THEN Continue("up", "starting") ELSE StartFails(o)
    /\ UNCHANGED live

\* A failure or a timeout of the first up is answered by a down and a
\* second up.
Up ==
    /\ pc = "up"
    /\ \E o \in Outcomes :
          /\ live' \in IF o = "ok" THEN {Kinds} ELSE SUBSET Kinds
          /\ CASE o = "ok" -> Continue("wait", sstatus)
               [] o \in {"failed", "timeout"} -> Continue("down_between", sstatus)
               [] OTHER -> StartFails(o)

DownBetween ==
    /\ pc = "down_between"
    /\ \E o \in Outcomes :
          /\ live' \in IF o = "ok" THEN {{}} ELSE SUBSET live
          /\ IF o \in {"ok", "failed"} THEN Continue("up_again", sstatus) ELSE StartFails(o)

UpAgain ==
    /\ pc = "up_again"
    /\ \E o \in Outcomes :
          /\ live' \in IF o = "ok" THEN {Kinds} ELSE {live \cup more : more \in SUBSET Kinds}
          /\ IF o = "ok" THEN Continue("wait", sstatus) ELSE StartFails(o)

\* Every turn of the loop looks at the token, then at the health of the
\* services; "failed" (not healthy yet) leads to the next turn.
WaitUntilReady ==
    /\ pc = "wait"
    /\ \E o \in Outcomes \ {"failed"} :
          IF o = "ok" THEN Continue("collect", "ready") ELSE StartFails(o)
    /\ UNCHANGED live

CollectState ==
    /\ pc = "collect"
    /\ \E o \in Outcomes :
          IF o \in {"ok", "failed"}
          THEN /\ Goes("ready")
               /\ managed' = "ready"
               /\ UNCHANGED <<adapter, phase, sstatus, closed, tornDown, doubt, failure,
                              cancelled, guests, dir>>
          ELSE StartFails(o)
    /\ UNCHANGED live

BuildImage ==
    /\ pc = "build"
    /\ \E o \in Outcomes :
          /\ live' \in IF o = "ok" THEN {{"image"}} ELSE {{}, {"image"}}
          /\ IF o = "ok" THEN Continue("run", sstatus) ELSE StartFails(o)

RunImage ==
    /\ pc = "run"
    /\ \E o \in Outcomes :
          /\ live' \in IF o = "ok" THEN {Kinds} ELSE {live, Kinds}
          /\ IF o = "ok" THEN Continue("health", sstatus) ELSE StartFails(o)

\* Without a healthcheck nothing is waited for, and the token not read.
WaitHealth ==
    /\ pc = "health"
    /\ \E o \in (Outcomes \ {"failed"}) \cup {"ok"} :
          IF o = "ok"
          THEN /\ Goes("ready")
               /\ managed' = "ready"
               /\ UNCHANGED <<adapter, phase, sstatus, closed, tornDown, doubt, failure,
                              cancelled, guests, dir>>
          ELSE StartFails(o)
    /\ UNCHANGED live

---------------------------------------------------------------------------
\* teardown

\* The body of the with statement ends: returned, or raised why.
LeaveSession(why) ==
    /\ pc = "ready"
    /\ failure' = why
    /\ phase' = "exit"
    /\ managed' = "tearing_down"
    /\ Goes(FirstOfTeardown)
    /\ UNCHANGED <<adapter, sstatus, closed, tornDown, doubt, cancelled, live, guests, dir>>

\* The managed session is done: its start raises, or teardown returns.
\* Its second teardown after a failed start finds _torn_down set.
ManagedEnds ==
    /\ Goes("over")
    /\ closed' = TRUE
    /\ IF phase = "exit" THEN managed' = "closed" ELSE ManagedFails(failure)
    /\ UNCHANGED <<adapter, phase, failure, cancelled, guests>>

\* An exception escapes the teardown.  During SandboxSession.start the
\* managed session tries once more; after that, only its own teardown
\* still sets _closed, in the finally clause.
TeardownRaises ==
    /\ CASE phase = "start" /\ adapter = "docker_compose" ->
              /\ phase' = "again"
              /\ Goes("down")
              /\ UNCHANGED <<managed, closed>>
         [] phase = "exit" ->
              /\ Goes("over")
              /\ closed' = TRUE
              /\ managed' = "closed"
              /\ UNCHANGED phase
         [] OTHER ->
              /\ Goes("over")
              /\ ManagedFails(failure)
              /\ UNCHANGED <<phase, closed>>
    /\ failure' = "cleanup"
    /\ UNCHANGED <<adapter, tornDown, doubt, cancelled, guests>>

Down ==
    /\ pc = "down"
    /\ sstatus' = "tearing_down"
    /\ \E o \in Outcomes :
          /\ live' \in IF o = "ok" THEN {live \cap (IF guests = {} THEN {} ELSE {"network"})}
                                   ELSE Removed
          /\ IF o = "broken"
             THEN TeardownRaises
             ELSE /\ Goes(IF o = "ok" THEN "verify" ELSE "remove")
                  /\ UNCHANGED <<adapter, phase, managed, closed, tornDown, doubt, failure,
                                 cancelled, guests>>
    /\ UNCHANGED dir

\* The fallback by label: a failed removal is not an error, a failed
\* listing or a timeout is.
RemoveByLabel ==
    /\ pc = "remove"
    /\ live' \in Removed
    /\ \/ /\ doubt' \in BOOLEAN
          /\ Goes("verify")
          /\ UNCHANGED <<adapter, phase, managed, closed, tornDown, failure, cancelled, guests>>
       \/ TeardownRaises
    /\ UNCHANGED <<sstatus, dir>>

\* Mutant: a kind that could not be listed counts as empty.
VerifyWhatIsSeen ==
    /\ pc = "verify"
    /\ \E seen \in SUBSET Kinds :
          sstatus' = IF doubt \/ seen \cap live # {} THEN "failed" ELSE "closed"
    /\ tornDown' = TRUE
    /\ dir' = FALSE
    /\ ManagedEnds
    /\ UNCHANGED <<doubt, live>>

\* What is left, and what cannot be listed, makes the session FAILED.
Verify ==
    /\ pc = "verify"
    /\ \/ /\ \E seen \in SUBSET Kinds :
                sstatus' = IF doubt \/ seen # Kinds \/ seen \cap live # {}
                           THEN "failed" ELSE "closed"
          /\ tornDown' = TRUE
          /\ dir' = FALSE
          /\ ManagedEnds
          /\ UNCHANGED doubt
       \/ TeardownRaises /\ UNCHANGED <<sstatus, dir>>
    /\ UNCHANGED live

\* A failed removal is allowed; a timeout skips the rest.
RemoveContainer ==
    /\ pc = "rm_container"
    /\ \E o \in Outcomes :
          /\ live' \in IF o = "ok" THEN {live \ {"container"}} ELSE {live, live \ {"container"}}
          /\ IF o \in {"ok", "failed"}
             THEN Goes("rm_image") /\ UNCHANGED <<adapter, phase, managed, closed, tornDown,
                                        doubt, failure, cancelled, guests, dir>>
             ELSE TeardownRaises /\ dir' = FALSE
    /\ UNCHANGED sstatus

RemoveImage ==
    /\ pc = "rm_image"
    /\ \E o \in Outcomes :
          /\ live' \in IF o = "ok" THEN {live \ {"image"}} ELSE {live, live \ {"image"}}
          /\ IF o \in {"ok", "failed"} THEN ManagedEnds /\ UNCHANGED <<tornDown, doubt>>
                                       ELSE TeardownRaises
    /\ dir' = FALSE
    /\ UNCHANGED sstatus

CancelSession ==
    /\ pc \notin {"new", "over"}
    /\ ~cancelled
    /\ cancelled' = TRUE
    /\ UNCHANGED <<adapter, pc, phase, sstatus, managed, closed, tornDown, doubt, failure,
                   live, guests, dir>>

SessionStep ==
    \/ Prepare \/ Up \/ DownBetween \/ UpAgain \/ WaitUntilReady \/ CollectState
    \/ BuildImage \/ RunImage \/ WaitHealth
    \/ Down \/ RemoveByLabel \/ Verify \/ RemoveContainer \/ RemoveImage

---------------------------------------------------------------------------
\* Properties

\* A session of Compose that ends CLOSED has removed everything it created,
\* and nobody is left in its network, whatever failed on the way: a lab
\* container that was left behind keeps the network, and so turns the
\* session FAILED.
ClosedIsClean == sstatus = "closed" => live = {} /\ guests = {} /\ ~dir

===========================================================================
