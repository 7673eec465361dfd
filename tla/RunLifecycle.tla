--------------------------- MODULE RunLifecycle ---------------------------
(***************************************************************************)
(* What a client of the analysis API is promised about one run: a run is   *)
(* created as "queued", moves forward through the statuses of              *)
(* schemas/api.py, and a final status is never left.  Nothing is said of   *)
(* threads, locks, the database or restarts.  RunStore and Orchestrator    *)
(* implement this specification.                                           *)
(***************************************************************************)

CONSTANT Runs

VARIABLE status

Active == {"queued", "running", "cancelling"}

Final == {"cancelled", "completed", "technical_failure"}

\* "absent": no row for the run yet.
Statuses == {"absent"} \cup Active \cup Final

LifecycleInit == status = [r \in Runs |-> "absent"]

Move(r, from, to) ==
    /\ status[r] = from
    /\ status' = [status EXCEPT ![r] = to]

Create(r) == Move(r, "absent", "queued")

Start(r) == Move(r, "queued", "running")

Withdraw(r) == Move(r, "queued", "cancelled")

AskStop(r) == Move(r, "running", "cancelling")

Complete(r) == Move(r, "running", "completed")

Stopped(r) == Move(r, "cancelling", "cancelled")

\* One failing run, or every interrupted run when the service starts again.
Fail(S) ==
    /\ \A r \in S : status[r] \in Active
    /\ status' = [r \in Runs |-> IF r \in S THEN "technical_failure" ELSE status[r]]

LifecycleNext ==
    \/ \E r \in Runs : \/ Create(r)
                       \/ Start(r)
                       \/ Withdraw(r)
                       \/ AskStop(r)
                       \/ Complete(r)
                       \/ Stopped(r)
    \/ \E S \in SUBSET Runs : Fail(S)

LifecycleSpec == LifecycleInit /\ [][LifecycleNext]_status
===========================================================================
