-------------------------- MODULE ResourceBudget --------------------------
(***************************************************************************)
(* api/scheduler.py, ResourceBudget and ResourceLease: the sandboxes, CPU  *)
(* and memory shared by all runs.  Every run of a process asks for the     *)
(* same need, the _request that RunOrchestrator reads from the settings    *)
(* when it is made.  CPU is counted in integer units.                      *)
(***************************************************************************)
EXTENDS RunNames, Naturals, FiniteSets

CONSTANTS
    Dims,       \* "sandboxes", "cpu", "memory_mb"
    Capacity,   \* ResourceBudget._capacity
    Needs       \* the ResourceRequests the settings may give a process

ASSUME BudgetAssumption ==
    /\ Capacity \in [Dims -> Nat]
    /\ Needs \subseteq [Dims -> Nat]

VARIABLES
    need,       \* RunOrchestrator._request
    used,       \* ResourceBudget._used
    held        \* runs whose lease is not released

budgetVars == <<need, used, held>>

BudgetTypeOK ==
    /\ need \in Needs
    /\ used \in [Dims -> Nat]
    /\ held \in SUBSET Runs

BudgetInit ==
    /\ need \in Needs
    /\ used = [d \in Dims |-> 0]
    /\ held = {}

\* Mutant: the check forgets to add the request.
FitsNow == \A d \in Dims : used[d] <= Capacity[d]

Fits == \A d \in Dims : used[d] + need[d] <= Capacity[d]

\* Mutant: no _validate_request.
NeverOversized == FALSE

\* _validate_request raises: waiting would never end.
Oversized == \E d \in Dims : need[d] > Capacity[d]

Acquire(r) ==
    /\ ~Oversized
    /\ Fits
    /\ r \notin held
    /\ used' = [d \in Dims |-> used[d] + need[d]]
    /\ held' = held \cup {r}
    /\ UNCHANGED need

\* max(0, a - b) of _release
Reduce(a, b) == IF a > b THEN a - b ELSE 0

\* Mutant: _released is not checked.
ReleaseAgain(r) ==
    /\ used' = [d \in Dims |-> Reduce(used[d], need[d])]
    /\ held' = held \ {r}
    /\ UNCHANGED need

\* Releasing twice, or without a lease, gives nothing back.
Release(r) ==
    /\ used' = IF r \in held THEN [d \in Dims |-> Reduce(used[d], need[d])]
                             ELSE used
    /\ held' = held \ {r}
    /\ UNCHANGED need

\* A new process starts with an empty budget.
BudgetBoot ==
    /\ need' \in Needs
    /\ used' = [d \in Dims |-> 0]
    /\ held' = {}

BudgetNext ==
    \/ \E r \in Runs : Acquire(r) \/ Release(r)
    \/ BudgetBoot

BudgetSpec == BudgetInit /\ [][BudgetNext]_budgetVars

---------------------------------------------------------------------------
\* Properties

\* The budget is exactly what the open leases took: the clamp of _release
\* never hides a double release, and nothing stays booked once every lease
\* is released (ResourceLease.release, ResourceBudget._release).
NothingLost == \A d \in Dims : used[d] = need[d] * Cardinality(held)

\* The runs that hold a lease never need more than the machine has
\* (ResourceBudget.acquire).
NeverOverbooked == \A d \in Dims : need[d] * Cardinality(held) <= Capacity[d]
===========================================================================
