---------------------------- MODULE RunLimiter ----------------------------
(***************************************************************************)
(* executor/sandbox.py, RunLimiter: how often one action id and how many   *)
(* sandboxes at once may run in one work directory.  RunLimiter.shared     *)
(* keeps one limiter per directory, so threads meet in it.  acquire is two *)
(* critical sections, the count and the semaphore, and a third that takes  *)
(* the count back when no permit is free.                                  *)
(***************************************************************************)
EXTENDS Naturals, PipelineNames

CONSTANTS
    Dirs,           \* work directories
    Ids,            \* action ids
    MaxRuns,        \* max_runs_per_action
    MaxConcurrent   \* max_concurrent_runs

ASSUME LimiterAssumption ==
    /\ MaxRuns \in Nat
    /\ MaxConcurrent \in Nat

VARIABLES
    counts,     \* _action_counts of the limiter of each directory
    permits,    \* free permits of its semaphore
    gate        \* where each thread is in acquire, and with which limiter

limiterVars == <<counts, permits, gate>>

Outside == [at |-> "out", dir |-> "none", id |-> "none"]

Gates == {Outside} \cup [at : {"counted", "refused", "inside"}, dir : Dirs, id : Ids]

LimiterTypeOK ==
    /\ counts \in [Dirs -> [Ids -> Nat]]
    /\ permits \in [Dirs -> 0 .. MaxConcurrent]
    /\ gate \in [Pipelines -> Gates]

LimiterInit ==
    /\ counts = [d \in Dirs |-> [i \in Ids |-> 0]]
    /\ permits = [d \in Dirs |-> MaxConcurrent]
    /\ gate = [p \in Pipelines |-> Outside]

\* Mutant: one execution too many.
SpentLate(d, id) == counts[d][id] > MaxRuns

Spent(d, id) == counts[d][id] >= MaxRuns

Count(p, d, id) ==
    /\ gate[p] = Outside
    /\ ~Spent(d, id)
    /\ counts' = [counts EXCEPT ![d][id] = @ + 1]
    /\ gate' = [gate EXCEPT ![p] = [at |-> "counted", dir |-> d, id |-> id]]
    /\ UNCHANGED permits

\* Mutant: the semaphore is only counted down.
EnterAnyway(p) ==
    /\ gate[p].at = "counted"
    /\ permits' = [permits EXCEPT ![gate[p].dir] = @ - 1]
    /\ gate' = [gate EXCEPT ![p].at = "inside"]
    /\ UNCHANGED counts

Enter(p) ==
    /\ gate[p].at = "counted"
    /\ permits[gate[p].dir] > 0
    /\ permits' = [permits EXCEPT ![gate[p].dir] = @ - 1]
    /\ gate' = [gate EXCEPT ![p].at = "inside"]
    /\ UNCHANGED counts

Refuse(p) ==
    /\ gate[p].at = "counted"
    /\ permits[gate[p].dir] = 0
    /\ gate' = [gate EXCEPT ![p].at = "refused"]
    /\ UNCHANGED <<counts, permits>>

Uncount(p) ==
    /\ gate[p].at = "refused"
    /\ counts' = [counts EXCEPT ![gate[p].dir][gate[p].id] = @ - 1]
    /\ gate' = [gate EXCEPT ![p] = Outside]
    /\ UNCHANGED permits

\* release: BoundedSemaphore raises, and release ignores it, when every
\* permit is already free.
Leave(p) ==
    /\ gate[p].at = "inside"
    /\ permits' = [permits EXCEPT ![gate[p].dir] =
                      IF @ < MaxConcurrent THEN @ + 1 ELSE @]
    /\ gate' = [gate EXCEPT ![p] = Outside]
    /\ UNCHANGED counts

---------------------------------------------------------------------------
\* Properties

Inside(d) == {p \in Pipelines : gate[p].at = "inside" /\ gate[p].dir = d}

\* A permit is either free or held by a thread inside: no path out of the
\* sandbox (result, exception, RunCancelled) loses one or gives one twice,
\* and no directory has more sandboxes than max_concurrent_runs.
PermitsBalanced == \A d \in Dirs : permits[d] + Cardinality(Inside(d)) = MaxConcurrent
===========================================================================
