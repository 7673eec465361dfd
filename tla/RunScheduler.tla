--------------------------- MODULE RunScheduler ---------------------------
(***************************************************************************)
(* api/scheduler.py, RunScheduler: a FIFO queue, a fixed set of worker     *)
(* threads and one cancellation token per submitted run.                   *)
(*                                                                         *)
(* submit is two actions, Register under the lock and Put after it, so     *)
(* close can come between them.  close is Shut (stop accepting and copy    *)
(* the tokens, under the lock), one SignalNext per copied token and one    *)
(* PutPill per worker; the join only waits.  A worker that meets a         *)
(* cancelled token skips the callback.  A callback that raises anything    *)
(* but RunCancelled ends its worker thread: _worker has no other handler.  *)
(***************************************************************************)
EXTENDS RunNames, Naturals, Sequences, FiniteSets

CONSTANTS
    Workers,
    Pill        \* the None that tells a worker to return

ASSUME SchedulerAssumption ==
    /\ Pill \notin Runs
    /\ IsFiniteSet(Workers)

VARIABLES
    tokens,     \* keys of _tokens
    signalled,  \* runs whose registered token is cancelled
    putting,    \* submit calls between the lock and _queue.put
    queue,      \* _queue
    worker,     \* state of each worker thread
    job,        \* its current run, or NoRun
    stage,      \* progress of close(); _accepting is stage = "open"
    copied,     \* tokens copied by close() and not yet cancelled
    pills       \* pills put by close()

schedVars == <<tokens, signalled, putting, queue, worker, job, stage, copied, pills>>

SchedTypeOK ==
    /\ tokens \in SUBSET Runs
    /\ signalled \in SUBSET tokens
    /\ putting \in SUBSET tokens
    /\ queue \in Seq(Runs \cup {Pill})
    /\ worker \in [Workers -> {"idle", "busy", "exited", "dead"}]
    /\ job \in [Workers -> Runs \cup {NoRun}]
    /\ stage \in {"open", "closing"}
    /\ copied \in SUBSET Runs
    /\ pills \in Nat

SchedInit ==
    /\ tokens = {}
    /\ signalled = {}
    /\ putting = {}
    /\ queue = <<>>
    /\ worker = [w \in Workers |-> "idle"]
    /\ job = [w \in Workers |-> NoRun]
    /\ stage = "open"
    /\ copied = {}
    /\ pills = 0

---------------------------------------------------------------------------
\* submit and cancel

Accepting == stage = "open"

Register(r) ==
    /\ Accepting
    /\ r \notin tokens
    /\ tokens' = tokens \cup {r}
    /\ putting' = putting \cup {r}
    /\ UNCHANGED <<signalled, queue, worker, job, stage, copied, pills>>

Put(r) ==
    /\ r \in putting
    /\ putting' = putting \ {r}
    /\ queue' = Append(queue, r)
    /\ UNCHANGED <<tokens, signalled, worker, job, stage, copied, pills>>

\* Mutant: cancel makes a token for a run that has none.
SignalAny(r) ==
    /\ signalled' = signalled \cup {r}
    /\ UNCHANGED <<tokens, putting, queue, worker, job, stage, copied, pills>>

\* cancel does nothing for a run that has no token (any more).
Signal(r) ==
    /\ signalled' = signalled \cup ({r} \cap tokens)
    /\ UNCHANGED <<tokens, putting, queue, worker, job, stage, copied, pills>>

---------------------------------------------------------------------------
\* close

\* Mutant: close does not cancel the tokens.
ShutOnly ==
    /\ stage = "open"
    /\ stage' = "closing"
    /\ copied' = {}
    /\ UNCHANGED <<tokens, signalled, putting, queue, worker, job, pills>>

Shut ==
    /\ stage = "open"
    /\ stage' = "closing"
    /\ copied' = tokens
    /\ UNCHANGED <<tokens, signalled, putting, queue, worker, job, pills>>

SignalNext(r) ==
    /\ r \in copied
    /\ copied' = copied \ {r}
    /\ signalled' = signalled \cup ({r} \cap tokens)
    /\ UNCHANGED <<tokens, putting, queue, worker, job, stage, pills>>

PutPill ==
    /\ stage = "closing"
    /\ copied = {}
    /\ pills < Cardinality(Workers)
    /\ pills' = pills + 1
    /\ queue' = Append(queue, Pill)
    /\ UNCHANGED <<tokens, signalled, putting, worker, job, stage, copied>>

---------------------------------------------------------------------------
\* _worker

\* The finally clause: the token is dropped, the worker goes to state.
Drop(w, r, state) ==
    /\ tokens' = tokens \ {r}
    /\ signalled' = signalled \ {r}
    /\ worker' = [worker EXCEPT ![w] = state]
    /\ UNCHANGED <<putting, stage, copied, pills>>

Ready(w) == worker[w] = "idle" /\ queue # <<>>

\* Mutant: the job stays in the queue while it is executed.
TakePeeks(w) ==
    /\ Ready(w)
    /\ Head(queue) \in Runs \ signalled
    /\ worker' = [worker EXCEPT ![w] = "busy"]
    /\ job' = [job EXCEPT ![w] = Head(queue)]
    /\ UNCHANGED <<tokens, signalled, putting, queue, stage, copied, pills>>

Take(w) ==
    /\ Ready(w)
    /\ Head(queue) \in Runs \ signalled
    /\ queue' = Tail(queue)
    /\ worker' = [worker EXCEPT ![w] = "busy"]
    /\ job' = [job EXCEPT ![w] = Head(queue)]
    /\ UNCHANGED <<tokens, signalled, putting, stage, copied, pills>>

\* Mutant: the token of a skipped job is not dropped.
SkipKeeps(w) ==
    /\ Ready(w)
    /\ Head(queue) \in signalled
    /\ queue' = Tail(queue)
    /\ UNCHANGED <<tokens, signalled, putting, worker, job, stage, copied, pills>>

Skip(w) ==
    /\ Ready(w)
    /\ Head(queue) \in signalled
    /\ queue' = Tail(queue)
    /\ Drop(w, Head(queue), "idle")
    /\ UNCHANGED job

Exit(w) ==
    /\ Ready(w)
    /\ Head(queue) = Pill
    /\ queue' = Tail(queue)
    /\ worker' = [worker EXCEPT ![w] = "exited"]
    /\ UNCHANGED <<tokens, signalled, putting, job, stage, copied, pills>>

\* The callback returned or raised RunCancelled.
Return(w) ==
    /\ worker[w] = "busy"
    /\ Drop(w, job[w], "idle")
    /\ job' = [job EXCEPT ![w] = NoRun]
    /\ UNCHANGED queue

\* The callback raised something else.
Die(w) ==
    /\ worker[w] = "busy"
    /\ Drop(w, job[w], "dead")
    /\ job' = [job EXCEPT ![w] = NoRun]
    /\ UNCHANGED queue

---------------------------------------------------------------------------
\* A new process: a new scheduler, to which the runs of q were submitted.

SchedBoot(q) ==
    /\ tokens' = {q[i] : i \in DOMAIN q}
    /\ signalled' = {}
    /\ putting' = {}
    /\ queue' = q
    /\ worker' = [w \in Workers |-> "idle"]
    /\ job' = [w \in Workers |-> NoRun]
    /\ stage' = "open"
    /\ copied' = {}
    /\ pills' = 0

\* Orderings of a set of runs.
Orders(S) == {q \in [1 .. Cardinality(S) -> S] :
                 \A i, j \in DOMAIN q : q[i] = q[j] => i = j}

WorkerStep(w) == Take(w) \/ Skip(w) \/ Exit(w) \/ Return(w) \/ Die(w)

CloseStep == Shut \/ PutPill \/ \E r \in Runs : SignalNext(r)

CallerStep(r) == Register(r) \/ Put(r) \/ Signal(r)

Boot == \E S \in SUBSET Runs : \E q \in Orders(S) : SchedBoot(q)

SchedNext ==
    \/ \E w \in Workers : WorkerStep(w)
    \/ \E r \in Runs : CallerStep(r)
    \/ CloseStep
    \/ Boot

SchedSpec == SchedInit /\ [][SchedNext]_schedVars

---------------------------------------------------------------------------
\* Properties

Queued(r) == \E i \in DOMAIN queue : queue[i] = r

Busy(r) == \E w \in Workers : job[w] = r

\* A run is in one place at a time, and in one position of the queue or
\* with one worker there: two workers never execute the same run.
OneWorkerPerRun ==
    /\ \A r \in Runs : /\ ~(r \in putting /\ Queued(r))
                       /\ ~(r \in putting /\ Busy(r))
                       /\ ~(Queued(r) /\ Busy(r))
    /\ \A i, j \in DOMAIN queue : queue[i] = queue[j] /\ queue[i] # Pill => i = j
    /\ \A v, w \in Workers : job[v] = job[w] /\ job[v] # NoRun => v = w

\* A token is registered exactly as long as its run is on the way to the
\* queue, in it, or with a worker: cancel always finds the token of a run
\* that can still be stopped, and no token outlives its run.
TokenTracksRun ==
    \A r \in Runs : r \in tokens <=> r \in putting \/ Queued(r) \/ Busy(r)

\* Once close has put its first pill, no token that is still registered is
\* live, so no callback starts any more: Register checks _accepting in the
\* critical section in which close copies the tokens.
ClosedIsSignalled == pills > 0 => tokens = signalled
===========================================================================
