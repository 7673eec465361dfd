--------------------------- MODULE Orchestrator ---------------------------
(***************************************************************************)
(* api/service.py, RunOrchestrator: API calls on the threads of the   *)
(* web server create, cancel and delete, while the workers of RunScheduler *)
(* execute _execute_run under the ResourceBudget and record every step in  *)
(* RunStore.                                                               *)
(*                                                                         *)
(* A call or a callback is cut into steps where another thread can run and *)
(* be noticed: at every transaction of the store, every critical section   *)
(* of the scheduler and the budget, and every read of the token.           *)
(* A step that only reads is merged with the one that acts on the reading  *)
(* when what it read cannot change in between.                             *)
(*                                                                         *)
(* The pipeline (app/ci_pipeline.py) is here only what _execute_run sees   *)
(* of it: an exit code with readable artifacts or not, RunCancelled,       *)
(* another exception, or SystemExit.                                       *)
(***************************************************************************)
EXTENDS RunStore, ResourceBudget, RunScheduler

CONSTANTS
    Clients,        \* threads that serve API calls
    NoChat,         \* the None of chat_session_id
    ListLimit,      \* close() looks at the newest 500 runs
    MaxRestarts,    \* bound: restarts of the process
    Faults          \* what may happen: "delete", "close", "crash", "raise",
                    \* "exit" (SystemExit), "lost" (repository gone)

ASSUME OrchestratorAssumption ==
    /\ NoChat \notin Sessions
    /\ ListLimit \in Nat
    /\ MaxRestarts \in Nat

VARIABLES
    call,       \* what each client thread is doing
    jobChat,    \* the chat_session_id captured by the callback of each run
    step,       \* where the callback of each worker is
    fate,       \* how the callback of each worker ends: exit code, flag, exception
    closed,     \* _closed
    toClose,    \* runs close() has still to cancel
    closing,    \* the run whose token close() cancels next
    restarts

memVars == <<call, jobChat, step, fate, closed, toClose, closing, restarts>>

vars == <<storeVars, budgetVars, schedVars, memVars>>

Chats == Sessions \cup {NoChat}

\* chat: the session the call is about; run: the active run it read, then
\* the run it created.
Calls == [at : {"idle", "decide", "insert", "link", "register", "signal"},
          chat : Chats, run : Runs \cup {NoRun}]

Idle == [at |-> "idle", chat |-> NoChat, run |-> NoRun]

Steps == {"none", "acquire", "start", "pipeline", "save", "summary", "finish",
          "error", "fail", "release", "mark", "done"}

Fates == {"none", "cancelled", "raised"} \cup Results

MemTypeOK ==
    /\ call \in [Clients -> Calls]
    /\ jobChat \in [Runs -> Chats]
    /\ step \in [Workers -> Steps]
    /\ fate \in [Workers -> Fates]
    /\ closed \in BOOLEAN
    /\ toClose \in SUBSET Runs
    /\ closing \in Runs \cup {NoRun}
    /\ restarts \in 0 .. MaxRestarts

TypeOK == StoreTypeOK /\ BudgetTypeOK /\ SchedTypeOK /\ MemTypeOK

MemInit ==
    /\ call = [c \in Clients |-> Idle]
    /\ jobChat = [r \in Runs |-> NoChat]
    /\ step = [w \in Workers |-> "none"]
    /\ fate = [w \in Workers |-> "none"]
    /\ closed = FALSE
    /\ toClose = {}
    /\ closing = NoRun
    /\ restarts = 0

Init ==
    /\ StoreInit /\ BudgetInit /\ SchedInit
    /\ MemInit

---------------------------------------------------------------------------
\* API calls

OnlyStore == UNCHANGED <<budgetVars, schedVars>>

OnlySched == UNCHANGED <<storeVars, budgetVars>>

OnlyMemory == UNCHANGED <<storeVars, budgetVars, schedVars>>

Goto(c, at, s, r) ==
    /\ call' = [call EXCEPT ![c] = [at |-> at, chat |-> s, run |-> r]]
    /\ UNCHANGED <<jobChat, step, fate, closed, toClose, closing, restarts>>

Ends(c) == Goto(c, "idle", NoChat, NoRun)

At(c, where) == call[c].at = where

\* Bound: no call begins that would need one run more than Runs has.
NameLeft ==
    Cardinality({c \in Clients : At(c, "insert") \/ (At(c, "decide") /\ call[c].run = NoRun)})
        < Cardinality(Runs \ Known)

\* POST /runs: create_run, from its check of _closed on.
CallRun(c) ==
    /\ NameLeft
    /\ At(c, "idle") /\ ~closed
    /\ Goto(c, "insert", NoChat, NoRun)
    /\ OnlyMemory

\* POST /chat-sessions and DELETE /chat-sessions/{id} are one transaction
\* each: they come from any thread, at any time, and hold none of Clients.
CallOpen(s) ==
    /\ OpenChat(s)
    /\ UNCHANGED memVars /\ OnlyStore

CallDelete(s) ==
    /\ "delete" \in Faults
    /\ DeleteChat(s)
    /\ UNCHANGED memVars /\ OnlyStore

\* send_chat_message: the session row is read once, at the start.
CallMessage(c, s) ==
    /\ NameLeft \/ activeRun[s] # NoRun
    /\ At(c, "idle") /\ chat[s] = "open"
    /\ Goto(c, "decide", s, activeRun[s])
    /\ OnlyMemory

\* A run the message was sent to is still active, is finished and was asked
\* about, or the session is gone: the call answers or raises.
Answer(c) ==
    /\ At(c, "decide")
    /\ \/ chat[call[c].chat] # "open"
       \/ call[c].run # NoRun
       \/ closed
    /\ Ends(c) /\ OnlyMemory

\* No run yet, or a finished one and the text asks for a new analysis.
Analyse(c) ==
    /\ At(c, "decide") /\ ~closed
    /\ chat[call[c].chat] = "open"
    /\ call[c].run = NoRun \/ (call[c].run \notin ActiveRuns /\ NameLeft)
    /\ Goto(c, "insert", call[c].chat, NoRun)
    /\ OnlyMemory

\* create_run: the row of the new run ...
CreateRow(c, r) ==
    /\ At(c, "insert")
    /\ InsertRun(r)
    /\ Goto(c, IF call[c].chat = NoChat THEN "register" ELSE "link", call[c].chat, r)
    /\ OnlyStore

\* ... its chat ...
LinkChat(c) ==
    /\ At(c, "link")
    /\ SetChatRun(call[c].chat, call[c].run)
    /\ Goto(c, "register", call[c].chat, call[c].run)
    /\ OnlyStore

\* ... which may have been deleted since: the row stays, never submitted ...
LinkFails(c) ==
    /\ At(c, "link")
    /\ chat[call[c].chat] # "open"
    /\ Ends(c) /\ OnlyMemory

\* ... and the scheduler.
Submit(c) ==
    /\ At(c, "register")
    /\ Register(call[c].run)
    /\ call' = [call EXCEPT ![c] = Idle]
    /\ jobChat' = [jobChat EXCEPT ![call[c].run] = call[c].chat]
    /\ UNCHANGED <<step, fate, closed, toClose, closing, restarts>>
    /\ OnlySched

\* submit raises when the scheduler is closed: the row stays queued.
SubmitFails(c) ==
    /\ At(c, "register") /\ ~Accepting
    /\ Ends(c) /\ OnlyMemory

SubmitPut(r) ==
    /\ Put(r)
    /\ UNCHANGED memVars /\ OnlySched

\* Mutant: only a run that was still queued gets its token cancelled.
CallCancelQueued(c, r) ==
    /\ At(c, "idle")
    /\ RequestCancel(r)
    /\ IF AfterCancel(r) = "cancelled" THEN Goto(c, "signal", NoChat, r) ELSE Ends(c)
    /\ OnlyStore

\* POST /runs/{id}/cancel: the transaction, then the token.
CallCancel(c, r) ==
    /\ At(c, "idle")
    /\ RequestCancel(r)
    /\ IF AfterCancel(r) \in {"cancelling", "cancelled"}
       THEN Goto(c, "signal", NoChat, r)
       ELSE Ends(c)
    /\ OnlyStore

CancelToken(c) ==
    /\ At(c, "signal")
    /\ Signal(call[c].run)
    /\ Ends(c) /\ OnlySched

CreateCall(c) ==
    \/ CallRun(c)
    \/ Answer(c)
    \/ Analyse(c)
    \/ \E r \in Runs : CreateRow(c, r)
    \/ LinkChat(c)
    \/ LinkFails(c)
    \/ Submit(c)
    \/ SubmitFails(c)

CancelCall(c) == CancelToken(c) \/ \E r \in Runs : CallCancel(c, r)

ChatCall(c) == \E s \in Sessions : CallOpen(s) \/ CallDelete(s) \/ CallMessage(c, s)

---------------------------------------------------------------------------
\* _execute_run on worker w

InStep(w, at) == step[w] = at /\ worker[w] = "busy"

\* The callback goes on to step at; its end so far is f.
On(w, at, f) ==
    /\ step' = [step EXCEPT ![w] = at]
    /\ fate' = [fate EXCEPT ![w] = f]
    /\ UNCHANGED <<call, jobChat, closed, toClose, closing, restarts>>

TokenCancelled(w) == job[w] \in signalled

\* Mutant: mark_cancelled before the lease is released.
CancelledFirst(w) == On(w, "mark", "cancelled") /\ OnlyMemory

\* RunCancelled: from here only the lease and the status are left to do.
Cancelled(w) == On(w, "release", "cancelled") /\ OnlyMemory

\* Mutant: the except clause posts no error message.
RaisedSilently(w) == On(w, "fail", "none") /\ OnlyMemory

Raised(w) == On(w, "error", "none") /\ OnlyMemory

WorkerTakes(w) ==
    /\ Take(w)
    /\ On(w, "acquire", "none")
    /\ OnlySched

WorkerIdles(w) ==
    /\ Skip(w) \/ Exit(w)
    /\ UNCHANGED memVars /\ OnlySched

\* acquire polls until the request fits or the token is cancelled.
GetLease(w) ==
    /\ InStep(w, "acquire") /\ ~TokenCancelled(w)
    /\ Acquire(job[w])
    /\ On(w, "start", "none")
    /\ UNCHANGED <<storeVars, schedVars>>

\* acquire checks the request against the capacity before it reads the token.
NeverFits(w) ==
    /\ InStep(w, "acquire")
    /\ Oversized
    /\ Raised(w)

\* The token is read while waiting for the lease (of a request that could
\* fit), after it, and after the pipeline, which also reads it on its own.
SeesCancel(w) ==
    /\ \E at \in {"acquire", "start", "pipeline", "save"} : InStep(w, at)
    /\ InStep(w, "acquire") => ~Oversized
    /\ TokenCancelled(w)
    /\ Cancelled(w)

\* mark_running fails when the run was cancelled while queued.
StartRun(w) ==
    /\ InStep(w, "start") /\ ~TokenCancelled(w)
    /\ MarkRunning(job[w])
    /\ IF MayStart(job[w]) THEN On(w, "pipeline", "none") ELSE On(w, "release", "none")
    /\ OnlyStore

PipelineReturns(w) ==
    /\ InStep(w, "pipeline")
    /\ \E result \in Results : On(w, "save", result)
    /\ OnlyMemory

PipelineExits(w) ==
    /\ "exit" \in Faults
    /\ InStep(w, "pipeline")
    /\ On(w, "release", "raised")
    /\ OnlyMemory

\* The pipeline raised, or its artifacts cannot be read or stored.
PipelineRaises(w) ==
    /\ "raise" \in Faults
    /\ InStep(w, "pipeline") \/ (InStep(w, "save") /\ ~TokenCancelled(w))
    /\ Raised(w)

\* Mutant: the results are left to be stored later.
SaveResultsLater(w) ==
    /\ InStep(w, "save") /\ ~TokenCancelled(w)
    /\ On(w, IF jobChat[job[w]] = NoChat THEN "finish" ELSE "summary", fate[w])
    /\ OnlyMemory

SaveResults(w) ==
    /\ InStep(w, "save") /\ ~TokenCancelled(w)
    /\ ReplaceResults(job[w])
    /\ On(w, IF jobChat[job[w]] = NoChat THEN "finish" ELSE "summary", fate[w])
    /\ OnlyStore

PostSummary(w) ==
    /\ InStep(w, "summary")
    /\ Post(jobChat[job[w]], job[w], "summary")
    /\ On(w, "finish", fate[w])
    /\ OnlyStore

\* append_chat_message raised, into the except clause.
SummaryFails(w) ==
    /\ InStep(w, "summary")
    /\ chat[jobChat[job[w]]] # "open"
    /\ Raised(w)

\* Mutant: the row count of mark_finished is ignored.
FinishRunBlindly(w) ==
    /\ InStep(w, "finish")
    /\ MarkFinished(job[w], fate[w])
    /\ On(w, "release", "none")
    /\ OnlyStore

\* A refused mark_finished means the run is being cancelled.
FinishRun(w) ==
    /\ InStep(w, "finish")
    /\ MarkFinished(job[w], fate[w])
    /\ On(w, "release", IF status[job[w]] = "cancelling" THEN "cancelled" ELSE "none")
    /\ OnlyStore

\* The except clause: the error message ...
PostError(w) ==
    /\ InStep(w, "error")
    /\ jobChat[job[w]] # NoChat
    /\ Post(jobChat[job[w]], job[w], "error")
    /\ On(w, "fail", "none")
    /\ OnlyStore

\* ... which itself raises when the chat is gone, and mark_failed is skipped.
ErrorFails(w) ==
    /\ InStep(w, "error")
    /\ jobChat[job[w]] # NoChat
    /\ chat[jobChat[job[w]]] # "open"
    /\ On(w, "release", "raised")
    /\ OnlyMemory

FailRun(w) ==
    /\ InStep(w, "fail") \/ (InStep(w, "error") /\ jobChat[job[w]] = NoChat)
    /\ MarkFailed(job[w])
    /\ On(w, "release", "none")
    /\ OnlyStore

\* Mutant: release is not in a finally clause, a cancelled run skips it.
ReleaseLeaseUnlessCancelled(w) ==
    /\ InStep(w, "release")
    /\ IF fate[w] = "cancelled" THEN UNCHANGED budgetVars ELSE Release(job[w])
    /\ On(w, IF fate[w] = "cancelled" THEN "mark" ELSE "done", fate[w])
    /\ UNCHANGED <<storeVars, schedVars>>

\* The finally clause.
ReleaseLease(w) ==
    /\ InStep(w, "release")
    /\ Release(job[w])
    /\ On(w, IF fate[w] = "cancelled" THEN "mark" ELSE "done", fate[w])
    /\ UNCHANGED <<storeVars, schedVars>>

MarkStopped(w) ==
    /\ InStep(w, "mark")
    /\ MarkCancelled(job[w])
    /\ On(w, "done", fate[w])
    /\ OnlyStore

WorkerDone(w) ==
    /\ InStep(w, "done")
    /\ IF fate[w] = "raised" THEN Die(w) ELSE Return(w)
    /\ On(w, "none", "none")
    /\ OnlySched

\* The steps that follow without waiting for anything outside the service.
Bookkeeping(w) ==
    \/ WorkerTakes(w)
    \/ WorkerIdles(w)
    \/ GetLease(w)
    \/ NeverFits(w)
    \/ SeesCancel(w)
    \/ StartRun(w)
    \/ SaveResults(w)
    \/ PostSummary(w)
    \/ SummaryFails(w)
    \/ FinishRun(w)
    \/ PostError(w)
    \/ ErrorFails(w)
    \/ FailRun(w)
    \/ ReleaseLease(w)
    \/ MarkStopped(w)
    \/ WorkerDone(w)

Pipeline(w) == PipelineReturns(w) \/ PipelineExits(w) \/ PipelineRaises(w)

---------------------------------------------------------------------------
\* close() and the next process

CloseService ==
    /\ "close" \in Faults
    /\ ~closed
    /\ closed' = TRUE
    /\ toClose' = Newest(ListLimit) \cap ActiveRuns
    /\ UNCHANGED <<call, jobChat, step, fate, closing, restarts>>
    /\ OnlyMemory

\* cancel_run for one listed run: the transaction, then the token.
CloseRun(r) ==
    /\ closing = NoRun
    /\ r \in toClose
    /\ RequestCancel(r)
    /\ toClose' = toClose \ {r}
    /\ closing' = IF AfterCancel(r) \in {"cancelling", "cancelled"} THEN r ELSE NoRun
    /\ UNCHANGED <<call, jobChat, step, fate, closed, restarts>>
    /\ OnlyStore

CloseToken ==
    /\ closing # NoRun
    /\ Signal(closing)
    /\ closing' = NoRun
    /\ UNCHANGED <<call, jobChat, step, fate, closed, toClose, restarts>>
    /\ OnlySched

CloseScheduler ==
    /\ closed /\ toClose = {} /\ closing = NoRun
    /\ CloseStep
    /\ UNCHANGED memVars /\ OnlySched

CloseReturned == stage = "closing" /\ pills = Cardinality(Workers)

\* queued_jobs: ORDER BY created_at
InOrder(q) == \A i, j \in DOMAIN q : i < j => born[q[i]] < born[q[j]]

\* A new process: no calls, no callbacks, not closed.
MemBoot ==
    /\ call' = [c \in Clients |-> Idle]
    /\ jobChat' = [r \in Runs |-> NoChat]
    /\ step' = [w \in Workers |-> "none"]
    /\ fate' = [w \in Workers |-> "none"]
    /\ closed' = FALSE
    /\ toClose' = {}
    /\ closing' = NoRun
    /\ restarts' = restarts + 1

\* The process is killed at any point, or ends after close() (whose join
\* gives up after 10 seconds per worker), and a new one restores the store.
\* Chats are not restored with their runs: queued_jobs has no session.
\* The constructor submits the restored runs one by one, before the service
\* answers calls; a worker that starts on the first meanwhile finds the same
\* queue as one that starts after the last, and a kill in between leaves a
\* store that a kill after the last one can leave too.  So one step stands
\* for the loop.
Restart(gone) ==
    /\ "crash" \in Faults \/ CloseReturned
    /\ restarts < MaxRestarts
    /\ gone = {} \/ "lost" \in Faults
    /\ StoreBoot(gone)
    /\ BudgetBoot
    /\ \E q \in Orders({r \in Runs : status'[r] = "queued"}) : InOrder(q) /\ SchedBoot(q)
    /\ MemBoot

Shutdown == CloseService \/ CloseToken \/ CloseScheduler \/ \E r \in Runs : CloseRun(r)

---------------------------------------------------------------------------

Next ==
    \/ \E c \in Clients : CreateCall(c) \/ CancelCall(c) \/ ChatCall(c)
    \/ \E r \in Runs : SubmitPut(r)
    \/ \E w \in Workers : Bookkeeping(w) \/ Pipeline(w)
    \/ Shutdown
    \/ \E gone \in SUBSET Runs : Restart(gone)

Spec == Init /\ [][Next]_vars

\* A call that began goes on, workers and the closing thread run: threads
\* are scheduled.  Nothing makes a new call, a fault or a restart happen.
Proceed(c) ==
    \/ Answer(c) \/ Analyse(c)
    \/ \E r \in Runs : CreateRow(c, r)
    \/ LinkChat(c) \/ LinkFails(c) \/ Submit(c) \/ SubmitFails(c)
    \/ CancelToken(c)

Threads ==
    /\ \A c \in Clients : WF_vars(Proceed(c))
    /\ \A r \in Runs : WF_vars(SubmitPut(r))
    /\ \A w \in Workers : WF_vars(Bookkeeping(w))
    /\ WF_vars(CloseToken \/ CloseScheduler \/ \E r \in Runs : CloseRun(r))

\* The pipeline may hang for ever, as long as it reads its token.
HangSpec == Spec /\ Threads

\* Every command of the pipeline has a timeout, so it returns.
FairSpec == HangSpec /\ \A w \in Workers : WF_vars(PipelineReturns(w))

---------------------------------------------------------------------------
\* Safety

\* The budget follows the work: no lease outlives the callback that took it,
\* and nothing from mark_running to mark_finished happens without one
\* (_execute_run: acquire before, release in the finally clause).
LeaseFollowsWork ==
    /\ \A r \in held : \E w \in Workers :
           job[w] = r /\ step[w] \notin {"none", "acquire", "mark", "done"}
    /\ \A w \in Workers :
           step[w] \in {"start", "pipeline", "save", "summary", "finish"} => job[w] \in held

\* A run that was being cancelled is reported as cancelled only after its
\* lease is back in the budget (_execute_run: release, then mark_cancelled).
StoppedAfterRelease ==
    [][\A r \in Runs :
          status[r] = "cancelling" /\ status'[r] = "cancelled" => r \notin held]_vars

\* As long as the service is open, no run is forgotten: a queued run is being
\* created or has a token, and a worker is at work on a run that is running
\* or being cancelled.  (close(), a deleted chat or a SystemExit of the
\* pipeline break this; see the README.)
NothingForgotten ==
    ~closed => \A r \in Runs :
        /\ status[r] = "queued" =>
               r \in tokens \/ \E c \in Clients : /\ call[c].run = r
                                                  /\ call[c].at \in {"link", "register"}
        /\ status[r] \in {"running", "cancelling"} => Busy(r)

\* A verdict rests on results: a completed run and a run whose summary is in
\* a chat have their findings and evidence stored (replace_results comes
\* before the summary and mark_finished).
VerdictHasResults ==
    /\ \A r \in Runs : status[r] = "completed" => r \in stored
    /\ \A p \in posted : p[3] = "summary" => p[2] \in stored

\* The chat that asked learns the outcome, and one outcome: when its run has
\* completed or failed, the session has a summary or an error message of it,
\* never both.
ChatLearnsOutcome ==
    \A r \in Runs : \A s \in Sessions :
        /\ jobChat[r] = s /\ chat[s] = "open" /\ status[r] \in Results =>
               \E kind \in Verdicts : <<s, r, kind>> \in posted
        /\ ~(<<s, r, "summary">> \in posted /\ <<s, r, "error">> \in posted)

\* Every step of the service moves runs only along the promised life cycle:
\* a final status is final, whatever threads, restarts and faults do.
KeepsLifecycle == Lifecycle!LifecycleSpec

---------------------------------------------------------------------------
\* Liveness

\* Every run that was created ends, even when the service is killed and
\* started again in between.
EveryRunEnds == \A r \in Runs : status[r] \in Active ~> status[r] \in Final

\* Cancelling ends even when the pipeline would never return, and so it
\* gives its worker and its lease back.  (A process that is closing gives the
\* lease back too, and may leave the status to the next one.)
CancelEnds ==
    \A r \in Runs :
        status[r] = "cancelling" ~> (r \notin held /\ (status[r] \in Final \/ closed))

\* close() comes to rest: every worker stops and every lease is back, although
\* new calls, queued runs and hanging pipelines were there when it began, and
\* although close() lists only the newest ListLimit runs.
ShutdownEnds ==
    closed ~> (held = {} /\ \A w \in Workers : worker[w] \in {"exited", "dead"})

---------------------------------------------------------------------------
\* What the code or its documents say and the service does not do

\* api/service.py:495 (translated): the analysis is already running, I do
\* not start a second sandbox in parallel.
OneActiveRunPerChat ==
    \A s \in Sessions : Cardinality(linked[s] \cap ActiveRuns) <= 1

\* api/scheduler.py:115 (translated): a FIFO queue with a fixed number of
\* worker threads.
WorkersStay == \A w \in Workers : worker[w] # "dead"
===========================================================================
