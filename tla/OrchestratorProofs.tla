------------------------ MODULE OrchestratorProofs ------------------------
(***************************************************************************)
(* The service as a whole, for every number of runs, workers, clients and  *)
(* sessions, every budget and every combination of faults.                 *)
(*                                                                         *)
(* First, composition: each step of the orchestrator is, for each of its   *)
(* three components, one of the component's own operations or none at all. *)
(* So what was proved of the components holds in the service.  Then what   *)
(* only the orchestrator can guarantee: the lease follows the work, a      *)
(* verdict has results, the chat learns of it, no run is forgotten, and a  *)
(* chat has one active run as long as its messages take turns.             *)
(***************************************************************************)
EXTENDS Orchestrator, RunStoreProofs, RunSchedulerProofs

\* Where calls and callbacks can be, and what they then hold.
ControlInv ==
    /\ MemTypeOK
    /\ \A c \in Clients :
           /\ call[c].at \in {"decide", "link"} => call[c].chat \in Sessions
           /\ call[c].at \in {"link", "register", "signal"} => call[c].run \in Runs
    /\ \A w \in Workers :
           /\ step[w] = "none" <=> worker[w] # "busy"
           /\ step[w] = "summary" => jobChat[job[w]] \in Sessions
           /\ step[w] \in {"save", "summary", "finish"} => fate[w] \in Results

Inv ==
    /\ StoreTypeOK
    /\ BudgetInv
    /\ SchedInv
    /\ ControlInv
    /\ LeaseFollowsWork

LEMMA BusyJob ==
    ASSUME SchedInv, NEW w \in Workers, worker[w] = "busy"
    PROVE  job[w] \in Runs /\ job[w] \in tokens
  <1>1. job[w] \in Runs
    BY DEF SchedInv, SchedTypeOK, JobsMatch
  <1> QED
    BY <1>1 DEF SchedInv, TokenTracksRun, Busy

LEMMA ChatCases ==
    \A r \in Runs : MemTypeOK => jobChat[r] = NoChat \/ jobChat[r] \in Sessions
  BY DEF MemTypeOK, Chats

---------------------------------------------------------------------------
\* Composition: the store

LEMMA CallStore ==
    ASSUME Inv, NEW c \in Clients, CreateCall(c) \/ CancelCall(c) \/ ChatCall(c)
    PROVE  [StoreNext]_storeVars
  <1> USE DEF StoreNext
  <1>1. CASE CallRun(c) \/ Answer(c) \/ Analyse(c) \/ LinkFails(c) \/ SubmitFails(c)
    BY <1>1 DEF CallRun, Answer, Analyse, LinkFails, SubmitFails, OnlyMemory
  <1>2. ASSUME NEW r \in Runs, CreateRow(c, r) PROVE StoreNext
    BY <1>2 DEF CreateRow, RunTransaction
  <1>3. CASE LinkChat(c)
    <2>1. call[c].chat \in Sessions /\ call[c].run \in Runs
      BY <1>3 DEF LinkChat, At, Inv, ControlInv
    <2> QED
      BY <1>3, <2>1 DEF LinkChat, ChatTransaction
  <1>4. CASE Submit(c) \/ CancelToken(c)
    BY <1>4 DEF Submit, CancelToken, OnlySched
  <1>5. ASSUME NEW r \in Runs, CallCancel(c, r) PROVE StoreNext
    BY <1>5 DEF CallCancel, RunTransaction
  <1>6. ASSUME NEW s \in Sessions, CallOpen(s) \/ CallDelete(s) PROVE StoreNext
    BY <1>6 DEF CallOpen, CallDelete, ChatTransaction
  <1>7. ASSUME NEW s \in Sessions, CallMessage(c, s) PROVE UNCHANGED storeVars
    BY <1>7 DEF CallMessage, OnlyMemory
  <1> HIDE DEF StoreNext
  <1> QED
    BY <1>1, <1>2, <1>3, <1>4, <1>5, <1>6, <1>7 DEF CreateCall, CancelCall, ChatCall

LEMMA WorkerStore ==
    ASSUME Inv, NEW w \in Workers, Bookkeeping(w) \/ Pipeline(w)
    PROVE  [StoreNext]_storeVars
  <1>1. CASE WorkerTakes(w) \/ WorkerIdles(w) \/ WorkerDone(w)
    BY <1>1 DEF WorkerTakes, WorkerIdles, WorkerDone, OnlySched
  <1>2. CASE GetLease(w) \/ ReleaseLease(w)
    BY <1>2 DEF GetLease, ReleaseLease
  <1>3. CASE NeverFits(w) \/ SeesCancel(w) \/ SummaryFails(w) \/ ErrorFails(w) \/ Pipeline(w)
    BY <1>3 DEF NeverFits, SeesCancel, SummaryFails, ErrorFails, Pipeline, PipelineReturns,
                PipelineExits, PipelineRaises, Raised, Cancelled, OnlyMemory
  <1>4. ASSUME worker[w] = "busy",
               \/ MarkRunning(job[w])
               \/ ReplaceResults(job[w])
               \/ \E result \in Results : MarkFinished(job[w], result)
               \/ MarkFailed(job[w])
               \/ MarkCancelled(job[w])
        PROVE  StoreNext
    <2>1. job[w] \in Runs
      BY <1>4, BusyJob DEF Inv
    <2>2. RunTransaction(job[w])
      BY <1>4 DEF RunTransaction
    <2> QED
      BY <2>1, <2>2 DEF StoreNext
  <1>5. CASE StartRun(w) \/ SaveResults(w) \/ FailRun(w) \/ MarkStopped(w)
    BY <1>4, <1>5 DEF StartRun, SaveResults, FailRun, MarkStopped, InStep
  <1>6. CASE FinishRun(w)
    <2>1. fate[w] \in Results
      BY <1>6 DEF FinishRun, InStep, Inv, ControlInv
    <2> QED
      BY <1>4, <1>6, <2>1 DEF FinishRun, InStep
  <1>7. ASSUME worker[w] = "busy", jobChat[job[w]] \in Sessions, NEW kind \in Verdicts,
               Post(jobChat[job[w]], job[w], kind)
        PROVE  StoreNext
    <2>1. job[w] \in Runs
      BY <1>7, BusyJob DEF Inv
    <2>2. ChatTransaction(jobChat[job[w]])
      BY <1>7, <2>1 DEF ChatTransaction
    <2> QED
      BY <1>7, <2>2 DEF StoreNext
  <1>8. CASE PostSummary(w)
    <2>1. jobChat[job[w]] \in Sessions
      BY <1>8 DEF PostSummary, InStep, Inv, ControlInv
    <2> QED
      BY <1>7, <1>8, <2>1 DEF PostSummary, InStep, Verdicts
  <1>9. CASE PostError(w)
    <2>1. job[w] \in Runs
      BY <1>9, BusyJob DEF PostError, InStep, Inv
    <2>2. jobChat[job[w]] \in Sessions
      BY <1>9, <2>1, ChatCases DEF PostError, Inv, ControlInv
    <2> QED
      BY <1>7, <1>9, <2>2 DEF PostError, InStep, Verdicts
  <1> QED
    BY <1>1, <1>2, <1>3, <1>5, <1>6, <1>8, <1>9 DEF Bookkeeping

LEMMA StoreComposes == Inv /\ [Next]_vars => [StoreNext]_storeVars
  <1> SUFFICES ASSUME Inv, [Next]_vars PROVE [StoreNext]_storeVars
    OBVIOUS
  <1>1. ASSUME NEW c \in Clients, CreateCall(c) \/ CancelCall(c) \/ ChatCall(c)
        PROVE  [StoreNext]_storeVars
    BY <1>1, CallStore
  <1>2. ASSUME NEW r \in Runs, SubmitPut(r) PROVE [StoreNext]_storeVars
    BY <1>2 DEF SubmitPut, OnlySched
  <1>3. ASSUME NEW w \in Workers, Bookkeeping(w) \/ Pipeline(w) PROVE [StoreNext]_storeVars
    BY <1>3, WorkerStore
  <1>4. CASE CloseService \/ CloseToken \/ CloseScheduler
    BY <1>4 DEF CloseService, CloseToken, CloseScheduler, OnlyMemory, OnlySched
  <1>5. ASSUME NEW r \in Runs, CloseRun(r) PROVE [StoreNext]_storeVars
    BY <1>5 DEF CloseRun, StoreNext, RunTransaction
  <1>6. ASSUME NEW gone \in SUBSET Runs, Restart(gone) PROVE [StoreNext]_storeVars
    BY <1>6 DEF Restart, StoreNext
  <1>7. CASE UNCHANGED vars
    BY <1>7 DEF vars
  <1> QED
    BY <1>1, <1>2, <1>3, <1>4, <1>5, <1>6, <1>7 DEF Next, Shutdown

---------------------------------------------------------------------------
\* Composition: the budget

LEMMA BudgetComposes == Inv /\ [Next]_vars => [BudgetNext]_budgetVars
  <1> SUFFICES ASSUME Inv, [Next]_vars PROVE [BudgetNext]_budgetVars
    OBVIOUS
  <1>1. ASSUME NEW c \in Clients, CreateCall(c) \/ CancelCall(c) \/ ChatCall(c)
        PROVE  UNCHANGED budgetVars
    BY <1>1 DEF CreateCall, CancelCall, ChatCall, CallRun, Answer, Analyse, LinkFails,
                SubmitFails, CreateRow, LinkChat, Submit, CancelToken, CallCancel, CallOpen,
                CallDelete, CallMessage, OnlyMemory, OnlyStore, OnlySched
  <1>2. ASSUME NEW r \in Runs, SubmitPut(r) PROVE UNCHANGED budgetVars
    BY <1>2 DEF SubmitPut, OnlySched
  <1>3. ASSUME NEW w \in Workers, Bookkeeping(w) \/ Pipeline(w) PROVE [BudgetNext]_budgetVars
    <2>1. CASE GetLease(w) \/ ReleaseLease(w)
      <3>1. job[w] \in Runs
        BY <2>1, BusyJob DEF GetLease, ReleaseLease, InStep, Inv
      <3> QED
        BY <2>1, <3>1 DEF GetLease, ReleaseLease, BudgetNext
    <2>2. CASE ~GetLease(w) /\ ~ReleaseLease(w)
      BY <1>3, <2>2 DEF Bookkeeping, WorkerTakes, WorkerIdles, WorkerDone, NeverFits,
             SeesCancel, SummaryFails, ErrorFails, Pipeline, PipelineReturns, PipelineExits,
             PipelineRaises, Raised, Cancelled, StartRun, SaveResults, FailRun, MarkStopped,
             FinishRun, PostSummary, PostError, OnlyMemory, OnlyStore, OnlySched
    <2> QED
      BY <2>1, <2>2
  <1>4. CASE CloseService \/ CloseToken \/ CloseScheduler
    BY <1>4 DEF CloseService, CloseToken, CloseScheduler, OnlyMemory, OnlySched
  <1>5. ASSUME NEW r \in Runs, CloseRun(r) PROVE UNCHANGED budgetVars
    BY <1>5 DEF CloseRun, OnlyStore
  <1>6. ASSUME NEW gone \in SUBSET Runs, Restart(gone) PROVE BudgetNext
    BY <1>6 DEF Restart, BudgetNext
  <1>7. CASE UNCHANGED vars
    BY <1>7 DEF vars
  <1> QED
    BY <1>1, <1>2, <1>3, <1>4, <1>5, <1>6, <1>7 DEF Next, Shutdown

---------------------------------------------------------------------------
\* Composition: the scheduler

LEMMA SchedComposes == Inv /\ [Next]_vars => [SchedNext]_schedVars
  <1> SUFFICES ASSUME Inv, [Next]_vars PROVE [SchedNext]_schedVars
    OBVIOUS
  <1>1. ASSUME NEW c \in Clients, CreateCall(c) \/ CancelCall(c) \/ ChatCall(c)
        PROVE  [SchedNext]_schedVars
    <2>1. CASE Submit(c) \/ CancelToken(c)
      <3>1. call[c].run \in Runs
        BY <2>1 DEF Submit, CancelToken, At, Inv, ControlInv
      <3>2. CallerStep(call[c].run)
        BY <2>1 DEF Submit, CancelToken, CallerStep
      <3> QED
        BY <3>1, <3>2 DEF SchedNext
    <2>2. CASE ~Submit(c) /\ ~CancelToken(c)
      BY <1>1, <2>2 DEF CreateCall, CancelCall, ChatCall, CallRun, Answer, Analyse, LinkFails,
             SubmitFails, CreateRow, LinkChat, CallCancel, CallOpen, CallDelete, CallMessage,
             OnlyMemory, OnlyStore
    <2> QED
      BY <2>1, <2>2
  <1>2. ASSUME NEW r \in Runs, SubmitPut(r) PROVE SchedNext
    BY <1>2 DEF SubmitPut, CallerStep, SchedNext
  <1>3. ASSUME NEW w \in Workers, Bookkeeping(w) \/ Pipeline(w) PROVE [SchedNext]_schedVars
    <2>1. CASE WorkerTakes(w) \/ WorkerIdles(w) \/ WorkerDone(w)
      <3>1. WorkerStep(w)
        BY <2>1 DEF WorkerTakes, WorkerIdles, WorkerDone, WorkerStep
      <3> QED
        BY <3>1 DEF SchedNext
    <2>2. CASE ~WorkerTakes(w) /\ ~WorkerIdles(w) /\ ~WorkerDone(w)
      BY <1>3, <2>2 DEF Bookkeeping, GetLease, ReleaseLease, NeverFits,
             SeesCancel, SummaryFails, ErrorFails, Pipeline, PipelineReturns, PipelineExits,
             PipelineRaises, Raised, Cancelled, StartRun, SaveResults, FailRun, MarkStopped,
             FinishRun, PostSummary, PostError, OnlyMemory, OnlyStore
    <2> QED
      BY <2>1, <2>2
  <1>4. CASE CloseService \/ CloseScheduler
    BY <1>4 DEF CloseService, CloseScheduler, OnlyMemory, SchedNext
  <1>5. CASE CloseToken
    <2>1. closing \in Runs
      BY <1>5 DEF CloseToken, Inv, ControlInv, MemTypeOK
    <2>2. CallerStep(closing)
      BY <1>5 DEF CloseToken, CallerStep
    <2> QED
      BY <2>1, <2>2 DEF SchedNext
  <1>6. ASSUME NEW r \in Runs, CloseRun(r) PROVE UNCHANGED schedVars
    BY <1>6 DEF CloseRun, OnlyStore
  <1>7. ASSUME NEW gone \in SUBSET Runs, Restart(gone) PROVE SchedNext
    <2> DEFINE S == {r \in Runs : status'[r] = "queued"}
    <2>1. PICK q \in Orders(S) : SchedBoot(q)
      BY <1>7 DEF Restart
    <2>2. S \in SUBSET Runs
      OBVIOUS
    <2>3. Boot
      BY <2>1, <2>2 DEF Boot
    <2> QED
      BY <2>3 DEF SchedNext
  <1>8. CASE UNCHANGED vars
    BY <1>8 DEF vars
  <1> QED
    BY <1>1, <1>2, <1>3, <1>4, <1>5, <1>6, <1>7, <1>8 DEF Next, Shutdown

---------------------------------------------------------------------------
\* Control

\* A call that moves leaves the callbacks alone.
LEMMA GotoKeeps ==
    ASSUME Inv, NEW c \in Clients, NEW at, NEW s, NEW r, Goto(c, at, s, r),
           [at |-> at, chat |-> s, run |-> r] \in Calls,
           at \in {"decide", "link"} => s \in Sessions,
           at \in {"link", "register", "signal"} => r \in Runs,
           UNCHANGED <<worker, job>>
    PROVE  ControlInv'
  <1>1. /\ call' = [call EXCEPT ![c] = [at |-> at, chat |-> s, run |-> r]]
        /\ UNCHANGED <<jobChat, step, fate, closed, toClose, closing, restarts>>
    BY DEF Goto
  <1>2. MemTypeOK'
    BY <1>1 DEF MemTypeOK, Inv, ControlInv
  <1>3. \A b \in Clients : call'[b] = IF b = c THEN [at |-> at, chat |-> s, run |-> r]
                                               ELSE call[b]
    BY <1>1 DEF MemTypeOK, Inv, ControlInv
  <1> QED
    BY <1>1, <1>2, <1>3 DEF Inv, ControlInv

\* A callback that moves leaves the calls and the other callbacks alone.
LEMMA OnKeeps ==
    ASSUME Inv, NEW w \in Workers, NEW at, NEW f, On(w, at, f),
           at \in Steps, f \in Fates,
           worker'[w] = "busy" <=> at # "none",
           \A v \in Workers \ {w} : worker'[v] = worker[v] /\ job'[v] = job[v],
           at = "summary" => jobChat[job'[w]] \in Sessions,
           at \in {"save", "summary", "finish"} => f \in Results
    PROVE  ControlInv'
  <1>1. /\ step' = [step EXCEPT ![w] = at]
        /\ fate' = [fate EXCEPT ![w] = f]
        /\ UNCHANGED <<call, jobChat, closed, toClose, closing, restarts>>
    BY DEF On
  <1>2. MemTypeOK'
    BY <1>1 DEF MemTypeOK, Inv, ControlInv
  <1>3. \A v \in Workers : /\ step'[v] = IF v = w THEN at ELSE step[v]
                           /\ fate'[v] = IF v = w THEN f ELSE fate[v]
    BY <1>1 DEF MemTypeOK, Inv, ControlInv
  <1> QED
    BY <1>1, <1>2, <1>3 DEF Inv, ControlInv

LEMMA CallControl ==
    ASSUME Inv, NEW c \in Clients, CreateCall(c) \/ CancelCall(c) \/ ChatCall(c)
    PROVE  ControlInv'
  <1>0. call[c] \in Calls /\ Idle \in Calls /\ NoChat \in Chats
    BY DEF Inv, ControlInv, MemTypeOK, Idle, Calls, Chats
  <1>1. CASE Ends(c) /\ UNCHANGED <<worker, job>>
    BY <1>0, <1>1, GotoKeeps DEF Ends, Idle
  <1>2. CASE CallRun(c)
    BY <1>2, GotoKeeps DEF CallRun, OnlyMemory, schedVars, Calls, Chats
  <1>3. CASE Answer(c) \/ LinkFails(c) \/ SubmitFails(c)
    BY <1>1, <1>3 DEF Answer, LinkFails, SubmitFails, OnlyMemory, schedVars
  <1>4. CASE Analyse(c)
    BY <1>0, <1>4, GotoKeeps DEF Analyse, OnlyMemory, schedVars, Calls
  <1>5. ASSUME NEW r \in Runs, CreateRow(c, r) PROVE ControlInv'
    <2>1. call[c].chat = NoChat \/ call[c].chat \in Sessions
      BY <1>0 DEF Calls, Chats
    <2>2. UNCHANGED <<worker, job>>
      BY <1>5 DEF CreateRow, OnlyStore, schedVars
    <2>3. CASE call[c].chat = NoChat
      <3>1. Goto(c, "register", call[c].chat, r)
        BY <1>5, <2>3 DEF CreateRow
      <3>2. [at |-> "register", chat |-> call[c].chat, run |-> r] \in Calls
        BY <1>0 DEF Calls
      <3> QED
        BY <2>2, <3>1, <3>2, GotoKeeps
    <2>4. CASE call[c].chat # NoChat
      <3>1. Goto(c, "link", call[c].chat, r)
        BY <1>5, <2>4 DEF CreateRow
      <3>2. [at |-> "link", chat |-> call[c].chat, run |-> r] \in Calls
        BY <1>0 DEF Calls
      <3> QED
        BY <2>1, <2>2, <2>4, <3>1, <3>2, GotoKeeps
    <2> QED
      BY <2>3, <2>4
  <1>6. CASE LinkChat(c)
    <2>1. call[c].run \in Runs
      BY <1>6 DEF LinkChat, At, Inv, ControlInv
    <2>2. [at |-> "register", chat |-> call[c].chat, run |-> call[c].run] \in Calls
      BY <1>0 DEF Calls
    <2> QED
      BY <1>6, <2>1, <2>2, GotoKeeps DEF LinkChat, OnlyStore, schedVars
  <1>7. CASE Submit(c)
    <2> DEFINE r == call[c].run
    <2>1. r \in Runs /\ r \notin tokens
      BY <1>7 DEF Submit, Register, At, Inv, ControlInv
    <2>2. /\ call' = [call EXCEPT ![c] = Idle]
          /\ jobChat' = [jobChat EXCEPT ![r] = call[c].chat]
          /\ UNCHANGED <<step, fate, closed, toClose, closing, restarts, worker, job>>
      BY <1>7 DEF Submit, Register
    <2>3. \A w \in Workers : worker[w] = "busy" => job[w] # r
      BY <2>1, BusyJob DEF Inv
    <2>4. MemTypeOK'
      BY <1>0, <2>1, <2>2 DEF MemTypeOK, Inv, ControlInv, Calls
    <2>5. \A w \in Workers : step[w] = "summary" => jobChat'[job[w]] = jobChat[job[w]]
      <3> SUFFICES ASSUME NEW w \in Workers, step[w] = "summary"
                   PROVE  jobChat'[job[w]] = jobChat[job[w]]
        OBVIOUS
      <3>1. worker[w] = "busy"
        BY DEF Inv, ControlInv
      <3>2. job[w] \in Runs /\ job[w] # r
        BY <2>3, <3>1, BusyJob DEF Inv
      <3> QED
        BY <2>1, <2>2, <3>2 DEF MemTypeOK, Inv, ControlInv
    <2>6. \A b \in Clients : call'[b] = IF b = c THEN Idle ELSE call[b]
      BY <2>2 DEF MemTypeOK, Inv, ControlInv
    <2> QED
      BY <2>2, <2>4, <2>5, <2>6 DEF Inv, ControlInv, Idle
  <1>8. CASE CancelToken(c)
    BY <1>1, <1>8 DEF CancelToken, Signal
  <1>9. ASSUME NEW r \in Runs, CallCancel(c, r) PROVE ControlInv'
    <2>1. UNCHANGED <<worker, job>>
      BY <1>9 DEF CallCancel, OnlyStore, schedVars
    <2>2. [at |-> "signal", chat |-> NoChat, run |-> r] \in Calls
      BY <1>0 DEF Calls
    <2>3. CASE Goto(c, "signal", NoChat, r)
      BY <2>1, <2>2, <2>3, GotoKeeps
    <2> QED
      BY <1>1, <1>9, <2>1, <2>3 DEF CallCancel
  <1>10. ASSUME NEW s \in Sessions, CallOpen(s) \/ CallDelete(s) PROVE ControlInv'
    BY <1>10 DEF CallOpen, CallDelete, OnlyStore, schedVars, memVars, Inv, ControlInv, MemTypeOK
  <1>11. ASSUME NEW s \in Sessions, CallMessage(c, s) PROVE ControlInv'
    <2>1. [at |-> "decide", chat |-> s, run |-> activeRun[s]] \in Calls
      BY DEF Calls, Chats, Inv, StoreTypeOK
    <2> QED
      BY <1>11, <2>1, GotoKeeps DEF CallMessage, OnlyMemory, schedVars
  <1> QED
    BY <1>2, <1>3, <1>4, <1>5, <1>6, <1>7, <1>8, <1>9, <1>10, <1>11
    DEF CreateCall, CancelCall, ChatCall

LEMMA WorkerControl ==
    ASSUME Inv, NEW w \in Workers, Bookkeeping(w) \/ Pipeline(w)
    PROVE  ControlInv'
  <1>0. worker \in [Workers -> {"idle", "busy", "exited", "dead"}]
        /\ job \in [Workers -> Runs \cup {NoRun}]
    BY DEF Inv, SchedInv, SchedTypeOK
  <1>1. fate[w] \in Fates
    BY DEF Inv, ControlInv, MemTypeOK
  <1>2. CASE WorkerTakes(w)
    <2>1. On(w, "acquire", "none") /\ worker' = [worker EXCEPT ![w] = "busy"]
          /\ job' = [job EXCEPT ![w] = Head(queue)]
      BY <1>2 DEF WorkerTakes, Take
    <2> QED
      BY <1>0, <2>1, OnKeeps DEF Steps, Fates
  <1>3. CASE WorkerIdles(w)
    <2>1. UNCHANGED <<memVars, job>> /\ worker[w] = "idle" /\ worker'[w] # "busy"
      BY <1>0, <1>3 DEF WorkerIdles, Skip, Exit, Drop, Ready
    <2>2. \A v \in Workers \ {w} : worker'[v] = worker[v]
      BY <1>0, <1>3 DEF WorkerIdles, Skip, Exit, Drop
    <2> QED
      BY <2>1, <2>2 DEF memVars, Inv, ControlInv, MemTypeOK
  <1>4. CASE WorkerDone(w)
    <2>1. On(w, "none", "none")
      BY <1>4 DEF WorkerDone
    <2>2. \E state \in {"idle", "dead"} : /\ worker' = [worker EXCEPT ![w] = state]
                                          /\ job' = [job EXCEPT ![w] = NoRun]
      BY <1>4 DEF WorkerDone, Die, Return, Drop
    <2>3. /\ worker'[w] # "busy"
          /\ \A v \in Workers \ {w} : worker'[v] = worker[v] /\ job'[v] = job[v]
      BY <1>0, <2>2
    <2> QED
      BY <2>1, <2>3, OnKeeps DEF Steps, Fates
  \* The other steps keep the worker busy with its job.
  <1>5. ASSUME NEW at \in Steps \ {"none"}, NEW f \in Fates, On(w, at, f),
               worker[w] = "busy", UNCHANGED schedVars,
               at = "summary" => jobChat[job[w]] \in Sessions,
               at \in {"save", "summary", "finish"} => f \in Results
        PROVE  ControlInv'
    BY <1>5, OnKeeps DEF schedVars
  <1>6. CASE GetLease(w)
    BY <1>5, <1>6 DEF GetLease, InStep, Steps, Fates
  <1>7. CASE NeverFits(w) \/ SummaryFails(w) \/ PipelineRaises(w)
    BY <1>5, <1>7 DEF NeverFits, SummaryFails, PipelineRaises, Raised, OnlyMemory, InStep,
                      Steps, Fates
  <1>8. CASE SeesCancel(w)
    BY <1>5, <1>8 DEF SeesCancel, Cancelled, OnlyMemory, InStep, Steps, Fates
  <1>9. CASE StartRun(w)
    BY <1>5, <1>9 DEF StartRun, OnlyStore, InStep, Steps, Fates
  <1>10. CASE PipelineReturns(w)
    <2>1. PICK result \in Results : On(w, "save", result)
      BY <1>10 DEF PipelineReturns
    <2> QED
      BY <1>5, <1>10, <2>1 DEF PipelineReturns, OnlyMemory, InStep, Steps, Fates
  <1>11. CASE PipelineExits(w) \/ ErrorFails(w)
    BY <1>5, <1>11 DEF PipelineExits, ErrorFails, OnlyMemory, InStep, Steps, Fates
  <1>12. CASE SaveResults(w)
    <2>1. worker[w] = "busy" /\ UNCHANGED schedVars /\ fate[w] \in Results
      BY <1>12 DEF SaveResults, InStep, OnlyStore, Inv, ControlInv
    <2>2. CASE jobChat[job[w]] = NoChat
      BY <1>1, <1>5, <1>12, <2>1, <2>2 DEF SaveResults, Steps
    <2>3. CASE jobChat[job[w]] # NoChat
      <3>1. job[w] \in Runs
        BY <2>1, BusyJob DEF Inv
      <3>2. jobChat[job[w]] \in Sessions
        BY <2>3, <3>1, ChatCases DEF Inv, ControlInv
      <3> QED
        BY <1>1, <1>5, <1>12, <2>1, <2>3, <3>2 DEF SaveResults, Steps
    <2> QED
      BY <2>2, <2>3
  <1>13. CASE PostSummary(w)
    <2>1. fate[w] \in Results
      BY <1>13 DEF PostSummary, InStep, Inv, ControlInv
    <2> QED
      BY <1>1, <1>5, <1>13, <2>1 DEF PostSummary, OnlyStore, InStep, Steps
  <1>14. CASE FinishRun(w)
    BY <1>5, <1>14 DEF FinishRun, OnlyStore, InStep, Steps, Fates
  <1>15. CASE PostError(w) \/ FailRun(w)
    BY <1>5, <1>15 DEF PostError, FailRun, OnlyStore, InStep, Steps, Fates
  <1>16. CASE ReleaseLease(w)
    <2>1. CASE fate[w] = "cancelled"
      BY <1>1, <1>5, <1>16, <2>1 DEF ReleaseLease, InStep, Steps
    <2>2. CASE fate[w] # "cancelled"
      BY <1>1, <1>5, <1>16, <2>2 DEF ReleaseLease, InStep, Steps
    <2> QED
      BY <2>1, <2>2
  <1>17. CASE MarkStopped(w)
    BY <1>1, <1>5, <1>17 DEF MarkStopped, OnlyStore, InStep, Steps
  <1> QED
    BY <1>2, <1>3, <1>4, <1>6, <1>7, <1>8, <1>9, <1>10, <1>11, <1>12, <1>13, <1>14, <1>15,
       <1>16, <1>17 DEF Bookkeeping, Pipeline

LEMMA ControlStep == Inv /\ [Next]_vars => ControlInv'
  <1> SUFFICES ASSUME Inv, [Next]_vars PROVE ControlInv'
    OBVIOUS
  <1>1. ASSUME NEW c \in Clients, CreateCall(c) \/ CancelCall(c) \/ ChatCall(c)
        PROVE  ControlInv'
    BY <1>1, CallControl
  <1>2. ASSUME UNCHANGED <<worker, job, call, jobChat, step, fate, restarts>>,
               closed' \in BOOLEAN, toClose' \in SUBSET Runs, closing' \in Runs \cup {NoRun}
        PROVE  ControlInv'
    BY <1>2 DEF Inv, ControlInv, MemTypeOK
  <1>3. ASSUME NEW r \in Runs, SubmitPut(r) PROVE ControlInv'
    BY <1>2, <1>3 DEF SubmitPut, Put, memVars, Inv, ControlInv, MemTypeOK
  <1>4. ASSUME NEW w \in Workers, Bookkeeping(w) \/ Pipeline(w) PROVE ControlInv'
    BY <1>4, WorkerControl
  <1>5. CASE CloseService
    BY <1>2, <1>5 DEF CloseService, OnlyMemory, schedVars, Newest, Known, Inv, ControlInv,
                      MemTypeOK
  <1>6. CASE CloseToken
    BY <1>2, <1>6 DEF CloseToken, Signal, Inv, ControlInv, MemTypeOK
  <1>7. CASE CloseScheduler
    BY <1>2, <1>7 DEF CloseScheduler, CloseStep, Shut, PutPill, SignalNext, memVars, Inv,
                      ControlInv, MemTypeOK
  <1>8. ASSUME NEW r \in Runs, CloseRun(r) PROVE ControlInv'
    BY <1>2, <1>8 DEF CloseRun, OnlyStore, schedVars, Inv, ControlInv, MemTypeOK
  <1>9. ASSUME NEW gone \in SUBSET Runs, Restart(gone) PROVE ControlInv'
    <2>1. /\ MemBoot
          /\ worker' = [w \in Workers |-> "idle"]
          /\ restarts < MaxRestarts
      BY <1>9 DEF Restart, SchedBoot
    <2>2. restarts' \in 0 .. MaxRestarts
      BY <2>1, OrchestratorAssumption DEF MemBoot, Inv, ControlInv, MemTypeOK
    <2>3. MemTypeOK'
      BY <2>1, <2>2 DEF MemBoot, MemTypeOK, Idle, Calls, Chats, Steps, Fates
    <2> QED
      BY <2>1, <2>3 DEF MemBoot, ControlInv, Idle
  <1>10. CASE UNCHANGED vars
    BY <1>2, <1>10 DEF vars, schedVars, memVars, Inv, ControlInv, MemTypeOK
  <1> QED
    BY <1>1, <1>3, <1>4, <1>5, <1>6, <1>7, <1>8, <1>9, <1>10 DEF Next, Shutdown

---------------------------------------------------------------------------
\* The lease follows the work

\* Steps at which a callback has the lease, or may still have it.
LEMMA LeaseMoves ==
    ASSUME Inv, NEW w \in Workers, worker[w] = "busy",
           step' = [step EXCEPT ![w] = step'[w]], job' = job, held' = held,
           step'[w] \in {"none", "acquire", "mark", "done"} => job[w] \notin held,
           step'[w] \in {"start", "pipeline", "save", "summary", "finish"} => job[w] \in held
    PROVE  LeaseFollowsWork'
  <1>1. \A v \in Workers \ {w} : step'[v] = step[v]
    BY DEF Inv, ControlInv, MemTypeOK
  <1>2. ASSUME NEW r \in held
        PROVE  \E v \in Workers : job[v] = r /\ step'[v] \notin {"none", "acquire", "mark", "done"}
    <2>1. PICK v \in Workers : job[v] = r /\ step[v] \notin {"none", "acquire", "mark", "done"}
      BY DEF Inv, LeaseFollowsWork
    <2> QED
      BY <1>1, <2>1
  <1>3. ASSUME NEW v \in Workers,
               step'[v] \in {"start", "pipeline", "save", "summary", "finish"}
        PROVE  job[v] \in held
    BY <1>1, <1>3 DEF Inv, LeaseFollowsWork
  <1> QED
    BY <1>2, <1>3 DEF LeaseFollowsWork

LEMMA LeaseWorker ==
    ASSUME Inv, NEW w \in Workers, Bookkeeping(w) \/ Pipeline(w)
    PROVE  LeaseFollowsWork'
  <1>0. /\ step \in [Workers -> Steps]
        /\ job \in [Workers -> Runs \cup {NoRun}]
        /\ NoRun \notin Runs
        /\ held \subseteq Runs
    BY RunNamesAssumption DEF Inv, ControlInv, MemTypeOK, SchedInv, SchedTypeOK, BudgetInv,
       BudgetTypeOK
  <1>1. ASSUME NEW v \in Workers, v # w, worker[w] = "busy" PROVE job[v] # job[w]
    <2>1. job[w] # NoRun
      BY <1>0, <1>1, BusyJob DEF Inv
    <2> QED
      BY <1>1, <2>1 DEF Inv, SchedInv, OneWorkerPerRun
  \* A holder at another step than w's can be nobody but another worker.
  <1>2. ASSUME step[w] \in {"none", "acquire", "mark", "done"}, NEW r \in held
        PROVE  \E v \in Workers \ {w} : job[v] = r /\ step[v] \notin {"none", "acquire", "mark", "done"}
    BY <1>2 DEF Inv, LeaseFollowsWork
  <1>3. ASSUME worker[w] = "busy", step[w] \in {"acquire", "mark", "done"}
        PROVE  job[w] \notin held
    BY <1>1, <1>2, <1>3
  <1>4. CASE WorkerTakes(w) \/ WorkerDone(w)
    <2>1. /\ held' = held
          /\ step[w] \in {"none", "done"}
          /\ step' = [step EXCEPT ![w] = step'[w]]
          /\ step'[w] \in {"none", "acquire"}
          /\ job' = [job EXCEPT ![w] = job'[w]]
      BY <1>0, <1>4 DEF WorkerTakes, WorkerDone, Take, Ready, Return, Die, On, OnlySched, budgetVars, InStep,
         Inv, ControlInv
    <2>2. \A v \in Workers \ {w} : step'[v] = step[v] /\ job'[v] = job[v]
      BY <1>0, <2>1
    <2>3. \A r \in held : \E v \in Workers :
              job'[v] = r /\ step'[v] \notin {"none", "acquire", "mark", "done"}
      BY <1>2, <2>1, <2>2
    <2>4. \A v \in Workers : step'[v] \in {"start", "pipeline", "save", "summary", "finish"}
                                 => job'[v] \in held
      BY <2>1, <2>2 DEF Inv, LeaseFollowsWork
    <2> QED
      BY <2>1, <2>3, <2>4 DEF LeaseFollowsWork
  <1>5. CASE WorkerIdles(w)
    BY <1>5 DEF WorkerIdles, Skip, Exit, OnlySched, budgetVars, memVars, Inv, LeaseFollowsWork
  <1>6. CASE GetLease(w)
    <2>1. /\ worker[w] = "busy" /\ job' = job /\ held' = held \cup {job[w]}
          /\ step' = [step EXCEPT ![w] = "start"]
      BY <1>6 DEF GetLease, InStep, Acquire, On, schedVars
    <2>2. \A v \in Workers : step'[v] = IF v = w THEN "start" ELSE step[v]
      BY <1>0, <2>1
    <2>3. ASSUME NEW r \in held'
          PROVE \E v \in Workers : job[v] = r /\ step'[v] \notin {"none", "acquire", "mark", "done"}
      BY <2>1, <2>2, <2>3 DEF Inv, LeaseFollowsWork
    <2>4. \A v \in Workers : step'[v] \in {"start", "pipeline", "save", "summary", "finish"}
                                 => job[v] \in held'
      BY <2>1, <2>2 DEF Inv, LeaseFollowsWork
    <2> QED
      BY <2>1, <2>3, <2>4 DEF LeaseFollowsWork
  <1>7. CASE ReleaseLease(w)
    <2>1. /\ worker[w] = "busy" /\ job' = job /\ held' = held \ {job[w]}
          /\ step' = [step EXCEPT ![w] = step'[w]]
          /\ step'[w] \in {"mark", "done"}
      BY <1>0, <1>7 DEF ReleaseLease, InStep, Release, On, schedVars
    <2>2. \A v \in Workers \ {w} : step'[v] = step[v]
      BY <1>0, <2>1
    <2>3. ASSUME NEW r \in held'
          PROVE \E v \in Workers : job[v] = r /\ step'[v] \notin {"none", "acquire", "mark", "done"}
      <3>1. PICK v \in Workers : job[v] = r /\ step[v] \notin {"none", "acquire", "mark", "done"}
        BY <2>1, <2>3 DEF Inv, LeaseFollowsWork
      <3> QED
        BY <2>1, <2>2, <2>3, <3>1
    <2>4. \A v \in Workers : step'[v] \in {"start", "pipeline", "save", "summary", "finish"}
                                 => job[v] \in held'
      BY <1>1, <2>1, <2>2 DEF Inv, LeaseFollowsWork
    <2> QED
      BY <2>1, <2>3, <2>4 DEF LeaseFollowsWork
  <1>8. ASSUME NEW at, NEW f, On(w, at, f), worker[w] = "busy", UNCHANGED <<job, held>>,
               at \in {"none", "acquire", "mark", "done"} => job[w] \notin held,
               at \in {"start", "pipeline", "save", "summary", "finish"} => job[w] \in held
        PROVE  LeaseFollowsWork'
    <2>1. step' = [step EXCEPT ![w] = at] /\ step'[w] = at
      BY <1>0, <1>8 DEF On
    <2> QED
      BY <1>8, <2>1, LeaseMoves
  <1>9. step[w] \in {"start", "pipeline", "save", "summary", "finish"} => job[w] \in held
    BY DEF Inv, LeaseFollowsWork
  <1>10. CASE NeverFits(w) \/ SummaryFails(w) \/ PipelineRaises(w)
    BY <1>8, <1>10 DEF NeverFits, SummaryFails, PipelineRaises, Raised, OnlyMemory, InStep,
                       budgetVars, schedVars
  <1>11. CASE SeesCancel(w)
    BY <1>8, <1>11 DEF SeesCancel, Cancelled, OnlyMemory, InStep, budgetVars, schedVars
  <1>12. CASE StartRun(w)
    BY <1>8, <1>9, <1>12 DEF StartRun, OnlyStore, InStep, budgetVars, schedVars
  <1>13. CASE PipelineReturns(w) \/ PipelineExits(w)
    BY <1>8, <1>9, <1>13 DEF PipelineReturns, PipelineExits, OnlyMemory, InStep, budgetVars,
                             schedVars
  <1>14. CASE SaveResults(w) \/ PostSummary(w)
    BY <1>8, <1>9, <1>14 DEF SaveResults, PostSummary, OnlyStore, InStep, budgetVars, schedVars
  <1>15. CASE FinishRun(w) \/ PostError(w) \/ FailRun(w)
    BY <1>8, <1>15 DEF FinishRun, PostError, FailRun, OnlyStore, InStep, budgetVars, schedVars
  <1>16. CASE ErrorFails(w)
    BY <1>8, <1>16 DEF ErrorFails, OnlyMemory, InStep, budgetVars, schedVars
  <1>17. CASE MarkStopped(w)
    BY <1>3, <1>8, <1>17 DEF MarkStopped, OnlyStore, InStep, budgetVars, schedVars
  <1> QED
    BY <1>4, <1>5, <1>6, <1>7, <1>10, <1>11, <1>12, <1>13, <1>14, <1>15, <1>16, <1>17
    DEF Bookkeeping, Pipeline

LEMMA LeaseStep == Inv /\ [Next]_vars => LeaseFollowsWork'
  <1> SUFFICES ASSUME Inv, [Next]_vars PROVE LeaseFollowsWork'
    OBVIOUS
  <1>1. ASSUME UNCHANGED <<held, job, step>> PROVE LeaseFollowsWork'
    BY <1>1 DEF Inv, LeaseFollowsWork
  <1>2. ASSUME NEW c \in Clients, CreateCall(c) \/ CancelCall(c) \/ ChatCall(c)
        PROVE  UNCHANGED <<held, job, step>>
    BY <1>2 DEF CreateCall, CancelCall, ChatCall, CallRun, Answer, Analyse, LinkFails,
                SubmitFails, CreateRow, LinkChat, Submit, Register, CancelToken, Signal,
                CallCancel, CallOpen, CallDelete, CallMessage, OnlyMemory, OnlyStore,
                OnlySched, budgetVars, schedVars, memVars, Ends, Goto
  <1>3. ASSUME NEW r \in Runs, SubmitPut(r) PROVE UNCHANGED <<held, job, step>>
    BY <1>3 DEF SubmitPut, Put, OnlySched, budgetVars, memVars
  <1>4. ASSUME NEW w \in Workers, Bookkeeping(w) \/ Pipeline(w) PROVE LeaseFollowsWork'
    BY <1>4, LeaseWorker
  <1>5. CASE CloseService \/ CloseToken \/ CloseScheduler
    BY <1>1, <1>5 DEF CloseService, CloseToken, CloseScheduler, Signal, CloseStep, Shut,
                      PutPill, SignalNext, OnlyMemory, OnlySched, budgetVars, schedVars, memVars
  <1>6. ASSUME NEW r \in Runs, CloseRun(r) PROVE UNCHANGED <<held, job, step>>
    BY <1>6 DEF CloseRun, OnlyStore, budgetVars, schedVars
  <1>7. ASSUME NEW gone \in SUBSET Runs, Restart(gone) PROVE LeaseFollowsWork'
    BY <1>7 DEF Restart, BudgetBoot, MemBoot, LeaseFollowsWork
  <1>8. CASE UNCHANGED vars
    BY <1>1, <1>8 DEF vars, budgetVars, schedVars, memVars
  <1> QED
    BY <1>1, <1>2, <1>3, <1>4, <1>5, <1>6, <1>7, <1>8 DEF Next, Shutdown

---------------------------------------------------------------------------
\* The invariant

LEMMA ServiceInductive == Spec => []Inv
  <1>1. Init => Inv
    <2> SUFFICES ASSUME Init PROVE Inv
      OBVIOUS
    <2>1. StoreTypeOK
      BY DEF Init, StoreInit, StoreTypeOK, Statuses
    <2>2. BudgetInv
      BY BudgetStart DEF Init
    <2>3. SchedInv
      BY SchedStart DEF Init
    <2>4. ControlInv
      <3>1. MemTypeOK
        <4>1. Idle \in Calls
          BY DEF Idle, Calls, Chats
        <4>2. MemInit
          BY DEF Init
        <4>3. call \in [Clients -> Calls] /\ jobChat \in [Runs -> Chats]
          BY <4>1, <4>2 DEF MemInit, Chats
        <4>4. step \in [Workers -> Steps] /\ fate \in [Workers -> Fates]
          BY <4>2 DEF MemInit, Steps, Fates
        <4>5. restarts \in 0 .. MaxRestarts
          BY <4>2, OrchestratorAssumption DEF MemInit
        <4> QED
          BY <4>2, <4>3, <4>4, <4>5 DEF MemInit, MemTypeOK
      <3>2. \A c \in Clients : call[c].at = "idle"
        BY DEF Init, MemInit, Idle
      <3>3. \A w \in Workers : step[w] = "none" /\ worker[w] = "idle"
        BY DEF Init, MemInit, SchedInit
      <3> QED
        BY <3>1, <3>2, <3>3 DEF ControlInv
    <2>5. LeaseFollowsWork
      BY DEF Init, MemInit, BudgetInit, LeaseFollowsWork
    <2> QED
      BY <2>1, <2>2, <2>3, <2>4, <2>5 DEF Inv
  <1>2. Inv /\ [Next]_vars => Inv'
    BY StoreComposes, StoreTypeStep, BudgetComposes, BudgetStep, SchedComposes, SchedStep,
       ControlStep, LeaseStep DEF Inv
  <1> QED
    BY <1>1, <1>2, PTL DEF Spec

\* Every part of the state has its type in every reachable state: calls,
\* callbacks, the store, the budget and the scheduler together.
THEOREM TypeCorrect == Spec => []TypeOK
  <1>1. Inv => TypeOK
    BY DEF Inv, BudgetInv, SchedInv, ControlInv, TypeOK
  <1> QED
    BY <1>1, ServiceInductive, PTL

\* Two workers never execute the same run, whatever calls, faults and
\* restarts happen.
THEOREM ServiceOneWorker == Spec => []OneWorkerPerRun
  <1>1. Inv => OneWorkerPerRun
    BY DEF Inv, SchedInv
  <1> QED
    BY <1>1, ServiceInductive, PTL

\* The service loses no part of the budget and never books more than there
\* is: _execute_run releases the lease it took on every path.
THEOREM ServiceBudget == Spec => [](NothingLost /\ NeverOverbooked)
  <1>1. Inv => NothingLost /\ NeverOverbooked
    BY DEF Inv, BudgetInv, NothingLost, NeverOverbooked
  <1> QED
    BY <1>1, ServiceInductive, PTL

\* No lease outlives the callback that took it, and a run is only analysed
\* and finished with a lease (_execute_run).
THEOREM ServiceLeases == Spec => []LeaseFollowsWork
  <1>1. Inv => LeaseFollowsWork
    BY DEF Inv
  <1> QED
    BY <1>1, ServiceInductive, PTL

---------------------------------------------------------------------------
\* The service uses the store only through its transactions, so every run
\* keeps to the promised life cycle: no final status is ever left.
THEOREM ServiceKeepsLifecycle == Spec => KeepsLifecycle
  <1>1. Init => StoreInit
    BY DEF Init
  <1>2. Inv /\ [Next]_vars => [StoreNext]_storeVars
    BY StoreComposes
  <1>3. Spec => StoreSpec
    BY <1>1, <1>2, ServiceInductive, PTL DEF Spec, StoreSpec
  <1> QED
    BY <1>3, StoreImplementsLifecycle DEF KeepsLifecycle, ImplementsLifecycle

\* A run that was being cancelled becomes cancelled only when its lease is
\* back in the budget (the finally clause of _execute_run comes before
\* mark_cancelled).
THEOREM ServiceStopsAfterRelease == Spec => StoppedAfterRelease
  <1> DEFINE Stops(r) == status[r] = "cancelling" /\ status'[r] = "cancelled"
  <1>1. ASSUME Inv, [Next]_vars, NEW r \in Runs, Stops(r) PROVE r \notin held
    <2>0. status \in [Runs -> Statuses]
      BY <1>1 DEF Inv, StoreTypeOK
    <2>1. ASSUME NEW q \in Runs, NEW from, NEW to, Update(q, from, to), to # "cancelled"
          PROVE  FALSE
      BY <1>1, <2>0, <2>1 DEF Update
    <2>2. ASSUME UNCHANGED status PROVE FALSE
      BY <1>1, <2>2
    <2>3. ASSUME NEW q \in Runs, RequestCancel(q) PROVE FALSE
      BY <1>1, <2>0, <2>3 DEF RequestCancel, AfterCancel
    <2>4. ASSUME NEW c \in Clients, CreateCall(c) \/ CancelCall(c) \/ ChatCall(c) PROVE FALSE
      <3>1. ASSUME NEW q \in Runs, InsertRun(q) PROVE FALSE
        BY <1>1, <2>0, <3>1 DEF InsertRun
      <3> QED
        BY <2>2, <2>3, <2>4, <3>1 DEF CreateCall, CancelCall, ChatCall, CallRun, Answer,
           Analyse, LinkFails, SubmitFails, CreateRow, LinkChat, SetChatRun, Submit,
           CancelToken, CallCancel, CallOpen, OpenChat, CallDelete, DeleteChat, CallMessage,
           OnlyMemory, OnlySched, storeVars
    <2>5. ASSUME NEW w \in Workers, Bookkeeping(w) \/ Pipeline(w), ~MarkStopped(w) PROVE FALSE
      <3>1. worker[w] = "busy" => job[w] \in Runs
        BY <1>1, BusyJob DEF Inv
      <3>2. CASE StartRun(w) \/ FailRun(w)
        BY <2>1, <3>1, <3>2 DEF StartRun, FailRun, MarkRunning, MarkFailed, InStep
      <3>3. CASE FinishRun(w)
        <4>1. fate[w] # "cancelled"
          BY <1>1, <3>3 DEF FinishRun, InStep, Inv, ControlInv, Results
        <4> QED
          BY <2>1, <3>1, <3>3, <4>1 DEF FinishRun, MarkFinished, InStep
      <3> QED
        BY <2>2, <2>5, <3>2, <3>3 DEF Bookkeeping, Pipeline, WorkerTakes, WorkerIdles,
           WorkerDone, GetLease, ReleaseLease, NeverFits, SeesCancel, SummaryFails, ErrorFails,
           PipelineReturns, PipelineExits, PipelineRaises, Raised, Cancelled, SaveResults,
           ReplaceResults, PostSummary, PostError, Post, OnlyMemory, OnlySched, storeVars
    <2>6. ASSUME NEW w \in Workers, MarkStopped(w) PROVE r \notin held
      <3>1. worker[w] = "busy" /\ step[w] = "mark" /\ MarkCancelled(job[w]) /\ job[w] \in Runs
        BY <1>1, <2>6, BusyJob DEF MarkStopped, InStep, Inv
      <3>2. r = job[w]
        BY <1>1, <2>0, <3>1 DEF MarkCancelled, Update
      <3>3. ASSUME r \in held PROVE FALSE
        <4>1. PICK v \in Workers : job[v] = r /\ step[v] # "mark"
          BY <1>1, <3>3 DEF Inv, LeaseFollowsWork
        <4>2. v = w
          BY <1>1, <3>1, <3>2, <4>1, RunNamesAssumption DEF Inv, SchedInv, OneWorkerPerRun
        <4> QED
          BY <3>1, <4>1, <4>2
      <3> QED
        BY <3>3
    <2>7. ASSUME CloseService \/ CloseToken \/ CloseScheduler \/ \E q \in Runs : SubmitPut(q)
          PROVE  FALSE
      BY <2>2, <2>7 DEF CloseService, CloseToken, CloseScheduler, SubmitPut, OnlyMemory,
         OnlySched, storeVars
    <2>8. ASSUME NEW q \in Runs, CloseRun(q) PROVE FALSE
      BY <2>3, <2>8 DEF CloseRun
    <2>9. ASSUME NEW gone \in SUBSET Runs, Restart(gone) PROVE FALSE
      BY <1>1, <2>0, <2>9 DEF Restart, StoreBoot
    <2>10. ASSUME UNCHANGED vars PROVE FALSE
      BY <2>2, <2>10 DEF vars, storeVars
    <2> QED
      BY <1>1, <2>4, <2>5, <2>6, <2>7, <2>8, <2>9, <2>10 DEF Next, Shutdown
  <1>2. Inv /\ [Next]_vars
            => [\A r \in Runs : status[r] = "cancelling" /\ status'[r] = "cancelled"
                                    => r \notin held]_vars
    BY <1>1
  <1> QED
    BY <1>2, ServiceInductive, PTL DEF Spec, StoppedAfterRelease

---------------------------------------------------------------------------
\* Verdicts and their results

\* Between replace_results and mark_finished the results are there.
ResultsInv ==
    /\ VerdictHasResults
    /\ \A w \in Workers : step[w] \in {"summary", "finish"} => job[w] \in stored

\* A callback moves: the others stay where they are.
LEMMA OneMoves ==
    ASSUME Inv, NEW w \in Workers, NEW at, NEW f, On(w, at, f)
    PROVE  /\ \A v \in Workers : step'[v] = IF v = w THEN at ELSE step[v]
           /\ \A v \in Workers : fate'[v] = IF v = w THEN f ELSE fate[v]
           /\ UNCHANGED <<call, jobChat, closed>>
  BY DEF On, Inv, ControlInv, MemTypeOK

\* What a conditional UPDATE does to each run.
LEMMA UpdateOne ==
    ASSUME StoreTypeOK, NEW r \in Runs, NEW from, NEW to, Update(r, from, to)
    PROVE  /\ \A q \in Runs : status'[q] = IF q = r /\ status[r] \in from THEN to ELSE status[q]
           /\ UNCHANGED <<born, stored, chat, activeRun, linked, posted>>
  BY DEF Update, StoreTypeOK

\* Steps that give no verdict and lose no results.
LEMMA ResultsFrame ==
    ASSUME ResultsInv, stored \subseteq stored',
           \A r \in Runs : status'[r] = "completed" => status[r] = "completed",
           \A p \in posted' : p \in posted \/ p[3] # "summary",
           \A w \in Workers : step'[w] \in {"summary", "finish"} =>
              step[w] \in {"summary", "finish"} /\ job'[w] = job[w]
    PROVE  ResultsInv'
  BY DEF ResultsInv, VerdictHasResults

LEMMA CallResults ==
    ASSUME Inv, ResultsInv, NEW c \in Clients, CreateCall(c) \/ CancelCall(c) \/ ChatCall(c)
    PROVE  ResultsInv'
  <1>0. status \in [Runs -> Statuses] /\ StoreTypeOK
    BY DEF Inv, StoreTypeOK
  <1>1. UNCHANGED <<step, job, stored>>
    BY DEF CreateCall, CancelCall, ChatCall, CallRun, Answer, Analyse, LinkFails,
           SubmitFails, CreateRow, InsertRun, LinkChat, SetChatRun, Submit, Register, CancelToken, Signal,
           CallCancel, RequestCancel, CallOpen, OpenChat, CallDelete, DeleteChat, CallMessage, OnlyMemory,
           OnlyStore, OnlySched, storeVars, schedVars, memVars, Ends, Goto
  <1>2. posted' \subseteq posted
    BY DEF CreateCall, CancelCall, ChatCall, CallRun, Answer, Analyse, LinkFails,
           SubmitFails, CreateRow, InsertRun, LinkChat, SetChatRun, Submit, CancelToken,
           CallCancel, RequestCancel, CallOpen, OpenChat, CallDelete, DeleteChat, CallMessage, OnlyMemory,
           OnlySched, storeVars
  <1>3. \/ UNCHANGED status
        \/ \E r \in Runs : InsertRun(r) \/ RequestCancel(r)
    BY DEF CreateCall, CancelCall, ChatCall, CallRun, Answer, Analyse, LinkFails,
           SubmitFails, CreateRow, LinkChat, SetChatRun, Submit, CancelToken,
           CallCancel, CallOpen, OpenChat, CallDelete, DeleteChat, CallMessage, OnlyMemory,
           OnlySched, storeVars
  <1>4. \A r \in Runs : status'[r] = "completed" => status[r] = "completed"
    BY <1>0, <1>3 DEF InsertRun, RequestCancel, AfterCancel
  <1> QED
    BY <1>1, <1>2, <1>4, ResultsFrame

LEMMA WorkerResults ==
    ASSUME Inv, ResultsInv, NEW w \in Workers, Bookkeeping(w) \/ Pipeline(w)
    PROVE  ResultsInv'
  <1>0. /\ StoreTypeOK
        /\ worker[w] = "busy" => job[w] \in Runs
        /\ job \in [Workers -> Runs \cup {NoRun}]
        /\ step \in [Workers -> Steps]
    BY BusyJob DEF Inv, ControlInv, MemTypeOK, SchedInv, SchedTypeOK
  \* Steps that go to another place without a verdict.
  <1>1. ASSUME NEW at, NEW f, On(w, at, f), at \notin {"summary", "finish"},
               UNCHANGED posted, stored \subseteq stored', UNCHANGED job,
               \A r \in Runs : status'[r] = "completed" => status[r] = "completed"
        PROVE  ResultsInv'
    BY <1>1, OneMoves, ResultsFrame
  <1>2. CASE WorkerTakes(w) \/ WorkerDone(w)
    <2>1. \E at \in {"acquire", "none"} : On(w, at, "none")
      BY <1>2 DEF WorkerTakes, WorkerDone
    <2>2. \A v \in Workers \ {w} : job'[v] = job[v]
      BY <1>0, <1>2 DEF WorkerTakes, WorkerDone, Take, Return, Die
    <2>3. UNCHANGED storeVars
      BY <1>2 DEF WorkerTakes, WorkerDone, OnlySched
    <2> QED
      BY <2>1, <2>2, <2>3, OneMoves, ResultsFrame DEF storeVars
  <1>3. CASE WorkerIdles(w)
    BY <1>3, ResultsFrame DEF WorkerIdles, Skip, Exit, OnlySched, memVars, storeVars
  <1>4. CASE GetLease(w) \/ NeverFits(w) \/ SeesCancel(w) \/ PipelineReturns(w) \/ PipelineExits(w)
             \/ PipelineRaises(w) \/ SummaryFails(w) \/ ErrorFails(w) \/ ReleaseLease(w)
    <2>1. \E at \in {"start", "error", "release", "save", "mark", "done"}, f \in Fates : On(w, at, f)
      <3>1. fate[w] \in Fates
        BY DEF Inv, ControlInv, MemTypeOK
      <3> QED
        BY <1>4, <3>1 DEF GetLease, NeverFits, SeesCancel, PipelineReturns, PipelineExits,
           PipelineRaises, SummaryFails, ErrorFails, ReleaseLease, Raised, Cancelled, Fates
    <2>2. UNCHANGED <<storeVars, schedVars>>
      BY <1>4 DEF GetLease, NeverFits, SeesCancel, PipelineReturns, PipelineExits,
         PipelineRaises, SummaryFails, ErrorFails, ReleaseLease, Raised, Cancelled, OnlyMemory
    <2> QED
      BY <1>1, <2>1, <2>2 DEF storeVars, schedVars
  <1>5. CASE StartRun(w) \/ FailRun(w) \/ MarkStopped(w)
    <2>1. \E at \in {"pipeline", "release", "done"}, f \in Fates : On(w, at, f)
      <3>1. fate[w] \in Fates
        BY DEF Inv, ControlInv, MemTypeOK
      <3> QED
        BY <1>5, <3>1 DEF StartRun, FailRun, MarkStopped, Fates
    <2>2. job[w] \in Runs /\ UNCHANGED job
      BY <1>0, <1>5 DEF StartRun, FailRun, MarkStopped, InStep, OnlyStore, schedVars
    <2>3. \E from \in SUBSET Statuses, to \in {"running", "technical_failure", "cancelled"} : Update(job[w], from, to)
      BY <1>5 DEF StartRun, FailRun, MarkStopped, MarkRunning, MarkFailed, MarkCancelled, Statuses, Active
    <2> QED
      BY <1>0, <1>1, <2>1, <2>2, <2>3, UpdateOne
  <1>6. CASE SaveResults(w)
    <2>1. /\ stored' = stored \cup {job[w]}
          /\ UNCHANGED <<status, posted, job>>
          /\ \E at : On(w, at, fate[w])
      BY <1>6 DEF SaveResults, ReplaceResults, OnlyStore, schedVars
    <2>2. \A v \in Workers \ {w} : step'[v] = step[v]
      BY <2>1, OneMoves
    <2> QED
      BY <2>1, <2>2 DEF ResultsInv, VerdictHasResults
  <1>7. CASE PostSummary(w)
    <2>1. /\ step[w] = "summary" /\ On(w, "finish", fate[w])
          /\ UNCHANGED <<status, stored, job>>
          /\ posted' = posted \cup {<<jobChat[job[w]], job[w], "summary">>}
      BY <1>7 DEF PostSummary, Post, InStep, OnlyStore, schedVars
    <2>2. job[w] \in stored
      BY <2>1 DEF ResultsInv
    <2>3. \A p \in posted' : p[3] = "summary" => p[2] \in stored
      BY <2>1, <2>2 DEF ResultsInv, VerdictHasResults
    <2>4. \A v \in Workers : step'[v] \in {"summary", "finish"} => job[v] \in stored
      BY <2>1, <2>2, OneMoves DEF ResultsInv
    <2> QED
      BY <2>1, <2>3, <2>4 DEF ResultsInv, VerdictHasResults
  <1>8. CASE FinishRun(w)
    <2>1. /\ step[w] = "finish" /\ job[w] \in Runs /\ UNCHANGED job
          /\ Update(job[w], {"running"}, fate[w])
          /\ \E f : On(w, "release", f)
      BY <1>0, <1>8 DEF FinishRun, MarkFinished, InStep, OnlyStore, schedVars
    <2>2. job[w] \in stored
      BY <2>1 DEF ResultsInv
    <2>3. \A r \in Runs : status'[r] = "completed" => r \in stored
      BY <1>0, <2>1, <2>2, UpdateOne DEF ResultsInv, VerdictHasResults
    <2>4. \A v \in Workers : step'[v] \in {"summary", "finish"} => job[v] \in stored
      BY <2>1, OneMoves DEF ResultsInv
    <2>5. UNCHANGED <<stored, posted>>
      BY <1>0, <2>1, UpdateOne
    <2> QED
      BY <2>1, <2>3, <2>4, <2>5 DEF ResultsInv, VerdictHasResults
  <1>9. CASE PostError(w)
    <2>1. /\ On(w, "fail", "none")
          /\ UNCHANGED <<status, stored, job>>
          /\ posted' = posted \cup {<<jobChat[job[w]], job[w], "error">>}
      BY <1>9 DEF PostError, Post, OnlyStore, schedVars
    <2> QED
      BY <2>1, OneMoves, ResultsFrame
  <1> QED
    BY <1>2, <1>3, <1>4, <1>5, <1>6, <1>7, <1>8, <1>9 DEF Bookkeeping, Pipeline

LEMMA ResultsStep == Inv /\ ResultsInv /\ [Next]_vars => ResultsInv'
  <1> SUFFICES ASSUME Inv, ResultsInv, [Next]_vars PROVE ResultsInv'
    OBVIOUS
  <1>0. status \in [Runs -> Statuses]
    BY DEF Inv, StoreTypeOK
  <1>1. ASSUME UNCHANGED <<stored, status, posted, job, step>> PROVE ResultsInv'
    BY <1>1 DEF ResultsInv, VerdictHasResults
  <1>2. CASE CloseService \/ CloseToken \/ CloseScheduler \/ \E r \in Runs : SubmitPut(r)
    BY <1>1, <1>2 DEF CloseService, CloseToken, CloseScheduler, CloseStep, Shut, PutPill, SignalNext, Signal,
       SubmitPut, Put, OnlyMemory, OnlySched, storeVars, schedVars, memVars
  <1>3. ASSUME NEW r \in Runs, CloseRun(r) PROVE ResultsInv'
    <2>1. RequestCancel(r) /\ UNCHANGED <<step, job>>
      BY <1>3 DEF CloseRun, OnlyStore, schedVars
    <2> QED
      BY <1>0, <2>1, ResultsFrame DEF RequestCancel, AfterCancel
  <1>4. ASSUME NEW gone \in SUBSET Runs, Restart(gone) PROVE ResultsInv'
    <2>1. StoreBoot(gone) /\ step' = [w \in Workers |-> "none"]
      BY <1>4 DEF Restart, MemBoot
    <2> QED
      BY <1>0, <2>1, ResultsFrame DEF StoreBoot
  <1>5. CASE UNCHANGED vars
    BY <1>1, <1>5 DEF vars, storeVars, schedVars, memVars
  <1> QED
    BY <1>2, <1>3, <1>4, <1>5, CallResults, WorkerResults DEF Next, Shutdown

\* A verdict rests on results: replace_results comes before the summary and
\* before mark_finished on every path through _execute_run.
THEOREM ServiceVerdictHasResults == Spec => []VerdictHasResults
  <1>1. Init => ResultsInv
    BY DEF Init, StoreInit, MemInit, ResultsInv, VerdictHasResults
  <1>2. ResultsInv => VerdictHasResults
    BY DEF ResultsInv
  <1> QED
    BY <1>1, <1>2, ResultsStep, ServiceInductive, PTL DEF Spec

---------------------------------------------------------------------------
\* The chat and the outcome

\* No message about r was posted.
Untold(r) == \A p \in posted : p[2] # r

\* The call has a row that was not submitted.
Created(c) == call[c].at \in {"link", "register"}

\* A run that was not submitted belongs to one call, and nobody is at work
\* on it.
NewRunsInv ==
    /\ \A r \in Runs : status[r] = "absent" => Untold(r) /\ r \notin tokens
    /\ \A c \in Clients : Created(c) =>
          /\ status[call[c].run] \in {"queued", "cancelled"}
          /\ call[c].run \notin tokens
          /\ Untold(call[c].run)
    /\ \A b, c \in Clients : Created(b) /\ Created(c) /\ call[b].run = call[c].run => b = c

\* A chat that a call or a callback knows has existed.
KnownChats ==
    /\ \A c \in Clients : call[c].chat \in Sessions => chat[call[c].chat] # "none"
    /\ \A r \in Runs : jobChat[r] \in Sessions => chat[jobChat[r]] # "none"

Untelling == {"acquire", "start", "pipeline", "save", "summary", "error"}

Tells(r, kind) == <<jobChat[r], r, kind>> \in posted

\* What the chat was told at each step of a callback that has one.
ToldSoFar(w) ==
    jobChat[job[w]] # NoChat =>
       /\ step[w] \in Untelling => Untold(job[w])
       /\ chat[jobChat[job[w]]] = "open" =>
             /\ step[w] = "finish" => Tells(job[w], "summary")
             /\ step[w] = "fail" => Tells(job[w], "error")

OutcomeInv ==
    /\ \A r \in Runs : r \in tokens /\ jobChat[r] # NoChat /\ ~Busy(r) => Untold(r)
    /\ \A w \in Workers : worker[w] = "busy" => ToldSoFar(w)

ChatInv == NewRunsInv /\ KnownChats /\ OutcomeInv /\ ChatLearnsOutcome

LEMMA ServiceTypes ==
    ASSUME Inv
    PROVE  /\ StoreTypeOK /\ SchedTypeOK /\ MemTypeOK
           /\ NoChat \notin Sessions /\ NoRun \notin Runs
           /\ \A w \in Workers : worker[w] = "busy" => job[w] \in Runs /\ job[w] \in tokens
           /\ \A v, w \in Workers : v # w /\ worker[w] = "busy" => job[v] # job[w]
  <1>1. \A w \in Workers : worker[w] = "busy" => job[w] \in Runs /\ job[w] \in tokens
    BY BusyJob DEF Inv
  <1>2. StoreTypeOK /\ SchedTypeOK /\ MemTypeOK /\ NoChat \notin Sessions /\ NoRun \notin Runs
    BY OrchestratorAssumption, RunNamesAssumption DEF Inv, SchedInv, ControlInv
  <1>3. \A v, w \in Workers : v # w /\ worker[w] = "busy" => job[v] # job[w]
    BY <1>1, <1>2 DEF Inv, SchedInv, OneWorkerPerRun
  <1> QED
    BY <1>1, <1>2, <1>3

\* A callback takes a step with its run r, and tells its chat at most one
\* message about it.
LEMMA ChatMoves ==
    ASSUME Inv, ChatInv, NEW w \in Workers, NEW at, NEW f, On(w, at, f), worker[w] = "busy",
           UNCHANGED <<worker, job, tokens, chat>>,
           \A q \in Runs : q # job[w] => status'[q] = status[q],
           \/ posted' = posted
           \/ /\ Untold(job[w])
              /\ \E kind \in Verdicts : posted' = posted \cup {<<jobChat[job[w]], job[w], kind>>},
           status'[job[w]] # "absent",
           at \in Untelling => posted' = posted /\ step[w] \in Untelling,
           jobChat[job[w]] # NoChat /\ chat[jobChat[job[w]]] = "open" =>
              /\ at = "finish" => <<jobChat[job[w]], job[w], "summary">> \in posted'
              /\ at = "fail" => <<jobChat[job[w]], job[w], "error">> \in posted'
              /\ status'[job[w]] \in Results /\ status'[job[w]] # status[job[w]] =>
                    \E kind \in Verdicts : <<jobChat[job[w]], job[w], kind>> \in posted
    PROVE  ChatInv'
  <1> DEFINE r == job[w]
  <1>0. /\ r \in Runs /\ r \in tokens /\ jobChat[r] \in Chats
        /\ \A v \in Workers : v # w => job[v] # r
        /\ \A v \in Workers : step'[v] = IF v = w THEN at ELSE step[v]
        /\ UNCHANGED <<call, jobChat>>
    BY ServiceTypes, OneMoves DEF MemTypeOK
  <1>1. /\ \A q \in Runs : q # r => Untold(q)' = Untold(q)
        /\ posted \subseteq posted'
        /\ posted' = posted => Untold(r)' = Untold(r)
    BY DEF Untold
  <1>2. \A c \in Clients : Created(c) => call[c].run \in Runs /\ call[c].run # r
    BY <1>0 DEF ChatInv, NewRunsInv, Created, Inv, ControlInv
  <1>3. NewRunsInv'
    BY <1>0, <1>1, <1>2 DEF ChatInv, NewRunsInv, Created
  <1>4. KnownChats'
    BY <1>0 DEF ChatInv, KnownChats
  <1>5. ASSUME NEW q \in Runs, q \in tokens, jobChat[q] # NoChat, ~Busy(q)'
        PROVE  Untold(q)'
    <2>1. ~Busy(q) /\ q # r
      BY <1>5 DEF Busy
    <2> QED
      BY <1>1, <1>5, <2>1 DEF ChatInv, OutcomeInv
  <1>6. ASSUME NEW v \in Workers, worker[v] = "busy"
        PROVE  ToldSoFar(v)'
    <2>1. CASE v # w
      <3>1. job[v] \in Runs /\ job[v] # r /\ ToldSoFar(v)
        BY <1>0, <1>6, <2>1, ServiceTypes DEF ChatInv, OutcomeInv
      <3>2. Untold(job[v])' = Untold(job[v])
        BY <1>1, <3>1 DEF Untold
      <3> QED
        BY <1>0, <1>1, <2>1, <3>1, <3>2 DEF ToldSoFar, Tells
    <2>2. CASE v = w
      <3>1. SUFFICES ASSUME jobChat[r] # NoChat
                     PROVE  /\ at \in Untelling => (\A p \in posted' : p[2] # r)
                            /\ chat[jobChat[r]] = "open" =>
                                 /\ at = "finish" => <<jobChat[r], r, "summary">> \in posted'
                                 /\ at = "fail" => <<jobChat[r], r, "error">> \in posted'
        BY <1>0, <2>2 DEF ToldSoFar, Tells, Untold
      <3>2. step[w] \in Untelling => Untold(r)
        BY <3>1 DEF ChatInv, OutcomeInv, ToldSoFar
      <3> QED
        BY <3>1, <3>2 DEF Untold
    <2> QED
      BY <2>1, <2>2
  <1>7. OutcomeInv'
    BY <1>0, <1>5, <1>6 DEF OutcomeInv
  <1>8. ASSUME NEW q \in Runs, NEW s \in Sessions, jobChat[q] = s, chat[s] = "open", status'[q] \in Results
        PROVE  \E kind \in Verdicts : <<s, q, kind>> \in posted'
    <2>1. CASE status'[q] = status[q]
      BY <1>1, <1>8, <2>1 DEF ChatInv, ChatLearnsOutcome
    <2>2. CASE status'[q] # status[q]
      <3>1. q = r /\ jobChat[r] # NoChat
        BY <1>8, <2>2, ServiceTypes
      <3> QED
        BY <1>1, <1>8, <2>2, <3>1
    <2> QED
      BY <2>1, <2>2
  <1>9. ASSUME NEW q \in Runs, NEW s \in Sessions
        PROVE  ~(<<s, q, "summary">> \in posted' /\ <<s, q, "error">> \in posted')
    <2>1. CASE posted' = posted
      BY <2>1 DEF ChatInv, ChatLearnsOutcome
    <2>2. CASE Untold(r) /\ \E kind \in Verdicts : posted' = posted \cup {<<jobChat[r], r, kind>>}
      <3>1. PICK kind \in Verdicts : posted' = posted \cup {<<jobChat[r], r, kind>>}
        BY <2>2
      <3>2. CASE q = r
        <4>1. <<s, q, "summary">> \notin posted /\ <<s, q, "error">> \notin posted
          BY <2>2, <3>2 DEF Untold
        <4> QED
          BY <3>1, <4>1
      <3>3. CASE q # r
        <4>1. ~(<<s, q, "summary">> \in posted /\ <<s, q, "error">> \in posted)
          BY DEF ChatInv, ChatLearnsOutcome
        <4> QED
          BY <3>1, <3>3, <4>1
      <3> QED
        BY <3>2, <3>3
    <2> QED
      BY <2>1, <2>2
  <1>10. ChatLearnsOutcome'
    BY <1>0, <1>8, <1>9 DEF ChatLearnsOutcome
  <1> QED
    BY <1>3, <1>4, <1>7, <1>10 DEF ChatInv

\* Steps of the scheduler that start or end callbacks, but send nothing.
LEMMA TokenMoves ==
    ASSUME Inv, ChatInv, UNCHANGED <<storeVars, call, jobChat>>, tokens' \subseteq tokens,
           \A r \in Runs : r \in tokens' /\ Busy(r) => Busy(r)',
           \A w \in Workers : worker'[w] = "busy" => ToldSoFar(w)'
    PROVE  ChatInv'
  <1>1. \A r : Untold(r)' = Untold(r)
    BY DEF storeVars, Untold
  <1>2. NewRunsInv'
    BY <1>1 DEF storeVars, ChatInv, NewRunsInv, Created
  <1>3. KnownChats' /\ ChatLearnsOutcome'
    BY DEF storeVars, ChatInv, KnownChats, ChatLearnsOutcome
  <1>4. OutcomeInv'
    BY <1>1 DEF ChatInv, OutcomeInv
  <1> QED
    BY <1>2, <1>3, <1>4 DEF ChatInv

LEMMA WorkerChats ==
    ASSUME Inv, ChatInv, NEW w \in Workers, Bookkeeping(w) \/ Pipeline(w)
    PROVE  ChatInv'
  <1> DEFINE r == job[w]
  <1>0. /\ StoreTypeOK /\ SchedTypeOK /\ MemTypeOK
        /\ NoChat \notin Sessions /\ NoRun \notin Runs
        /\ worker[w] = "busy" => r \in Runs /\ r \in tokens /\ jobChat[r] \in Chats /\ status[r] # "absent"
        /\ fate[w] \in Fates
    BY ServiceTypes DEF MemTypeOK, ChatInv, NewRunsInv
  <1>1. CASE WorkerTakes(w)
    <2> DEFINE q == Head(queue)
    <2>1. /\ worker[w] = "idle" /\ queue # <<>> /\ q \in Runs
          /\ job' = [job EXCEPT ![w] = q] /\ worker' = [worker EXCEPT ![w] = "busy"]
          /\ tokens' = tokens /\ UNCHANGED storeVars
          /\ On(w, "acquire", "none")
      BY <1>1 DEF WorkerTakes, Take, Ready, OnlySched
    <2>2. q = queue[1] /\ 1 \in DOMAIN queue
      BY <1>0, <2>1 DEF SchedTypeOK
    <2>3. Queued(q)
      BY <2>2 DEF Queued
    <2>4. q \in tokens /\ ~Busy(q)
      BY <2>1, <2>3 DEF Inv, SchedInv, TokenTracksRun, OneWorkerPerRun
    <2>5. job[w] = NoRun
      BY <2>1 DEF Inv, SchedInv, JobsMatch
    <2>6. \A v \in Workers : job'[v] = IF v = w THEN q ELSE job[v]
      BY <1>0, <2>1 DEF SchedTypeOK
    <2>7. \A p \in Runs : Busy(p) => Busy(p)'
      BY <1>0, <2>5, <2>6 DEF Busy
    <2>8. ASSUME NEW v \in Workers, worker'[v] = "busy"
          PROVE  ToldSoFar(v)'
      <3>1. UNCHANGED <<jobChat, posted, chat>>
        BY <2>1, OneMoves DEF storeVars
      <3>2. CASE v = w
        <4>1. job'[w] = q /\ step'[w] = "acquire"
          BY <2>1, <2>6, OneMoves
        <4>2. jobChat[q] # NoChat => Untold(q)
          BY <2>1, <2>4 DEF ChatInv, OutcomeInv
        <4> QED
          BY <3>1, <3>2, <4>1, <4>2 DEF ToldSoFar, Untold
      <3>3. CASE v # w
        <4>1. worker[v] = "busy" /\ job'[v] = job[v] /\ step'[v] = step[v]
          BY <1>0, <2>1, <2>6, <2>8, <3>3, OneMoves DEF SchedTypeOK
        <4>2. ToldSoFar(v)
          BY <4>1 DEF ChatInv, OutcomeInv
        <4> QED
          BY <3>1, <4>1, <4>2 DEF ToldSoFar, Tells, Untold
      <3> QED
        BY <3>2, <3>3
    <2> QED
      BY <2>1, <2>7, <2>8, OneMoves, TokenMoves
  \* The jobs of the others stay.
  <1>2. ASSUME UNCHANGED storeVars, tokens' \subseteq tokens, UNCHANGED <<call, jobChat>>,
               \A p \in Runs : p \in tokens' /\ Busy(p) => Busy(p)',
               \A v \in Workers : worker'[v] = "busy" =>
                  worker[v] = "busy" /\ job'[v] = job[v] /\ step'[v] = step[v]
        PROVE  ChatInv'
    <2>1. ASSUME NEW v \in Workers, worker'[v] = "busy"
          PROVE  ToldSoFar(v)'
      <3>1. ToldSoFar(v) /\ job'[v] = job[v] /\ step'[v] = step[v]
        BY <1>2, <2>1 DEF ChatInv, OutcomeInv
      <3> QED
        BY <1>2, <3>1 DEF ToldSoFar, Tells, Untold, storeVars
    <2> QED
      BY <1>2, <2>1, TokenMoves
  <1>3. CASE WorkerIdles(w)
    <2>1. /\ UNCHANGED <<storeVars, job, memVars>> /\ tokens' \subseteq tokens
          /\ worker[w] = "idle"
          /\ \E state \in {"idle", "exited"} : worker' = [worker EXCEPT ![w] = state]
      BY <1>3 DEF WorkerIdles, Skip, Exit, Drop, Ready, OnlySched
    <2>2. \A v \in Workers : worker'[v] = "busy" => worker[v] = "busy"
      BY <1>0, <2>1 DEF SchedTypeOK
    <2> QED
      BY <1>2, <2>1, <2>2 DEF memVars, Busy
  <1>4. CASE WorkerDone(w)
    <2>1. /\ worker[w] = "busy" /\ UNCHANGED storeVars
          /\ tokens' = tokens \ {r}
          /\ job' = [job EXCEPT ![w] = NoRun]
          /\ \E state \in {"idle", "dead"} : worker' = [worker EXCEPT ![w] = state]
          /\ On(w, "none", "none")
      BY <1>4 DEF WorkerDone, Die, Return, Drop, OnlySched
    <2>2. \A v \in Workers : v # w => job'[v] = job[v] /\ worker'[v] = worker[v] /\ step'[v] = step[v]
      BY <1>0, <2>1, OneMoves DEF SchedTypeOK
    <2>3. worker'[w] # "busy"
      BY <1>0, <2>1 DEF SchedTypeOK
    <2>4. \A p \in Runs : p # r /\ Busy(p) => Busy(p)'
      BY <2>2 DEF Busy
    <2> QED
      BY <1>2, <2>1, <2>2, <2>3, <2>4, OneMoves
  \* Steps that neither write nor begin something new.
  <1>5. ASSUME NEW at, NEW f, On(w, at, f), worker[w] = "busy",
               at \in Untelling => step[w] \in Untelling,
               at \notin {"finish", "fail"} \/ jobChat[r] = NoChat,
               UNCHANGED <<schedVars, status, chat, posted>>
        PROVE  ChatInv'
    BY <1>0, <1>5, ChatMoves DEF schedVars
  <1>6. CASE GetLease(w) \/ NeverFits(w) \/ SeesCancel(w) \/ PipelineReturns(w) \/ PipelineExits(w)
             \/ PipelineRaises(w) \/ SummaryFails(w) \/ ErrorFails(w) \/ ReleaseLease(w) \/ SaveResults(w)
    <2>1. worker[w] = "busy" /\ UNCHANGED <<schedVars, status, chat, posted>>
      BY <1>6 DEF GetLease, NeverFits, SeesCancel, PipelineReturns, PipelineExits,
         PipelineRaises, SummaryFails, ErrorFails, ReleaseLease, SaveResults, ReplaceResults, Raised, Cancelled,
         OnlyMemory, OnlyStore, InStep, storeVars
    <2>2. \E at, f : /\ On(w, at, f)
                     /\ at \in Untelling => step[w] \in Untelling
                     /\ at \notin {"finish", "fail"} \/ jobChat[r] = NoChat
      BY <1>6 DEF GetLease, NeverFits, SeesCancel, PipelineReturns, PipelineExits,
         PipelineRaises, SummaryFails, ErrorFails, ReleaseLease, SaveResults, Raised, Cancelled, InStep, Untelling
    <2> QED
      BY <1>5, <2>1, <2>2
  \* Steps that write the status of the run.
  <1>7. ASSUME NEW at, NEW f, On(w, at, f), worker[w] = "busy", UNCHANGED schedVars,
               NEW from, NEW to \in Statuses, Update(r, from, to), to # "absent",
               at \in Untelling => step[w] \in Untelling,
               at \notin {"finish", "fail"},
               to \in Results /\ jobChat[r] # NoChat /\ chat[jobChat[r]] = "open" =>
                  \E kind \in Verdicts : <<jobChat[r], r, kind>> \in posted
        PROVE  ChatInv'
    <2>1. /\ \A q \in Runs : status'[q] = IF q = r /\ status[r] \in from THEN to ELSE status[q]
          /\ UNCHANGED <<chat, posted>>
      BY <1>0, <1>7, UpdateOne
    <2>2. status'[r] # "absent" /\ (status'[r] # status[r] => status'[r] = to)
      BY <1>0, <1>7, <2>1
    <2> QED
      BY <1>7, <2>1, <2>2, ChatMoves DEF schedVars
  <1>8. CASE StartRun(w)
    BY <1>7, <1>8 DEF StartRun, MarkRunning, InStep, OnlyStore, Statuses, Active, Results, Untelling
  <1>9. CASE MarkStopped(w)
    BY <1>7, <1>9 DEF MarkStopped, MarkCancelled, InStep, OnlyStore, Statuses, Final, Results, Untelling
  <1>10. CASE FinishRun(w)
    <2>1. /\ worker[w] = "busy" /\ step[w] = "finish" /\ Update(r, {"running"}, fate[w]) /\ UNCHANGED schedVars
          /\ fate[w] \in Results
          /\ \E f : On(w, "release", f)
      BY <1>10 DEF FinishRun, MarkFinished, InStep, OnlyStore, Inv, ControlInv
    <2>2. jobChat[r] # NoChat /\ chat[jobChat[r]] = "open" => <<jobChat[r], r, "summary">> \in posted
      BY <2>1 DEF ChatInv, OutcomeInv, ToldSoFar, Tells
    <2> QED
      BY <1>7, <2>1, <2>2 DEF Statuses, Final, Results, Verdicts, Untelling
  <1>11. CASE FailRun(w)
    <2>1. /\ worker[w] = "busy" /\ UNCHANGED schedVars
          /\ step[w] = "fail" \/ jobChat[r] = NoChat
          /\ Update(r, Active, "technical_failure")
          /\ On(w, "release", "none")
      BY <1>11 DEF FailRun, MarkFailed, InStep, OnlyStore
    <2>2. jobChat[r] # NoChat /\ chat[jobChat[r]] = "open" => <<jobChat[r], r, "error">> \in posted
      BY <2>1 DEF ChatInv, OutcomeInv, ToldSoFar, Tells
    <2> QED
      BY <1>7, <2>1, <2>2 DEF Statuses, Final, Results, Verdicts, Untelling
  \* Steps that post.
  <1>12. ASSUME NEW kind \in Verdicts, Post(jobChat[r], r, kind), worker[w] = "busy", UNCHANGED schedVars,
                jobChat[r] # NoChat, step[w] \in Untelling,
                NEW at, NEW f, On(w, at, f), at \notin Untelling,
                at = "finish" => kind = "summary", at = "fail" => kind = "error"
         PROVE  ChatInv'
    <2>1. Untold(r)
      BY <1>12 DEF ChatInv, OutcomeInv, ToldSoFar
    <2> QED
      BY <1>0, <1>12, <2>1, ChatMoves DEF Post, schedVars
  <1>13. CASE PostSummary(w)
    BY <1>0, <1>12, <1>13 DEF PostSummary, InStep, OnlyStore, Inv, ControlInv, Verdicts, Untelling
  <1>14. CASE PostError(w)
    BY <1>12, <1>14 DEF PostError, InStep, OnlyStore, Verdicts, Untelling
  <1> QED
    BY <1>1, <1>3, <1>4, <1>6, <1>8, <1>9, <1>10, <1>11, <1>13, <1>14 DEF Bookkeeping, Pipeline

\* A call moves and nobody else: what it now has was already known.
LEMMA CallMoves ==
    ASSUME Inv, ChatInv, NEW c \in Clients, NEW at, NEW s \in Chats, NEW r, Goto(c, at, s, r),
           UNCHANGED schedVars,
           UNCHANGED <<chat, posted>>,
           s \in Sessions => chat[s] # "none",
           \A q \in Runs : \/ status'[q] = status[q]
                           \/ status[q] = "running" /\ status'[q] = "cancelling"
                           \/ status'[q] \in {"queued", "cancelled"},
           at \in {"link", "register"} =>
              /\ r \in Runs /\ status'[r] \in {"queued", "cancelled"} /\ r \notin tokens /\ Untold(r)
              /\ \A b \in Clients : b # c /\ Created(b) => call[b].run # r
    PROVE  ChatInv'
  <1>0. /\ UNCHANGED <<jobChat, step, tokens, worker, job>>
        /\ \A b \in Clients : call'[b] = IF b = c THEN [at |-> at, chat |-> s, run |-> r] ELSE call[b]
    BY DEF Goto, schedVars, Inv, ControlInv, MemTypeOK
  <1>1. /\ \A q : Untold(q)' = Untold(q)
        /\ \A q \in Runs : Busy(q)' = Busy(q)
        /\ \A v \in Workers : ToldSoFar(v)' = ToldSoFar(v)
    BY <1>0 DEF Untold, Busy, ToldSoFar, Tells
  <1>2. \A b \in Clients : b # c => Created(b)' = Created(b) /\ call'[b] = call[b]
    BY <1>0 DEF Created
  <1>3. Created(c)' => at \in {"link", "register"} /\ call'[c].run = r
    BY <1>0 DEF Created
  <1>4. \A b \in Clients : Created(b) => call[b].run \in Runs /\ status[call[b].run] \in {"queued", "cancelled"}
    BY DEF Created, ChatInv, NewRunsInv, Inv, ControlInv
  <1>5. NewRunsInv'
    <2>1. ASSUME NEW q \in Runs, status'[q] = "absent"
          PROVE  Untold(q)' /\ q \notin tokens'
      BY <1>0, <1>1, <2>1 DEF ChatInv, NewRunsInv
    <2>2. ASSUME NEW b \in Clients, Created(b)'
          PROVE  status'[call'[b].run] \in {"queued", "cancelled"} /\ call'[b].run \notin tokens'
                 /\ \A p \in posted' : p[2] # call'[b].run
      <3>1. CASE b = c
        BY <1>0, <1>3, <2>2, <3>1 DEF Untold
      <3>2. CASE b # c
        <4> DEFINE q == call[b].run
        <4>1. call'[b] = call[b] /\ Created(b)
          BY <1>2, <2>2, <3>2
        <4>2. q \in Runs /\ status[q] \in {"queued", "cancelled"} /\ q \notin tokens /\ Untold(q)
          BY <1>4, <4>1 DEF ChatInv, NewRunsInv
        <4>3. status'[q] \in {"queued", "cancelled"}
          BY <4>2
        <4> QED
          BY <1>0, <4>1, <4>2, <4>3 DEF Untold
      <3> QED
        BY <3>1, <3>2
    <2>3. ASSUME NEW a \in Clients, NEW b \in Clients, Created(a)', Created(b)', call'[a].run = call'[b].run
          PROVE  a = b
      BY <1>2, <1>3, <2>3 DEF ChatInv, NewRunsInv
    <2> QED
      BY <2>1, <2>2, <2>3 DEF NewRunsInv, Untold
  <1>6. KnownChats'
    BY <1>0 DEF ChatInv, KnownChats
  <1>7. OutcomeInv'
    BY <1>0, <1>1 DEF ChatInv, OutcomeInv
  <1>8. ChatLearnsOutcome'
    <2>1. \A q \in Runs : status'[q] \in Results => status'[q] = status[q]
      BY DEF Results
    <2> QED
      BY <1>0, <2>1 DEF ChatInv, ChatLearnsOutcome
  <1> QED
    BY <1>5, <1>6, <1>7, <1>8 DEF ChatInv

LEMMA CallChats ==
    ASSUME Inv, ChatInv, NEW c \in Clients, CreateCall(c) \/ CancelCall(c) \/ ChatCall(c)
    PROVE  ChatInv'
  <1>0. /\ StoreTypeOK /\ SchedTypeOK /\ MemTypeOK /\ NoChat \notin Sessions /\ NoRun \notin Runs
        /\ call[c] \in Calls /\ call[c].chat \in Chats
        /\ call[c].chat \in Sessions => chat[call[c].chat] # "none"
    BY ServiceTypes DEF MemTypeOK, Calls, ChatInv, KnownChats
  \* Steps that only go to another place.
  <1>1. ASSUME NEW at, NEW s \in Chats, NEW r, Goto(c, at, s, r), UNCHANGED <<storeVars, schedVars>>,
               at \notin {"link", "register"}, s \in Sessions => chat[s] # "none"
        PROVE  ChatInv'
    BY <1>1, CallMoves DEF storeVars
  <1>2. CASE CallRun(c) \/ Answer(c) \/ Analyse(c) \/ LinkFails(c) \/ SubmitFails(c)
    BY <1>0, <1>1, <1>2 DEF CallRun, Answer, Analyse, LinkFails, SubmitFails, Ends, OnlyMemory, Chats
  <1>3. ASSUME NEW s \in Sessions, CallMessage(c, s) PROVE ChatInv'
    BY <1>0, <1>1, <1>3 DEF CallMessage, OnlyMemory, Chats
  <1>4. ASSUME NEW r \in Runs, CreateRow(c, r) PROVE ChatInv'
    <2>1. /\ status[r] = "absent" /\ UNCHANGED <<chat, posted, schedVars>>
          /\ \A q \in Runs : status'[q] = IF q = r THEN "queued" ELSE status[q]
          /\ \E at : Goto(c, at, call[c].chat, r)
      BY <1>0, <1>4 DEF CreateRow, InsertRun, OnlyStore, StoreTypeOK
    <2>2. Untold(r) /\ r \notin tokens
      BY <2>1 DEF ChatInv, NewRunsInv
    <2>3. \A b \in Clients : Created(b) => call[b].run # r
      BY <2>1 DEF ChatInv, NewRunsInv
    <2> QED
      BY <1>0, <2>1, <2>2, <2>3, CallMoves
  <1>5. CASE LinkChat(c)
    <2>1. /\ UNCHANGED <<status, chat, posted, schedVars>> /\ Created(c)
          /\ Goto(c, "register", call[c].chat, call[c].run)
      BY <1>5 DEF LinkChat, SetChatRun, OnlyStore, At, Created
    <2>2. call[c].run \in Runs
      BY <1>5 DEF LinkChat, At, Inv, ControlInv
    <2>3. /\ status[call[c].run] \in {"queued", "cancelled"} /\ call[c].run \notin tokens /\ Untold(call[c].run)
          /\ \A b \in Clients : b # c /\ Created(b) => call[b].run # call[c].run
      BY <2>1 DEF ChatInv, NewRunsInv
    <2> QED
      BY <1>0, <2>1, <2>2, <2>3, CallMoves
  <1>6. ASSUME NEW r \in Runs, CallCancel(c, r) PROVE ChatInv'
    <2>1. /\ UNCHANGED <<chat, posted, schedVars>> /\ status[r] # "absent"
          /\ \A q \in Runs : status'[q] = IF q = r THEN AfterCancel(r) ELSE status[q]
          /\ Goto(c, "signal", NoChat, r) \/ Goto(c, "idle", NoChat, NoRun)
      BY <1>0, <1>6 DEF CallCancel, RequestCancel, Known, Ends, OnlyStore, StoreTypeOK
    <2>2. \A q \in Runs : \/ status'[q] = status[q]
                          \/ status[q] = "running" /\ status'[q] = "cancelling"
                          \/ status'[q] \in {"queued", "cancelled"}
      <3>1. \/ AfterCancel(r) = status[r]
            \/ status[r] = "running" /\ AfterCancel(r) = "cancelling"
            \/ AfterCancel(r) = "cancelled"
        BY DEF AfterCancel
      <3> QED
        BY <2>1, <3>1
    <2> QED
      BY <1>0, <2>1, <2>2, CallMoves DEF Chats
  <1>7. CASE CancelToken(c)
    <2>1. UNCHANGED <<storeVars, tokens, worker, job>> /\ Goto(c, "idle", NoChat, NoRun)
      BY <1>7 DEF CancelToken, Signal, Ends, OnlySched
    <2>2. /\ UNCHANGED <<jobChat, step>>
          /\ \A b \in Clients : call'[b] = IF b = c THEN Idle ELSE call[b]
      BY <1>0, <2>1 DEF Goto, MemTypeOK, Idle
    <2>3. \A b \in Clients : Created(b)' => Created(b) /\ call'[b] = call[b]
      BY <2>2 DEF Created, Idle
    <2>4. NewRunsInv'
      BY <2>1, <2>3 DEF ChatInv, NewRunsInv, storeVars, Untold
    <2>5. KnownChats'
      BY <1>0, <2>1, <2>2 DEF ChatInv, KnownChats, storeVars, Idle
    <2>6. OutcomeInv'
      BY <2>1, <2>2 DEF ChatInv, OutcomeInv, storeVars, Untold, Busy, ToldSoFar, Tells
    <2>7. ChatLearnsOutcome'
      BY <2>1, <2>2 DEF ChatInv, ChatLearnsOutcome, storeVars
    <2> QED
      BY <2>4, <2>5, <2>6, <2>7 DEF ChatInv
  <1>8. CASE Submit(c)
    <2> DEFINE r == call[c].run
    <2>1. /\ Created(c) /\ r \in Runs /\ r \notin tokens
          /\ UNCHANGED <<storeVars, worker, job, step>>
          /\ tokens' = tokens \cup {r}
      BY <1>8 DEF Submit, Register, OnlySched, At, Created, Inv, ControlInv
    <2>2. /\ \A b \in Clients : call'[b] = IF b = c THEN Idle ELSE call[b]
          /\ \A q \in Runs : jobChat'[q] = IF q = r THEN call[c].chat ELSE jobChat[q]
      BY <1>0, <1>8, <2>1 DEF Submit, MemTypeOK
    <2>3. status[r] \in {"queued", "cancelled"} /\ Untold(r)
      BY <2>1 DEF ChatInv, NewRunsInv
    <2>4. \A b \in Clients : Created(b)' => b # c /\ Created(b) /\ call'[b] = call[b] /\ call[b].run # r
      BY <2>1, <2>2 DEF Created, Idle, ChatInv, NewRunsInv
    <2>5. NewRunsInv'
      BY <2>1, <2>3, <2>4 DEF ChatInv, NewRunsInv, storeVars, Untold
    <2>6. KnownChats'
      BY <1>0, <2>1, <2>2 DEF ChatInv, KnownChats, storeVars, Idle
    <2>7. OutcomeInv'
      <3>1. \A w \in Workers : worker[w] = "busy" => job[w] \in Runs /\ job[w] # r
        BY <2>1, ServiceTypes
      <3>2. \A w \in Workers : worker[w] = "busy" => ToldSoFar(w)'
        BY <2>1, <2>2, <3>1 DEF ChatInv, OutcomeInv, storeVars, Untold, ToldSoFar, Tells
      <3>3. \A q \in Runs : q \in tokens' /\ jobChat'[q] # NoChat /\ ~Busy(q)' => Untold(q)'
        BY <2>1, <2>2, <2>3 DEF ChatInv, OutcomeInv, storeVars, Untold, Busy
      <3> QED
        BY <2>1, <3>2, <3>3 DEF OutcomeInv
    <2>8. ChatLearnsOutcome'
      BY <2>1, <2>2, <2>3 DEF ChatInv, ChatLearnsOutcome, storeVars, Results
    <2> QED
      BY <2>5, <2>6, <2>7, <2>8 DEF ChatInv
  \* A chat is opened, or goes with its messages.
  <1>9. ASSUME NEW s \in Sessions, CallOpen(s) \/ CallDelete(s) PROVE ChatInv'
    <2>1. /\ UNCHANGED <<status, schedVars, jobChat, step>>
          /\ \A t \in Sessions : t # s => chat'[t] = chat[t]
          /\ chat'[s] # "none"
          /\ chat'[s] = "open" => chat[s] = "none" /\ posted' = posted
          /\ posted' \subseteq posted
          /\ \A p \in posted : p[1] # s => p \in posted'
      BY <1>0, <1>9 DEF CallOpen, CallDelete, OpenChat, DeleteChat, OnlyStore, memVars, StoreTypeOK
    <2>2. call' = call
      BY <1>9 DEF CallOpen, CallDelete, memVars
    <2>3. \A q : Untold(q) => Untold(q)'
      BY <2>1 DEF Untold
    <2>4. \A b \in Clients : Created(b)' => Created(b) /\ call'[b] = call[b]
      BY <2>2 DEF Created, Idle
    <2>5. NewRunsInv'
      BY <2>1, <2>3, <2>4 DEF ChatInv, NewRunsInv, schedVars, Untold
    <2>6. KnownChats'
      BY <1>0, <2>1, <2>2 DEF ChatInv, KnownChats, Idle
    <2>7. OutcomeInv'
      <3>1. ASSUME NEW w \in Workers, worker[w] = "busy"
            PROVE  ToldSoFar(w)'
        <4> DEFINE t == jobChat[job[w]]
        <4>1. ToldSoFar(w) /\ (t \in Sessions \/ t = NoChat)
          BY <1>0, <3>1, ServiceTypes, ChatCases DEF ChatInv, OutcomeInv
        <4>2. t \in Sessions => chat[t] # "none"
          BY <3>1, ServiceTypes DEF ChatInv, KnownChats
        <4>3. t \in Sessions /\ chat'[t] = "open" => t # s /\ chat[t] = "open"
          BY <2>1, <4>2
        <4>4. \A k : t \in Sessions /\ chat'[t] = "open" /\ <<t, job[w], k>> \in posted
                        => <<t, job[w], k>> \in posted'
          BY <2>1, <4>3
        <4> QED
          BY <2>1, <4>1, <4>3, <4>4 DEF ToldSoFar, Tells, Untold, schedVars
      <3> QED
        BY <2>1, <2>3, <3>1 DEF ChatInv, OutcomeInv, schedVars, Untold, Busy
    <2>8. ChatLearnsOutcome'
      <3>1. ASSUME NEW q \in Runs, NEW t \in Sessions, jobChat[q] = t, chat'[t] = "open", status[q] \in Results
            PROVE  \E kind \in Verdicts : <<t, q, kind>> \in posted'
        <4>1. chat[t] # "none"
          BY <3>1 DEF ChatInv, KnownChats
        <4>2. t # s /\ chat[t] = "open"
          BY <2>1, <3>1, <4>1
        <4>3. PICK kind \in Verdicts : <<t, q, kind>> \in posted
          BY <3>1, <4>2 DEF ChatInv, ChatLearnsOutcome
        <4> QED
          BY <2>1, <4>2, <4>3
      <3> QED
        BY <2>1, <3>1 DEF ChatInv, ChatLearnsOutcome
    <2> QED
      BY <2>5, <2>6, <2>7, <2>8 DEF ChatInv
  <1> QED
    BY <1>2, <1>3, <1>4, <1>5, <1>6, <1>7, <1>8, <1>9 DEF CreateCall, CancelCall, ChatCall

LEMMA ChatStep == Inv /\ ChatInv /\ [Next]_vars => ChatInv'
  <1> SUFFICES ASSUME Inv, ChatInv, [Next]_vars PROVE ChatInv'
    OBVIOUS
  <1>0. StoreTypeOK /\ NoChat \notin Sessions
    BY ServiceTypes
  <1>1. ASSUME UNCHANGED <<storeVars, call, jobChat, step, tokens, worker, job>> PROVE ChatInv'
    <2>1. NewRunsInv'
      BY <1>1 DEF ChatInv, NewRunsInv, Created, Untold, storeVars
    <2>2. KnownChats' /\ ChatLearnsOutcome'
      BY <1>1 DEF ChatInv, KnownChats, ChatLearnsOutcome, storeVars
    <2>3. OutcomeInv'
      BY <1>1 DEF ChatInv, OutcomeInv, ToldSoFar, Tells, Untold, Busy, storeVars
    <2> QED
      BY <2>1, <2>2, <2>3 DEF ChatInv
  <1>2. CASE CloseService \/ CloseToken \/ CloseScheduler \/ \E r \in Runs : SubmitPut(r)
    BY <1>1, <1>2 DEF CloseService, CloseToken, CloseScheduler, CloseStep, Shut, PutPill, SignalNext, Signal,
       SubmitPut, Put, OnlyMemory, OnlySched, schedVars, memVars
  <1>3. ASSUME NEW r \in Runs, CloseRun(r) PROVE ChatInv'
    <2>1. /\ UNCHANGED <<chat, posted, call, jobChat, step, tokens, worker, job>> /\ status[r] # "absent"
          /\ \A q \in Runs : status'[q] = IF q = r THEN AfterCancel(r) ELSE status[q]
      BY <1>0, <1>3 DEF CloseRun, RequestCancel, Known, OnlyStore, schedVars, StoreTypeOK
    <2>2. \A q \in Runs : /\ status'[q] = "absent" => status[q] = "absent"
                          /\ status[q] \in {"queued", "cancelled"} => status'[q] \in {"queued", "cancelled"}
                          /\ status'[q] \in Results => status'[q] = status[q]
      BY <2>1 DEF AfterCancel, Results
    <2>3. \A c \in Clients : Created(c) => call[c].run \in Runs
      BY DEF Created, Inv, ControlInv
    <2>4. NewRunsInv'
      BY <2>1, <2>2, <2>3 DEF ChatInv, NewRunsInv, Created, Untold
    <2>5. KnownChats'
      BY <2>1 DEF ChatInv, KnownChats
    <2>6. OutcomeInv'
      BY <2>1 DEF ChatInv, OutcomeInv, ToldSoFar, Tells, Untold, Busy
    <2>7. ChatLearnsOutcome'
      BY <2>1, <2>2 DEF ChatInv, ChatLearnsOutcome
    <2> QED
      BY <2>4, <2>5, <2>6, <2>7 DEF ChatInv
  <1>4. ASSUME NEW gone \in SUBSET Runs, Restart(gone) PROVE ChatInv'
    <2> DEFINE S == {r \in Runs : status'[r] = "queued"}
    <2>1. PICK q \in Orders(S) : SchedBoot(q)
      BY <1>4 DEF Restart
    <2>2. tokens' \subseteq S
      BY <2>1 DEF SchedBoot, Orders
    <2>3. /\ UNCHANGED <<chat, posted>>
          /\ \A r \in Runs : status'[r] = "absent" => status[r] = "absent"
          /\ call' = [c \in Clients |-> Idle]
          /\ jobChat' = [r \in Runs |-> NoChat]
      BY <1>4 DEF Restart, StoreBoot, MemBoot
    <2>4. worker' = [w \in Workers |-> "idle"]
      BY <2>1 DEF SchedBoot
    <2>5. NewRunsInv'
      BY <2>2, <2>3 DEF ChatInv, NewRunsInv, Created, Idle, Untold
    <2>6. KnownChats'
      BY <1>0, <2>3 DEF KnownChats, Idle
    <2>7. OutcomeInv'
      BY <2>3, <2>4 DEF OutcomeInv
    <2>8. ChatLearnsOutcome'
      BY <1>0, <2>3 DEF ChatInv, ChatLearnsOutcome
    <2> QED
      BY <2>5, <2>6, <2>7, <2>8 DEF ChatInv
  <1>5. CASE UNCHANGED vars
    BY <1>1, <1>5 DEF vars, schedVars, memVars
  <1> QED
    BY <1>2, <1>3, <1>4, <1>5, CallChats, WorkerChats DEF Next, Shutdown

LEMMA ChatStart == Init => ChatInv
  <1> SUFFICES ASSUME Init PROVE ChatInv
    OBVIOUS
  <1>1. NoChat \notin Sessions
    BY OrchestratorAssumption
  <1>2. NewRunsInv
    BY DEF Init, StoreInit, SchedInit, MemInit, NewRunsInv, Created, Untold, Idle
  <1>3. KnownChats
    BY <1>1 DEF Init, MemInit, KnownChats, Idle
  <1>4. OutcomeInv
    BY DEF Init, SchedInit, OutcomeInv
  <1>5. ChatLearnsOutcome
    BY <1>1 DEF Init, StoreInit, MemInit, ChatLearnsOutcome
  <1> QED
    BY <1>2, <1>3, <1>4, <1>5 DEF ChatInv

\* When a run of a chat has completed or failed, the chat was told, unless
\* it was deleted; and it was never told a summary and an error of one run
\* (_execute_run: the except clause follows a summary that failed, never
\* one that was posted).
THEOREM ServiceChatLearnsOutcome == Spec => []ChatLearnsOutcome
  <1>1. ChatInv => ChatLearnsOutcome
    BY DEF ChatInv
  <1> QED
    BY <1>1, ChatStart, ChatStep, ServiceInductive, PTL DEF Spec

---------------------------------------------------------------------------
\* No run is forgotten

\* The run is cancelled or over.
Stopped(r) == status[r] \in {"cancelling"} \cup Final

Waiting == {"queued", "cancelled"}

Writing == {"pipeline", "save", "summary", "finish"}

\* What the step of a callback and its end so far say of a status.
Suits(at, end, now) ==
    /\ at \in {"acquire", "start"} => now \in Waiting
    /\ at \in Writing => now \in {"running", "cancelling"}
    /\ at = "release" /\ end = "cancelled" => now \in {"cancelling"} \cup Final
    /\ at = "release" /\ end # "cancelled" => now \in Final
    /\ at = "mark" => now \in {"cancelling"} \cup Final
    /\ at = "done" => now \in Final

StatusFits(w) == Suits(step[w], fate[w], status[job[w]])

\* The run is where NothingForgotten wants it.
Remembered(r) ==
    /\ status[r] = "queued" => r \in tokens \/ \E c \in Clients : call[c].run = r /\ Created(c)
    /\ status[r] \in {"running", "cancelling"} => Busy(r)

\* Cancelling has only reached runs whose status says so, and a run with a
\* token waits unless a worker has it.
OpenInv ==
    /\ stage = "open" /\ toClose = {} /\ closing = NoRun
    /\ \A r \in signalled : Stopped(r)
    /\ \A c \in Clients : call[c].at = "signal" => Stopped(call[c].run)
    /\ \A r \in tokens : ~Busy(r) => status[r] \in Waiting
    /\ \A w \in Workers : worker[w] = "busy" => StatusFits(w)
    /\ \A r \in Runs : Remembered(r)

\* Nobody deletes chats, so no callback dies of one.
ProgressInv ==
    /\ \A s \in Sessions : chat[s] # "deleted"
    /\ \A w \in Workers : fate[w] # "raised"
    /\ ~closed => OpenInv

\* A callback takes a step with its run.
LEMMA ProgressMoves ==
    ASSUME Inv, ProgressInv, NEW w \in Workers, NEW at, NEW f, On(w, at, f), worker[w] = "busy",
           UNCHANGED <<schedVars, chat>>, f # "raised",
           \A q \in Runs : q # job[w] => status'[q] = status[q],
           Stopped(job[w]) => Stopped(job[w])',
           OpenInv => Suits(at, f, status'[job[w]])
    PROVE  ProgressInv'
  <1> DEFINE r == job[w]
  <1>0. /\ r \in Runs /\ r \in tokens
        /\ \A v \in Workers : v # w /\ worker[v] = "busy" => job[v] \in Runs /\ job[v] # r
        /\ \A v \in Workers : v # w => step'[v] = step[v] /\ fate'[v] = fate[v]
        /\ fate'[w] = f
        /\ UNCHANGED <<call, jobChat, closed, toClose, closing>>
        /\ UNCHANGED <<tokens, signalled, stage, worker, job>>
    <2>1. UNCHANGED <<toClose, closing>> /\ UNCHANGED <<tokens, signalled, stage, worker, job>>
      BY DEF On, schedVars
    <2>2. r \in Runs /\ r \in tokens
          /\ \A v \in Workers : v # w /\ worker[v] = "busy" => job[v] \in Runs /\ job[v] # r
      BY ServiceTypes
    <2> QED
      BY <2>1, <2>2, OneMoves
  <1>1. \A q \in Runs : Busy(q)' = Busy(q)
    BY <1>0 DEF Busy
  <1>2. Busy(r)
    BY DEF Busy
  <1>3. \A q \in Runs : Stopped(q) => Stopped(q)'
    BY <1>0 DEF Stopped
  <1>4. \A c \in Clients : call[c].at = "signal" => call[c].run \in Runs
    BY DEF Inv, ControlInv
  <1>5. ASSUME OpenInv PROVE OpenInv'
    <2>1. signalled \subseteq Runs /\ tokens \subseteq Runs
      BY ServiceTypes DEF SchedTypeOK
    <2>2. \A v \in Workers : worker[v] = "busy" => StatusFits(v)'
      <3>1. ASSUME NEW v \in Workers, v # w, worker[v] = "busy" PROVE StatusFits(v)'
        <4>1. StatusFits(v) /\ job[v] \in Runs /\ status'[job[v]] = status[job[v]] /\ job'[v] = job[v]
              /\ step'[v] = step[v] /\ fate'[v] = fate[v]
          BY <1>0, <1>5, <3>1 DEF OpenInv
        <4> QED
          BY <4>1 DEF StatusFits
      <3>2. StatusFits(w)'
        BY <1>0, <1>5, OneMoves DEF StatusFits
      <3> QED
        BY <3>1, <3>2
    <2>3. \A q \in Runs : Remembered(q)'
      <3>1. ASSUME NEW q \in Runs, q # r PROVE Remembered(q)'
        <4>1. Remembered(q) /\ status'[q] = status[q]
          BY <1>5, <3>1 DEF OpenInv
        <4> QED
          BY <1>0, <1>1, <4>1 DEF Remembered, Created
      <3>2. ASSUME NEW q \in Runs, q = r PROVE Remembered(q)'
        BY <1>0, <1>1, <1>2, <3>2 DEF Remembered
      <3> QED
        BY <3>1, <3>2
    <2>4. \A q \in tokens' : ~Busy(q)' => status'[q] \in Waiting
      BY <1>0, <1>1, <1>2, <1>5, <2>1 DEF OpenInv
    <2>5. \A q \in signalled' : Stopped(q)'
      BY <1>0, <1>3, <1>5, <2>1 DEF OpenInv
    <2>6. \A c \in Clients : call[c].at = "signal" => status'[call[c].run] \in {"cancelling"} \cup Final
      BY <1>3, <1>4, <1>5 DEF OpenInv, Stopped
    <2>7. (\A c \in Clients : call[c].at = "signal" => Stopped(call[c].run))'
      BY <1>0, <2>6 DEF Stopped
    <2> QED
      BY <1>0, <1>5, <2>2, <2>3, <2>4, <2>5, <2>7 DEF OpenInv
  <1> QED
    BY <1>0, <1>5 DEF ProgressInv

\* Between deletions, a chat that a callback knows is open.
LEMMA ChatsStay ==
    ASSUME Inv, ChatInv, ProgressInv
    PROVE  /\ \A w \in Workers : worker[w] = "busy" /\ jobChat[job[w]] # NoChat => chat[jobChat[job[w]]] = "open"
           /\ \A c \in Clients : At(c, "link") => chat[call[c].chat] = "open"
  <1>0. chat \in [Sessions -> {"none", "open", "deleted"}]
    BY ServiceTypes DEF StoreTypeOK
  <1>1. ASSUME NEW w \in Workers, worker[w] = "busy", jobChat[job[w]] # NoChat
        PROVE  chat[jobChat[job[w]]] = "open"
    <2>1. job[w] \in Runs /\ jobChat[job[w]] \in Sessions
      BY <1>1, ServiceTypes, ChatCases
    <2> QED
      BY <1>0, <2>1 DEF ChatInv, KnownChats, ProgressInv
  <1>2. ASSUME NEW c \in Clients, At(c, "link") PROVE chat[call[c].chat] = "open"
    <2>1. call[c].chat \in Sessions
      BY <1>2 DEF At, Inv, ControlInv
    <2> QED
      BY <1>0, <2>1 DEF ChatInv, KnownChats, ProgressInv
  <1> QED
    BY <1>1, <1>2

LEMMA CallbackProgress ==
    ASSUME Inv, ChatInv, ProgressInv, "exit" \notin Faults, NEW w \in Workers, worker[w] = "busy",
           Bookkeeping(w) \/ Pipeline(w), ~WorkerTakes(w), ~WorkerIdles(w), ~WorkerDone(w)
    PROVE  ProgressInv'
  <1> DEFINE r == job[w]
  <1>0. /\ StoreTypeOK /\ r \in Runs /\ r \in tokens /\ status[r] \in Statuses \ {"absent"}
        /\ jobChat[r] # NoChat => chat[jobChat[r]] = "open"
        /\ fate[w] # "raised"
    BY ServiceTypes, ChatsStay DEF ChatInv, NewRunsInv, StoreTypeOK, ProgressInv
  <1>1. OpenInv => Suits(step[w], fate[w], status[r])
    BY DEF OpenInv, StatusFits
  \* Steps that write nothing of the run.
  <1>2. ASSUME NEW at, NEW f, On(w, at, f), UNCHANGED <<schedVars, status, chat>>, f # "raised",
               OpenInv => Suits(at, f, status[r])
        PROVE  ProgressInv'
    BY <1>2, ProgressMoves DEF Stopped, schedVars
  <1>3. CASE GetLease(w) \/ NeverFits(w) \/ PipelineReturns(w) \/ PipelineRaises(w) \/ SummaryFails(w)
             \/ SaveResults(w) \/ PostSummary(w) \/ PostError(w)
    <2>1. UNCHANGED <<schedVars, status, chat>>
      BY <1>3 DEF GetLease, NeverFits, PipelineReturns, PipelineRaises, SummaryFails, SaveResults, ReplaceResults,
         PostSummary, PostError, Post, Raised, OnlyMemory, OnlyStore, storeVars
    <2>2. \E at, f : /\ On(w, at, f) /\ f # "raised"
                     /\ Suits(step[w], fate[w], status[r]) => Suits(at, f, status[r])
      BY <1>0, <1>3 DEF GetLease, NeverFits, PipelineReturns, PipelineRaises, SummaryFails, SaveResults,
         PostSummary, PostError, Raised, InStep, Suits, Writing, Results
    <2> QED
      BY <1>1, <1>2, <2>1, <2>2
  <1>4. CASE SeesCancel(w)
    <2>1. /\ On(w, "release", "cancelled") /\ UNCHANGED <<schedVars, status, chat>> /\ r \in signalled
      BY <1>4 DEF SeesCancel, Cancelled, TokenCancelled, OnlyMemory, storeVars
    <2>2. OpenInv => Suits("release", "cancelled", status[r])
      BY <2>1 DEF OpenInv, Stopped, Suits, Writing
    <2> QED
      BY <1>2, <2>1, <2>2
  <1>5. CASE ErrorFails(w)
    BY <1>0, <1>5 DEF ErrorFails
  <1>6. CASE PipelineExits(w)
    BY <1>6 DEF PipelineExits
  <1>7. CASE ReleaseLease(w)
    <2>1. /\ step[w] = "release" /\ UNCHANGED <<schedVars, status, chat>>
          /\ On(w, IF fate[w] = "cancelled" THEN "mark" ELSE "done", fate[w])
      BY <1>7 DEF ReleaseLease, InStep, storeVars
    <2>2. OpenInv => Suits(IF fate[w] = "cancelled" THEN "mark" ELSE "done", fate[w], status[r])
      BY <1>1, <2>1 DEF Suits, Writing
    <2> QED
      BY <1>0, <1>2, <2>1, <2>2
  \* Steps that write the status.
  <1>8. ASSUME NEW at, NEW f, On(w, at, f), f # "raised", UNCHANGED schedVars,
               NEW from, NEW to, Update(r, from, to), to \in Final \/ from = {"queued"},
               OpenInv => Suits(at, f, IF status[r] \in from THEN to ELSE status[r])
        PROVE  ProgressInv'
    <2>1. /\ \A q \in Runs : status'[q] = IF q = r /\ status[r] \in from THEN to ELSE status[q]
          /\ UNCHANGED chat
      BY <1>0, <1>8, UpdateOne
    <2>2. status'[r] = (IF status[r] \in from THEN to ELSE status[r]) /\ job'[w] = job[w]
      BY <1>0, <1>8, <2>1 DEF schedVars
    <2>3. Stopped(r) => Stopped(r)'
      BY <1>8, <2>2 DEF Stopped, Final
    <2> QED
      BY <1>0, <1>8, <2>1, <2>2, <2>3, ProgressMoves
  <1>9. CASE StartRun(w)
    <2>1. /\ step[w] = "start" /\ Update(r, {"queued"}, "running") /\ UNCHANGED schedVars
          /\ IF status[r] = "queued" THEN On(w, "pipeline", "none") ELSE On(w, "release", "none")
      BY <1>9 DEF StartRun, MarkRunning, MayStart, InStep, OnlyStore
    <2>2. OpenInv => status[r] \in Waiting
      BY <1>1, <2>1 DEF Suits
    <2>3. CASE status[r] = "queued"
      BY <1>8, <2>1, <2>3 DEF Suits, Writing
    <2>4. CASE status[r] # "queued"
      BY <1>8, <2>1, <2>2, <2>4 DEF Suits, Writing, Waiting, Final
    <2> QED
      BY <2>3, <2>4
  <1>10. CASE FinishRun(w)
    <2>1. /\ step[w] = "finish" /\ Update(r, {"running"}, fate[w]) /\ UNCHANGED schedVars
          /\ On(w, "release", IF status[r] = "cancelling" THEN "cancelled" ELSE "none")
          /\ fate[w] \in Results
      BY <1>10 DEF FinishRun, MarkFinished, InStep, OnlyStore, Inv, ControlInv
    <2>2. OpenInv => status[r] \in {"running", "cancelling"}
      BY <1>1, <2>1 DEF Suits, Writing
    <2>3. CASE status[r] = "cancelling"
      BY <1>8, <2>1, <2>3 DEF Suits, Writing, Final, Results
    <2>4. CASE status[r] # "cancelling"
      BY <1>8, <2>1, <2>2, <2>4 DEF Suits, Writing, Final, Results
    <2> QED
      BY <2>3, <2>4
  <1>11. CASE FailRun(w)
    <2>1. /\ Update(r, Active, "technical_failure") /\ UNCHANGED schedVars /\ On(w, "release", "none")
      BY <1>11 DEF FailRun, MarkFailed, OnlyStore
    <2>2. (IF status[r] \in Active THEN "technical_failure" ELSE status[r]) \in Final
      BY <1>0 DEF Statuses, Final
    <2> QED
      BY <1>8, <2>1, <2>2 DEF Suits, Writing, Final
  <1>12. CASE MarkStopped(w)
    <2>1. /\ step[w] = "mark" /\ Update(r, {"cancelling"}, "cancelled") /\ UNCHANGED schedVars
          /\ On(w, "done", fate[w])
      BY <1>12 DEF MarkStopped, MarkCancelled, InStep, OnlyStore
    <2>2. OpenInv => status[r] \in {"cancelling"} \cup Final
      BY <1>1, <2>1 DEF Suits
    <2> QED
      BY <1>0, <1>8, <2>1, <2>2 DEF Suits, Writing, Final
  <1> QED
    BY <1>3, <1>4, <1>5, <1>6, <1>7, <1>9, <1>10, <1>11, <1>12 DEF Bookkeeping, Pipeline

\* A callback begins or ends, or its worker passes over a job.
LEMMA TurnProgress ==
    ASSUME Inv, ChatInv, ProgressInv, NEW w \in Workers,
           WorkerTakes(w) \/ WorkerIdles(w) \/ WorkerDone(w)
    PROVE  ProgressInv'
  <1>0. SchedTypeOK /\ MemTypeOK /\ NoRun \notin Runs
    BY ServiceTypes
  <1>1. UNCHANGED <<storeVars, call, jobChat, closed, toClose, closing, stage>>
    BY DEF WorkerTakes, WorkerIdles, WorkerDone, On, Take, Skip, Exit, Die, Return, Drop, OnlySched, memVars
  <1>2. \A v \in Workers : fate'[v] # "raised"
    BY OneMoves DEF ProgressInv, WorkerTakes, WorkerIdles, WorkerDone, memVars
  \* What the worker did to runs and callbacks.
  <1>3. ASSUME OpenInv, signalled' \subseteq signalled, tokens' \subseteq tokens,
               \A v \in Workers : v # w /\ worker[v] = "busy" =>
                  job'[v] = job[v] /\ step'[v] = step[v] /\ fate'[v] = fate[v],
               \A v \in Workers : v # w /\ worker'[v] = "busy" => worker[v] = "busy",
               worker'[w] = "busy" => Suits(step'[w], fate'[w], status[job'[w]]),
               \A q \in Runs : q \in tokens' /\ Busy(q) => Busy(q)',
               \A q \in Runs : q \in tokens /\ q \notin tokens' => status[q] \in Final,
               \A q \in Runs : Busy(q) /\ ~Busy(q)' => status[q] \in Final
        PROVE  OpenInv'
    <2>1. \A q \in signalled' : Stopped(q)'
      BY <1>1, <1>3 DEF OpenInv, Stopped, storeVars
    <2>2. (\A c \in Clients : call[c].at = "signal" => Stopped(call[c].run))'
      BY <1>1, <1>3 DEF OpenInv, Stopped, storeVars
    <2>3. (\A q \in tokens : ~Busy(q) => status[q] \in Waiting)'
      BY <1>0, <1>1, <1>3 DEF OpenInv, storeVars, SchedTypeOK
    <2>4. (\A v \in Workers : worker[v] = "busy" => StatusFits(v))'
      BY <1>1, <1>3 DEF OpenInv, storeVars, StatusFits
    <2>5. ASSUME NEW q \in Runs PROVE Remembered(q)'
      <3>1. Remembered(q) /\ status'[q] = status[q]
        BY <1>1, <1>3 DEF OpenInv, storeVars
      <3>2. \A c \in Clients : Created(c)' = Created(c)
        BY <1>1 DEF Created
      <3> QED
        BY <1>1, <1>3, <3>1, <3>2 DEF Remembered, Final
    <2> QED
      BY <1>1, <1>3, <2>1, <2>2, <2>3, <2>4, <2>5 DEF OpenInv
  <1>4. ASSUME WorkerTakes(w), OpenInv PROVE OpenInv'
    <2> DEFINE q == Head(queue)
    <2>1. /\ worker[w] = "idle" /\ queue # <<>> /\ q \in Runs
          /\ job' = [job EXCEPT ![w] = q] /\ worker' = [worker EXCEPT ![w] = "busy"]
          /\ UNCHANGED <<tokens, signalled>>
          /\ On(w, "acquire", "none")
      BY <1>4 DEF WorkerTakes, Take, Ready
    <2>2. q = queue[1] /\ 1 \in DOMAIN queue
      BY <1>0, <2>1 DEF SchedTypeOK
    <2>3. q \in tokens /\ ~Busy(q)
      BY <2>1, <2>2 DEF Inv, SchedInv, TokenTracksRun, OneWorkerPerRun, Queued
    <2>4. job[w] = NoRun
      BY <2>1 DEF Inv, SchedInv, JobsMatch
    <2>5. \A v \in Workers : /\ job'[v] = IF v = w THEN q ELSE job[v]
                             /\ worker'[v] = IF v = w THEN "busy" ELSE worker[v]
      BY <1>0, <2>1 DEF SchedTypeOK
    <2>6. \A p \in Runs : Busy(p) => Busy(p)'
      BY <1>0, <2>4, <2>5 DEF Busy
    <2>7. Suits("acquire", "none", status[q])
      BY <1>4, <2>3 DEF OpenInv, Suits, Writing
    <2> QED
      BY <1>3, <1>4, <2>1, <2>5, <2>6, <2>7, OneMoves
  <1>5. ASSUME WorkerIdles(w), OpenInv PROVE OpenInv'
    <2> DEFINE q == Head(queue)
    <2>1. /\ worker[w] = "idle" /\ queue # <<>>
          /\ UNCHANGED <<job, step, fate>>
          /\ \E state \in {"idle", "exited"} : worker' = [worker EXCEPT ![w] = state]
          /\ \/ UNCHANGED <<tokens, signalled>>
             \/ /\ q \in signalled
                /\ tokens' = tokens \ {q} /\ signalled' = signalled \ {q}
      BY <1>5 DEF WorkerIdles, Skip, Exit, Drop, Ready, memVars
    <2>2. \A v \in Workers : worker'[v] = "busy" => worker[v] = "busy" /\ v # w
      BY <1>0, <2>1 DEF SchedTypeOK
    <2>3. q = queue[1] /\ 1 \in DOMAIN queue
      BY <1>0, <2>1 DEF SchedTypeOK
    <2>4. ASSUME NEW p \in Runs, p \in tokens, p \notin tokens'
          PROVE  status[p] \in Final
      <3>1. p = q /\ q \in signalled
        BY <2>1, <2>4
      <3>2. ~Busy(p)
        BY <2>3, <2>4, <3>1 DEF Inv, SchedInv, OneWorkerPerRun, Queued
      <3>3. status[p] \in Waiting /\ Stopped(p)
        BY <1>5, <2>4, <3>1, <3>2 DEF OpenInv
      <3> QED
        BY <3>3 DEF Waiting, Stopped, Final
    <2>5. \A p \in Runs : Busy(p)' = Busy(p)
      BY <2>1 DEF Busy
    <2> QED
      BY <1>3, <1>5, <2>1, <2>2, <2>4, <2>5
  <1>6. ASSUME WorkerDone(w), OpenInv PROVE OpenInv'
    <2> DEFINE r == job[w]
    <2>1. /\ step[w] = "done" /\ worker[w] = "busy"
          /\ tokens' = tokens \ {r} /\ signalled' = signalled \ {r}
          /\ job' = [job EXCEPT ![w] = NoRun]
          /\ \E state \in {"idle", "dead"} : worker' = [worker EXCEPT ![w] = state]
          /\ On(w, "none", "none")
      BY <1>6 DEF WorkerDone, Die, Return, Drop, InStep
    <2>2. \A v \in Workers : v # w => job'[v] = job[v] /\ worker'[v] = worker[v]
      BY <1>0, <2>1 DEF SchedTypeOK
    <2>3. worker'[w] # "busy"
      BY <1>0, <2>1 DEF SchedTypeOK
    <2>4. status[r] \in Final
      BY <1>6, <2>1 DEF OpenInv, StatusFits, Suits
    <2>5. \A p \in Runs : p # r /\ Busy(p) => Busy(p)'
      BY <2>2 DEF Busy
    <2> QED
      BY <1>3, <1>6, <2>1, <2>2, <2>3, <2>4, <2>5, OneMoves
  <1> QED
    BY <1>1, <1>2, <1>4, <1>5, <1>6 DEF ProgressInv, storeVars

\* A call moves, and perhaps inserts the run it is about or cancels one.
LEMMA CallProgress ==
    ASSUME Inv, ChatInv, ProgressInv, NEW c \in Clients, NEW at, NEW s, NEW r, Goto(c, at, s, r),
           UNCHANGED schedVars,
           \A t \in Sessions : chat'[t] # "deleted",
           \A q \in Runs : \/ status'[q] = status[q]
                           \/ status'[q] = AfterCancel(q)
                           \/ status[q] = "absent" /\ status'[q] = "queued" /\ q = r /\ at \in {"link", "register"},
           at = "signal" => r \in Runs /\ status'[r] \in {"cancelling"} \cup Final,
           OpenInv /\ Created(c) => at \in {"link", "register"} /\ call[c].run = r
    PROVE  ProgressInv'
  <1>0. /\ UNCHANGED <<jobChat, step, fate, closed, toClose, closing, worker, job, tokens, signalled, stage>>
        /\ \A b \in Clients : call'[b] = IF b = c THEN [at |-> at, chat |-> s, run |-> r] ELSE call[b]
    BY DEF Goto, schedVars, Inv, ControlInv, MemTypeOK
  <1>1. \A q \in Runs : Busy(q)' = Busy(q)
    BY <1>0 DEF Busy
  <1>2. \A q \in Runs : q \in tokens => status[q] # "absent"
    BY DEF ChatInv, NewRunsInv
  <1>3. \A q \in Runs : Stopped(q) => status'[q] \in {"cancelling"} \cup Final
    BY DEF Stopped, AfterCancel, Final
  <1>4. signalled \subseteq Runs /\ tokens \subseteq Runs
    BY ServiceTypes DEF SchedTypeOK
  <1>5. ASSUME OpenInv PROVE OpenInv'
    <2>1. (\A q \in signalled : Stopped(q))'
      BY <1>0, <1>3, <1>4, <1>5 DEF OpenInv, Stopped
    <2>2. ASSUME NEW b \in Clients, call'[b].at = "signal" PROVE status'[call'[b].run] \in {"cancelling"} \cup Final
      <3>1. CASE b = c
        BY <1>0, <2>2, <3>1
      <3>2. CASE b # c
        <4>1. call'[b] = call[b] /\ call[b].run \in Runs
          BY <1>0, <2>2, <3>2 DEF Inv, ControlInv
        <4> QED
          BY <1>3, <1>5, <2>2, <4>1 DEF OpenInv
      <3> QED
        BY <3>1, <3>2
    <2>3. ASSUME NEW q \in tokens', ~Busy(q)' PROVE status'[q] \in Waiting
      <3>1. q \in Runs /\ status[q] \in Waiting
        BY <1>0, <1>1, <1>4, <1>5, <2>3 DEF OpenInv
      <3> QED
        BY <3>1 DEF Waiting, AfterCancel
    <2>4. ASSUME NEW v \in Workers, worker'[v] = "busy" PROVE StatusFits(v)'
      <3>1. worker[v] = "busy" /\ job[v] \in Runs /\ status[job[v]] # "absent" /\ Suits(step[v], fate[v], status[job[v]])
        BY <1>0, <1>2, <1>5, <2>4, ServiceTypes DEF OpenInv, StatusFits
      <3>2. status'[job[v]] = status[job[v]] \/ status'[job[v]] = AfterCancel(job[v])
        BY <3>1
      <3>3. Suits(step[v], fate[v], status'[job[v]])
        BY <3>1, <3>2 DEF Suits, Waiting, Final, AfterCancel
      <3> QED
        BY <1>0, <3>3 DEF StatusFits
    <2>5. ASSUME NEW q \in Runs PROVE Remembered(q)'
      <3>1. Remembered(q)
        BY <1>5 DEF OpenInv
      <3>2. ASSUME status'[q] = "queued" PROVE q \in tokens \/ \E b \in Clients : call'[b].run = q /\ Created(b)'
        <4>1. CASE status[q] = "queued" /\ q \notin tokens
          <5>1. PICK b \in Clients : call[b].run = q /\ Created(b)
            BY <3>1, <4>1 DEF Remembered
          <5> QED
            BY <1>0, <1>5, <5>1 DEF Created
        <4>2. CASE status[q] # "queued"
          <5>1. q = r /\ at \in {"link", "register"}
            BY <3>2, <4>2 DEF AfterCancel
          <5> QED
            BY <1>0, <5>1 DEF Created
        <4> QED
          BY <4>1, <4>2
      <3>3. status'[q] \in {"running", "cancelling"} => Busy(q)
        BY <3>1 DEF Remembered, AfterCancel
      <3> QED
        BY <1>0, <1>1, <3>2, <3>3 DEF Remembered
    <2> QED
      BY <1>0, <1>5, <2>1, <2>2, <2>3, <2>4, <2>5 DEF OpenInv, Stopped
  <1> QED
    BY <1>0, <1>5 DEF ProgressInv

LEMMA CallsProgress ==
    ASSUME Inv, ChatInv, ProgressInv, "delete" \notin Faults,
           NEW c \in Clients, CreateCall(c) \/ CancelCall(c) \/ ChatCall(c)
    PROVE  ProgressInv'
  <1>0. /\ StoreTypeOK /\ SchedTypeOK /\ MemTypeOK /\ call[c] \in Calls
    BY ServiceTypes DEF MemTypeOK
  <1> USE DEF At
  \* Steps that go to a place without a run.
  <1>1. ASSUME NEW at, NEW s, NEW r, Goto(c, at, s, r), UNCHANGED <<status, schedVars>>,
               \A t \in Sessions : chat'[t] # "deleted", at # "signal", ~Created(c) \/ ~OpenInv
        PROVE  ProgressInv'
    BY <1>1, CallProgress
  <1>2. CASE CallRun(c) \/ Answer(c) \/ Analyse(c)
    <2>1. \E at, s, r : Goto(c, at, s, r) /\ at # "signal"
      BY <1>2 DEF CallRun, Answer, Analyse, Ends
    <2>2. UNCHANGED <<status, schedVars, chat>> /\ ~Created(c)
      BY <1>2 DEF CallRun, Answer, Analyse, OnlyMemory, storeVars, Created
    <2> QED
      BY <1>1, <2>1, <2>2 DEF ProgressInv
  <1>3. ASSUME NEW s \in Sessions, CallMessage(c, s) PROVE ProgressInv'
    BY <1>1, <1>3 DEF CallMessage, OnlyMemory, storeVars, Created, ProgressInv
  <1>4. CASE LinkFails(c)
    BY <1>4, ChatsStay DEF LinkFails
  <1>5. CASE SubmitFails(c)
    BY <1>1, <1>5 DEF SubmitFails, Accepting, Ends, OnlyMemory, storeVars, OpenInv, ProgressInv
  <1>6. ASSUME NEW r \in Runs, CreateRow(c, r) PROVE ProgressInv'
    <2>1. /\ status[r] = "absent" /\ UNCHANGED <<chat, schedVars>> /\ ~Created(c)
          /\ \A q \in Runs : status'[q] = IF q = r THEN "queued" ELSE status[q]
          /\ \E at \in {"link", "register"} : Goto(c, at, call[c].chat, r)
      BY <1>0, <1>6 DEF CreateRow, InsertRun, OnlyStore, StoreTypeOK, Created
    <2> QED
      BY <2>1, CallProgress DEF ProgressInv
  <1>7. CASE LinkChat(c)
    <2>1. UNCHANGED <<status, chat, schedVars>> /\ Goto(c, "register", call[c].chat, call[c].run)
      BY <1>7 DEF LinkChat, SetChatRun, OnlyStore
    <2> QED
      BY <2>1, CallProgress DEF ProgressInv
  <1>8. ASSUME NEW r \in Runs, CallCancel(c, r) PROVE ProgressInv'
    <2>1. /\ UNCHANGED <<chat, schedVars>> /\ ~Created(c)
          /\ \A q \in Runs : status'[q] = IF q = r THEN AfterCancel(r) ELSE status[q]
      BY <1>0, <1>8 DEF CallCancel, RequestCancel, OnlyStore, StoreTypeOK, Created
    <2>2. CASE AfterCancel(r) \in {"cancelling", "cancelled"}
      <3>1. Goto(c, "signal", NoChat, r)
        BY <1>8, <2>2 DEF CallCancel
      <3> QED
        BY <2>1, <2>2, <3>1, CallProgress DEF ProgressInv, Final
    <2>3. CASE AfterCancel(r) \notin {"cancelling", "cancelled"}
      <3>1. Goto(c, "idle", NoChat, NoRun)
        BY <1>8, <2>3 DEF CallCancel, Ends
      <3> QED
        BY <2>1, <3>1, CallProgress DEF ProgressInv
    <2> QED
      BY <2>2, <2>3
  <1>9. ASSUME NEW s \in Sessions, CallOpen(s) PROVE ProgressInv'
    <2>1. /\ UNCHANGED <<status, schedVars, call, jobChat, step, fate, closed, toClose, closing>>
          /\ chat' = [chat EXCEPT ![s] = "open"]
      BY <1>9 DEF CallOpen, OpenChat, OnlyStore, memVars
    <2>2. \A t \in Sessions : chat'[t] # "deleted"
      BY <1>0, <2>1 DEF StoreTypeOK, ProgressInv
    <2>3. OpenInv => OpenInv'
      BY <2>1 DEF OpenInv, schedVars, Stopped, Busy, StatusFits, Remembered, Created
    <2> QED
      BY <2>1, <2>2, <2>3 DEF ProgressInv
  <1>10. ASSUME NEW s \in Sessions, CallDelete(s) PROVE ProgressInv'
    BY <1>10 DEF CallDelete
  <1>11. CASE CancelToken(c) \/ Submit(c)
    <2> DEFINE r == call[c].run
    <2>1. /\ UNCHANGED <<storeVars, step, fate, closed, toClose, closing, worker, job, stage>>
          /\ \A b \in Clients : call'[b] = IF b = c THEN Idle ELSE call[b]
      BY <1>0, <1>11 DEF CancelToken, Submit, Signal, Register, Ends, Goto, OnlySched, MemTypeOK, Idle
    <2>2. r \in Runs
      BY <1>11 DEF CancelToken, Submit, Inv, ControlInv
    <2>3. \A q \in Runs : Busy(q)' = Busy(q)
      BY <2>1 DEF Busy
    <2>4. \/ /\ call[c].at = "signal" /\ tokens' = tokens
             /\ signalled' \subseteq signalled \cup {r}
          \/ /\ Created(c) /\ signalled' = signalled
             /\ r \notin tokens /\ tokens' = tokens \cup {r}
      BY <1>11 DEF CancelToken, Submit, Signal, Register, Created
    <2>5. ASSUME OpenInv PROVE OpenInv'
      <3>1. \A q \in signalled' : Stopped(q)
        BY <2>4, <2>5 DEF OpenInv
      <3>2. (\A b \in Clients : call[b].at = "signal" => Stopped(call[b].run))'
        BY <2>1, <2>5 DEF OpenInv, Stopped, storeVars, Idle
      <3>3. \A q \in tokens' : ~Busy(q)' => status[q] \in Waiting
        <4>1. CASE tokens' = tokens
          BY <1>0, <2>3, <2>5, <4>1 DEF OpenInv, SchedTypeOK
        <4>2. CASE Created(c) /\ tokens' = tokens \cup {r}
          <5>1. status[r] \in Waiting
            BY <4>2 DEF ChatInv, NewRunsInv, Waiting
          <5> QED
            BY <1>0, <2>3, <2>5, <4>2, <5>1 DEF OpenInv, SchedTypeOK
        <4> QED
          BY <2>4, <4>1, <4>2
      <3>4. (\A v \in Workers : worker[v] = "busy" => StatusFits(v))'
        BY <2>1, <2>5 DEF OpenInv, StatusFits, storeVars
      <3>5. ASSUME NEW q \in Runs PROVE Remembered(q)'
        <4>1. Remembered(q)
          BY <2>5 DEF OpenInv
        <4>2. ASSUME q \notin tokens', NEW b \in Clients, call[b].run = q, Created(b)
              PROVE  b # c
          BY <2>4, <4>2 DEF Created
        <4>3. \A b \in Clients : b # c => Created(b)' = Created(b) /\ call'[b] = call[b]
          BY <2>1 DEF Created
        <4> QED
          BY <2>1, <2>3, <2>4, <4>1, <4>2, <4>3 DEF Remembered, storeVars
      <3> QED
        BY <2>1, <2>5, <3>1, <3>2, <3>3, <3>4, <3>5 DEF OpenInv, storeVars, Stopped
    <2> QED
      BY <2>1, <2>5 DEF ProgressInv, storeVars
  <1> QED
    BY <1>2, <1>3, <1>4, <1>5, <1>6, <1>7, <1>8, <1>9, <1>10, <1>11 DEF CreateCall, CancelCall, ChatCall

\* A new process submits every run that is still queued.
LEMMA RestartProgress ==
    ASSUME Inv, ProgressInv, NEW gone \in SUBSET Runs, Restart(gone)
    PROVE  ProgressInv'
  <1> DEFINE S == {r \in Runs : status'[r] = "queued"}
  <1>1. PICK q \in Orders(S) : SchedBoot(q)
    BY DEF Restart
  <1>2. /\ StoreBoot(gone)
        /\ call' = [c \in Clients |-> Idle]
        /\ fate' = [w \in Workers |-> "none"]
        /\ closed' = FALSE /\ toClose' = {} /\ closing' = NoRun
    BY DEF Restart, MemBoot
  <1>3. tokens' = S
    <2>1. /\ IsFiniteSet(S) /\ Cardinality(S) \in Nat
          /\ IsFiniteSet(1 .. Cardinality(S)) /\ Cardinality(1 .. Cardinality(S)) = Cardinality(S)
      <3>1. S \in SUBSET Runs
        OBVIOUS
      <3>2. IsFiniteSet(S) /\ Cardinality(S) \in Nat
        BY <3>1, RunNamesAssumption, FS_Subset, FS_CardinalityType
      <3> HIDE DEF S
      <3>3. IsFiniteSet(1 .. Cardinality(S)) /\ Cardinality(1 .. Cardinality(S)) = Cardinality(S)
        BY <3>2, FS_Interval
      <3> QED
        BY <3>2, <3>3
    <2> HIDE DEF S
    <2>2. q \in Injection(1 .. Cardinality(S), S)
      BY DEF Orders, Injection, IsInjective
    <2>3. q \in Surjection(1 .. Cardinality(S), S)
      BY <2>1, <2>2, FS_Injection
    <2>4. {q[i] : i \in DOMAIN q} = S
      BY <2>3 DEF Surjection
    <2> QED
      BY <1>1, <2>4 DEF SchedBoot
  <1>4. /\ signalled' = {} /\ stage' = "open"
        /\ worker' = [w \in Workers |-> "idle"]
    BY <1>1 DEF SchedBoot
  <1>5. \A r \in Runs : status'[r] \notin {"running", "cancelling"}
    BY <1>2 DEF StoreBoot
  <1>6. \A r \in Runs : Remembered(r)'
    BY <1>3, <1>5 DEF Remembered
  <1>7. OpenInv'
    BY <1>2, <1>3, <1>4, <1>6 DEF OpenInv, Idle, Waiting
  <1>8. UNCHANGED chat
    BY <1>2 DEF StoreBoot
  <1> QED
    BY <1>2, <1>7, <1>8 DEF ProgressInv

LEMMA ProgressStep ==
    ASSUME "delete" \notin Faults, "exit" \notin Faults
    PROVE  Inv /\ ChatInv /\ ProgressInv /\ [Next]_vars => ProgressInv'
  <1> SUFFICES ASSUME Inv, ChatInv, ProgressInv, [Next]_vars PROVE ProgressInv'
    OBVIOUS
  <1>1. ASSUME NEW w \in Workers, Bookkeeping(w) \/ Pipeline(w) PROVE ProgressInv'
    <2>1. CASE WorkerTakes(w) \/ WorkerIdles(w) \/ WorkerDone(w)
      BY <2>1, TurnProgress
    <2>2. CASE ~WorkerTakes(w) /\ ~WorkerIdles(w) /\ ~WorkerDone(w)
      <3>1. worker[w] = "busy"
        BY <1>1, <2>2 DEF Bookkeeping, Pipeline, GetLease, NeverFits, SeesCancel, StartRun, SaveResults, PostSummary,
           SummaryFails, FinishRun, PostError, ErrorFails, FailRun, ReleaseLease, MarkStopped, PipelineReturns,
           PipelineExits, PipelineRaises, InStep
      <3> QED
        BY <1>1, <2>2, <3>1, CallbackProgress
    <2> QED
      BY <2>1, <2>2
  <1>2. ASSUME NEW r \in Runs, SubmitPut(r) PROVE ProgressInv'
    <2>1. UNCHANGED <<storeVars, memVars, tokens, signalled, worker, job, stage>>
      BY <1>2 DEF SubmitPut, Put, OnlySched
    <2> QED
      BY <2>1 DEF ProgressInv, OpenInv, StatusFits, Stopped, Remembered, Busy, Created, storeVars, memVars
  \* close() is at work only in a service that is closed.
  <1>3. CASE Shutdown
    <2>1. closed' = TRUE
      BY <1>3 DEF Shutdown, CloseService, CloseToken, CloseScheduler, CloseRun, ProgressInv, OpenInv, memVars,
         Inv, ControlInv, MemTypeOK
    <2>2. UNCHANGED <<chat, fate>>
      BY <1>3 DEF Shutdown, CloseService, CloseToken, CloseScheduler, CloseRun, RequestCancel, memVars,
         OnlyMemory, OnlySched, storeVars
    <2> QED
      BY <2>1, <2>2 DEF ProgressInv
  <1>4. CASE UNCHANGED vars
    BY <1>4 DEF vars, storeVars, schedVars, memVars, ProgressInv, OpenInv, StatusFits, Stopped, Remembered, Busy, Created
  <1> QED
    BY <1>1, <1>2, <1>3, <1>4, CallsProgress, RestartProgress DEF Next

LEMMA ProgressStart == Init => ProgressInv
  <1> SUFFICES ASSUME Init PROVE ProgressInv
    OBVIOUS
  <1>1. \A r \in Runs : Remembered(r)
    BY DEF Init, StoreInit, Remembered
  <1> QED
    BY <1>1 DEF Init, StoreInit, SchedInit, MemInit, ProgressInv, OpenInv, Idle

\* As long as the service is open, no run is forgotten: not over a crash, a
\* lost repository, a pipeline that raises or a request that never fits.
\* (Deleting a chat or a SystemExit of the pipeline can lose a run.)
THEOREM ServiceForgetsNothing ==
    ASSUME "delete" \notin Faults, "exit" \notin Faults
    PROVE  Spec => []NothingForgotten
  <1>1. ProgressInv => NothingForgotten
    BY DEF ProgressInv, OpenInv, Remembered, Created, NothingForgotten
  <1> QED
    BY <1>1, ProgressStart, ChatStart, ProgressStep, ChatStep, ServiceInductive, PTL DEF Spec

---------------------------------------------------------------------------
\* Messages that take turns

\* What a chat refers to exists, in the service as in its store.
THEOREM ServiceReferences == Spec => []ForeignKeys
  <1>1. Init => StoreInit
    BY DEF Init
  <1> QED
    BY <1>1, StoreComposes, ServiceInductive, StoreKeepsReferences, PTL DEF Spec, StoreSpec

\* The chat has no analysis that is under way.
Free(s) == activeRun[s] = NoRun \/ status[activeRun[s]] \notin Active

\* Only the current run of a chat is active, and a message that decided for
\* a new run did so with the chat as it still is.
TurnsInv ==
    /\ \A s \in Sessions : \A r \in linked[s] : status[r] \in Active => r = activeRun[s]
    /\ \A c \in Clients :
           /\ call[c].at = "decide" /\ chat[call[c].chat] = "open" =>
                  call[c].run = activeRun[call[c].chat]
           /\ call[c].at \in {"insert", "link"} /\ call[c].chat # NoChat => Free(call[c].chat)

\* A run that exists never becomes active again.
LEMMA NotActiveAgain ==
    ASSUME StoreTypeOK, [StoreNext]_storeVars, NEW q \in Known, status'[q] \in Active
    PROVE  status[q] \in Active
  <1> USE DEF StoreTypeOK, Active, Final, Statuses, Results, Known
  <1>1. ASSUME NEW r \in Runs, RunTransaction(r) PROVE status[q] \in Active
    BY <1>1 DEF RunTransaction, InsertRun, MarkRunning, MarkFinished, MarkFailed,
                MarkCancelled, RequestCancel, AfterCancel, ReplaceResults, Update
  <1>2. ASSUME NEW s \in Sessions, ChatTransaction(s) PROVE status[q] \in Active
    BY <1>2 DEF ChatTransaction, OpenChat, DeleteChat, SetChatRun, Post
  <1>3. ASSUME NEW gone \in SUBSET Runs, StoreBoot(gone) PROVE status[q] \in Active
    BY <1>3 DEF StoreBoot
  <1>4. CASE UNCHANGED storeVars
    BY <1>4 DEF storeVars
  <1> QED
    BY <1>1, <1>2, <1>3, <1>4 DEF StoreNext

\* A step that leaves the links alone keeps every chat free that was free.
LEMMA StaysFree ==
    ASSUME Inv, ForeignKeys, [Next]_vars, NEW s \in Sessions, Free(s), activeRun'[s] = activeRun[s]
    PROVE  Free(s)'
  <1>1. [StoreNext]_storeVars /\ StoreTypeOK
    BY StoreComposes DEF Inv
  <1>2. activeRun[s] # NoRun => activeRun[s] \in Known
    BY DEF ForeignKeys
  <1> QED
    BY <1>1, <1>2, NotActiveAgain DEF Free

LEMMA LinksKeep ==
    ASSUME Inv, ForeignKeys, TurnsInv, [Next]_vars, UNCHANGED <<activeRun, linked>>
    PROVE  \A s \in Sessions : \A r \in linked'[s] : status'[r] \in Active => r = activeRun'[s]
  <1>1. [StoreNext]_storeVars /\ StoreTypeOK
    BY StoreComposes DEF Inv
  <1> QED
    BY <1>1, NotActiveAgain DEF TurnsInv, ForeignKeys

\* The call of c after a step that leaves the links alone.
LEMMA CallKeeps ==
    ASSUME Inv, ForeignKeys, TurnsInv, [Next]_vars, UNCHANGED <<activeRun, linked>>,
           \A c \in Clients :
               \/ call'[c].at \in {"idle", "register", "signal"}
               \/ call'[c].at \in {"insert", "link"} /\ call'[c].chat = NoChat
               \/ /\ call'[c].at \in {"insert", "link"} /\ call'[c].chat \in Sessions
                  /\ Free(call'[c].chat)
               \/ call'[c].at = "decide" /\ call'[c].run = activeRun[call'[c].chat]
               \/ /\ call'[c] = call[c]
                  /\ call[c].chat \in Sessions /\ chat'[call[c].chat] = "open" =>
                         chat[call[c].chat] = "open"
    PROVE  TurnsInv'
  <1>1. \A s \in Sessions : \A r \in linked'[s] : status'[r] \in Active => r = activeRun'[s]
    BY LinksKeep
  <1>2. ASSUME NEW c \in Clients
        PROVE  /\ call'[c].at = "decide" /\ chat'[call'[c].chat] = "open" =>
                      call'[c].run = activeRun'[call'[c].chat]
               /\ call'[c].at \in {"insert", "link"} /\ call'[c].chat # NoChat =>
                      call'[c].chat \in Sessions /\ Free(call'[c].chat)
    BY OrchestratorAssumption DEF TurnsInv, Inv, ControlInv, MemTypeOK, Calls, Chats
  <1>3. ASSUME NEW c \in Clients, call'[c].at \in {"insert", "link"}, call'[c].chat # NoChat
        PROVE  Free(call[c].chat)'
    <2>1. PICK s \in Sessions : s = call'[c].chat /\ Free(s)
      BY <1>2, <1>3
    <2>2. Free(s)'
      BY <2>1, StaysFree
    <2>3. activeRun'[s] = NoRun \/ status'[activeRun'[s]] \notin Active
      BY <2>2 DEF Free
    <2> QED
      BY <2>1, <2>3 DEF Free
  <1> QED
    BY <1>1, <1>2, <1>3 DEF TurnsInv, Free

LEMMA LinkTurns ==
    ASSUME \A a, b \in Clients : a = b, Inv, ForeignKeys, TurnsInv, [Next]_vars,
           NEW c \in Clients, LinkChat(c)
    PROVE  TurnsInv'
  <1> DEFINE t == call[c].chat
             n == call[c].run
  <1>1. t \in Sessions /\ n \in Runs /\ t # NoChat
    BY OrchestratorAssumption DEF LinkChat, At, Inv, ControlInv
  <1>2. Free(t)
    BY <1>1 DEF LinkChat, At, TurnsInv
  <1>3. /\ activeRun' = [activeRun EXCEPT ![t] = n]
        /\ linked' = [linked EXCEPT ![t] = @ \cup {n}]
        /\ status' = status /\ call'[c].at = "register"
    BY DEF LinkChat, SetChatRun, Goto, Inv, ControlInv, MemTypeOK
  <1>4. activeRun \in [Sessions -> Runs \cup {NoRun}] /\ linked \in [Sessions -> SUBSET Runs]
    BY DEF Inv, StoreTypeOK
  <1>5. ASSUME NEW s \in Sessions, NEW r \in linked'[s], status'[r] \in Active
        PROVE  r = activeRun'[s]
    <2>1. CASE s # t
      BY <1>3, <1>4, <1>5, <2>1 DEF TurnsInv
    <2>2. CASE s = t /\ r = n
      BY <1>1, <1>3, <1>4, <2>2
    <2>3. CASE s = t /\ r # n
      <3>1. r \in linked[t] /\ r \in Runs /\ r # NoRun
        BY <1>1, <1>3, <1>4, <1>5, <2>3, RunNamesAssumption
      <3>2. r = activeRun[t] /\ status[r] \in Active
        BY <1>1, <1>3, <1>5, <3>1 DEF TurnsInv
      <3> QED
        BY <1>2, <3>1, <3>2 DEF Free
    <2> QED
      BY <2>1, <2>2, <2>3
  <1>6. \A b \in Clients : call'[b].at = "register"
    BY <1>3
  <1> QED
    BY <1>5, <1>6 DEF TurnsInv

LEMMA DeleteTurns ==
    ASSUME Inv, TurnsInv, NEW t \in Sessions, CallDelete(t)
    PROVE  TurnsInv'
  <1>1. /\ activeRun' = [activeRun EXCEPT ![t] = NoRun] /\ linked' = [linked EXCEPT ![t] = {}]
        /\ chat' = [chat EXCEPT ![t] = "deleted"]
        /\ status' = status /\ call' = call
    BY DEF CallDelete, DeleteChat, memVars
  <1>2. /\ activeRun \in [Sessions -> Runs \cup {NoRun}] /\ linked \in [Sessions -> SUBSET Runs]
        /\ chat \in [Sessions -> {"none", "open", "deleted"}]
    BY DEF Inv, StoreTypeOK
  <1>3. \A s \in Sessions : \A r \in linked'[s] : status'[r] \in Active => r = activeRun'[s]
    BY <1>1, <1>2 DEF TurnsInv
  <1>4. ASSUME NEW c \in Clients
        PROVE  /\ call[c].at = "decide" /\ chat'[call[c].chat] = "open" =>
                      call[c].run = activeRun'[call[c].chat]
               /\ call[c].at \in {"insert", "link"} /\ call[c].chat # NoChat =>
                      activeRun'[call[c].chat] = NoRun \/ status[activeRun'[call[c].chat]] \notin Active
    <2>1. call[c].chat = NoChat \/ call[c].chat \in Sessions
      BY DEF Inv, ControlInv, MemTypeOK, Calls, Chats
    <2>2. call[c].at = "decide" => call[c].chat \in Sessions
      BY DEF Inv, ControlInv
    <2> QED
      BY <1>1, <1>2, <2>1, <2>2 DEF TurnsInv, Free
  <1> QED
    BY <1>1, <1>3, <1>4 DEF TurnsInv, Free

\* With one caller, nothing comes between the steps of a message.
LEMMA CallTurns ==
    ASSUME \A a, b \in Clients : a = b, Inv, ForeignKeys, ChatInv, TurnsInv, [Next]_vars,
           NEW c \in Clients, CreateCall(c) \/ CancelCall(c) \/ ChatCall(c)
    PROVE  TurnsInv'
  <1> DEFINE Kept == UNCHANGED <<activeRun, linked>>
  <1>0. /\ \A b \in Clients : b = c
        /\ call \in [Clients -> Calls] /\ activeRun \in [Sessions -> Runs \cup {NoRun}]
    BY DEF Inv, ControlInv, MemTypeOK, StoreTypeOK
  <1>1. ASSUME Kept, call'[c].at \in {"idle", "register", "signal"} PROVE TurnsInv'
    BY <1>0, <1>1, CallKeeps
  <1>2. CASE Answer(c) \/ LinkFails(c) \/ SubmitFails(c)
    BY <1>0, <1>1, <1>2 DEF Answer, LinkFails, SubmitFails, Ends, Goto, OnlyMemory, storeVars
  <1>3. CASE Submit(c) \/ CancelToken(c)
    BY <1>0, <1>1, <1>3 DEF Submit, CancelToken, Ends, Goto, OnlySched, storeVars, Idle
  <1>4. ASSUME NEW r \in Runs, CallCancel(c, r) PROVE TurnsInv'
    <2>1. Kept
      BY <1>4 DEF CallCancel, RequestCancel
    <2>2. call'[c].at \in {"idle", "signal"}
      BY <1>0, <1>4 DEF CallCancel, Ends, Goto
    <2> QED
      BY <1>1, <2>1, <2>2
  <1>5. ASSUME NEW s \in Sessions, CallOpen(s) PROVE TurnsInv'
    <2>1. Kept /\ call' = call /\ chat[s] = "none" /\ chat' = [chat EXCEPT ![s] = "open"]
      BY <1>5 DEF CallOpen, OpenChat, memVars
    <2>2. \A b \in Clients : call[b].chat \in Sessions => chat[call[b].chat] # "none"
      BY DEF ChatInv, KnownChats
    <2>3. \A b \in Clients : call[b].chat \in Sessions /\ chat'[call[b].chat] = "open" =>
                                  chat[call[b].chat] = "open"
      BY <2>1, <2>2 DEF Inv, StoreTypeOK
    <2> QED
      BY <2>1, <2>3, CallKeeps
  <1>6. CASE CallRun(c)
    <2>1. Kept /\ call'[c].at = "insert" /\ call'[c].chat = NoChat
      BY <1>0, <1>6 DEF CallRun, Goto, OnlyMemory, storeVars
    <2> QED
      BY <1>0, <2>1, CallKeeps
  <1>7. ASSUME NEW s \in Sessions, CallMessage(c, s) PROVE TurnsInv'
    <2>1. Kept /\ call'[c].at = "decide" /\ call'[c].chat = s /\ call'[c].run = activeRun[s]
      BY <1>0, <1>7 DEF CallMessage, Goto, OnlyMemory, storeVars
    <2> QED
      BY <1>0, <2>1, CallKeeps
  <1>8. CASE Analyse(c)
    <2>1. /\ Kept /\ call'[c].at = "insert" /\ call'[c].chat = call[c].chat
          /\ call[c].at = "decide" /\ chat[call[c].chat] = "open"
          /\ call[c].run = NoRun \/ call[c].run \notin ActiveRuns
      BY <1>0, <1>8 DEF Analyse, At, Goto, OnlyMemory, storeVars
    <2>2. call[c].chat \in Sessions /\ call[c].run = activeRun[call[c].chat]
      BY <2>1 DEF TurnsInv, Inv, ControlInv
    <2>3. Free(call[c].chat)
      BY <1>0, <2>1, <2>2 DEF Free, ActiveRuns
    <2> QED
      BY <1>0, <2>1, <2>2, <2>3, CallKeeps
  <1>9. ASSUME NEW r \in Runs, CreateRow(c, r) PROVE TurnsInv'
    <2>1. /\ Kept /\ call'[c].at \in {"register", "link"} /\ call'[c].chat = call[c].chat
          /\ call[c].at = "insert"
          /\ call[c].chat = NoChat => call'[c].at = "register"
      BY <1>0, <1>9 DEF CreateRow, InsertRun, At, Goto
    <2>2. CASE call[c].chat = NoChat
      BY <1>1, <2>1, <2>2
    <2>3. CASE call[c].chat # NoChat
      <3>1. call[c].chat \in Sessions /\ Free(call[c].chat)
        BY <1>0, <2>1, <2>3 DEF TurnsInv, Calls, Chats
      <3> QED
        BY <1>0, <2>1, <3>1, CallKeeps
    <2> QED
      BY <2>2, <2>3
  <1> QED
    BY <1>2, <1>3, <1>4, <1>5, <1>6, <1>7, <1>8, <1>9, LinkTurns, DeleteTurns
       DEF CreateCall, CancelCall, ChatCall

LEMMA TurnsStep ==
    ASSUME \A a, b \in Clients : a = b
    PROVE  Inv /\ ForeignKeys /\ ChatInv /\ TurnsInv /\ [Next]_vars => TurnsInv'
  <1> SUFFICES ASSUME Inv, ForeignKeys, ChatInv, TurnsInv, [Next]_vars PROVE TurnsInv'
    OBVIOUS
  <1>1. ASSUME UNCHANGED <<activeRun, linked, chat, call>> PROVE TurnsInv'
    BY <1>1, CallKeeps
  <1>2. ASSUME NEW w \in Workers, Bookkeeping(w) \/ Pipeline(w) PROVE TurnsInv'
    <2>1. UNCHANGED call
      BY <1>2 DEF Bookkeeping, Pipeline, WorkerTakes, WorkerIdles, GetLease, NeverFits, SeesCancel, StartRun,
         SaveResults, PostSummary, SummaryFails, FinishRun, PostError, ErrorFails, FailRun, ReleaseLease,
         MarkStopped, WorkerDone, PipelineReturns, PipelineExits, PipelineRaises, Raised, Cancelled, On, memVars
    <2>2. UNCHANGED <<activeRun, linked, chat>>
      <3>1. CASE WorkerTakes(w) \/ WorkerIdles(w) \/ WorkerDone(w) \/ GetLease(w) \/ ReleaseLease(w)
        BY <3>1 DEF WorkerTakes, WorkerIdles, WorkerDone, GetLease, ReleaseLease, OnlySched, storeVars
      <3>2. CASE NeverFits(w) \/ SeesCancel(w) \/ SummaryFails(w) \/ ErrorFails(w) \/ Pipeline(w)
        BY <3>2 DEF NeverFits, SeesCancel, SummaryFails, ErrorFails, Pipeline, PipelineReturns,
           PipelineExits, PipelineRaises, Raised, Cancelled, OnlyMemory, storeVars
      <3>3. CASE StartRun(w) \/ SaveResults(w) \/ FinishRun(w) \/ FailRun(w) \/ MarkStopped(w)
        BY <3>3 DEF StartRun, SaveResults, FinishRun, FailRun, MarkStopped, MarkRunning, MarkFinished,
           MarkFailed, MarkCancelled, Update, ReplaceResults
      <3>4. CASE PostSummary(w) \/ PostError(w)
        BY <3>4 DEF PostSummary, PostError, Post
      <3> QED
        BY <1>2, <3>1, <3>2, <3>3, <3>4 DEF Bookkeeping
    <2> QED
      BY <1>1, <2>1, <2>2
  <1>3. ASSUME NEW r \in Runs, SubmitPut(r) PROVE TurnsInv'
    BY <1>1, <1>3 DEF SubmitPut, OnlySched, memVars, storeVars
  <1>4. CASE Shutdown
    BY <1>1, <1>4 DEF Shutdown, CloseService, CloseRun, CloseToken, CloseScheduler, RequestCancel,
       OnlyMemory, OnlySched, memVars, storeVars
  <1>5. ASSUME NEW gone \in SUBSET Runs, Restart(gone) PROVE TurnsInv'
    <2>1. UNCHANGED <<activeRun, linked>> /\ \A c \in Clients : call'[c].at = "idle"
      BY <1>5 DEF Restart, StoreBoot, MemBoot, Idle
    <2> QED
      BY <2>1, CallKeeps
  <1>6. CASE UNCHANGED vars
    BY <1>1, <1>6 DEF vars, memVars, storeVars
  <1> QED
    BY <1>2, <1>3, <1>4, <1>5, <1>6, CallTurns DEF Next

\* One caller at a time never gets a second analysis into a chat, over
\* retries, cancellations and restarts: it takes two messages that overlap
\* (run second_run), the check in send_chat_message itself is complete.
THEOREM OneRunPerCaller ==
    ASSUME \A a, b \in Clients : a = b
    PROVE  Spec => []OneActiveRunPerChat
  <1>1. Init => TurnsInv
    <2> SUFFICES ASSUME Init PROVE TurnsInv
      OBVIOUS
    <2> QED
      BY DEF Init, StoreInit, MemInit, Idle, TurnsInv
  <1>2. TurnsInv => OneActiveRunPerChat
    <2> SUFFICES ASSUME TurnsInv, NEW s \in Sessions
                 PROVE  Cardinality(linked[s] \cap ActiveRuns) <= 1
      BY DEF OneActiveRunPerChat
    <2>1. linked[s] \cap ActiveRuns \subseteq {activeRun[s]}
      BY DEF TurnsInv, ActiveRuns
    <2> DEFINE R == linked[s] \cap ActiveRuns
               one == {activeRun[s]}
    <2>2. IsFiniteSet(one) /\ Cardinality(one) = 1
      BY FS_Singleton
    <2>3. R \subseteq one
      BY <2>1
    <2> HIDE DEF R, one
    <2>4. Cardinality(R) <= Cardinality(one)
      BY <2>2, <2>3, FS_Subset
    <2>5. Cardinality(R) <= 1
      BY <2>2, <2>4
    <2> QED
      BY <2>5 DEF R
  <1> QED
    BY <1>1, <1>2, TurnsStep, ServiceReferences, ChatStart, ChatStep, ServiceInductive, PTL DEF Spec

---------------------------------------------------------------------------
\* Workers

\* When no chat is deleted and no pipeline raises SystemExit, the pool keeps
\* its threads: the except clauses of _execute_run let nothing else out.
THEOREM WorkersNeverDie ==
    ASSUME "delete" \notin Faults, "exit" \notin Faults
    PROVE  Spec => []WorkersStay
  <1>1. Init => ProgressInv /\ WorkersStay
    BY ProgressStart DEF Init, SchedInit, WorkersStay
  <1>2. Inv /\ ProgressInv /\ WorkersStay /\ [Next]_vars => WorkersStay'
    <2> SUFFICES ASSUME Inv, ProgressInv, WorkersStay, [Next]_vars PROVE WorkersStay'
      OBVIOUS
    <2>0. worker \in [Workers -> {"idle", "busy", "exited", "dead"}]
      BY DEF Inv, SchedInv, SchedTypeOK
    <2>1. ASSUME UNCHANGED worker PROVE WorkersStay'
      BY <2>1 DEF WorkersStay
    <2>2. ASSUME NEW w \in Workers, Bookkeeping(w) \/ Pipeline(w) PROVE WorkersStay'
      <3>1. CASE WorkerTakes(w)
        BY <2>0, <3>1 DEF WorkerTakes, Take, WorkersStay
      <3>2. CASE WorkerIdles(w)
        BY <2>0, <3>2 DEF WorkerIdles, Skip, Exit, Drop, WorkersStay
      <3>3. CASE WorkerDone(w)
        BY <2>0, <3>3 DEF WorkerDone, Return, Drop, WorkersStay, ProgressInv
      <3>4. CASE GetLease(w) \/ NeverFits(w) \/ SeesCancel(w) \/ StartRun(w) \/ SaveResults(w)
                 \/ PostSummary(w) \/ SummaryFails(w) \/ FinishRun(w)
        BY <2>1, <3>4 DEF GetLease, NeverFits, SeesCancel, StartRun, SaveResults, PostSummary,
           SummaryFails, FinishRun, Raised, Cancelled, OnlyMemory, OnlyStore, schedVars
      <3>5. CASE PostError(w) \/ ErrorFails(w) \/ FailRun(w) \/ ReleaseLease(w) \/ MarkStopped(w)
                 \/ Pipeline(w)
        BY <2>1, <3>5 DEF PostError, ErrorFails, FailRun, ReleaseLease, MarkStopped, Pipeline,
           PipelineReturns, PipelineExits, PipelineRaises, Raised, OnlyMemory, OnlyStore, schedVars
      <3> QED
        BY <2>2, <3>1, <3>2, <3>3, <3>4, <3>5 DEF Bookkeeping
    <2>3. ASSUME NEW c \in Clients, CreateCall(c) \/ CancelCall(c) \/ ChatCall(c) PROVE WorkersStay'
      <3>1. CASE Submit(c) \/ CancelToken(c)
        BY <2>1, <3>1 DEF Submit, CancelToken, Register, Signal
      <3>2. CASE \E r \in Runs : CreateRow(c, r) \/ CallCancel(c, r)
        BY <2>1, <3>2 DEF CreateRow, CallCancel, OnlyStore, schedVars
      <3>3. CASE \E s \in Sessions : CallOpen(s) \/ CallDelete(s) \/ CallMessage(c, s)
        BY <2>1, <3>3 DEF CallOpen, CallDelete, CallMessage, OnlyStore, OnlyMemory, schedVars
      <3>4. CASE CallRun(c) \/ Answer(c) \/ Analyse(c) \/ LinkChat(c) \/ LinkFails(c) \/ SubmitFails(c)
        BY <2>1, <3>4 DEF CallRun, Answer, Analyse, LinkChat, LinkFails, SubmitFails, OnlyStore,
           OnlyMemory, schedVars
      <3> QED
        BY <2>3, <3>1, <3>2, <3>3, <3>4 DEF CreateCall, CancelCall, ChatCall
    <2>4. CASE Shutdown
      BY <2>1, <2>4 DEF Shutdown, CloseService, CloseRun, CloseToken, CloseScheduler, CloseStep,
         Signal, Shut, PutPill, SignalNext, OnlyMemory, OnlyStore, schedVars
    <2>5. ASSUME NEW r \in Runs, SubmitPut(r) PROVE WorkersStay'
      BY <2>1, <2>5 DEF SubmitPut, Put
    <2>6. ASSUME NEW gone \in SUBSET Runs, Restart(gone) PROVE WorkersStay'
      BY <2>6 DEF Restart, SchedBoot, WorkersStay
    <2>7. CASE UNCHANGED vars
      BY <2>1, <2>7 DEF vars, schedVars
    <2> QED
      BY <2>2, <2>3, <2>4, <2>5, <2>6, <2>7 DEF Next
  <1> QED
    BY <1>1, <1>2, ChatStart, ProgressStep, ChatStep, ServiceInductive, PTL DEF Spec
===========================================================================
