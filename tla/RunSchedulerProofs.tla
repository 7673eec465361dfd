------------------------ MODULE RunSchedulerProofs ------------------------
(***************************************************************************)
(* The objects of api/scheduler.py: the scheduler for every set of runs    *)
(* and workers, any caller and any callback, and the budget for every      *)
(* capacity and every request.  OneWorkerPerRun is not inductive by        *)
(* itself: what keeps a second job of a run out is that its token is still *)
(* registered, so the invariant also says that every place a run can be in *)
(* implies a token.                                                        *)
(***************************************************************************)
EXTENDS RunScheduler, ResourceBudget, FiniteSetTheorems, TLAPS

\* Idle, exited and dead workers have no job.
JobsMatch == \A w \in Workers : worker[w] = "busy" <=> job[w] # NoRun

SchedInv == SchedTypeOK /\ JobsMatch /\ OneWorkerPerRun /\ TokenTracksRun

\* Append and Tail move no other job.
LEMMA AppendKeeps ==
    ASSUME NEW q \in Seq(Runs \cup {Pill}), NEW x \in Runs \cup {Pill}
    PROVE  /\ Append(q, x) \in Seq(Runs \cup {Pill})
           /\ DOMAIN q = 1 .. Len(q)
           /\ DOMAIN Append(q, x) = 1 .. (Len(q) + 1)
           /\ \A i \in 1 .. Len(q) : Append(q, x)[i] = q[i]
           /\ Append(q, x)[Len(q) + 1] = x
           /\ Len(q) \in Nat
  OBVIOUS

LEMMA TailKeeps ==
    ASSUME NEW q \in Seq(Runs \cup {Pill}), q # <<>>
    PROVE  /\ Tail(q) \in Seq(Runs \cup {Pill})
           /\ Head(q) = q[1]
           /\ Head(q) \in Runs \cup {Pill}
           /\ Len(q) \in Nat \ {0}
           /\ DOMAIN q = 1 .. Len(q)
           /\ DOMAIN Tail(q) = 1 .. (Len(q) - 1)
           /\ \A i \in 1 .. (Len(q) - 1) : Tail(q)[i] = q[i + 1]
  OBVIOUS

\* What Append and Tail do to the runs in the queue.
LEMMA PutQueues ==
    ASSUME SchedTypeOK, NEW x \in Runs \cup {Pill}, queue' = Append(queue, x)
    PROVE  /\ queue' \in Seq(Runs \cup {Pill})
           /\ \A r \in Runs : Queued(r)' <=> Queued(r) \/ r = x
           /\ (\A i, j \in DOMAIN queue : queue[i] = queue[j] /\ queue[i] # Pill => i = j)
                  /\ (x # Pill => ~Queued(x))
              => (\A i, j \in DOMAIN queue : queue[i] = queue[j] /\ queue[i] # Pill => i = j)'
  <1>1. queue \in Seq(Runs \cup {Pill})
    BY DEF SchedTypeOK
  <1>2. /\ queue' \in Seq(Runs \cup {Pill})
        /\ DOMAIN queue = 1 .. Len(queue)
        /\ DOMAIN queue' = 1 .. (Len(queue) + 1)
        /\ \A i \in 1 .. Len(queue) : queue'[i] = queue[i]
        /\ queue'[Len(queue) + 1] = x
        /\ Len(queue) \in Nat
    BY <1>1, AppendKeeps
  <1>3. \A r \in Runs : Queued(r)' <=> Queued(r) \/ r = x
    <2> SUFFICES ASSUME NEW r \in Runs PROVE Queued(r)' <=> Queued(r) \/ r = x
      OBVIOUS
    <2>1. ASSUME Queued(r) \/ r = x PROVE Queued(r)'
      BY <1>2, <2>1 DEF Queued
    <2>2. ASSUME Queued(r)' PROVE Queued(r) \/ r = x
      <3>1. PICK i \in DOMAIN queue' : queue'[i] = r
        BY <2>2 DEF Queued
      <3>2. CASE i = Len(queue) + 1
        BY <1>2, <3>1, <3>2
      <3>3. CASE i # Len(queue) + 1
        <4>1. i \in 1 .. Len(queue)
          BY <1>2, <3>3
        <4> QED
          BY <1>2, <3>1, <4>1 DEF Queued
      <3> QED
        BY <3>2, <3>3
    <2> QED
      BY <2>1, <2>2
  <1>4. ASSUME \A i, j \in DOMAIN queue : queue[i] = queue[j] /\ queue[i] # Pill => i = j,
               x # Pill => ~Queued(x),
               NEW i \in DOMAIN queue', NEW j \in DOMAIN queue',
               queue'[i] = queue'[j], queue'[i] # Pill
        PROVE  i = j
    <2>1. \A k \in DOMAIN queue' : k \in 1 .. Len(queue) \/ k = Len(queue) + 1
      BY <1>2
    <2>2. CASE i \in 1 .. Len(queue) /\ j \in 1 .. Len(queue)
      BY <1>2, <1>4, <2>2
    <2>3. CASE i = Len(queue) + 1 /\ j \in 1 .. Len(queue)
      BY <1>2, <1>4, <2>3 DEF Queued
    <2>4. CASE j = Len(queue) + 1 /\ i \in 1 .. Len(queue)
      BY <1>2, <1>4, <2>4 DEF Queued
    <2> QED
      BY <2>1, <2>2, <2>3, <2>4
  <1> QED
    BY <1>2, <1>3, <1>4

LEMMA GetDequeues ==
    ASSUME SchedTypeOK, queue # <<>>, queue' = Tail(queue),
           \A i, j \in DOMAIN queue : queue[i] = queue[j] /\ queue[i] # Pill => i = j
    PROVE  /\ queue' \in Seq(Runs \cup {Pill})
           /\ Head(queue) \in Runs \cup {Pill}
           /\ \A r \in Runs : Queued(r)' <=> Queued(r) /\ r # Head(queue)
           /\ Head(queue) \in Runs => Queued(Head(queue))
           /\ (\A i, j \in DOMAIN queue : queue[i] = queue[j] /\ queue[i] # Pill => i = j)'
  <1>1. /\ queue' \in Seq(Runs \cup {Pill})
        /\ Head(queue) = queue[1]
        /\ Head(queue) \in Runs \cup {Pill}
        /\ Len(queue) \in Nat \ {0}
        /\ DOMAIN queue = 1 .. Len(queue)
        /\ DOMAIN queue' = 1 .. (Len(queue) - 1)
        /\ \A i \in 1 .. (Len(queue) - 1) : queue'[i] = queue[i + 1]
    BY TailKeeps DEF SchedTypeOK
  <1>2. 1 \in DOMAIN queue
    BY <1>1
  <1>3. \A i \in DOMAIN queue' : i + 1 \in DOMAIN queue /\ queue'[i] = queue[i + 1] /\ i + 1 # 1
    BY <1>1
  <1>4. \A i \in DOMAIN queue : i = 1 \/ (i - 1 \in DOMAIN queue' /\ (i - 1) + 1 = i)
    BY <1>1
  <1>5. \A r \in Runs : Queued(r)' <=> Queued(r) /\ r # Head(queue)
    <2> SUFFICES ASSUME NEW r \in Runs PROVE Queued(r)' <=> Queued(r) /\ r # Head(queue)
      OBVIOUS
    <2>1. ASSUME Queued(r)' PROVE Queued(r) /\ r # Head(queue)
      <3>1. PICK i \in DOMAIN queue' : queue'[i] = r
        BY <2>1 DEF Queued
      <3>2. i + 1 \in DOMAIN queue /\ queue[i + 1] = r /\ i + 1 # 1
        BY <1>3, <3>1
      <3>3. r # Pill
        BY SchedulerAssumption
      <3> QED
        BY <1>1, <1>2, <3>2, <3>3 DEF Queued
    <2>2. ASSUME Queued(r), r # Head(queue) PROVE Queued(r)'
      <3>1. PICK i \in DOMAIN queue : queue[i] = r
        BY <2>2 DEF Queued
      <3>2. i # 1
        BY <1>1, <2>2, <3>1
      <3>3. i - 1 \in DOMAIN queue' /\ queue'[i - 1] = r
        BY <1>3, <1>4, <3>1, <3>2
      <3> QED
        BY <3>3 DEF Queued
    <2> QED
      BY <2>1, <2>2
  <1>6. ASSUME NEW i \in DOMAIN queue', NEW j \in DOMAIN queue',
               queue'[i] = queue'[j], queue'[i] # Pill
        PROVE  i = j
    <2>1. i + 1 = j + 1
      BY <1>3, <1>6
    <2> QED
      BY <1>1, <2>1
  <1>7. Head(queue) \in Runs => Queued(Head(queue))
    BY <1>1, <1>2 DEF Queued
  <1> QED
    BY <1>1, <1>5, <1>6, <1>7
---------------------------------------------------------------------------
\* The steps that leave the queue alone

\* Which runs are busy depends on the jobs only.
LEMMA CallerKeeps ==
    ASSUME SchedInv, NEW r \in Runs, CallerStep(r)
    PROVE  SchedInv'
  <1> USE DEF SchedInv
  <1>1. CASE Register(r)
    <2>1. UNCHANGED <<signalled, queue, worker, job, stage, copied, pills>>
      BY <1>1 DEF Register
    <2>2. \A q \in Runs : (Queued(q)' <=> Queued(q)) /\ (Busy(q)' <=> Busy(q))
      BY <2>1 DEF Queued, Busy
    <2>3. ~Queued(r) /\ ~Busy(r) /\ r \notin putting
      BY <1>1 DEF Register, TokenTracksRun
    <2>4. SchedTypeOK' /\ JobsMatch'
      BY <1>1 DEF Register, SchedTypeOK, JobsMatch
    <2>5. TokenTracksRun'
      BY <1>1, <2>2 DEF Register, TokenTracksRun
    <2>6. OneWorkerPerRun'
      BY <1>1, <2>1, <2>2, <2>3 DEF Register, OneWorkerPerRun
    <2> QED
      BY <2>4, <2>5, <2>6
  <1>2. CASE Put(r)
    <2>1. /\ queue' \in Seq(Runs \cup {Pill})
          /\ \A q \in Runs : Queued(q)' <=> Queued(q) \/ q = r
          /\ (\A i, j \in DOMAIN queue : queue[i] = queue[j] /\ queue[i] # Pill => i = j)
                 /\ (r # Pill => ~Queued(r))
             => (\A i, j \in DOMAIN queue : queue[i] = queue[j] /\ queue[i] # Pill => i = j)'
      BY <1>2, PutQueues DEF Put
    <2>2. \A q \in Runs : Busy(q)' <=> Busy(q)
      BY <1>2 DEF Put, Busy
    <2>3. ~Queued(r) /\ ~Busy(r)
      BY <1>2 DEF Put, OneWorkerPerRun
    <2>4. SchedTypeOK' /\ JobsMatch'
      BY <1>2, <2>1 DEF Put, SchedTypeOK, JobsMatch
    <2>5. TokenTracksRun'
      BY <1>2, <2>1, <2>2 DEF Put, TokenTracksRun
    <2>6. \A q \in Runs : /\ ~(q \in putting' /\ Queued(q)')
                          /\ ~(q \in putting' /\ Busy(q)')
                          /\ ~(Queued(q)' /\ Busy(q)')
      BY <1>2, <2>1, <2>2, <2>3 DEF Put, OneWorkerPerRun
    <2>7. (\A i, j \in DOMAIN queue : queue[i] = queue[j] /\ queue[i] # Pill => i = j)'
      BY <2>1, <2>3 DEF OneWorkerPerRun
    <2>8. (\A v, w \in Workers : job[v] = job[w] /\ job[v] # NoRun => v = w)'
      BY <1>2 DEF Put, OneWorkerPerRun
    <2>9. OneWorkerPerRun'
      BY <2>6, <2>7, <2>8 DEF OneWorkerPerRun
    <2> QED
      BY <2>4, <2>5, <2>9
  <1>3. CASE Signal(r)
    <2>1. SchedTypeOK' /\ JobsMatch'
      BY <1>3 DEF Signal, SchedTypeOK, JobsMatch
    <2> QED
      BY <1>3, <2>1 DEF Signal, OneWorkerPerRun, TokenTracksRun, Queued, Busy
  <1> QED
    BY <1>1, <1>2, <1>3 DEF CallerStep

LEMMA CloseKeeps ==
    ASSUME SchedInv, CloseStep
    PROVE  SchedInv'
  <1> USE DEF SchedInv
  <1>1. CASE Shut
    <2>1. SchedTypeOK' /\ JobsMatch'
      BY <1>1 DEF Shut, SchedTypeOK, JobsMatch
    <2> QED
      BY <1>1, <2>1 DEF Shut, OneWorkerPerRun, TokenTracksRun, Queued, Busy
  <1>2. ASSUME NEW r \in Runs, SignalNext(r) PROVE SchedInv'
    <2>1. SchedTypeOK' /\ JobsMatch'
      BY <1>2 DEF SignalNext, SchedTypeOK, JobsMatch
    <2> QED
      BY <1>2, <2>1 DEF SignalNext, OneWorkerPerRun, TokenTracksRun, Queued, Busy
  <1>3. CASE PutPill
    <2>0. \A q \in Runs : q # Pill
      BY SchedulerAssumption
    <2>1. /\ queue' \in Seq(Runs \cup {Pill})
          /\ \A q \in Runs : Queued(q)' <=> Queued(q)
          /\ (\A i, j \in DOMAIN queue : queue[i] = queue[j] /\ queue[i] # Pill => i = j)
             => (\A i, j \in DOMAIN queue : queue[i] = queue[j] /\ queue[i] # Pill => i = j)'
      BY <1>3, <2>0, PutQueues DEF PutPill
    <2>2. \A q \in Runs : Busy(q)' <=> Busy(q)
      BY <1>3 DEF PutPill, Busy
    <2>3. SchedTypeOK' /\ JobsMatch'
      BY <1>3, <2>1 DEF PutPill, SchedTypeOK, JobsMatch
    <2>4. TokenTracksRun'
      BY <1>3, <2>1, <2>2 DEF PutPill, TokenTracksRun
    <2>5. OneWorkerPerRun'
      BY <1>3, <2>1, <2>2 DEF PutPill, OneWorkerPerRun
    <2> QED
      BY <2>3, <2>4, <2>5
  <1> QED
    BY <1>1, <1>2, <1>3 DEF CloseStep

---------------------------------------------------------------------------
\* The steps of a worker

LEMMA WorkerKeeps ==
    ASSUME SchedInv, NEW w \in Workers, WorkerStep(w)
    PROVE  SchedInv'
  <1> USE DEF SchedInv
  <1>0. NoRun \notin Runs /\ Pill \notin Runs
    BY RunNamesAssumption, SchedulerAssumption
  <1>1. ASSUME Ready(w), queue' = Tail(queue)
        PROVE  /\ queue' \in Seq(Runs \cup {Pill})
               /\ Head(queue) \in Runs \cup {Pill}
               /\ \A r \in Runs : Queued(r)' <=> Queued(r) /\ r # Head(queue)
               /\ Head(queue) \in Runs => Queued(Head(queue))
               /\ (\A i, j \in DOMAIN queue : queue[i] = queue[j] /\ queue[i] # Pill => i = j)'
    BY <1>1, GetDequeues DEF Ready, OneWorkerPerRun
  <1>2. ASSUME Ready(w) PROVE job[w] = NoRun
    BY <1>2 DEF Ready, JobsMatch, SchedTypeOK
  <1>3. CASE Take(w)
    <2> DEFINE h == Head(queue)
    <2>1. /\ Ready(w) /\ h \in Runs /\ Queued(h) /\ ~Busy(h) /\ h \notin putting
          /\ \A r \in Runs : Queued(r)' <=> Queued(r) /\ r # h
      BY <1>1, <1>3 DEF Take, OneWorkerPerRun
    <2>2. \A v \in Workers : job'[v] = IF v = w THEN h ELSE job[v]
      BY <1>3 DEF Take, SchedTypeOK
    <2>3. \A r \in Runs : Busy(r)' <=> Busy(r) \/ r = h
      <3>1. \A r \in Runs : job[w] # r
        BY <1>0, <1>2, <2>1
      <3> QED
        BY <2>2, <3>1 DEF Busy
    <2>4. SchedTypeOK'
      BY <1>1, <1>3, <2>1 DEF Take, SchedTypeOK
    <2>5. JobsMatch'
      BY <1>0, <1>3, <2>1, <2>2 DEF Take, JobsMatch, SchedTypeOK
    <2>6. TokenTracksRun'
      BY <1>3, <2>1, <2>3 DEF Take, TokenTracksRun
    <2>7. \A r \in Runs : /\ ~(r \in putting' /\ Queued(r)')
                          /\ ~(r \in putting' /\ Busy(r)')
                          /\ ~(Queued(r)' /\ Busy(r)')
      BY <1>3, <2>1, <2>3 DEF Take, OneWorkerPerRun
    <2>8. (\A u, v \in Workers : job[u] = job[v] /\ job[u] # NoRun => u = v)'
      BY <1>0, <2>1, <2>2 DEF OneWorkerPerRun, Busy
    <2>9. OneWorkerPerRun'
      BY <1>1, <1>3, <2>1, <2>7, <2>8 DEF Take, OneWorkerPerRun
    <2> QED
      BY <2>4, <2>5, <2>6, <2>9
  <1>4. CASE Skip(w)
    <2> DEFINE h == Head(queue)
    <2>1. /\ Ready(w) /\ h \in signalled /\ UNCHANGED <<job, putting, stage, copied, pills>>
          /\ queue' = Tail(queue) /\ tokens' = tokens \ {h} /\ signalled' = signalled \ {h}
          /\ worker' = [worker EXCEPT ![w] = "idle"]
      BY <1>4 DEF Skip, Drop
    <2>2. /\ h \in Runs /\ Queued(h) /\ ~Busy(h) /\ h \notin putting
          /\ \A r \in Runs : Queued(r)' <=> Queued(r) /\ r # h
      BY <1>1, <2>1 DEF OneWorkerPerRun, SchedTypeOK
    <2>3. \A r \in Runs : Busy(r)' <=> Busy(r)
      BY <2>1 DEF Busy
    <2>4. worker' = worker
      BY <2>1 DEF Ready, SchedTypeOK
    <2>5. SchedTypeOK'
      BY <1>1, <2>1, <2>2, <2>4 DEF SchedTypeOK
    <2>6. JobsMatch'
      BY <2>1, <2>4 DEF JobsMatch
    <2>7. TokenTracksRun'
      BY <2>1, <2>2, <2>3 DEF TokenTracksRun
    <2>8. OneWorkerPerRun'
      BY <1>1, <2>1, <2>2, <2>3 DEF OneWorkerPerRun
    <2> QED
      BY <2>5, <2>6, <2>7, <2>8
  <1>5. CASE Exit(w)
    <2>1. Ready(w) /\ queue' = Tail(queue) /\ \A r \in Runs : r # Head(queue)
      BY <1>0, <1>5 DEF Exit
    <2>2. \A r \in Runs : (Queued(r)' <=> Queued(r)) /\ (Busy(r)' <=> Busy(r))
      BY <1>1, <1>5, <2>1 DEF Exit, Busy
    <2>3. SchedTypeOK'
      BY <1>1, <1>5, <2>1 DEF Exit, SchedTypeOK
    <2>4. JobsMatch'
      BY <1>2, <1>5, <2>1 DEF Exit, JobsMatch, SchedTypeOK
    <2>5. TokenTracksRun'
      BY <1>5, <2>2 DEF Exit, TokenTracksRun
    <2>6. OneWorkerPerRun'
      BY <1>1, <1>5, <2>1, <2>2 DEF Exit, OneWorkerPerRun
    <2> QED
      BY <2>3, <2>4, <2>5, <2>6
  <1>6. ASSUME NEW state \in {"idle", "dead"}, worker[w] = "busy",
               Drop(w, job[w], state), job' = [job EXCEPT ![w] = NoRun], UNCHANGED queue
        PROVE  SchedInv'
    <2>1. job[w] \in Runs
      BY <1>6 DEF JobsMatch, SchedTypeOK
    <2>2. \A v \in Workers : job'[v] = IF v = w THEN NoRun ELSE job[v]
      BY <1>6 DEF SchedTypeOK
    <2>3. \A r \in Runs : Queued(r)' <=> Queued(r)
      BY <1>6 DEF Queued
    <2>4. \A r \in Runs : Busy(r)' <=> Busy(r) /\ r # job[w]
      BY <1>0, <2>1, <2>2 DEF Busy, OneWorkerPerRun
    <2>5. ~Queued(job[w]) /\ job[w] \notin putting /\ Busy(job[w])
      BY <2>1 DEF OneWorkerPerRun, Busy
    <2>6. SchedTypeOK'
      BY <1>6, <2>1, <2>5 DEF Drop, SchedTypeOK
    <2>7. JobsMatch'
      BY <1>6, <2>2 DEF Drop, JobsMatch, SchedTypeOK
    <2>8. TokenTracksRun'
      BY <1>6, <2>3, <2>4, <2>5 DEF Drop, TokenTracksRun
    <2>9. OneWorkerPerRun'
      BY <1>6, <2>2, <2>3, <2>4 DEF Drop, OneWorkerPerRun
    <2> QED
      BY <2>6, <2>7, <2>8, <2>9
  <1>7. CASE Return(w)
    BY <1>6, <1>7 DEF Return
  <1>8. CASE Die(w)
    BY <1>6, <1>8 DEF Die
  <1> QED
    BY <1>3, <1>4, <1>5, <1>7, <1>8 DEF WorkerStep

---------------------------------------------------------------------------
\* A new process

LEMMA BootKeeps ==
    ASSUME NEW S \in SUBSET Runs, NEW q \in Orders(S), SchedBoot(q)
    PROVE  SchedInv'
  <1>0. NoRun \notin Runs /\ Pill \notin Runs
    BY RunNamesAssumption, SchedulerAssumption
  <1>1. IsFiniteSet(S) /\ Cardinality(S) \in Nat
    BY RunNamesAssumption, FS_Subset, FS_CardinalityType
  <1>2. /\ q \in [1 .. Cardinality(S) -> S]
        /\ \A i, j \in DOMAIN q : q[i] = q[j] => i = j
    BY DEF Orders
  <1>3. q \in Seq(Runs \cup {Pill})
    BY <1>1, <1>2
  <1>4. \A r \in Runs : /\ r \in tokens' <=> Queued(r)'
                        /\ ~Busy(r)'
                        /\ r \notin putting'
    BY <1>0, <1>2 DEF SchedBoot, Queued, Busy
  <1>5. SchedTypeOK'
    BY <1>2, <1>3 DEF SchedBoot, SchedTypeOK
  <1>6. JobsMatch'
    BY DEF SchedBoot, JobsMatch
  <1>7. TokenTracksRun'
    BY <1>4 DEF TokenTracksRun
  <1>8. (\A v, w \in Workers : job[v] = job[w] /\ job[v] # NoRun => v = w)'
    BY DEF SchedBoot
  <1>9. (\A i, j \in DOMAIN queue : queue[i] = queue[j] /\ queue[i] # Pill => i = j)'
    BY <1>2 DEF SchedBoot
  <1> QED
    BY <1>4, <1>5, <1>6, <1>7, <1>8, <1>9 DEF SchedInv, OneWorkerPerRun

---------------------------------------------------------------------------

\* No step of the scheduler breaks the invariant.
LEMMA SchedStep == SchedInv /\ [SchedNext]_schedVars => SchedInv'
  <1> SUFFICES ASSUME SchedInv, [SchedNext]_schedVars PROVE SchedInv'
    OBVIOUS
  <1>1. CASE \E w \in Workers : WorkerStep(w)
    BY <1>1, WorkerKeeps
  <1>2. CASE \E r \in Runs : CallerStep(r)
    BY <1>2, CallerKeeps
  <1>3. CASE CloseStep
    BY <1>3, CloseKeeps
  <1>4. CASE Boot
    BY <1>4, BootKeeps DEF Boot
  <1>5. CASE UNCHANGED schedVars
    BY <1>5 DEF schedVars, SchedInv, SchedTypeOK, JobsMatch, OneWorkerPerRun,
                TokenTracksRun, Queued, Busy
  <1> QED
    BY <1>1, <1>2, <1>3, <1>4, <1>5 DEF SchedNext

LEMMA SchedStart == SchedInit => SchedInv
  <1> SUFFICES ASSUME SchedInit PROVE SchedInv
    OBVIOUS
  <1>1. SchedTypeOK /\ JobsMatch
    BY DEF SchedInit, SchedTypeOK, JobsMatch
  <1>2. \A r \in Runs : ~Queued(r) /\ ~Busy(r)
    BY RunNamesAssumption DEF SchedInit, Queued, Busy
  <1> QED
    BY <1>1, <1>2 DEF SchedInit, SchedInv, OneWorkerPerRun, TokenTracksRun

LEMMA SchedInductive == SchedSpec => []SchedInv
  BY SchedStart, SchedStep, PTL DEF SchedSpec

\* Two workers never execute the same run (RunScheduler.submit, _worker).
THEOREM SchedOneWorker == SchedSpec => []OneWorkerPerRun
  <1>1. SchedInv => OneWorkerPerRun
    BY DEF SchedInv
  <1> QED
    BY <1>1, SchedInductive, PTL

\* A token is registered exactly as long as its run can still be stopped
\* (RunScheduler.submit, cancel, _worker).
THEOREM SchedTokens == SchedSpec => []TokenTracksRun
  <1>1. SchedInv => TokenTracksRun
    BY DEF SchedInv
  <1> QED
    BY <1>1, SchedInductive, PTL

---------------------------------------------------------------------------
\* While close copies and cancels, a token is cancelled or still copied.
CloseInv ==
    /\ stage = "closing" => tokens \subseteq signalled \cup copied
    /\ pills > 0 => stage = "closing" /\ copied = {}

\* Once close has put its first pill no live token is left, so no callback
\* starts any more (RunScheduler.close against submit).
THEOREM SchedClosed == SchedSpec => []ClosedIsSignalled
  <1>1. SchedInit => CloseInv
    BY DEF SchedInit, CloseInv
  <1>2. SchedTypeOK /\ CloseInv /\ [SchedNext]_schedVars => CloseInv'
    <2> SUFFICES ASSUME SchedTypeOK, CloseInv, [SchedNext]_schedVars PROVE CloseInv'
      OBVIOUS
    <2> USE DEF CloseInv
    <2>1. ASSUME NEW w \in Workers, WorkerStep(w) PROVE CloseInv'
      BY <2>1 DEF WorkerStep, Take, Skip, Exit, Return, Die, Drop
    <2>2. ASSUME NEW r \in Runs, CallerStep(r) PROVE CloseInv'
      BY <2>2 DEF CallerStep, Register, Put, Signal, Accepting
    <2>3. CASE CloseStep
      BY <2>3 DEF CloseStep, Shut, PutPill, SignalNext, SchedTypeOK
    <2>4. CASE Boot
      BY <2>4 DEF Boot, SchedBoot
    <2>5. CASE UNCHANGED schedVars
      BY <2>5 DEF schedVars
    <2> QED
      BY <2>1, <2>2, <2>3, <2>4, <2>5 DEF SchedNext
  <1>3. SchedTypeOK /\ CloseInv => ClosedIsSignalled
    BY DEF CloseInv, ClosedIsSignalled, SchedTypeOK
  <1>4. SchedInv => SchedTypeOK
    BY DEF SchedInv
  <1> QED
    BY <1>1, <1>2, <1>3, <1>4, SchedInductive, PTL DEF SchedSpec

---------------------------------------------------------------------------
\* The budget: what is booked is what the open leases need

\* Inductive: the booked amount is the leases' need, and fits.
BudgetInv ==
    /\ BudgetTypeOK
    /\ NothingLost
    /\ \A d \in Dims : used[d] <= Capacity[d]

\* Adding a run to the holders, or taking one away, counts as one.
LEMMA CountHolders ==
    ASSUME NEW S \in SUBSET Runs, NEW r \in Runs
    PROVE  /\ Cardinality(S) \in Nat
           /\ r \notin S => Cardinality(S \cup {r}) = Cardinality(S) + 1
           /\ r \in S => /\ Cardinality(S \ {r}) \in Nat
                         /\ Cardinality(S) = Cardinality(S \ {r}) + 1
  <1>1. IsFiniteSet(S)
    BY RunNamesAssumption, FS_Subset
  <1>2. Cardinality(S) \in Nat
    BY <1>1, FS_CardinalityType
  <1>3. IsFiniteSet(S \ {r}) /\ Cardinality(S \ {r}) \in Nat
    BY <1>1, FS_Subset, FS_CardinalityType
  <1>4. r \notin S => Cardinality(S \cup {r}) = Cardinality(S) + 1
    BY <1>1, FS_AddElement
  <1>5. ASSUME r \in S PROVE Cardinality(S) = Cardinality(S \ {r}) + 1
    <2>1. S = (S \ {r}) \cup {r}
      BY <1>5
    <2> QED
      BY <1>3, <2>1, FS_AddElement
  <1> QED
    BY <1>2, <1>3, <1>4, <1>5

LEMMA OneMore ==
    \A n, k, u \in Nat : u = n * k => u + n = n * (k + 1)
  BY Z3

LEMMA OneLess ==
    \A n, k, u \in Nat : u = n * (k + 1) => Reduce(u, n) = n * k
  <1> SUFFICES ASSUME NEW n \in Nat, NEW k \in Nat, NEW u \in Nat, u = n * (k + 1)
               PROVE  Reduce(u, n) = n * k
    OBVIOUS
  <1>1. n * k \in Nat
    BY Z3
  <1>2. u = n * k + n
    BY Z3
  <1> QED
    BY <1>1, <1>2 DEF Reduce

\* No operation of the budget breaks the invariant.
LEMMA BudgetStep == BudgetInv /\ [BudgetNext]_budgetVars => BudgetInv'
  <1> USE BudgetAssumption DEF BudgetInv, BudgetTypeOK, NothingLost
  <1> SUFFICES ASSUME BudgetInv, [BudgetNext]_budgetVars PROVE BudgetInv'
    OBVIOUS
  <1>1. ASSUME NEW r \in Runs, Acquire(r) PROVE BudgetInv'
    <2>1. /\ Cardinality(held) \in Nat
          /\ Cardinality(held') = Cardinality(held) + 1
      BY <1>1, CountHolders DEF Acquire
    <2>2. need' = need /\ \A d \in Dims : used'[d] = used[d] + need[d]
      BY <1>1 DEF Acquire
    <2>3. NothingLost'
      BY <2>1, <2>2, OneMore
    <2>4. \A d \in Dims : used'[d] \in Nat /\ used'[d] <= Capacity[d]
      BY <1>1, <2>2 DEF Acquire, Fits
    <2>5. BudgetTypeOK'
      BY <1>1, <2>4 DEF Acquire
    <2> QED
      BY <2>3, <2>4, <2>5
  <1>2. ASSUME NEW r \in Runs, Release(r) PROVE BudgetInv'
    <2>1. CASE r \notin held
      <3>1. used' = used /\ held' = held /\ need' = need
        BY <1>2, <2>1 DEF Release
      <3> QED
        BY <3>1
    <2>2. CASE r \in held
      <3>1. /\ Cardinality(held') \in Nat
            /\ Cardinality(held) = Cardinality(held') + 1
        BY <1>2, <2>2, CountHolders DEF Release
      <3>2. need' = need /\ \A d \in Dims : used'[d] = Reduce(used[d], need[d])
        BY <1>2, <2>2 DEF Release
      <3>3. NothingLost'
        BY <3>1, <3>2, OneLess
      <3>4. \A d \in Dims : used'[d] \in Nat /\ used'[d] <= used[d]
        <4>1. \A d \in Dims : need[d] \in Nat /\ used[d] \in Nat
          OBVIOUS
        <4> QED
          BY <3>2, <4>1 DEF Reduce
      <3>5. \A d \in Dims : used'[d] <= Capacity[d]
        <4>1. \A d \in Dims : used[d] \in Nat /\ Capacity[d] \in Nat /\ used[d] <= Capacity[d]
          OBVIOUS
        <4> QED
          BY <3>4, <4>1
      <3>6. BudgetTypeOK'
        BY <1>2, <2>2, <3>2, <3>4 DEF Release
      <3> QED
        BY <3>3, <3>5, <3>6
    <2> QED
      BY <2>1, <2>2
  <1>3. CASE BudgetBoot
    <2>1. Cardinality(held') = 0
      BY <1>3, FS_EmptySet DEF BudgetBoot
    <2>2. \A n \in Nat : n * 0 = 0
      BY Z3
    <2> QED
      BY <1>3, <2>1, <2>2 DEF BudgetBoot
  <1>4. CASE UNCHANGED budgetVars
    BY <1>4 DEF budgetVars
  <1> QED
    BY <1>1, <1>2, <1>3, <1>4 DEF BudgetNext

LEMMA BudgetStart == BudgetInit => BudgetInv
  <1> SUFFICES ASSUME BudgetInit PROVE BudgetInv
    OBVIOUS
  <1>1. Cardinality(held) = 0
    BY FS_EmptySet DEF BudgetInit
  <1>2. \A n \in Nat : n * 0 = 0
    BY Z3
  <1> QED
    BY <1>1, <1>2, BudgetAssumption DEF BudgetInit, BudgetInv, BudgetTypeOK, NothingLost

LEMMA BudgetInductive == BudgetSpec => []BudgetInv
  BY BudgetStart, BudgetStep, PTL DEF BudgetSpec

\* No lease is lost or given back twice: the booked amount is always what
\* the holders need (ResourceLease.release, ResourceBudget._release).
THEOREM BudgetLosesNothing == BudgetSpec => []NothingLost
  <1>1. BudgetInv => NothingLost
    BY DEF BudgetInv
  <1> QED
    BY <1>1, BudgetInductive, PTL

\* The holders together never need more than the capacity
\* (ResourceBudget.acquire).
THEOREM BudgetNeverOverbooked == BudgetSpec => []NeverOverbooked
  <1>1. BudgetInv => NeverOverbooked
    BY DEF BudgetInv, NothingLost, NeverOverbooked
  <1> QED
    BY <1>1, BudgetInductive, PTL
===========================================================================
