-------------------------- MODULE RunStoreProofs --------------------------
(***************************************************************************)
(* What holds of the store for every set of runs and sessions, whatever    *)
(* transactions its callers run and in whatever order.                     *)
(***************************************************************************)
EXTENDS RunStore, FiniteSetTheorems, TLAPS

LEMMA KnownFinite == Cardinality(Known) \in Nat
  <1>1. Known \subseteq Runs
    BY DEF Known
  <1>2. IsFiniteSet(Known)
    BY <1>1, RunNamesAssumption, FS_Subset
  <1> QED
    BY <1>2, FS_CardinalityType

\* No transaction leaves the types.
LEMMA StoreTypeStep == StoreTypeOK /\ [StoreNext]_storeVars => StoreTypeOK'
  <1> USE DEF StoreTypeOK, Active, Final, Statuses, Results, Verdicts
  <1> SUFFICES ASSUME StoreTypeOK, [StoreNext]_storeVars PROVE StoreTypeOK'
    OBVIOUS
  <1>1. ASSUME NEW r \in Runs, RunTransaction(r) PROVE StoreTypeOK'
    <2>1. CASE InsertRun(r)
      BY <2>1, KnownFinite DEF InsertRun
    <2>2. CASE MarkRunning(r)
      BY <2>2 DEF MarkRunning, Update
    <2>3. ASSUME NEW result \in Results, MarkFinished(r, result) PROVE StoreTypeOK'
      BY <2>3 DEF MarkFinished, Update
    <2>4. CASE MarkFailed(r)
      BY <2>4 DEF MarkFailed, Update
    <2>5. CASE MarkCancelled(r)
      BY <2>5 DEF MarkCancelled, Update
    <2>6. CASE RequestCancel(r)
      BY <2>6 DEF RequestCancel, AfterCancel
    <2>7. CASE ReplaceResults(r)
      BY <2>7 DEF ReplaceResults
    <2> QED
      BY <1>1, <2>1, <2>2, <2>3, <2>4, <2>5, <2>6, <2>7 DEF RunTransaction
  <1>2. ASSUME NEW s \in Sessions, ChatTransaction(s) PROVE StoreTypeOK'
    <2>1. CASE OpenChat(s)
      BY <2>1 DEF OpenChat
    <2>2. CASE DeleteChat(s)
      BY <2>2 DEF DeleteChat
    <2>3. ASSUME NEW r \in Runs, SetChatRun(s, r) PROVE StoreTypeOK'
      BY <2>3 DEF SetChatRun
    <2>4. ASSUME NEW r \in Runs, NEW kind \in Verdicts, Post(s, r, kind) PROVE StoreTypeOK'
      BY <2>4 DEF Post
    <2> QED
      BY <1>2, <2>1, <2>2, <2>3, <2>4 DEF ChatTransaction
  <1>3. ASSUME NEW gone \in SUBSET Runs, StoreBoot(gone) PROVE StoreTypeOK'
    BY <1>3 DEF StoreBoot
  <1>4. CASE UNCHANGED storeVars
    BY <1>4 DEF storeVars
  <1> QED
    BY <1>1, <1>2, <1>3, <1>4 DEF StoreNext

\* Every row keeps its columns' types: no transaction writes a status, a
\* reference or a message outside the schema (api/store.py, _initialize).
THEOREM StoreTypeCorrect == StoreSpec => []StoreTypeOK
  <1> USE DEF StoreTypeOK, Active, Final, Statuses, Results, Verdicts
  <1>1. StoreInit => StoreTypeOK
    BY DEF StoreInit
  <1>2. StoreTypeOK /\ [StoreNext]_storeVars => StoreTypeOK'
    BY StoreTypeStep DEF StoreTypeOK
  <1> QED
    BY <1>1, <1>2, PTL DEF StoreSpec

---------------------------------------------------------------------------

\* A row is never deleted: a known run stays known.
LEMMA RunsStay == StoreTypeOK /\ [StoreNext]_storeVars => Known \subseteq Known'
  <1> SUFFICES ASSUME StoreTypeOK, [StoreNext]_storeVars,
                      NEW q \in Runs, status[q] # "absent"
               PROVE  status'[q] # "absent"
    BY DEF Known
  <1> USE DEF StoreTypeOK, Active, Final, Statuses, Results, Verdicts
  <1>1. ASSUME NEW r \in Runs, RunTransaction(r) PROVE status'[q] # "absent"
    BY <1>1 DEF RunTransaction, InsertRun, MarkRunning, MarkFinished, MarkFailed,
                MarkCancelled, RequestCancel, AfterCancel, ReplaceResults, Update
  <1>2. ASSUME NEW s \in Sessions, ChatTransaction(s) PROVE status'[q] # "absent"
    BY <1>2 DEF ChatTransaction, OpenChat, DeleteChat, SetChatRun, Post
  <1>3. ASSUME NEW gone \in SUBSET Runs, StoreBoot(gone) PROVE status'[q] # "absent"
    BY <1>3 DEF StoreBoot
  <1>4. CASE UNCHANGED storeVars
    BY <1>4 DEF storeVars
  <1> QED
    BY <1>1, <1>2, <1>3, <1>4 DEF StoreNext

\* What a chat refers to exists, and a closed chat refers to nothing.
THEOREM StoreKeepsReferences == StoreSpec => []ForeignKeys
  <1>1. StoreInit => ForeignKeys
    BY DEF StoreInit, ForeignKeys
  <1>2. StoreTypeOK /\ ForeignKeys /\ [StoreNext]_storeVars => ForeignKeys'
    <2> SUFFICES ASSUME StoreTypeOK, ForeignKeys, [StoreNext]_storeVars PROVE ForeignKeys'
      OBVIOUS
    <2>0. Known \subseteq Known'
      BY RunsStay
    <2>1. ASSUME NEW r \in Runs, RunTransaction(r) PROVE ForeignKeys'
      <3>1. UNCHANGED <<chat, activeRun, linked, posted>>
        BY <2>1 DEF RunTransaction, InsertRun, MarkRunning, MarkFinished, MarkFailed,
                    MarkCancelled, RequestCancel, ReplaceResults, Update
      <3> QED
        BY <2>0, <3>1 DEF ForeignKeys
    <2>2. ASSUME NEW s \in Sessions, ChatTransaction(s) PROVE ForeignKeys'
      <3>1. CASE OpenChat(s)
        BY <2>0, <3>1 DEF OpenChat, ForeignKeys, StoreTypeOK
      <3>2. CASE DeleteChat(s)
        BY <2>0, <3>2 DEF DeleteChat, ForeignKeys, StoreTypeOK
      <3>3. ASSUME NEW r \in Runs, SetChatRun(s, r) PROVE ForeignKeys'
        BY <2>0, <3>3 DEF SetChatRun, ForeignKeys, StoreTypeOK
      <3>4. ASSUME NEW r \in Runs, NEW kind \in Verdicts, Post(s, r, kind) PROVE ForeignKeys'
        BY <2>0, <3>4 DEF Post, ForeignKeys, StoreTypeOK
      <3> QED
        BY <2>2, <3>1, <3>2, <3>3, <3>4 DEF ChatTransaction
    <2>3. ASSUME NEW gone \in SUBSET Runs, StoreBoot(gone) PROVE ForeignKeys'
      BY <2>0, <2>3 DEF StoreBoot, ForeignKeys
    <2>4. CASE UNCHANGED storeVars
      BY <2>4 DEF storeVars, ForeignKeys, Known
    <2> QED
      BY <2>1, <2>2, <2>3, <2>4 DEF StoreNext
  <1> QED
    BY <1>1, <1>2, StoreTypeCorrect, PTL DEF StoreSpec

---------------------------------------------------------------------------

\* The conditional UPDATEs implement the promised life cycle: each
\* transaction is one of its moves, or leaves every status alone.
THEOREM StoreImplementsLifecycle == StoreSpec => ImplementsLifecycle
  <1>1. StoreInit => Lifecycle!LifecycleInit
    BY DEF StoreInit, Lifecycle!LifecycleInit
  <1>2. StoreTypeOK /\ [StoreNext]_storeVars => [Lifecycle!LifecycleNext]_status
    <2> SUFFICES ASSUME StoreTypeOK, [StoreNext]_storeVars
                 PROVE  [Lifecycle!LifecycleNext]_status
      OBVIOUS
    <2>1. ASSUME NEW r \in Runs, RunTransaction(r) PROVE [Lifecycle!LifecycleNext]_status
      <3> USE DEF StoreTypeOK, Active, Final, Statuses, Results
      <3>1. CASE InsertRun(r)
        BY <3>1 DEF InsertRun, Lifecycle!LifecycleNext, Lifecycle!Create, Lifecycle!Move
      <3>2. CASE MarkRunning(r)
        BY <3>2 DEF MarkRunning, Update, Lifecycle!LifecycleNext, Lifecycle!Start, Lifecycle!Move
      <3>3. ASSUME NEW to, Update(r, Active, to), to = "technical_failure"
            PROVE  [Lifecycle!LifecycleNext]_status
        <4>1. CASE status[r] \notin Active
          BY <3>3, <4>1 DEF Update
        <4>2. CASE status[r] \in Active
          <5>1. Lifecycle!Fail({r})
            BY <3>3, <4>2 DEF Update, Lifecycle!Fail, Lifecycle!Active
          <5> QED
            BY <5>1 DEF Lifecycle!LifecycleNext
        <4> QED
          BY <4>1, <4>2
      <3>4. ASSUME NEW result \in Results, MarkFinished(r, result)
            PROVE  [Lifecycle!LifecycleNext]_status
        <4>1. CASE status[r] # "running"
          BY <3>4, <4>1 DEF MarkFinished, Update
        <4>2. CASE status[r] = "running" /\ result = "completed"
          BY <3>4, <4>2 DEF MarkFinished, Update, Lifecycle!LifecycleNext,
                            Lifecycle!Complete, Lifecycle!Move
        <4>3. CASE status[r] = "running" /\ result = "technical_failure"
          <5>1. Lifecycle!Fail({r})
            BY <3>4, <4>3 DEF MarkFinished, Update, Lifecycle!Fail, Lifecycle!Active
          <5> QED
            BY <5>1 DEF Lifecycle!LifecycleNext
        <4> QED
          BY <4>1, <4>2, <4>3
      <3>5. CASE MarkFailed(r)
        BY <3>3, <3>5 DEF MarkFailed
      <3>6. CASE MarkCancelled(r)
        BY <3>6 DEF MarkCancelled, Update, Lifecycle!LifecycleNext, Lifecycle!Stopped,
                    Lifecycle!Move
      <3>7. CASE RequestCancel(r)
        BY <3>7 DEF RequestCancel, AfterCancel, Lifecycle!LifecycleNext,
                    Lifecycle!Withdraw, Lifecycle!AskStop, Lifecycle!Move
      <3>8. CASE ReplaceResults(r)
        BY <3>8 DEF ReplaceResults
      <3> QED
        BY <2>1, <3>1, <3>2, <3>4, <3>5, <3>6, <3>7, <3>8 DEF RunTransaction
    <2>2. ASSUME NEW s \in Sessions, ChatTransaction(s) PROVE [Lifecycle!LifecycleNext]_status
      BY <2>2 DEF ChatTransaction, OpenChat, DeleteChat, SetChatRun, Post
    <2>3. ASSUME NEW gone \in SUBSET Runs, StoreBoot(gone) PROVE [Lifecycle!LifecycleNext]_status
      <3> DEFINE S == {r \in Runs : status[r] \in {"running", "cancelling"}} \cup gone
      <3>1. S \in SUBSET Runs
        OBVIOUS
      <3>2. Lifecycle!Fail(S)
        BY <2>3 DEF StoreBoot, Lifecycle!Fail, Lifecycle!Active
      <3> QED
        BY <3>1, <3>2 DEF Lifecycle!LifecycleNext
    <2>4. CASE UNCHANGED storeVars
      BY <2>4 DEF storeVars
    <2> QED
      BY <2>1, <2>2, <2>3, <2>4 DEF StoreNext
  <1> QED
    BY <1>1, <1>2, StoreTypeCorrect, PTL DEF StoreSpec, ImplementsLifecycle,
       Lifecycle!LifecycleSpec
===========================================================================
