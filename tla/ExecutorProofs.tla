-------------------------- MODULE ExecutorProofs --------------------------
(***************************************************************************)
(* The limiter for every number of pipelines, directories and action ids:  *)
(* a permit is free or held by a thread inside, and what an action id has  *)
(* been counted covers the sandboxes it started and the threads that wait  *)
(* to start one.                                                           *)
(***************************************************************************)
EXTENDS Executor, FiniteSetTheorems, TLAPS

Started(d, id) == {x \in executed : x.dir = d /\ x.id = id}

\* Threads that are counted and not yet inside.
Waiting(d, id) ==
    {p \in Pipelines : gate[p].at \in {"counted", "refused"} /\ gate[p].dir = d /\ gate[p].id = id}

CountsCover ==
    \A d \in Dirs, id \in Ids :
        /\ counts[d][id] <= MaxRuns
        /\ Cardinality(Started(d, id)) + Cardinality(Waiting(d, id)) <= counts[d][id]

LimiterInv ==
    /\ LimiterTypeOK
    /\ IsFiniteSet(executed)
    /\ PermitsBalanced
    /\ CountsCover

\* What an operation of the limiter does, together with the record of a
\* sandbox that starts.
Begins(p, run) ==
    executed' = executed \cup {[run |-> run, dir |-> gate[p].dir, id |-> gate[p].id]}

LimiterStep(p) ==
    \/ /\ \E d \in Dirs, id \in Ids : Count(p, d, id)
       /\ UNCHANGED executed
    \/ \E run : Enter(p) /\ Begins(p, run)
    \/ /\ Refuse(p) \/ Uncount(p) \/ Leave(p) \/ UNCHANGED limiterVars
       /\ UNCHANGED executed

\* Adding or removing one element.
LEMMA AddOne ==
    ASSUME NEW S, IsFiniteSet(S), NEW x
    PROVE  /\ Cardinality(S) \in Nat
           /\ x \notin S => Cardinality(S \cup {x}) = Cardinality(S) + 1
           /\ IsFiniteSet(S \cup {x})
           /\ Cardinality(S \cup {x}) \in Nat
           /\ Cardinality(S \cup {x}) <= Cardinality(S) + 1
           /\ x \in S => /\ Cardinality(S \ {x}) \in Nat
                         /\ Cardinality(S) = Cardinality(S \ {x}) + 1
  <1>1. /\ Cardinality(S) \in Nat
        /\ IsFiniteSet(S \cup {x})
        /\ Cardinality(S \cup {x}) \in Nat
        /\ x \notin S => Cardinality(S \cup {x}) = Cardinality(S) + 1
    BY FS_AddElement, FS_CardinalityType
  <1>2. x \in S => S \cup {x} = S
    OBVIOUS
  <1>3. ASSUME x \in S
        PROVE  Cardinality(S \ {x}) \in Nat /\ Cardinality(S) = Cardinality(S \ {x}) + 1
    <2>1. IsFiniteSet(S \ {x})
      BY FS_Subset
    <2>2. (S \ {x}) \cup {x} = S
      BY <1>3
    <2> QED
      BY <2>1, <2>2, FS_AddElement, FS_CardinalityType
  <1>4. Cardinality(S \cup {x}) <= Cardinality(S) + 1
    <2>1. CASE x \in S
      BY <2>1, <1>1, <1>2
    <2>2. CASE x \notin S
      BY <2>2, <1>1
    <2> QED
      BY <2>1, <2>2
  <1> QED
    BY <1>1, <1>3, <1>4

LEMMA LimiterSets ==
    ASSUME LimiterInv, NEW d, NEW id
    PROVE  /\ IsFiniteSet(Inside(d)) /\ IsFiniteSet(Waiting(d, id)) /\ IsFiniteSet(Started(d, id))
           /\ Cardinality(Inside(d)) \in Nat
           /\ Cardinality(Waiting(d, id)) \in Nat
           /\ Cardinality(Started(d, id)) \in Nat
  <1>1. Inside(d) \subseteq Pipelines /\ Waiting(d, id) \subseteq Pipelines
    BY DEF Inside, Waiting
  <1>2. Started(d, id) \subseteq executed
    BY DEF Started
  <1>3. IsFiniteSet(Inside(d)) /\ IsFiniteSet(Waiting(d, id)) /\ IsFiniteSet(Started(d, id))
    BY <1>1, <1>2, FS_Subset, PipelineNamesAssumption DEF LimiterInv
  <1> QED
    BY <1>3, FS_CardinalityType

\* Count: one thread more waits, and the count is one higher.
LEMMA CountKeeps ==
    ASSUME LimiterInv, NEW p \in Pipelines, NEW d \in Dirs, NEW id \in Ids,
           Count(p, d, id), UNCHANGED executed
    PROVE  LimiterInv'
  <1> USE LimiterAssumption DEF LimiterInv, LimiterTypeOK
  <1>1. gate'[p] = [at |-> "counted", dir |-> d, id |-> id] /\ gate[p] = Outside
    BY DEF Count
  <1>2. \A q \in Pipelines : q # p => gate'[q] = gate[q]
    BY DEF Count
  <1>3. LimiterTypeOK'
    BY DEF Count, Gates
  <1>4. \A e \in Dirs : Inside(e)' = Inside(e)
    BY <1>1, <1>2 DEF Inside, Outside
  <1>5. PermitsBalanced'
    BY <1>4 DEF PermitsBalanced, Count
  <1>6. p \notin Waiting(d, id) /\ Waiting(d, id)' = Waiting(d, id) \cup {p}
    BY <1>1, <1>2 DEF Waiting, Outside
  <1>7. \A e \in Dirs, i \in Ids : e # d \/ i # id => Waiting(e, i)' = Waiting(e, i)
    BY <1>1, <1>2 DEF Waiting, Outside
  <1>8. \A e \in Dirs, i \in Ids : Started(e, i)' = Started(e, i)
    BY DEF Started
  <1>9. counts[d][id] < MaxRuns /\ counts'[d][id] = counts[d][id] + 1
    BY DEF Count, Spent
  <1>10. \A e \in Dirs, i \in Ids : e # d \/ i # id => counts'[e][i] = counts[e][i]
    BY DEF Count
  <1>11. CountsCover'
    <2> SUFFICES ASSUME NEW e \in Dirs, NEW i \in Ids
                 PROVE  /\ counts'[e][i] <= MaxRuns
                        /\ Cardinality(Started(e, i)') + Cardinality(Waiting(e, i)') <= counts'[e][i]
      BY DEF CountsCover
    <2>1. CASE e = d /\ i = id
      <3>1. Cardinality(Waiting(d, id)') = Cardinality(Waiting(d, id)) + 1
        BY <1>6, LimiterSets, AddOne
      <3> QED
        BY <2>1, <3>1, <1>8, <1>9, LimiterSets DEF CountsCover
    <2>2. CASE e # d \/ i # id
      BY <2>2, <1>7, <1>8, <1>10 DEF CountsCover
    <2> QED
      BY <2>1, <2>2
  <1> QED
    BY <1>3, <1>5, <1>11

\* Enter: one waiting thread goes inside with a permit and starts a sandbox.
LEMMA EnterKeeps ==
    ASSUME LimiterInv, NEW p \in Pipelines, NEW run, Enter(p), Begins(p, run)
    PROVE  LimiterInv'
  <1> USE LimiterAssumption DEF LimiterInv, LimiterTypeOK
  <1>1. gate[p] \in [at : {"counted", "refused", "inside"}, dir : Dirs, id : Ids]
    BY DEF Enter, Gates, Outside
  <1>2. PICK d \in Dirs, id \in Ids : gate[p].dir = d /\ gate[p].id = id
    BY <1>1
  <1> DEFINE x == [run |-> run, dir |-> d, id |-> id]
  <1>3. gate'[p] = [at |-> "inside", dir |-> d, id |-> id] /\ gate[p].at = "counted"
    BY <1>1, <1>2 DEF Enter
  <1>4. \A q \in Pipelines : q # p => gate'[q] = gate[q]
    BY DEF Enter
  <1>5. permits[d] > 0 /\ permits'[d] = permits[d] - 1
        /\ \A e \in Dirs : e # d => permits'[e] = permits[e]
    BY <1>2 DEF Enter
  <1>6. LimiterTypeOK'
    BY <1>2, <1>3, <1>5 DEF Enter, Gates
  <1>7. p \notin Inside(d) /\ Inside(d)' = Inside(d) \cup {p}
    BY <1>2, <1>3, <1>4 DEF Inside
  <1>8. \A e \in Dirs : e # d => Inside(e)' = Inside(e)
    BY <1>2, <1>3, <1>4 DEF Inside
  <1>9. PermitsBalanced'
    <2>1. Cardinality(Inside(d)') = Cardinality(Inside(d)) + 1
      BY <1>7, LimiterSets, AddOne
    <2>2. permits[d] \in Nat /\ permits[d] + Cardinality(Inside(d)) = MaxConcurrent
      BY DEF PermitsBalanced
    <2>3. Cardinality(Inside(d)) \in Nat
      BY LimiterSets
    <2>4. permits'[d] + Cardinality(Inside(d)') = MaxConcurrent
      BY <2>1, <2>2, <2>3, <1>5
    <2> QED
      BY <2>4, <1>5, <1>8 DEF PermitsBalanced
  <1>10. IsFiniteSet(executed')
    BY AddOne DEF Begins
  <1>11. p \in Waiting(d, id) /\ Waiting(d, id)' = Waiting(d, id) \ {p}
    BY <1>2, <1>3, <1>4 DEF Waiting
  <1>12. executed' = executed \cup {x}
    BY <1>2 DEF Begins
  <1>13. counts' = counts
    BY DEF Enter
  <1>14. CountsCover'
    <2> SUFFICES ASSUME NEW e \in Dirs, NEW i \in Ids
                 PROVE  /\ counts[e][i] <= MaxRuns
                        /\ Cardinality(Started(e, i)') + Cardinality(Waiting(e, i)') <= counts[e][i]
      BY <1>13 DEF CountsCover
    <2>1. CASE e = d /\ i = id
      <3>1. /\ Cardinality(Waiting(d, id)') \in Nat
            /\ Cardinality(Waiting(d, id)) = Cardinality(Waiting(d, id)') + 1
        BY <1>11, LimiterSets, AddOne
      <3>2. /\ Cardinality(Started(d, id)') \in Nat
            /\ Cardinality(Started(d, id)') <= Cardinality(Started(d, id)) + 1
        <4>1. Started(d, id)' = Started(d, id) \cup {x}
          BY <1>12 DEF Started
        <4> QED
          BY <4>1, LimiterSets, AddOne
      <3>3. Cardinality(Started(d, id)) + Cardinality(Waiting(d, id)) <= counts[d][id]
        BY <1>2 DEF CountsCover
      <3>4. Cardinality(Started(d, id)) \in Nat /\ counts[d][id] \in Nat /\ counts[d][id] <= MaxRuns
        BY <1>2, LimiterSets DEF CountsCover
      <3> QED
        BY <2>1, <3>1, <3>2, <3>3, <3>4
    <2>2. CASE e # d \/ i # id
      <3>1. Waiting(e, i)' = Waiting(e, i)
        BY <2>2, <1>2, <1>3, <1>4 DEF Waiting
      <3>2. Started(e, i)' = Started(e, i)
        BY <2>2, <1>12 DEF Started
      <3> QED
        BY <3>1, <3>2 DEF CountsCover
    <2> QED
      BY <2>1, <2>2
  <1> QED
    BY <1>6, <1>9, <1>10, <1>14

LEMMA RefuseKeeps ==
    ASSUME LimiterInv, NEW p \in Pipelines, Refuse(p), UNCHANGED executed
    PROVE  LimiterInv'
  <1> USE LimiterAssumption DEF LimiterInv, LimiterTypeOK
  <1>1. gate[p] \in [at : {"counted", "refused", "inside"}, dir : Dirs, id : Ids]
    BY DEF Refuse, Gates, Outside
  <1>2. gate'[p] = [at |-> "refused", dir |-> gate[p].dir, id |-> gate[p].id] /\ gate[p].at = "counted"
    BY <1>1 DEF Refuse
  <1>3. \A q \in Pipelines : q # p => gate'[q] = gate[q]
    BY DEF Refuse
  <1>4. LimiterTypeOK'
    BY <1>1, <1>2 DEF Refuse, Gates
  <1>5. \A d \in Dirs : Inside(d)' = Inside(d)
    BY <1>2, <1>3 DEF Inside
  <1>6. \A d \in Dirs, id \in Ids : Waiting(d, id)' = Waiting(d, id)
    BY <1>2, <1>3 DEF Waiting
  <1>7. \A d \in Dirs, id \in Ids : Started(d, id)' = Started(d, id)
    BY DEF Started
  <1> QED
    BY <1>4, <1>5, <1>6, <1>7 DEF Refuse, PermitsBalanced, CountsCover

\* Uncount: the thread waits no longer, and its count goes back.
LEMMA UncountKeeps ==
    ASSUME LimiterInv, NEW p \in Pipelines, Uncount(p), UNCHANGED executed
    PROVE  LimiterInv'
  <1> USE LimiterAssumption DEF LimiterInv, LimiterTypeOK
  <1>1. /\ gate[p] \in [at : {"counted", "refused", "inside"}, dir : Dirs, id : Ids]
        /\ gate[p].at = "refused" /\ gate'[p] = Outside
    BY DEF Uncount, Gates, Outside
  <1>2. PICK d \in Dirs, id \in Ids : gate[p].dir = d /\ gate[p].id = id
    BY <1>1
  <1>3. \A q \in Pipelines : q # p => gate'[q] = gate[q]
    BY DEF Uncount
  <1>4. \A e \in Dirs : Inside(e)' = Inside(e)
    BY <1>1, <1>3 DEF Inside, Outside
  <1>5. PermitsBalanced'
    BY <1>4 DEF PermitsBalanced, Uncount
  <1>6. p \in Waiting(d, id) /\ Waiting(d, id)' = Waiting(d, id) \ {p}
    BY <1>1, <1>2, <1>3 DEF Waiting, Outside
  <1>7. /\ Cardinality(Waiting(d, id)') \in Nat
        /\ Cardinality(Waiting(d, id)) = Cardinality(Waiting(d, id)') + 1
    BY <1>6, LimiterSets, AddOne
  <1>8. /\ counts[d][id] \in Nat
        /\ counts[d][id] <= MaxRuns
        /\ Cardinality(Started(d, id)) \in Nat
        /\ Cardinality(Started(d, id)) + Cardinality(Waiting(d, id)) <= counts[d][id]
    BY <1>2, LimiterSets DEF CountsCover
  <1>9. counts[d][id] - 1 \in Nat
    BY <1>7, <1>8
  <1>10. /\ counts'[d][id] = counts[d][id] - 1
         /\ \A e \in Dirs, i \in Ids : e # d \/ i # id => counts'[e][i] = counts[e][i]
    BY <1>2 DEF Uncount
  <1>11. LimiterTypeOK'
    BY <1>1, <1>2, <1>9 DEF Uncount, Gates
  <1>12. \A e \in Dirs, i \in Ids : Started(e, i)' = Started(e, i)
    BY DEF Started
  <1>13. CountsCover'
    <2> SUFFICES ASSUME NEW e \in Dirs, NEW i \in Ids
                 PROVE  /\ counts'[e][i] <= MaxRuns
                        /\ Cardinality(Started(e, i)) + Cardinality(Waiting(e, i)') <= counts'[e][i]
      BY <1>12 DEF CountsCover
    <2>1. CASE e = d /\ i = id
      BY <2>1, <1>7, <1>8, <1>10
    <2>2. CASE e # d \/ i # id
      <3>1. Waiting(e, i)' = Waiting(e, i)
        BY <2>2, <1>1, <1>2, <1>3 DEF Waiting, Outside
      <3> QED
        BY <2>2, <3>1, <1>10 DEF CountsCover
    <2> QED
      BY <2>1, <2>2
  <1> QED
    BY <1>5, <1>11, <1>13

\* Leave: the clamp of the bounded semaphore never bites.
LEMMA LeaveKeeps ==
    ASSUME LimiterInv, NEW p \in Pipelines, Leave(p), UNCHANGED executed
    PROVE  LimiterInv'
  <1> USE LimiterAssumption DEF LimiterInv, LimiterTypeOK
  <1>1. /\ gate[p] \in [at : {"counted", "refused", "inside"}, dir : Dirs, id : Ids]
        /\ gate[p].at = "inside" /\ gate'[p] = Outside
    BY DEF Leave, Gates, Outside
  <1>2. PICK d \in Dirs : gate[p].dir = d
    BY <1>1
  <1>3. \A q \in Pipelines : q # p => gate'[q] = gate[q]
    BY DEF Leave
  <1>4. p \in Inside(d) /\ Inside(d)' = Inside(d) \ {p}
    BY <1>1, <1>2, <1>3 DEF Inside, Outside
  <1>5. /\ Cardinality(Inside(d)') \in Nat
        /\ Cardinality(Inside(d)) = Cardinality(Inside(d)') + 1
    <2>1. IsFiniteSet(Inside(d))
      BY LimiterSets
    <2> QED
      BY <2>1, <1>4, AddOne
  <1>6. permits[d] \in Nat /\ permits[d] + Cardinality(Inside(d)) = MaxConcurrent
    BY <1>2 DEF PermitsBalanced
  <1>7. permits'[d] = permits[d] + 1 /\ permits[d] < MaxConcurrent
    BY <1>2, <1>5, <1>6 DEF Leave
  <1>8. \A e \in Dirs : e # d => permits'[e] = permits[e] /\ Inside(e)' = Inside(e)
    BY <1>1, <1>2, <1>3 DEF Leave, Inside, Outside
  <1>9. PermitsBalanced'
    BY <1>5, <1>6, <1>7, <1>8 DEF PermitsBalanced
  <1>10. LimiterTypeOK'
    BY <1>1, <1>2, <1>6, <1>7 DEF Leave, Gates
  <1>11. \A e \in Dirs, i \in Ids : Waiting(e, i)' = Waiting(e, i) /\ Started(e, i)' = Started(e, i)
    BY <1>1, <1>3 DEF Waiting, Started, Outside
  <1> QED
    BY <1>9, <1>10, <1>11 DEF Leave, CountsCover

\* No operation of the limiter breaks its invariant.
LEMMA LimiterInductive ==
    ASSUME LimiterInv, NEW p \in Pipelines, LimiterStep(p)
    PROVE  LimiterInv'
  <1>1. CASE UNCHANGED limiterVars /\ UNCHANGED executed
    BY <1>1 DEF limiterVars, LimiterInv, LimiterTypeOK, PermitsBalanced, CountsCover,
                Inside, Waiting, Started
  <1> QED
    BY <1>1, CountKeeps, EnterKeeps, RefuseKeeps, UncountKeeps, LeaveKeeps DEF LimiterStep

LEMMA LimiterStart == LimiterInit /\ executed = {} => LimiterInv
  <1> SUFFICES ASSUME LimiterInit, executed = {} PROVE LimiterInv
    OBVIOUS
  <1> USE LimiterAssumption
  <1>1. /\ \A d \in Dirs : Inside(d) = {}
        /\ \A d \in Dirs, id \in Ids : Waiting(d, id) = {} /\ Started(d, id) = {}
    BY DEF LimiterInit, Inside, Waiting, Started, Outside
  <1>2. Cardinality({}) = 0 /\ IsFiniteSet({})
    BY FS_EmptySet
  <1>3. LimiterTypeOK
    BY DEF LimiterInit, LimiterTypeOK, Gates
  <1>4. PermitsBalanced
    <2> SUFFICES ASSUME NEW d \in Dirs
                 PROVE  permits[d] + Cardinality(Inside(d)) = MaxConcurrent
      BY DEF PermitsBalanced
    <2>1. Cardinality(Inside(d)) = 0
      BY <1>1, <1>2
    <2>2. permits[d] = MaxConcurrent
      BY DEF LimiterInit
    <2> QED
      BY <2>1, <2>2
  <1>5. CountsCover
    BY <1>1, <1>2 DEF LimiterInit, CountsCover
  <1> QED
    BY <1>2, <1>3, <1>4, <1>5 DEF LimiterInv

\* What the invariant is for.
LEMMA LimiterLimits == LimiterInv => ActionsLimited
  <1> SUFFICES ASSUME LimiterInv, NEW d \in Dirs, NEW id \in Ids
               PROVE  Cardinality(Started(d, id)) <= MaxRuns
    BY DEF ActionsLimited, Started
  <1>1. counts[d][id] \in Nat /\ Cardinality(Waiting(d, id)) \in Nat /\ Cardinality(Started(d, id)) \in Nat
    BY LimiterSets DEF LimiterInv, LimiterTypeOK
  <1> QED
    BY <1>1, LimiterAssumption DEF LimiterInv, CountsCover
===========================================================================
