----------------------------- MODULE PartsProofs -----------------------------
(***************************************************************************)
(* Proofs about the parts of ServiceParts: the model calls of the agent,   *)
(* the verification of fixes, the import of projects, the timeline of a    *)
(* run, the sandbox session, the timeline of telemetry and the view of a   *)
(* chat; the two parts that read a repository are in SourceProofs.  Each   *)
(* section is about one part, and the last one about ServiceParts.         *)
(***************************************************************************)
EXTENDS ServiceParts, SourceProofs, FiniteSetTheorems, TLAPS

---------------------------------------------------------------------------
\* AgentReasoning: verdicts

\* A question that was not asked has no answer, and nobody but the guard
\* has given a verdict.
ReasonInv ==
    /\ question.kind = "none" => thought = NoThought
    /\ VerdictNeedsEvidence

\* The last check leaves no verdict, whoever made it.
LEMMA CheckedIsOpen ==
    ASSUME NEW by, NEW says, NEW facts
    PROVE  CheckedVerdict(by, says, facts) \notin {"confirmed", "rejected"}
BY DEF CheckedVerdict, AtLimit

LEMMA DeterministicIsOpen ==
    ASSUME NEW t \in Deterministic
    PROVE  t.says \notin {"confirmed", "rejected"}
<1>1. CASE question.kind = "reevaluate"
  <2>1. PICK f \in Facts :
           t = Thought("deterministic", CheckedVerdict("deterministic", DeterministicVerdict(f), f))
    BY <1>1 DEF Deterministic
  <2> QED BY <2>1, CheckedIsOpen DEF Thought
<1>2. CASE question.kind # "reevaluate"
  BY <1>2 DEF Deterministic, Thought
<1> QED BY <1>1, <1>2

LEMMA ReasonInvInductive == ReasonInv /\ [ReasonNext]_reasonVars => ReasonInv'
<1> SUFFICES ASSUME ReasonInv, [ReasonNext]_reasonVars
             PROVE  ReasonInv'
  OBVIOUS
<1> USE DEF ReasonInv, VerdictNeedsEvidence
<1>1. ASSUME NEW kind, NEW guard, NEW artifacts, NEW providers, NEW all,
             Begin(kind, guard, artifacts, providers, all), kind # "none"
      PROVE  ReasonInv'
  BY <1>1 DEF Begin, Thought, NoThought
<1>2. CASE SkipRoute
  BY <1>2 DEF SkipRoute
<1>3. CASE AskRoute
  BY <1>3 DEF AskRoute
<1>4. CASE RoutesEnd
  BY <1>4 DEF RoutesEnd
<1>5. CASE UseReply
  <2>1. CASE question.kind = "reevaluate"
    <3>1. PICK says \in Conclusions, f \in Facts : thought' = Thought("llm", CheckedVerdict("llm", says, f))
      BY <1>5, <2>1 DEF UseReply
    <3>2. thought'.says \notin {"confirmed", "rejected"}
      BY <3>1, CheckedIsOpen DEF Thought
    <3> QED BY <1>5, <2>1, <3>2 DEF UseReply
  <2>2. CASE question.kind = "plan"
    <3>1. PICK steps \in Plans, max \in 1 .. MaxPlan :
             IF PlanAccepted(steps, max) THEN thought' = [Thought("llm", "none") EXCEPT !.plan = steps]
                                         ELSE thought' \in Deterministic
      BY <1>5, <2>2 DEF UseReply
    <3>2. thought'.says \notin {"confirmed", "rejected"}
      BY <3>1, DeterministicIsOpen DEF Thought
    <3> QED BY <1>5, <2>2, <3>2 DEF UseReply
  <2> QED BY <1>5, <2>1, <2>2 DEF UseReply
<1>6. CASE FallBack
  <2>1. thought'.says \notin {"confirmed", "rejected"}
    BY <1>6, DeterministicIsOpen DEF FallBack, Thought
  <2> QED BY <1>6, <2>1 DEF FallBack
<1>7. CASE UNCHANGED reasonVars
  BY <1>7 DEF reasonVars
<1>8. CASE ReasonCall
  BY <1>1, <1>8 DEF ReasonCall
<1> QED BY <1>2, <1>3, <1>4, <1>5, <1>6, <1>7, <1>8 DEF ReasonNext, ReasonStep

\* Whoever answers, and whatever the executed action says of itself, only
\* the evidence guard ends a question with a verdict (agent/llm_model.py).
THEOREM OnlyTheGuardDecides == ReasonSpec => []VerdictNeedsEvidence
<1>1. ReasonInit => ReasonInv
  BY DEF ReasonInit, ReasonInv, VerdictNeedsEvidence, NoThought, Thought
<1>2. ReasonInv => VerdictNeedsEvidence
  BY DEF ReasonInv
<1> QED BY <1>1, <1>2, ReasonInvInductive, PTL DEF ReasonSpec

---------------------------------------------------------------------------
\* AgentReasoning: failover

Covers(i, r) ==
    /\ Routes[attempts[i].route] = Routes[r]
    /\ \/ attempts[i].route = r
       \/ attempts[i].route < r /\ attempts[i].status \in Refusals

\* The history of the attempts: what they were, what they blocked, and that
\* no usable route before the next one was passed over without a reason.
FailoverInv ==
    /\ nextRoute \in 1 .. Len(Routes) + 1
    /\ attempts \in Seq([route : RouteNumbers, status : Statuses])
    /\ question.kind = "none" =>
          nextRoute = 1 /\ attempts = <<>> /\ refused = {} /\ selected = 0 /\ reply = "none"
    /\ \A i \in DOMAIN attempts :
          /\ attempts[i].route < nextRoute
          /\ attempts[i].status \in Refusals => Routes[attempts[i].route] \in refused
          /\ selected = 0 => attempts[i].status # "ok"
    /\ \A p \in refused : \E i \in DOMAIN attempts :
          Routes[attempts[i].route] = p /\ attempts[i].status \in Refusals
    /\ \A i, j \in DOMAIN attempts :
          i < j => /\ attempts[i].route < attempts[j].route
                   /\ Routes[attempts[i].route] = Routes[attempts[j].route]
                         => attempts[i].status \notin Refusals
    /\ \A r \in RouteNumbers : r < nextRoute /\ Usable(r) =>
          \E i \in DOMAIN attempts : Covers(i, r)
    /\ reply = "unavailable" => nextRoute = Len(Routes) + 1 /\ selected = 0
    /\ question.kind = "none" \/ reply = "pending" => thought.by # "deterministic"
    /\ thought.by = "deterministic" =>
          (question.kind = "plan" /\ reply = "valid") \/ reply = "unavailable"

LEMMA RoutesCount == Len(Routes) \in Nat
BY ReasoningBounds DEF ReasoningBounds

LEMMA AnswersAreStatuses ==
    ASSUME NEW status \in Answers \ {"escapes"}
    PROVE  status \in Statuses
<1>1. ASSUME NEW m \in Messages
      PROVE  Classify(m) \in Statuses
  <2>1. CASE m = {}
    BY <2>1 DEF Classify, Statuses
  <2>2. CASE m # {}
    <3> DEFINE found == {i \in DOMAIN Signs : Signs[i] \in m}
               first == CHOOSE i \in found : \A j \in found : i <= j
    <3>1. \E i \in 1 .. 6 : Signs[i] \in m /\ \A j \in 1 .. 6 : Signs[j] \in m => i <= j
      <4>1. \E i \in 1 .. 6 : Signs[i] \in m
        BY <1>1, <2>2 DEF Messages, Signs
      <4> QED BY <4>1, Z3
    <3>2. DOMAIN Signs = 1 .. 6
      BY DEF Signs
    <3>3. first \in DOMAIN Signs
      BY <3>1, <3>2
    <3> QED BY <2>2, <3>3 DEF Classify, Statuses
  <2> QED BY <2>1, <2>2
<1> QED BY <1>1 DEF Answers, Statuses

LEMMA AttemptTypes ==
    ASSUME FailoverInv, NEW i \in DOMAIN attempts
    PROVE  attempts[i].route \in RouteNumbers /\ attempts[i].status \in Statuses
<1> DEFINE A == [route : RouteNumbers, status : Statuses]
<1>1. attempts \in Seq(A)
  BY DEF FailoverInv
<1>2. attempts[i] \in A
  <2> HIDE DEF A
  <2> QED BY <1>1
<1> QED BY <1>2

LEMMA AskKeepsFailover ==
    ASSUME FailoverInv, AskRoute
    PROVE  FailoverInv'
<1> USE RoutesCount
<1>1. CASE reply' = "raised" /\ UNCHANGED <<nextRoute, attempts, selected, refused>>
  BY <1>1 DEF AskRoute, FailoverInv, Covers, Usable
<1>2. ASSUME NEW status \in Answers, status # "escapes", Asks(status),
             refused' = IF status \in Refusals THEN refused \cup {Routes[nextRoute]} ELSE refused
      PROVE  FailoverInv'
  <2> DEFINE n == Len(attempts)
             new == [route |-> nextRoute, status |-> status]
  <2>1. /\ reply = "pending" /\ nextRoute \in RouteNumbers
        /\ Routes[nextRoute] \notin refused /\ Usable(nextRoute)
        /\ UNCHANGED <<question, keys, collects, thought>>
    BY DEF AskRoute
  <2>2. new \in [route : RouteNumbers, status : Statuses]
    BY <1>2, <2>1, AnswersAreStatuses
  <2>3. /\ attempts' = Append(attempts, new) /\ nextRoute' = nextRoute + 1
        /\ attempts' \in Seq([route : RouteNumbers, status : Statuses])
        /\ n \in Nat /\ DOMAIN attempts = 1 .. n /\ DOMAIN attempts' = 1 .. (n + 1)
        /\ attempts'[n + 1] = new
        /\ \A i \in 1 .. n : attempts'[i] = attempts[i]
    BY <1>2, <2>2 DEF FailoverInv, Asks
  <2>4. nextRoute' \in 1 .. Len(Routes) + 1
    BY <2>1, <2>3 DEF RouteNumbers
  <2>5. \A i \in 1 .. n : attempts[i].route \in RouteNumbers /\ attempts[i].status \in Statuses
    BY <2>3, AttemptTypes
  <2>6. \A i \in DOMAIN attempts' :
          /\ attempts'[i].route < nextRoute'
          /\ attempts'[i].status \in Refusals => Routes[attempts'[i].route] \in refused'
          /\ selected' = 0 => attempts'[i].status # "ok"
    <3> SUFFICES ASSUME NEW i \in 1 .. (n + 1)
                 PROVE  /\ attempts'[i].route < nextRoute'
                        /\ attempts'[i].status \in Refusals => Routes[attempts'[i].route] \in refused'
                        /\ selected' = 0 => attempts'[i].status # "ok"
      BY <2>3
    <3>1. CASE i \in 1 .. n
      BY <3>1, <1>2, <2>1, <2>3, <2>5 DEF FailoverInv, Asks, RouteNumbers
    <3>2. CASE i = n + 1
      BY <3>2, <1>2, <2>1, <2>3 DEF Asks, RouteNumbers
    <3> QED BY <3>1, <3>2, <2>3
  <2>7. \A p \in refused' : \E i \in DOMAIN attempts' :
           Routes[attempts'[i].route] = p /\ attempts'[i].status \in Refusals
    <3>1. ASSUME NEW p \in refused
          PROVE  \E i \in DOMAIN attempts' :
                    Routes[attempts'[i].route] = p /\ attempts'[i].status \in Refusals
      <4>1. PICK i \in 1 .. n : Routes[attempts[i].route] = p /\ attempts[i].status \in Refusals
        BY <2>3 DEF FailoverInv
      <4> QED BY <4>1, <2>3
    <3>2. status \in Refusals =>
             Routes[attempts'[n + 1].route] = Routes[nextRoute] /\ attempts'[n + 1].status \in Refusals
      BY <2>3
    <3> QED BY <1>2, <2>3, <3>1, <3>2
  <2>8. \A i, j \in DOMAIN attempts' :
          i < j => /\ attempts'[i].route < attempts'[j].route
                   /\ Routes[attempts'[i].route] = Routes[attempts'[j].route]
                         => attempts'[i].status \notin Refusals
    <3> SUFFICES ASSUME NEW i \in 1 .. (n + 1), NEW j \in 1 .. (n + 1), i < j
                 PROVE  /\ attempts'[i].route < attempts'[j].route
                        /\ Routes[attempts'[i].route] = Routes[attempts'[j].route]
                              => attempts'[i].status \notin Refusals
      BY <2>3
    <3>. n \in Nat
      BY <2>3
    <3>1. CASE j \in 1 .. n
      <4>1. i \in 1 .. n
        BY <3>1, <2>3
      <4>2. /\ attempts[i].route < attempts[j].route
            /\ Routes[attempts[i].route] = Routes[attempts[j].route]
                  => attempts[i].status \notin Refusals
        BY <4>1, <3>1, <2>3 DEF FailoverInv
      <4>3. attempts'[i] = attempts[i] /\ attempts'[j] = attempts[j]
        BY <4>1, <3>1, <2>3
      <4> QED BY <4>2, <4>3
    <3>2. CASE j = n + 1
      <4>1. i \in 1 .. n
        BY <3>2, <2>3
      <4>2. attempts[i].route < nextRoute
            /\ (attempts[i].status \in Refusals => Routes[attempts[i].route] \in refused)
        BY <4>1, <2>3 DEF FailoverInv
      <4> QED BY <4>1, <4>2, <3>2, <2>1, <2>3
    <3> QED BY <3>1, <3>2
  <2>9. \A r \in RouteNumbers : r < nextRoute' /\ Usable(r)' =>
           \E i \in DOMAIN attempts' : Covers(i, r)'
    <3> SUFFICES ASSUME NEW r \in RouteNumbers, r < nextRoute', Usable(r)
                 PROVE  \E i \in DOMAIN attempts' : Covers(i, r)'
      BY <2>1 DEF Usable
    <3>1. CASE r < nextRoute
      <4>1. PICK i \in 1 .. n : Covers(i, r)
        BY <3>1, <2>3 DEF FailoverInv
      <4> QED BY <4>1, <2>3 DEF Covers
    <3>2. CASE r = nextRoute
      BY <3>2, <2>3 DEF Covers
    <3> QED BY <3>1, <3>2, <2>1, <2>3 DEF RouteNumbers
  <2>10. question'.kind # "none" /\ reply' # "unavailable" /\ thought'.by # "deterministic"
    BY <1>2, <2>1 DEF FailoverInv, Asks
  <2> QED BY <2>3, <2>4, <2>6, <2>7, <2>8, <2>9, <2>10 DEF FailoverInv
<1> QED BY <1>1, <1>2 DEF AskRoute

LEMMA FailoverInvInductive == FailoverInv /\ [ReasonNext]_reasonVars => FailoverInv'
<1> SUFFICES ASSUME FailoverInv, [ReasonNext]_reasonVars
             PROVE  FailoverInv'
  OBVIOUS
<1> USE RoutesCount
<1>1. CASE ReasonCall
  <2>1. PICK kind \in {"probe", "plan", "reevaluate"},
             guard \in {"none", "confirmed", "rejected", "inconclusive"}, artifacts \in 0 .. 2,
             providers \in SUBSET ({Routes[i] : i \in RouteNumbers} \cup {"account"}) :
                Begin(kind, guard, artifacts, providers, kind = "probe")
    BY <1>1 DEF ReasonCall
  <2>2. nextRoute' = 1 /\ attempts' = <<>> /\ refused' = {} /\ selected' = 0
        /\ reply' \in {"none", "pending"} /\ question'.kind # "none"
        /\ thought'.by # "deterministic"
    BY <2>1 DEF Begin, FailoverInv, Thought
  <2> QED BY <2>2 DEF FailoverInv, RouteNumbers
<1>2. CASE SkipRoute
  <2>1. /\ nextRoute' = nextRoute + 1 /\ nextRoute \in RouteNumbers /\ reply = "pending"
        /\ Routes[nextRoute] \in refused \/ ~Usable(nextRoute)
        /\ UNCHANGED <<question, keys, refused, attempts, selected, reply, thought>>
    BY <1>2 DEF SkipRoute
  <2>2. \A i \in DOMAIN attempts : attempts[i].route \in RouteNumbers
    BY AttemptTypes
  <2>3. \A r \in RouteNumbers : r < nextRoute' /\ Usable(r) => \E i \in DOMAIN attempts : Covers(i, r)
    <3> SUFFICES ASSUME NEW r \in RouteNumbers, r < nextRoute', Usable(r)
                 PROVE  \E i \in DOMAIN attempts : Covers(i, r)
      OBVIOUS
    <3>1. CASE r < nextRoute
      BY <3>1 DEF FailoverInv
    <3>2. CASE r = nextRoute
      <4>1. PICK i \in DOMAIN attempts :
               Routes[attempts[i].route] = Routes[r] /\ attempts[i].status \in Refusals
        BY <2>1, <3>2 DEF FailoverInv
      <4>2. attempts[i].route < r
        BY <3>2 DEF FailoverInv
      <4> QED BY <4>1, <4>2 DEF Covers
    <3> QED BY <3>1, <3>2, <2>1 DEF RouteNumbers
  <2>4. \A r \in RouteNumbers : Usable(r)' = Usable(r) /\ \A i \in DOMAIN attempts : Covers(i, r)' = Covers(i, r)
    BY <2>1 DEF Usable, Covers
  <2> QED BY <2>1, <2>2, <2>3, <2>4 DEF FailoverInv, RouteNumbers
<1>3. CASE AskRoute
  BY <1>3, AskKeepsFailover
<1>4. ASSUME UNCHANGED <<question, keys, nextRoute, refused, attempts, selected>>,
             reply' = reply \/ (RoutesEnd /\ (reply' = "unavailable" => selected = 0)),
             \/ UNCHANGED thought
             \/ /\ UNCHANGED reply /\ reply # "pending" /\ question.kind # "none"
                /\ reply = "unavailable"
                   \/ (question.kind = "plan" /\ reply = "valid")
                   \/ thought'.by # "deterministic"
      PROVE  FailoverInv'
  <2>1. reply' = "unavailable" => nextRoute = Len(Routes) + 1 /\ selected = 0
    BY <1>4 DEF FailoverInv, RoutesEnd, RouteNumbers
  <2>2. question.kind = "none" => reply' = "none"
    BY <1>4 DEF FailoverInv, RoutesEnd
  <2>3. /\ question.kind = "none" \/ reply' = "pending" => thought'.by # "deterministic"
        /\ thought'.by = "deterministic" =>
              (question.kind = "plan" /\ reply' = "valid") \/ reply' = "unavailable"
    BY <1>4 DEF FailoverInv, RoutesEnd
  <2> QED BY <1>4, <2>1, <2>2, <2>3 DEF FailoverInv, Covers, Usable
<1>5. CASE RoutesEnd
  BY <1>4, <1>5 DEF RoutesEnd
<1>6. CASE UseReply
  <2>1. question.kind = "plan" \/ thought'.by # "deterministic"
    BY <1>6 DEF UseReply, Thought
  <2> QED BY <1>4, <1>6, <2>1 DEF UseReply
<1>7. CASE FallBack
  <2>1. reply = "unavailable" \/ thought'.by # "deterministic"
    BY <1>7 DEF FallBack, Thought
  <2> QED BY <1>4, <1>7, <2>1 DEF FallBack
<1>8. CASE UNCHANGED reasonVars
  BY <1>4, <1>8 DEF reasonVars
<1> QED BY <1>1, <1>2, <1>3, <1>5, <1>6, <1>7, <1>8 DEF ReasonNext, ReasonStep

\* The routes are tried in order, none of a provider that refused; no usable
\* route is passed over; and the deterministic model answers only when no
\* route is left, or for a plan that breaks a rule (agent/llm.py).
THEOREM FailoverOrdered == ReasonSpec => []FailoverInOrder
<1>1. ReasonInit => FailoverInv
  BY RoutesCount DEF ReasonInit, FailoverInv, RouteNumbers, NoThought, Thought
<1>2. FailoverInv => FailoverInOrder
  <2> SUFFICES ASSUME FailoverInv
               PROVE  FailoverInOrder
    OBVIOUS
  <2>1. \A r \in RouteNumbers : r < nextRoute /\ Usable(r) =>
           \E i \in DOMAIN attempts :
              /\ Routes[attempts[i].route] = Routes[r]
              /\ \/ attempts[i].route = r
                 \/ attempts[i].route < r /\ attempts[i].status \in Refusals
    BY DEF FailoverInv, Covers
  <2>2. thought.by = "deterministic" =>
           \/ question.kind = "plan" /\ reply = "valid"
           \/ nextRoute = Len(Routes) + 1 /\ \A i \in DOMAIN attempts : attempts[i].status # "ok"
    BY DEF FailoverInv
  <2> QED BY <2>1, <2>2 DEF FailoverInv, FailoverInOrder
<1> QED BY <1>1, <1>2, FailoverInvInductive, PTL DEF ReasonSpec

---------------------------------------------------------------------------
\* FixVerification

\* The results are those of the first re-tests, and a blocked one is an error.
ResultsFit ==
    /\ checks \in Seq(Checks)
    /\ results \in Seq(Process)
    /\ Len(results) <= Len(checks)
    /\ \A i \in DOMAIN results : checks[i].blocked => results[i] = "error"

\* What each stage may rely on: from the copy on, the scope of the patch
\* was checked; only an applied patch is tested, to the last re-test.
FixInv ==
    /\ ResultsFit
    /\ fixStage \in {"request", "scope", "copy", "judge", "done", "raised"} => copy = "none"
    /\ fixStage \in {"copy", "try", "apply", "test"} \/ applied = "applied" => patch.names = {FoundIn}
    /\ fixStage = "test" => applied = "applied"
    /\ applied = "applied" /\ fixStage # "test" => Len(results) = Len(checks)
    /\ applied = "applied" => fixStage \in {"test", "judge", "done"}
    /\ fixStage = "request" => results = <<>>
    /\ fixStage # "done" => verdict = "none"
    /\ VerifiedIsEarned

\* A fix is judged verified only if every re-test passed, and both kinds ran.
LEMMA VerifiedPassed ==
    ASSUME ResultsFit, Len(results) = Len(checks), FixVerdict = "verified"
    PROVE  /\ \A i \in DOMAIN results : results[i] = "passed" /\ ~checks[i].blocked
           /\ {"static", "runtime"} = {checks[i].kind : i \in DOMAIN checks}
<1>1. ~Ended("error") /\ ~Ended("timed_out") /\ ~Ended("failed") /\ KindsTested = {"static", "runtime"}
  BY DEF FixVerdict
<1>2. DOMAIN results = DOMAIN checks
  BY DEF ResultsFit
<1>3. ASSUME NEW i \in DOMAIN results
      PROVE  results[i] = "passed" /\ ~checks[i].blocked
  <2>1. results[i] \in Process
    BY <1>3 DEF ResultsFit
  <2>2. results[i] \notin {"error", "timed_out", "failed"}
    BY <1>1, <1>3 DEF Ended
  <2>3. results[i] = "passed"
    BY <2>1, <2>2 DEF Process
  <2> QED BY <1>3, <2>3 DEF ResultsFit
<1> QED BY <1>1, <1>2, <1>3 DEF KindsTested

LEMMA FixInvInductive == FixInv /\ [FixNext]_fixVars => FixInv'
<1> SUFFICES ASSUME FixInv, [FixNext]_fixVars
             PROVE  FixInv'
  OBVIOUS
<1> USE DEF FixInv, VerifiedIsEarned
<1>1. ASSUME NEW confirmed, NEW same, NEW p, Request(confirmed, same, p)
      PROVE  FixInv'
  <2>1. applied # "applied" /\ applied' # "applied" /\ verdict' = "none"
        /\ fixStage' \in {"scope", "raised"} /\ copy' = "none"
    BY <1>1 DEF Request
  <2>2. ResultsFit'
    <3>1. PICK n \in 0 .. MaxChecks : checks' \in [1 .. n -> Checks]
      BY <1>1 DEF Request
    <3>2. checks' \in Seq(Checks)
      <4> HIDE DEF FixInv, VerifiedIsEarned
      <4> QED BY <3>1
    <3>3. results' = <<>>
      BY <1>1 DEF Request
    <3> QED BY <3>2, <3>3 DEF ResultsFit
  <2> QED BY <2>1, <2>2
<1>2. CASE CheckScope
  BY <1>2 DEF CheckScope, ScopeError, ResultsFit
<1>3. CASE CopyTarget
  BY <1>3 DEF CopyTarget, ResultsFit
<1>4. CASE TryPatch
  BY <1>4 DEF TryPatch, ResultsFit
<1>5. CASE ApplyPatch
  BY <1>5 DEF ApplyPatch, ResultsFit
<1>6. CASE RunCheck
  <2>1. PICK o \in IF checks[Len(results) + 1].blocked THEN {"error"} ELSE Process :
           results' = Append(results, o)
    BY <1>6 DEF RunCheck
  <2>2. o \in Process /\ (checks[Len(results) + 1].blocked => o = "error")
    BY <2>1 DEF Process
  <2>3. ResultsFit'
    <3>1. /\ UNCHANGED checks
          /\ checks \in Seq(Checks)
          /\ results \in Seq(Process)
          /\ Len(results) < Len(checks)
          /\ \A i \in DOMAIN results : checks[i].blocked => results[i] = "error"
      BY <1>6 DEF RunCheck, ResultsFit
    <3>2. /\ results' \in Seq(Process)
          /\ Len(results') = Len(results) + 1
          /\ DOMAIN results' = 1 .. Len(results) + 1
          /\ results'[Len(results) + 1] = o
          /\ \A i \in DOMAIN results : results'[i] = results[i]
      BY <2>1, <2>2, <3>1
    <3>3. Len(results') <= Len(checks)
      BY <3>1, <3>2
    <3>4. ASSUME NEW i \in DOMAIN results', checks[i].blocked
          PROVE  results'[i] = "error"
      <4>1. CASE i \in DOMAIN results
        BY <3>1, <3>2, <3>4, <4>1
      <4>2. CASE i = Len(results) + 1
        BY <2>2, <3>2, <3>4, <4>2
      <4> QED BY <3>1, <3>2, <3>4, <4>1, <4>2
    <3> QED BY <3>1, <3>2, <3>3, <3>4 DEF ResultsFit
  <2> QED BY <1>6, <2>3 DEF RunCheck
<1>7. CASE RemoveCopy
  BY <1>7 DEF RemoveCopy, ResultsFit
<1>8. CASE Judge
  BY <1>8, VerifiedPassed DEF Judge, ResultsFit, FixVerdict
<1>9. CASE UNCHANGED fixVars
  BY <1>9 DEF fixVars, ResultsFit
<1> QED BY <1>1, <1>2, <1>3, <1>4, <1>5, <1>6, <1>7, <1>8, <1>9 DEF FixNext, FixStep, FixCall

\* A fix is called verified only when its patch was applied, the +++ lines
\* of its diff name the file of the finding alone and every re-test passed, a
\* static and a runtime one among them, and no copy outlives its
\* verification (fix_verification/service.py).
THEOREM VerifiedFixes == FixSpec => []VerifiedIsEarned
<1>1. FixInit => FixInv
  <2> SUFFICES ASSUME FixInit PROVE FixInv
    OBVIOUS
  <2>1. ResultsFit
    BY DEF FixInit, ResultsFit
  <2> QED BY <2>1 DEF FixInit, FixInv, VerifiedIsEarned
<1>2. FixInv => VerifiedIsEarned
  BY DEF FixInv
<1> QED BY <1>1, <1>2, FixInvInductive, PTL DEF FixSpec

---------------------------------------------------------------------------
\* ProjectImport

\* What each stage of a request has behind it.
ImportInv ==
    /\ ImportTypeOK
    /\ \A u \in Uploads :
          /\ importing[u] \in {"discover", "profile", "register", "store", "answer"} => files[u] = "all"
          /\ importing[u] \in {"register", "store", "answer"} => profiles[u] = "written"
          /\ importing[u] \in {"store", "answer"} => u \in registry
          /\ importing[u] = "answer" => u \in projects
          /\ told[u] = "imported" => importing[u] = "ended"
    /\ AnsweredIsKept

LEMMA ImportInvInductive == ImportInv /\ [ImportNext]_importVars => ImportInv'
<1> SUFFICES ASSUME ImportInv, [ImportNext]_importVars
             PROVE  ImportInv'
  OBVIOUS
<1> USE DEF ImportInv, ImportTypeOK, AnsweredIsKept
<1>1. ASSUME NEW u \in Uploads, NEW c \in Contents, Receive(u, c)
      PROVE  ImportInv'
  BY <1>1 DEF Receive, At, GoTo, Tell, Disk
<1>2. ASSUME NEW u \in Uploads, MakeWorkspace(u)
      PROVE  ImportInv'
  BY <1>2 DEF MakeWorkspace, At, GoTo, Tell
<1>3. ASSUME NEW u \in Uploads, Unpack(u)
      PROVE  ImportInv'
  BY <1>3 DEF Unpack, At, GoTo
<1>4. ASSUME NEW u \in Uploads, Discover(u)
      PROVE  ImportInv'
  BY <1>4 DEF Discover, At, GoTo, Disk
<1>5. ASSUME NEW u \in Uploads, WriteProfile(u)
      PROVE  ImportInv'
  BY <1>5 DEF WriteProfile, At, GoTo
<1>6. ASSUME NEW u \in Uploads, Register(u)
      PROVE  ImportInv'
  BY <1>6 DEF Register, At, GoTo, Disk
<1>7. ASSUME NEW u \in Uploads, Store(u)
      PROVE  ImportInv'
  BY <1>7 DEF Store, At, GoTo, Disk
<1>8. ASSUME NEW u \in Uploads, AnswerUpload(u)
      PROVE  ImportInv'
  BY <1>8 DEF AnswerUpload, At, GoTo, Tell, Disk
<1>9. ASSUME NEW u \in Uploads, Discard(u)
      PROVE  ImportInv'
  BY <1>9 DEF Discard, At, GoTo, Tell
<1>10. CASE Restart
  <2>1. PICK read \in [Uploads -> BOOLEAN] :
           /\ \A u \in Uploads : read[u] \in Readable(u)
           /\ registry' = LoadGeneratedProjects(read)
    BY <1>10 DEF Restart
  <2>2. /\ starts' \in 1 .. MaxStarts
        /\ projects' = projects \cup registry'
        /\ importing' = [u \in Uploads |-> IF At(u, "none") THEN "none" ELSE "ended"]
        /\ UNCHANGED <<contents, files, profiles, told>>
    BY <1>10, ImportBounds DEF Restart, Disk
  <2>3. registry' \subseteq Uploads
    BY <2>1 DEF LoadGeneratedProjects
  <2>4. ASSUME NEW u \in Uploads, told[u] = "imported"
        PROVE  u \in registry'
    <3>1. Readable(u) = {TRUE}
      BY <2>4 DEF Readable
    <3> QED BY <2>1, <3>1 DEF LoadGeneratedProjects
  <2> QED BY <2>2, <2>3, <2>4 DEF At
<1>11. CASE UNCHANGED importVars
  BY <1>11 DEF importVars
<1>12. CASE ImportCall
  <2>1. ASSUME NEW u \in Uploads, BrowserImports(u)
        PROVE  ImportInv'
    BY <2>1, <1>1 DEF BrowserImports, Collected
  <2> QED BY <1>1, <1>12, <2>1 DEF ImportCall
<1> QED
  BY <1>2, <1>3, <1>4, <1>5, <1>6, <1>7, <1>8, <1>9, <1>10, <1>11, <1>12 DEF ImportNext, ImportStep

LEMMA ImportInvInit == ImportInit => ImportInv
<1>1. Nothing \in Contents
  BY DEF Nothing, Contents
<1> QED BY <1>1, ImportBounds DEF ImportInit, ImportInv, ImportTypeOK, AnsweredIsKept

\* A project whose import was answered is listed, registered and whole, now
\* and after any number of crashes (api/service.py).
THEOREM ImportsAreKept == ImportSpec => []AnsweredIsKept
<1>1. ImportInit => ImportInv
  BY ImportInvInit
<1>2. ImportInv => AnsweredIsKept
  BY DEF ImportInv
<1> QED BY <1>1, <1>2, ImportInvInductive, PTL DEF ImportSpec

---------------------------------------------------------------------------
\* RunTimeline

\* Findings that are done: those before the one in work, and this one
\* between its report and the next finding.
DoneCount == index - 1 + (IF working = "reported" THEN 1 ELSE 0)

\* Times do not run ahead of the clock; the end of the run is the last.
TimesFit ==
    /\ \A f \in Findings : stamps[f] <= now
    /\ finishedAt # 0 => working = "finished" /\ \A f \in Findings : stamps[f] <= finishedAt

\* Only findings that are done have finished, and without a lost line the
\* file has them all, ends with the start of the one in work, and between
\* findings has a finish after every start.
FileFits ==
    /\ \A i \in DOMAIN events : events[i].kind = "finding_finished" => events[i].finding <= DoneCount
    /\ ~missed =>
          /\ \A f \in 1 .. DoneCount : \E i \in DOMAIN events :
                events[i].kind = "finding_finished" /\ events[i].finding = f
          /\ working = "started" =>
                /\ Len(events) > 0
                /\ events[Len(events)] = [kind |-> "finding_started", finding |-> index]
          /\ working # "started" => \A i \in DOMAIN events : events[i].kind = "finding_started" =>
                \E j \in DOMAIN events : i < j /\ events[j].kind = "finding_finished"

TimelineInv ==
    /\ TimelineTypeOK
    /\ working = "stages" => events = <<>> /\ index = 1 /\ ~missed
    /\ working \in {"started", "reported"} => index \in Findings
    /\ working \in {"gate", "summary", "finished"} => index = Total + 1
    /\ TimesFit
    /\ FileFits

LEMMA AppendsOne ==
    ASSUME TimelineTypeOK, NEW kind \in {"finding_started", "finding_finished"}, Appends(kind), index \in Findings
    PROVE  /\ events' \in Seq(ProgressEvents)
           /\ missed' \in BOOLEAN
           /\ missed => missed'
           /\ \/ events' = events /\ missed'
              \/ /\ missed' = missed
                 /\ Len(events') = Len(events) + 1
                 /\ events'[Len(events')] = [kind |-> kind, finding |-> index]
                 /\ \A i \in DOMAIN events : i \in DOMAIN events' /\ events'[i] = events[i]
                 /\ \A i \in DOMAIN events' : i \in DOMAIN events \/ i = Len(events')
<1> DEFINE e == [kind |-> kind, finding |-> index]
<1>1. events \in Seq(ProgressEvents) /\ e \in ProgressEvents /\ missed \in BOOLEAN
  BY DEF TimelineTypeOK, ProgressEvents
<1>2. CASE events' = Append(events, e) /\ UNCHANGED missed
  <2> HIDE DEF e
  <2>1. /\ events' \in Seq(ProgressEvents)
        /\ Len(events) \in Nat
        /\ Len(events') = Len(events) + 1
        /\ events'[Len(events) + 1] = e
        /\ DOMAIN events = 1 .. Len(events)
        /\ DOMAIN events' = 1 .. Len(events) + 1
        /\ \A i \in DOMAIN events : events'[i] = events[i]
    BY <1>1, <1>2
  <2>2. \A i \in DOMAIN events' : i \in DOMAIN events \/ i = Len(events')
    BY <2>1
  <2>3. events'[Len(events')] = e /\ \A i \in DOMAIN events : i \in DOMAIN events' /\ events'[i] = events[i]
    BY <2>1
  <2>4. missed' = missed
    BY <1>2
  <2> QED BY <1>1, <2>1, <2>2, <2>3, <2>4 DEF e
<1>3. CASE missed' = TRUE /\ UNCHANGED events
  BY <1>1, <1>3
<1> QED BY <1>2, <1>3 DEF Appends

LEMMA AppendKeepsFile ==
    ASSUME TimelineInv, NEW kind \in {"finding_started", "finding_finished"}, Appends(kind), index \in Findings,
           index' \in {index, index + 1},
           kind = "finding_started" => working = "idle" /\ working' = "started" /\ index' = index,
           kind = "finding_finished" => working' # "started" /\ DoneCount' = index
    PROVE  FileFits'
<1>1. /\ index \in Nat /\ index' \in Nat /\ DoneCount \in Nat /\ DoneCount' \in Nat
      /\ DoneCount <= DoneCount'
      /\ kind = "finding_started" => DoneCount' = DoneCount
      /\ DoneCount \in {index - 1, index}
  <2>1. index \in Nat \ {0} /\ index' \in Nat
    BY TimelineBounds DEF Findings
  <2>2. DoneCount \in {index - 1, index}
    BY <2>1 DEF DoneCount
  <2>3. kind = "finding_started" => DoneCount' = DoneCount
    BY <2>1 DEF DoneCount
  <2> QED BY <2>1, <2>2, <2>3
<1>2. /\ events \in Seq(ProgressEvents) /\ events' \in Seq(ProgressEvents)
      /\ missed' \in BOOLEAN
      /\ missed => missed'
  BY AppendsOne DEF TimelineInv, TimelineTypeOK
<1>3. \A i \in DOMAIN events : events[i].finding \in Nat
  <2> TAKE i \in DOMAIN events
  <2>1. events[i] \in ProgressEvents
    BY <1>2
  <2> QED BY <2>1, TimelineBounds DEF ProgressEvents, Findings
<1>4. CASE events' = events /\ missed'
  <2> SUFFICES ASSUME NEW i \in DOMAIN events, events[i].kind = "finding_finished"
               PROVE  events[i].finding <= DoneCount'
    BY <1>4 DEF FileFits
  <2> QED BY <1>1, <1>3 DEF TimelineInv, FileFits
<1>5. CASE /\ missed' = missed
           /\ Len(events') = Len(events) + 1
           /\ events'[Len(events')] = [kind |-> kind, finding |-> index]
           /\ \A i \in DOMAIN events : i \in DOMAIN events' /\ events'[i] = events[i]
           /\ \A i \in DOMAIN events' : i \in DOMAIN events \/ i = Len(events')
  <2>1. Len(events) \in Nat /\ Len(events') \in DOMAIN events' /\ Len(events') > 0
    BY <1>2, <1>5
  <2>2. ASSUME NEW i \in DOMAIN events', events'[i].kind = "finding_finished"
        PROVE  events'[i].finding <= DoneCount'
    <3>1. CASE i \in DOMAIN events
      BY <1>1, <1>3, <1>5, <2>2, <3>1 DEF TimelineInv, FileFits
    <3>2. CASE i = Len(events')
      BY <1>1, <1>5, <2>2, <3>2
    <3> QED BY <1>5, <2>2, <3>1, <3>2
  <2>3. ASSUME ~missed', NEW f \in 1 .. DoneCount'
        PROVE  \E i \in DOMAIN events' : events'[i].kind = "finding_finished" /\ events'[i].finding = f
    <3>1. CASE f \in 1 .. DoneCount
      <4>1. PICK i \in DOMAIN events : events[i].kind = "finding_finished" /\ events[i].finding = f
        BY <1>2, <2>3, <3>1 DEF TimelineInv, FileFits
      <4> QED BY <1>5, <4>1
    <3>2. CASE f \notin 1 .. DoneCount
      <4>1. kind = "finding_finished" /\ f = index
        BY <1>1, <2>3, <3>2
      <4> QED BY <1>5, <2>1, <4>1
    <3> QED BY <3>1, <3>2
  <2>4. working' = "started" => events'[Len(events')] = [kind |-> "finding_started", finding |-> index']
    BY <1>5
  <2>5. ASSUME working' # "started", NEW i \in DOMAIN events', events'[i].kind = "finding_started"
        PROVE  \E j \in DOMAIN events' : i < j /\ events'[j].kind = "finding_finished"
    <3>1. kind = "finding_finished"
      BY <2>5
    <3>2. i \in DOMAIN events /\ i < Len(events')
      BY <1>2, <1>5, <2>5, <3>1
    <3> QED BY <1>5, <2>1, <3>1, <3>2
  <2> QED BY <2>1, <2>2, <2>3, <2>4, <2>5 DEF FileFits
<1> QED BY <1>4, <1>5, AppendsOne DEF TimelineInv

\* An event of a stage more.
LEMMA StageAppended ==
    ASSUME TimelineTypeOK, events' \in {events, Append(events, StageEvent)}
    PROVE  /\ events' \in Seq(ProgressEvents)
           /\ \A i \in DOMAIN events : i \in DOMAIN events' /\ events'[i] = events[i]
           /\ \A i \in DOMAIN events' : events'[i].kind # "stage" => i \in DOMAIN events
<1>1. events \in Seq(ProgressEvents) /\ StageEvent \in ProgressEvents /\ StageEvent.kind = "stage"
  BY DEF TimelineTypeOK, ProgressEvents, StageEvent
<1> HIDE DEF ProgressEvents, StageEvent
<1>2. CASE events' = events
  BY <1>1, <1>2
<1>3. CASE events' = Append(events, StageEvent)
  <2>1. /\ events' \in Seq(ProgressEvents)
        /\ DOMAIN events = 1 .. Len(events) /\ Len(events) \in Nat
        /\ DOMAIN events' = 1 .. Len(events) + 1
        /\ \A i \in DOMAIN events : events'[i] = events[i]
        /\ events'[Len(events) + 1] = StageEvent
    BY <1>1, <1>3
  <2> QED BY <1>1, <2>1
<1> QED BY <1>2, <1>3

LEMMA TimelineInvInductive == TimelineInv /\ [TimelineNext]_timelineVars => TimelineInv'
<1> SUFFICES ASSUME TimelineInv, [TimelineNext]_timelineVars
             PROVE  TimelineInv'
  OBVIOUS
<1> USE TimelineBounds DEF StartedAt
\* Steps that append nothing, start no finding, and end none.
<1>1. ASSUME UNCHANGED <<events, missed>>, DoneCount' = DoneCount,
             \/ working' = working /\ index' = index
             \/ working # "started" /\ working' # "started"
      PROVE  FileFits'
  BY <1>1 DEF TimelineInv, FileFits
<1>12. CASE AnnounceStages
  <2>1. PICK n \in 0 .. Stages : events' = [i \in 1 .. n |-> StageEvent]
    BY <1>12 DEF AnnounceStages
  <2>2. /\ working' = "idle" /\ UNCHANGED <<now, missed, index, stamps, reported, summaryAt, finishedAt>>
        /\ ~missed /\ index = 1
    BY <1>12 DEF AnnounceStages, TimelineInv
  <2>3. StageEvent \in ProgressEvents /\ StageEvent.kind = "stage"
    BY DEF ProgressEvents, StageEvent
  <2>4. events' \in Seq(ProgressEvents) /\ \A i \in DOMAIN events' : events'[i].kind = "stage"
    <3> HIDE DEF StageEvent, ProgressEvents
    <3> QED BY <2>1, <2>3
  <2>5. DoneCount' = 0
    BY <2>2 DEF DoneCount
  <2>6. FileFits'
    BY <2>2, <2>4, <2>5 DEF FileFits
  <2> QED BY <2>2, <2>4, <2>6, <1>12 DEF AnnounceStages, TimelineInv, TimelineTypeOK, TimesFit
<1>2. CASE StartFinding
  <2>1. index \in Findings /\ working = "idle" /\ working' = "started" /\ index' = index
        /\ Appends("finding_started")
    BY <1>2 DEF StartFinding
  <2>2. FileFits'
    BY <2>1, AppendKeepsFile
  <2>3. TimelineTypeOK'
    BY <1>2, <2>1, AppendsOne DEF StartFinding, TimelineInv, TimelineTypeOK
  <2> QED BY <1>2, <2>1, <2>2, <2>3 DEF StartFinding, TimelineInv, TimesFit
<1>3. CASE Report
  <2>1. index \in Findings /\ working = "started" /\ working' = "reported" /\ index' = index
        /\ Appends("finding_finished")
    BY <1>3 DEF Report, TimelineInv
  <2>2. FileFits'
    BY <2>1, AppendKeepsFile DEF DoneCount, Findings
  <2>3. TimelineTypeOK'
    BY <1>3, <2>1, AppendsOne DEF Report, TimelineInv, TimelineTypeOK
  <2> QED BY <1>3, <2>1, <2>2, <2>3 DEF Report, TimelineInv, TimesFit
<1>4. CASE FindingFails
  <2>1. index \in Findings /\ working' = "idle" /\ index' = index + 1 /\ Appends("finding_finished")
    BY <1>4 DEF FindingFails, TimelineInv
  <2>2. FileFits'
    BY <2>1, AppendKeepsFile DEF DoneCount, Findings
  <2>3. TimelineTypeOK'
    BY <1>4, <2>1, AppendsOne DEF FindingFails, TimelineInv, TimelineTypeOK, Findings
  <2> QED BY <1>4, <2>1, <2>2, <2>3 DEF FindingFails, TimelineInv, TimesFit
<1>5. CASE Stamp
  <2>1. index' = index /\ working' = working /\ UNCHANGED <<events, missed>>
    BY <1>5 DEF Stamp
  <2>2. DoneCount' = DoneCount
    BY <2>1 DEF DoneCount
  <2>3. FileFits'
    BY <2>1, <2>2 DEF TimelineInv, FileFits
  <2>4. now \in Nat /\ now \in 0 .. MaxClock /\ finishedAt = 0
    BY <1>5 DEF Stamp, TimelineInv, TimelineTypeOK, TimesFit
  <2> QED BY <1>5, <2>1, <2>3, <2>4 DEF Stamp, TimelineInv, TimelineTypeOK, TimesFit
<1>6. CASE NextFinding
  BY <1>1, <1>6 DEF NextFinding, TimelineInv, TimelineTypeOK, TimesFit, DoneCount, Findings
<1>7. CASE WriteGate
  <2>1. /\ working = "idle" /\ working' = "gate" /\ UNCHANGED <<now, missed, index, stamps, reported, summaryAt, finishedAt>>
        /\ index = Total + 1
    BY <1>7 DEF WriteGate, TimelineInv, TimelineTypeOK, Findings
  <2>2. /\ events' \in Seq(ProgressEvents)
        /\ \A i \in DOMAIN events : i \in DOMAIN events' /\ events'[i] = events[i]
        /\ \A i \in DOMAIN events' : events'[i].kind # "stage" => i \in DOMAIN events
    BY <1>7, StageAppended DEF WriteGate, TimelineInv
  <2>3. DoneCount' = DoneCount
    BY <2>1 DEF DoneCount
  <2>4. FileFits'
    <3>1. \A i \in DOMAIN events' : events'[i].kind = "finding_finished" => events'[i].finding <= DoneCount'
      BY <2>2, <2>3 DEF TimelineInv, FileFits
    <3>2. ASSUME ~missed, NEW f \in 1 .. DoneCount
          PROVE  \E i \in DOMAIN events' : events'[i].kind = "finding_finished" /\ events'[i].finding = f
      BY <2>2, <3>2 DEF TimelineInv, FileFits
    <3>3. ASSUME ~missed, NEW i \in DOMAIN events', events'[i].kind = "finding_started"
          PROVE  \E j \in DOMAIN events' : i < j /\ events'[j].kind = "finding_finished"
      <4>1. i \in DOMAIN events /\ events[i].kind = "finding_started"
        BY <2>2, <3>3
      <4>2. PICK j \in DOMAIN events : i < j /\ events[j].kind = "finding_finished"
        BY <2>1, <3>3, <4>1 DEF TimelineInv, FileFits
      <4> QED BY <2>2, <4>2
    <3> QED BY <2>1, <2>3, <3>1, <3>2, <3>3 DEF FileFits
  <2> QED BY <2>1, <2>2, <2>4 DEF TimelineInv, TimelineTypeOK, TimesFit
<1>8. CASE PostSummary
  BY <1>1, <1>8 DEF PostSummary, TimelineInv, TimelineTypeOK, TimesFit, DoneCount, Findings
<1>9. CASE FinishRun
  BY <1>1, <1>9 DEF FinishRun, TimelineInv, TimelineTypeOK, TimesFit, DoneCount, Findings
<1>10. CASE Tick
  <2>1. index' = index /\ working' = working /\ UNCHANGED <<events, missed>>
    BY <1>10 DEF Tick
  <2>2. DoneCount' = DoneCount
    BY <2>1 DEF DoneCount
  <2>3. FileFits'
    BY <2>1, <2>2 DEF TimelineInv, FileFits
  <2>4. now \in Nat /\ \A f \in Findings : stamps[f] \in Nat
    BY DEF TimelineInv, TimelineTypeOK
  <2> QED BY <1>10, <2>1, <2>3, <2>4 DEF Tick, TimelineInv, TimelineTypeOK, TimesFit
<1>11. CASE UNCHANGED timelineVars
  <2>1. index' = index /\ working' = working /\ UNCHANGED <<events, missed>>
    BY <1>11 DEF timelineVars
  <2>2. DoneCount' = DoneCount
    BY <2>1 DEF DoneCount
  <2>3. FileFits'
    BY <2>1, <2>2 DEF TimelineInv, FileFits
  <2> QED BY <1>11, <2>1, <2>3 DEF timelineVars, TimelineInv, TimelineTypeOK, TimesFit
<1> QED BY <1>2, <1>3, <1>4, <1>5, <1>6, <1>7, <1>8, <1>9, <1>10, <1>11, <1>12 DEF TimelineNext, TimelineStep

LEMMA TimelineInvInit == TimelineInit => TimelineInv
<1> SUFFICES ASSUME TimelineInit PROVE TimelineInv
  OBVIOUS
<1>1. TimelineTypeOK
  <2>1. MaxClock \in Nat \ {0} /\ Total \in Nat
    BY TimelineBounds
  <2>2. events \in Seq(ProgressEvents)
    BY DEF TimelineInit
  <2>3. index \in 1 .. Total + 1 /\ now \in StartedAt .. MaxClock
    BY <2>1 DEF TimelineInit, StartedAt
  <2>4. stamps \in [Findings -> 0 .. MaxClock] /\ {summaryAt, finishedAt} \subseteq 0 .. MaxClock
    BY <2>1 DEF TimelineInit
  <2> QED BY <2>2, <2>3, <2>4 DEF TimelineInit, TimelineTypeOK
<1>2. DoneCount = 0
  BY DEF TimelineInit, DoneCount
<1>3. FileFits
  BY <1>2 DEF TimelineInit, FileFits
<1>4. TimesFit
  BY DEF TimelineInit, TimesFit, StartedAt
<1> QED BY <1>1, <1>3, <1>4 DEF TimelineInit, TimelineInv

\* Of a finished run, every card of a finding comes before the gate and the
\* gate before the summary (frontend/src/lib/timeline.ts).
THEOREM GateComesLast == TimelineSpec => []GateIsLast
<1>1. TimelineInv => GateIsLast
  <2> SUFFICES ASSUME TimelineInv, finishedAt # 0
               PROVE  /\ \A f \in reported : FindingCard(f) < GateCard
                      /\ GateCard < SummaryCard
    BY DEF GateIsLast
  <2>1. finishedAt \in Nat /\ summaryAt \in Nat /\ reported \subseteq Findings
        /\ \A f \in Findings : stamps[f] \in Nat /\ stamps[f] <= finishedAt
    BY TimelineBounds DEF TimelineInv, TimelineTypeOK, TimesFit
  <2> QED BY <2>1 DEF FindingCard, GateCard, SummaryCard, FinishedOr
<1> QED BY <1>1, TimelineInvInit, TimelineInvInductive, PTL DEF TimelineSpec

\* What read_progress returns is an end of the file, or all of it.
LEMMA ShownIsASuffix ==
    ASSUME TimelineInv
    PROVE  /\ Len(Shown) \in Nat /\ DOMAIN Shown = 1 .. Len(Shown)
           /\ \A i \in DOMAIN Shown : \E j \in DOMAIN events : Shown[i] = events[j]
           /\ Len(events) <= Window => Shown = events
<1>1. events \in Seq(ProgressEvents) /\ Window \in Nat
  BY TimelineBounds DEF TimelineInv, TimelineTypeOK
<1> DEFINE from == IF Len(events) > Window THEN Len(events) - Window ELSE 0
<1>2. from \in Nat /\ from <= Len(events) /\ Len(events) \in Nat
  BY <1>1
<1> HIDE DEF from
<1>3. /\ SubSeq(events, from + 1, Len(events)) \in Seq(ProgressEvents)
      /\ Len(SubSeq(events, from + 1, Len(events))) = Len(events) - from
      /\ \A i \in 1 .. Len(events) - from : SubSeq(events, from + 1, Len(events))[i] = events[from + i]
  BY <1>1, <1>2
<1>4. Shown = SubSeq(events, from + 1, Len(events))
  BY DEF Shown, from
<1>5. \A i \in DOMAIN Shown : \E j \in DOMAIN events : Shown[i] = events[j]
  <2> TAKE i \in DOMAIN Shown
  <2>1. i \in 1 .. Len(events) - from /\ from + i \in DOMAIN events
    BY <1>1, <1>2, <1>3, <1>4
  <2> QED BY <1>3, <1>4, <2>1
<1>6. ASSUME Len(events) <= Window
      PROVE  Shown = events
  <2>1. from = 0
    BY <1>1, <1>2, <1>6 DEF from
  <2> QED BY <1>1, <1>2, <1>3, <1>4, <2>1
<1> QED BY <1>1, <1>2, <1>3, <1>4, <1>5, <1>6

\* While a finding is in work, and no line is lost, the last line is news.
LEMMA StartedIsNews ==
    ASSUME TimelineInv, ~missed, working = "started", Shown = events
    PROVE  /\ Len(events) \in DOMAIN Shown
           /\ Shown[Len(events)] = [kind |-> "finding_started", finding |-> index]
           /\ ~Has(Shown[Len(events)].finding, "finding_finished", Len(events))
<1>1. Len(events) \in Nat /\ DOMAIN events = 1 .. Len(events)
  BY DEF TimelineInv, TimelineTypeOK
<1>2. Len(events) > 0 /\ events[Len(events)] = [kind |-> "finding_started", finding |-> index]
  BY DEF TimelineInv, FileFits
<1>3. index \in Nat /\ DoneCount = index - 1
  BY TimelineBounds DEF TimelineInv, TimelineTypeOK, DoneCount
<1>4. ~Has(index, "finding_finished", Len(events))
  BY <1>1, <1>3 DEF Has, TimelineInv, FileFits
<1> QED BY <1>1, <1>2, <1>4

\* The count of progress never exceeds the findings that are done; with
\* every line in view it is exact, and so is the current finding
\* (pipeline/progress.py, api/service.py).
THEOREM ProgressTellsTheTruth == TimelineSpec => []ProgressIsTrue
<1>1. TimelineInv => ProgressIsTrue
  <2> SUFFICES ASSUME TimelineInv
               PROVE  ProgressIsTrue
    OBVIOUS
  <2> DEFINE done == {f \in Findings : Has(f, "finding_finished", Len(Shown))}
  <2>1. DoneCount \in Nat /\ DoneCount <= Total /\ index \in Nat
    BY TimelineBounds DEF TimelineInv, TimelineTypeOK, DoneCount, Findings
  <2>2. done \subseteq 1 .. DoneCount
    <3> SUFFICES ASSUME NEW f \in Findings, NEW i \in 1 .. Len(Shown),
                        Shown[i].finding = f, Shown[i].kind = "finding_finished"
                 PROVE  f \in 1 .. DoneCount
      BY DEF Has
    <3>1. PICK j \in DOMAIN events : Shown[i] = events[j]
      BY ShownIsASuffix
    <3> QED BY <2>1, <3>1 DEF TimelineInv, FileFits, Findings
  <2>3. IsFiniteSet(1 .. DoneCount) /\ Cardinality(1 .. DoneCount) = DoneCount
    BY <2>1, FS_Interval
  <2>4. FindingsDone <= DoneCount
    BY <2>2, <2>3, FS_Subset DEF FindingsDone
  <2>5. ASSUME ~missed, Len(events) <= Window
        PROVE  /\ FindingsDone = DoneCount
               /\ CurrentFinding = IF working = "started" THEN index ELSE 0
    <3>1. Shown = events /\ Len(events) \in Nat /\ DOMAIN events = 1 .. Len(events)
      BY <2>5, ShownIsASuffix
    <3>2. 1 .. DoneCount \subseteq done
      BY <2>1, <2>5, <3>1, TimelineBounds DEF TimelineInv, FileFits, Has, Findings
    <3>3. FindingsDone = DoneCount
      BY <2>2, <2>3, <3>2 DEF FindingsDone
    <3> DEFINE news == {i \in DOMAIN Shown :
                           \/ Shown[i].kind = "finding_finished"
                           \/ /\ Shown[i].kind = "finding_started"
                              /\ ~Has(Shown[i].finding, "finding_finished", i)}
               latest == CHOOSE i \in news : \A j \in news : j <= i
    <3>4. news \subseteq 1 .. Len(events)
      BY <3>1
    <3>5. CurrentFinding = IF news = {} \/ Shown[latest].kind = "finding_finished" THEN 0 ELSE Shown[latest].finding
      BY DEF CurrentFinding
    <3>6. CASE news = {}
      <4>1. working # "started"
        <5> SUFFICES ASSUME working = "started" PROVE FALSE
          OBVIOUS
        <5> QED BY <2>5, <3>1, <3>6, StartedIsNews
      <4> QED BY <3>3, <3>5, <3>6, <4>1
    <3>7. CASE news # {}
      <4>1. latest \in news /\ \A j \in news : j <= latest
        <5> HIDE DEF news
        <5>1. \E i \in news : \A j \in news : j <= i
          <6>1. news \in SUBSET Nat /\ \A k \in news : k <= Len(events)
            BY <3>1, <3>4
          <6> QED BY <3>1, <3>7, <6>1, GreatestNumber
        <5> QED BY <5>1
      <4>2. CASE working = "started"
        <5>1. Len(events) \in news /\ Shown[Len(events)] = [kind |-> "finding_started", finding |-> index]
          BY <2>5, <3>1, <4>2, StartedIsNews
        <5> HIDE DEF news, latest
        <5>2. latest = Len(events)
          <6>1. latest \in 1 .. Len(events) /\ Len(events) <= latest
            BY <3>4, <4>1, <5>1
          <6>2. \A m \in 1 .. Len(events) : Len(events) <= m => m = Len(events)
            <7>1. Len(events) \in Nat
              BY <3>1
            <7> QED BY <7>1
          <6> QED BY <6>1, <6>2
        <5> QED BY <3>3, <3>5, <3>7, <4>2, <5>1, <5>2
      <4>3. CASE working # "started"
        <5>1. Shown[latest].kind = "finding_finished"
          <6> SUFFICES ASSUME Shown[latest].kind # "finding_finished" PROVE FALSE
            OBVIOUS
          <6>1. latest \in DOMAIN events /\ events[latest].kind = "finding_started"
            BY <3>1, <4>1
          <6>2. PICK j \in DOMAIN events : latest < j /\ events[j].kind = "finding_finished"
            <7> HIDE DEF news, latest
            <7> QED BY <2>5, <4>3, <6>1 DEF TimelineInv, FileFits
          <6>3. j \in news
            BY <3>1, <6>2
          <6>4. j \in Nat /\ latest \in Nat
            <7> HIDE DEF news, latest
            <7> QED BY <3>1, <6>1
          <6> HIDE DEF news, latest
          <6> QED BY <4>1, <6>2, <6>3, <6>4
        <5> HIDE DEF news, latest
        <5> QED BY <3>3, <3>5, <4>3, <5>1
      <4> QED BY <4>2, <4>3
    <3> QED BY <3>6, <3>7
  <2> QED BY <2>4, <2>5 DEF ProgressIsTrue, DoneCount
<1> QED BY <1>1, TimelineInvInit, TimelineInvInductive, PTL DEF TimelineSpec

---------------------------------------------------------------------------
\* SandboxSession and AgentLab

ComposeSteps == {"prepare", "up", "down_between", "up_again", "wait", "collect", "down", "remove", "verify"}

ImageSteps == {"build", "run", "health", "rm_container", "rm_image"}

\* Each adapter has its own commands, and what it creates.  Only Compose
\* has a network for others, and as long as one of them is there the
\* network is: docker does not remove it, so the teardown cannot miss them.
CleanInv ==
    /\ live \subseteq Kinds
    /\ pc \in ComposeSteps => adapter = "docker_compose"
    /\ pc \in ImageSteps => adapter # "docker_compose"
    /\ pc = "new" => step = "map" /\ live = {} /\ guests = {} /\ sstatus # "closed"
    /\ pc \in {"wait", "collect"} => "network" \in live
    /\ pc = "ready" /\ adapter = "docker_compose" => "network" \in live
    /\ step \notin {"map", "leave"} => adapter = "docker_compose"
    /\ guests # {} => "network" \in live /\ pc \in {"ready", "down", "remove", "verify", "over"}
    /\ sstatus = "closed" => pc = "over"
    /\ ClosedIsClean

LEMMA NetworkIsOfCompose == CleanInv /\ "network" \in live => adapter = "docker_compose"
BY DEF CleanInv, Kinds

\* What a body may add to the network of its session.
LEMMA BodyKeepsClean ==
    ASSUME CleanInv, SessionKept, pc = "ready",
           guests' # {} => guests # {} \/ adapter = "docker_compose",
           step' \notin {"map", "leave"} => adapter = "docker_compose"
    PROVE  CleanInv'
BY DEF CleanInv, SessionKept, Kinds, ComposeSteps, ImageSteps, ClosedIsClean

\* A step of a start: it fails into the teardown, or goes on.
LEMMA StartKeepsClean ==
    ASSUME CleanInv, NEW o, pc \in Preparing, live' \subseteq Kinds, guests = {}, StartFails(o), UNCHANGED labVars
    PROVE  CleanInv'
BY DEF CleanInv, StartFails, FirstOfTeardown, Kinds, ComposeSteps, ImageSteps, ClosedIsClean, Preparing, labVars,
       Goes

LEMMA ContinueKeepsClean ==
    ASSUME CleanInv, NEW to, NEW sstatus1, pc \in Preparing, live' \subseteq Kinds, guests = {},
           Continue(to, sstatus1) \/ (Goes(to) /\ sstatus1 = sstatus
              /\ UNCHANGED <<adapter, phase, sstatus, closed, tornDown, doubt, failure, cancelled, guests, dir>>),
           UNCHANGED labVars, sstatus1 # "closed",
           to \in ComposeSteps => adapter = "docker_compose",
           to \in ImageSteps => adapter # "docker_compose",
           to # "new",
           to \in {"wait", "collect"} => "network" \in live',
           to = "ready" /\ adapter = "docker_compose" => "network" \in live'
    PROVE  CleanInv'
BY DEF CleanInv, Continue, Goes, Kinds, ComposeSteps, ImageSteps, ClosedIsClean, Preparing, labVars

\* A command of a teardown: the network stays as long as others are in it.
LEMMA TeardownKeepsClean ==
    ASSUME CleanInv, pc \in {"down", "remove", "verify", "rm_container", "rm_image"},
           live' \subseteq live, guests # {} => "network" \in live',
           UNCHANGED <<adapter, guests, step>>, sstatus' # "closed",
           pc' \in {"down", "remove", "verify", "rm_container", "rm_image", "over"},
           pc' \in ComposeSteps => adapter = "docker_compose",
           pc' \in ImageSteps => adapter # "docker_compose"
    PROVE  CleanInv'
BY DEF CleanInv, Kinds, ComposeSteps, ImageSteps, ClosedIsClean

LEMMA CleanInvInductive == CleanInv /\ [SandboxNext]_sandboxVars => CleanInv'
<1> SUFFICES ASSUME CleanInv, [SandboxNext]_sandboxVars
             PROVE  CleanInv'
  OBVIOUS
<1>1. ASSUME NEW a \in Adapters, Open(a) \/ OpenFails(a) \/ CopyFails, UNCHANGED labVars
      PROVE  CleanInv'
  BY <1>1
     DEF CleanInv, Open, OpenFails, CopyFails, Goes, Kinds, ComposeSteps, ImageSteps, ClosedIsClean, labVars
<1>2. CASE CancelSession /\ UNCHANGED labVars
  BY <1>2 DEF CleanInv, CancelSession, Kinds, ComposeSteps, ImageSteps, ClosedIsClean, labVars
<1>3. ASSUME NEW why, LeaveSession(why), UNCHANGED labVars
      PROVE  CleanInv'
  BY <1>3, NetworkIsOfCompose
     DEF CleanInv, LeaveSession, FirstOfTeardown, Goes, Kinds, ComposeSteps, ImageSteps, ClosedIsClean, labVars
<1>4. CASE SessionStep /\ UNCHANGED labVars
  <2>1. pc \in Preparing => guests = {} /\ sstatus # "closed"
    BY DEF CleanInv, Preparing
  <2>2. pc \in TearingDown => sstatus # "closed"
    BY DEF CleanInv, TearingDown
  <2>3. CASE Prepare
    BY <1>4, <2>1, <2>3, StartKeepsClean, ContinueKeepsClean
       DEF Prepare, Preparing, CleanInv, ComposeSteps, ImageSteps, Continue
  <2>4. CASE Up
    <3>1. adapter = "docker_compose" /\ pc \in Preparing /\ Kinds = {"container", "network", "volume"}
      BY <2>4 DEF Up, CleanInv, ComposeSteps, Preparing, Kinds
    <3>2. PICK o \in Outcomes :
             /\ live' \in IF o = "ok" THEN {Kinds} ELSE SUBSET Kinds
             /\ CASE o = "ok" -> Continue("wait", sstatus)
                  [] o \in {"failed", "timeout"} -> Continue("down_between", sstatus)
                  [] OTHER -> StartFails(o)
      BY <2>4 DEF Up
    <3> QED BY <1>4, <2>1, <3>1, <3>2, StartKeepsClean, ContinueKeepsClean DEF ComposeSteps, ImageSteps
  <2>5. CASE DownBetween
    <3>1. adapter = "docker_compose" /\ pc \in Preparing /\ live \subseteq Kinds
      BY <2>5 DEF DownBetween, CleanInv, ComposeSteps, Preparing
    <3>2. PICK o \in Outcomes :
             /\ live' \in IF o = "ok" THEN {{}} ELSE SUBSET live
             /\ IF o \in {"ok", "failed"} THEN Continue("up_again", sstatus) ELSE StartFails(o)
      BY <2>5 DEF DownBetween
    <3>3. live' \subseteq Kinds
      BY <3>1, <3>2
    <3> QED BY <1>4, <2>1, <3>1, <3>2, <3>3, StartKeepsClean, ContinueKeepsClean DEF ComposeSteps, ImageSteps
  <2>6. CASE UpAgain
    <3>1. adapter = "docker_compose" /\ pc \in Preparing /\ Kinds = {"container", "network", "volume"}
          /\ live \subseteq Kinds
      BY <2>6 DEF UpAgain, CleanInv, ComposeSteps, Preparing, Kinds
    <3>2. PICK o \in Outcomes :
             /\ live' \in IF o = "ok" THEN {Kinds} ELSE {live \cup more : more \in SUBSET Kinds}
             /\ IF o = "ok" THEN Continue("wait", sstatus) ELSE StartFails(o)
      BY <2>6 DEF UpAgain
    <3>3. live' \subseteq Kinds
      BY <3>1, <3>2
    <3>4. o = "ok" => "network" \in live'
      BY <3>1, <3>2
    <3> QED BY <1>4, <2>1, <3>1, <3>2, <3>3, <3>4, StartKeepsClean, ContinueKeepsClean DEF ComposeSteps, ImageSteps
  <2>7. CASE WaitUntilReady
    <3>1. adapter = "docker_compose" /\ pc \in Preparing /\ live \subseteq Kinds /\ "network" \in live /\ UNCHANGED live
      BY <2>7 DEF WaitUntilReady, CleanInv, ComposeSteps, Preparing
    <3>2. PICK o \in Outcomes : IF o = "ok" THEN Continue("collect", "ready") ELSE StartFails(o)
      BY <2>7 DEF WaitUntilReady
    <3> QED BY <1>4, <2>1, <3>1, <3>2, StartKeepsClean, ContinueKeepsClean DEF ComposeSteps, ImageSteps
  <2>8. CASE CollectState
    <3>1. adapter = "docker_compose" /\ pc \in Preparing /\ live \subseteq Kinds /\ "network" \in live /\ UNCHANGED live
      BY <2>8 DEF CollectState, CleanInv, ComposeSteps, Preparing
    <3>2. PICK o \in Outcomes :
             IF o \in {"ok", "failed"}
             THEN /\ Goes("ready")
                  /\ managed' = "ready"
                  /\ UNCHANGED <<adapter, phase, sstatus, closed, tornDown, doubt, failure,
                                 cancelled, guests, dir>>
             ELSE StartFails(o)
      BY <2>8 DEF CollectState
    <3> QED BY <1>4, <2>1, <3>1, <3>2, StartKeepsClean, ContinueKeepsClean DEF ComposeSteps, ImageSteps
  <2>9. CASE BuildImage
    <3>1. adapter # "docker_compose" /\ pc \in Preparing /\ Kinds = {"container", "image"}
      BY <2>9 DEF BuildImage, CleanInv, ImageSteps, Preparing, Kinds
    <3>2. PICK o \in Outcomes :
             /\ live' \in IF o = "ok" THEN {{"image"}} ELSE {{}, {"image"}}
             /\ IF o = "ok" THEN Continue("run", sstatus) ELSE StartFails(o)
      BY <2>9 DEF BuildImage
    <3>3. live' \subseteq Kinds
      BY <3>1, <3>2
    <3> QED BY <1>4, <2>1, <3>1, <3>2, <3>3, StartKeepsClean, ContinueKeepsClean DEF ComposeSteps, ImageSteps
  <2>10. CASE RunImage
    <3>1. adapter # "docker_compose" /\ pc \in Preparing /\ live \subseteq Kinds
      BY <2>10 DEF RunImage, CleanInv, ImageSteps, Preparing
    <3>2. PICK o \in Outcomes :
             /\ live' \in IF o = "ok" THEN {Kinds} ELSE {live, Kinds}
             /\ IF o = "ok" THEN Continue("health", sstatus) ELSE StartFails(o)
      BY <2>10 DEF RunImage
    <3>3. live' \subseteq Kinds
      BY <3>1, <3>2
    <3> QED BY <1>4, <2>1, <3>1, <3>2, <3>3, StartKeepsClean, ContinueKeepsClean DEF ComposeSteps, ImageSteps
  <2>11. CASE WaitHealth
    <3>1. adapter # "docker_compose" /\ pc \in Preparing /\ live \subseteq Kinds /\ UNCHANGED live
      BY <2>11 DEF WaitHealth, CleanInv, ImageSteps, Preparing
    <3>2. PICK o \in Outcomes \cup {"ok"} :
             IF o = "ok"
             THEN /\ Goes("ready")
                  /\ managed' = "ready"
                  /\ UNCHANGED <<adapter, phase, sstatus, closed, tornDown, doubt, failure,
                                 cancelled, guests, dir>>
             ELSE StartFails(o)
      BY <2>11 DEF WaitHealth
    <3> QED BY <1>4, <2>1, <3>1, <3>2, StartKeepsClean, ContinueKeepsClean DEF ComposeSteps, ImageSteps
  <2>12. CASE Down
    <3>1. pc = "down" /\ adapter = "docker_compose" /\ sstatus' = "tearing_down"
          /\ (guests # {} => "network" \in live)
      BY <2>12 DEF Down, CleanInv, ComposeSteps
    <3>2. PICK o \in Outcomes :
             /\ live' \in IF o = "ok" THEN {live \cap (IF guests = {} THEN {} ELSE {"network"})}
                                      ELSE Removed
             /\ IF o = "broken"
                THEN TeardownRaises
                ELSE /\ Goes(IF o = "ok" THEN "verify" ELSE "remove")
                     /\ UNCHANGED <<adapter, phase, managed, closed, tornDown, doubt, failure,
                                    cancelled, guests>>
      BY <2>12 DEF Down
    <3>3. live' \subseteq live /\ (guests # {} => "network" \in live')
      BY <3>1, <3>2 DEF Removed
    <3>4. pc' \in {"down", "remove", "verify", "over"} /\ UNCHANGED <<adapter, guests>>
      BY <3>2 DEF TeardownRaises, Goes
    <3> QED BY <1>4, <3>1, <3>3, <3>4, TeardownKeepsClean DEF ComposeSteps, ImageSteps, labVars
  <2>13. CASE RemoveByLabel
    <3>1. pc = "remove" /\ adapter = "docker_compose" /\ UNCHANGED sstatus
          /\ (guests # {} => "network" \in live) /\ live' \in Removed
      BY <2>13 DEF RemoveByLabel, CleanInv, ComposeSteps
    <3>2. live' \subseteq live /\ (guests # {} => "network" \in live')
      BY <3>1 DEF Removed
    <3>3. pc' \in {"down", "verify", "over"} /\ UNCHANGED <<adapter, guests>>
      BY <2>13 DEF RemoveByLabel, TeardownRaises, Goes
    <3> QED BY <1>4, <2>2, <3>1, <3>2, <3>3, TeardownKeepsClean DEF ComposeSteps, ImageSteps, labVars, TearingDown
  <2>14. CASE Verify
    <3>1. pc = "verify" /\ adapter = "docker_compose" /\ UNCHANGED live /\ live \subseteq Kinds
          /\ (guests # {} => "network" \in live)
      BY <2>14 DEF Verify, CleanInv, ComposeSteps
    <3>2. CASE TeardownRaises /\ UNCHANGED <<sstatus, dir>>
      <4>1. pc' \in {"down", "over"} /\ UNCHANGED <<adapter, guests>>
        BY <3>2 DEF TeardownRaises, Goes
      <4> QED BY <1>4, <2>2, <3>1, <3>2, <4>1, TeardownKeepsClean DEF ComposeSteps, ImageSteps, labVars, TearingDown
    <3>3. CASE /\ \E listed \in SUBSET Kinds :
                     sstatus' = IF doubt \/ listed # Kinds \/ listed \cap live # {} THEN "failed" ELSE "closed"
               /\ dir' = FALSE
               /\ ManagedEnds
      <4>1. pc' = "over" /\ UNCHANGED <<adapter, guests, live, step>>
        BY <1>4, <3>1, <3>3 DEF ManagedEnds, Goes, labVars
      <4>2. CASE sstatus' = "closed"
        <5>1. live = {}
          BY <3>1, <3>3, <4>2
        <5>2. guests = {}
          BY <3>1, <5>1
        <5> QED BY <3>1, <3>3, <4>1, <5>1, <5>2 DEF CleanInv, ComposeSteps, ImageSteps, ClosedIsClean
      <4>3. CASE sstatus' # "closed"
        BY <3>1, <4>1, <4>3, TeardownKeepsClean DEF ComposeSteps, ImageSteps
      <4> QED BY <4>2, <4>3
    <3> QED BY <2>14, <3>2, <3>3 DEF Verify
  <2>15. CASE RemoveContainer
    <3>1. pc = "rm_container" /\ adapter # "docker_compose" /\ UNCHANGED sstatus /\ guests = {}
      BY <2>15 DEF RemoveContainer, CleanInv, ImageSteps
    <3>2. live' \subseteq live
      BY <2>15 DEF RemoveContainer
    <3>3. pc' \in {"rm_image", "over"} /\ UNCHANGED <<adapter, guests>>
      BY <2>15, <3>1 DEF RemoveContainer, TeardownRaises, Goes
    <3> QED BY <1>4, <2>2, <3>1, <3>2, <3>3, TeardownKeepsClean DEF ComposeSteps, ImageSteps, labVars, TearingDown
  <2>16. CASE RemoveImage
    <3>1. pc = "rm_image" /\ adapter # "docker_compose" /\ UNCHANGED sstatus /\ guests = {}
      BY <2>16 DEF RemoveImage, CleanInv, ImageSteps
    <3>2. live' \subseteq live
      BY <2>16 DEF RemoveImage
    <3>3. pc' = "over" /\ UNCHANGED <<adapter, guests>>
      BY <2>16, <3>1 DEF RemoveImage, TeardownRaises, ManagedEnds, Goes
    <3> QED BY <1>4, <2>2, <3>1, <3>2, <3>3, TeardownKeepsClean DEF ComposeSteps, ImageSteps, labVars, TearingDown
  <2> QED BY <1>4, <2>3, <2>4, <2>5, <2>6, <2>7, <2>8, <2>9, <2>10, <2>11, <2>12, <2>13, <2>14, <2>15, <2>16
          DEF SessionStep
<1>5. CASE BodyStep
  <2>1. SessionKept /\ pc = "ready"
    BY <1>5 DEF BodyStep, BuildMap, CancelledBetween, BeginGraph, GraphEnds, OpenLab, DenyAction, BeginAction,
                ActionEnds, StopProcess, StopClient, CloseLab, AllFindingsDone, Holds
  <2>2. CASE BuildMap
    BY <2>1, <2>2, BodyKeepsClean DEF BuildMap
  <2>3. CASE \/ CancelledBetween \/ BeginGraph \/ GraphEnds \/ DenyAction
             \/ StopProcess \/ StopClient \/ AllFindingsDone
    <3>1. \/ UNCHANGED guests /\ (step' \notin {"map", "leave"} => step \notin {"map", "leave"})
          \/ step' = "leave" /\ UNCHANGED guests
      BY <2>3 DEF CancelledBetween, BeginGraph, GraphEnds, DenyAction, StopProcess, StopClient, AllFindingsDone,
                    Holds, LeaveGraph
    <3> QED BY <2>1, <3>1, BodyKeepsClean DEF CleanInv
  <2>4. CASE OpenLab \/ BeginAction \/ ActionEnds \/ CloseLab
    <3>1. adapter = "docker_compose"
      BY <2>4 DEF OpenLab, BeginAction, ActionEnds, CloseLab, Holds, CleanInv
    <3> QED BY <2>1, <3>1, BodyKeepsClean
  <2> QED BY <1>5, <2>2, <2>3, <2>4 DEF BodyStep
<1>6. CASE UNCHANGED sandboxVars
  BY <1>6 DEF CleanInv, sandboxVars, sessionVars, labVars, Kinds, ClosedIsClean
<1>7. CASE SandboxCall
  BY <1>1, <1>2, <1>7 DEF SandboxCall, Adapters
<1>8. CASE SandboxStep
  BY <1>3, <1>4, <1>8 DEF SandboxStep
<1> QED BY <1>5, <1>6, <1>7, <1>8 DEF SandboxNext

\* A session of Compose that ends CLOSED left nothing behind and nobody in
\* its network, whatever failed on the way (executor/sandbox_session.py).
THEOREM ClosedSessionsAreClean == SandboxSpec => []ClosedIsClean
<1>1. SandboxInit => CleanInv
  BY DEF SandboxInit, SessionInit, LabInit, CleanInv, ClosedIsClean, Kinds, ComposeSteps, ImageSteps
<1>2. CleanInv => ClosedIsClean
  BY DEF CleanInv
<1> QED BY <1>1, <1>2, CleanInvInductive, PTL DEF SandboxSpec

---------------------------------------------------------------------------
\* RuntimeTelemetry: the order

LEMMA EventFields ==
    ASSUME gathered \in Seq(TelemetryEvents)
    PROVE  /\ Len(gathered) \in Nat
           /\ DOMAIN gathered = 1 .. Len(gathered)
           /\ \A i \in DOMAIN gathered : gathered[i] \in TelemetryEvents /\ gathered[i].at \in Nat
<1>1. Len(gathered) \in Nat /\ DOMAIN gathered = 1 .. Len(gathered)
  OBVIOUS
<1>2. \A i \in DOMAIN gathered : gathered[i] \in TelemetryEvents
  OBVIOUS
<1> QED BY <1>1, <1>2 DEF TelemetryEvents

\* The positions before i, and the place that gives to i.
Earlier(i) == {j \in DOMAIN gathered : Before(j, i)}

PlaceOf(i) == 1 + Cardinality(Earlier(i))

LEMMA EarlierIsFinite ==
    ASSUME gathered \in Seq(TelemetryEvents), NEW i \in DOMAIN gathered
    PROVE  /\ IsFiniteSet(Earlier(i)) /\ i \notin Earlier(i)
           /\ Cardinality(Earlier(i)) \in Nat
           /\ PlaceOf(i) \in DOMAIN gathered
<1> DEFINE n == Len(gathered)
<1>1. n \in Nat /\ DOMAIN gathered = 1 .. n /\ gathered[i].at \in Nat
  BY EventFields
<1> HIDE DEF n
<1>2. IsFiniteSet(1 .. n) /\ Cardinality(1 .. n) = n
  BY <1>1, FS_Interval
<1>3. IsFiniteSet((1 .. n) \ {i}) /\ Cardinality((1 .. n) \ {i}) = n - 1
  BY <1>1, <1>2, FS_RemoveElement
<1>4. i \notin Earlier(i)
  BY <1>1 DEF Earlier, Before
<1>5. Earlier(i) \subseteq (1 .. n) \ {i}
  BY <1>1, <1>4 DEF Earlier
<1>6. IsFiniteSet(Earlier(i)) /\ Cardinality(Earlier(i)) <= n - 1
  BY <1>3, <1>5, FS_Subset
<1>7. Cardinality(Earlier(i)) \in Nat
  BY <1>6, FS_CardinalityType
<1> QED BY <1>1, <1>4, <1>6, <1>7 DEF PlaceOf

LEMMA PlacesDiffer ==
    ASSUME gathered \in Seq(TelemetryEvents), NEW i \in DOMAIN gathered, NEW j \in DOMAIN gathered, Before(i, j)
    PROVE  PlaceOf(i) < PlaceOf(j)
<1>1. /\ \A k \in DOMAIN gathered : k \in Nat /\ gathered[k].at \in Nat
  BY EventFields
<1>2. Earlier(i) \cup {i} \subseteq Earlier(j)
  BY <1>1 DEF Earlier, Before
<1>3. IsFiniteSet(Earlier(i)) /\ i \notin Earlier(i) /\ Cardinality(Earlier(i)) \in Nat
      /\ IsFiniteSet(Earlier(j)) /\ Cardinality(Earlier(j)) \in Nat
  BY EarlierIsFinite
<1>4. Cardinality(Earlier(i) \cup {i}) = Cardinality(Earlier(i)) + 1
  BY <1>3, FS_AddElement
<1>5. Cardinality(Earlier(i) \cup {i}) <= Cardinality(Earlier(j))
  BY <1>2, <1>3, FS_Subset
<1> QED BY <1>3, <1>4, <1>5 DEF PlaceOf

LEMMA PlacesAreUnique ==
    ASSUME gathered \in Seq(TelemetryEvents), NEW i \in DOMAIN gathered, NEW j \in DOMAIN gathered,
           PlaceOf(i) = PlaceOf(j)
    PROVE  i = j
<1>1. \A k \in DOMAIN gathered : k \in Nat /\ gathered[k].at \in Nat
  BY EventFields
<1>2. PlaceOf(i) \in Nat /\ PlaceOf(j) \in Nat
  BY EarlierIsFinite, <1>1
<1>3. ~Before(i, j) /\ ~Before(j, i)
  BY <1>2, PlacesDiffer
<1> QED BY <1>1, <1>3 DEF Before

\* sorted changes the order only: every event has its place, and every
\* place its event.
LEMMA OrderKeepsEvents ==
    ASSUME gathered \in Seq(TelemetryEvents)
    PROVE  /\ InOrder \in Seq(TelemetryEvents)
           /\ \A n \in DOMAIN InOrder : \E i \in DOMAIN gathered : InOrder[n] = gathered[i]
           /\ \A i \in DOMAIN gathered : \E n \in DOMAIN InOrder : InOrder[n] = gathered[i]
<1> DEFINE D == DOMAIN gathered
           f == [i \in D |-> PlaceOf(i)]
           Holder(n) == CHOOSE i \in D : PlaceOf(i) = n
<1>1. InOrder = [n \in D |-> gathered[Holder(n)]]
  BY DEF InOrder, PlaceOf, Earlier
<1>2. f \in Injection(D, D)
  BY EarlierIsFinite, PlacesAreUnique DEF Injection, IsInjective
<1>3. D = 1 .. Len(gathered) /\ Len(gathered) \in Nat /\ IsFiniteSet(D)
  BY EventFields, FS_Interval
<1>4. f \in Surjection(D, D)
  BY <1>2, <1>3, FS_Injection
<1>5. ASSUME NEW n \in D
      PROVE  Holder(n) \in D /\ PlaceOf(Holder(n)) = n
  <2>1. \E i \in D : PlaceOf(i) = n
    BY <1>4 DEF Surjection
  <2> QED BY <2>1
<1>6. \A n \in D : gathered[Holder(n)] \in TelemetryEvents
  BY <1>5, EventFields
<1>7. InOrder \in Seq(TelemetryEvents)
  <2> DEFINE g == [n \in D |-> gathered[Holder(n)]]
  <2>1. g \in [1 .. Len(gathered) -> TelemetryEvents]
    BY <1>3, <1>6
  <2> HIDE DEF g
  <2>2. g \in Seq(TelemetryEvents)
    BY <1>3, <2>1
  <2> QED BY <1>1, <2>2 DEF g
<1>8. ASSUME NEW i \in D
      PROVE  \E n \in DOMAIN InOrder : InOrder[n] = gathered[i]
  <2>1. PlaceOf(i) \in D
    BY EarlierIsFinite
  <2>2. Holder(PlaceOf(i)) = i
    BY <1>5, <2>1, PlacesAreUnique
  <2> QED BY <1>1, <2>1, <2>2
<1> HIDE DEF Holder
<1> QED BY <1>1, <1>5, <1>7, <1>8

---------------------------------------------------------------------------
\* RuntimeTelemetry: what is collected

Told == {gathered[i] : i \in DOMAIN gathered}

Faultless == \A e \in Told : e.kind # "error"

Knows(kind, b) == \E e \in Told : e.kind = kind /\ e.box = b

Early == {"state", "discover", "events"}

\* What is gathered is about the target, and no probe of the collector is
\* in the log of docker before that is read.
TellsTarget ==
    /\ instant \in Nat
    /\ gathered \in Seq(TelemetryEvents)
    /\ \A e \in Told : e.box \notin Strangers /\ e.kind # "probe"
    /\ IsFiniteSet(dockerLog)
    /\ dockerLog \subseteq [box : Boxes, probe : BOOLEAN, at : Nat]
    /\ collecting \in Early => \A e \in dockerLog : ~e.probe

\* The container in work is one of the session once it was inspected.
TakesOwn ==
    /\ current \in [box : Boxes \cup {NoBox}, next : {"inspect", "logs", "ports"}]
    /\ pending \subseteq Boxes
    /\ boxes \in [Boxes -> {"up", "stopped", "gone"}]
    /\ current.next # "inspect" => current.box \in Containers
    /\ collecting = "state" => scoped
    /\ collecting \in Early => current = Idle
    /\ collecting = "order" => current = Idle /\ pending = {}

\* As long as nothing failed, a container that is there is waiting, in
\* work, or has told its state and its log.
MissesNothing ==
    Faultless =>
       /\ scoped
       /\ current.next # "inspect" => Knows("state", current.box)
       /\ current.next = "ports" => Knows("log", current.box)
       /\ collecting \in {"events", "containers", "order"} =>
             \A b \in Containers :
                \/ boxes[b] = "gone" \/ b \in pending \/ b = current.box
                \/ Knows("state", b) /\ Knows("log", b)

TelemetryInv == TellsTarget /\ TakesOwn /\ MissesNothing /\ OnlyTheTarget /\ GapsAreNoted

LEMMA ToldOfAppend ==
    ASSUME gathered \in Seq(TelemetryEvents), NEW STATE e, e \in TelemetryEvents,
           gathered' = Append(gathered, e)
    PROVE  gathered' \in Seq(TelemetryEvents) /\ Told' = Told \cup {e}
<1> DEFINE E == TelemetryEvents
<1>1. gathered \in Seq(E) /\ e \in E
  OBVIOUS
<1> HIDE DEF E
<1>2. gathered' \in Seq(E)
  BY <1>1
<1>3. /\ Len(gathered) \in Nat
      /\ DOMAIN gathered = 1 .. Len(gathered)
      /\ DOMAIN gathered' = 1 .. Len(gathered) + 1
      /\ \A i \in DOMAIN gathered : gathered'[i] = gathered[i]
      /\ gathered'[Len(gathered) + 1] = e
  BY <1>1
<1>4. \A i \in DOMAIN gathered' : i \in DOMAIN gathered \/ i = Len(gathered) + 1
  BY <1>3
<1>5. \A i \in DOMAIN gathered : i \in DOMAIN gathered'
  BY <1>3
<1>6. Len(gathered) + 1 \in DOMAIN gathered'
  BY <1>3
<1> QED BY <1>2, <1>3, <1>4, <1>5, <1>6 DEF Told, E

LEMMA ToldOfConcat ==
    ASSUME gathered \in Seq(TelemetryEvents), NEW STATE s, s \in Seq(TelemetryEvents),
           gathered' = gathered \o s
    PROVE  gathered' \in Seq(TelemetryEvents) /\ Told' = Told \cup {s[i] : i \in DOMAIN s}
<1> DEFINE E == TelemetryEvents
           m == Len(gathered)
<1>1. gathered \in Seq(E) /\ s \in Seq(E)
  OBVIOUS
<1> HIDE DEF E
<1>2. gathered' \in Seq(E)
  BY <1>1
<1>3. /\ m \in Nat /\ Len(s) \in Nat
      /\ DOMAIN gathered = 1 .. m /\ DOMAIN s = 1 .. Len(s)
      /\ DOMAIN gathered' = 1 .. m + Len(s)
      /\ \A i \in 1 .. m + Len(s) : gathered'[i] = IF i <= m THEN gathered[i] ELSE s[i - m]
  BY <1>1
<1> HIDE DEF m
<1>4. \A i \in DOMAIN gathered : i \in DOMAIN gathered' /\ gathered'[i] = gathered[i]
  BY <1>3
<1>5. \A i \in DOMAIN s : m + i \in DOMAIN gathered' /\ gathered'[m + i] = s[i]
  BY <1>3
<1>6. \A i \in DOMAIN gathered' :
         i \in DOMAIN gathered \/ (i - m \in DOMAIN s /\ gathered'[i] = s[i - m])
  BY <1>3
<1>7. \A e \in Told' : e \in Told \cup {s[i] : i \in DOMAIN s}
  BY <1>4, <1>6 DEF Told
<1>8. \A e \in Told : e \in Told'
  BY <1>4 DEF Told
<1>9. \A i \in DOMAIN s : s[i] \in Told'
  BY <1>5 DEF Told
<1> QED BY <1>2, <1>7, <1>8, <1>9 DEF E

LEMMA NotesAreEvents ==
    ASSUME instant \in Nat
    PROVE  /\ \A kind \in Kept \cup {"error", "limit"}, b \in Boxes \cup {NoBox}, at \in Nat :
                 Note(kind, b, at) \in TelemetryEvents
           /\ \A b \in Boxes \cup {NoBox} : Error(b) \in TelemetryEvents /\ Error(b).kind = "error"
BY DEF Note, Error, TelemetryEvents

LEMMA TelemetryStarts == TelemetryInit => TelemetryInv
<1> SUFFICES ASSUME TelemetryInit PROVE TelemetryInv
  OBVIOUS
<1> USE DEF TelemetryInit
<1>1. gathered \in Seq(TelemetryEvents) /\ Told = {}
  BY DEF Told
<1>2. TellsTarget
  BY <1>1, FS_EmptySet DEF TellsTarget
<1>3. TakesOwn
  BY DEF TakesOwn, Idle
<1>4. MissesNothing
  BY DEF MissesNothing, Idle
<1>5. OnlyTheTarget /\ GapsAreNoted
  BY DEF OnlyTheTarget, GapsAreNoted
<1> QED BY <1>2, <1>3, <1>4, <1>5 DEF TelemetryInv

\* A step that is not the last one leaves the outcome empty.
LEMMA StillOpen ==
    ASSUME OnlyTheTarget, outcome' = outcome, collecting' # "done"
    PROVE  OnlyTheTarget' /\ GapsAreNoted'
BY DEF OnlyTheTarget, GapsAreNoted

LEMMA TargetKeeps ==
    ASSUME TelemetryInv, TargetStep
    PROVE  TelemetryInv'
<1> USE DEF TelemetryInv
<1>0. /\ collecting \in {"state", "discover", "events", "containers"}
      /\ UNCHANGED <<collecting, instant, scoped, pending, current, gathered, outcome>>
  BY DEF TargetStep, Turns, Vanishes
<1>1. Told' = Told
  BY <1>0 DEF Told
<1>2. PICK b \in Containers : Turns(b, "up", "stopped") \/ Turns(b, "stopped", "up") \/ Vanishes(b)
  BY DEF TargetStep
<1>3. /\ boxes' \in [Boxes -> {"up", "stopped", "gone"}]
      /\ \A c \in Boxes : boxes[c] = "gone" => boxes'[c] = "gone"
  BY <1>2 DEF Turns, Vanishes, TakesOwn, Boxes
<1>4. TakesOwn'
  BY <1>0, <1>3 DEF TakesOwn
<1>5. MissesNothing'
  <2>1. Faultless' = Faultless /\ \A k, c : Knows(k, c)' = Knows(k, c)
    BY <1>1 DEF Faultless, Knows
  <2> QED BY <1>0, <1>3, <2>1 DEF MissesNothing, Boxes
<1>6. TellsTarget'
  <2>1. dockerLog' = dockerLog \/ dockerLog' = dockerLog \cup {[box |-> b, probe |-> FALSE, at |-> instant]}
    BY <1>2 DEF Turns, Vanishes
  <2>2. IsFiniteSet(dockerLog')
    BY <2>1, FS_AddElement DEF TellsTarget
  <2>3. [box |-> b, probe |-> FALSE, at |-> instant] \in [box : Boxes, probe : BOOLEAN, at : Nat]
    BY DEF TellsTarget, Boxes
  <2> QED BY <1>0, <1>1, <2>1, <2>2, <2>3 DEF TellsTarget
<1>7. OnlyTheTarget' /\ GapsAreNoted'
  BY <1>0, StillOpen
<1> QED BY <1>4, <1>5, <1>6, <1>7

LEMMA CancelKeeps ==
    ASSUME TelemetryInv, CollectCancelled
    PROVE  TelemetryInv'
<1> USE DEF TelemetryInv, CollectCancelled
<1>1. Told' = Told
  BY DEF Told
<1>2. TellsTarget' /\ TakesOwn' /\ MissesNothing'
  BY <1>1 DEF TellsTarget, TakesOwn, MissesNothing, Faultless, Knows, Early
<1> QED BY <1>2, StillOpen


\* What a step tells is not forgotten.
LEMMA ToldGrows ==
    ASSUME NEW STATE N, Told' = Told \cup N
    PROVE  /\ Faultless' => Faultless /\ \A e \in N : e.kind # "error"
           /\ \A kind, b : Knows(kind, b) => Knows(kind, b)'
           /\ \A e \in N : Knows(e.kind, e.box)'
BY DEF Faultless, Knows

\* A step that tells of one failure more.
LEMMA FaultKeeps ==
    ASSUME TelemetryInv, NEW STATE b, b \in Boxes \cup {NoBox}, b \notin Strangers,
           gathered' = Append(gathered, Error(b)),
           Calls, UNCHANGED <<boxes, dockerLog, outcome>>,
           collecting' \in Early => collecting \in Early,
           collecting' # "done", TakesOwn'
    PROVE  TelemetryInv'
<1> USE DEF TelemetryInv
<1>1. Error(b) \in TelemetryEvents /\ Error(b).kind = "error" /\ Error(b).box = b
  BY NotesAreEvents DEF TellsTarget, Error, Note
<1>2. gathered' \in Seq(TelemetryEvents) /\ Told' = Told \cup {Error(b)}
  BY <1>1, ToldOfAppend DEF TellsTarget
<1>3. TellsTarget'
  BY <1>1, <1>2 DEF TellsTarget, Calls
<1>4. MissesNothing'
  BY <1>1, <1>2, ToldGrows DEF MissesNothing
<1> QED BY <1>3, <1>4, StillOpen

LEMMA SessionStateKeeps ==
    ASSUME TelemetryInv, SessionState
    PROVE  TelemetryInv'
<1> USE DEF TelemetryInv, SessionState
<1> DEFINE m == Note("manager", NoBox, 0)
<1>0. NoBox \notin Strangers
  BY TelemetryBounds DEF NoBox
<1>1. m \in TelemetryEvents /\ m.kind = "manager" /\ m.box = NoBox /\ Error(NoBox) \in TelemetryEvents
      /\ Error(NoBox).kind = "error" /\ Error(NoBox).box = NoBox
  BY NotesAreEvents DEF TellsTarget, Kept, Note, Error
<1>2. \/ gathered' = <<m>> /\ UNCHANGED scoped
      \/ gathered' = <<Error(NoBox), m>>
  BY DEF Started
<1>3. gathered' \in Seq(TelemetryEvents)
  <2> DEFINE E == TelemetryEvents
             f == Error(NoBox)
  <2>1. m \in E /\ f \in E
    BY <1>1
  <2>2. gathered' = <<m>> \/ gathered' = <<f, m>>
    BY <1>2
  <2> HIDE DEF E, f, m
  <2>3. <<m>> \in Seq(E) /\ <<f, m>> \in Seq(E)
    BY <2>1
  <2> QED BY <2>2, <2>3 DEF E
<1>4. \/ Told' = {m} /\ UNCHANGED scoped
      \/ Told' = {m, Error(NoBox)}
  BY <1>2 DEF Told
<1>5. TellsTarget'
  BY <1>0, <1>1, <1>3, <1>4 DEF TellsTarget, Calls, Early
<1>6. TakesOwn'
  BY DEF TakesOwn, Early, Idle
<1>7. MissesNothing'
  <2>1. SUFFICES ASSUME Faultless' PROVE scoped' /\ current'.next = "inspect"
    BY DEF MissesNothing
  <2>2. UNCHANGED scoped
    BY <1>1, <1>4, <2>1 DEF Faultless
  <2>3. scoped
    BY DEF TakesOwn
  <2> QED BY <2>2, <2>3, <1>6 DEF TakesOwn, Early, Idle
<1> QED BY <1>5, <1>6, <1>7, StillOpen


LEMMA DiscoverKeeps ==
    ASSUME TelemetryInv, DiscoverContainers
    PROVE  TelemetryInv'
<1> USE DEF TelemetryInv, DiscoverContainers
<1>0. NoBox \notin Strangers /\ collecting = "discover" /\ collecting' = "events"
  BY TelemetryBounds DEF NoBox, AfterDiscovery
<1>1. TakesOwn'
  BY <1>0 DEF TakesOwn, Early, Boxes
<1>2. CASE gathered' = Append(gathered, Error(NoBox)) /\ UNCHANGED pending
  BY <1>0, <1>1, <1>2, FaultKeeps DEF Early
<1>3. CASE /\ \A b \in Containers : (scoped /\ boxes[b] # "gone") => b \in pending'
           /\ UNCHANGED gathered
  <2>1. Told' = Told
    BY <1>3 DEF Told
  <2>2. TellsTarget'
    BY <1>0, <1>3, <2>1 DEF TellsTarget, Calls, Early
  <2>3. MissesNothing'
    BY <1>0, <1>3, <2>1 DEF MissesNothing, Faultless, Knows
  <2> QED BY <1>0, <1>1, <2>2, <2>3, StillOpen
<1> QED BY <1>2, <1>3

LEMMA TakeKeeps ==
    ASSUME TelemetryInv, TakeContainer
    PROVE  TelemetryInv'
<1> USE DEF TelemetryInv, TakeContainer
<1>1. Told' = Told /\ collecting = "containers" /\ collecting' \in {"containers", "order"}
  BY DEF Told, AfterDiscovery
<1>2. TellsTarget'
  BY <1>1 DEF TellsTarget, Early
<1>3. CASE pending = {}
  <2>1. TakesOwn'
    BY <1>1, <1>3 DEF TakesOwn, Early, AfterDiscovery
  <2>2. MissesNothing'
    BY <1>1, <1>3 DEF MissesNothing, Faultless, Knows
  <2> QED BY <1>1, <1>2, <2>1, <2>2, StillOpen
<1>4. CASE pending # {}
  <2>1. PICK b \in pending : pending' = pending \ {b} /\ current' = [box |-> b, next |-> "inspect"]
    BY <1>4
  <2>2. UNCHANGED collecting
    BY <1>4
  <2>3. TakesOwn'
    BY <1>1, <2>1, <2>2 DEF TakesOwn, Early
  <2>4. \A c \in Containers : c # current.box
    BY TelemetryBounds DEF Idle, NoBox
  <2>5. MissesNothing'
    BY <1>1, <2>1, <2>2, <2>4 DEF MissesNothing, Faultless, Knows
  <2> QED BY <1>1, <1>2, <2>3, <2>5, StillOpen
<1> QED BY <1>3, <1>4

LEMMA InspectKeeps ==
    ASSUME TelemetryInv, Inspect
    PROVE  TelemetryInv'
<1> USE DEF TelemetryInv, Inspect, InWork
<1>0. NoBox \notin Strangers /\ collecting = "containers" /\ collecting' = "containers"
  BY TelemetryBounds DEF NoBox
<1>1. CASE gathered' = Append(gathered, Error(NoBox)) /\ current' = Idle
  <2>1. TakesOwn'
    BY <1>0, <1>1 DEF TakesOwn, Early, Idle
  <2> QED BY <1>0, <1>1, <2>1, FaultKeeps DEF Early
<1>2. CASE /\ current.box \in Containers
           /\ gathered' = Append(gathered, Note("state", current.box, instant))
           /\ current' = [current EXCEPT !.next = "logs"]
  <2> DEFINE e == Note("state", current.box, instant)
  <2>1. e \in TelemetryEvents /\ e.kind = "state" /\ e.box = current.box /\ e.box \notin Strangers
    BY <1>2, NotesAreEvents, TelemetryBounds DEF TellsTarget, Kept, Note, Boxes
  <2>2. gathered' \in Seq(TelemetryEvents) /\ Told' = Told \cup {e}
    BY <1>2, <2>1, ToldOfAppend DEF TellsTarget
  <2>3. TellsTarget'
    BY <1>0, <2>1, <2>2 DEF TellsTarget, Calls, Early
  <2>4. current'.box = current.box /\ current'.next = "logs" /\ TakesOwn'
    BY <1>0, <1>2 DEF TakesOwn, Early
  <2>5. MissesNothing'
    <3>1. SUFFICES ASSUME Faultless' PROVE MissesNothing'
      BY DEF MissesNothing
    <3>2. Faultless
      BY <2>2, <3>1, ToldGrows
    <3>3. \A kind, b : Knows(kind, b) => Knows(kind, b)'
      BY <2>2, ToldGrows
    <3>4. Knows("state", current.box)'
      BY <2>1, <2>2, <2>4 DEF Knows
    <3>5. scoped' /\ current'.next # "ports"
      BY <2>4, <3>2 DEF MissesNothing
    <3>6. \A b \in Containers :
                \/ boxes[b] = "gone" \/ b \in pending \/ b = current.box
                \/ Knows("state", b) /\ Knows("log", b)
      BY <1>0, <3>2 DEF MissesNothing
    <3>7. \A b \in Containers :
                \/ boxes'[b] = "gone" \/ b \in pending' \/ b = current'.box
                \/ Knows("state", b)' /\ Knows("log", b)'
      BY <2>4, <3>3, <3>6
    <3> QED BY <3>4, <3>5, <3>7 DEF MissesNothing
  <2> QED BY <1>0, <2>3, <2>4, <2>5, StillOpen
<1> QED BY <1>1, <1>2

LEMMA LogsKeep ==
    ASSUME TelemetryInv, ReadLogs
    PROVE  TelemetryInv'
<1> USE DEF TelemetryInv, ReadLogs, InWork
<1>0. /\ collecting = "containers" /\ collecting' = "containers"
      /\ current.box \in Containers /\ current.box \notin Strangers /\ current.box \in Boxes
  BY TelemetryBounds DEF TakesOwn, Boxes
<1>1. TakesOwn'
  BY <1>0 DEF TakesOwn, Early, Idle
<1>2. CASE gathered' = Append(gathered, Error(current.box))
  BY <1>0, <1>1, <1>2, FaultKeeps DEF Early
<1>3. CASE \E naive \in BOOLEAN :
              gathered' = Append(gathered, [Note("log", current.box, 1) EXCEPT !.naive = naive])
  <2>1. PICK naive \in BOOLEAN :
              gathered' = Append(gathered, [Note("log", current.box, 1) EXCEPT !.naive = naive])
    BY <1>3
  <2> DEFINE e == [Note("log", current.box, 1) EXCEPT !.naive = naive]
  <2>2. e \in TelemetryEvents /\ e.kind = "log" /\ e.box = current.box
    BY <1>0 DEF TelemetryEvents, Kept, Note
  <2>3. gathered' \in Seq(TelemetryEvents) /\ Told' = Told \cup {e}
    BY <2>1, <2>2, ToldOfAppend DEF TellsTarget
  <2> HIDE DEF e
  <2>4. TellsTarget'
    <3>1. \A d \in Told' : d.box \notin Strangers /\ d.kind # "probe"
      BY <1>0, <2>2, <2>3 DEF TellsTarget
    <3> QED BY <1>0, <2>3, <3>1 DEF TellsTarget, Calls, Early
  <2>5. MissesNothing'
    <3>1. SUFFICES ASSUME Faultless' PROVE MissesNothing'
      BY DEF MissesNothing
    <3>2. PICK c : c = current.box
      OBVIOUS
    <3>3. Knows("log", c)' /\ Faultless
      BY <2>2, <2>3, <3>1, <3>2 DEF Knows, Faultless
    <3>4. \A kind, b : Knows(kind, b) => Knows(kind, b)'
      BY <2>3, ToldGrows
    <3>5. Knows("state", c)
      BY <3>2, <3>3 DEF MissesNothing, Knows
    <3>6. Knows("state", c)'
      BY <3>4, <3>5
    <3>7. /\ scoped
          /\ \A b \in Containers :
                \/ boxes[b] = "gone" \/ b \in pending \/ b = c
                \/ Knows("state", b) /\ Knows("log", b)
      BY <1>0, <3>2, <3>3 DEF MissesNothing
    <3>8. \/ current'.box = c
          \/ current'.next = "inspect"
      BY <3>2 DEF TakesOwn, Idle
    <3>9. \A b \in Containers :
             boxes'[b] = "gone" \/ b \in pending' \/ (Knows("state", b)' /\ Knows("log", b)')
                \/ b = c
      BY <3>4, <3>7
    <3>10. \A b \in Containers :
             boxes'[b] = "gone" \/ b \in pending' \/ (Knows("state", b)' /\ Knows("log", b)')
      BY <3>3, <3>6, <3>9
    <3>11. (current.next # "inspect" => Knows("state", current.box) /\ Knows("log", current.box))'
      BY <3>3, <3>6, <3>8 DEF Knows
    <3>12. scoped'
      BY <3>7
    <3> QED BY <3>10, <3>11, <3>12 DEF MissesNothing
  <2> QED BY <1>0, <1>1, <2>4, <2>5, StillOpen
<1> QED BY <1>2, <1>3


LEMMA PortsKeep ==
    ASSUME TelemetryInv, ProbePorts
    PROVE  TelemetryInv'
<1> USE DEF TelemetryInv, ProbePorts, InWork
<1>0. /\ collecting = "containers" /\ collecting' = "containers" /\ current.next = "ports"
      /\ current.box \in Containers /\ current.box \notin Strangers /\ current.box \in Boxes
      /\ current' = Idle
  BY TelemetryBounds DEF TakesOwn, Boxes
<1>1. TakesOwn'
  BY <1>0 DEF TakesOwn, Early, Idle
<1> DEFINE e == Note("port", current.box, instant)
           d == [box |-> current.box, probe |-> TRUE, at |-> instant]
<1>2. e \in TelemetryEvents /\ e.box = current.box /\ e.kind = "port"
  BY <1>0, NotesAreEvents DEF TellsTarget, Kept, Note
<1>3. d \in [box : Boxes, probe : BOOLEAN, at : Nat]
  BY <1>0 DEF TellsTarget
<1>4. /\ gathered' \in {gathered, Append(gathered, e)}
      /\ dockerLog' \in {dockerLog, dockerLog \cup {d}}
  OBVIOUS
<1> HIDE DEF e, d
<1>5. gathered' \in Seq(TelemetryEvents) /\ (Told' = Told \cup {e} \/ Told' = Told \cup {})
  BY <1>2, <1>4, ToldOfAppend DEF TellsTarget, Told
<1>6. TellsTarget'
  <2>1. \A n \in Told' : n.box \notin Strangers /\ n.kind # "probe"
    BY <1>0, <1>2, <1>5 DEF TellsTarget
  <2>2. IsFiniteSet(dockerLog')
    <3>1. IsFiniteSet(dockerLog)
      BY DEF TellsTarget
    <3>2. IsFiniteSet(dockerLog \cup {d})
      BY <3>1, FS_AddElement
    <3> QED BY <1>4, <3>1, <3>2
  <2> QED BY <1>0, <1>3, <1>4, <1>5, <2>1, <2>2 DEF TellsTarget, Calls, Early
<1>7. MissesNothing'
  <2>1. SUFFICES ASSUME Faultless' PROVE MissesNothing'
    BY DEF MissesNothing
  <2>2. Faultless
    BY <1>5, <2>1, ToldGrows
  <2>3. \A kind, b : Knows(kind, b) => Knows(kind, b)'
    BY <1>5, ToldGrows
  <2>4. /\ scoped
        /\ \A b \in Containers :
              \/ boxes[b] = "gone" \/ b \in pending \/ (Knows("state", b) /\ Knows("log", b))
    <3>1. PICK c : c = current.box
      OBVIOUS
    <3>2. Knows("state", c) /\ Knows("log", c)
      BY <1>0, <2>2, <3>1 DEF MissesNothing, Knows
    <3>3. /\ scoped
          /\ \A b \in Containers :
                \/ boxes[b] = "gone" \/ b \in pending \/ b = c
                \/ Knows("state", b) /\ Knows("log", b)
      BY <1>0, <2>2, <3>1 DEF MissesNothing
    <3> QED BY <3>2, <3>3
  <2>5. /\ scoped'
        /\ \A b \in Containers :
              \/ boxes'[b] = "gone" \/ b \in pending' \/ (Knows("state", b)' /\ Knows("log", b)')
    BY <2>3, <2>4
  <2>6. current'.next = "inspect"
    BY <1>0 DEF Idle
  <2> QED BY <2>5, <2>6 DEF MissesNothing
<1> QED BY <1>0, <1>1, <1>6, <1>7, StillOpen

LEMMA EventsKeep ==
    ASSUME TelemetryInv, ReadDockerEvents
    PROVE  TelemetryInv'
<1> DEFINE own == {e \in dockerLog : scoped /\ e.box \in Containers}
           Told1(s) == [i \in DOMAIN s |->
                          Note(IF s[i].probe THEN "probe" ELSE "docker", s[i].box, s[i].at)]
<1>0. /\ collecting = "events" /\ collecting' = "containers" /\ NoBox \notin Strangers
      /\ UNCHANGED <<scoped, boxes, dockerLog, pending, current, outcome>>
      /\ instant' = instant + 1
      /\ current = Idle
  BY TelemetryBounds DEF ReadDockerEvents, AfterDiscovery, NoBox, Calls, TelemetryInv, TakesOwn, Early
<1>1. TakesOwn'
  BY <1>0 DEF TelemetryInv, TakesOwn, Early
<1>2. CASE gathered' = Append(gathered, Error(NoBox))
  BY <1>0, <1>1, <1>2, FaultKeeps DEF Early, TelemetryInv, Calls
<1>3. CASE \E s \in [1 .. Cardinality(own) -> own] : gathered' = gathered \o Told1(s)
  <2>1. PICK s \in [1 .. Cardinality(own) -> own] : gathered' = gathered \o Told1(s)
    BY <1>3
  <2>2. IsFiniteSet(own)
    BY FS_Subset DEF TelemetryInv, TellsTarget
  <2> DEFINE c == Cardinality(own)
             t == Told1(s)
  <2>3. c \in Nat
    BY <2>2, FS_CardinalityType
  <2>4. \A i \in 1 .. c : /\ t[i] \in TelemetryEvents
                          /\ t[i].kind = "docker" /\ t[i].box \in Containers
    <3>1. TAKE i \in 1 .. c
    <3>2. s[i] \in own
      BY <2>1
    <3>3. s[i].box \in Containers /\ ~s[i].probe /\ s[i].at \in Nat
      BY <1>0, <3>2 DEF TelemetryInv, TellsTarget, Early
    <3>4. t[i] = Note("docker", s[i].box, s[i].at)
      BY <2>1, <3>3
    <3> QED BY <3>3, <3>4 DEF Note, TelemetryEvents, Kept, Boxes
  <2>5. DOMAIN t = 1 .. c /\ t = [i \in 1 .. c |-> t[i]]
    BY <2>1
  <2>6. gathered' = gathered \o t
    BY <2>1
  <2> HIDE DEF c, t, own, Told1
  <2>7. t \in Seq(TelemetryEvents)
    <3> DEFINE E == TelemetryEvents
    <3>1. \A i \in 1 .. c : t[i] \in E
      BY <2>4
    <3> HIDE DEF E
    <3>2. t \in [1 .. c -> E]
      BY <2>5, <3>1
    <3>3. t \in Seq(E)
      BY <2>3, <3>2
    <3> QED BY <3>3 DEF E
  <2> DEFINE N == {t[i] : i \in DOMAIN t}
  <2>8. gathered' \in Seq(TelemetryEvents) /\ Told' = Told \cup N
    BY <2>6, <2>7, ToldOfConcat DEF TelemetryInv, TellsTarget
  <2>9. \A e \in N : e.kind = "docker" /\ e.box \in Containers
    BY <2>4, <2>5
  <2> HIDE DEF N
  <2>10. TellsTarget'
    <3>1. \A e \in Told' : e.box \notin Strangers /\ e.kind # "probe"
      BY <2>8, <2>9, TelemetryBounds DEF TelemetryInv, TellsTarget
    <3>2. collecting' \notin Early
      BY <1>0 DEF Early
    <3> QED BY <1>0, <2>8, <3>1, <3>2 DEF TelemetryInv, TellsTarget
  <2>11. MissesNothing'
    <3>1. SUFFICES ASSUME Faultless' PROVE MissesNothing'
      BY DEF MissesNothing
    <3>2. Faultless
      BY <2>8, <3>1, ToldGrows
    <3>3. \A kind, b : Knows(kind, b) => Knows(kind, b)'
      BY <2>8, ToldGrows
    <3>4. /\ scoped
          /\ \A b \in Containers :
                \/ boxes[b] = "gone" \/ b \in pending \/ b = current.box
                \/ Knows("state", b) /\ Knows("log", b)
      BY <1>0, <3>2 DEF TelemetryInv, MissesNothing
    <3>5. /\ scoped'
          /\ \A b \in Containers :
                \/ boxes'[b] = "gone" \/ b \in pending' \/ b = current'.box
                \/ Knows("state", b)' /\ Knows("log", b)'
      BY <1>0, <3>3, <3>4
    <3>6. current'.next = "inspect"
      BY <1>0 DEF Idle
    <3> QED BY <3>5, <3>6 DEF MissesNothing
  <2> QED BY <1>0, <1>1, <2>10, <2>11, StillOpen DEF TelemetryInv
<1> QED BY <1>2, <1>3 DEF ReadDockerEvents


\* Ordering loses nothing, and a cut leaves its note.
LEMMA OrderTells ==
    ASSUME TelemetryInv, Order
    PROVE  TelemetryInv'
<1> USE DEF TelemetryInv
<1>0. /\ collecting = "order" /\ collecting' \in {"done", "raised"}
      /\ UNCHANGED <<instant, scoped, boxes, dockerLog, pending, current, gathered>>
  BY DEF Order
<1>1. Told' = Told
  BY <1>0 DEF Told
<1>2. TellsTarget'
  BY <1>0, <1>1 DEF TellsTarget, Early
<1>3. TakesOwn'
  BY <1>0 DEF TakesOwn, Early
<1>4. MissesNothing'
  BY <1>0, <1>1 DEF MissesNothing, Faultless, Knows
<1>5. CASE ~Comparable
  BY <1>2, <1>3, <1>4, <1>5, StillOpen DEF Order
<1>6. CASE Comparable
  <2>1. outcome' = Cut(InOrder)
    BY <1>6 DEF Order
  <2> DEFINE o == InOrder
             l == Note("limit", NoBox, instant)
  <2>2. /\ o \in Seq(TelemetryEvents)
        /\ \A n \in DOMAIN o : o[n] \in Told
        /\ \A e \in Told : \E n \in DOMAIN o : o[n] = e
    BY OrderKeepsEvents DEF TellsTarget, Told
  <2>3. l \in TelemetryEvents /\ l.kind = "limit" /\ l.box \notin Strangers
    BY NotesAreEvents, TelemetryBounds DEF TellsTarget, NoBox, Note
  <2>4. \/ outcome' = o
        \/ Len(o) > MaxEvents /\ outcome' = Append(SubSeq(o, 1, MaxEvents - 1), l)
    BY <2>1 DEF Cut
  <2>5. \A e \in Told : e.box \notin Strangers /\ e.kind # "probe"
    BY DEF TellsTarget
  <2> HIDE DEF o, l
  <2>6. CASE outcome' = o
    <3>1. OnlyTheTarget'
      BY <2>2, <2>5, <2>6 DEF OnlyTheTarget
    <3>2. CASE Faultless
      <4>1. \A b \in Containers : boxes[b] = "gone" \/ (Knows("state", b) /\ Knows("log", b))
        <5>1. current = Idle /\ pending = {}
          BY <1>0 DEF TakesOwn
        <5>2. \A b \in Containers : b # current.box
          BY <5>1, TelemetryBounds DEF Idle, NoBox
        <5> QED BY <1>0, <3>2, <5>1, <5>2 DEF MissesNothing
      <4>2. \A b : Knows("state", b) => Says("state", b)'
        BY <2>2, <2>6 DEF Knows, Says
      <4>3. \A b : Knows("log", b) => Says("log", b)'
        BY <2>2, <2>6 DEF Knows, Says
      <4>4. \A b \in Containers : boxes'[b] # "gone" => Says("state", b)' /\ Says("log", b)'
        BY <1>0, <4>1, <4>2, <4>3
      <4> QED BY <1>2, <1>3, <1>4, <3>1, <4>4 DEF GapsAreNoted
    <3>3. CASE ~Faultless
      <4>1. \E i \in DOMAIN outcome' : outcome'[i].kind = "error"
        BY <2>2, <2>6, <3>3 DEF Faultless
      <4> QED BY <1>2, <1>3, <1>4, <3>1, <4>1 DEF GapsAreNoted
    <3> QED BY <3>2, <3>3
  <2>7. CASE Len(o) > MaxEvents /\ outcome' = Append(SubSeq(o, 1, MaxEvents - 1), l)
    <3> DEFINE E == TelemetryEvents
               k == MaxEvents - 1
    <3>1. o \in Seq(E) /\ l \in E /\ k \in Nat /\ k < Len(o)
      BY <2>2, <2>3, <2>7, TelemetryBounds
    <3>2. outcome' = Append(SubSeq(o, 1, k), l)
      BY <2>7
    <3> HIDE DEF E, k
    <3>3. /\ DOMAIN o = 1 .. Len(o) /\ Len(o) \in Nat
          /\ SubSeq(o, 1, k) \in Seq(E) /\ Len(SubSeq(o, 1, k)) = k
          /\ \A i \in 1 .. k : SubSeq(o, 1, k)[i] = o[i]
      BY <3>1
    <3>4. /\ DOMAIN outcome' = 1 .. k + 1
          /\ \A i \in 1 .. k : outcome'[i] = o[i]
          /\ outcome'[k + 1] = l
      BY <3>1, <3>2, <3>3
    <3>5. k + 1 \in DOMAIN outcome' /\ \A i \in DOMAIN outcome' : i \in 1 .. k \/ i = k + 1
      BY <3>1, <3>4
    <3>6. \A i \in 1 .. k : i \in DOMAIN o
      BY <3>1, <3>3
    <3>7. OnlyTheTarget'
      BY <2>2, <2>3, <2>5, <3>4, <3>5, <3>6 DEF OnlyTheTarget
    <3>8. GapsAreNoted'
      BY <2>3, <3>4, <3>5 DEF GapsAreNoted
    <3> QED BY <1>2, <1>3, <1>4, <3>7, <3>8
  <2> QED BY <2>4, <2>6, <2>7
<1> QED BY <1>5, <1>6

LEMMA TelemetryKeeps ==
    ASSUME TelemetryInv, [TelemetryNext]_telemetryVars
    PROVE  TelemetryInv'
<1>1. CASE UNCHANGED telemetryVars
  BY <1>1 DEF telemetryVars, TelemetryInv, TellsTarget, TakesOwn, MissesNothing, Faultless, Knows, Told,
              OnlyTheTarget, GapsAreNoted, Says
<1>2. CASE CollectStep
  BY <1>2, SessionStateKeeps, DiscoverKeeps, EventsKeep, TakeKeeps, InspectKeeps, LogsKeep, PortsKeep,
     OrderTells DEF CollectStep
<1>3. CASE CollectCancelled \/ TargetStep
  BY <1>3, CancelKeeps, TargetKeeps
<1> QED BY <1>1, <1>2, <1>3 DEF TelemetryNext

\* The timeline tells of the containers of the session only, and never of
\* the probes of the collector (executor/runtime_telemetry.py, collect).
THEOREM TellsOfTheTarget == TelemetrySpec => []OnlyTheTarget
<1>1. TelemetryInv => OnlyTheTarget
  BY DEF TelemetryInv
<1> QED BY <1>1, TelemetryStarts, TelemetryKeeps, PTL DEF TelemetrySpec

\* A finished timeline has the state and the log of every container that is
\* still there, or notes an error or a cut (executor/runtime_telemetry.py);
\* of the ports, whose failed reads are passed over, nothing is claimed.
THEOREM StateGapsAreNoted == TelemetrySpec => []GapsAreNoted
<1>1. TelemetryInv => GapsAreNoted
  BY DEF TelemetryInv
<1> QED BY <1>1, TelemetryStarts, TelemetryKeeps, PTL DEF TelemetrySpec

---------------------------------------------------------------------------
\* FixVerification: types

\* No step of a verification leaves the types.
LEMMA FixKeepsTypes == FixTypeOK /\ [FixNext]_fixVars => FixTypeOK'
<1> SUFFICES ASSUME FixTypeOK, [FixNext]_fixVars PROVE FixTypeOK'
  OBVIOUS
<1> USE DEF FixTypeOK
<1>1. CASE FixCall
  <2>1. PICK confirmed \in BOOLEAN, same \in BOOLEAN, p \in Patches : Request(confirmed, same, p)
    BY <1>1 DEF FixCall
  <2>2. PICK n \in 0 .. MaxChecks : checks' \in [1 .. n -> Checks]
    BY <2>1 DEF Request
  <2>3. checks' \in Seq(Checks)
    BY <2>2, FixFiles
  <2> QED
    BY <2>1, <2>3 DEF Request
<1>2. CASE CheckScope
  BY <1>2 DEF CheckScope
<1>3. CASE CopyTarget
  BY <1>3 DEF CopyTarget
<1>4. CASE TryPatch
  BY <1>4 DEF TryPatch
<1>5. CASE ApplyPatch
  BY <1>5 DEF ApplyPatch
<1>6. CASE RunCheck
  <2>1. PICK o \in Process : results' = Append(results, o)
    BY <1>6 DEF RunCheck, Process
  <2>2. results' \in Seq(Process)
    BY <2>1
  <2> QED
    BY <1>6, <2>2 DEF RunCheck
<1>7. CASE RemoveCopy
  BY <1>7 DEF RemoveCopy
<1>8. CASE Judge
  BY <1>8 DEF Judge, FixVerdict
<1>9. CASE UNCHANGED fixVars
  BY <1>9 DEF fixVars
<1> QED
  BY <1>1, <1>2, <1>3, <1>4, <1>5, <1>6, <1>7, <1>8, <1>9 DEF FixNext, FixStep

LEMMA FixTypes == FixSpec => []FixTypeOK
<1>1. FixInit => FixTypeOK
  BY DEF FixInit, FixTypeOK, Patches, NoPatch
<1> QED
  BY <1>1, FixKeepsTypes, PTL DEF FixSpec

---------------------------------------------------------------------------
\* ChatView: types

\* What a stream sends.
Event == [event : {"snapshot", "done"}, data : Snapshots]

\* A reader puts a snapshot together from its two transactions.
LEMMA ReadsSnapshot ==
    ASSUME ViewTypeOK, NEW r \in Readers
    PROVE  /\ [run |-> run, summary |-> seen[r] = "with"] \in Snapshots
           /\ [seen EXCEPT ![r] = "no"] \in [Readers -> {"no", "without", "with"}]
           /\ [seen EXCEPT ![r] = IF summary THEN "with" ELSE "without"] \in [Readers -> {"no", "without", "with"}]
BY DEF ViewTypeOK, Snapshots

\* Neither the server nor the browser leaves the types.
LEMMA ViewKeepsTypes == ViewTypeOK /\ [ViewNext]_viewVars => ViewTypeOK'
<1> SUFFICES ASSUME ViewTypeOK, [ViewNext]_viewVars PROVE ViewTypeOK'
  OBVIOUS
<1> USE DEF ViewTypeOK, Client
<1>0. "stream" \in Readers /\ "poll" \in Readers
  BY DEF Readers
<1>1. CASE Work \/ CancelRun
  BY <1>1 DEF Work, CancelRun, RunStatuses, RunActive
<1>2. CASE StreamReads \/ PollReads
  BY <1>0, <1>2, ReadsSnapshot DEF StreamReads, PollReads, ReadMessages
<1>3. CASE Send
  <2>1. PICK s \in Snapshots :
          /\ Reads("stream", s)
          /\ last' = s
          /\ wire' = wire \o (IF s = last THEN <<>> ELSE <<[event |-> "snapshot", data |-> s]>>)
                          \o (IF s.run \in RunActive THEN <<>> ELSE <<[event |-> "done", data |-> s]>>)
    BY <1>3 DEF Send
  <2>2. /\ (IF s = last THEN <<>> ELSE <<[event |-> "snapshot", data |-> s]>>) \in Seq(Event)
        /\ (IF s.run \in RunActive THEN <<>> ELSE <<[event |-> "done", data |-> s]>>) \in Seq(Event)
    <3>1. [event |-> "snapshot", data |-> s] \in Event /\ [event |-> "done", data |-> s] \in Event
      BY DEF Event
    <3>2. /\ <<[event |-> "snapshot", data |-> s]>> \in Seq(Event)
          /\ <<[event |-> "done", data |-> s]>> \in Seq(Event)
          /\ <<>> \in Seq(Event)
      BY <3>1
    <3> QED
      BY <3>2
  <2>3. wire' \in Seq(Event)
    BY <2>1, <2>2 DEF Event
  <2> QED
    BY <1>0, <1>3, <2>1, <2>3, ReadsSnapshot DEF Send, Reads, Event
<1>4. CASE Answer
  <2>1. PICK s \in Snapshots : Reads("poll", s) /\ answer' = s
    BY <1>4 DEF Answer
  <2> QED
    BY <1>0, <1>4, <2>1, ReadsSnapshot DEF Answer, Reads
<1>5. CASE Connect
  BY <1>0, <1>5, ReadsSnapshot DEF Connect, NewStream
<1>6. CASE Handle
  <2>1. wire \in Seq(Event) /\ wire # <<>>
    BY <1>6 DEF Handle, Event
  <2>2. Head(wire) \in Event /\ Tail(wire) \in Seq(Event)
    BY <2>1
  <2>3. Head(wire).data \in Snapshots
    BY <2>2 DEF Event
  <2> QED
    BY <1>6, <2>2, <2>3 DEF Handle, Shows, Event
<1>7. CASE Refetched
  BY <1>7 DEF Refetched, Shows
<1>8. CASE Poll
  BY <1>8 DEF Poll
<1>9. CASE Disconnect
  BY <1>9, ViewBounds DEF Disconnect
<1>10. CASE UNCHANGED viewVars
  BY <1>10 DEF viewVars
<1> QED
  BY <1>1, <1>2, <1>3, <1>4, <1>5, <1>6, <1>7, <1>8, <1>9, <1>10 DEF ViewNext, ServerStep, ClientStep

LEMMA ViewTypes == ViewSpec => []ViewTypeOK
<1>1. ViewInit => ViewTypeOK
  <2> SUFFICES ASSUME ViewInit PROVE ViewTypeOK
    OBVIOUS
  <2>1. view \in Snapshots /\ run \in RunStatuses
    BY DEF ViewInit, Snapshots, RunStatuses, RunActive
  <2>2. seen \in [Readers -> {"no", "without", "with"}] /\ wire \in Seq([event : {"snapshot", "done"}, data : Snapshots])
    BY DEF ViewInit
  <2>3. drops \in 0 .. MaxDrops
    BY ViewBounds DEF ViewInit
  <2> QED
    BY <2>1, <2>2, <2>3 DEF ViewInit, ViewTypeOK
<1> QED
  BY <1>1, ViewKeepsTypes, PTL DEF ViewSpec

---------------------------------------------------------------------------
\* AgentReasoning: types

\* What a step of the agent's model may say, and be.
Sayings == Conclusions \cup {"none"}

Thoughts == [by : {"none", "guard", "llm", "deterministic", "raised"}, says : Sayings, plan : Plans \cup {<<>>}]

\* Who answers without a model answers in the types as well.
LEMMA ThoughtsOfOneStep ==
    ASSUME NEW by \in {"none", "guard", "llm", "deterministic", "raised"}, NEW says \in Sayings
    PROVE  Thought(by, says) \in Thoughts
BY DEF Thought, Thoughts

LEMMA DeterministicThoughts == Deterministic \subseteq Thoughts
<1> SUFFICES ASSUME NEW t \in Deterministic PROVE t \in Thoughts
  OBVIOUS
<1>1. CASE question.kind = "reevaluate"
  <2>1. PICK f \in Facts : t = Thought("deterministic", CheckedVerdict("deterministic", DeterministicVerdict(f), f))
    BY <1>1 DEF Deterministic
  <2>2. DeterministicVerdict(f) \in Conclusions
    BY DEF DeterministicVerdict, AtLimit, Facts, Conclusions
  <2>3. CheckedVerdict("deterministic", DeterministicVerdict(f), f) \in Conclusions
    BY <2>2 DEF CheckedVerdict, AtLimit, Conclusions
  <2> QED
    BY <2>1, <2>3, ThoughtsOfOneStep DEF Sayings
<1>2. CASE question.kind # "reevaluate"
  BY <1>2, ThoughtsOfOneStep DEF Deterministic, Sayings
<1> QED
  BY <1>1, <1>2

\* No route, answer or fallback leaves the types.
LEMMA ReasonKeepsTypes == ReasonTypeOK /\ [ReasonNext]_reasonVars => ReasonTypeOK'
<1> SUFFICES ASSUME ReasonTypeOK, [ReasonNext]_reasonVars PROVE ReasonTypeOK'
  OBVIOUS
<1> USE RoutesCount DEF ReasonTypeOK
<1>0. thought \in Thoughts /\ (thought' \in Thoughts => thought' \in [by : {"none", "guard", "llm", "deterministic", "raised"},
                    says : Conclusions \cup {"none"}, plan : Plans \cup {<<>>}])
  BY DEF Thoughts, Sayings
<1>1. CASE ReasonCall
  <2>1. PICK kind \in {"probe", "plan", "reevaluate"}, guard \in {"none", "confirmed", "rejected", "inconclusive"},
             artifacts \in 0 .. 2, providers \in SUBSET ({Routes[i] : i \in RouteNumbers} \cup {"account"}) :
               Begin(kind, guard, artifacts, providers, kind = "probe")
    BY <1>1 DEF ReasonCall
  <2>2. question' \in [kind : {"none", "probe", "plan", "reevaluate"}, guard : Conclusions \cup {"none"}]
    BY <2>1 DEF Begin, Conclusions
  <2>3. thought' \in Thoughts
    BY <1>0, <2>1, ThoughtsOfOneStep DEF Begin, Sayings, Conclusions
  <2> QED
    BY <1>0, <2>1, <2>2, <2>3 DEF Begin
<1>2. CASE SkipRoute
  BY <1>2 DEF SkipRoute, RouteNumbers
<1>3. CASE AskRoute
  <2>1. CASE reply' = "raised" /\ UNCHANGED <<nextRoute, attempts, selected, refused>>
    BY <1>3, <2>1 DEF AskRoute
  <2>2. ASSUME NEW status \in Answers \ {"escapes"}, Asks(status) PROVE ReasonTypeOK'
    <3>1. nextRoute \in RouteNumbers /\ UNCHANGED <<question, thought>>
      BY <1>3 DEF AskRoute
    <3>2. [route |-> nextRoute, status |-> status] \in [route : RouteNumbers, status : Statuses]
      BY <2>2, <3>1, AnswersAreStatuses
    <3>3. attempts' \in Seq([route : RouteNumbers, status : Statuses])
      BY <2>2, <3>2 DEF Asks
    <3>4. nextRoute' \in 1 .. Len(Routes) + 1 /\ selected' \in 0 .. Len(Routes)
      BY <2>2, <3>1 DEF Asks, RouteNumbers
    <3>5. reply' \in {"valid", "pending"}
      BY <2>2 DEF Asks
    <3> QED
      BY <3>1, <3>3, <3>4, <3>5
  <2> QED
    BY <1>3, <2>1, <2>2 DEF AskRoute
<1>4. CASE RoutesEnd
  BY <1>4 DEF RoutesEnd
<1>5. CASE UseReply
  <2>1. thought' \in Thoughts
    <3>1. ASSUME NEW says \in Conclusions, NEW f \in Facts,
                 thought' = Thought("llm", CheckedVerdict("llm", says, f))
          PROVE  thought' \in Thoughts
      <4>1. CheckedVerdict("llm", says, f) \in Sayings
        BY DEF CheckedVerdict, AtLimit, Conclusions, Sayings
      <4> QED
        BY <3>1, <4>1, ThoughtsOfOneStep
    <3>2. ASSUME NEW steps \in Plans, thought' = [Thought("llm", "none") EXCEPT !.plan = steps]
          PROVE  thought' \in Thoughts
      BY <3>2 DEF Thought, Thoughts, Sayings
    <3> QED
      BY <1>5, <3>1, <3>2, DeterministicThoughts DEF UseReply
  <2> QED
    BY <1>0, <1>5, <2>1 DEF UseReply
<1>6. CASE FallBack
  <2>1. thought' \in Thoughts
    BY <1>6, DeterministicThoughts, ThoughtsOfOneStep DEF FallBack, Sayings
  <2> QED
    BY <1>0, <1>6, <2>1 DEF FallBack
<1>7. CASE UNCHANGED reasonVars
  BY <1>7 DEF reasonVars
<1> QED
  BY <1>1, <1>2, <1>3, <1>4, <1>5, <1>6, <1>7 DEF ReasonNext, ReasonStep

LEMMA ReasonTypes == ReasonSpec => []ReasonTypeOK
<1>1. ReasonInit => ReasonTypeOK
  BY RoutesCount, ThoughtsOfOneStep DEF ReasonInit, ReasonTypeOK, NoThought, Thoughts, Sayings
<1> QED
  BY <1>1, ReasonKeepsTypes, PTL DEF ReasonSpec

---------------------------------------------------------------------------
\* SandboxSession and AgentLab: types

\* What a session can leave in docker, and be.
Resources == {"container", "network", "volume", "image"}

SessionStatuses == {"created", "preparing", "starting", "ready", "tearing_down", "closed", "failed", "timed_out"}

Commands == {"new", "ready", "over"} \cup Preparing \cup TearingDown

\* An adapter makes no other resources.
LEMMA KindsAreResources == Kinds \subseteq Resources
BY DEF Kinds, Resources

\* The ways in which a command ends.
LEMMA StartFailsTypes ==
    ASSUME SessionTypeOK, NEW o, StartFails(o), live' \subseteq Resources
    PROVE  SessionTypeOK'
<1>1. failure' \in Ends /\ sstatus' \in SessionStatuses /\ pc' \in TearingDown
  BY DEF StartFails, Raised, Ends, SessionTypeOK, SessionStatuses, Goes, FirstOfTeardown, TearingDown
<1> QED
  BY <1>1 DEF StartFails, SessionTypeOK, SessionStatuses, Resources

LEMMA ContinueTypes ==
    ASSUME SessionTypeOK, NEW to \in Commands, NEW STATE sstatus1, sstatus1 \in SessionStatuses,
           Continue(to, sstatus1), live' \subseteq Resources
    PROVE  SessionTypeOK'
BY DEF Continue, Goes, Commands, SessionTypeOK, SessionStatuses, Resources

LEMMA ReadyTypes ==
    ASSUME SessionTypeOK, Goes("ready"), managed' = "ready", live' = live,
           UNCHANGED <<adapter, phase, sstatus, closed, tornDown, doubt, failure, cancelled, guests, dir>>
    PROVE  SessionTypeOK'
BY DEF Goes, SessionTypeOK

LEMMA TeardownRaisesTypes ==
    ASSUME SessionTypeOK, TeardownRaises, live' \subseteq Resources, sstatus' \in SessionStatuses, dir' \in BOOLEAN
    PROVE  SessionTypeOK'
<1>1. /\ pc' \in {"down", "over"} /\ phase' \in {"start", "again", "exit"} /\ closed' \in BOOLEAN
      /\ managed' \in {"created", "starting", "ready", "timed_out", "failed", "tearing_down", "closed"}
  BY DEF TeardownRaises, SessionTypeOK, ManagedFails, Goes
<1> QED
  BY <1>1 DEF TeardownRaises, SessionTypeOK, SessionStatuses, Resources, Ends, TearingDown

LEMMA ManagedEndsTypes ==
    ASSUME SessionTypeOK, ManagedEnds, live' \subseteq Resources, sstatus' \in SessionStatuses,
           {dir', tornDown', doubt'} \subseteq BOOLEAN
    PROVE  SessionTypeOK'
BY DEF ManagedEnds, ManagedFails, Goes, SessionTypeOK, SessionStatuses, Resources

\* A command of docker leaves the session in a state that it knows.
LEMMA SessionStepTypes ==
    ASSUME SessionTypeOK, SessionStep
    PROVE  SessionTypeOK'
<1>0. /\ live \subseteq Resources /\ sstatus \in SessionStatuses /\ Kinds \subseteq Resources
      /\ {dir, tornDown, doubt, closed} \subseteq BOOLEAN
  BY KindsAreResources DEF SessionTypeOK, SessionStatuses, Resources
<1>1. CASE Prepare
  BY <1>0, <1>1, StartFailsTypes, ContinueTypes DEF Prepare, Commands, Preparing, SessionStatuses
<1>2. CASE Up
  <2>1. PICK o \in Outcomes :
           /\ live' \in IF o = "ok" THEN {Kinds} ELSE SUBSET Kinds
           /\ CASE o = "ok" -> Continue("wait", sstatus)
                [] o \in {"failed", "timeout"} -> Continue("down_between", sstatus)
                [] OTHER -> StartFails(o)
    BY <1>2 DEF Up
  <2>2. Continue("wait", sstatus) \/ Continue("down_between", sstatus) \/ StartFails(o)
    BY <2>1
  <2> QED
    BY <1>0, <2>1, <2>2, StartFailsTypes, ContinueTypes DEF Commands, Preparing
<1>3. CASE DownBetween
  <2>1. PICK o \in Outcomes :
           /\ live' \in IF o = "ok" THEN {{}} ELSE SUBSET live
           /\ IF o \in {"ok", "failed"} THEN Continue("up_again", sstatus) ELSE StartFails(o)
    BY <1>3 DEF DownBetween
  <2> QED
    BY <1>0, <2>1, StartFailsTypes, ContinueTypes DEF Commands, Preparing
<1>4. CASE UpAgain
  <2>1. PICK o \in Outcomes :
           /\ live' \in IF o = "ok" THEN {Kinds} ELSE {live \cup more : more \in SUBSET Kinds}
           /\ IF o = "ok" THEN Continue("wait", sstatus) ELSE StartFails(o)
    BY <1>4 DEF UpAgain
  <2>2. live' \subseteq Resources
    BY <1>0, <2>1
  <2> QED
    BY <1>0, <2>1, <2>2, StartFailsTypes, ContinueTypes DEF Commands, Preparing
<1>5. CASE WaitUntilReady
  <2>1. PICK o \in Outcomes : IF o = "ok" THEN Continue("collect", "ready") ELSE StartFails(o)
    BY <1>5 DEF WaitUntilReady
  <2> QED
    BY <1>0, <1>5, <2>1, StartFailsTypes, ContinueTypes DEF WaitUntilReady, Commands, Preparing, SessionStatuses
<1>6. CASE CollectState
  BY <1>0, <1>6, StartFailsTypes, ReadyTypes DEF CollectState
<1>7. CASE BuildImage
  <2>1. PICK o \in Outcomes :
           /\ live' \in IF o = "ok" THEN {{"image"}} ELSE {{}, {"image"}}
           /\ IF o = "ok" THEN Continue("run", sstatus) ELSE StartFails(o)
    BY <1>7 DEF BuildImage
  <2>2. live' \subseteq Resources
    BY <2>1 DEF Resources
  <2> QED
    BY <1>0, <2>1, <2>2, StartFailsTypes, ContinueTypes DEF Commands, Preparing
<1>8. CASE RunImage
  <2>1. PICK o \in Outcomes :
           /\ live' \in IF o = "ok" THEN {Kinds} ELSE {live, Kinds}
           /\ IF o = "ok" THEN Continue("health", sstatus) ELSE StartFails(o)
    BY <1>8 DEF RunImage
  <2> QED
    BY <1>0, <2>1, StartFailsTypes, ContinueTypes DEF Commands, Preparing
<1>9. CASE WaitHealth
  BY <1>0, <1>9, StartFailsTypes, ReadyTypes DEF WaitHealth
<1>10. CASE Down
  <2>1. PICK o \in Outcomes :
           /\ live' \in IF o = "ok" THEN {live \cap (IF guests = {} THEN {} ELSE {"network"})} ELSE Removed
           /\ IF o = "broken"
              THEN TeardownRaises
              ELSE /\ Goes(IF o = "ok" THEN "verify" ELSE "remove")
                   /\ UNCHANGED <<adapter, phase, managed, closed, tornDown, doubt, failure, cancelled, guests>>
    BY <1>10 DEF Down
  <2>2. live' \subseteq Resources
    BY <1>0, <2>1 DEF Removed
  <2>3. sstatus' = "tearing_down" /\ dir' = dir
    BY <1>10 DEF Down
  <2>4. CASE TeardownRaises
    BY <1>0, <2>2, <2>3, <2>4, TeardownRaisesTypes DEF SessionStatuses
  <2>5. CASE /\ Goes(IF o = "ok" THEN "verify" ELSE "remove")
             /\ UNCHANGED <<adapter, phase, managed, closed, tornDown, doubt, failure, cancelled, guests>>
    BY <2>2, <2>3, <2>5 DEF Goes, SessionTypeOK, Resources, TearingDown
  <2> QED
    BY <2>1, <2>4, <2>5
<1>11. CASE RemoveByLabel
  <2>1. live' \subseteq Resources
    BY <1>0, <1>11 DEF RemoveByLabel, Removed
  <2>2. sstatus' = sstatus /\ dir' = dir
    BY <1>11 DEF RemoveByLabel
  <2>3. CASE TeardownRaises
    BY <1>0, <2>1, <2>2, <2>3, TeardownRaisesTypes
  <2>4. CASE /\ doubt' \in BOOLEAN
             /\ Goes("verify")
             /\ UNCHANGED <<adapter, phase, managed, closed, tornDown, failure, cancelled, guests>>
    BY <2>1, <2>2, <2>4 DEF Goes, SessionTypeOK, Resources, TearingDown
  <2> QED
    BY <1>11, <2>3, <2>4 DEF RemoveByLabel
<1>12. CASE Verify
  <2>1. live' = live
    BY <1>12 DEF Verify
  <2>2. CASE TeardownRaises /\ UNCHANGED <<sstatus, dir>>
    BY <1>0, <2>1, <2>2, TeardownRaisesTypes
  <2>3. CASE sstatus' \in {"failed", "closed"} /\ tornDown' = TRUE /\ dir' = FALSE /\ ManagedEnds /\ UNCHANGED doubt
    BY <1>0, <2>1, <2>3, ManagedEndsTypes DEF SessionStatuses
  <2> QED
    BY <1>12, <2>2, <2>3 DEF Verify
<1>13. CASE RemoveContainer
  <2>1. PICK o \in Outcomes :
          /\ live' \in IF o = "ok" THEN {live \ {"container"}} ELSE {live, live \ {"container"}}
          /\ IF o \in {"ok", "failed"}
             THEN Goes("rm_image") /\ UNCHANGED <<adapter, phase, managed, closed, tornDown,
                                        doubt, failure, cancelled, guests, dir>>
             ELSE TeardownRaises /\ dir' = FALSE
    BY <1>13 DEF RemoveContainer
  <2>2. live' \subseteq Resources /\ sstatus' = sstatus
    BY <1>0, <1>13, <2>1 DEF RemoveContainer
  <2>3. CASE TeardownRaises /\ dir' = FALSE
    BY <1>0, <2>2, <2>3, TeardownRaisesTypes
  <2>4. CASE Goes("rm_image") /\ UNCHANGED <<adapter, phase, managed, closed, tornDown,
                                        doubt, failure, cancelled, guests, dir>>
    BY <2>2, <2>4 DEF Goes, SessionTypeOK, Resources, TearingDown
  <2> QED
    BY <2>1, <2>3, <2>4
<1>14. CASE RemoveImage
  <2>1. PICK o \in Outcomes :
          /\ live' \in IF o = "ok" THEN {live \ {"image"}} ELSE {live, live \ {"image"}}
          /\ IF o \in {"ok", "failed"} THEN ManagedEnds /\ UNCHANGED <<tornDown, doubt>>
                                       ELSE TeardownRaises
    BY <1>14 DEF RemoveImage
  <2>2. live' \subseteq Resources /\ sstatus' = sstatus /\ dir' = FALSE
    BY <1>0, <1>14, <2>1 DEF RemoveImage
  <2> QED
    BY <1>0, <2>1, <2>2, TeardownRaisesTypes, ManagedEndsTypes
<1> QED
  BY <1>1, <1>2, <1>3, <1>4, <1>5, <1>6, <1>7, <1>8, <1>9, <1>10, <1>11, <1>12, <1>13, <1>14 DEF SessionStep

\* So does what the pipeline does in the session.
LEMMA BodyTypes ==
    ASSUME SandboxTypeOK, BodyStep
    PROVE  SandboxTypeOK'
<1> USE LabBounds DEF SandboxTypeOK, LabTypeOK
<1>1. ASSUME SessionKept, guests' \subseteq {"lab", "probe", "sequence"} PROVE SessionTypeOK'
  BY <1>1 DEF SessionKept, SessionTypeOK
<1>2. guests \subseteq {"lab", "probe", "sequence"}
  BY DEF SessionTypeOK
<1>3. CASE BuildMap
  <2>1. guests' \subseteq {"lab", "probe", "sequence"}
    BY <1>2, <1>3 DEF BuildMap
  <2> QED
    BY <1>1, <1>3, <2>1 DEF BuildMap
<1>4. CASE CancelledBetween
  BY <1>1, <1>2, <1>4 DEF CancelledBetween
<1>5. CASE BeginGraph
  BY <1>1, <1>2, <1>5 DEF BeginGraph
<1>6. CASE GraphEnds
  BY <1>1, <1>2, <1>6 DEF GraphEnds, LeaveGraph
<1>7. CASE OpenLab
  <2>1. guests' \subseteq {"lab", "probe", "sequence"}
    BY <1>2, <1>7 DEF OpenLab, Detached
  <2>2. budget' \in 0 .. MaxActions
    BY <1>7 DEF OpenLab
  <2>3. UNCHANGED <<backend, managedLab, dead, todo>> /\ SessionKept
    BY <1>7 DEF OpenLab, LeaveGraph
  <2>4. /\ lab' \in {"made", "started"} /\ step' \in {"graph", "close"}
        /\ sandbox' \in {"lab", sandbox} /\ unwinding' \in {"error", unwinding}
    BY <1>7 DEF OpenLab, LeaveGraph, Holds
  <2> QED
    BY <1>1, <2>1, <2>2, <2>3, <2>4
<1>14. CASE DenyAction
  BY <1>1, <1>2, <1>14 DEF DenyAction
<1>8. CASE BeginAction
  <2>1. guests' \subseteq {"lab", "probe", "sequence"}
    BY <1>2, <1>8 DEF BeginAction, Detached
  <2> QED
    BY <1>1, <1>8, <2>1 DEF BeginAction, LeaveGraph
<1>9. CASE ActionEnds
  <2>1. guests' \subseteq {"lab", "probe", "sequence"}
    BY <1>2, <1>9 DEF ActionEnds, CloseSequence, RemovedAnyway
  <2> QED
    BY <1>1, <1>9, <2>1 DEF ActionEnds
<1>10. CASE StopProcess
  BY <1>1, <1>2, <1>10 DEF StopProcess, LeaveGraph
<1>11. CASE StopClient
  BY <1>1, <1>2, <1>11 DEF StopClient
<1>12. CASE CloseLab
  <2>1. guests' \subseteq {"lab", "probe", "sequence"}
    BY <1>2, <1>12 DEF CloseLab, RemovedAnyway
  <2> QED
    BY <1>1, <1>12, <2>1 DEF CloseLab
<1>13. CASE AllFindingsDone
  BY <1>1, <1>2, <1>13 DEF AllFindingsDone
<1> QED
  BY <1>3, <1>4, <1>5, <1>6, <1>7, <1>8, <1>9, <1>10, <1>11, <1>12, <1>13, <1>14 DEF BodyStep

LEMMA SandboxKeepsTypes == SandboxTypeOK /\ [SandboxNext]_sandboxVars => SandboxTypeOK'
<1> SUFFICES ASSUME SandboxTypeOK, [SandboxNext]_sandboxVars PROVE SandboxTypeOK'
  OBVIOUS
<1>1. ASSUME UNCHANGED labVars PROVE LabTypeOK'
  BY <1>1 DEF labVars, LabTypeOK, SandboxTypeOK
<1>2. CASE SandboxCall
  <2>1. ASSUME NEW a \in Adapters, Open(a) \/ OpenFails(a) PROVE SessionTypeOK'
    BY <2>1 DEF Open, OpenFails, Goes, SandboxTypeOK, SessionTypeOK, Preparing, Ends
  <2>2. ASSUME CopyFails PROVE SessionTypeOK'
    BY <2>2 DEF CopyFails, Goes, SandboxTypeOK, SessionTypeOK, Preparing, Ends, Adapters
  <2>3. ASSUME CancelSession PROVE SessionTypeOK'
    BY <2>3 DEF CancelSession, SandboxTypeOK, SessionTypeOK
  <2> QED
    BY <1>1, <1>2, <2>1, <2>2, <2>3 DEF SandboxCall, SandboxTypeOK
<1>3. CASE SandboxStep
  <2>1. ASSUME LeaveSession(unwinding) PROVE SessionTypeOK'
    BY <2>1 DEF LeaveSession, Goes, FirstOfTeardown, SandboxTypeOK, SessionTypeOK, LabTypeOK, TearingDown, Ends
  <2> QED
    BY <1>1, <1>3, <2>1, SessionStepTypes DEF SandboxStep, SandboxTypeOK
<1>4. CASE BodyStep
  BY <1>4, BodyTypes
<1>5. CASE UNCHANGED sandboxVars
  BY <1>5 DEF sandboxVars, sessionVars, labVars, SandboxTypeOK, SessionTypeOK, LabTypeOK
<1> QED
  BY <1>2, <1>3, <1>4, <1>5 DEF SandboxNext

LEMMA SandboxTypes == SandboxSpec => []SandboxTypeOK
<1>1. SandboxInit => SandboxTypeOK
  <2> SUFFICES ASSUME SandboxInit PROVE SandboxTypeOK
    OBVIOUS
  <2>1. SessionTypeOK
    BY DEF SandboxInit, SessionInit, SessionTypeOK, Adapters, Ends
  <2>2. LabTypeOK
    <3>1. todo \in 0 .. MaxFindings /\ budget \in 0 .. MaxActions
      BY LabBounds DEF SandboxInit, LabInit
    <3>2. {managedLab, dead} \subseteq BOOLEAN
      BY DEF SandboxInit, LabInit
    <3> QED
      BY <3>1, <3>2 DEF SandboxInit, LabInit, LabTypeOK
  <2> QED
    BY <2>1, <2>2 DEF SandboxTypeOK
<1> QED
  BY <1>1, SandboxKeepsTypes, PTL DEF SandboxSpec

---------------------------------------------------------------------------
\* RuntimeTelemetry: types

\* A timeline that is cut is one of events.
LEMMA CutKeepsEvents ==
    ASSUME instant \in Nat, NEW STATE s, s \in Seq(TelemetryEvents)
    PROVE  Cut(s) \in Seq(TelemetryEvents)
<1> DEFINE E == TelemetryEvents
           e == Note("limit", NoBox, instant)
<1>1. s \in Seq(E) /\ e \in E
  BY NotesAreEvents
<1>2. Cut(s) = IF Len(s) > MaxEvents THEN Append(SubSeq(s, 1, MaxEvents - 1), e) ELSE s
  BY DEF Cut
<1> HIDE DEF E, e
<1>3. CASE Len(s) > MaxEvents
  <2>1. SubSeq(s, 1, MaxEvents - 1) \in Seq(E)
    BY <1>1, <1>3, TelemetryBounds
  <2> QED
    BY <1>1, <1>2, <1>3, <2>1 DEF E
<1>4. CASE ~(Len(s) > MaxEvents)
  BY <1>1, <1>2, <1>4 DEF E
<1> QED
  BY <1>3, <1>4

LEMMA TelemetryKeepsTypes == TelemetryInv /\ TelemetryTypeOK /\ [TelemetryNext]_telemetryVars => TelemetryTypeOK'
<1> SUFFICES ASSUME TelemetryInv, TelemetryTypeOK, [TelemetryNext]_telemetryVars PROVE TelemetryTypeOK'
  OBVIOUS
<1>1. TelemetryInv'
  BY TelemetryKeeps
<1>2. /\ scoped' \in BOOLEAN
      /\ collecting' \in {"state", "discover", "events", "containers", "order", "done", "raised", "cancelled"}
      /\ outcome' = outcome \/ outcome' = Cut(InOrder)
  BY DEF TelemetryNext, CollectStep, SessionState, DiscoverContainers, ReadDockerEvents, TakeContainer, Inspect,
         ReadLogs, ProbePorts, Order, CollectCancelled, TargetStep, Turns, Vanishes, telemetryVars, AfterDiscovery,
         TelemetryTypeOK
<1>3. outcome' \in Seq(TelemetryEvents)
  BY <1>2, CutKeepsEvents, OrderKeepsEvents DEF TelemetryTypeOK
<1> QED
  BY <1>1, <1>2, <1>3 DEF TelemetryInv, TellsTarget, TakesOwn, TelemetryTypeOK

LEMMA TelemetryTypes == TelemetrySpec => []TelemetryTypeOK
<1>1. TelemetryInit => TelemetryInv /\ TelemetryTypeOK
  <2> SUFFICES ASSUME TelemetryInit PROVE TelemetryInv /\ TelemetryTypeOK
    OBVIOUS
  <2>1. TelemetryInv
    BY TelemetryStarts
  <2> QED
    BY <2>1 DEF TelemetryInit, TelemetryInv, TellsTarget, TakesOwn, TelemetryTypeOK
<1>2. TelemetryInv /\ TelemetryTypeOK /\ [TelemetryNext]_telemetryVars => (TelemetryInv /\ TelemetryTypeOK)'
  BY TelemetryKeeps, TelemetryKeepsTypes
<1> QED
  BY <1>1, <1>2, PTL DEF TelemetrySpec

---------------------------------------------------------------------------
\* ServiceParts

\* A step of the parts is a step of one of them, and leaves the others alone.
LEMMA PartsCompose ==
    ASSUME [PartsNext]_partsVars
    PROVE  /\ [SandboxNext]_sandboxVars
           /\ [FixNext]_fixVars
           /\ [ViewNext]_viewVars
           /\ [ReasonNext]_reasonVars
           /\ [ImportNext]_importVars
           /\ [TimelineNext]_timelineVars
           /\ [TelemetryNext]_telemetryVars
           /\ [InspectionNext]_inspectionVars
           /\ [DiscoveryNext]_discoveryVars
<1>1. CASE /\ part = "sandbox"
            /\ SandboxNext
            /\ UNCHANGED <<fixVars, viewVars, reasonVars, importVars,
                           timelineVars, telemetryVars, inspectionVars, discoveryVars>>
  BY <1>1
<1>2. CASE /\ part = "fix"
            /\ FixNext
            /\ UNCHANGED <<sandboxVars, viewVars, reasonVars, importVars,
                           timelineVars, telemetryVars, inspectionVars, discoveryVars>>
  BY <1>2
<1>3. CASE /\ part = "view"
            /\ ViewNext
            /\ UNCHANGED <<sandboxVars, fixVars, reasonVars, importVars,
                           timelineVars, telemetryVars, inspectionVars, discoveryVars>>
  BY <1>3
<1>4. CASE /\ part = "reasoning"
            /\ ReasonNext
            /\ UNCHANGED <<sandboxVars, fixVars, viewVars, importVars,
                           timelineVars, telemetryVars, inspectionVars, discoveryVars>>
  BY <1>4
<1>5. CASE /\ part = "import"
            /\ ImportNext
            /\ UNCHANGED <<sandboxVars, fixVars, viewVars, reasonVars,
                           timelineVars, telemetryVars, inspectionVars, discoveryVars>>
  BY <1>5
<1>6. CASE /\ part = "timeline"
            /\ TimelineNext
            /\ UNCHANGED <<sandboxVars, fixVars, viewVars, reasonVars,
                           importVars, telemetryVars, inspectionVars, discoveryVars>>
  BY <1>6
<1>7. CASE /\ part = "telemetry"
            /\ TelemetryNext
            /\ UNCHANGED <<sandboxVars, fixVars, viewVars, reasonVars,
                           importVars, timelineVars, inspectionVars, discoveryVars>>
  BY <1>7
<1>8. CASE /\ part = "inspection"
            /\ InspectionNext
            /\ UNCHANGED <<sandboxVars, fixVars, viewVars, reasonVars,
                           importVars, timelineVars, telemetryVars, discoveryVars>>
  BY <1>8
<1>9. CASE /\ part = "discovery"
            /\ DiscoveryNext
            /\ UNCHANGED <<sandboxVars, fixVars, viewVars, reasonVars,
                           importVars, timelineVars, telemetryVars, inspectionVars>>
  BY <1>9
<1>10. CASE UNCHANGED partsVars
  BY <1>10 DEF partsVars
<1> QED
  BY <1>1, <1>2, <1>3, <1>4, <1>5, <1>6, <1>7, <1>8, <1>9, <1>10 DEF PartsNext

\* A behaviour of ServiceParts is a behaviour of every part, so all that is
\* proved of a part holds when the parts are put together.
THEOREM PartsImplement ==
    PartsSpec => /\ SandboxSpec /\ FixSpec /\ ViewSpec /\ ReasonSpec /\ ImportSpec
                 /\ TimelineSpec /\ TelemetrySpec /\ InspectionSpec /\ DiscoverySpec
<1>1. PartsInit => /\ SandboxInit /\ FixInit /\ ViewInit /\ ReasonInit /\ ImportInit
                   /\ TimelineInit /\ TelemetryInit /\ InspectionInit /\ DiscoveryInit
  BY DEF PartsInit
<1>2. [PartsNext]_partsVars =>
         /\ [SandboxNext]_sandboxVars /\ [FixNext]_fixVars /\ [ViewNext]_viewVars
         /\ [ReasonNext]_reasonVars /\ [ImportNext]_importVars /\ [TimelineNext]_timelineVars
         /\ [TelemetryNext]_telemetryVars /\ [InspectionNext]_inspectionVars
         /\ [DiscoveryNext]_discoveryVars
  BY PartsCompose
<1> QED
  BY <1>1, <1>2, PTL DEF PartsSpec, SandboxSpec, FixSpec, ViewSpec, ReasonSpec, ImportSpec,
     TimelineSpec, TelemetrySpec, InspectionSpec, DiscoverySpec

\* Every variable of every part keeps its type, for all values of the
\* constants: no count leaves its bounds, no field gets a value that the
\* code does not know (for example ManagedSandboxSession.status).
THEOREM PartsTypeCorrect == PartsSpec => []PartsTypeOK
<1>1. ImportSpec => []ImportTypeOK
  <2>1. ImportInv => ImportTypeOK
    BY DEF ImportInv
  <2> QED
    BY <2>1, ImportInvInit, ImportInvInductive, PTL DEF ImportSpec
<1>2. TimelineSpec => []TimelineTypeOK
  <2>1. TimelineInv => TimelineTypeOK
    BY DEF TimelineInv
  <2> QED
    BY <2>1, TimelineInvInit, TimelineInvInductive, PTL DEF TimelineSpec
<1>3. InspectionInv => InspectionTypeOK
  BY DEF InspectionInv
<1>4. DiscoveryInv => DiscoveryTypeOK
  BY DEF DiscoveryInv
<1>5. SandboxTypeOK /\ FixTypeOK /\ ViewTypeOK /\ ReasonTypeOK /\ ImportTypeOK /\ TimelineTypeOK
         /\ TelemetryTypeOK /\ InspectionTypeOK /\ DiscoveryTypeOK => PartsTypeOK
  BY DEF PartsTypeOK
<1> QED
  BY <1>1, <1>2, <1>3, <1>4, <1>5, PartsImplement, SandboxTypes, FixTypes, ViewTypes, ReasonTypes,
     TelemetryTypes, InspectionInductive, DiscoveryInductive, PTL

\* What is promised of a part is kept with all parts together: sessions that
\* end closed are clean (SandboxSession.teardown), fixes and verdicts are
\* earned, imports are kept, timelines are true and whole, and neither an
\* inspection nor a discovery says less or more than the source.
THEOREM PartsAreSafe ==
    PartsSpec => [](/\ ClosedIsClean /\ VerifiedIsEarned /\ FailoverInOrder /\ VerdictNeedsEvidence
                    /\ AnsweredIsKept /\ GateIsLast /\ ProgressIsTrue /\ OnlyTheTarget /\ GapsAreNoted
                    /\ ConclusionIsSupported /\ IdsAreKept)
BY PartsImplement, ClosedSessionsAreClean, VerifiedFixes, FailoverOrdered, OnlyTheGuardDecides,
   ImportsAreKept, GateComesLast, ProgressTellsTheTruth, TellsOfTheTarget, StateGapsAreNoted,
   ConclusionsHold, DiscoveryKeepsIds, PTL
==============================================================================
