-------------------------- MODULE AgentReasoning --------------------------
(***************************************************************************)
(* One question of the agent (agent/llm_model.py): it is sent along the    *)
(* routes to language models in order (agent/llm.py; scripts/              *)
(* llm_fallback_router.py walks its routes the same way), and what the     *)
(* models do not answer, the deterministic model does (agent/model.py).    *)
(*                                                                         *)
(* The message of an error stands for the set of statuses whose sign it    *)
(* contains: the body of an answer, which is a part of it, may quote any.  *)
(***************************************************************************)
EXTENDS Naturals, Sequences

CONSTANTS
    Routes,     \* the provider of each route, in the order they are tried
    Candidates, \* registered candidates for a step of a plan
    MaxPlan     \* bound on the steps a model proposes

ASSUME ReasoningBounds == Routes \in Seq(STRING) /\ MaxPlan \in Nat

VARIABLES
    question,   \* its kind, and what the evidence guard says
    keys,       \* providers with a credential
    collects,   \* --probe-all: go on after the first answer
    nextRoute,
    refused,    \* blocked_providers
    attempts,   \* last_attempts: route and status
    selected,   \* last_selected_route, 0 for none
    reply,      \* what complete_model came to
    thought     \* the result of the question

reasonVars == <<question, keys, collects, nextRoute, refused, attempts, selected, reply, thought>>

RouteNumbers == 1 .. Len(Routes)

\* In the order of the tests of _classify_error.
Signs == <<"rate_limited", "auth_or_access", "payment_required",
           "model_or_endpoint_unavailable", "network_error", "invalid_structured_output">>

Refusals == {"rate_limited", "auth_or_access", "payment_required"}

Statuses == {Signs[i] : i \in DOMAIN Signs} \cup {"ok", "schema_validation_failed", "request_failed"}

\* An error may quote another one, or come from a body that is no JSON.
Messages == {{Signs[i]} : i \in DOMAIN Signs}
    \cup {{}, {"model_or_endpoint_unavailable", "rate_limited"}, {"auth_or_access", "network_error"}}

Conclusions == {"confirmed", "rejected", "inconclusive", "continue"}

\* What reevaluate looks at when the evidence guard does not decide: the
\* tool, status and outcome of the action, the verdict of its evidence,
\* and the iteration limit.
Facts == [noop : BOOLEAN, completed : BOOLEAN, evidence : {"none", "confirmed", "rejected"},
          outcome : {"confirmed", "rejected", "inconclusive"}, atLimit : BOOLEAN]

\* A step names a candidate or is a sandbox_command.
PlanSteps == Candidates \cup {"unknown", "command"}

Plans == UNION {[1 .. n -> PlanSteps] : n \in 1 .. MaxPlan}

ReasonTypeOK ==
    /\ question \in [kind : {"none", "probe", "plan", "reevaluate"},
                     guard : Conclusions \cup {"none"}]
    /\ nextRoute \in 1 .. Len(Routes) + 1
    /\ attempts \in Seq([route : RouteNumbers, status : Statuses])
    /\ selected \in 0 .. Len(Routes)
    /\ reply \in {"none", "pending", "valid", "unavailable", "raised"}
    /\ thought \in [by : {"none", "guard", "llm", "deterministic", "raised"},
                    says : Conclusions \cup {"none"}, plan : Plans \cup {<<>>}]

Thought(by, says) == [by |-> by, says |-> says, plan |-> <<>>]

NoThought == Thought("none", "none")

ReasonInit ==
    /\ question = [kind |-> "none", guard |-> "none"]
    /\ keys = {}
    /\ collects = FALSE
    /\ nextRoute = 1
    /\ refused = {}
    /\ attempts = <<>>
    /\ selected = 0
    /\ reply = "none"
    /\ thought = NoThought

---------------------------------------------------------------------------
\* complete_model and run_fallback

\* cloudflare also needs the id of an account.
Usable(i) ==
    /\ Routes[i] \in keys
    /\ Routes[i] = "cloudflare" => "account" \in keys

SkipRoute ==
    /\ reply = "pending"
    /\ nextRoute \in RouteNumbers
    /\ Routes[nextRoute] \in refused \/ ~Usable(nextRoute)
    /\ nextRoute' = nextRoute + 1
    /\ UNCHANGED <<question, keys, collects, refused, attempts, selected, reply, thought>>

Classify(message) ==
    IF message = {} THEN "request_failed"
    ELSE LET found == {i \in DOMAIN Signs : Signs[i] \in message}
         IN  Signs[CHOOSE i \in found : \A j \in found : i <= j]

\* "escapes": an error of a kind the loop does not catch (a connection
\* that is lost while the answer is read, an answer that is not an object).
Answers == {"ok", "schema_validation_failed", "escapes"} \cup {Classify(m) : m \in Messages}

Asks(status) ==
    /\ nextRoute' = nextRoute + 1
    /\ attempts' = Append(attempts, [route |-> nextRoute, status |-> status])
    /\ selected' = IF status = "ok" /\ selected = 0 THEN nextRoute ELSE selected
    /\ reply' = IF status = "ok" /\ ~collects THEN "valid" ELSE "pending"

\* Mutant: any failure blocks the provider.
AskRouteBlocksAny ==
    /\ reply = "pending"
    /\ nextRoute \in RouteNumbers
    /\ Routes[nextRoute] \notin refused /\ Usable(nextRoute)
    /\ \E status \in Answers \ {"escapes"} :
          /\ Asks(status)
          /\ refused' = IF status # "ok" THEN refused \cup {Routes[nextRoute]} ELSE refused
    /\ UNCHANGED <<question, keys, collects, thought>>

AskRoute ==
    /\ reply = "pending"
    /\ nextRoute \in RouteNumbers
    /\ Routes[nextRoute] \notin refused /\ Usable(nextRoute)
    /\ \E status \in Answers :
          \/ /\ status # "escapes"
             /\ Asks(status)
             /\ refused' = IF status \in Refusals THEN refused \cup {Routes[nextRoute]} ELSE refused
          \/ /\ status = "escapes"
             /\ reply' = "raised"
             /\ UNCHANGED <<nextRoute, attempts, selected, refused>>
    /\ UNCHANGED <<question, keys, collects, thought>>

RoutesEnd ==
    /\ reply = "pending"
    /\ nextRoute \notin RouteNumbers
    /\ reply' = IF selected = 0 THEN "unavailable" ELSE "valid"
    /\ UNCHANGED <<question, keys, collects, nextRoute, refused, attempts, selected, thought>>

---------------------------------------------------------------------------
\* DeterministicAgentModel

AtLimit(facts) == IF facts.atLimit THEN "inconclusive" ELSE "continue"

\* reevaluate, for an action that the evidence guard does not decide
DeterministicVerdict(facts) ==
    IF ~facts.completed THEN AtLimit(facts)
    ELSE IF ~facts.noop
    THEN IF facts.evidence = "none" THEN AtLimit(facts) ELSE facts.evidence
    ELSE IF facts.outcome = "inconclusive" THEN AtLimit(facts) ELSE facts.outcome

\* Mutant: only what a language model says is checked.
CheckedVerdictOfModels(by, says, facts) ==
    IF by = "llm" /\ says \in {"confirmed", "rejected"} THEN AtLimit(facts) ELSE says

\* The last check of FallbackLLMAgentModel.reevaluate
CheckedVerdict(by, says, facts) ==
    IF says \in {"confirmed", "rejected"} THEN AtLimit(facts) ELSE says

\* A plan of one step of its own, whose parameters were looked up before.
Deterministic ==
    IF question.kind = "reevaluate"
    THEN {Thought("deterministic", CheckedVerdict("deterministic", DeterministicVerdict(f), f)) :
             f \in Facts}
    ELSE {Thought("deterministic", "none")}

---------------------------------------------------------------------------
\* FallbackLLMAgentModel

\* The candidates for a plan need the trusted artifacts of the finding; a
\* profile that has none, or several, raises before a model is asked.
Lacks(kind, artifacts) == kind = "plan" /\ artifacts # 1

Begin(kind, guard, artifacts, providers, all) ==
    /\ question.kind = "none"
    /\ question' = [kind |-> kind, guard |-> guard]
    /\ keys' = providers
    /\ collects' = all
    /\ IF guard # "none"
       THEN thought' = Thought("guard", guard) /\ UNCHANGED reply
       ELSE IF Lacks(kind, artifacts)
       THEN thought' = Thought("raised", "none") /\ UNCHANGED reply
       ELSE reply' = "pending" /\ UNCHANGED thought
    /\ UNCHANGED <<nextRoute, refused, attempts, selected>>

PlanAccepted(steps, max) ==
    /\ Len(steps) <= max
    /\ \A i, j \in DOMAIN steps : steps[i] = steps[j] => i = j \/ steps[i] = "command"
    /\ \A i \in DOMAIN steps : steps[i] # "unknown"

\* An answer has the shape of the schema; what else a plan must satisfy
\* raises ValueError, and the deterministic model makes it.
UseReply ==
    /\ reply = "valid"
    /\ thought = NoThought
    /\ \/ /\ question.kind = "reevaluate"
          /\ \E says \in Conclusions, f \in Facts :
                thought' = Thought("llm", CheckedVerdict("llm", says, f))
       \/ /\ question.kind = "plan"
          /\ \E steps \in Plans, max \in 1 .. MaxPlan :
                IF PlanAccepted(steps, max) THEN thought' = [Thought("llm", "none") EXCEPT !.plan = steps]
                                            ELSE thought' \in Deterministic
    /\ UNCHANGED <<question, keys, collects, nextRoute, refused, attempts, selected, reply>>

FallBack ==
    /\ thought = NoThought
    /\ question.kind \in {"reevaluate", "plan"}
    /\ \/ reply = "unavailable" /\ thought' \in Deterministic
       \/ reply = "raised" /\ thought' = Thought("raised", "none")
    /\ UNCHANGED <<question, keys, collects, nextRoute, refused, attempts, selected, reply>>

ReasonStep == SkipRoute \/ AskRoute \/ RoutesEnd \/ UseReply \/ FallBack

\* The guard decides only a verdict; --probe-all is an option of the router.
ReasonCall ==
    \E kind \in {"probe", "plan", "reevaluate"}, guard \in {"none", "confirmed", "rejected", "inconclusive"},
       artifacts \in 0 .. 2, providers \in SUBSET ({Routes[i] : i \in RouteNumbers} \cup {"account"}) :
          /\ kind # "reevaluate" => guard = "none"
          /\ Begin(kind, guard, artifacts, providers, kind = "probe")

ReasonNext == ReasonCall \/ ReasonStep

ReasonSpec == ReasonInit /\ [][ReasonNext]_reasonVars

---------------------------------------------------------------------------
\* Properties

\* The routes are tried in order, and a provider is not asked again once it
\* refused; every usable route that was passed was asked, or comes after a
\* refusal of its provider; and the deterministic model answers only when no
\* route is left and none gave an answer, or when a plan was answered that
\* breaks a rule.  It is not said that a question is answered: a failure that
\* the loop does not catch (agent/llm.py:197) ends it with routes untried.
FailoverInOrder ==
    /\ \A i, j \in DOMAIN attempts :
          i < j => /\ attempts[i].route < attempts[j].route
                   /\ Routes[attempts[i].route] = Routes[attempts[j].route]
                         => attempts[i].status \notin Refusals
    /\ \A r \in RouteNumbers : r < nextRoute /\ Usable(r) =>
          \E i \in DOMAIN attempts :
             /\ Routes[attempts[i].route] = Routes[r]
             /\ \/ attempts[i].route = r
                \/ attempts[i].route < r /\ attempts[i].status \in Refusals
    /\ thought.by = "deterministic" =>
          \/ question.kind = "plan" /\ reply = "valid"
          \/ nextRoute = Len(Routes) + 1 /\ \A i \in DOMAIN attempts : attempts[i].status # "ok"

\* Whoever answers, and whatever the executed action says of itself, only
\* the evidence guard ends the question with a verdict.
VerdictNeedsEvidence ==
    thought.says \in {"confirmed", "rejected"} => thought.says = question.guard
===========================================================================
