----------------------------- MODULE Verdicts -----------------------------
(***************************************************************************)
(* What README.md promises of a verdict: the agent thinks, the Validator   *)
(* permits, the Executor executes, Evidence decides.  A case is one        *)
(* finding of one pipeline; an action <<case, n>> is the n-th check of it. *)
(* Nothing is said of the graph, of files, settings, limits or retries.    *)
(* CiPipeline implements this specification.                               *)
(***************************************************************************)
CONSTANTS Cases, Tries

VARIABLES
    permitted,  \* actions the Validator has approved
    executed,   \* actions that were started in a sandbox
    proven,     \* <<action, verdict>>: completed, stored and audited
    verdict     \* status of the report of each case, "none" before it

Terminal == {"confirmed", "rejected"}

Actions == Cases \X Tries

VerdictsInit ==
    /\ permitted = {}
    /\ executed = {}
    /\ proven = {}
    /\ verdict = [c \in Cases |-> "none"]

Permit(a) ==
    /\ permitted' = permitted \cup {a}
    /\ UNCHANGED <<executed, proven, verdict>>

\* An action is executed at most once, and only when it was permitted.
Execute(a) ==
    /\ a \in permitted \ executed
    /\ executed' = executed \cup {a}
    /\ UNCHANGED <<permitted, proven, verdict>>

\* The result of an executed action is stored and audited: it says v, or
\* nothing about the finding.
Prove(a, v) ==
    /\ a \in executed
    /\ proven' = proven \cup {<<a, v>>}
    /\ UNCHANGED <<permitted, executed, verdict>>

\* One report, and a terminal one only on the strength of what is proven.
Decide(c, v) ==
    /\ verdict[c] = "none"
    /\ v \in Terminal => \E n \in Tries : <<<<c, n>>, v>> \in proven
    /\ verdict' = [verdict EXCEPT ![c] = v]
    /\ UNCHANGED <<permitted, executed, proven>>

Outcomes == Terminal \cup {"nothing"}

Reports == Terminal \cup {"inconclusive", "policy_blocked"}

VerdictsNext ==
    \/ \E a \in Actions : Permit(a) \/ Execute(a) \/ \E v \in Outcomes : Prove(a, v)
    \/ \E c \in Cases, v \in Reports : Decide(c, v)

VerdictsSpec ==
    VerdictsInit /\ [][VerdictsNext]_<<permitted, executed, proven, verdict>>
===========================================================================
