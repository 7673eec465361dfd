-------------------------- MODULE RuntimeTelemetry --------------------------
(***************************************************************************)
(* executor/runtime_telemetry.py: after the findings are verified, what    *)
(* docker knows of the session's containers is collected into one timeline *)
(* while the containers run on, stop, or are removed.  Docker is external. *)
(*                                                                         *)
(* Every call of docker takes an instant; events keep the instant they are *)
(* about, errors and port probes that of the collector.                    *)
(***************************************************************************)
EXTENDS Naturals, Sequences, FiniteSets

CONSTANTS
    Containers,     \* of the session
    Strangers,      \* containers of others
    MaxEvents,      \* max_events (500)
    MaxTurns        \* how often containers stop or start meanwhile

ASSUME TelemetryBounds ==
    /\ Containers \cap Strangers = {}
    /\ "none" \notin Containers \cup Strangers
    /\ MaxEvents \in Nat \ {0}
    /\ MaxTurns \in Nat

VARIABLES
    collecting, \* the phase, or how it ended
    instant,
    scoped,     \* is the label known that the containers have
    boxes,      \* external: what each container is
    dockerLog,  \* external: what docker events would tell
    pending,    \* containers that were discovered and not yet looked at
    current,    \* the container in work, and what is next for it
    gathered,   \* events, in the order they were collected
    outcome     \* RuntimeTelemetryTimeline.events

telemetryVars == <<collecting, instant, scoped, boxes, dockerLog, pending, current,
                   gathered, outcome>>

Boxes == Containers \cup Strangers

NoBox == "none"

Kept == {"manager", "state", "log", "docker", "probe", "port"}

TelemetryEvents == [kind : Kept \cup {"error", "limit"}, box : Boxes \cup {NoBox}, at : Nat, naive : BOOLEAN]

TelemetryTypeOK ==
    /\ collecting \in {"state", "discover", "events", "containers", "order",
                       "done", "raised", "cancelled"}
    /\ instant \in Nat
    /\ scoped \in BOOLEAN
    /\ boxes \in [Boxes -> {"up", "stopped", "gone"}]
    /\ dockerLog \subseteq [box : Boxes, probe : BOOLEAN, at : Nat]
    /\ pending \subseteq Boxes
    /\ current \in [box : Boxes \cup {NoBox}, next : {"inspect", "logs", "ports"}]
    /\ gathered \in Seq(TelemetryEvents)
    /\ outcome \in Seq(TelemetryEvents)

Idle == [box |-> NoBox, next |-> "inspect"]

TelemetryInit ==
    /\ collecting = "state"
    /\ instant = 1
    /\ scoped = TRUE
    /\ boxes = [b \in Boxes |-> "up"]
    /\ dockerLog = {}
    /\ pending = {}
    /\ current = Idle
    /\ gathered = <<>>
    /\ outcome = <<>>

Note(kind, box, at) == [kind |-> kind, box |-> box, at |-> at, naive |-> FALSE]

Error(box) == Note("error", box, instant)

\* One call: docker answers, or the call fails or times out.
Calls == instant' = instant + 1

---------------------------------------------------------------------------
\* The target

\* A container stops, or is started again by its restart policy.
Turns(b, from, to) ==
    /\ collecting \in {"state", "discover", "events", "containers"}
    /\ boxes[b] = from
    /\ Cardinality({e \in dockerLog : ~e.probe}) < MaxTurns
    /\ boxes' = [boxes EXCEPT ![b] = to]
    /\ dockerLog' = dockerLog \cup {[box |-> b, probe |-> FALSE, at |-> instant]}
    /\ UNCHANGED <<collecting, instant, scoped, pending, current, gathered, outcome>>

Vanishes(b) ==
    /\ collecting \in {"state", "discover", "events", "containers"}
    /\ boxes[b] = "stopped"
    /\ boxes' = [boxes EXCEPT ![b] = "gone"]
    /\ UNCHANGED <<collecting, instant, scoped, dockerLog, pending, current, gathered,
                   outcome>>

---------------------------------------------------------------------------
\* collect, before the containers

\* What the session logged while it was started (_manager_events).
Started == <<Note("manager", NoBox, 0)>>

\* Without its state a session of Compose has no label to go by; the other
\* sessions have their own.
SessionState ==
    /\ collecting = "state"
    /\ Calls
    /\ \/ gathered' = Started /\ UNCHANGED scoped
       \/ gathered' = <<Error(NoBox)>> \o Started /\ scoped' \in BOOLEAN
    /\ collecting' = "discover"
    /\ UNCHANGED <<boxes, dockerLog, pending, current, outcome>>

\* Mutant: docker events are read after the containers were looked into.
AfterDiscoveryContainers == "containers"

AfterDiscovery == "events"

\* The filter of docker is by label, but not believed (see Inspect).
DiscoverContainers ==
    /\ collecting = "discover"
    /\ Calls
    /\ \/ /\ pending' \in {{b \in Containers : scoped /\ boxes[b] # "gone"} \cup s : s \in SUBSET Strangers}
          /\ UNCHANGED gathered
       \/ gathered' = Append(gathered, Error(NoBox)) /\ UNCHANGED pending
    /\ collecting' = AfterDiscovery
    /\ UNCHANGED <<scoped, boxes, dockerLog, current, outcome>>

\* The events up to now, in their order; the label is looked at again.
ReadDockerEvents ==
    LET own == {e \in dockerLog : scoped /\ e.box \in Containers}
        Ordered(s) == \A i, j \in DOMAIN s : i < j => s[i].at <= s[j].at
    IN  /\ collecting = "events"
        /\ Calls
        /\ \/ \E s \in [1 .. Cardinality(own) -> own] :
                 /\ Ordered(s) /\ own = {s[i] : i \in DOMAIN s}
                 /\ gathered' = gathered \o
                       [i \in DOMAIN s |-> Note(IF s[i].probe THEN "probe" ELSE "docker", s[i].box, s[i].at)]
           \/ gathered' = Append(gathered, Error(NoBox))
        /\ collecting' = IF AfterDiscovery = "events" THEN "containers" ELSE "order"
        /\ UNCHANGED <<scoped, boxes, dockerLog, pending, current, outcome>>

---------------------------------------------------------------------------
\* One container after the other

TakeContainer ==
    /\ collecting = "containers"
    /\ current = Idle
    /\ IF pending = {}
       THEN /\ collecting' = IF AfterDiscovery = "events" THEN "order" ELSE "events"
            /\ UNCHANGED <<pending, current>>
       ELSE \E b \in pending :
               /\ pending' = pending \ {b}
               /\ current' = [box |-> b, next |-> "inspect"]
               /\ UNCHANGED collecting
    /\ UNCHANGED <<instant, scoped, boxes, dockerLog, gathered, outcome>>

InWork(next) == collecting = "containers" /\ current.box # NoBox /\ current.next = next

\* Inspect fails, cannot be parsed, or shows another label.
Inspect ==
    /\ InWork("inspect")
    /\ Calls
    /\ \/ /\ current.box \in Containers
          /\ boxes[current.box] # "gone"
          /\ gathered' = Append(gathered, Note("state", current.box, instant))
          /\ current' = [current EXCEPT !.next = "logs"]
       \/ /\ gathered' = Append(gathered, Error(NoBox))
          /\ current' = Idle
    /\ UNCHANGED <<collecting, scoped, boxes, dockerLog, pending, outcome>>

\* A line has the time docker gives it.  A carriage return begins a new
\* line, whose first word may be a date without a zone.
ReadLogs ==
    /\ InWork("logs")
    /\ Calls
    /\ \/ /\ boxes[current.box] # "gone"
          /\ \E naive \in BOOLEAN :
                gathered' = Append(gathered, [Note("log", current.box, 1) EXCEPT !.naive = naive])
       \/ gathered' = Append(gathered, Error(current.box))
    /\ current' = IF boxes[current.box] = "up" THEN [current EXCEPT !.next = "ports"] ELSE Idle
    /\ UNCHANGED <<collecting, scoped, boxes, dockerLog, pending, outcome>>

\* The reads of tcp and tcp6, as one: docker exec in the container, which
\* docker logs as well.  A read that fails is passed over: no note of it.
ProbePorts ==
    /\ InWork("ports")
    /\ Calls
    /\ \/ /\ boxes[current.box] = "up"
          /\ dockerLog' = dockerLog \cup {[box |-> current.box, probe |-> TRUE, at |-> instant]}
          /\ gathered' \in {gathered, Append(gathered, Note("port", current.box, instant))}
       \/ UNCHANGED <<dockerLog, gathered>>
    /\ current' = Idle
    /\ UNCHANGED <<collecting, scoped, boxes, pending, outcome>>

---------------------------------------------------------------------------
\* _ordered

\* sorted is stable.
Before(i, j) == gathered[i].at < gathered[j].at \/ (gathered[i].at = gathered[j].at /\ i < j)

InOrder ==
    LET Place(i) == 1 + Cardinality({j \in DOMAIN gathered : Before(j, i)})
    IN  [n \in DOMAIN gathered |-> gathered[CHOOSE i \in DOMAIN gathered : Place(i) = n]]

\* Mutant: what is beyond the limit is cut off without a word.
CutSilently(s) == IF Len(s) > MaxEvents THEN SubSeq(s, 1, MaxEvents) ELSE s

Cut(s) ==
    IF Len(s) > MaxEvents
    THEN Append(SubSeq(s, 1, MaxEvents - 1), Note("limit", NoBox, instant))
    ELSE s

\* A time with a zone cannot be compared with one without.
Comparable == \A i, j \in DOMAIN gathered : gathered[i].naive = gathered[j].naive

Order ==
    /\ collecting = "order"
    /\ IF Comparable THEN outcome' = Cut(InOrder) /\ collecting' = "done"
                     ELSE collecting' = "raised" /\ UNCHANGED outcome
    /\ UNCHANGED <<instant, scoped, boxes, dockerLog, pending, current, gathered>>

\* check_cancelled, before every call.
CollectCancelled ==
    /\ collecting \in {"state", "discover", "events", "containers"}
    /\ collecting' = "cancelled"
    /\ UNCHANGED <<instant, scoped, boxes, dockerLog, pending, current, gathered, outcome>>

CollectStep ==
    SessionState \/ DiscoverContainers \/ ReadDockerEvents \/ TakeContainer \/ Inspect \/ ReadLogs
       \/ ProbePorts \/ Order

TargetStep == \E b \in Containers : Turns(b, "up", "stopped") \/ Turns(b, "stopped", "up") \/ Vanishes(b)

TelemetryNext == CollectStep \/ CollectCancelled \/ TargetStep

TelemetrySpec == TelemetryInit /\ [][TelemetryNext]_telemetryVars

---------------------------------------------------------------------------
\* Properties

Says(kind, box) == \E i \in DOMAIN outcome : outcome[i].kind = kind /\ outcome[i].box = box

\* A finished timeline has the state and the log of every container of the
\* session that is still there, or it says that a part could not be collected
\* or was cut off: a failure of any call but one is noted, and a cut is.  The
\* ports are the exception, of which nothing is said: a failed read of them
\* leaves a gap without a note (executor/runtime_telemetry.py:241).
GapsAreNoted ==
    collecting = "done" =>
       \/ \E i \in DOMAIN outcome : outcome[i].kind \in {"error", "limit"}
       \/ \A b \in Containers : boxes[b] # "gone" => Says("state", b) /\ Says("log", b)

\* The timeline tells of the target only: not of containers of others,
\* whatever docker lists, and not of the commands the collector itself ran
\* in the containers.
OnlyTheTarget ==
    \A i \in DOMAIN outcome :
       outcome[i].box \notin Strangers /\ outcome[i].kind # "probe"
===========================================================================
