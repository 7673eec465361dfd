---------------------------- MODULE RunTimeline ----------------------------
(***************************************************************************)
(* What a chat shows of a run while it goes on and after it: the worker    *)
(* appends progress events to a file (pipeline/progress.py), the service   *)
(* counts the last of them (api/service.py), and the browser places events *)
(* and cards by their times (frontend/src/lib/timeline.ts).                *)
(*                                                                         *)
(* The clock of the host, in milliseconds, does not go back.               *)
(***************************************************************************)
EXTENDS Naturals, Sequences, FiniteSets

CONSTANTS
    Total,      \* findings of the run, verified one after the other
    Stages,     \* events of stages before the findings, five at most
    Window,     \* events that read_progress returns (500)
    MaxClock,   \* bound on the clock
    Long        \* stands for the fallbacks of timeline.ts, 20 to 100 s

ASSUME TimelineBounds ==
    /\ {Total, Stages, Long} \subseteq Nat
    /\ {Window, MaxClock} \subseteq Nat \ {0}

VARIABLES
    now,
    events,     \* lines of the progress file
    missed,     \* the append of an event of a finding failed
    index,      \* the finding in work
    working,    \* where the worker is
    stamps,     \* the last time of evidence, a decision or an action of each finding, or 0
    reported,   \* findings with a report
    summaryAt, finishedAt   \* 0: not yet

timelineVars == <<now, events, missed, index, working, stamps, reported, summaryAt, finishedAt>>

Findings == 1 .. Total

StartedAt == 1

StageEvent == [kind |-> "stage", finding |-> 0]

ProgressEvents == [kind : {"stage", "finding_started", "finding_finished"}, finding : {0} \cup Findings]

TimelineTypeOK ==
    /\ now \in StartedAt .. MaxClock
    /\ events \in Seq(ProgressEvents)
    /\ missed \in BOOLEAN
    /\ index \in 1 .. Total + 1
    /\ working \in {"stages", "idle", "started", "reported", "gate", "summary", "finished"}
    /\ stamps \in [Findings -> 0 .. MaxClock]
    /\ reported \subseteq Findings
    /\ {summaryAt, finishedAt} \subseteq 0 .. MaxClock

TimelineInit ==
    /\ now = StartedAt
    /\ events = <<>>
    /\ missed = FALSE
    /\ index = 1
    /\ working = "stages"
    /\ stamps = [f \in Findings |-> 0]
    /\ reported = {}
    /\ summaryAt = 0
    /\ finishedAt = 0

Tick ==
    /\ now < MaxClock
    /\ now' = now + 1
    /\ UNCHANGED <<events, missed, index, working, stamps, reported, summaryAt, finishedAt>>

---------------------------------------------------------------------------
\* PipelineProgressRecorder, and the loop of pipeline_run over the findings

\* discovery, sandbox (twice), sast and verification, as far as they are
\* reached and their lines are not lost.
AnnounceStages ==
    /\ working = "stages"
    /\ \E n \in 0 .. Stages : events' = [i \in 1 .. n |-> StageEvent]
    /\ working' = "idle"
    /\ UNCHANGED <<now, missed, index, stamps, reported, summaryAt, finishedAt>>

\* An append that fails is ignored.
Appends(kind) ==
    \/ /\ events' = Append(events, [kind |-> kind, finding |-> index])
       /\ UNCHANGED missed
    \/ missed' = TRUE /\ UNCHANGED events

StartFinding ==
    /\ working = "idle"
    /\ index \in Findings
    /\ Appends("finding_started")
    /\ working' = "started"
    /\ UNCHANGED <<now, index, stamps, reported, summaryAt, finishedAt>>

\* A decision, an action or evidence; a static report has none of them.
Stamp ==
    /\ working = "started"
    /\ stamps' = [stamps EXCEPT ![index] = now]
    /\ UNCHANGED <<now, events, missed, index, working, reported, summaryAt, finishedAt>>

Report ==
    /\ working = "started"
    /\ reported' = reported \cup {index}
    /\ Appends("finding_finished")
    /\ working' = "reported"
    /\ UNCHANGED <<now, index, stamps, summaryAt, finishedAt>>

\* An exception, which may also come after the report.
FindingFails ==
    /\ working \in {"started", "reported"}
    /\ Appends("finding_finished")
    /\ working' = "idle"
    /\ index' = index + 1
    /\ UNCHANGED <<now, stamps, reported, summaryAt, finishedAt>>

NextFinding ==
    /\ working = "reported"
    /\ working' = "idle"
    /\ index' = index + 1
    /\ UNCHANGED <<now, events, missed, stamps, reported, summaryAt, finishedAt>>

\* What fails after the gate is one more event of a stage.
WriteGate ==
    /\ working = "idle"
    /\ index \notin Findings
    /\ working' = "gate"
    /\ events' \in {events, Append(events, StageEvent)}
    /\ UNCHANGED <<now, missed, index, stamps, reported, summaryAt, finishedAt>>

\* _execute_run posts the summary, then marks the run finished.
PostSummary ==
    /\ working = "gate"
    /\ summaryAt' = now
    /\ working' = "summary"
    /\ UNCHANGED <<now, events, missed, index, stamps, reported, finishedAt>>

FinishRun ==
    /\ working = "summary"
    /\ finishedAt' = now
    /\ working' = "finished"
    /\ UNCHANGED <<now, events, missed, index, stamps, reported, summaryAt>>

---------------------------------------------------------------------------
\* read_progress and _build_run_progress

Shown ==
    LET from == IF Len(events) > Window THEN Len(events) - Window ELSE 0
    IN  SubSeq(events, from + 1, Len(events))

Has(f, kind, upTo) == \E i \in 1 .. upTo : Shown[i].finding = f /\ Shown[i].kind = kind

\* Mutant: a finding that finished twice counts twice.
FindingsDoneEach == Cardinality({i \in DOMAIN Shown : Shown[i].kind = "finding_finished"})

FindingsDone == Cardinality({f \in Findings : Has(f, "finding_finished", Len(Shown))})

\* The last start, unless its finding or a later one finished; the start
\* of a finding that has finished already is passed over, and so is a stage.
CurrentFinding ==
    LET news == {i \in DOMAIN Shown :
                    \/ Shown[i].kind = "finding_finished"
                    \/ Shown[i].kind = "finding_started" /\ ~Has(Shown[i].finding, "finding_finished", i)}
        latest == CHOOSE i \in news : \A j \in news : j <= i
    IN  IF news = {} \/ Shown[latest].kind = "finding_finished" THEN 0 ELSE Shown[latest].finding

---------------------------------------------------------------------------
\* timeline.ts: the time of a card; equal times are ordered by kind

FinishedOr(fallback) == IF finishedAt # 0 THEN finishedAt ELSE StartedAt + fallback

FindingCard(f) == (IF stamps[f] # 0 THEN stamps[f] ELSE FinishedOr(Long)) + 1

\* Mutant: the gate has the time of the end of the run.
GateCardAtEnd == FinishedOr(Long)

GateCard == FinishedOr(Long) + 2

SummaryCard == IF summaryAt < finishedAt + 3 /\ finishedAt # 0 THEN finishedAt + 3 ELSE summaryAt

TimelineStep ==
    \/ AnnounceStages \/ StartFinding \/ Stamp \/ Report \/ FindingFails \/ NextFinding
    \/ WriteGate \/ PostSummary \/ FinishRun

TimelineNext == TimelineStep \/ Tick

TimelineSpec == TimelineInit /\ [][TimelineNext]_timelineVars

---------------------------------------------------------------------------
\* Properties

\* Of a finished run, the card of every finding comes before the gate, and
\* the gate before the summary, whatever was stamped in the same millisecond.
\* The comment at timeline.ts:229 promises the first part of every run; while
\* a run goes on, the cards have times that are guessed, and it may fail.
GateIsLast ==
    finishedAt # 0 =>
       /\ \A f \in reported : FindingCard(f) < GateCard
       /\ GateCard < SummaryCard

\* The count of a run that goes on never exceeds the findings that are
\* done; and when no event is lost or out of the window, it is exact, and
\* the finding that is shown as current is the one in work.
ProgressIsTrue ==
    LET ended == index - 1 + (IF working = "reported" THEN 1 ELSE 0)
    IN  /\ FindingsDone <= ended
        /\ ~missed /\ Len(events) <= Window =>
              /\ FindingsDone = ended
              /\ CurrentFinding = IF working = "started" THEN index ELSE 0
===========================================================================
