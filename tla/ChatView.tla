----------------------------- MODULE ChatView -----------------------------
(***************************************************************************)
(* What a browser shows of a chat: api/app.py streams snapshots of         *)
(* api/service.py as server-sent events, frontend/src/hooks/useSse.ts and  *)
(* useChat.ts merge them with the answers of polling into one cache entry. *)
(*                                                                         *)
(* A snapshot is read in several transactions: the chat messages first,    *)
(* the run after them.  The worker posts the summary of a run before it    *)
(* marks the run finished (api/service.py, _execute_run).                  *)
(***************************************************************************)
EXTENDS Naturals, Sequences

CONSTANTS
    MaxDrops,       \* bound on connections that are lost
    Cancels         \* may somebody cancel the run

ASSUME ViewBounds == MaxDrops \in Nat /\ Cancels \in BOOLEAN

VARIABLES
    run,        \* status of the run in the store
    summary,    \* its summary is among the chat messages
    seen,       \* the half-read snapshot of each reader: did it see the summary
    last,       \* last_payload of the stream's generator
    stream,     \* the connection: "none", "open", "lost"
    wire,       \* events sent on it and not yet handled
    answer,     \* the polling request, and the snapshot that answers it
    view,       \* the cached snapshot
    drops

viewVars == <<run, summary, seen, last, stream, wire, answer, view, drops>>

Readers == {"stream", "poll"}

RunActive == {"queued", "running", "cancelling"}

RunStatuses == RunActive \cup {"completed", "cancelled"}

Snapshots == [run : RunStatuses, summary : BOOLEAN]

NoSnapshot == [run |-> "none", summary |-> FALSE]

\* A request whose answer is not there yet.
Asked == [run |-> "asked", summary |-> FALSE]

ViewTypeOK ==
    /\ run \in RunStatuses
    /\ summary \in BOOLEAN
    /\ seen \in [Readers -> {"no", "without", "with"}]
    /\ last \in Snapshots \cup {NoSnapshot}
    /\ stream \in {"none", "open", "lost"}
    /\ wire \in Seq([event : {"snapshot", "done"}, data : Snapshots])
    /\ answer \in Snapshots \cup {NoSnapshot, Asked}
    /\ view \in Snapshots
    /\ drops \in 0 .. MaxDrops

\* The answer to the message that started the run is the first view.
ViewInit ==
    /\ run = "queued"
    /\ summary = FALSE
    /\ seen = [r \in Readers |-> "no"]
    /\ last = NoSnapshot
    /\ stream = "none"
    /\ wire = <<>>
    /\ answer = NoSnapshot
    /\ view = [run |-> "queued", summary |-> FALSE]
    /\ drops = 0

Client == <<stream, wire, answer, view, drops>>

---------------------------------------------------------------------------
\* The worker and the operator (api/service.py, seen from the store)

Work ==
    /\ \/ run = "queued" /\ run' = "running" /\ UNCHANGED summary
       \/ run = "running" /\ ~summary /\ summary' = TRUE /\ UNCHANGED run
       \/ run = "running" /\ summary /\ run' = "completed" /\ UNCHANGED summary
       \/ run = "cancelling" /\ run' = "cancelled" /\ UNCHANGED summary
    /\ UNCHANGED <<seen, last, Client>>

CancelRun ==
    /\ Cancels
    /\ run \in {"queued", "running"}
    /\ run' = IF run = "queued" THEN "cancelled" ELSE "cancelling"
    /\ UNCHANGED <<summary, seen, last, Client>>

---------------------------------------------------------------------------
\* get_chat_snapshot

ReadMessages(r) ==
    /\ seen[r] = "no"
    /\ seen' = [seen EXCEPT ![r] = IF summary THEN "with" ELSE "without"]
    /\ UNCHANGED <<run, summary, last, Client>>

\* Reading the run completes the snapshot.
Reads(r, snapshot) ==
    /\ seen[r] # "no"
    /\ seen' = [seen EXCEPT ![r] = "no"]
    /\ snapshot = [run |-> run, summary |-> seen[r] = "with"]

---------------------------------------------------------------------------
\* stream_chat_events: a snapshot that differs from the last one is sent,
\* and one of a run that is not active ends the stream with done.

StreamReads == stream = "open" /\ last.run \notin RunStatuses \ RunActive /\ ReadMessages("stream")

Send ==
    /\ stream = "open"
    /\ \E s \in Snapshots :
          /\ Reads("stream", s)
          /\ last' = s
          /\ wire' = wire \o (IF s = last THEN <<>> ELSE <<[event |-> "snapshot", data |-> s]>>)
                          \o (IF s.run \in RunActive THEN <<>> ELSE <<[event |-> "done", data |-> s]>>)
    /\ UNCHANGED <<run, summary, stream, answer, view, drops>>

---------------------------------------------------------------------------
\* useSse and useChat

\* runActive of useChat; a run that is being cancelled is not active here.
Watches(s) == s.run \in {"queued", "running"}

NewStream ==
    /\ last' = NoSnapshot
    /\ wire' = <<>>
    /\ seen' = [seen EXCEPT !["stream"] = "no"]

\* Mutant: a source that lost its connection is not opened again.
ConnectOnce ==
    /\ Watches(view)
    /\ stream = "none"
    /\ stream' = "open"
    /\ NewStream
    /\ UNCHANGED <<run, summary, answer, view, drops>>

\* The effect runs when the url appears; a lost EventSource reconnects.
Connect ==
    /\ Watches(view)
    /\ stream # "open"
    /\ stream' = "open"
    /\ NewStream
    /\ UNCHANGED <<run, summary, answer, view, drops>>

\* Shows s: without a url the effect is cleaned up and the source closed.
Shows(s) ==
    /\ view' = s
    /\ IF Watches(s) THEN UNCHANGED stream ELSE stream' = "none"

\* Events are handled in order while the source is open.
Handle ==
    /\ stream = "open"
    /\ wire # <<>>
    /\ Shows(Head(wire).data)
    /\ wire' = Tail(wire)
    /\ UNCHANGED <<run, summary, seen, last, answer, drops>>

Disconnect ==
    /\ stream = "open"
    /\ drops < MaxDrops
    /\ drops' = drops + 1
    /\ stream' = "lost"
    /\ UNCHANGED <<run, summary, seen, last, wire, answer, view>>

\* refetchInterval: one request at a time, and only while the run is
\* watched.  The answer replaces the cache entry when it arrives.
Poll ==
    /\ Watches(view)
    /\ answer = NoSnapshot
    /\ answer' = Asked
    /\ UNCHANGED <<run, summary, seen, last, stream, wire, view, drops>>

PollReads == answer = Asked /\ ReadMessages("poll")

Answer ==
    /\ answer = Asked
    /\ \E s \in Snapshots : Reads("poll", s) /\ answer' = s
    /\ UNCHANGED <<run, summary, last, stream, wire, view, drops>>

Refetched ==
    /\ answer \in Snapshots
    /\ Shows(answer)
    /\ answer' = NoSnapshot
    /\ UNCHANGED <<run, summary, seen, last, wire, drops>>

ServerStep == Work \/ StreamReads \/ Send \/ PollReads \/ Answer

ClientStep == Connect \/ Handle \/ Refetched

ViewNext == ServerStep \/ ClientStep \/ CancelRun \/ Poll \/ Disconnect

ViewSpec == ViewInit /\ [][ViewNext]_viewVars

\* The worker goes on, the generator of an open stream does, the events of
\* a connection arrive, and a browser connects as long as it has a url.
ViewFair ==
    /\ WF_viewVars(Work)
    /\ WF_viewVars(StreamReads) /\ WF_viewVars(Send)
    /\ WF_viewVars(PollReads \/ Answer) /\ WF_viewVars(Refetched)
    /\ WF_viewVars(Connect) /\ WF_viewVars(Handle)

---------------------------------------------------------------------------
\* Properties

\* The browser shows the end of a run that completes, though an older
\* answer of polling may overwrite a newer event, connections may be lost,
\* and polling may pause for ever (it does in a hidden tab).
ViewSettles == run = "completed" ~> view.run = "completed"

\* frontend/src/hooks/useSse.ts says that the stream is closed after done,
\* or when the component is unmounted; then it shows how a cancelled run ends.
CancelAppears == run = "cancelled" ~> view.run = "cancelled"
===========================================================================
