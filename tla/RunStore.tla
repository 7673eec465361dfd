----------------------------- MODULE RunStore -----------------------------
(***************************************************************************)
(* api/store.py: the SQLite metadata of runs, findings and chats.          *)
(*                                                                         *)
(* ApiStore._connection takes one lock per call and commits at its end, so *)
(* each method is one transaction and one action here.  A status change is *)
(* an UPDATE ... WHERE status = ..., an action that is always enabled and  *)
(* changes nothing when the WHERE clause does not hold; a caller that      *)
(* reads the row count uses the matching guard (MayStart, MayFinish).      *)
(***************************************************************************)
EXTENDS RunNames, Naturals, FiniteSets

CONSTANT Sessions   \* chat session identifiers (uuid4)

VARIABLES
    status,     \* runs.status, "absent" before the row exists
    born,       \* runs.created_at as a rank, 0 before the row exists
    stored,     \* runs whose findings and evidence are stored
    chat,       \* does the chat session row exist
    activeRun,  \* chat_sessions.active_run_id, NoRun for NULL
    linked,     \* chat_session_runs
    posted      \* verdict messages of chat_messages: <<session, run, kind>>

storeVars == <<status, born, stored, chat, activeRun, linked, posted>>

Active == {"queued", "running", "cancelling"}

Final == {"cancelled", "completed", "technical_failure"}

Statuses == {"absent"} \cup Active \cup Final

\* The exit code of a pipeline run, as mark_finished stores it.
Results == {"completed", "technical_failure"}

Verdicts == {"summary", "error"}

StoreTypeOK ==
    /\ status \in [Runs -> Statuses]
    /\ born \in [Runs -> Nat]
    /\ stored \in SUBSET Runs
    /\ chat \in [Sessions -> {"none", "open", "deleted"}]
    /\ activeRun \in [Sessions -> Runs \cup {NoRun}]
    /\ linked \in [Sessions -> SUBSET Runs]
    /\ posted \in SUBSET (Sessions \X Runs \X Verdicts)

StoreInit ==
    /\ status = [r \in Runs |-> "absent"]
    /\ born = [r \in Runs |-> 0]
    /\ stored = {}
    /\ chat = [s \in Sessions |-> "none"]
    /\ activeRun = [s \in Sessions |-> NoRun]
    /\ linked = [s \in Sessions |-> {}]
    /\ posted = {}

---------------------------------------------------------------------------
\* The runs table

Known == {r \in Runs : status[r] # "absent"}

ActiveRuns == {r \in Runs : status[r] \in Active}

InsertRun(r) ==
    /\ status[r] = "absent"
    /\ status' = [status EXCEPT ![r] = "queued"]
    /\ born' = [born EXCEPT ![r] = Cardinality(Known) + 1]
    /\ UNCHANGED <<stored, chat, activeRun, linked, posted>>

\* UPDATE runs SET status = to WHERE run_id = r AND status IN from
Update(r, from, to) ==
    /\ status' = [status EXCEPT ![r] = IF status[r] \in from THEN to ELSE status[r]]
    /\ UNCHANGED <<born, stored, chat, activeRun, linked, posted>>

MayStart(r) == status[r] = "queued"

MarkRunning(r) == Update(r, {"queued"}, "running")

MayFinish(r) == status[r] = "running"

\* Mutant: the UPDATE forgets AND status = 'running'.
MarkFinishedAnyway(r, result) == Update(r, Active, result)

MarkFinished(r, result) == Update(r, {"running"}, result)

MarkFailed(r) == Update(r, Active, "technical_failure")

MarkCancelled(r) == Update(r, {"cancelling"}, "cancelled")

\* The status request_cancel leaves behind, which its caller then reads.
AfterCancel(r) ==
    CASE status[r] = "queued"  -> "cancelled"
      [] status[r] = "running" -> "cancelling"
      [] OTHER                 -> status[r]

RequestCancel(r) ==
    /\ r \in Known
    /\ status' = [status EXCEPT ![r] = AfterCancel(r)]
    /\ UNCHANGED <<born, stored, chat, activeRun, linked, posted>>

\* list_runs: the newest n rows, whatever their status.
Newest(n) == {r \in Known : Cardinality({q \in Known : born[q] > born[r]}) < n}

\* Mutant: recover_abandoned forgets the runs that were being cancelled.
StoreBootForgets(gone) ==
    /\ gone \subseteq {r \in Runs : status[r] = "queued"}
    /\ status' = [r \in Runs |-> IF status[r] = "running" \/ r \in gone
                                 THEN "technical_failure" ELSE status[r]]
    /\ UNCHANGED <<born, stored, chat, activeRun, linked, posted>>

\* recover_abandoned, then mark_failed for the queued runs in gone, whose
\* repository the new process does not find any more.
StoreBoot(gone) ==
    /\ gone \subseteq {r \in Runs : status[r] = "queued"}
    /\ status' = [r \in Runs |->
                    IF status[r] \in {"running", "cancelling"} \/ r \in gone
                    THEN "technical_failure" ELSE status[r]]
    /\ UNCHANGED <<born, stored, chat, activeRun, linked, posted>>

ReplaceResults(r) ==
    /\ stored' = stored \cup {r}
    /\ UNCHANGED <<status, born, chat, activeRun, linked, posted>>

---------------------------------------------------------------------------
\* The chat tables

OpenChat(s) ==
    /\ chat[s] = "none"
    /\ chat' = [chat EXCEPT ![s] = "open"]
    /\ UNCHANGED <<status, born, stored, activeRun, linked, posted>>

\* The refusal of delete_chat_session: its current run is queued or running.
DeleteRefused(s) ==
    activeRun[s] # NoRun /\ status[activeRun[s]] \in {"queued", "running"}

\* Mutant: foreign keys are not enforced, messages outlive the session.
DeleteChatOnly(s) ==
    /\ chat[s] = "open"
    /\ ~DeleteRefused(s)
    /\ chat' = [chat EXCEPT ![s] = "deleted"]
    /\ UNCHANGED <<status, born, stored, activeRun, linked, posted>>

\* Messages and links go with the session (ON DELETE CASCADE), runs stay.
DeleteChat(s) ==
    /\ chat[s] = "open"
    /\ ~DeleteRefused(s)
    /\ chat' = [chat EXCEPT ![s] = "deleted"]
    /\ activeRun' = [activeRun EXCEPT ![s] = NoRun]
    /\ linked' = [linked EXCEPT ![s] = {}]
    /\ posted' = {p \in posted : p[1] # s}
    /\ UNCHANGED <<status, born, stored>>

\* set_chat_run and append_chat_message raise KeyError without the session.
SetChatRun(s, r) ==
    /\ chat[s] = "open"
    /\ r \in Known
    /\ activeRun' = [activeRun EXCEPT ![s] = r]
    /\ linked' = [linked EXCEPT ![s] = @ \cup {r}]
    /\ UNCHANGED <<status, born, stored, chat, posted>>

Post(s, r, kind) ==
    /\ chat[s] = "open"
    /\ r \in Known
    /\ posted' = posted \cup {<<s, r, kind>>}
    /\ UNCHANGED <<status, born, stored, chat, activeRun, linked>>

---------------------------------------------------------------------------
\* Any caller, in any order.

RunTransaction(r) ==
    \/ InsertRun(r)
    \/ MarkRunning(r)
    \/ \E result \in Results : MarkFinished(r, result)
    \/ MarkFailed(r)
    \/ MarkCancelled(r)
    \/ RequestCancel(r)
    \/ ReplaceResults(r)

ChatTransaction(s) ==
    \/ OpenChat(s)
    \/ DeleteChat(s)
    \/ \E r \in Runs : SetChatRun(s, r)
    \/ \E r \in Runs, kind \in Verdicts : Post(s, r, kind)

StoreNext ==
    \/ \E r \in Runs : RunTransaction(r)
    \/ \E s \in Sessions : ChatTransaction(s)
    \/ \E gone \in SUBSET Runs : StoreBoot(gone)

StoreSpec == StoreInit /\ [][StoreNext]_storeVars

---------------------------------------------------------------------------
\* Properties

\* The references of the schema hold across inserts, links, posts and the
\* cascading delete: a chat that is not open keeps no run, link or message,
\* its current run is one of its linked runs, and whatever it refers to
\* exists (api/store.py, _initialize and delete_chat_session).
ForeignKeys ==
    \A s \in Sessions :
        /\ linked[s] \subseteq Known
        /\ activeRun[s] # NoRun => activeRun[s] \in linked[s]
        /\ \A p \in posted : p[1] = s => chat[s] = "open" /\ p[2] \in Known
        /\ chat[s] # "open" => linked[s] = {}

Lifecycle == INSTANCE RunLifecycle

\* Whatever the callers do and in whatever order, the conditional UPDATEs
\* let a run only move forward and never out of a final status.
ImplementsLifecycle == Lifecycle!LifecycleSpec
===========================================================================
