-------------------------- MODULE SourceInspection --------------------------
(***************************************************************************)
(* executor/worker.py: the process that carries out one action in a        *)
(* sandbox.  It answers an exit code and, for the three inspections of the *)
(* source, a verdict about the reported condition.  A file is read line by *)
(* line; only what an inspection tells apart in a line is kept.            *)
(***************************************************************************)
EXTENDS Naturals, Sequences

CONSTANT MaxLines  \* how long each file may be

Files == {"dockerfile", "python", "javascript", "model", "serializer", "view"}

ASSUME LinesAreNumbers == MaxLines \in [Files -> Nat]

VARIABLES
    reading,    \* the file in work, "request", or "done"
    source,     \* external: the lines of each file, as far as they were read
    noted,      \* what the inspection remembers of them
    workerSays  \* the answer

inspectionVars == <<reading, source, noted, workerSays>>

\* A USER may be a name, root, or come from a variable; a sink of HTML may
\* show the field, only name it in an expression, or neither, and clean
\* what it shows; a list of fields has the field, lacks it, or is computed.
LinesOf(file) ==
    CASE file = "dockerfile" -> {"from", "root", "non_root", "dynamic", "line"}
      [] file = "python"     -> {"set_password", "validate_password", "line"}
      [] file = "javascript" -> {"sink", "sink_clean", "named_sink", "field_sink", "field_sink_clean"}
      [] file = "model"      -> {"field"}
      [] file = "serializer" -> {"fields_with", "fields_without", "fields_computed",
                                 "readonly_with", "readonly_without", "readonly_computed"}
      [] file = "view"       -> {"own_serializer", "other_serializer"}

Line == UNION {LinesOf(f) : f \in Files}

InspectionTypeOK ==
    /\ reading \in Files \cup {"request", "done"}
    /\ source \in [Files -> Seq(Line)]
    /\ noted \in [stages : Nat, user : {"missing", "root", "non_root", "dynamic"},
                  sets : Nat, validates : Nat,
                  shows : {"none"} \cup LinesOf("javascript"), model : BOOLEAN,
                  meta : BOOLEAN, exposed : {"unknown", "yes", "no"}, readonly : BOOLEAN,
                  viewset : BOOLEAN, matches : BOOLEAN]
    /\ workerSays \in [exit : {"none", "ok", "failed", "bad_request", "timed_out", "unstartable",
                               "unknown", "of_command"},
                       verdict : {"none", "confirmed", "rejected", "inconclusive"}]

InspectionInit ==
    /\ reading = "request"
    /\ source = [f \in Files |-> <<>>]
    /\ noted = [stages |-> 0, user |-> "missing", sets |-> 0, validates |-> 0, shows |-> "none",
                model |-> FALSE, meta |-> FALSE, exposed |-> "unknown", readonly |-> FALSE,
                viewset |-> FALSE, matches |-> FALSE]
    /\ workerSays = [exit |-> "none", verdict |-> "none"]

Reply(exit, verdict) ==
    /\ reading' = "done"
    /\ workerSays' = [exit |-> exit, verdict |-> verdict]
    /\ UNCHANGED <<source, noted>>

---------------------------------------------------------------------------
\* _execute: which tool, and the tools that inspect nothing

\* safe_noop refuses parameters it does not know.
Noop == reading = "request" /\ \E exit \in {"ok", "bad_request"} : Reply(exit, "none")

\* sandbox_command: its shape and directory, then the command itself; an
\* output that is not text fails the worker.
Command ==
    /\ reading = "request"
    /\ \E exit \in {"bad_request", "timed_out", "unstartable", "of_command", "failed"} :
          Reply(exit, "none")

\* observe_http_surface: an answer of any status is an observation.
Observe ==
    /\ reading = "request"
    /\ \E exit \in {"ok", "bad_request", "failed"} : Reply(exit, "none")

UnknownTool == reading = "request" /\ Reply("unknown", "none")

\* The parameters are those of the inspection, and its first artifact is
\* registered.
Inspection(file) ==
    /\ reading = "request"
    /\ file \in {"dockerfile", "python", "javascript"}
    /\ reading' = file
    /\ UNCHANGED <<source, noted, workerSays>>

\* Parameters, an artifact or its kind are wrong, it is outside of the
\* repository, too large, no text, or no Python; a FROM has no image, or a
\* USER in a stage no name.
ArtifactFails ==
    /\ reading # "done"
    /\ Reply("failed", "none")

---------------------------------------------------------------------------
\* What a line changes

\* Mutant: a new stage keeps the user of the last one.
StageKeepsUser(line) ==
    CASE line = "from" -> [noted EXCEPT !.stages = @ + 1]
      [] line \in {"root", "non_root", "dynamic"} /\ noted.stages > 0 -> [noted EXCEPT !.user = line]
      [] OTHER -> noted

\* A USER before the first FROM belongs to no stage.
Stage(line) ==
    CASE line = "from" -> [noted EXCEPT !.stages = @ + 1, !.user = "missing"]
      [] line \in {"root", "non_root", "dynamic"} /\ noted.stages > 0 -> [noted EXCEPT !.user = line]
      [] OTHER -> noted

Call(line) ==
    CASE line = "set_password"      -> [noted EXCEPT !.sets = @ + 1]
      [] line = "validate_password" -> [noted EXCEPT !.validates = @ + 1]
      [] OTHER -> noted

\* The first sink that names the field, or the first sink.
Sink(line) ==
    IF noted.shows = "none" \/ (noted.shows \in {"sink", "sink_clean"}
                                  /\ line \in {"named_sink", "field_sink", "field_sink_clean"})
    THEN [noted EXCEPT !.shows = line]
    ELSE noted

\* Assignments in class Meta: the last one counts, but a computed list of
\* read-only fields is passed over.
Field(line) ==
    CASE noted.meta /\ line = "fields_with"      -> [noted EXCEPT !.exposed = "yes"]
      [] noted.meta /\ line = "fields_without"   -> [noted EXCEPT !.exposed = "no"]
      [] noted.meta /\ line = "fields_computed"  -> [noted EXCEPT !.exposed = "unknown"]
      [] noted.meta /\ line = "readonly_with"    -> [noted EXCEPT !.readonly = TRUE]
      [] noted.meta /\ line = "readonly_without" -> [noted EXCEPT !.readonly = FALSE]
      [] OTHER -> noted

Route(line) == [noted EXCEPT !.matches = (line = "own_serializer")]

ReadLine(line) ==
    /\ reading \in Files
    /\ line \in LinesOf(reading)
    /\ Len(source[reading]) < MaxLines[reading]
    /\ source' = [source EXCEPT ![reading] = Append(@, line)]
    /\ noted' = CASE reading = "dockerfile" -> Stage(line)
                  [] reading = "python"     -> Call(line)
                  [] reading = "javascript" -> Sink(line)
                  [] reading = "model"      -> [noted EXCEPT !.model = TRUE]
                  [] reading = "serializer" -> Field(line)
                  [] reading = "view"       -> Route(line)
    /\ UNCHANGED <<reading, workerSays>>

---------------------------------------------------------------------------
\* The end of a file

DockerVerdict ==
    CASE noted.user \in {"missing", "root"} -> "confirmed"
      [] noted.user = "non_root"            -> "rejected"
      [] noted.user = "dynamic"             -> "inconclusive"

DockerfileEnds ==
    /\ reading = "dockerfile"
    /\ IF noted.stages = 0 THEN Reply("failed", "none") ELSE Reply("ok", DockerVerdict)

PasswordVerdict ==
    CASE noted.sets = 0                         -> "rejected"
      [] noted.sets > 0 /\ noted.validates = 0 -> "confirmed"
      [] OTHER                                  -> "inconclusive"

PythonEnds == reading = "python" /\ Reply("ok", PasswordVerdict)

Writable ==
    noted.model /\ noted.exposed = "yes" /\ noted.meta /\ ~noted.readonly
                /\ noted.viewset /\ noted.matches

FlowVerdict ==
    CASE noted.shows \in {"none", "sink_clean", "field_sink_clean"} \/ noted.readonly -> "rejected"
      [] noted.shows = "field_sink" /\ Writable -> "confirmed"
      [] OTHER -> "inconclusive"

\* The four artifacts of the flow, in the order in which they are read.
\* The class that the next one is looked for in may be missing.
NextArtifact(file, next) ==
    /\ reading = file
    /\ reading' = next
    /\ \E there \in BOOLEAN :
          noted' = CASE next = "serializer" -> [noted EXCEPT !.meta = there]
                     [] next = "view"       -> [noted EXCEPT !.viewset = there]
                     [] OTHER               -> noted
    /\ UNCHANGED <<source, workerSays>>

ViewEnds ==
    /\ reading = "view"
    /\ Reply("ok", FlowVerdict)

InspectionNext ==
    \/ Noop \/ Command \/ Observe \/ UnknownTool \/ ArtifactFails
    \/ \E f \in Files : Inspection(f)
    \/ \E line \in Line : ReadLine(line)
    \/ DockerfileEnds \/ PythonEnds \/ ViewEnds
    \/ NextArtifact("javascript", "model")
    \/ NextArtifact("model", "serializer")
    \/ NextArtifact("serializer", "view")

InspectionSpec == InspectionInit /\ [][InspectionNext]_inspectionVars

---------------------------------------------------------------------------
\* Properties

HasLine(file, lines) == \E i \in DOMAIN source[file] : source[file][i] \in lines

\* The last of these lines in the file is this one.
LastIs(file, lines, line) ==
    \E i \in DOMAIN source[file] :
       /\ source[file][i] = line
       /\ \A j \in DOMAIN source[file] : j > i => source[file][j] \notin lines

\* A line after the last FROM.
InFinalStage(i) == \A j \in DOMAIN source.dockerfile : j > i => source.dockerfile[j] # "from"

\* What an inspection concludes is what the whole source says: of the
\* Dockerfile, the last USER of the final stage; of the passwords, the
\* calls; of the flow to HTML, every link of the chain, each in its last
\* assignment.  (A computed list of read-only fields is taken for empty.)
ConclusionIsSupported ==
    /\ workerSays.verdict # "none" => workerSays.exit = "ok"
    /\ HasLine("dockerfile", {"from"}) /\ reading = "done" =>
          (workerSays.verdict = "rejected" <=>
             /\ workerSays.exit = "ok"
             /\ \E i \in DOMAIN source.dockerfile :
                   source.dockerfile[i] = "non_root" /\ InFinalStage(i)
             /\ LastIs("dockerfile", {"root", "non_root", "dynamic"}, "non_root"))
    /\ workerSays.verdict = "confirmed" =>
          \/ LastIs("dockerfile", {"from", "root", "non_root", "dynamic"}, "root")
          \/ LastIs("dockerfile", {"from", "root", "non_root", "dynamic"}, "from")
          \/ HasLine("python", {"set_password"}) /\ ~HasLine("python", {"validate_password"})
          \/ /\ HasLine("javascript", {"field_sink"})
             /\ HasLine("model", {"field"})
             /\ LastIs("serializer", {"fields_with", "fields_without", "fields_computed"}, "fields_with")
             /\ ~LastIs("serializer", {"readonly_with", "readonly_without"}, "readonly_with")
             /\ LastIs("view", {"own_serializer", "other_serializer"}, "own_serializer")
===========================================================================
