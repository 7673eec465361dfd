---------------------------- MODULE SourceProofs ----------------------------
(***************************************************************************)
(* Proofs about the two parts that read a repository: the inspections of   *)
(* the worker (executor/worker.py), for files of any length, and discovery *)
(* (discovery/), for any number of directories.                            *)
(*                                                                         *)
(* Both compare a loop with a definition over the whole.  For the worker,  *)
(* the invariant says of what the loop keeps that it is what the lines     *)
(* read so far call for.  For the resolver, the recursion over directories *)
(* is a function whose existence and values are proved by the least        *)
(* directory that has none.                                                *)
(***************************************************************************)
EXTENDS SourceInspection, Discovery, FiniteSetTheorems, WellFoundedInduction, TLAPS

---------------------------------------------------------------------------
\* SourceInspection: what is noted is what the lines say

\* The kinds of USER.
Users == {"root", "non_root", "dynamic"}

\* Of a Dockerfile: whether a stage began, and what came last of FROM and
\* the known kinds of USER.
DockerNoted ==
    /\ noted.stages > 0 <=> HasLine("dockerfile", {"from"})
    /\ noted.stages > 0 /\ noted.user = "missing" => LastIs("dockerfile", {"from"} \cup Users, "from")
    /\ noted.user # "missing" => /\ noted.stages > 0
                                 /\ LastIs("dockerfile", {"from"} \cup Users, noted.user)

\* Of Python: whether there was a call of each kind.
CallsNoted ==
    /\ noted.sets > 0 <=> HasLine("python", {"set_password"})
    /\ noted.validates > 0 <=> HasLine("python", {"validate_password"})

\* Of the flow to HTML: the lines, and the last assignments, that the
\* verdict goes by.
FlowNoted ==
    /\ noted.shows = "field_sink" => HasLine("javascript", {"field_sink"})
    /\ noted.model => HasLine("model", {"field"})
    /\ noted.exposed = "yes" =>
          LastIs("serializer", {"fields_with", "fields_without", "fields_computed"}, "fields_with")
    /\ noted.meta => (noted.readonly <=> LastIs("serializer", {"readonly_with", "readonly_without"}, "readonly_with"))
    /\ ~noted.meta => noted.exposed = "unknown"
    /\ noted.matches => LastIs("view", {"own_serializer", "other_serializer"}, "own_serializer")

\* What is not yet read is empty.
ReadInOrder ==
    /\ reading \in {"request", "python", "javascript", "model", "serializer", "view"} => source.dockerfile = <<>>
    /\ reading \in {"request", "javascript", "model"} =>
          source.serializer = <<>> /\ ~noted.readonly /\ noted.exposed = "unknown"

\* A verdict is the one that what was noted calls for.
Answered ==
    /\ reading # "done" => workerSays.exit = "none" /\ workerSays.verdict = "none"
    /\ workerSays.verdict # "none" =>
          /\ workerSays.exit = "ok"
          /\ \/ noted.stages > 0 /\ workerSays.verdict = DockerVerdict
             \/ noted.stages = 0 /\ workerSays.verdict \in {PasswordVerdict, FlowVerdict}
    /\ reading = "done" /\ workerSays.exit = "ok" /\ noted.stages > 0 => workerSays.verdict = DockerVerdict

\* Inductive.
InspectionInv == InspectionTypeOK /\ DockerNoted /\ CallsNoted /\ FlowNoted /\ ReadInOrder /\ Answered

\* An empty file has no line, and no last one.
LEMMA NoLine ==
    ASSUME NEW f \in Files, source[f] = <<>>, NEW lines, NEW line
    PROVE  ~HasLine(f, lines) /\ ~LastIs(f, lines, line)
BY DEF HasLine, LastIs

\* Reading a line adds it, and it is the last one of its kinds.
LEMMA LinesGrow ==
    ASSUME InspectionTypeOK, NEW f \in Files, NEW line \in Line,
           source' = [source EXCEPT ![f] = Append(@, line)]
    PROVE  /\ source' \in [Files -> Seq(Line)]
           /\ \A lines : HasLine(f, lines)' <=> HasLine(f, lines) \/ line \in lines
           /\ \A lines : \A last \in lines : LastIs(f, lines, last)' <=>
                 IF line \in lines THEN line = last ELSE LastIs(f, lines, last)
<1> DEFINE s == source[f]
<1>1. s \in Seq(Line) /\ source'[f] = Append(s, line)
  BY DEF InspectionTypeOK
<1> HIDE DEF s
<1>2. /\ Len(s) \in Nat
      /\ DOMAIN s = 1 .. Len(s)
      /\ DOMAIN Append(s, line) = 1 .. Len(s) + 1
      /\ \A i \in 1 .. Len(s) : Append(s, line)[i] = s[i]
      /\ Append(s, line)[Len(s) + 1] = line
      /\ Append(s, line) \in Seq(Line)
  BY <1>1
<1>3. source' \in [Files -> Seq(Line)]
  BY <1>1, <1>2 DEF InspectionTypeOK
<1>4. ASSUME NEW lines PROVE HasLine(f, lines)' <=> HasLine(f, lines) \/ line \in lines
  BY <1>1, <1>2 DEF HasLine, s
<1>5. ASSUME NEW lines, NEW last \in lines
      PROVE  LastIs(f, lines, last)' <=> IF line \in lines THEN line = last ELSE LastIs(f, lines, last)
  <2>1. CASE line \in lines
    BY <1>1, <1>2, <2>1 DEF LastIs, s
  <2>2. CASE line \notin lines
    BY <1>1, <1>2, <2>2 DEF LastIs, s
  <2> QED
    BY <2>1, <2>2
<1> QED
  BY <1>3, <1>4, <1>5

\* The lines of the other files are the same.
LEMMA OthersStay ==
    ASSUME NEW f \in Files, source'[f] = source[f]
    PROVE  /\ \A lines : HasLine(f, lines)' <=> HasLine(f, lines)
           /\ \A lines, last : LastIs(f, lines, last)' <=> LastIs(f, lines, last)
BY DEF HasLine, LastIs

\* An answer keeps the invariant when it is the one that is called for.
LEMMA ReplyKeeps ==
    ASSUME InspectionInv, reading # "done", NEW exit, NEW verdict, Reply(exit, verdict),
           exit \in {"ok", "failed", "bad_request", "timed_out", "unstartable", "unknown", "of_command"},
           verdict \in {"none", "confirmed", "rejected", "inconclusive"},
           verdict # "none" => exit = "ok",
           noted.stages > 0 /\ exit = "ok" => verdict = DockerVerdict,
           noted.stages = 0 /\ verdict # "none" => verdict \in {PasswordVerdict, FlowVerdict}
    PROVE  InspectionInv'
<1> USE DEF Reply
<1>1. source' = source /\ noted' = noted
  OBVIOUS
<1>2. InspectionTypeOK'
  BY DEF InspectionInv, InspectionTypeOK
<1>3. DockerNoted' /\ CallsNoted' /\ FlowNoted'
  BY <1>1 DEF InspectionInv, DockerNoted, CallsNoted, FlowNoted, HasLine, LastIs
<1>4. ReadInOrder'
  BY DEF ReadInOrder
<1>5. Answered'
  BY DEF Answered, DockerVerdict, PasswordVerdict, FlowVerdict, Writable, InspectionInv, InspectionTypeOK
<1> QED
  BY <1>2, <1>3, <1>4, <1>5 DEF InspectionInv

\* A line changes what is noted of its file in the way the file changes.
LEMMA LineKeeps ==
    ASSUME InspectionInv, NEW line \in Line, ReadLine(line)
    PROVE  InspectionInv'
<1> USE DEF InspectionInv
<1>1. ASSUME NEW f \in Files, reading = f
      PROVE  /\ reading' = f /\ workerSays' = workerSays /\ line \in LinesOf(f)
             /\ source' = [source EXCEPT ![f] = Append(@, line)]
             /\ source' \in [Files -> Seq(Line)]
             /\ \A lines : HasLine(f, lines)' <=> HasLine(f, lines) \/ line \in lines
             /\ \A lines : \A last \in lines : LastIs(f, lines, last)' <=>
                   IF line \in lines THEN line = last ELSE LastIs(f, lines, last)
             /\ \A g \in Files \ {f} : source'[g] = source[g]
  <2>1. source' = [source EXCEPT ![f] = Append(@, line)] /\ line \in LinesOf(f) /\ reading' = f /\ workerSays' = workerSays
    BY <1>1 DEF ReadLine
  <2>2. \A g \in Files \ {f} : source'[g] = source[g]
    BY <2>1 DEF InspectionTypeOK
  <2> QED
    BY <2>1, <2>2, LinesGrow
<1>2. CASE reading = "dockerfile"
  <2> DEFINE f == "dockerfile"
  <2>0. f \in Files
    BY DEF Files
  <2>1. line \in {"from", "line"} \cup Users /\ noted' = Stage(line)
    BY <1>2 DEF ReadLine, LinesOf, Users
  <2>2. \A g \in Files \ {"dockerfile"} : source'[g] = source[g]
    BY <1>1, <1>2, <2>0
  <2>3. InspectionTypeOK'
    <3>1. source' \in [Files -> Seq(Line)] /\ reading' = reading /\ workerSays' = workerSays
      BY <1>1, <1>2, <2>0
    <3>2. CASE line = "from"
      <4>0. noted.stages + 1 \in Nat
        BY DEF InspectionTypeOK
      <4>1. PICK n \in Nat : noted' = [noted EXCEPT !.stages = n, !.user = "missing"]
        <5>1. noted' = [noted EXCEPT !.stages = noted.stages + 1, !.user = "missing"]
          BY <2>1, <3>2 DEF Stage
        <5> QED
          BY <4>0, <5>1
      <4> QED
        BY <3>1, <4>1 DEF InspectionTypeOK
    <3>3. CASE line \in Users /\ noted.stages > 0
      <4>1. noted' = [noted EXCEPT !.user = line]
        BY <2>1, <3>3 DEF Stage, Users
      <4> QED
        BY <3>1, <3>3, <4>1 DEF InspectionTypeOK, Users
    <3>4. CASE noted' = noted
      BY <3>1, <3>4 DEF InspectionTypeOK
    <3> QED
      BY <2>1, <3>2, <3>3, <3>4 DEF Stage, Users
  <2>4. DockerNoted'
    <3>1. /\ HasLine("dockerfile", {"from"})' <=> HasLine("dockerfile", {"from"}) \/ line = "from"
          /\ \A last \in {"from"} \cup Users : LastIs("dockerfile", {"from"} \cup Users, last)' <=>
                IF line \in {"from"} \cup Users THEN line = last ELSE LastIs("dockerfile", {"from"} \cup Users, last)
      BY <1>1, <1>2, <2>0
    <3>2. noted.stages \in Nat /\ noted.user \in {"missing"} \cup Users
      BY DEF InspectionTypeOK, Users
    <3>3. CASE line = "from"
      <4>1. noted'.stages = noted.stages + 1 /\ noted'.user = "missing"
        BY <2>1, <3>3 DEF Stage, InspectionTypeOK
      <4> QED
        BY <3>1, <3>2, <3>3, <4>1 DEF DockerNoted, Users
    <3>4. CASE line \in Users /\ noted.stages > 0
      <4>1. noted'.stages = noted.stages /\ noted'.user = line
        BY <2>1, <3>4 DEF Stage, InspectionTypeOK, Users
      <4> QED
        BY <3>1, <3>2, <3>4, <4>1 DEF DockerNoted, Users
    <3>5. CASE (line \in Users /\ noted.stages = 0) \/ line = "line"
      <4>1. noted' = noted
        BY <2>1, <3>5 DEF Stage, Users
      <4> QED
        BY <3>1, <3>2, <3>5, <4>1 DEF DockerNoted, Users
    <3> QED
      BY <2>1, <3>2, <3>3, <3>4, <3>5
  <2>5. CallsNoted' /\ FlowNoted' /\ ReadInOrder' /\ Answered'
    <3>1. /\ noted'.sets = noted.sets /\ noted'.validates = noted.validates /\ noted'.shows = noted.shows
          /\ noted'.model = noted.model /\ noted'.exposed = noted.exposed /\ noted'.readonly = noted.readonly
          /\ noted'.meta = noted.meta /\ noted'.matches = noted.matches
      BY <2>1 DEF Stage, InspectionTypeOK
    <3>2. CallsNoted' /\ FlowNoted'
      BY <2>2, <3>1 DEF CallsNoted, FlowNoted, HasLine, LastIs, Files
    <3>3. reading' = "dockerfile" /\ workerSays' = workerSays
      BY <1>1, <1>2, <2>0
    <3> QED
      BY <1>2, <3>2, <3>3 DEF ReadInOrder, Answered, InspectionTypeOK
  <2> QED
    BY <2>3, <2>4, <2>5
<1>3. CASE reading = "python"
  <2>0. "python" \in Files
    BY DEF Files
  <2>1. line \in {"set_password", "validate_password", "line"} /\ noted' = Call(line)
    BY <1>3 DEF ReadLine, LinesOf
  <2>2. \A g \in Files \ {"python"} : source'[g] = source[g]
    BY <1>1, <1>3, <2>0
  <2>3. InspectionTypeOK'
    <3>1. source' \in [Files -> Seq(Line)] /\ reading' = reading /\ workerSays' = workerSays
      BY <1>1, <1>3, <2>0
    <3>2. \/ \E n \in Nat : noted' = [noted EXCEPT !.sets = n]
          \/ \E n \in Nat : noted' = [noted EXCEPT !.validates = n]
          \/ noted' = noted
      <4>1. noted.sets + 1 \in Nat /\ noted.validates + 1 \in Nat
        BY DEF InspectionTypeOK
      <4>2. \/ noted' = [noted EXCEPT !.sets = noted.sets + 1]
            \/ noted' = [noted EXCEPT !.validates = noted.validates + 1]
            \/ noted' = noted
        BY <2>1 DEF Call
      <4> QED
        BY <4>1, <4>2
    <3> QED
      BY <3>1, <3>2 DEF InspectionTypeOK
  <2>4. CallsNoted'
    <3>1. /\ HasLine("python", {"set_password"})' <=> HasLine("python", {"set_password"}) \/ line = "set_password"
          /\ HasLine("python", {"validate_password"})' <=> HasLine("python", {"validate_password"}) \/ line = "validate_password"
      BY <1>1, <1>3, <2>0
    <3>2. noted.sets \in Nat /\ noted.validates \in Nat
      BY DEF InspectionTypeOK
    <3>3. /\ noted'.sets = IF line = "set_password" THEN noted.sets + 1 ELSE noted.sets
          /\ noted'.validates = IF line = "validate_password" THEN noted.validates + 1 ELSE noted.validates
      BY <2>1 DEF Call, InspectionTypeOK
    <3> QED
      BY <3>1, <3>2, <3>3 DEF CallsNoted
  <2>5. DockerNoted' /\ FlowNoted' /\ ReadInOrder' /\ Answered'
    <3>1. /\ noted'.stages = noted.stages /\ noted'.user = noted.user /\ noted'.shows = noted.shows
          /\ noted'.model = noted.model /\ noted'.exposed = noted.exposed /\ noted'.readonly = noted.readonly
          /\ noted'.meta = noted.meta /\ noted'.matches = noted.matches
      BY <2>1 DEF Call, InspectionTypeOK
    <3>2. DockerNoted' /\ FlowNoted'
      BY <2>2, <3>1 DEF DockerNoted, FlowNoted, HasLine, LastIs, Files
    <3>3. reading' = "python" /\ workerSays' = workerSays /\ source'["dockerfile"] = source["dockerfile"]
      BY <1>1, <1>3, <2>0, <2>2 DEF Files
    <3> QED
      BY <1>3, <3>2, <3>3 DEF ReadInOrder, Answered, InspectionTypeOK
  <2> QED
    BY <2>3, <2>4, <2>5
<1>4. CASE reading = "javascript"
  <2>0. "javascript" \in Files
    BY DEF Files
  <2>1. noted' = Sink(line) /\ line \in LinesOf("javascript")
    BY <1>4 DEF ReadLine
  <2>2. \A g \in Files \ {"javascript"} : source'[g] = source[g]
    BY <1>1, <1>4, <2>0
  <2>3. noted' = [noted EXCEPT !.shows = line] \/ noted' = noted
    BY <2>1 DEF Sink
  <2>4. InspectionTypeOK'
    <3>1. source' \in [Files -> Seq(Line)] /\ reading' = reading /\ workerSays' = workerSays
      BY <1>1, <1>4, <2>0
    <3> QED
      BY <2>1, <2>3, <3>1 DEF InspectionTypeOK
  <2>5. FlowNoted'
    <3>1. HasLine("javascript", {"field_sink"})' <=> HasLine("javascript", {"field_sink"}) \/ line = "field_sink"
      BY <1>1, <1>4, <2>0
    <3>2. /\ noted'.shows \in {noted.shows, line}
          /\ noted'.model = noted.model /\ noted'.exposed = noted.exposed /\ noted'.readonly = noted.readonly
          /\ noted'.meta = noted.meta /\ noted'.matches = noted.matches
      BY <2>3 DEF InspectionTypeOK
    <3>3. noted'.shows = "field_sink" => HasLine("javascript", {"field_sink"})'
      BY <3>1, <3>2 DEF FlowNoted
    <3> QED
      BY <2>2, <3>2, <3>3 DEF FlowNoted, HasLine, LastIs, Files
  <2>6. DockerNoted' /\ CallsNoted' /\ ReadInOrder' /\ Answered'
    <3>1. /\ noted'.stages = noted.stages /\ noted'.user = noted.user /\ noted'.sets = noted.sets
          /\ noted'.validates = noted.validates /\ noted'.exposed = noted.exposed /\ noted'.readonly = noted.readonly
      BY <2>3 DEF InspectionTypeOK
    <3>2. DockerNoted' /\ CallsNoted'
      BY <2>2, <3>1 DEF DockerNoted, CallsNoted, HasLine, LastIs, Files
    <3>3. reading' = "javascript" /\ workerSays' = workerSays /\ source'["dockerfile"] = source["dockerfile"]
          /\ source'["serializer"] = source["serializer"]
      BY <1>1, <1>4, <2>0, <2>2 DEF Files
    <3> QED
      BY <1>4, <3>1, <3>2, <3>3 DEF ReadInOrder, Answered
  <2> QED
    BY <2>4, <2>5, <2>6
<1>5. CASE reading = "model"
  <2>0. "model" \in Files
    BY DEF Files
  <2>1. noted' = [noted EXCEPT !.model = TRUE] /\ line = "field"
    BY <1>5 DEF ReadLine, LinesOf
  <2>2. \A g \in Files \ {"model"} : source'[g] = source[g]
    BY <1>1, <1>5, <2>0
  <2>4. InspectionTypeOK'
    <3>1. source' \in [Files -> Seq(Line)] /\ reading' = reading /\ workerSays' = workerSays
      BY <1>1, <1>5, <2>0
    <3> QED
      BY <2>1, <3>1 DEF InspectionTypeOK
  <2>5. FlowNoted'
    <3>1. HasLine("model", {"field"})'
      BY <1>1, <1>5, <2>0, <2>1
    <3>2. /\ noted'.shows = noted.shows /\ noted'.exposed = noted.exposed /\ noted'.readonly = noted.readonly
          /\ noted'.meta = noted.meta /\ noted'.matches = noted.matches
      BY <2>1 DEF InspectionTypeOK
    <3> QED
      BY <2>2, <3>1, <3>2 DEF FlowNoted, HasLine, LastIs, Files
  <2>6. DockerNoted' /\ CallsNoted' /\ ReadInOrder' /\ Answered'
    <3>1. /\ noted'.stages = noted.stages /\ noted'.user = noted.user /\ noted'.sets = noted.sets
          /\ noted'.validates = noted.validates /\ noted'.exposed = noted.exposed /\ noted'.readonly = noted.readonly
      BY <2>1 DEF InspectionTypeOK
    <3>2. DockerNoted' /\ CallsNoted'
      BY <2>2, <3>1 DEF DockerNoted, CallsNoted, HasLine, LastIs, Files
    <3>3. reading' = "model" /\ workerSays' = workerSays /\ source'["dockerfile"] = source["dockerfile"]
          /\ source'["serializer"] = source["serializer"]
      BY <1>1, <1>5, <2>0, <2>2 DEF Files
    <3> QED
      BY <1>5, <3>1, <3>2, <3>3 DEF ReadInOrder, Answered
  <2> QED
    BY <2>4, <2>5, <2>6
<1>6. CASE reading = "serializer"
  <2>0. "serializer" \in Files
    BY DEF Files
  <2>1. /\ noted' = Field(line)
        /\ line \in {"fields_with", "fields_without", "fields_computed",
                      "readonly_with", "readonly_without", "readonly_computed"}
    BY <1>6 DEF ReadLine, LinesOf
  <2>2. \A g \in Files \ {"serializer"} : source'[g] = source[g]
    BY <1>1, <1>6, <2>0
  <2>3. /\ noted.meta \in BOOLEAN
        /\ ~noted.meta \/ line = "readonly_computed" => noted' = noted
        /\ noted.meta /\ line = "fields_with" => noted' = [noted EXCEPT !.exposed = "yes"]
        /\ noted.meta /\ line = "fields_without" => noted' = [noted EXCEPT !.exposed = "no"]
        /\ noted.meta /\ line = "fields_computed" => noted' = [noted EXCEPT !.exposed = "unknown"]
        /\ noted.meta /\ line = "readonly_with" => noted' = [noted EXCEPT !.readonly = TRUE]
        /\ noted.meta /\ line = "readonly_without" => noted' = [noted EXCEPT !.readonly = FALSE]
    <3>1. noted.meta \in BOOLEAN
      BY DEF InspectionTypeOK
    <3>2. ~noted.meta \/ line = "readonly_computed" => noted' = noted
      BY <2>1 DEF Field
    <3>3. ASSUME noted.meta
          PROVE  /\ line = "fields_with" => noted' = [noted EXCEPT !.exposed = "yes"]
                 /\ line = "fields_without" => noted' = [noted EXCEPT !.exposed = "no"]
                 /\ line = "fields_computed" => noted' = [noted EXCEPT !.exposed = "unknown"]
                 /\ line = "readonly_with" => noted' = [noted EXCEPT !.readonly = TRUE]
                 /\ line = "readonly_without" => noted' = [noted EXCEPT !.readonly = FALSE]
      BY <2>1, <3>3 DEF Field
    <3> QED
      BY <3>1, <3>2, <3>3
  <2>4. InspectionTypeOK'
    <3>1. source' \in [Files -> Seq(Line)] /\ reading' = reading /\ workerSays' = workerSays
      BY <1>1, <1>6, <2>0
    <3>2. \/ \E v \in {"yes", "no", "unknown"} : noted' = [noted EXCEPT !.exposed = v]
          \/ \E v \in BOOLEAN : noted' = [noted EXCEPT !.readonly = v]
          \/ noted' = noted
      BY <2>1, <2>3
    <3> QED
      BY <3>1, <3>2 DEF InspectionTypeOK
  <2>5. FlowNoted'
    <3>1. /\ LastIs("serializer", {"fields_with", "fields_without", "fields_computed"}, "fields_with")' <=>
                IF line \in {"fields_with", "fields_without", "fields_computed"} THEN line = "fields_with"
                ELSE LastIs("serializer", {"fields_with", "fields_without", "fields_computed"}, "fields_with")
          /\ LastIs("serializer", {"readonly_with", "readonly_without"}, "readonly_with")' <=>
                IF line \in {"readonly_with", "readonly_without"} THEN line = "readonly_with"
                ELSE LastIs("serializer", {"readonly_with", "readonly_without"}, "readonly_with")
      BY <1>1, <1>6, <2>0
    <3>2. /\ noted'.shows = noted.shows /\ noted'.model = noted.model
          /\ noted'.meta = noted.meta /\ noted'.matches = noted.matches
      BY <2>1, <2>3 DEF InspectionTypeOK
    <3>3. noted'.exposed = IF ~noted.meta THEN noted.exposed
                           ELSE IF line = "fields_with" THEN "yes"
                           ELSE IF line = "fields_without" THEN "no"
                           ELSE IF line = "fields_computed" THEN "unknown"
                           ELSE noted.exposed
      BY <2>1, <2>3 DEF InspectionTypeOK
    <3>4. noted'.readonly = IF ~noted.meta THEN noted.readonly
                            ELSE IF line = "readonly_with" THEN TRUE
                            ELSE IF line = "readonly_without" THEN FALSE
                            ELSE noted.readonly
      BY <2>1, <2>3 DEF InspectionTypeOK
    <3>5. noted'.shows = "field_sink" => HasLine("javascript", {"field_sink"})'
      BY <2>2, <3>2 DEF FlowNoted, HasLine, Files
    <3>6. noted'.model => HasLine("model", {"field"})'
      BY <2>2, <3>2 DEF FlowNoted, HasLine, Files
    <3>7. noted'.matches => LastIs("view", {"own_serializer", "other_serializer"}, "own_serializer")'
      BY <2>2, <3>2 DEF FlowNoted, LastIs, Files
    <3>8. /\ noted'.exposed = "yes" =>
                LastIs("serializer", {"fields_with", "fields_without", "fields_computed"}, "fields_with")'
          /\ ~noted'.meta => noted'.exposed = "unknown"
      BY <2>1, <3>1, <3>2, <3>3 DEF FlowNoted
    <3>9. noted'.meta => (noted'.readonly <=> LastIs("serializer", {"readonly_with", "readonly_without"}, "readonly_with")')
      BY <2>1, <3>1, <3>2, <3>4 DEF FlowNoted
    <3> QED
      BY <3>5, <3>6, <3>7, <3>8, <3>9 DEF FlowNoted
  <2>6. DockerNoted' /\ CallsNoted' /\ ReadInOrder' /\ Answered'
    <3>1. /\ noted'.stages = noted.stages /\ noted'.user = noted.user /\ noted'.sets = noted.sets
          /\ noted'.validates = noted.validates
      BY <2>1, <2>3 DEF InspectionTypeOK
    <3>2. DockerNoted' /\ CallsNoted'
      BY <2>2, <3>1 DEF DockerNoted, CallsNoted, HasLine, LastIs, Files
    <3>3. reading' = "serializer" /\ workerSays' = workerSays /\ source'["dockerfile"] = source["dockerfile"]
      BY <1>1, <1>6, <2>0, <2>2 DEF Files
    <3> QED
      BY <1>6, <3>1, <3>2, <3>3 DEF ReadInOrder, Answered
  <2> QED
    BY <2>4, <2>5, <2>6
<1>7. CASE reading = "view"
  <2>0. "view" \in Files
    BY DEF Files
  <2>1. noted' = Route(line) /\ line \in {"own_serializer", "other_serializer"}
    BY <1>7 DEF ReadLine, LinesOf
  <2>2. \A g \in Files \ {"view"} : source'[g] = source[g]
    BY <1>1, <1>7, <2>0
  <2>4. InspectionTypeOK'
    <3>1. source' \in [Files -> Seq(Line)] /\ reading' = reading /\ workerSays' = workerSays
      BY <1>1, <1>7, <2>0
    <3>2. PICK v \in BOOLEAN : noted' = [noted EXCEPT !.matches = v]
      BY <2>1 DEF Route
    <3> QED
      BY <3>1, <3>2 DEF InspectionTypeOK
  <2>5. FlowNoted'
    <3>1. LastIs("view", {"own_serializer", "other_serializer"}, "own_serializer")' <=> line = "own_serializer"
      BY <1>1, <1>7, <2>0, <2>1
    <3>2. /\ noted'.shows = noted.shows /\ noted'.exposed = noted.exposed /\ noted'.readonly = noted.readonly
          /\ noted'.meta = noted.meta /\ noted'.model = noted.model /\ noted'.matches = (line = "own_serializer")
      BY <2>1 DEF InspectionTypeOK, Route
    <3>3. noted'.matches => LastIs("view", {"own_serializer", "other_serializer"}, "own_serializer")'
      BY <3>1, <3>2
    <3> QED
      BY <2>2, <3>2, <3>3 DEF FlowNoted, HasLine, LastIs, Files
  <2>6. DockerNoted' /\ CallsNoted' /\ ReadInOrder' /\ Answered'
    <3>1. /\ noted'.stages = noted.stages /\ noted'.user = noted.user /\ noted'.sets = noted.sets
          /\ noted'.validates = noted.validates
      BY <2>1 DEF InspectionTypeOK, Route
    <3>2. DockerNoted' /\ CallsNoted'
      BY <2>2, <3>1 DEF DockerNoted, CallsNoted, HasLine, LastIs, Files
    <3>3. reading' = "view" /\ workerSays' = workerSays /\ source'["dockerfile"] = source["dockerfile"]
      BY <1>1, <1>7, <2>0, <2>2 DEF Files
    <3> QED
      BY <1>7, <3>1, <3>2, <3>3 DEF ReadInOrder, Answered
  <2> QED
    BY <2>4, <2>5, <2>6
<1> QED
  BY <1>2, <1>3, <1>4, <1>5, <1>6, <1>7 DEF ReadLine, Files

\* Going to the next file changes nothing that was noted of the last ones.
LEMMA NextKeeps ==
    ASSUME InspectionInv,
           NEW file, NEW next, <<file, next>> \in {<<"javascript", "model">>, <<"model", "serializer">>, <<"serializer", "view">>},
           NextArtifact(file, next)
    PROVE  InspectionInv'
<1> USE DEF InspectionInv, NextArtifact
<1>1. source' = source /\ workerSays' = workerSays /\ reading' \in Files
  BY DEF Files
<1>2. noted' = noted \/ (reading = "model" /\ \E v \in BOOLEAN : noted' = [noted EXCEPT !.meta = v])
        \/ (\E v \in BOOLEAN : noted' = [noted EXCEPT !.viewset = v])
  OBVIOUS
<1>3. InspectionTypeOK'
  BY <1>1, <1>2 DEF InspectionTypeOK
<1>4. /\ noted'.stages = noted.stages /\ noted'.user = noted.user /\ noted'.sets = noted.sets
      /\ noted'.validates = noted.validates /\ noted'.shows = noted.shows /\ noted'.model = noted.model
      /\ noted'.exposed = noted.exposed /\ noted'.readonly = noted.readonly /\ noted'.matches = noted.matches
      /\ reading # "model" => noted'.meta = noted.meta
  BY <1>2 DEF InspectionTypeOK
<1>5. DockerNoted' /\ CallsNoted'
  BY <1>1, <1>4 DEF DockerNoted, CallsNoted, HasLine, LastIs
<1>6. FlowNoted'
  <2>1. CASE reading # "model"
    BY <1>1, <1>4, <2>1 DEF FlowNoted, HasLine, LastIs
  <2>2. CASE reading = "model"
    BY <1>1, <1>4, <2>2, NoLine DEF FlowNoted, HasLine, LastIs, ReadInOrder
  <2> QED
    BY <2>1, <2>2
<1>7. ReadInOrder'
  BY <1>1, <1>4 DEF ReadInOrder
<1>8. Answered'
  BY <1>1 DEF Answered, Files
<1> QED
  BY <1>3, <1>5, <1>6, <1>7, <1>8

\* No step of the worker breaks the invariant.
LEMMA InspectionKeeps == InspectionInv /\ [InspectionNext]_inspectionVars => InspectionInv'
<1> SUFFICES ASSUME InspectionInv, [InspectionNext]_inspectionVars PROVE InspectionInv'
  OBVIOUS
<1>1. reading = "request" => noted.stages = 0
  BY NoLine DEF InspectionInv, ReadInOrder, DockerNoted, InspectionTypeOK, Files
<1>2. reading \in {"python", "view"} => noted.stages = 0
  BY NoLine DEF InspectionInv, ReadInOrder, DockerNoted, InspectionTypeOK, Files
<1>3. noted.stages \in Nat /\ noted.user \in {"missing", "root", "non_root", "dynamic"} /\ noted.sets \in Nat /\ noted.validates \in Nat
  BY DEF InspectionInv, InspectionTypeOK
<1>4. CASE Noop \/ Command \/ Observe \/ UnknownTool
  <2>1. PICK exit \in {"ok", "failed", "bad_request", "timed_out", "unstartable", "unknown", "of_command"} : Reply(exit, "none")
    BY <1>4 DEF Noop, Command, Observe, UnknownTool
  <2>2. reading = "request"
    BY <1>4 DEF Noop, Command, Observe, UnknownTool
  <2> QED
    BY <1>1, <2>1, <2>2, ReplyKeeps
<1>5. CASE ArtifactFails
  BY <1>5, ReplyKeeps DEF ArtifactFails
<1>6. ASSUME NEW f \in Files, Inspection(f) PROVE InspectionInv'
  <2>1. source' = source /\ noted' = noted /\ workerSays' = workerSays /\ reading = "request" /\ reading' = f
        /\ f \in {"dockerfile", "python", "javascript"}
    BY <1>6 DEF Inspection
  <2>2. InspectionTypeOK'
    BY <2>1 DEF InspectionInv, InspectionTypeOK
  <2>3. DockerNoted' /\ CallsNoted' /\ FlowNoted'
    BY <2>1 DEF InspectionInv, DockerNoted, CallsNoted, FlowNoted, HasLine, LastIs
  <2>4. ReadInOrder' /\ Answered'
    BY <2>1 DEF InspectionInv, ReadInOrder, Answered
  <2> QED
    BY <2>2, <2>3, <2>4 DEF InspectionInv
<1>7. ASSUME NEW line \in Line, ReadLine(line) PROVE InspectionInv'
  BY <1>7, LineKeeps
<1>8. CASE DockerfileEnds
  <2>1. DockerVerdict \in {"confirmed", "rejected", "inconclusive"}
    BY <1>3 DEF DockerVerdict
  <2>2. CASE noted.stages = 0
    BY <1>8, <2>2, ReplyKeeps DEF DockerfileEnds
  <2>3. CASE noted.stages # 0
    <3>1. reading # "done" /\ Reply("ok", DockerVerdict)
      BY <1>8, <2>3 DEF DockerfileEnds
    <3> QED
      BY <2>1, <2>3, <3>1, ReplyKeeps
  <2> QED
    BY <2>2, <2>3
<1>9. CASE PythonEnds
  <2>1. PasswordVerdict \in {"confirmed", "rejected", "inconclusive"}
    BY <1>3 DEF PasswordVerdict
  <2>2. reading # "done" /\ Reply("ok", PasswordVerdict) /\ noted.stages = 0
    BY <1>2, <1>9 DEF PythonEnds
  <2> QED
    BY <2>1, <2>2, ReplyKeeps
<1>10. CASE ViewEnds
  <2>1. FlowVerdict \in {"confirmed", "rejected", "inconclusive"}
    BY DEF FlowVerdict
  <2>2. reading # "done" /\ Reply("ok", FlowVerdict) /\ noted.stages = 0
    BY <1>2, <1>10 DEF ViewEnds
  <2> QED
    BY <2>1, <2>2, ReplyKeeps
<1>11. CASE \/ NextArtifact("javascript", "model") \/ NextArtifact("model", "serializer")
            \/ NextArtifact("serializer", "view")
  BY <1>11, NextKeeps
<1>12. CASE UNCHANGED inspectionVars
  <2> USE <1>12 DEF inspectionVars
  <2>1. InspectionTypeOK'
    BY DEF InspectionInv, InspectionTypeOK
  <2>2. DockerNoted' /\ CallsNoted' /\ FlowNoted'
    BY DEF InspectionInv, DockerNoted, CallsNoted, FlowNoted, HasLine, LastIs
  <2>3. ReadInOrder' /\ Answered'
    BY DEF InspectionInv, ReadInOrder, Answered, DockerVerdict, PasswordVerdict, FlowVerdict, Writable
  <2> QED
    BY <2>1, <2>2, <2>3 DEF InspectionInv
<1> QED
  BY <1>4, <1>5, <1>6, <1>7, <1>8, <1>9, <1>10, <1>11, <1>12 DEF InspectionNext

LEMMA InspectionStarts == InspectionInit => InspectionInv
<1> SUFFICES ASSUME InspectionInit PROVE InspectionInv
  OBVIOUS
<1>1. \A f \in Files : \A lines : ~HasLine(f, lines)
  BY DEF InspectionInit, HasLine
<1>2. \A f \in Files : \A lines, line : ~LastIs(f, lines, line)
  BY DEF InspectionInit, LastIs
<1>3. InspectionTypeOK
  BY DEF InspectionInit, InspectionTypeOK
<1>4. DockerNoted /\ CallsNoted /\ FlowNoted
  BY <1>1, <1>2 DEF InspectionInit, DockerNoted, CallsNoted, FlowNoted, Files
<1>5. ReadInOrder /\ Answered
  BY DEF InspectionInit, ReadInOrder, Answered, Files
<1> QED
  BY <1>3, <1>4, <1>5 DEF InspectionInv

LEMMA InspectionInductive == InspectionSpec => []InspectionInv
BY InspectionStarts, InspectionKeeps, PTL DEF InspectionSpec

\* A Dockerfile is found safe exactly when the last USER of its final stage
\* is not root.
LEMMA DockerSupported ==
    ASSUME InspectionInv, HasLine("dockerfile", {"from"}), reading = "done"
    PROVE  workerSays.verdict = "rejected" <=>
             /\ workerSays.exit = "ok"
             /\ \E i \in DOMAIN source.dockerfile :
                   source.dockerfile[i] = "non_root" /\ InFinalStage(i)
             /\ LastIs("dockerfile", {"root", "non_root", "dynamic"}, "non_root")
<1> DEFINE s == source["dockerfile"]
<1>1. DOMAIN s = 1 .. Len(s) /\ Len(s) \in Nat
  BY DEF InspectionInv, InspectionTypeOK, Files
<1>2. noted.stages > 0 /\ noted.user \in {"missing"} \cup Users
  BY DEF InspectionInv, DockerNoted, InspectionTypeOK, Users
<1>3. workerSays.verdict = "rejected" <=> workerSays.exit = "ok" /\ noted.user = "non_root"
  BY <1>2 DEF InspectionInv, Answered, DockerVerdict, Users
<1>4. ASSUME noted.user = "non_root"
      PROVE  /\ \E i \in DOMAIN s : s[i] = "non_root" /\ InFinalStage(i)
             /\ LastIs("dockerfile", {"root", "non_root", "dynamic"}, "non_root")
  <2>1. LastIs("dockerfile", {"from"} \cup Users, "non_root")
    BY <1>4 DEF InspectionInv, DockerNoted
  <2> QED
    BY <2>1 DEF LastIs, InFinalStage, Users
<1>5. ASSUME NEW i \in DOMAIN s, s[i] = "non_root", InFinalStage(i),
             LastIs("dockerfile", {"root", "non_root", "dynamic"}, "non_root")
      PROVE  noted.user = "non_root"
  <2>1. noted.user # "missing"
    <3>1. SUFFICES ASSUME LastIs("dockerfile", {"from"} \cup Users, "from") PROVE FALSE
      BY <1>2 DEF InspectionInv, DockerNoted
    <3> QED
      BY <1>1, <1>5, <3>1 DEF LastIs, InFinalStage, Users
  <2>2. LastIs("dockerfile", {"from"} \cup Users, noted.user)
    BY <2>1 DEF InspectionInv, DockerNoted
  <2> QED
    BY <1>1, <1>2, <1>5, <2>1, <2>2 DEF LastIs, Users
<1> QED
  BY <1>3, <1>4, <1>5

\* What the worker concludes of a Dockerfile, of calls and of the flow to
\* HTML is what the whole source says (executor/worker.py), however many
\* lines each file has and wherever the inspection fails.
THEOREM ConclusionsHold == InspectionSpec => []ConclusionIsSupported
<1>1. InspectionInv => ConclusionIsSupported
  <2> SUFFICES ASSUME InspectionInv PROVE ConclusionIsSupported
    OBVIOUS
  <2>1. workerSays.verdict # "none" => workerSays.exit = "ok"
    BY DEF InspectionInv, Answered
  <2>2. ASSUME workerSays.verdict = "confirmed"
        PROVE  \/ LastIs("dockerfile", {"from", "root", "non_root", "dynamic"}, "root")
               \/ LastIs("dockerfile", {"from", "root", "non_root", "dynamic"}, "from")
               \/ HasLine("python", {"set_password"}) /\ ~HasLine("python", {"validate_password"})
               \/ /\ HasLine("javascript", {"field_sink"})
                  /\ HasLine("model", {"field"})
                  /\ LastIs("serializer", {"fields_with", "fields_without", "fields_computed"}, "fields_with")
                  /\ ~LastIs("serializer", {"readonly_with", "readonly_without"}, "readonly_with")
                  /\ LastIs("view", {"own_serializer", "other_serializer"}, "own_serializer")
    <3>0. /\ {"from"} \cup Users = {"from", "root", "non_root", "dynamic"}
          /\ noted.user \in {"missing"} \cup Users
          /\ noted.sets \in Nat /\ noted.validates \in Nat
      BY DEF Users, InspectionInv, InspectionTypeOK
    <3>1. CASE noted.stages > 0 /\ DockerVerdict = "confirmed"
      <4>1. noted.user \in {"missing", "root"}
        BY <3>0, <3>1 DEF DockerVerdict, Users
      <4>2. \/ LastIs("dockerfile", {"from"} \cup Users, "root")
            \/ LastIs("dockerfile", {"from"} \cup Users, "from")
        BY <3>1, <4>1 DEF InspectionInv, DockerNoted
      <4> QED
        BY <3>0, <4>2
    <3>2. CASE PasswordVerdict = "confirmed"
      BY <3>0, <3>2 DEF PasswordVerdict, InspectionInv, CallsNoted
    <3>3. CASE FlowVerdict = "confirmed"
      <4>1. noted.shows = "field_sink" /\ Writable
        BY <3>3 DEF FlowVerdict
      <4> QED
        BY <4>1 DEF Writable, InspectionInv, FlowNoted
    <3> QED
      BY <2>2, <3>1, <3>2, <3>3 DEF InspectionInv, Answered
  <2> QED
    BY <2>1, <2>2, DockerSupported DEF ConclusionIsSupported
<1> QED
  BY <1>1, InspectionInductive, PTL

---------------------------------------------------------------------------
\* Discovery: identifiers (DiscoveryResolver._component_id)

\* A set of numbers that is not empty has a least one.
LEMMA LeastNumber ==
    ASSUME NEW T \in SUBSET Nat, T # {}
    PROVE  \E n \in T : \A k \in T : n <= k
<1>1. IsWellFoundedOn(OpToRel(<, Nat), Nat)
  BY NatLessThanWellFounded
<1>2. PICK n \in T : \A k \in T : <<k, n>> \notin OpToRel(<, Nat)
  BY <1>1, WFMin
<1>3. ASSUME NEW k \in T PROVE n <= k
  <2>1. ~(k < n)
    BY <1>2 DEF OpToRel
  <2> QED
    BY <2>1
<1> QED
  BY <1>3

\* And one that is bounded has a greatest.
LEMMA GreatestNumber ==
    ASSUME NEW T \in SUBSET Nat, T # {}, NEW bound \in Nat, \A k \in T : k <= bound
    PROVE  \E n \in T : \A k \in T : k <= n
<1> DEFINE Bounds == {n \in Nat : \A k \in T : k <= n}
<1>1. PICK n \in Bounds : \A m \in Bounds : n <= m
  <2>1. bound \in Bounds /\ Bounds \in SUBSET Nat
    OBVIOUS
  <2> HIDE DEF Bounds
  <2> QED
    BY <2>1, LeastNumber
<1>2. n \in T
  <2> SUFFICES ASSUME n \notin T PROVE FALSE
    OBVIOUS
  <2>1. \A k \in T : k \in Nat /\ k <= n /\ k # n
    BY <1>1
  <2>2. n \in Nat /\ n # 0
    <3>1. PICK k \in T : TRUE
      OBVIOUS
    <3>2. k \in Nat /\ k <= n /\ k # n /\ n \in Nat
      BY <1>1, <2>1
    <3> QED
      BY <3>2
  <2>3. n - 1 \in Nat /\ \A k \in T : k <= n - 1
    BY <2>1, <2>2
  <2>4. n - 1 \in Bounds
    BY <2>3
  <2> QED
    BY <1>1, <2>4
<1> QED
  BY <1>1, <1>2

\* The identifier that is given is free, and one of those of the name, when
\* one of these is free.
LEMMA FreeIdIsFree ==
    ASSUME NEW STATE name, NEW STATE used,
           \E n \in Directory : Numbered[name][n] \notin used
    PROVE  /\ FreeId(name, used) \notin used
           /\ \E n \in Directory : FreeId(name, used) = Numbered[name][n]
<1> DEFINE Free == {n \in Directory : Numbered[name][n] \notin used}
           First(n) == Numbered[name][n] \notin used /\ \A m \in 1 .. n - 1 : Numbered[name][m] \in used
           chosen == CHOOSE n \in Directory : First(n)
<1>1. PICK n \in Free : \A k \in Free : n <= k
  <2>1. Free # {} /\ Free \in SUBSET Nat
    BY TreeShape DEF Directory
  <2> HIDE DEF Free
  <2> QED
    BY <2>1, LeastNumber
<1>2. n \in Directory /\ First(n)
  BY <1>1, TreeShape DEF Directory
<1>3. chosen \in Directory /\ First(chosen)
  <2> HIDE DEF First
  <2> QED
    BY <1>2
<1>4. FreeId(name, used) = Numbered[name][chosen]
  BY DEF FreeId
<1> HIDE DEF chosen
<1> QED
  BY <1>3, <1>4

\* The identifiers below d, as far as they are given.
GivenTo(ids, d) == {ids[e] : e \in {c \in ComponentRoots : c < d}}

\* The identifiers that the resolver gives the first n directories.
Given(n, ids) == ids = [d \in 1 .. n |-> FreeId(BaseName(d), GivenTo(ids, d))]

\* Components are directories.
LEMMA RootsAreDirectories ==
    ASSUME signals \subseteq Signals
    PROVE  ComponentRoots \subseteq Directory
BY DEF ComponentRoots, Signals

\* The recursion gives every directory an identifier.
LEMMA IdsExist ==
    ASSUME signals \subseteq Signals
    PROVE  ComponentId = [d \in Directory |-> FreeId(BaseName(d), GivenTo(ComponentId, d))]
<1> DEFINE Stuck == {n \in Nat : n <= Directories /\ ~\E ids : Given(n, ids)}
<1>0. Directories \in Nat
  BY TreeShape
<1>1. Stuck = {}
  <2> SUFFICES ASSUME Stuck # {} PROVE FALSE
    OBVIOUS
  <2>1. PICK n \in Stuck : \A k \in Stuck : n <= k
    BY LeastNumber
  <2>2. n # 0
    <3>1. Given(0, [d \in 1 .. 0 |-> 0])
      BY DEF Given
    <3> QED
      BY <3>1
  <2>3. n - 1 \in Nat /\ n - 1 <= Directories
    BY <1>0, <2>2
  <2>4. n - 1 \notin Stuck
    BY <2>1, <2>3
  <2>5. PICK ids : Given(n - 1, ids)
    BY <2>3, <2>4
  <2> DEFINE more == [d \in 1 .. n |-> IF d = n THEN FreeId(BaseName(n), GivenTo(ids, n)) ELSE ids[d]]
  <2>6. ASSUME NEW d \in 1 .. n PROVE GivenTo(more, d) = GivenTo(ids, d)
    <3>1. \A e \in {c \in ComponentRoots : c < d} : more[e] = ids[e]
      BY RootsAreDirectories DEF Directory
    <3> HIDE DEF more
    <3> QED
      BY <3>1 DEF GivenTo
  <2>7. ASSUME NEW d \in 1 .. n PROVE more[d] = FreeId(BaseName(d), GivenTo(more, d))
    <3>1. CASE d = n
      BY <2>6, <3>1
    <3>2. CASE d # n
      <4>1. d \in 1 .. n - 1
        BY <3>2
      <4>2. ids[d] = FreeId(BaseName(d), GivenTo(ids, d))
        BY <2>5, <4>1 DEF Given
      <4> QED
        BY <2>6, <3>2, <4>2
    <3> QED
      BY <3>1, <3>2
  <2>8. Given(n, more)
    BY <2>7 DEF Given
  <2> QED
    BY <2>1, <2>8
<1>2. \E ids : ids = [d \in Directory |-> FreeId(BaseName(d), GivenTo(ids, d))]
  BY <1>0, <1>1 DEF Given, Directory
<1> QED
  BY <1>2 DEF ComponentId, GivenTo

\* Nobody has taken all the identifiers of a name: there are as many as
\* directories.
LEMMA OneIsFree ==
    ASSUME signals \subseteq Signals, NEW STATE ids, NEW d \in Directory, NEW STATE name, name \in Names
    PROVE  \E n \in Directory : Numbered[name][n] \notin GivenTo(ids, d)
<1> SUFFICES ASSUME \A n \in Directory : Numbered[name][n] \in GivenTo(ids, d)
             PROVE  FALSE
  OBVIOUS
<1> DEFINE Below == 1 .. d - 1
           bearer == [n \in 1 .. Directories |-> CHOOSE e \in Below : ids[e] = Numbered[name][n]]
<1>1. Directories \in Nat /\ d \in 1 .. Directories
  BY TreeShape DEF Directory
<1>2. \A n \in 1 .. Directories : \E e \in Below : ids[e] = Numbered[name][n]
  BY <1>1, RootsAreDirectories DEF GivenTo, Directory
<1>3. \A n \in 1 .. Directories : bearer[n] \in Below /\ ids[bearer[n]] = Numbered[name][n]
  BY <1>2
<1>4. bearer \in [1 .. Directories -> Below]
  BY <1>3
<1>5. \A x, y \in 1 .. Directories : bearer[x] = bearer[y] => x = y
  <2> HIDE DEF bearer
  <2> QED
    BY <1>3, TreeShape DEF Directory
<1>6. /\ IsFiniteSet(1 .. Directories) /\ IsFiniteSet(Below)
      /\ Cardinality(Below) < Cardinality(1 .. Directories)
  <2>1. d - 1 \in Int /\ d - 1 < Directories /\ Directories \in Int /\ 1 \in Int
    BY <1>1
  <2>2. IsFiniteSet(1 .. Directories) /\ Cardinality(1 .. Directories) = Directories
    BY <1>1, FS_Interval
  <2>3. IsFiniteSet(Below) /\ Cardinality(Below) < Directories
    <3>1. IsFiniteSet(1 .. d - 1) /\ Cardinality(1 .. d - 1) = IF 1 > d - 1 THEN 0 ELSE d - 1 - 1 + 1
      BY <2>1, FS_Interval
    <3> QED
      BY <1>1, <3>1
  <2> QED
    BY <2>2, <2>3
<1> DEFINE Suffixes == 1 .. Directories
<1>7. /\ bearer \in [Suffixes -> Below] /\ IsFiniteSet(Suffixes) /\ IsFiniteSet(Below)
      /\ Cardinality(Below) < Cardinality(Suffixes)
  BY <1>4, <1>6
<1>8. \A x, y \in Suffixes : bearer[x] = bearer[y] => x = y
  BY <1>5
<1> HIDE DEF bearer, Below, Suffixes
<1> QED
  BY <1>7, <1>8, FS_PigeonHole

\* A component is named after a service or a directory.
LEMMA BaseNames ==
    ASSUME signals \subseteq Signals, NEW d \in Directory
    PROVE  BaseName(d) \in Names
<1> DEFINE named == {s.service : s \in {t \in signals : t.root = d /\ t.service # "none"}}
<1>1. named \subseteq ServiceNames
  BY DEF Signals
<1>2. BaseName(d) = IF named = {} THEN DirName[d] ELSE CHOOSE n \in named : TRUE
  BY DEF BaseName
<1> HIDE DEF named
<1> QED
  BY <1>1, <1>2 DEF Names

\* Two components never have the same identifier.
LEMMA IdsDiffer ==
    ASSUME signals \subseteq Signals
    PROVE  /\ \A d \in ComponentRoots : ComponentId[d] \in Id
           /\ \A d, e \in ComponentRoots : ComponentId[d] = ComponentId[e] => d = e
<1>1. ASSUME NEW d \in ComponentRoots
      PROVE  /\ ComponentId[d] \notin GivenTo(ComponentId, d)
             /\ ComponentId[d] \in Id
  <2>1. d \in Directory
    BY RootsAreDirectories
  <2>2. ComponentId[d] = FreeId(BaseName(d), GivenTo(ComponentId, d))
    <3> DEFINE F(x) == FreeId(BaseName(x), GivenTo(ComponentId, x))
    <3>1. ComponentId = [x \in Directory |-> F(x)]
      BY IdsExist
    <3> HIDE DEF F
    <3>2. ComponentId[d] = F(d)
      BY <2>1, <3>1
    <3> QED
      BY <3>2 DEF F
  <2>3. BaseName(d) \in Names
    BY <2>1, BaseNames
  <2>4. \E n \in Directory : Numbered[BaseName(d)][n] \notin GivenTo(ComponentId, d)
    BY <2>1, <2>3, OneIsFree
  <2>5. /\ ComponentId[d] \notin GivenTo(ComponentId, d)
        /\ \E n \in Directory : ComponentId[d] = Numbered[BaseName(d)][n]
    BY <2>2, <2>4, FreeIdIsFree
  <2> QED
    BY <2>3, <2>5 DEF Id
<1>2. ASSUME NEW d \in ComponentRoots, NEW e \in ComponentRoots, e < d
      PROVE  ComponentId[d] # ComponentId[e]
  BY <1>1, <1>2 DEF GivenTo
<1>3. ASSUME NEW d \in ComponentRoots, NEW e \in ComponentRoots, ComponentId[d] = ComponentId[e]
      PROVE  d = e
  <2>1. d \in Nat /\ e \in Nat
    BY RootsAreDirectories, TreeShape DEF Directory
  <2> QED
    BY <1>2, <1>3, <2>1
<1> QED
  BY <1>1, <1>3

---------------------------------------------------------------------------
\* The merge

\* No two services of a profile have one root; no two components have one
\* identifier.
RootsUnique(from) == \A i, j \in DOMAIN from : from[i].root = from[j].root => i = j

IdsUnique == \A d, e \in DOMAIN components : components[d] = components[e] => d = e

\* Who is entered last under an identifier.
LEMMA LastIsEntered ==
    ASSUME DOMAIN components \subseteq Directory, NEW STATE from, NEW d \in DOMAIN components
    PROVE  LET i == IdIn(d, from)
           IN  LastWith(i, from) \in DOMAIN components /\ IdIn(LastWith(i, from), from) = i
<1> DEFINE i == IdIn(d, from)
           Bearers == {e \in DOMAIN components : IdIn(e, from) = i}
<1>1. Bearers \subseteq 1 .. Directories /\ Directories \in Nat /\ d \in Bearers
  BY TreeShape DEF Directory
<1>2. PICK n \in Bearers : \A k \in Bearers : k <= n
  <2> HIDE DEF Bearers
  <2>1. Bearers \in SUBSET Nat /\ Bearers # {} /\ \A k \in Bearers : k <= Directories
    BY <1>1
  <2> QED
    BY <1>1, <2>1, GreatestNumber
<1> HIDE DEF i
<1>3. \E e \in DOMAIN components : IdIn(e, from) = i /\ \A f \in DOMAIN components : IdIn(f, from) = i => f <= e
  BY <1>2
<1>4. LastWith(i, from) \in DOMAIN components /\ IdIn(LastWith(i, from), from) = i
  BY <1>3 DEF LastWith
<1> QED
  BY <1>4 DEF i

\* A component has the identifier of the service with its root, or its own.
LEMMA IdInIs ==
    ASSUME NEW STATE from, RootsUnique(from), NEW STATE d
    PROVE  /\ \A i \in DOMAIN from : from[i].root = d => IdIn(d, from) = i
           /\ (\A i \in DOMAIN from : from[i].root # d) => IdIn(d, from) = components[d]
           /\ \/ IdIn(d, from) \in DOMAIN from /\ from[IdIn(d, from)].root = d
              \/ (\A i \in DOMAIN from : from[i].root # d) /\ IdIn(d, from) = components[d]
BY DEF IdIn, RootsUnique

\* The merged profile, service by service.
LEMMA MergedIs ==
    ASSUME DOMAIN components \subseteq Directory, NEW STATE from
    PROVE  /\ \A i : i \in DOMAIN Merged(from) <=>
                    \/ \E d \in DOMAIN components : i = IdIn(d, from)
                    \/ i \in DOMAIN from /\ from[i].root \notin DOMAIN components
           /\ \A i \in DOMAIN from : from[i].root \notin DOMAIN components => Merged(from)[i] = from[i]
           /\ \A d \in DOMAIN components :
                 (IdIn(d, from) \in DOMAIN from => from[IdIn(d, from)].root \in DOMAIN components) =>
                    /\ Merged(from)[IdIn(d, from)].root = LastWith(IdIn(d, from), from)
                    /\ Merged(from)[IdIn(d, from)] \in [root : {LastWith(IdIn(d, from), from)}, by : {"merged", "found"}]
BY DEF Merged, Matched

\* No identifier of the base profile vanishes, and the entry under one is its
\* service or a component that bears it; a component that is not entered
\* under its identifier lost it to the base profile.
LEMMA MergeKeeps ==
    ASSUME DOMAIN components \subseteq Directory, IdsUnique, RootsUnique(base)
    PROVE  /\ \A i \in DOMAIN base :
                 /\ i \in DOMAIN Merged(base)
                 /\ \/ Merged(base)[i].root = base[i].root
                    \/ /\ Merged(base)[i].root \in DOMAIN components
                       /\ components[Merged(base)[i].root] = i
           /\ \A d \in DOMAIN components :
                 /\ IdIn(d, base) \in DOMAIN Merged(base)
                 /\ Merged(base)[IdIn(d, base)].root = d \/ IdIn(d, base) \in DOMAIN base
<1>1. ASSUME NEW i \in DOMAIN base
      PROVE  /\ i \in DOMAIN Merged(base)
             /\ \/ Merged(base)[i].root = base[i].root
                \/ /\ Merged(base)[i].root \in DOMAIN components
                   /\ components[Merged(base)[i].root] = i
  <2>1. CASE base[i].root \notin DOMAIN components
    BY <2>1, MergedIs
  <2>2. CASE base[i].root \in DOMAIN components
    <3> DEFINE last == LastWith(i, base)
    <3>1. IdIn(base[i].root, base) = i
      BY IdInIs
    <3>2. last \in DOMAIN components /\ IdIn(last, base) = i
      BY <2>2, <3>1, LastIsEntered
    <3>3. i \in DOMAIN Merged(base) /\ Merged(base)[i].root = last
      BY <2>2, <3>1, MergedIs
    <3> HIDE DEF last
    <3>4. base[i].root = last \/ components[last] = i
      BY <3>2, IdInIs
    <3> QED
      BY <3>2, <3>3, <3>4
  <2> QED
    BY <2>1, <2>2
<1>2. ASSUME NEW d \in DOMAIN components
      PROVE  /\ IdIn(d, base) \in DOMAIN Merged(base)
             /\ Merged(base)[IdIn(d, base)].root = d \/ IdIn(d, base) \in DOMAIN base
  <2> DEFINE i == IdIn(d, base)
  <2>1. i \in DOMAIN Merged(base)
    BY MergedIs
  <2>2. CASE i \notin DOMAIN base
    <3> DEFINE last == LastWith(i, base)
    <3>1. last \in DOMAIN components /\ IdIn(last, base) = i
      BY LastIsEntered
    <3>2. Merged(base)[i].root = last
      BY <2>2, MergedIs
    <3> HIDE DEF last
    <3>3. components[last] = i /\ components[d] = i
      BY <2>2, <3>1, IdInIs
    <3> QED
      BY <2>1, <3>1, <3>2, <3>3 DEF IdsUnique
  <2> QED
    BY <2>1, <2>2
<1> QED
  BY <1>1, <1>2

\* What an import finds is in its profile, each under its own identifier.
LEMMA ImportHasAll ==
    ASSUME DOMAIN components \subseteq Directory, IdsUnique, base = EmptyMap
    PROVE  /\ DOMAIN Merged(base) = {components[d] : d \in DOMAIN components}
           /\ \A d \in DOMAIN components : Merged(base)[components[d]].root = d
<1>1. DOMAIN base = {}
  BY DEF EmptyMap
<1>2. RootsUnique(base)
  BY <1>1 DEF RootsUnique
<1>3. \A d \in DOMAIN components : IdIn(d, base) = components[d]
  BY <1>1, <1>2, IdInIs
<1>4. DOMAIN Merged(base) = {components[d] : d \in DOMAIN components}
  <2>1. \A i : i \in DOMAIN Merged(base) <=> \E d \in DOMAIN components : i = IdIn(d, base)
    BY <1>1, MergedIs
  <2>2. \A i : i \in DOMAIN Merged(base) <=> \E d \in DOMAIN components : i = components[d]
    BY <1>3, <2>1
  <2> QED
    BY <2>2
<1>5. ASSUME NEW d \in DOMAIN components PROVE Merged(base)[components[d]].root = d
  <2> DEFINE last == LastWith(components[d], base)
  <2>1. last \in DOMAIN components /\ IdIn(last, base) = components[d]
    BY <1>3, LastIsEntered
  <2>2. Merged(base)[components[d]].root = last
    BY <1>1, <1>3, MergedIs
  <2> HIDE DEF last
  <2> QED
    BY <1>3, <2>1, <2>2 DEF IdsUnique
<1> QED
  BY <1>4, <1>5

\* A profile that has the components already is not changed by them.
LEMMA MergeAgain ==
    ASSUME DOMAIN components \subseteq Directory, IdsUnique, NEW STATE from,
           DOMAIN from = {components[d] : d \in DOMAIN components},
           \A d \in DOMAIN components : from[components[d]].root = d
    PROVE  /\ DOMAIN Merged(from) = DOMAIN from
           /\ \A i \in DOMAIN from : Merged(from)[i].root = from[i].root
<1>1. RootsUnique(from)
  BY DEF RootsUnique
<1>2. \A d \in DOMAIN components : IdIn(d, from) = components[d]
  BY <1>1, IdInIs
<1>3. \A i \in DOMAIN from : from[i].root \in DOMAIN components
  OBVIOUS
<1>4. DOMAIN Merged(from) = DOMAIN from
  BY <1>2, <1>3, MergedIs
<1>5. ASSUME NEW d \in DOMAIN components PROVE Merged(from)[components[d]].root = d
  <2> DEFINE last == LastWith(components[d], from)
  <2>1. last \in DOMAIN components /\ IdIn(last, from) = components[d]
    BY <1>2, LastIsEntered
  <2>2. Merged(from)[components[d]].root = last
    BY <1>2, <1>3, MergedIs
  <2> HIDE DEF last
  <2> QED
    BY <1>2, <2>1, <2>2 DEF IdsUnique
<1> QED
  BY <1>4, <1>5

---------------------------------------------------------------------------
\* The invariant

\* Inductive: identifiers are unique, and what the last step has built.
DiscoveryInv ==
    /\ DiscoveryTypeOK
    /\ IdsUnique
    /\ discovering # "rebuild" => RootsUnique(base)
    /\ discovering = "build" => services = Merged(base)
    /\ discovering = "rebuild" => /\ DOMAIN services = DOMAIN base
                                  /\ \A i \in DOMAIN base : services[i].root = base[i].root

\* A profile that is merged from a well-typed one is well typed.
LEMMA MergedTypes ==
    ASSUME DiscoveryTypeOK, NEW STATE from, RootsUnique(from),
           DOMAIN from \subseteq Id, \A i \in DOMAIN from : from[i] \in TargetServices
    PROVE  DOMAIN Merged(from) \subseteq Id /\ \A i \in DOMAIN Merged(from) : Merged(from)[i] \in TargetServices
<1>1. DOMAIN components \subseteq Directory /\ \A d \in DOMAIN components : components[d] \in Id
  BY DEF DiscoveryTypeOK
<1>2. \A d \in DOMAIN components : IdIn(d, from) \in Id
  BY <1>1, IdInIs
<1>3. DOMAIN Merged(from) \subseteq Id
  BY <1>1, <1>2, MergedIs
<1>4. ASSUME NEW i \in DOMAIN Merged(from) PROVE Merged(from)[i] \in TargetServices
  <2>1. CASE i \in DOMAIN from /\ from[i].root \notin DOMAIN components
    BY <1>1, <2>1, MergedIs
  <2>2. CASE ~(i \in DOMAIN from /\ from[i].root \notin DOMAIN components)
    <3>1. PICK d \in DOMAIN components : i = IdIn(d, from)
      BY <1>1, <2>2, MergedIs
    <3>2. LastWith(i, from) \in Directory
      BY <1>1, <3>1, LastIsEntered
    <3>3. Merged(from)[i] \in [root : {LastWith(i, from)}, by : {"merged", "found"}]
      BY <1>1, <2>2, <3>1, MergedIs
    <3> QED
      BY <3>2, <3>3 DEF TargetServices
  <2> QED
    BY <2>1, <2>2
<1> QED
  BY <1>3, <1>4

\* The steps of discovery, one after the other.
LEMMA ScanKeeps == ASSUME DiscoveryInv, Scan PROVE DiscoveryInv'
<1>1. base' \in ManualProfiles /\ tree' \in Trees
  BY DEF Scan
<1>2. PICK S \in SUBSET ManualIds : base' \in [S -> [root : Directory, by : {"manual"}]]
  BY <1>1 DEF ManualProfiles
<1>3. DOMAIN base' \subseteq Id /\ \A i \in DOMAIN base' : base'[i] \in TargetServices
  BY <1>2 DEF TargetServices, Id
<1>4. UNCHANGED <<signals, components, services>> /\ discovering' = "scan"
  BY DEF Scan
<1>5. DiscoveryTypeOK'
  BY <1>1, <1>3, <1>4 DEF DiscoveryInv, DiscoveryTypeOK
<1>6. RootsUnique(base)'
  BY <1>1 DEF ManualProfiles, RootsUnique
<1> QED
  BY <1>4, <1>5, <1>6 DEF DiscoveryInv, IdsUnique

LEMMA DetectKeeps == ASSUME DiscoveryInv, Detect PROVE DiscoveryInv'
<1>1. PICK runnable \in SUBSET Of("package"), compose \in {{}, ComposeSigns} :
        signals' = EntrySigns \cup PackageSigns(runnable) \cup compose
  BY DEF Detect
<1>2. tree.files \subseteq Directory \X FileKinds
  BY DEF DiscoveryInv, DiscoveryTypeOK, Trees
<1>3. \A kind : Of(kind) \subseteq Directory
  BY <1>2 DEF Of
<1>4. EntrySigns \subseteq Signals /\ PackageSigns(runnable) \subseteq Signals
  BY <1>3 DEF EntrySigns, PackageSigns, Sees, Signals
<1>5. ComposeSigns \subseteq Signals
  <2>1. PICK S \in SUBSET ServiceNames : tree.compose \in [S -> Directory \cup {NoDirectory}]
    BY DEF DiscoveryInv, DiscoveryTypeOK, Trees
  <2> QED
    BY <2>1 DEF ComposeSigns, Sees, Signals
<1>6. UNCHANGED <<tree, components, base, services>> /\ discovering' = "detect"
  BY DEF Detect
<1>7. DiscoveryTypeOK'
  BY <1>1, <1>4, <1>5, <1>6 DEF DiscoveryInv, DiscoveryTypeOK
<1> QED
  BY <1>6, <1>7 DEF DiscoveryInv, IdsUnique, RootsUnique, Detect

LEMMA ResolveKeeps == ASSUME DiscoveryInv, Resolve PROVE DiscoveryInv'
<1>1. signals \subseteq Signals
  BY DEF DiscoveryInv, DiscoveryTypeOK
<1>2. /\ components' = [d \in ComponentRoots |-> ComponentId[d]]
      /\ discovering = "detect" /\ discovering' = "resolve" /\ UNCHANGED <<tree, signals, base, services>>
  BY DEF Resolve
<1>4. ComponentRoots \subseteq Directory
  BY <1>1, RootsAreDirectories
<1>5. \A d \in ComponentRoots : ComponentId[d] \in Id
  BY <1>1, IdsDiffer
<1>6. IdsUnique'
  BY <1>1, <1>2, IdsDiffer DEF IdsUnique
<1>7. DiscoveryTypeOK'
  BY <1>2, <1>4, <1>5 DEF DiscoveryInv, DiscoveryTypeOK
<1>8. RootsUnique(base)'
  BY <1>2 DEF DiscoveryInv, RootsUnique
<1> QED
  BY <1>2, <1>6, <1>7, <1>8 DEF DiscoveryInv

\* The merge depends on the components and the base profile alone.
LEMMA MergedStays == ASSUME components' = components, base' = base PROVE Merged(base)' = Merged(base)
BY DEF Merged, LastWith, IdIn, Matched

LEMMA BuildKeeps == ASSUME DiscoveryInv, BuildProfile PROVE DiscoveryInv'
<1>1. UNCHANGED <<tree, signals, components, base>>
  BY DEF BuildProfile
<1>2. discovering = "resolve" /\ RootsUnique(base)
  BY DEF DiscoveryInv, BuildProfile
<1>3. IdsUnique' /\ RootsUnique(base)'
  BY <1>1, <1>2 DEF DiscoveryInv, IdsUnique, RootsUnique
<1>4. CASE discovering' = "refused" /\ UNCHANGED services
  BY <1>1, <1>3, <1>4 DEF DiscoveryInv, DiscoveryTypeOK
<1>5. CASE discovering' = "build" /\ services' = Merged(base)
  <2>1. DOMAIN Merged(base) \subseteq Id /\ \A i \in DOMAIN Merged(base) : Merged(base)[i] \in TargetServices
    BY <1>2, MergedTypes DEF DiscoveryInv, DiscoveryTypeOK
  <2>2. DiscoveryTypeOK'
    BY <1>1, <1>5, <2>1 DEF DiscoveryInv, DiscoveryTypeOK
  <2>3. services' = Merged(base)'
    BY <1>1, <1>5, MergedStays
  <2> QED
    BY <1>3, <1>5, <2>2, <2>3 DEF DiscoveryInv
<1> QED
  BY <1>4, <1>5 DEF BuildProfile

LEMMA RebuildKeeps == ASSUME DiscoveryInv, Rebuild PROVE DiscoveryInv'
<1>1. /\ UNCHANGED <<tree, signals, components>> /\ base' = services /\ services' = Merged(services)
      /\ discovering' = "rebuild" /\ discovering = "build" /\ base = EmptyMap
  BY DEF Rebuild
<1>2. DOMAIN components \subseteq Directory /\ services = Merged(base)
  BY <1>1 DEF DiscoveryInv, DiscoveryTypeOK
<1>3. /\ DOMAIN services = {components[d] : d \in DOMAIN components}
      /\ \A d \in DOMAIN components : services[components[d]].root = d
  BY <1>1, <1>2, ImportHasAll DEF DiscoveryInv
<1>4. RootsUnique(services)
  BY <1>3 DEF RootsUnique
<1>5. /\ DOMAIN Merged(services) = DOMAIN services
      /\ \A i \in DOMAIN services : Merged(services)[i].root = services[i].root
  BY <1>2, <1>3, MergeAgain DEF DiscoveryInv
<1>6. DOMAIN Merged(services) \subseteq Id /\ \A i \in DOMAIN Merged(services) : Merged(services)[i] \in TargetServices
  BY <1>4, MergedTypes DEF DiscoveryInv, DiscoveryTypeOK
<1>7. DiscoveryTypeOK'
  BY <1>1, <1>6 DEF DiscoveryInv, DiscoveryTypeOK
<1> QED
  BY <1>1, <1>5, <1>7 DEF DiscoveryInv, IdsUnique

\* No step of discovery breaks the invariant.
LEMMA DiscoveryKeeps == DiscoveryInv /\ [DiscoveryNext]_discoveryVars => DiscoveryInv'
<1> SUFFICES ASSUME DiscoveryInv, [DiscoveryNext]_discoveryVars PROVE DiscoveryInv'
  OBVIOUS
<1>1. ASSUME UNCHANGED discoveryVars PROVE DiscoveryInv'
  <2>1. Merged(base)' = Merged(base)
    BY <1>1, MergedStays DEF discoveryVars
  <2> QED
    BY <1>1, <2>1 DEF discoveryVars, DiscoveryInv, DiscoveryTypeOK, IdsUnique, RootsUnique
<1> QED
  BY <1>1, ScanKeeps, DetectKeeps, ResolveKeeps, BuildKeeps, RebuildKeeps DEF DiscoveryNext

LEMMA DiscoveryStarts == DiscoveryInit => DiscoveryInv
BY DEF DiscoveryInit, DiscoveryInv, DiscoveryTypeOK, IdsUnique, RootsUnique, EmptyMap, Trees

LEMMA DiscoveryInductive == DiscoverySpec => []DiscoveryInv
BY DiscoveryStarts, DiscoveryKeeps, PTL DEF DiscoverySpec

\* What TargetProfileBuilder.build (discovery/profile.py) makes of any
\* directories and names: an import keeps every component, a run of the
\* imported project every service, and a profile by hand its identifiers,
\* though not always the services under them.
THEOREM DiscoveryKeepsIds == DiscoverySpec => []IdsAreKept
<1>1. DiscoveryInv => IdsAreKept
  <2> SUFFICES ASSUME DiscoveryInv PROVE IdsAreKept
    OBVIOUS
  <2>1. DOMAIN components \subseteq Directory /\ IdsUnique
    BY DEF DiscoveryInv, DiscoveryTypeOK
  <2>2. ASSUME discovering = "build", base = EmptyMap, NEW d \in DOMAIN components
        PROVE  services[components[d]].root = d
    BY <2>1, <2>2, ImportHasAll DEF DiscoveryInv
  <2>3. ASSUME discovering = "build"
        PROVE  services = Merged(base) /\ RootsUnique(base)
    BY <2>3 DEF DiscoveryInv
  <2> QED
    BY <2>1, <2>2, <2>3, MergeKeeps DEF IdsAreKept, DiscoveryInv
<1> QED
  BY <1>1, DiscoveryInductive, PTL
===========================================================================
