--------------------------- MODULE ProjectImport ---------------------------
(***************************************************************************)
(* Importing a project (api/service.py, api/app.py): an uploaded archive   *)
(* or folder is unpacked into a workspace of its own, discovered, given a  *)
(* profile, and entered into the registry in memory and into the store.    *)
(* A start of the service reads the profiles of all workspaces again.      *)
(* Uploads are handled by threads of the server, each under its own id.    *)
(***************************************************************************)
EXTENDS Naturals

CONSTANTS
    Uploads,        \* the generated target ids
    MaxStarts       \* bound on starts of the service

ASSUME ImportBounds == MaxStarts \in Nat \ {0}

VARIABLES
    importing,  \* where the request of each upload is
    contents,   \* what was uploaded
    files,      \* <workspace>/source: "none", "part", "all"
    profiles,   \* <workspace>/target-profile.yaml: "none", "part", "written"
    registry,   \* targets of the registry (in memory)
    projects,   \* rows of the store
    told,       \* the answer the client got
    starts      \* starts of the service, the first included

importVars == <<importing, contents, files, profiles, registry, projects, told, starts>>

\* What an upload may have in it besides plain files: an entry whose path
\* is given twice, leaves the project, is a symbolic link, or is too large.
Entries == {"twice", "outside", "link", "large"}

\* size: of the upload and of what it unpacks to, against the limits.
Contents == [form : {"zip", "folder"}, named : BOOLEAN, size : {"empty", "fits", "large"},
             unpacked : {"fits", "large"}, entries : SUBSET Entries, components : BOOLEAN]

Nothing == [form |-> "zip", named |-> FALSE, size |-> "empty", unpacked |-> "fits",
            entries |-> {}, components |-> FALSE]

ImportTypeOK ==
    /\ importing \in [Uploads -> {"none", "received", "unpack", "discover", "profile",
                                  "register", "store", "answer", "discard", "ended"}]
    /\ contents \in [Uploads -> Contents]
    /\ files \in [Uploads -> {"none", "part", "all"}]
    /\ profiles \in [Uploads -> {"none", "part", "written"}]
    /\ registry \subseteq Uploads
    /\ projects \subseteq Uploads
    /\ told \in [Uploads -> {"none", "imported", "failed"}]
    /\ starts \in 1 .. MaxStarts

ImportInit ==
    /\ importing = [u \in Uploads |-> "none"]
    /\ contents = [u \in Uploads |-> Nothing]
    /\ files = [u \in Uploads |-> "none"]
    /\ profiles = [u \in Uploads |-> "none"]
    /\ registry = {}
    /\ projects = {}
    /\ told = [u \in Uploads |-> "none"]
    /\ starts = 1

At(u, where) == importing[u] = where

GoTo(u, where) == importing' = [importing EXCEPT ![u] = where]

Disk == <<files, profiles>>

Tell(u, what) == told' = [told EXCEPT ![u] = what]

---------------------------------------------------------------------------
\* The request

\* A request that is too large is refused while its body is read.
Receive(u, c) ==
    /\ At(u, "none")
    /\ contents' = [contents EXCEPT ![u] = c]
    /\ IF c.form = "zip" /\ c.size = "large"
       THEN GoTo(u, "ended") /\ Tell(u, "failed")
       ELSE GoTo(u, "received") /\ UNCHANGED told
    /\ UNCHANGED <<Disk, registry, projects, starts>>

\* What is refused before there is a workspace: a folder is decoded as a
\* whole first, an archive only has its name and size looked at.
RefusedEarly(c) ==
    \/ c.size # "fits"
    \/ c.form = "zip" /\ ~c.named
    \/ c.form = "folder" /\ c.entries \cap {"twice", "outside", "large"} # {}

\* What stops the unpacking of an archive, after some entries.
RefusedUnpacking(c) ==
    c.form = "zip" /\ (c.unpacked = "large" \/ c.entries \cap {"outside", "link", "large"} # {})

MakeWorkspace(u) ==
    /\ At(u, "received")
    /\ IF RefusedEarly(contents[u])
       THEN GoTo(u, "ended") /\ Tell(u, "failed") /\ UNCHANGED files
       ELSE /\ GoTo(u, "unpack")
            /\ files' = [files EXCEPT ![u] = "part"]
            /\ UNCHANGED told
    /\ UNCHANGED <<contents, profiles, registry, projects, starts>>

\* The disk may be full.
Unpack(u) ==
    /\ At(u, "unpack")
    /\ \/ /\ ~RefusedUnpacking(contents[u])
          /\ files' = [files EXCEPT ![u] = "all"]
          /\ GoTo(u, "discover")
       \/ GoTo(u, "discard") /\ UNCHANGED files
    /\ UNCHANGED <<contents, profiles, registry, projects, told, starts>>

\* git init is best effort; discovery needs a component to go on.
Discover(u) ==
    /\ At(u, "discover")
    /\ \/ contents[u].components /\ GoTo(u, "profile")
       \/ GoTo(u, "discard")
    /\ UNCHANGED <<contents, Disk, registry, projects, told, starts>>

\* write_text opens the file and writes it.
WriteProfile(u) ==
    /\ At(u, "profile")
    /\ \/ /\ profiles[u] = "none"
          /\ profiles' = [profiles EXCEPT ![u] = "part"]
          /\ UNCHANGED importing
       \/ /\ profiles[u] = "part"
          /\ profiles' = [profiles EXCEPT ![u] = "written"]
          /\ GoTo(u, "register")
       \/ GoTo(u, "discard") /\ UNCHANGED profiles
    /\ UNCHANGED <<contents, files, registry, projects, told, starts>>

Register(u) ==
    /\ At(u, "register")
    /\ registry' = registry \cup {u}
    /\ GoTo(u, "store")
    /\ UNCHANGED <<contents, Disk, projects, told, starts>>

\* upsert_project: a transaction that commits or raises.
Store(u) ==
    /\ At(u, "store")
    /\ \/ projects' = projects \cup {u} /\ GoTo(u, "answer")
       \/ GoTo(u, "discard") /\ UNCHANGED projects
    /\ UNCHANGED <<contents, Disk, registry, told, starts>>

\* get_project reads the row again, and this may raise as well.
AnswerUpload(u) ==
    /\ At(u, "answer")
    /\ \/ GoTo(u, "ended") /\ Tell(u, "imported")
       \/ GoTo(u, "discard") /\ UNCHANGED told
    /\ UNCHANGED <<contents, Disk, registry, projects, starts>>

\* except Exception: rmtree, whose own errors are ignored; neither the
\* registry nor the store is looked at.
Discard(u) ==
    /\ At(u, "discard")
    /\ \E kept \in BOOLEAN :
          /\ files' = [files EXCEPT ![u] = IF kept THEN "part" ELSE "none"]
          /\ profiles' = IF kept THEN profiles ELSE [profiles EXCEPT ![u] = "none"]
    /\ GoTo(u, "ended") /\ Tell(u, "failed")
    /\ UNCHANGED <<contents, registry, projects, starts>>

---------------------------------------------------------------------------
\* A start of the service after a crash

\* A profile that is cut off may still be read as a profile, or not.
Readable(u) ==
    IF files[u] = "none" THEN {FALSE}
    ELSE CASE profiles[u] = "written" -> {TRUE}
           [] profiles[u] = "part" -> BOOLEAN
           [] profiles[u] = "none" -> {FALSE}

\* Mutant: a workspace is read again only if its row is missing.
LoadMissingProjects(read) == {u \in Uploads : read[u] /\ u \notin projects}

LoadGeneratedProjects(read) == {u \in Uploads : read[u]}

Restart ==
    /\ starts < MaxStarts
    /\ starts' = starts + 1
    /\ \E read \in [Uploads -> BOOLEAN] :
          /\ \A u \in Uploads : read[u] \in Readable(u)
          /\ registry' = LoadGeneratedProjects(read)
    /\ projects' = projects \cup registry'
    /\ importing' = [u \in Uploads |-> IF At(u, "none") THEN "none" ELSE "ended"]
    /\ UNCHANGED <<contents, Disk, told>>

ImportStep(u) ==
    MakeWorkspace(u) \/ Unpack(u) \/ Discover(u) \/ WriteProfile(u) \/ Register(u) \/ Store(u)
       \/ AnswerUpload(u) \/ Discard(u)

\* collectFolder of the browser passes over files that are too large, and
\* refuses a selection that is empty or too large before it asks.
Collected == {c \in Contents : c.form = "folder" /\ c.size = "fits" /\ c.entries = {}}

BrowserImports(u) == \E c \in Collected : Receive(u, c)

ImportCall ==
    \E u \in Uploads :
       \/ BrowserImports(u)
       \/ \E c \in Contents : Receive(u, c)     \* any other client

ImportNext == ImportCall \/ Restart \/ \E u \in Uploads : ImportStep(u)

ImportSpec == ImportInit /\ [][ImportNext]_importVars

---------------------------------------------------------------------------
\* Properties

\* A project whose import was answered can be run, now and after any
\* crash: it is listed, it is registered, its files are whole.
AnsweredIsKept ==
    \A u \in Uploads : told[u] = "imported" =>
       u \in projects /\ u \in registry /\ files[u] = "all" /\ profiles[u] = "written"
===========================================================================
