----------------------------- MODULE Discovery -----------------------------
(***************************************************************************)
(* discovery/: which components a repository has, and the target profile   *)
(* that is made of them.  The detectors read every file once, the resolver *)
(* groups what they saw into components, and the builder merges these with *)
(* a base profile: one that was written by hand, or, when an imported      *)
(* project is analysed, the one that was built at its import.              *)
(*                                                                         *)
(* A directory is a position in the order in which the resolver visits     *)
(* them, parents first.                                                    *)
(***************************************************************************)
EXTENDS Naturals, FiniteSets

CONSTANTS
    Directories,    \* how many there are
    Above,          \* of each, the directories it is in
    DirName,        \* the name of each ("service" for the root)
    ServiceNames,   \* names of services in the file of Compose
    ManualIds,      \* identifiers in profiles written by hand
    Numbered        \* the n-th identifier tried for a name: api, api-2, api-3, ...

Directory == 1 .. Directories

Names == ServiceNames \cup {DirName[d] : d \in Directory}

\* Identifiers are strings: a service may be called what another one is given.
Id == ManualIds \cup {Numbered[name][n] : name \in Names, n \in Directory}

ASSUME TreeShape ==
    /\ Directories \in Nat
    /\ DOMAIN DirName = Directory
    /\ Above \in [Directory -> SUBSET Directory]
    /\ \A d \in Directory : \A up \in Above[d] : up < d
    /\ \A name \in Names : \A m, n \in Directory : Numbered[name][m] = Numbered[name][n] => m = n

VARIABLES
    discovering,    \* what was done last
    tree,           \* the files that are there
    signals,        \* what the detectors saw
    components,     \* the identifier of the DiscoveredComponent of each root
    base,           \* the services of the base profile
    services        \* TargetProfile.services

discoveryVars == <<discovering, tree, signals, components, base, services>>

\* Files, by what they make of their directory: manage.py, a Dockerfile or
\* the configuration of Vite mark a component; the file of a package is a
\* manifest, and marks one when it can be read and has something to run.
FileKinds == {"entry", "package"}

NoDirectory == 0

\* compose: the services of the file of Compose, and what they are built of.
Trees == [files : SUBSET (Directory \X FileKinds),
          compose : UNION {[S -> Directory \cup {NoDirectory}] : S \in SUBSET ServiceNames}]

Signals == [kind : {"anchor", "manifest"}, root : Directory, service : ServiceNames \cup {"none"}]

TargetServices == [root : Directory, by : {"found", "merged", "manual"}]

DiscoveryTypeOK ==
    /\ discovering \in {"nothing", "scan", "detect", "resolve", "build", "rebuild", "refused"}
    /\ tree \in Trees
    /\ signals \subseteq Signals
    /\ DOMAIN components \subseteq Directory
    /\ \A d \in DOMAIN components : components[d] \in Id
    /\ \A table \in {base, services} :
          DOMAIN table \subseteq Id /\ \A i \in DOMAIN table : table[i] \in TargetServices

EmptyMap == [i \in {} |-> i]

DiscoveryInit ==
    /\ discovering = "nothing"
    /\ tree = [files |-> {}, compose |-> EmptyMap]
    /\ signals = {}
    /\ components = EmptyMap
    /\ base = EmptyMap
    /\ services = EmptyMap

---------------------------------------------------------------------------
\* The profile that is given, the repository, and the detectors

\* Roots are unique in a profile.  An import has no base profile.
ManualProfiles ==
    {p \in UNION {[S -> [root : Directory, by : {"manual"}]] : S \in SUBSET ManualIds} :
        \A i, j \in DOMAIN p : p[i].root = p[j].root => i = j}

Scan ==
    /\ discovering = "nothing"
    /\ discovering' = "scan"
    /\ tree' \in Trees
    /\ base' \in ManualProfiles
    /\ UNCHANGED <<signals, components, services>>

Sees(kind, root, service) == [kind |-> kind, root |-> root, service |-> service]

Of(kind) == {f[1] : f \in {g \in tree.files : g[2] = kind}}

EntrySigns == {Sees("anchor", d, "none") : d \in Of("entry")}

\* A package that cannot be read is a manifest all the same.
PackageSigns(runnable) ==
    {Sees("manifest", d, "none") : d \in Of("package")} \cup {Sees("anchor", d, "none") : d \in runnable}

\* A service without a directory of its own belongs to no component.
ComposeSigns ==
    {Sees("anchor", tree.compose[n], n) : n \in {m \in DOMAIN tree.compose : tree.compose[m] # NoDirectory}}

\* A file of Compose that cannot be read is nothing.
Detect ==
    /\ discovering = "scan"
    /\ discovering' = "detect"
    /\ \E runnable \in SUBSET Of("package"), compose \in {{}, ComposeSigns} :
          signals' = EntrySigns \cup PackageSigns(runnable) \cup compose
    /\ UNCHANGED <<tree, components, base, services>>

---------------------------------------------------------------------------
\* DiscoveryResolver.resolve

\* Marked directories; and those with a manifest and no marked one inside.
ComponentRoots ==
    LET anchored == {s.root : s \in {t \in signals : t.kind = "anchor"}}
    IN  anchored \cup {r \in {s.root : s \in signals} : \A a \in anchored : r \notin Above[a]}

\* A component is named after its (first) service of Compose, or its directory.
BaseName(d) ==
    LET named == {s.service : s \in {t \in signals : t.root = d /\ t.service # "none"}}
    IN  IF named = {} THEN DirName[d] ELSE CHOOSE n \in named : TRUE

\* Mutant: a name is taken twice.
FirstId(name, used) == Numbered[name][1]

\* The first that is free; there are more to try than directories in use.
FreeId(name, used) ==
    LET IsFirst(n) == Numbered[name][n] \notin used /\ \A m \in 1 .. n - 1 : Numbered[name][m] \in used
    IN  Numbered[name][CHOOSE n \in Directory : IsFirst(n)]

ComponentId[d \in Directory] ==
    FreeId(BaseName(d), {ComponentId[e] : e \in {c \in ComponentRoots : c < d}})

Resolve ==
    /\ discovering = "detect"
    /\ discovering' = "resolve"
    /\ components' = [d \in ComponentRoots |-> ComponentId[d]]
    /\ UNCHANGED <<tree, signals, base, services>>

---------------------------------------------------------------------------
\* TargetProfileBuilder.build

Matched(i, from) == from[i].root \in DOMAIN components

\* A service of the base profile keeps its identifier.
IdIn(d, from) ==
    IF \E i \in DOMAIN from : from[i].root = d
    THEN CHOOSE i \in DOMAIN from : from[i].root = d
    ELSE components[d]

\* Who is entered later replaces who has the same identifier.
LastWith(i, from) ==
    CHOOSE d \in DOMAIN components :
       /\ IdIn(d, from) = i
       /\ \A e \in DOMAIN components : IdIn(e, from) = i => e <= d

\* Components are entered one after the other, then the services of the
\* base profile that match none.
Merged(from) ==
    LET entered == {IdIn(d, from) : d \in DOMAIN components}
        kept == {i \in DOMAIN from : ~Matched(i, from)}
    IN  [i \in entered \cup kept |->
            IF i \in kept THEN from[i]
            ELSE [root |-> LastWith(i, from),
                  by |-> IF \E j \in DOMAIN from : from[j].root = LastWith(i, from) THEN "merged" ELSE "found"]]

\* An import that finds nothing is refused.
BuildProfile ==
    /\ discovering = "resolve"
    /\ IF base = EmptyMap /\ components = EmptyMap
       THEN discovering' = "refused" /\ UNCHANGED services
       ELSE discovering' = "build" /\ services' = Merged(base)
    /\ UNCHANGED <<tree, signals, components, base>>

\* A run of an imported project finds the same components again, and has
\* the profile of the import for its base (app/ci_pipeline.py).
Rebuild ==
    /\ discovering = "build"
    /\ base = EmptyMap
    /\ discovering' = "rebuild"
    /\ base' = services
    /\ services' = Merged(services)
    /\ UNCHANGED <<tree, signals, components>>

DiscoveryNext == Scan \/ Detect \/ Resolve \/ BuildProfile \/ Rebuild

DiscoverySpec == DiscoveryInit /\ [][DiscoveryNext]_discoveryVars

---------------------------------------------------------------------------
\* Properties

\* An import has a service for each component, and a run of the project has
\* the same ones under the same identifiers.  Of a profile written by hand
\* only the identifiers are sure to last: the entry under one is its service,
\* or the component that bears it; and a component that is not in the profile
\* has lost its identifier to a service by hand (discovery/profile.py:37-59).
IdsAreKept ==
    /\ discovering = "build" /\ base = EmptyMap =>
          \A d \in DOMAIN components : services[components[d]].root = d
    /\ discovering = "rebuild" =>
          /\ DOMAIN services = DOMAIN base
          /\ \A i \in DOMAIN base : services[i].root = base[i].root
    /\ discovering = "build" =>
          /\ \A i \in DOMAIN base :
                /\ i \in DOMAIN services
                /\ \/ services[i].root = base[i].root
                   \/ services[i].root \in DOMAIN components /\ components[services[i].root] = i
          /\ \A d \in DOMAIN components :
                /\ IdIn(d, base) \in DOMAIN services
                /\ services[IdIn(d, base)].root = d \/ IdIn(d, base) \in DOMAIN base

\* "The manual profile has priority over discovery" (in Russian,
\* discovery/profile.py:126): what is built has every service of the profile
\* that was written by hand.
ManualKept ==
    discovering = "build" =>
       \A i \in DOMAIN base : \E j \in DOMAIN services : services[j].root = base[i].root
===========================================================================
