-------------------------------- MODULE Install --------------------------------
(***************************************************************************)
(* How a package gets into its directory (src/api/src/package.ts,          *)
(* package_index.ts): by its sources alone, by a build script where the    *)
(* operator allows that, or by the archive the index lists; and how it     *)
(* leaves it again.  A step is what a call does between two awaits.  The   *)
(* calls are those of the synchronous endpoints, which ask nobody whether  *)
(* another call is at work on the package.                                 *)
(*                                                                         *)
(* A directory is the set of what lies in it: archives, what came out of   *)
(* them, what a script made, the package files, the marker.  What a url    *)
(* serves is any of a few contents, known by their digests.  Every step    *)
(* that reaches out to the network, a process or the disk may fail, and    *)
(* the server may be killed.  These steps implement those of Packages.     *)
(***************************************************************************)
EXTENDS Manifests

LOCAL INSTANCE FiniteSetsExt

CONSTANTS
    Packages,       \* the files of the manifest directory, by name
    Configs,        \* what the options may be: files, allowed_languages, allow_source_builds
    Index,          \* the lines of the package index
    Calls,          \* bound on the installs and uninstalls at work at once
    Attempts,       \* INDEX_FETCH_ATTEMPTS
    MaxRegistered,  \* bound on the times a package is registered
    MaxCrashes      \* bound on the times the server is killed

ASSUME InstallAssumption ==
    /\ Attempts \in Nat \ {0} /\ MaxRegistered \in Nat \ {0} /\ MaxCrashes \in Nat
    /\ Undefined \notin Packages /\ Undefined \notin {"succeeded", "failed"}

\* Where a document has sources, they are a sequence.
ASSUME SourcesAssumption == \A c \in Configs : \A p \in Packages :
    LET doc == c.files[p].doc IN
    doc # Junk /\ Sources(doc) # Junk =>
        Sources(doc) \in Seq({Sources(doc)[i] : i \in DOMAIN Sources(doc)})

VARIABLES
    config,
    server,     \* the process: down, up, failed at boot, or rejecting a manifest
    tree,       \* what each package directory holds, itself with it: nothing if it is not there
    runtimes,   \* how many times each package's runtimes are in the registry
    step,       \* where each call is
    pkg,        \* the package it works on
    source,     \* the source it has in hand: its number, or 0 for the prebuilt archive
    attempt,    \* how often it has asked for the index
    outcome,    \* how the last call of each caller ended
    deleted,    \* history: packages whose uninstall was begun and not finished
    halfway,    \* history: packages an install of which failed when their
                \* runtimes were registered, which they stay
    raced,      \* history: packages on which a call was started beside another,
                \* until no trace of that can be left
    littered,   \* history: packages whose archives an install could not remove
    crashes     \* history: how often the server was killed

calls == <<step, pkg, source, attempt, outcome>>
history == <<deleted, halfway, raced, littered, crashes>>
installVars == <<config, server, tree, runtimes, calls, history>>

Manifest(p) == config.files[p].doc

Files == {config.files[p] : p \in Packages}

Listed == {p \in Packages : config.files[p].yaml /\ Manifest(p).language \in config.allowed}

Plan(p) ==
    IF IsEngineInstallable(Manifest(p)) THEN "sources"
    ELSE IF config.allow_source_builds THEN "build" ELSE "prebuilt"

\* The lines of the index that are the package's, and complete.
Lines(p) ==
    {i \in DOMAIN Index :
        /\ Index[i].language = Manifest(p).language
        /\ Index[i].version = Manifest(p).version
        /\ Undefined \notin {Index[i].sha256, Index[i].url}}

\* The first of them, which is a source.
PrebuiltEntry(p) == IF Lines(p) = {} THEN Undefined ELSE Index[Min(Lines(p))]

SourceOf(p, number) == IF number = 0 THEN PrebuiltEntry(p) ELSE Sources(Manifest(p))[number]

\* A directory that is there, if with nothing in it.
Directory == <<".">>

Info == <<"pkg-info.json">>

\* The other package files: run, compile and .env.
Rendered == <<"rendered">>

Marker == <<".ppman-installed">>

Installed(p) == Marker \in tree[p]

Scripts(p) == {"build", "post_install"} \cap DOMAIN Manifest(p)

\* The numbers of the sources an install of p unpacks.
Numbers(p) == IF Plan(p) = "prebuilt" THEN {0} ELSE DOMAIN Sources(Manifest(p))

\* What an install of p leaves that finds an empty directory and nothing goes wrong.
Complete(p) ==
    {<<"content", k, SourceOf(p, k).sha256>> : k \in Numbers(p)} \cup
    (IF Plan(p) = "build" THEN {<<"made", s>> : s \in Scripts(p)} ELSE {}) \cup
    {Directory, Info, Rendered, Marker}

Installable(p) == p \in Listed /\ (Plan(p) = "prebuilt" => PrebuiltEntry(p) # Undefined)

InstallInit ==
    /\ config \in Configs
    /\ server = "down"
    /\ \E installed \in SUBSET IF Loads(Files) THEN {p \in Packages : Installable(p)} ELSE {} :
        tree = [p \in Packages |-> IF p \in installed THEN Complete(p) ELSE {}]
    /\ runtimes = [p \in Packages |-> 0]
    /\ step = [c \in Calls |-> "idle"]
    /\ pkg = [c \in Calls |-> Undefined]
    /\ source = [c \in Calls |-> 0]
    /\ attempt = [c \in Calls |-> 0]
    /\ outcome = [c \in Calls |-> Undefined]
    /\ deleted = {} /\ halfway = {} /\ raced = {} /\ littered = {} /\ crashes = 0

\* load_package reads the pkg-info.json of what is found installed.
LoadsPackages == \A p \in Packages : Installed(p) => Info \in tree[p]

\* One manifest or one package directory amiss and the process ends; what is
\* installed is registered, whether or not it may be installed any more.
Boot ==
    /\ server = "down"
    /\ server' = IF ~Loads(Files) THEN "rejected" ELSE IF LoadsPackages THEN "up" ELSE "failed"
    /\ runtimes' = IF server' = "up" THEN [p \in Packages |-> IF Installed(p) THEN 1 ELSE 0] ELSE runtimes
    /\ UNCHANGED <<config, tree, calls, history>>

\* External: the process is killed.  Directories keep what the steps before have
\* put there, or left; callers without an answer, or whose answer is lost, see
\* their request fail.
Crash ==
    /\ server = "up" /\ crashes < MaxCrashes
    /\ server' = "down"
    /\ crashes' = crashes + 1
    /\ step' = [c \in Calls |-> "idle"]
    /\ source' = [c \in Calls |-> 0]
    /\ attempt' = [c \in Calls |-> 0]
    /\ runtimes' = [p \in Packages |-> 0]
    /\ \E lost \in SUBSET {c \in Calls : outcome[c] = "succeeded"} :
        outcome' = [c \in Calls |-> IF step[c] # "idle" \/ c \in lost THEN "failed" ELSE outcome[c]]
    /\ halfway' = {}
    /\ raced' = {p \in raced : tree[p] # {}}
    /\ littered' = littered \cup {p \in Packages : \E c \in Calls : step[c] = "closing" /\ pkg[c] = p}
    /\ UNCHANGED <<config, tree, pkg, deleted>>

Working(p) == {c \in Calls : step[c] # "idle" /\ pkg[c] = p}

-------------------------------------------------------------------------------
(* How calls begin, go on and end *)

\* A call begins to work on a package, perhaps not the only one.
Begins(c, p, to) ==
    /\ server = "up" /\ step[c] = "idle" /\ p \in Listed
    /\ pkg' = [pkg EXCEPT ![c] = p]
    /\ step' = [step EXCEPT ![c] = to]
    /\ outcome' = [outcome EXCEPT ![c] = Undefined]
    /\ raced' = IF Working(p) = {} THEN raced ELSE raced \cup {p}
    /\ UNCHANGED <<config, server, tree, source, attempt, littered, crashes>>

Goes(c, from, to) ==
    /\ step[c] = from
    /\ step' = [step EXCEPT ![c] = to]
    /\ UNCHANGED <<config, server, pkg, outcome, crashes>>

Ends(c, how) ==
    /\ step' = [step EXCEPT ![c] = "idle"]
    /\ source' = [source EXCEPT ![c] = 0]
    /\ attempt' = [attempt EXCEPT ![c] = 0]
    /\ outcome' = [outcome EXCEPT ![c] = how]
    /\ UNCHANGED <<config, server, pkg, crashes>>

\* A request that comes to nothing.
Refused(c) ==
    /\ step[c] = "idle"
    /\ outcome' = [outcome EXCEPT ![c] = "failed"]
    /\ UNCHANGED <<config, server, tree, runtimes, step, pkg, source, attempt, history>>

Unreachable(c) == server # "up" /\ Refused(c)

Adds(c, items) == tree' = [tree EXCEPT ![pkg[c]] = @ \cup items]

\* fs.rm under way, in whatever order: the marker has gone, or pkg-info.json, or
\* the others have, which the model lets go together.
RemoveSome(c) ==
    /\ step[c] \in {"removing", "deleting"}
    /\ \E gone \in {{Marker}, {Info}, tree[pkg[c]] \ {Directory, Info, Marker}} :
        /\ gone \intersect tree[pkg[c]] # {}
        /\ tree' = [tree EXCEPT ![pkg[c]] = @ \ gone]
    /\ UNCHANGED <<config, server, runtimes, calls, history>>

\* With the directory gone, nothing listed and no other call at work, nothing
\* is left of whatever was done to the package before.
Cleared(c) ==
    /\ deleted' = deleted \ {pkg[c]}
    /\ littered' = littered \ {pkg[c]}
    /\ IF Working(pkg[c]) = {c} /\ runtimes[pkg[c]] = 0
         THEN raced' = raced \ {pkg[c]} /\ halfway' = halfway \ {pkg[c]}
         ELSE UNCHANGED <<raced, halfway>>

-------------------------------------------------------------------------------
(* An install *)

StartInstall(c, p) ==
    /\ ~Installed(p)
    /\ Begins(c, p, IF tree[p] = {} THEN "making" ELSE "removing")
    /\ UNCHANGED <<runtimes, deleted, halfway>>

\* "Already installed".
RefuseInstall(c, p) == server = "up" /\ p \in Listed /\ Installed(p) /\ Refused(c)

\* Altered: what an earlier install has left is kept.
KeepResidue(c) ==
    /\ Goes(c, "removing", "making")
    /\ Cleared(c)
    /\ UNCHANGED <<tree, runtimes, source, attempt>>

RemovedResidue(c) ==
    /\ Goes(c, "removing", "making")
    /\ tree' = [tree EXCEPT ![pkg[c]] = {}]
    /\ Cleared(c)
    /\ UNCHANGED <<runtimes, source, attempt>>

\* The first script of a build, if it has one.
FirstScript(p) ==
    IF "build" \in Scripts(p) THEN "build"
    ELSE IF "post_install" \in Scripts(p) THEN "post_install" ELSE "writing"

\* What an install with `number` sources behind it does next.
After(p, number) ==
    IF Plan(p) = "prebuilt" THEN IF number = 0 THEN "asking" ELSE "writing"
    ELSE IF number < Len(Sources(Manifest(p))) THEN "fetching"
    ELSE IF Plan(p) = "build" THEN FirstScript(p) ELSE "writing"

MakeDirectory(c) ==
    /\ Goes(c, "making", After(pkg[c], 0))
    /\ Adds(c, {Directory})
    /\ source' = [source EXCEPT ![c] = IF Plan(pkg[c]) = "prebuilt" THEN 0 ELSE 1]
    /\ attempt' = [attempt EXCEPT ![c] = 1]
    /\ UNCHANGED <<runtimes, deleted, halfway, raced, littered>>

\* The residue cannot be removed, all of it, or the directory not be made.
DirectoryFails(c) ==
    /\ step[c] \in {"removing", "making"}
    /\ Ends(c, "failed")
    /\ UNCHANGED <<tree, runtimes, deleted, halfway, raced, littered>>

\* fetch_index: a clean answer ends it, whether or not the package is in it.
AskIndex(c) ==
    /\ Goes(c, "asking", IF PrebuiltEntry(pkg[c]) = Undefined THEN "failing" ELSE "fetching")
    /\ UNCHANGED <<tree, runtimes, source, attempt, deleted, halfway, raced, littered>>

\* Altered: the attempts are counted anew when they have run out.
AskForever(c) ==
    /\ Goes(c, "asking", "asking")
    /\ attempt' = [attempt EXCEPT ![c] = IF @ < Attempts THEN @ + 1 ELSE 1]
    /\ UNCHANGED <<tree, runtimes, source, deleted, halfway, raced, littered>>

\* No clean answer: ask again after a pause, or give up without one.
AskAgain(c) ==
    /\ Goes(c, "asking", IF attempt[c] < Attempts THEN "asking" ELSE "failing")
    /\ attempt' = [attempt EXCEPT ![c] = @ + 1]
    /\ UNCHANGED <<tree, runtimes, source, deleted, halfway, raced, littered>>

Archives(p) == {item \in tree[p] : item[1] = "archive"}

\* The archives of one number: a later download overwrites an earlier.
ArchivesOf(p, number) == {a \in Archives(p) : a[2] = number}

Stores(c, digest) ==
    LET p == pkg[c]
    IN  tree' = [tree EXCEPT ![p] = (@ \ ArchivesOf(p, source[c])) \cup {<<"archive", source[c], digest>>}]

\* Altered: the archive is unpacked whatever its digest.
FetchUnchecked(c) ==
    /\ Goes(c, "fetching", "extracting")
    /\ Directory \in tree[pkg[c]]
    /\ \E digest \in SourceOf(pkg[c], source[c]).url.serves : Stores(c, digest)
    /\ UNCHANGED <<runtimes, source, attempt, deleted, halfway, raced, littered>>

\* Bytes go to disk as they come; what the stream hashes to, not the file, is
\* looked at in the end.
FetchSource(c) ==
    /\ step[c] = "fetching" /\ Directory \in tree[pkg[c]]
    /\ \E digest \in SourceOf(pkg[c], source[c]).url.serves :
        /\ Goes(c, "fetching", IF digest = SourceOf(pkg[c], source[c]).sha256 THEN "extracting" ELSE "failing")
        /\ Stores(c, digest)
    /\ UNCHANGED <<runtimes, source, attempt, deleted, halfway, raced, littered>>

\* Unpacks the archive that lies where the one in hand was stored, into the
\* directory, made anew if need be; a build removes it then and there.
Extract(c) ==
    LET p == pkg[c]
        stored == ArchivesOf(p, source[c])
        content == {<<"content", a[2], a[3]>> : a \in stored}
    IN  /\ Goes(c, "extracting", After(p, IF source[c] = 0 THEN 1 ELSE source[c]))
        /\ stored # {}
        /\ tree' = [tree EXCEPT ![p] = (IF Plan(p) = "build" THEN @ \ stored ELSE @) \cup content]
        /\ source' = [source EXCEPT ![c] = @ + 1]
        /\ UNCHANGED <<runtimes, attempt, deleted, halfway, raced, littered>>

\* The build script, then post_install.
RunScript(c) ==
    /\ \E script \in {"build", "post_install"} :
        /\ Goes(c, script, IF script = "build" /\ "post_install" \in Scripts(pkg[c])
                           THEN "post_install" ELSE "writing")
        /\ Adds(c, {Directory, <<"made", script>>})
    /\ UNCHANGED <<runtimes, source, attempt, deleted, halfway, raced, littered>>

\* Each of the package files is written into a directory that is made anew if
\* need be, pkg-info.json first.
WriteInfo(c) ==
    /\ Goes(c, "writing", "rendering")
    /\ Adds(c, {Directory, Info})
    /\ UNCHANGED <<runtimes, source, attempt, deleted, halfway, raced, littered>>

WriteRest(c) ==
    /\ Goes(c, "rendering", "registering")
    /\ Adds(c, {Directory, Rendered})
    /\ UNCHANGED <<runtimes, source, attempt, deleted, halfway, raced, littered>>

\* load_package.
Register(c) ==
    /\ Goes(c, "registering", "chowning")
    /\ Info \in tree[pkg[c]]
    /\ runtimes[pkg[c]] < MaxRegistered
    /\ runtimes' = [runtimes EXCEPT ![pkg[c]] = @ + 1]
    /\ UNCHANGED <<tree, source, attempt, deleted, halfway, raced, littered>>

Chowned(c) ==
    /\ Goes(c, "chowning", "marking")
    /\ UNCHANGED <<tree, runtimes, source, attempt, deleted, halfway, raced, littered>>

Mark(c) ==
    /\ Goes(c, "marking", "closing")
    /\ Directory \in tree[pkg[c]]
    /\ Adds(c, {Marker})
    /\ UNCHANGED <<runtimes, source, attempt, deleted, halfway, raced, littered>>

Filling == {"fetching", "extracting", "build", "post_install", "writing", "rendering"}

\* The network, an archiver, a script or the disk lets the install down, or
\* load_package finds nothing to read: what is there stays, with part of what
\* the step was to make.
InstallFails(c) ==
    /\ \E from \in Filling \cup {"registering", "chowning", "marking"} :
        /\ Goes(c, from, "failing")
        /\ from = "registering" => Info \notin tree[pkg[c]]
        /\ Adds(c, IF from \in Filling THEN {Directory, <<"partial">>} ELSE {})
        /\ halfway' = IF from \in {"chowning", "marking"} THEN halfway \cup {pkg[c]} ELSE halfway
    /\ UNCHANGED <<runtimes, source, attempt, deleted, raced, littered>>

\* The archives an install has put aside for removal: a build has none.
Pushed(c) == IF Plan(pkg[c]) = "build" THEN {} ELSE {a \in Archives(pkg[c]) : a[2] <= source[c]}

\* Altered: the archives are left where they are.
CloseLeavingArchives(c) ==
    /\ step[c] \in {"closing", "failing"}
    /\ Ends(c, IF step[c] = "closing" THEN "succeeded" ELSE "failed")
    /\ UNCHANGED <<tree, runtimes, deleted, halfway, raced, littered>>

\* The archives go whichever way the install went; then the call is over.
Close(c) ==
    /\ step[c] \in {"closing", "failing"}
    /\ Ends(c, IF step[c] = "closing" THEN "succeeded" ELSE "failed")
    /\ tree' = [tree EXCEPT ![pkg[c]] = @ \ Pushed(c)]
    /\ UNCHANGED <<runtimes, deleted, halfway, raced, littered>>

\* One of them cannot be removed, nor then those behind it: the install fails,
\* if it had succeeded until now.
CloseFails(c) ==
    /\ step[c] \in {"closing", "failing"}
    /\ Ends(c, "failed")
    /\ \E kept \in SUBSET Pushed(c) :
        kept # {} /\ tree' = [tree EXCEPT ![pkg[c]] = (@ \ Pushed(c)) \cup kept]
    /\ littered' = littered \cup {pkg[c]}
    /\ UNCHANGED <<runtimes, deleted, halfway, raced>>

-------------------------------------------------------------------------------
(* An uninstall *)

StartUninstall(c, p) ==
    /\ runtimes[p] > 0
    /\ Begins(c, p, "deleting")
    /\ runtimes' = [runtimes EXCEPT ![p] = 0]
    /\ deleted' = deleted \cup {p}
    /\ halfway' = halfway \ {p}

\* "is not installed".
RefuseUninstall(c, p) == server = "up" /\ p \in Listed /\ runtimes[p] = 0 /\ Refused(c)

Uninstalled(c) ==
    /\ step[c] = "deleting"
    /\ Ends(c, "succeeded")
    /\ tree' = [tree EXCEPT ![pkg[c]] = {}]
    /\ Cleared(c)
    /\ UNCHANGED runtimes

\* The directory cannot be removed, all of it.
UninstallFails(c) ==
    /\ step[c] = "deleting"
    /\ Ends(c, "failed")
    /\ UNCHANGED <<tree, runtimes, deleted, halfway, raced, littered>>

-------------------------------------------------------------------------------

\* A step of a call, which is taken unless it waits for its turn to run.
Works(c) ==
    \/ RemovedResidue(c) \/ MakeDirectory(c) \/ DirectoryFails(c)
    \/ AskIndex(c) \/ AskAgain(c) \/ FetchSource(c) \/ Extract(c) \/ RunScript(c)
    \/ WriteInfo(c) \/ WriteRest(c) \/ Register(c) \/ Chowned(c) \/ Mark(c)
    \/ InstallFails(c) \/ Close(c) \/ CloseFails(c)
    \/ Uninstalled(c) \/ UninstallFails(c)

-------------------------------------------------------------------------------
(* Properties *)

\* What a package's content may be: what its manifest pins, or the index.
Pinned(p) ==
    {Sources(Manifest(p))[k].sha256 : k \in DOMAIN Sources(Manifest(p))} \cup
    (IF Plan(p) = "prebuilt" THEN {PrebuiltEntry(p).sha256} ELSE {})

\* Whatever the network serves, whatever fails and whenever the server is
\* killed, nothing is unpacked into a package directory that the manifest or the
\* index does not pin by its digest; but where two calls were let loose on the
\* package, one may replace the archive that the other has checked (package.ts:
\* #fetch_source before #extract, on every path).
OnlyPinnedIsUnpacked ==
    \A p \in Packages \ raced : \A item \in tree[p] : item[1] = "content" => item[3] \in Pinned(p)

\* A package that is installed and was left to one call at a time holds all
\* that an undisturbed install leaves, every source, what the scripts made and
\* the package files, unless its removal was cut short; and nothing of an
\* attempt that failed before, nor an archive that could be removed.
InstalledIsComplete ==
    \A p \in Packages \ (raced \cup deleted) :
        Installed(p) /\ Working(p) = {} =>
            /\ Complete(p) \subseteq tree[p]
            /\ tree[p] \subseteq Complete(p) \cup (IF p \in littered THEN Archives(p) ELSE {})

\* The calls as this module has them are those of Packages, through the
\* synchronous endpoints: its properties, under races, failures and crashes, are
\* theirs.  A process that a manifest keeps down is down there.
P == INSTANCE Packages WITH
        Endpoints <- {"sync"},
        MayFail <- {"directory", "download", "late"},
        server <- IF server = "rejected" THEN "down" ELSE server,
        step <- [c \in Calls |->
                    IF step[c] \in {"asking", "fetching", "extracting", "build", "post_install"}
                    THEN "fetching" ELSE step[c]],
        pkg <- [c \in Calls |-> IF pkg[c] = Undefined THEN "none" ELSE pkg[c]],
        in_flight <- [p \in Packages |-> "none"],
        exists <- {p \in Packages : Directory \in tree[p]},
        info <- {p \in Packages : Info \in tree[p]},
        marker <- {p \in Packages : Installed(p)}

InstallsAsPackages == P!Spec
===============================================================================
