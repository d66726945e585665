------------------------------- MODULE Packages -------------------------------
(***************************************************************************)
(* Installing and uninstalling packages (src/api/src/package.ts), the      *)
(* registry of runtimes they appear in (runtime.ts), and what boot makes   *)
(* of what it finds on disk (index.ts).                                    *)
(*                                                                         *)
(* A call is one install or uninstall at work, started by the synchronous  *)
(* endpoints or by an operation; only operations look at in_flight.  The   *)
(* steps of a call are what it does between two awaits.  Of a package      *)
(* directory the model keeps whether it exists, whether pkg-info.json is   *)
(* there, and whether the marker that says installed is.  A recursive      *)
(* removal takes these away in any order, some at a time.                  *)
(*                                                                         *)
(* External: the process may be killed at any step (SIGTERM exits at once) *)
(* and is then started again; removing and making the directory, downloads *)
(* and the steps after registration may fail only if MayFail says so.      *)
(***************************************************************************)
EXTENDS Naturals, FiniteSets

CONSTANTS
    Packages,
    Calls,          \* bound on the calls at work at once
    Endpoints,      \* through what clients start them: "sync", "operation"
    MayFail,        \* what may fail: "directory", "download", "late"
    MaxRegistered   \* bound on the times a package is registered

ASSUME PackagesAssumption ==
    /\ Endpoints \subseteq {"sync", "operation"}
    /\ MayFail \subseteq {"directory", "download", "late"}
    /\ MaxRegistered \in Nat \ {0}
    /\ "none" \notin Packages \cup Calls

VARIABLES
    server,     \* the process: up, down, or failed at boot
    step,       \* where each call is
    pkg,        \* the package it works on
    in_flight,  \* the call of the operation running on each package
    exists,     \* the packages whose directory exists
    info,       \* those with a pkg-info.json
    marker,     \* those with the installed marker (Package.installed)
    runtimes,   \* how many times each package's runtimes are in the registry
    deleted,    \* history: packages whose uninstall was begun and not finished
    halfway,    \* history: packages an install of which failed when their
                \* runtimes were registered, which they stay
    raced       \* history: packages on which a call was started beside another,
                \* until no trace of that can be left

disk == <<exists, info, marker>>
history == <<deleted, halfway, raced>>
vars == <<server, step, pkg, in_flight, disk, runtimes, history>>

None == "none"

InstallSteps ==
    {"removing", "making", "fetching", "writing", "rendering", "registering",
     "chowning", "marking", "closing", "failing"}

Steps == InstallSteps \cup {"idle", "deleting"}

\* What earlier lives left: packages that are installed, and the residue of
\* installs.
Init ==
    /\ server = "down"
    /\ step = [c \in Calls |-> "idle"]
    /\ pkg = [c \in Calls |-> None]
    /\ in_flight = [p \in Packages |-> None]
    /\ exists \in SUBSET Packages /\ info \in SUBSET exists /\ marker \in SUBSET info
    /\ runtimes = [p \in Packages |-> 0]
    /\ deleted = {} /\ halfway = {} /\ raced = {}

-----------------------------------------------------------------------------
Working(p) == {c \in Calls : step[c] # "idle" /\ pkg[c] = p}

\* start() of operations.ts refuses a package with work in flight; the
\* synchronous endpoints ask nobody.
Admit(c, p, endpoint) ==
    IF endpoint = "operation"
    THEN in_flight[p] = None /\ in_flight' = [in_flight EXCEPT ![p] = c]
    ELSE UNCHANGED in_flight

\* A call begins to work on a package, perhaps not the only one.
Begins(c, p, endpoint, s) ==
    /\ server = "up" /\ step[c] = "idle"
    /\ Admit(c, p, endpoint)
    /\ pkg' = [pkg EXCEPT ![c] = p]
    /\ step' = [step EXCEPT ![c] = s]
    /\ raced' = IF Working(p) = {} THEN raced ELSE raced \cup {p}
    /\ UNCHANGED <<server, disk>>

Installed(p) == p \in marker

\* #install up to its first await.  "Already installed" ends the call.
StartInstall(c, p, endpoint) ==
    /\ ~Installed(p)
    /\ Begins(c, p, endpoint, IF p \in exists THEN "removing" ELSE "making")
    /\ UNCHANGED <<runtimes, deleted, halfway>>

\* Altered: the directory goes first and the runtimes after it.
StartUninstallFilesFirst(c, p, endpoint) ==
    /\ runtimes[p] > 0
    /\ Begins(c, p, endpoint, "deleting")
    /\ deleted' = deleted \cup {p}
    /\ UNCHANGED <<runtimes, halfway>>

\* uninstall up to its first await: every runtime of the package leaves the
\* registry.  "is not installed" ends the call.
StartUninstall(c, p, endpoint) ==
    /\ runtimes[p] > 0
    /\ Begins(c, p, endpoint, "deleting")
    /\ runtimes' = [runtimes EXCEPT ![p] = 0]
    /\ deleted' = deleted \cup {p}
    /\ halfway' = halfway \ {p}

Goes(c, from, to) ==
    /\ step[c] = from
    /\ step' = [step EXCEPT ![c] = to]
    /\ UNCHANGED <<server, pkg, in_flight>>

\* The call is over, one way or the other.
Ends(c) ==
    /\ step' = [step EXCEPT ![c] = "idle"]
    /\ in_flight' = [p \in Packages |-> IF in_flight[p] = c THEN None ELSE in_flight[p]]
    /\ UNCHANGED <<server, pkg>>

\* fs.rm under way.
RemoveSome(c) ==
    /\ step[c] \in {"removing", "deleting"}
    /\ info' \in {info, info \ {pkg[c]}}
    /\ marker' \in {marker, marker \ {pkg[c]}}
    /\ UNCHANGED <<server, step, pkg, in_flight, exists, runtimes, history>>

Gone(p) ==
    /\ exists' = exists \ {p}
    /\ info' = info \ {p}
    /\ marker' = marker \ {p}

\* With the directory gone, nothing listed and no other call at work, nothing
\* is left of whatever was done to the package before.
Cleared(c) ==
    /\ deleted' = deleted \ {pkg[c]}
    /\ IF Working(pkg[c]) = {c} /\ runtimes[pkg[c]] = 0
         THEN raced' = raced \ {pkg[c]} /\ halfway' = halfway \ {pkg[c]}
         ELSE UNCHANGED <<raced, halfway>>

RemovedResidue(c) ==
    /\ Goes(c, "removing", "making")
    /\ Gone(pkg[c])
    /\ Cleared(c)
    /\ UNCHANGED runtimes

Uninstalled(c) ==
    /\ step[c] = "deleting"
    /\ Gone(pkg[c])
    /\ Cleared(c)
    /\ Ends(c)
    /\ UNCHANGED runtimes

\* Altered: the marker is written first.
MakeDirectoryMarked(c) ==
    /\ Goes(c, "making", "fetching")
    /\ exists' = exists \cup {pkg[c]}
    /\ marker' = marker \cup {pkg[c]}
    /\ UNCHANGED <<info, runtimes, history>>

MakeDirectory(c) ==
    /\ Goes(c, "making", "fetching")
    /\ exists' = exists \cup {pkg[c]}
    /\ UNCHANGED <<info, marker, runtimes, history>>

\* One more step of getting the sources or the prebuilt archive, extracting
\* them, which makes the directory anew if need be, and building.
Fetched(c) ==
    /\ \E s \in {"fetching", "writing"} : Goes(c, "fetching", s)
    /\ exists' \in {exists, exists \cup {pkg[c]}}
    /\ UNCHANGED <<info, marker, runtimes, history>>

\* pkg-info.json is the first of the package files; each is written into a
\* directory that is made anew if need be.
WriteInfo(c) ==
    /\ Goes(c, "writing", "rendering")
    /\ exists' = exists \cup {pkg[c]}
    /\ info' = info \cup {pkg[c]}
    /\ UNCHANGED <<marker, runtimes, history>>

WriteRest(c) ==
    /\ Goes(c, "rendering", "registering")
    /\ exists' = exists \cup {pkg[c]}
    /\ UNCHANGED <<info, marker, runtimes, history>>

\* load_package.  It throws without a pkg-info.json to read.
Register(c) ==
    /\ Goes(c, "registering", "chowning")
    /\ pkg[c] \in info
    /\ runtimes[pkg[c]] < MaxRegistered
    /\ runtimes' = [runtimes EXCEPT ![pkg[c]] = @ + 1]
    /\ UNCHANGED <<disk, history>>

Chowned(c) ==
    /\ Goes(c, "chowning", "marking")
    /\ UNCHANGED <<disk, runtimes, history>>

\* Altered: the marker is left out.
MarkNothing(c) ==
    /\ Goes(c, "marking", "closing")
    /\ UNCHANGED <<disk, runtimes, history>>

\* The marker is the last thing an install writes.
Mark(c) ==
    /\ Goes(c, "marking", "closing")
    /\ pkg[c] \in exists
    /\ marker' = marker \cup {pkg[c]}
    /\ UNCHANGED <<exists, info, runtimes, history>>

\* What is left, the archives and the log, is done whichever way the install
\* went, as far as it can be, and only then is the call over.
InstallEnds(c) ==
    /\ step[c] \in {"closing", "failing"}
    /\ Ends(c)
    /\ UNCHANGED <<disk, runtimes, history>>

\* The residue cannot be removed, all of it, or the directory not be made.
DirectoryFails(c) ==
    /\ step[c] \in {"removing", "making"} /\ "directory" \in MayFail
    /\ Ends(c)
    /\ UNCHANGED <<disk, runtimes, history>>

\* Downloading, building, writing the files or what comes after registration
\* fails: everything stays as it is.  A step that misses what another call has
\* removed fails too.
InstallFails(c) ==
    /\ \/ step[c] \in {"fetching", "writing", "rendering"} /\ "download" \in MayFail
       \/ step[c] \in {"chowning", "marking"} /\ "late" \in MayFail
       \/ step[c] \in {"fetching", "writing", "rendering", "chowning", "marking"} /\ pkg[c] \notin exists
       \/ step[c] = "registering" /\ pkg[c] \notin info
    /\ Goes(c, step[c], "failing")
    /\ halfway' = IF step[c] \in {"chowning", "marking"} THEN halfway \cup {pkg[c]} ELSE halfway
    /\ exists' \in {exists, IF step[c] \in {"fetching", "writing", "rendering"}
                             THEN exists \cup {pkg[c]} ELSE exists}
    /\ UNCHANGED <<info, marker, runtimes, deleted, raced>>

UninstallFails(c) ==
    /\ step[c] = "deleting" /\ "directory" \in MayFail
    /\ Ends(c)
    /\ UNCHANGED <<disk, runtimes, history>>

-----------------------------------------------------------------------------
\* External: the process ends, by SIGTERM or otherwise, with work in flight.
\* Of what calls did side by side only the directory is left.
Crash ==
    /\ server = "up"
    /\ server' = "down"
    /\ step' = [c \in Calls |-> "idle"]
    /\ in_flight' = [p \in Packages |-> None]
    /\ runtimes' = [p \in Packages |-> 0]
    /\ halfway' = {}
    /\ raced' = raced \cap exists
    /\ UNCHANGED <<pkg, disk, deleted>>

\* Altered: no directory is taken for a package.
FoundNone == {}

\* The package directories that count as installed.
Found == {p \in exists : p \in marker}

Boot ==
    /\ server = "down"
    /\ Found \subseteq info
    /\ server' = "up"
    /\ runtimes' = [p \in Packages |-> IF p \in Found THEN 1 ELSE 0]
    /\ UNCHANGED <<step, pkg, in_flight, disk, history>>

\* load_package throws at the top level of index.ts.
BootFails ==
    /\ server = "down"
    /\ ~(Found \subseteq info)
    /\ server' = "failed"
    /\ UNCHANGED <<step, pkg, in_flight, disk, runtimes, history>>

Next ==
    \/ \E c \in Calls, p \in Packages, endpoint \in Endpoints :
         StartInstall(c, p, endpoint) \/ StartUninstall(c, p, endpoint)
    \/ \E c \in Calls :
         \/ RemoveSome(c)
         \/ RemovedResidue(c)
         \/ Uninstalled(c)
         \/ MakeDirectory(c)
         \/ Fetched(c)
         \/ WriteInfo(c)
         \/ WriteRest(c)
         \/ Register(c)
         \/ Chowned(c)
         \/ Mark(c)
         \/ InstallEnds(c)
         \/ DirectoryFails(c)
         \/ InstallFails(c)
         \/ UninstallFails(c)
    \/ Crash
    \/ Boot
    \/ BootFails

Spec == Init /\ [][Next]_vars

-----------------------------------------------------------------------------
\* Every variable has its type.
TypeOK ==
    /\ server \in {"up", "down", "failed"}
    /\ step \in [Calls -> Steps]
    /\ pkg \in [Calls -> Packages \cup {None}]
    /\ \A c \in Calls : step[c] # "idle" => pkg[c] \in Packages
    /\ in_flight \in [Packages -> Calls \cup {None}]
    /\ exists \subseteq Packages /\ info \subseteq exists /\ marker \subseteq exists
    /\ runtimes \in [Packages -> 0..MaxRegistered]
    /\ deleted \subseteq Packages
    /\ halfway \subseteq Packages
    /\ raced \subseteq Packages

\* A runtime that jobs may be given has a package directory that is complete:
\* it is not listed before its files are written nor after they begin to go,
\* and it is listed once; until an install fails with it registered already, or
\* two calls are let loose on the package at once (package.ts:428-443, 589-591,
\* v2.ts:309-318).
ListedRuntimesAreWhole ==
    \A p \in Packages \ (halfway \cup raced) :
        /\ runtimes[p] > 0 => p \in info
        /\ runtimes[p] <= 1

\* While nothing works on a package, the registry says of it what a restart
\* would: its runtimes are listed exactly if the marker is on disk, unless an
\* uninstall was cut short, an install failed with the runtimes registered, or
\* calls raced (operations.ts:9-11, index.ts:86-90).
RegistryIsWhatBootDerives ==
    \A p \in Packages \ (deleted \cup halfway \cup raced) :
        server = "up" /\ Working(p) = {} => (runtimes[p] = 1 <=> p \in marker)

\* However often the process is killed, a package that was never being removed,
\* nor worked on by two calls at once, is not found installed without its files:
\* an install cut short is residue (package.ts:393-399, 440-443).
HalfInstallIsResidue == \A p \in marker : p \in info \/ p \in deleted \cup raced

\* Whatever fails, on the way in or out, a package that is installed and left
\* alone can be run: its runtimes are listed, unless an uninstall was cut short
\* or calls raced (package.ts:431-443, 589-591).
InstalledIsListed ==
    \A p \in marker :
        server = "up" /\ Working(p) = {} /\ p \notin deleted \cup raced => runtimes[p] > 0

\* operations.ts:10-11 "the durable state is the package directory itself,
\* which boot re-derives from disk".
BootSucceeds == server # "failed"
=============================================================================
