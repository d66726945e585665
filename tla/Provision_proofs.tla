---------------------------- MODULE Provision_proofs ----------------------------
(***************************************************************************)
(* What installs leave in the package directories, whatever the network    *)
(* serves, whichever step fails and whenever the server is killed, that    *)
(* they are the installs of Packages, races and all, and that a spec file  *)
(* is met, nearer its end with every step, proved for any manifests,       *)
(* index, clients, rules and number of packages.                           *)
(***************************************************************************)
EXTENDS Provision, FiniteSetTheorems, WellFoundedInduction, TLAPS

-------------------------------------------------------------------------------
(* What lies in a directory at each step of the install that fills it *)

Sha(p, k) == SourceOf(p, k).sha256

\* Of the sources before the n-th: what they unpack to, and their archives,
\* which a build removes at once.
Gathered(p, n) ==
    {Directory} \cup
    {<<"content", k, Sha(p, k)>> : k \in {j \in Numbers(p) : j < n}} \cup
    (IF Plan(p) = "build" THEN {} ELSE {<<"archive", k, Sha(p, k)>> : k \in {j \in Numbers(p) : j < n}})

Made(p) == IF Plan(p) = "build" THEN {<<"made", s>> : s \in Scripts(p)} ELSE {}

MadeBefore(p) == {<<"made", s>> : s \in Scripts(p) \ {"post_install"}}

All(p, n) == \A k \in Numbers(p) : k < n

HasPinned(held, p) == \A item \in held : item[1] = "content" => item[3] \in Pinned(p)

Rooted(held) == held # {} => Directory \in held

\* What a call knows of its own way, whoever else is at work on the package.
Knows(p, at, n) ==
    /\ at = "asking" => Plan(p) = "prebuilt" /\ n = 0
    /\ at \in {"fetching", "extracting"} => n \in Numbers(p)
    /\ at \in {"build", "post_install"} => Plan(p) = "build" /\ at \in Scripts(p) /\ All(p, n)
    /\ at \in {"writing", "rendering", "registering", "chowning", "marking", "closing"} => All(p, n)

\* What it finds in the directory if nobody else is.
Holds(p, at, n, held) ==
    /\ at = "removing" => Marker \notin held
    /\ at = "making" => held = {}
    /\ at = "asking" => held = {Directory}
    /\ at = "fetching" => held = Gathered(p, n)
    /\ at = "extracting" => held = Gathered(p, n) \cup {<<"archive", n, Sha(p, n)>>}
    /\ at = "build" => held = Gathered(p, n)
    /\ at = "post_install" => held = Gathered(p, n) \cup MadeBefore(p)
    /\ at = "writing" => held = Gathered(p, n) \cup Made(p)
    /\ at = "rendering" => held = Gathered(p, n) \cup Made(p) \cup {Info}
    /\ at \in {"registering", "chowning", "marking"} => held = Gathered(p, n) \cup Made(p) \cup {Info, Rendered}
    /\ at = "closing" => held = Gathered(p, n) \cup Made(p) \cup {Info, Rendered, Marker}
    /\ at = "failing" => Marker \notin held

Sequential(p) ==
    /\ Sources(Manifest(p)) \in Seq({Sources(Manifest(p))[i] : i \in DOMAIN Sources(Manifest(p))})
    /\ Sources(Manifest(p)) # <<>> \/ "build" \in DOMAIN Manifest(p)

\* A listed package whose file was loaded has sources, or a script, as it must.
LEMMA ListedIsSequential ==
  ASSUME config \in Configs, Loads(Files), NEW p \in Listed
  PROVE  Sequential(p)
  <1>1. p \in Packages /\ config.files[p] \in Read(Files)
    BY DEF Listed, Files, Read
  <1>2. Parses(Manifest(p))
    BY <1>1 DEF Loads, Manifest
  <1>3. Manifest(p) # Junk /\ Sources(Manifest(p)) # Junk
    BY <1>2 DEF Parses
  <1>4. Sources(Manifest(p)) # <<>> \/ "build" \in DOMAIN Manifest(p)
    BY <1>2 DEF Parses
  <1> QED BY <1>1, <1>3, <1>4, SourcesAssumption DEF Sequential, Manifest

\* The numbers of the sources, and the scripts, in each kind of install.
LEMMA NumbersOf ==
  ASSUME NEW p, Sequential(p)
  PROVE  /\ Len(Sources(Manifest(p))) \in Nat
         /\ Plan(p) = "prebuilt" => Numbers(p) = {0}
         /\ Plan(p) # "prebuilt" => Numbers(p) = 1..Len(Sources(Manifest(p)))
         /\ Plan(p) = "sources" => Len(Sources(Manifest(p))) > 0
         /\ Plan(p) \in {"sources", "build", "prebuilt"}
         /\ Plan(p) = "build" => Scripts(p) # {}
         /\ Scripts(p) \subseteq {"build", "post_install"}
  <1> DEFINE s == Sources(Manifest(p))
  <1>1. Len(s) \in Nat /\ DOMAIN s = 1..Len(s) /\ (s # <<>> => Len(s) > 0)
    BY DEF Sequential
  <1> QED BY <1>1 DEF Sequential, Numbers, Plan, IsEngineInstallable, Scripts

\* What an install does after so many sources.
LEMMA AfterSources ==
  ASSUME NEW p, Sequential(p), NEW n \in Nat
  PROVE  /\ After(p, n) \in {"asking", "fetching", "build", "post_install", "writing"}
         /\ After(p, n) = "asking" => Plan(p) = "prebuilt" /\ n = 0
         /\ After(p, n) = "fetching" => Plan(p) # "prebuilt" /\ n < Len(Sources(Manifest(p)))
         /\ After(p, n) \in {"build", "post_install"} =>
                /\ Plan(p) = "build" /\ n >= Len(Sources(Manifest(p))) /\ After(p, n) \in Scripts(p)
                /\ After(p, n) = "post_install" => "build" \notin Scripts(p)
         /\ After(p, n) = "writing" =>
                /\ n > 0 /\ (Plan(p) # "prebuilt" => n >= Len(Sources(Manifest(p)))) /\ Plan(p) # "build"
  <1>1. \/ /\ FirstScript(p) \in Scripts(p)
           /\ FirstScript(p) = "post_install" => "build" \notin Scripts(p)
        \/ Scripts(p) = {}
    BY NumbersOf DEF FirstScript
  <1>2. Plan(p) = "build" => FirstScript(p) \in {"build", "post_install"}
    BY <1>1, NumbersOf
  <1> QED BY <1>1, <1>2, NumbersOf DEF After

\* The kinds of things that may lie in a directory.
LEMMA KindsOfItems ==
  /\ \A p, n, item :
        /\ item \in Gathered(p, n) => item[1] \in {".", "content", "archive"}
        /\ item \in Gathered(p, n) /\ Plan(p) = "build" => item[1] # "archive"
        /\ item \in Made(p) \cup MadeBefore(p) => item[1] = "made"
        /\ Directory \in Gathered(p, n)
  /\ Marker[1] = ".ppman-installed" /\ Directory[1] = "." /\ Info[1] = "pkg-info.json" /\ Rendered[1] = "rendered"
  BY DEF Gathered, Made, MadeBefore, Marker, Directory, Info, Rendered

LEMMA GatheredIsPinned ==
  ASSUME NEW p, Sequential(p), NEW n
  PROVE  HasPinned(Gathered(p, n), p)
  <1>1. \A k \in Numbers(p) : Sha(p, k) \in Pinned(p)
    <2>1. CASE Plan(p) = "prebuilt"
      BY <2>1, NumbersOf DEF Sha, SourceOf, Pinned
    <2>2. CASE Plan(p) # "prebuilt"
      <3>1. \A k \in Numbers(p) : k # 0 /\ k \in DOMAIN Sources(Manifest(p))
        BY <2>2, NumbersOf DEF Numbers
      <3> QED BY <3>1 DEF Sha, SourceOf, Pinned
    <2> QED BY <2>1, <2>2
  <1>2. \A item \in Gathered(p, n) : item[1] = "content" => \E k \in Numbers(p) : item[3] = Sha(p, k)
    BY DEF Gathered, Directory
  <1> QED BY <1>1, <1>2 DEF HasPinned

\* The archives in what is gathered, and in what joins it.
LEMMA GatheredArchives ==
  ASSUME NEW p, Sequential(p), NEW n \in Numbers(p)
  PROVE  \A item \in Gathered(p, n) : item[1] = "archive" => item[2] # n
  <1>1. Numbers(p) \subseteq Nat
    BY NumbersOf
  <1>2. \A item \in Gathered(p, n) : item[1] = "archive" => item[2] \in {j \in Numbers(p) : j < n}
    BY DEF Gathered, Directory
  <1> QED BY <1>1, <1>2

\* What the archive in hand unpacks to joins what is gathered.
LEMMA GatheredGrows ==
  ASSUME NEW p, Sequential(p), NEW n \in Numbers(p)
  PROVE  LET held == Gathered(p, n) \cup {<<"archive", n, Sha(p, n)>>}
             stored == {<<"archive", n, Sha(p, n)>>}
             content == {<<"content", n, Sha(p, n)>>}
         IN  (IF Plan(p) = "build" THEN held \ stored ELSE held) \cup content = Gathered(p, n + 1)
  <1> DEFINE held == Gathered(p, n) \cup {<<"archive", n, Sha(p, n)>>}
             stored == {<<"archive", n, Sha(p, n)>>}
             content == {<<"content", n, Sha(p, n)>>}
  <1>1. Numbers(p) \subseteq Nat
    BY NumbersOf
  <1>2. {j \in Numbers(p) : j < n + 1} = {j \in Numbers(p) : j < n} \cup {n}
    BY <1>1
  <1>3. CASE Plan(p) = "build"
    <2>1. held \ stored = Gathered(p, n)
      <3>1. \A item \in Gathered(p, n) : item[1] # "archive"
        BY <1>3, KindsOfItems
      <3>2. \A item \in stored : item[1] = "archive"
        OBVIOUS
      <3> HIDE DEF stored
      <3> QED BY <3>1, <3>2 DEF stored
    <2>2. Gathered(p, n + 1) = Gathered(p, n) \cup content
      BY <1>2, <1>3 DEF Gathered
    <2> HIDE DEF held, stored, content
    <2> QED BY <1>3, <2>1, <2>2 DEF held, stored, content
  <1>4. CASE Plan(p) # "build"
    <2>1. Gathered(p, n + 1) = held \cup content
      BY <1>2, <1>4 DEF Gathered
    <2> HIDE DEF held, stored, content
    <2> QED BY <1>4, <2>1 DEF held, stored, content
  <1> QED BY <1>3, <1>4

\* Nothing is gathered before the first source, and all of it after the last,
\* when all the archives have been put aside.
LEMMA GatheredEnds ==
  ASSUME NEW p, Sequential(p)
  PROVE  /\ \A n \in Nat : (\A k \in Numbers(p) : n <= k) => Gathered(p, n) = {Directory}
         /\ \A n \in Nat : All(p, n) =>
                LET held == Gathered(p, n) \cup Made(p) \cup {Info, Rendered, Marker}
                    archives == {item \in held : item[1] = "archive"}
                    pushed == IF Plan(p) = "build" THEN {} ELSE {item \in archives : item[2] <= n}
                IN  /\ held \ pushed = Complete(p)
                    /\ pushed = archives
  <1>1. ASSUME NEW n \in Nat, \A k \in Numbers(p) : n <= k PROVE Gathered(p, n) = {Directory}
    <2>1. {j \in Numbers(p) : j < n} = {}
      BY <1>1, NumbersOf
    <2> QED BY <2>1 DEF Gathered
  <1>2. ASSUME NEW n \in Nat, All(p, n)
        PROVE  LET held == Gathered(p, n) \cup Made(p) \cup {Info, Rendered, Marker}
                   archives == {item \in held : item[1] = "archive"}
                   pushed == IF Plan(p) = "build" THEN {} ELSE {item \in archives : item[2] <= n}
               IN  held \ pushed = Complete(p) /\ pushed = archives
    <2> DEFINE content == {<<"content", k, Sha(p, k)>> : k \in Numbers(p)}
               gathered == IF Plan(p) = "build" THEN {} ELSE {<<"archive", k, Sha(p, k)>> : k \in Numbers(p)}
               held == Gathered(p, n) \cup Made(p) \cup {Info, Rendered, Marker}
               archives == {item \in held : item[1] = "archive"}
               pushed == IF Plan(p) = "build" THEN {} ELSE {item \in archives : item[2] <= n}
    <2>1. {j \in Numbers(p) : j < n} = Numbers(p) /\ \A k \in Numbers(p) : k <= n
      BY <1>2, NumbersOf DEF All
    <2>2. Gathered(p, n) = {Directory} \cup content \cup gathered
      BY <2>1 DEF Gathered
    <2>3. Complete(p) = content \cup Made(p) \cup {Directory, Info, Rendered, Marker}
      BY DEF Complete, Sha, Made
    <2>4. \A item \in content : item[1] = "content"
      OBVIOUS
    <2>5. \A item \in gathered : item[1] = "archive" /\ item[2] <= n
      BY <2>1
    <2>6. Plan(p) = "build" => gathered = {}
      OBVIOUS
    <2> HIDE DEF content, gathered
    <2>7. archives = gathered
      BY <2>2, <2>4, <2>5, KindsOfItems
    <2>8. pushed = gathered
      BY <2>5, <2>6, <2>7
    <2> HIDE DEF pushed, archives
    <2>9. held \ gathered = Complete(p)
      BY <2>2, <2>3, <2>4, <2>5, KindsOfItems
    <2> HIDE DEF held
    <2>10. held \ pushed = Complete(p) /\ pushed = archives
      BY <2>7, <2>8, <2>9
    <2> QED BY <2>10 DEF held, pushed, archives
  <1> QED BY <1>1, <1>2

LEMMA CompleteIsPinned ==
  ASSUME NEW p, Sequential(p)
  PROVE  /\ HasPinned(Complete(p), p)
         /\ Info \in Complete(p) /\ Directory \in Complete(p) /\ Marker \in Complete(p)
         /\ \A item \in Complete(p) : item[1] # "archive"
  <1>1. \A k \in Numbers(p) : Sha(p, k) \in Pinned(p)
    <2> SUFFICES ASSUME NEW k \in Numbers(p) PROVE Sha(p, k) \in Pinned(p)
      OBVIOUS
    <2>1. k \in Nat
      BY NumbersOf
    <2>2. <<"content", k, Sha(p, k)>> \in Gathered(p, k + 1)
      BY <2>1 DEF Gathered
    <2> QED BY <2>2, GatheredIsPinned DEF HasPinned
  <1> DEFINE content == {<<"content", k, Sha(p, k)>> : k \in Numbers(p)}
  <1>2. Complete(p) = content \cup Made(p) \cup {Directory, Info, Rendered, Marker}
    BY DEF Complete, Sha, Made
  <1>3. HasPinned(content, p) /\ \A item \in content : item[1] = "content"
    BY <1>1 DEF HasPinned
  <1> HIDE DEF content
  <1> QED BY <1>2, <1>3, KindsOfItems DEF HasPinned

\* The configuration is what everything is read off, and does not change.
LEMMA SameConfig ==
  ASSUME config' = config
  PROVE  /\ Files' = Files /\ Listed' = Listed
         /\ \A p : /\ Manifest(p)' = Manifest(p) /\ Plan(p)' = Plan(p) /\ Numbers(p)' = Numbers(p)
                   /\ Scripts(p)' = Scripts(p) /\ Made(p)' = Made(p)
                   /\ Pinned(p)' = Pinned(p) /\ Complete(p)' = Complete(p)
         /\ \A p, k : Sha(p, k)' = Sha(p, k)
         /\ \A p, n : Gathered(p, n)' = Gathered(p, n) /\ (All(p, n)' <=> All(p, n))
         /\ \A p, held : HasPinned(held, p)' <=> HasPinned(held, p)
         /\ \A p, at, n : Knows(p, at, n)' <=> Knows(p, at, n)
         /\ \A p, at, n, held : Holds(p, at, n, held)' <=> Holds(p, at, n, held)
  <1>1. /\ Files' = Files /\ Listed' = Listed
        /\ \A p : Manifest(p)' = Manifest(p) /\ Plan(p)' = Plan(p) /\ Scripts(p)' = Scripts(p)
    BY DEF Files, Listed, Manifest, Plan, Scripts
  <1>2. \A p : Numbers(p)' = Numbers(p) /\ Made(p)' = Made(p) /\ MadeBefore(p)' = MadeBefore(p)
    BY <1>1 DEF Numbers, Made, MadeBefore
  <1>3. \A p : PrebuiltEntry(p)' = PrebuiltEntry(p)
    <2>1. \A p : Lines(p)' = Lines(p)
      BY <1>1 DEF Lines
    <2> QED BY <2>1 DEF PrebuiltEntry
  <1>4. \A p, k : Sha(p, k)' = Sha(p, k) /\ SourceOf(p, k)' = SourceOf(p, k)
    BY <1>1, <1>3 DEF Sha, SourceOf
  <1>5. \A p : Pinned(p)' = Pinned(p)
    BY <1>1, <1>3 DEF Pinned
  <1>6. \A p : Complete(p)' = Complete(p)
    <2> SUFFICES ASSUME NEW p PROVE Complete(p)' = Complete(p)
      OBVIOUS
    <2>1. Complete(p) = {<<"content", k, Sha(p, k)>> : k \in Numbers(p)} \cup Made(p) \cup {Directory, Info, Rendered, Marker}
      BY DEF Complete, Sha, Made
    <2>2. Complete(p)' = {<<"content", k, Sha(p, k)'>> : k \in Numbers(p)'} \cup Made(p)' \cup {Directory, Info, Rendered, Marker}
      BY DEF Complete, Sha, Made
    <2>3. {<<"content", k, Sha(p, k)'>> : k \in Numbers(p)'} = {<<"content", k, Sha(p, k)>> : k \in Numbers(p)}
      BY <1>2, <1>4
    <2> QED BY <1>2, <2>1, <2>2, <2>3
  <1>7. \A p, n : Gathered(p, n)' = Gathered(p, n) /\ (All(p, n)' <=> All(p, n))
    BY <1>1, <1>2, <1>4 DEF Gathered, All
  <1>8. \A p, held : HasPinned(held, p)' <=> HasPinned(held, p)
    BY <1>5 DEF HasPinned
  <1>9. \A p, at, n : Knows(p, at, n)' <=> Knows(p, at, n)
    BY <1>1, <1>2, <1>7 DEF Knows
  <1>10. \A p, at, n, held : Holds(p, at, n, held)' <=> Holds(p, at, n, held)
    BY <1>2, <1>4, <1>7 DEF Holds
  <1> QED BY <1>1, <1>2, <1>4, <1>5, <1>6, <1>7, <1>8, <1>9, <1>10

-------------------------------------------------------------------------------
(* Where the calls are *)

CallSteps ==
    {"idle", "removing", "making", "asking", "fetching", "extracting", "build", "post_install", "writing",
     "rendering", "registering", "chowning", "marking", "closing", "failing", "deleting"}

CallInv ==
    /\ config \in Configs
    /\ server = "up" => Loads(Files)
    /\ step \in [Calls -> CallSteps]
    /\ pkg \in [Calls -> Packages \cup {Undefined}]
    /\ source \in [Calls -> Nat]
    /\ attempt \in [Calls -> Nat]
    /\ outcome = [c \in Calls |-> outcome[c]]
    /\ runtimes \in [Packages -> Nat]
    /\ tree = [p \in Packages |-> tree[p]]
    /\ raced \subseteq Packages
    /\ \A c \in Calls : step[c] # "idle" =>
            server = "up" /\ pkg[c] \in Listed /\ Knows(pkg[c], step[c], source[c])
    /\ \A p \in Packages : Rooted(tree[p])

LEMMA AtWork ==
  ASSUME CallInv, NEW c \in Calls, step[c] # "idle"
  PROVE  /\ pkg[c] \in Packages /\ Sequential(pkg[c]) /\ Rooted(tree[pkg[c]])
         /\ Knows(pkg[c], step[c], source[c]) /\ server = "up"
         /\ step[c] \in CallSteps /\ source[c] \in Nat /\ attempt[c] \in Nat /\ runtimes[pkg[c]] \in Nat
  <1>1. pkg[c] \in Listed /\ Loads(Files)
    BY DEF CallInv
  <1>2. pkg[c] \in Packages /\ Sequential(pkg[c])
    BY <1>1, ListedIsSequential DEF CallInv, Listed
  <1> QED BY <1>2 DEF CallInv

\* A call that steps is at work, and touches its own package only.
LEMMA OwnPackage ==
  ASSUME CallInv, NEW c \in Calls, Works(c)
  PROVE  /\ step[c] # "idle" /\ UNCHANGED <<config, server, pkg, crashes>>
         /\ step' = [step EXCEPT ![c] = step'[c]]
         /\ source' = [source EXCEPT ![c] = source'[c]]
         /\ attempt' = [attempt EXCEPT ![c] = attempt'[c]]
         /\ outcome' = [outcome EXCEPT ![c] = outcome'[c]]
         /\ tree' = [tree EXCEPT ![pkg[c]] = tree'[pkg[c]]]
         /\ runtimes' = [runtimes EXCEPT ![pkg[c]] = runtimes'[pkg[c]]]
         /\ \A p : p # pkg[c] =>
                /\ p \in raced' <=> p \in raced
                /\ p \in deleted' <=> p \in deleted
                /\ p \in littered' <=> p \in littered
         /\ raced' \subseteq raced
         /\ pkg[c] \in raced \ raced' => Working(pkg[c]) = {c}
  <1> USE DEF Works, RemovedResidue, MakeDirectory, DirectoryFails, AskIndex, AskAgain, FetchSource, Extract,
          RunScript, WriteInfo, WriteRest, Register, Chowned, Mark, InstallFails, Close, CloseFails,
          Uninstalled, UninstallFails, Goes, Ends
  <1>1. step[c] # "idle" /\ UNCHANGED <<config, server, pkg, crashes>>
    BY DEF Filling
  <1>2. step' = [step EXCEPT ![c] = step'[c]]
    BY DEF CallInv
  <1>3. source' = [source EXCEPT ![c] = source'[c]]
    BY DEF CallInv
  <1>4. attempt' = [attempt EXCEPT ![c] = attempt'[c]]
    BY DEF CallInv
  <1>5. outcome' = [outcome EXCEPT ![c] = outcome'[c]]
    BY DEF CallInv
  <1>6. pkg[c] \in Packages
    BY <1>1, AtWork
  <1>7. tree' = [tree EXCEPT ![pkg[c]] = tree'[pkg[c]]]
    BY <1>6 DEF Adds, Stores, CallInv
  <1>8. runtimes' = [runtimes EXCEPT ![pkg[c]] = runtimes'[pkg[c]]]
    BY <1>6 DEF CallInv
  <1>9. /\ raced' \subseteq raced /\ (pkg[c] \in raced \ raced' => Working(pkg[c]) = {c})
        /\ \A p : p # pkg[c] => (p \in raced' <=> p \in raced)
    BY DEF Cleared
  <1>10. \A p : p # pkg[c] => (p \in deleted' <=> p \in deleted)
    BY DEF Cleared
  <1>11. \A p : p # pkg[c] => (p \in littered' <=> p \in littered)
    BY DEF Cleared
  <1> QED BY <1>1, <1>2, <1>3, <1>4, <1>5, <1>7, <1>8, <1>9, <1>10, <1>11

\* Where the step of a call takes it.
LEMMA WhereTo ==
  ASSUME CallInv, NEW c \in Calls, Works(c)
  PROVE  /\ step'[c] \in CallSteps \ {"removing", "deleting"}
         /\ source'[c] \in Nat /\ attempt'[c] \in Nat /\ runtimes'[pkg[c]] \in Nat
         /\ Knows(pkg[c], step'[c], source'[c])
  <1> DEFINE p == pkg[c]
             n == source[c]
  <1>1. step[c] # "idle"
    BY OwnPackage
  <1>2. /\ p \in Packages /\ Sequential(p) /\ Knows(p, step[c], n) /\ n \in Nat
        /\ attempt[c] \in Nat /\ runtimes[p] \in Nat
    BY <1>1, AtWork
  <1>3. /\ step = [d \in Calls |-> step[d]] /\ source = [d \in Calls |-> source[d]]
        /\ attempt = [d \in Calls |-> attempt[d]] /\ runtimes = [q \in Packages |-> runtimes[q]]
    BY DEF CallInv
  <1>4. CASE RemovedResidue(c)
    BY <1>2, <1>3, <1>4 DEF RemovedResidue, Goes, Knows, CallSteps
  <1>5. CASE MakeDirectory(c)
    <2> DEFINE to == After(p, 0)
               first == IF Plan(p) = "prebuilt" THEN 0 ELSE 1
    <2>1. step'[c] = to /\ source'[c] = first /\ attempt'[c] = 1 /\ runtimes' = runtimes
      BY <1>3, <1>5 DEF MakeDirectory, Goes
    <2>2. Knows(p, to, first) /\ to \in CallSteps \ {"removing", "deleting"}
      <3>1. CASE to = "asking"
        BY <1>2, <3>1, AfterSources DEF Knows, CallSteps
      <3>2. CASE to = "fetching"
        BY <1>2, <3>2, AfterSources, NumbersOf DEF Knows, CallSteps
      <3>3. CASE to \in {"build", "post_install"}
        BY <1>2, <3>3, AfterSources, NumbersOf DEF Knows, CallSteps, All
      <3> QED BY <1>2, <3>1, <3>2, <3>3, AfterSources
    <2>3. first \in Nat
      OBVIOUS
    <2> QED BY <1>2, <2>1, <2>2, <2>3
  <1>6. CASE AskIndex(c) \/ AskAgain(c)
    <2>1. Plan(p) = "prebuilt" /\ n = 0 /\ n \in Numbers(p)
      BY <1>2, <1>6, NumbersOf DEF AskIndex, AskAgain, Goes, Knows
    <2>2. step'[c] \in {"asking", "fetching", "failing"} /\ source'[c] = n /\ runtimes' = runtimes
      BY <1>3, <1>6 DEF AskIndex, AskAgain, Goes
    <2>3. attempt'[c] \in {attempt[c], attempt[c] + 1}
      BY <1>3, <1>6 DEF AskIndex, AskAgain
    <2> QED BY <1>2, <2>1, <2>2, <2>3 DEF Knows, CallSteps
  <1>7. CASE FetchSource(c)
    <2>1. n \in Numbers(p) /\ step'[c] \in {"extracting", "failing"} /\ UNCHANGED <<source, attempt, runtimes>>
      BY <1>2, <1>3, <1>7 DEF FetchSource, Goes, Knows
    <2> QED BY <1>2, <2>1 DEF Knows, CallSteps
  <1>8. CASE Extract(c)
    <2> DEFINE m == IF n = 0 THEN 1 ELSE n
               to == After(p, m)
               next == n + 1
    <2>1. n \in Numbers(p) /\ step'[c] = to /\ source'[c] = next /\ UNCHANGED <<attempt, runtimes>>
      BY <1>2, <1>3, <1>8 DEF Extract, Goes, Knows
    <2>2. m \in Nat /\ m > 0
      BY <1>2
    <2>3. to = "fetching" => next \in Numbers(p)
      BY <1>2, <2>1, <2>2, AfterSources, NumbersOf
    <2>4. to \in {"build", "post_install", "writing"} => All(p, next)
      BY <1>2, <2>1, <2>2, AfterSources, NumbersOf DEF All
    <2>5. to \in {"fetching", "build", "post_install", "writing"}
      BY <1>2, <2>2, AfterSources
    <2>6. to \in {"build", "post_install"} => Plan(p) = "build" /\ to \in Scripts(p)
      BY <1>2, <2>2, AfterSources
    <2>7. next \in Nat
      BY <1>2
    <2> HIDE DEF to, next
    <2> QED BY <1>2, <2>1, <2>3, <2>4, <2>5, <2>6, <2>7 DEF Knows, CallSteps
  <1>9. CASE RunScript(c)
    <2>1. step[c] \in {"build", "post_install"} /\ UNCHANGED <<source, attempt, runtimes>>
          /\ step'[c] \in {"post_install", "writing"} /\ (step'[c] = "post_install" => "post_install" \in Scripts(p))
      BY <1>3, <1>9 DEF RunScript, Goes
    <2> QED BY <1>2, <2>1 DEF Knows, CallSteps
  <1>10. CASE WriteInfo(c) \/ WriteRest(c) \/ Chowned(c) \/ Mark(c)
    <2>1. step[c] \in {"writing", "rendering", "chowning", "marking"} /\ UNCHANGED <<source, attempt, runtimes>>
          /\ step'[c] \in {"rendering", "registering", "marking", "closing"}
      BY <1>3, <1>10 DEF WriteInfo, WriteRest, Chowned, Mark, Goes
    <2> QED BY <1>2, <2>1 DEF Knows, CallSteps
  <1>11. CASE Register(c)
    <2>1. step[c] = "registering" /\ UNCHANGED <<source, attempt>> /\ step'[c] = "chowning"
          /\ runtimes'[p] = runtimes[p] + 1
      BY <1>2, <1>3, <1>11 DEF Register, Goes
    <2> QED BY <1>2, <2>1 DEF Knows, CallSteps
  <1>12. CASE InstallFails(c)
    BY <1>2, <1>3, <1>12 DEF InstallFails, Goes, Knows, CallSteps
  <1>13. CASE DirectoryFails(c) \/ Close(c) \/ CloseFails(c) \/ Uninstalled(c) \/ UninstallFails(c)
    <2>1. step'[c] = "idle" /\ source'[c] = 0 /\ attempt'[c] = 0 /\ runtimes' = runtimes
      BY <1>3, <1>13 DEF DirectoryFails, Close, CloseFails, Uninstalled, UninstallFails, Ends
    <2> QED BY <1>2, <2>1 DEF Knows, CallSteps
  <1> QED BY <1>4, <1>5, <1>6, <1>7, <1>8, <1>9, <1>10, <1>11, <1>12, <1>13 DEF Works

\* A directory with something in it is there.
LEMMA StaysRooted ==
  ASSUME CallInv, NEW c \in Calls, Works(c)
  PROVE  Rooted(tree'[pkg[c]])
  <1> DEFINE p == pkg[c]
  <1>1. step[c] # "idle"
    BY OwnPackage
  <1>2. p \in Packages /\ Rooted(tree[p]) /\ tree = [q \in Packages |-> tree[q]]
    BY <1>1, AtWork DEF CallInv
  <1>3. CASE RemovedResidue(c) \/ Uninstalled(c)
    BY <1>2, <1>3 DEF RemovedResidue, Uninstalled, Rooted
  <1>4. CASE MakeDirectory(c) \/ RunScript(c) \/ WriteInfo(c) \/ WriteRest(c) \/ Mark(c)
    BY <1>2, <1>4 DEF MakeDirectory, RunScript, WriteInfo, WriteRest, Mark, Adds, Rooted
  <1>5. CASE DirectoryFails(c) \/ AskIndex(c) \/ AskAgain(c) \/ Register(c) \/ Chowned(c) \/ UninstallFails(c)
    BY <1>2, <1>5 DEF DirectoryFails, AskIndex, AskAgain, Register, Chowned, UninstallFails
  <1>6. CASE FetchSource(c)
    BY <1>2, <1>6, KindsOfItems DEF FetchSource, Stores, ArchivesOf, Archives, Rooted
  <1>7. CASE Extract(c)
    <2>1. Directory \in tree[p]
      BY <1>2, <1>7 DEF Extract, ArchivesOf, Archives, Rooted
    <2>2. Directory \notin ArchivesOf(p, source[c])
      BY KindsOfItems DEF ArchivesOf, Archives
    <2>3. \E content : tree'[p] = (IF Plan(p) = "build" THEN tree[p] \ ArchivesOf(p, source[c]) ELSE tree[p]) \cup content
      BY <1>2, <1>7 DEF Extract
    <2> QED BY <2>1, <2>2, <2>3 DEF Rooted
  <1>8. CASE InstallFails(c)
    <2>1. \E items : tree'[p] = tree[p] \cup items /\ (items = {} \/ Directory \in items)
      BY <1>2, <1>8 DEF InstallFails, Adds
    <2> QED BY <1>2, <2>1 DEF Rooted
  <1>9. CASE Close(c) \/ CloseFails(c)
    <2>1. \E kept : kept \subseteq Pushed(c) /\ tree'[p] = (tree[p] \ Pushed(c)) \cup kept
      <3>1. CASE Close(c)
        <4>1. tree'[p] = (tree[p] \ Pushed(c)) \cup {}
          BY <1>2, <3>1 DEF Close
        <4> QED BY <4>1
      <3>2. CASE CloseFails(c)
        BY <1>2, <3>2 DEF CloseFails
      <3> QED BY <1>9, <3>1, <3>2
    <2>2. Directory \notin Pushed(c) /\ Pushed(c) \subseteq tree[p]
      BY KindsOfItems DEF Pushed, Archives
    <2> QED BY <1>2, <2>1, <2>2 DEF Rooted
  <1> QED BY <1>3, <1>4, <1>5, <1>6, <1>7, <1>8, <1>9 DEF Works

LEMMA CallInvInit == InstallInit => CallInv
  <1> SUFFICES ASSUME InstallInit PROVE CallInv
    OBVIOUS
  <1> USE DEF InstallInit
  <1>1. PICK installed \in SUBSET IF Loads(Files) THEN {p \in Packages : Installable(p)} ELSE {} :
            tree = [p \in Packages |-> IF p \in installed THEN Complete(p) ELSE {}]
    OBVIOUS
  <1>2. \A p \in Packages : Rooted(tree[p])
    BY <1>1 DEF Rooted, Complete
  <1>3. step \in [Calls -> CallSteps] /\ pkg \in [Calls -> Packages \cup {Undefined}]
        /\ source \in [Calls -> Nat] /\ attempt \in [Calls -> Nat] /\ runtimes \in [Packages -> Nat]
    BY DEF CallSteps
  <1> QED BY <1>1, <1>2, <1>3 DEF CallInv

LEMMA WorksCallInv ==
  ASSUME CallInv, NEW c \in Calls, Works(c)
  PROVE  CallInv'
  <1>1. /\ step[c] # "idle" /\ UNCHANGED <<config, server, pkg>>
        /\ step' = [step EXCEPT ![c] = step'[c]] /\ source' = [source EXCEPT ![c] = source'[c]]
        /\ attempt' = [attempt EXCEPT ![c] = attempt'[c]] /\ outcome' = [outcome EXCEPT ![c] = outcome'[c]]
        /\ tree' = [tree EXCEPT ![pkg[c]] = tree'[pkg[c]]]
        /\ runtimes' = [runtimes EXCEPT ![pkg[c]] = runtimes'[pkg[c]]]
        /\ raced' \subseteq raced
    BY OwnPackage
  <1>2. /\ step'[c] \in CallSteps /\ source'[c] \in Nat /\ attempt'[c] \in Nat /\ runtimes'[pkg[c]] \in Nat
        /\ Knows(pkg[c], step'[c], source'[c]) /\ Rooted(tree'[pkg[c]])
    BY WhereTo, StaysRooted
  <1>3. pkg[c] \in Packages /\ server = "up" /\ pkg[c] \in Listed
    BY <1>1, AtWork DEF CallInv
  <1>4. \A d \in Calls : step'[d] # "idle" => server' = "up" /\ pkg'[d] \in Listed /\ Knows(pkg'[d], step'[d], source'[d])
    BY <1>1, <1>2, <1>3 DEF CallInv
  <1>5. \A d \in Calls : (step[d] # "idle" => server = "up" /\ pkg[d] \in Listed /\ Knows(pkg[d], step[d], source[d]))'
    BY <1>1, <1>4, SameConfig
  <1>6. \A p \in Packages : Rooted(tree'[p])
    BY <1>1, <1>2, <1>3 DEF CallInv
  <1>7. (config \in Configs)' /\ (server = "up" => Loads(Files))'
    BY <1>1, SameConfig DEF CallInv
  <1>8. /\ step' \in [Calls -> CallSteps] /\ source' \in [Calls -> Nat] /\ attempt' \in [Calls -> Nat]
        /\ runtimes' \in [Packages -> Nat]
    BY <1>1, <1>2 DEF CallInv
  <1>9. (outcome = [d \in Calls |-> outcome[d]])' /\ (tree = [p \in Packages |-> tree[p]])'
    BY <1>1 DEF CallInv
  <1>10. (pkg \in [Calls -> Packages \cup {Undefined}])' /\ (raced \subseteq Packages)'
    BY <1>1 DEF CallInv
  <1> QED BY <1>5, <1>6, <1>7, <1>8, <1>9, <1>10 DEF CallInv, Rooted

\* What begins a call, and what comes to nothing.
Request(c, p) ==
    StartInstall(c, p) \/ RefuseInstall(c, p) \/ StartUninstall(c, p) \/ RefuseUninstall(c, p) \/ Unreachable(c)

LEMMA RequestSteps ==
  ASSUME CallInv, NEW c \in Calls, NEW p, Request(c, p)
  PROVE  /\ step[c] = "idle" /\ UNCHANGED <<config, server, tree, source, attempt, littered, crashes>>
         /\ outcome' = [outcome EXCEPT ![c] = outcome'[c]]
         /\ \/ /\ step' = step /\ UNCHANGED <<pkg, runtimes, deleted, halfway, raced>>
               /\ outcome'[c] = "failed"
            \/ /\ server = "up" /\ p \in Listed /\ p \in Packages
               /\ pkg' = [pkg EXCEPT ![c] = p] /\ step' = [step EXCEPT ![c] = step'[c]]
               /\ step'[c] \in {"removing", "making", "deleting"} /\ outcome'[c] = Undefined
               /\ raced' = (IF Working(p) = {} THEN raced ELSE raced \cup {p})
               /\ step'[c] = "removing" => Marker \notin tree[p]
               /\ step'[c] = "making" => tree[p] = {}
               /\ deleted' = (IF step'[c] = "deleting" THEN deleted \cup {p} ELSE deleted)
               /\ runtimes' = (IF step'[c] = "deleting" THEN [runtimes EXCEPT ![p] = 0] ELSE runtimes)
               /\ step'[c] = "deleting" <=> StartUninstall(c, p)
  <1>1. outcome = [d \in Calls |-> outcome[d]] /\ step = [d \in Calls |-> step[d]]
    BY DEF CallInv
  <1>2. CASE RefuseInstall(c, p) \/ RefuseUninstall(c, p) \/ Unreachable(c)
    BY <1>1, <1>2 DEF RefuseInstall, RefuseUninstall, Unreachable, Refused, history
  <1>3. CASE StartInstall(c, p)
    <2>1. step'[c] \in {"removing", "making"}
      BY <1>1, <1>3 DEF StartInstall, Begins
    <2>2. ~StartUninstall(c, p)
      BY <1>1, <2>1 DEF StartUninstall, Begins
    <2> QED BY <1>1, <1>3, <2>1, <2>2 DEF StartInstall, Begins, Installed, Listed
  <1>4. CASE StartUninstall(c, p)
    BY <1>1, <1>4 DEF StartUninstall, Begins, Listed
  <1> QED BY <1>2, <1>3, <1>4 DEF Request

LEMMA RequestCallInv ==
  ASSUME CallInv, NEW c \in Calls, NEW p, Request(c, p)
  PROVE  CallInv'
  <1>1. /\ UNCHANGED <<config, server, tree, source, attempt>> /\ outcome' = [outcome EXCEPT ![c] = outcome'[c]]
    BY RequestSteps
  <1>2. (outcome = [d \in Calls |-> outcome[d]])'
    BY <1>1 DEF CallInv
  <1>3. (config \in Configs)' /\ (server = "up" => Loads(Files))' /\ Listed' = Listed
    BY <1>1, SameConfig DEF CallInv
  <1>4. CASE step' = step /\ UNCHANGED <<pkg, runtimes, raced>>
    BY <1>1, <1>2, <1>3, <1>4, SameConfig DEF CallInv, Rooted
  <1>5. CASE ~(step' = step /\ UNCHANGED <<pkg, runtimes, raced>>)
    <2>1. /\ server = "up" /\ p \in Listed /\ p \in Packages
          /\ pkg' = [pkg EXCEPT ![c] = p] /\ step' = [step EXCEPT ![c] = step'[c]]
          /\ step'[c] \in {"removing", "making", "deleting"}
          /\ raced' = (IF Working(p) = {} THEN raced ELSE raced \cup {p})
          /\ runtimes' = (IF step'[c] = "deleting" THEN [runtimes EXCEPT ![p] = 0] ELSE runtimes)
      BY <1>5, RequestSteps
    <2>2. /\ step' \in [Calls -> CallSteps] /\ pkg' \in [Calls -> Packages \cup {Undefined}]
          /\ runtimes' \in [Packages -> Nat] /\ raced' \subseteq Packages
      BY <2>1 DEF CallInv, CallSteps
    <2>3. \A d \in Calls : step'[d] # "idle" => server' = "up" /\ pkg'[d] \in Listed /\ Knows(pkg'[d], step'[d], source'[d])
      BY <1>1, <2>1 DEF CallInv, Knows
    <2>4. \A d \in Calls : (step[d] # "idle" => server = "up" /\ pkg[d] \in Listed /\ Knows(pkg[d], step[d], source[d]))'
      BY <1>1, <2>3, SameConfig
    <2> QED BY <1>1, <1>2, <1>3, <2>2, <2>4 DEF CallInv, Rooted
  <1> QED BY <1>4, <1>5

\* What is left of a directory while it is being removed.
LEMMA RemovesSome ==
  ASSUME CallInv, NEW c \in Calls, RemoveSome(c)
  PROVE  /\ step[c] \in {"removing", "deleting"} /\ pkg[c] \in Packages
         /\ UNCHANGED <<config, server, runtimes, calls, history>>
         /\ tree' = [tree EXCEPT ![pkg[c]] = tree'[pkg[c]]]
         /\ tree'[pkg[c]] \subseteq tree[pkg[c]]
         /\ Directory \in tree'[pkg[c]] <=> Directory \in tree[pkg[c]]
         /\ Info \in tree[pkg[c]] /\ Info \notin tree'[pkg[c]] =>
                (Marker \in tree'[pkg[c]] <=> Marker \in tree[pkg[c]])
         /\ Rooted(tree'[pkg[c]])
  <1> DEFINE p == pkg[c]
             three == {{Marker}, {Info}, tree[p] \ {Directory, Info, Marker}}
  <1>1. step[c] \in {"removing", "deleting"} /\ UNCHANGED <<config, server, runtimes, calls, history>>
    BY DEF RemoveSome
  <1>2. p \in Packages /\ Rooted(tree[p]) /\ tree = [q \in Packages |-> tree[q]]
    BY <1>1, AtWork DEF CallInv
  <1>3. PICK gone \in three : tree' = [tree EXCEPT ![p] = @ \ gone]
    BY DEF RemoveSome
  <1>4. tree'[p] = tree[p] \ gone
    BY <1>2, <1>3
  <1>5. Directory # Info /\ Directory # Marker /\ Info # Marker
    BY DEF Directory, Info, Marker
  <1> QED BY <1>1, <1>2, <1>3, <1>4, <1>5 DEF Rooted

LEMMA RemoveSomeCallInv ==
  ASSUME CallInv, NEW c \in Calls, RemoveSome(c)
  PROVE  CallInv'
  <1>1. /\ UNCHANGED <<config, server, runtimes, calls, history>> /\ Rooted(tree'[pkg[c]]) /\ pkg[c] \in Packages
        /\ tree' = [tree EXCEPT ![pkg[c]] = tree'[pkg[c]]]
    BY RemovesSome
  <1>2. UNCHANGED <<step, pkg, source, attempt, outcome, raced>>
    BY <1>1 DEF calls, history
  <1>3. \A p \in Packages : Rooted(tree'[p])
    BY <1>1 DEF CallInv
  <1>4. (tree = [p \in Packages |-> tree[p]])'
    BY <1>1 DEF CallInv
  <1> QED BY <1>1, <1>2, <1>3, <1>4, SameConfig DEF CallInv, Rooted

LEMMA CrashCallInv ==
  ASSUME CallInv, Crash
  PROVE  CallInv'
  <1>1. /\ UNCHANGED <<config, tree, pkg>> /\ server' = "down"
        /\ step' = [c \in Calls |-> "idle"] /\ source' = [c \in Calls |-> 0] /\ attempt' = [c \in Calls |-> 0]
        /\ runtimes' = [p \in Packages |-> 0] /\ outcome' = [c \in Calls |-> outcome'[c]] /\ raced' \subseteq raced
    BY DEF Crash
  <1>2. step' \in [Calls -> CallSteps] /\ source' \in [Calls -> Nat] /\ attempt' \in [Calls -> Nat]
        /\ runtimes' \in [Packages -> Nat]
    BY <1>1 DEF CallSteps
  <1>3. \A c \in Calls : step'[c] = "idle"
    BY <1>1
  <1> QED BY <1>1, <1>2, <1>3 DEF CallInv, Rooted

LEMMA BootCallInv ==
  ASSUME CallInv, Boot
  PROVE  CallInv'
  <1>1. /\ UNCHANGED <<config, tree, step, pkg, source, attempt, outcome, raced>> /\ server = "down"
        /\ server' = "up" => Loads(Files)
    BY DEF Boot, calls, history
  <1>2. runtimes' \in [Packages -> Nat]
    BY DEF Boot, CallInv
  <1> QED BY <1>1, <1>2, SameConfig DEF CallInv, Rooted

\* The steps of the specification, by what they are to the server.
LEMMA Steps ==
  ASSUME [Next]_vars
  PROVE  \/ Boot /\ UNCHANGED clientVars
         \/ Crash /\ UNCHANGED clientVars
         \/ \E c \in Calls : Works(c) /\ UNCHANGED clientVars
         \/ \E c \in Calls : RemoveSome(c) /\ UNCHANGED clientVars
         \/ \E c \in Calls : \E p \in Packages : Request(c, p) /\ c # ppman /\ OtherRequest(c)
         \/ \E p : Request(ppman, p) /\ Send
         \/ UNCHANGED installVars /\ (ReadSpec \/ ReadFails \/ Receive \/ Finish \/ UNCHANGED clientVars)
  <1>1. CASE Send
    <2>1. PICK operation \in NextOperations :
            \/ Unreachable(ppman)
            \/ StartInstall(ppman, operation.package) \/ RefuseInstall(ppman, operation.package)
            \/ StartUninstall(ppman, operation.package) \/ RefuseUninstall(ppman, operation.package)
      BY <1>1 DEF Send
    <2>2. Request(ppman, operation.package)
      BY <2>1 DEF Request
    <2> QED BY <1>1, <2>2
  <1>2. ASSUME NEW c \in Calls, OtherRequest(c)
        PROVE  \E p \in Packages : Request(c, p) /\ c # ppman
    BY <1>2 DEF OtherRequest, Request
  <1> QED BY <1>1, <1>2 DEF Next, Client, Call, ReadSpec, ReadFails, Receive, Finish, vars

LEMMA CallInvNext == CallInv /\ [Next]_vars => CallInv'
  <1> SUFFICES ASSUME CallInv, [Next]_vars PROVE CallInv'
    OBVIOUS
  <1>1. CASE UNCHANGED installVars
    BY <1>1, SameConfig DEF installVars, calls, history, CallInv, Rooted
  <1> QED BY <1>1, Steps, ProvisionAssumption, WorksCallInv, RequestCallInv, RemoveSomeCallInv, CrashCallInv, BootCallInv

LEMMA CallInvariant == Spec => []CallInv
  <1>1. Init => CallInv
    BY CallInvInit DEF Init
  <1> QED BY <1>1, CallInvNext, PTL DEF Spec

-------------------------------------------------------------------------------
(* What the directories hold, of packages left to one call at a time *)

\* A package that passes for installed is complete, or is when its call closes.
WholeOrClosing(p) ==
    Marker \in tree[p] =>
        \/ /\ Complete(p) \subseteq tree[p]
           /\ tree[p] \subseteq Complete(p) \cup (IF p \in littered THEN Archives(p) ELSE {})
        \/ \E c \in Calls : step[c] = "closing" /\ pkg[c] = p

Undisturbed(p) ==
    /\ \A c, d \in Working(p) : c = d
    /\ \A c \in Working(p) : Holds(p, step[c], source[c], tree[p])
    /\ \A c \in Working(p) : step[c] = "deleting" => p \in deleted
    /\ HasPinned(tree[p], p)
    /\ p \notin deleted => WholeOrClosing(p)

TreeInv == \A p \in Packages \ raced : Undisturbed(p)

\* At most steps what a call holds is pinned, and not marked.
LEMMA HeldIsPinned ==
  ASSUME NEW p, Sequential(p), NEW at \in CallSteps \ {"idle", "deleting"}, NEW n, NEW held, Holds(p, at, n, held)
  PROVE  /\ at \notin {"removing", "failing"} => HasPinned(held, p)
         /\ at # "closing" => Marker \notin held
         /\ at = "closing" => Marker \in held
  <1> DEFINE archive == <<"archive", n, Sha(p, n)>>
  <1>1. HasPinned(Gathered(p, n), p)
    BY GatheredIsPinned
  <1>2. archive[1] = "archive"
    OBVIOUS
  <1>3. CASE at \in {"removing", "failing"}
    BY <1>3 DEF Holds
  <1>4. CASE at \notin {"removing", "failing"}
    <2>1. \A item \in held : \/ item \in Gathered(p, n) \cup Made(p) \cup MadeBefore(p) \cup {Directory, Info, Rendered}
                             \/ item = archive
                             \/ at = "closing" /\ item = Marker
      BY <1>4, KindsOfItems DEF Holds, CallSteps
    <2>2. at = "closing" => Marker \in held
      BY DEF Holds
    <2> HIDE DEF archive
    <2> QED BY <1>1, <1>2, <1>4, <2>1, <2>2, KindsOfItems DEF HasPinned
  <1> QED BY <1>3, <1>4

\* A call that steps is alone on its package, unless calls raced there.
LEMMA AloneThere ==
  ASSUME CallInv, TreeInv, NEW c \in Calls, Works(c), pkg[c] \notin raced'
  PROVE  /\ Working(pkg[c]) = {c}
         /\ pkg[c] \notin raced =>
                /\ Holds(pkg[c], step[c], source[c], tree[pkg[c]])
                /\ HasPinned(tree[pkg[c]], pkg[c])
                /\ step[c] = "deleting" => pkg[c] \in deleted
         /\ pkg[c] \in raced => RemovedResidue(c) \/ Uninstalled(c)
  <1>1. step[c] # "idle" /\ (pkg[c] \in raced \ raced' => Working(pkg[c]) = {c})
    BY OwnPackage
  <1>2. pkg[c] \in Packages /\ c \in Working(pkg[c])
    BY <1>1, AtWork DEF Working
  <1>3. ~RemovedResidue(c) /\ ~Uninstalled(c) => raced' = raced
    BY DEF Works, MakeDirectory, DirectoryFails, AskIndex, AskAgain, FetchSource, Extract, RunScript, WriteInfo,
           WriteRest, Register, Chowned, Mark, InstallFails, Close, CloseFails, UninstallFails
  <1>4. CASE pkg[c] \in raced
    BY <1>1, <1>3, <1>4
  <1>5. CASE pkg[c] \notin raced
    <2>1. Undisturbed(pkg[c])
      BY <1>2, <1>5 DEF TreeInv
    <2> QED BY <1>2, <1>5, <2>1 DEF Undisturbed
  <1> QED BY <1>4, <1>5

\* What the call leaves there is what it holds at the step it goes to.
LEMMA LeavesWhatItHolds ==
  ASSUME CallInv, TreeInv, NEW c \in Calls, Works(c), pkg[c] \notin raced', step'[c] # "idle"
  PROVE  /\ Holds(pkg[c], step'[c], source'[c], tree'[pkg[c]])
         /\ HasPinned(tree'[pkg[c]], pkg[c])
  <1> DEFINE p == pkg[c]
             n == source[c]
  <1> SUFFICES ASSUME NEW at, at = step'[c], NEW k, k = source'[c], NEW held, held = tree'[p]
               PROVE  Holds(p, at, k, held) /\ HasPinned(held, p)
    OBVIOUS
  <1>1. step[c] # "idle" /\ step' = [step EXCEPT ![c] = step'[c]]
    BY OwnPackage
  <1>2. /\ p \in Packages /\ Sequential(p) /\ Knows(p, step[c], n) /\ n \in Nat
        /\ step = [d \in Calls |-> step[d]] /\ source = [d \in Calls |-> source[d]]
        /\ tree = [q \in Packages |-> tree[q]]
    BY <1>1, AtWork DEF CallInv
  <1>3. CASE RemovedResidue(c)
    <2>1. step'[c] = "making" /\ held = {}
      BY <1>2, <1>3 DEF RemovedResidue, Goes
    <2> QED BY <2>1 DEF Holds, HasPinned
  <1>4. ~Uninstalled(c) /\ ~DirectoryFails(c) /\ ~Close(c) /\ ~CloseFails(c) /\ ~UninstallFails(c)
    BY <1>2 DEF Uninstalled, DirectoryFails, Close, CloseFails, UninstallFails, Ends
  <1>5. ASSUME ~RemovedResidue(c)
        PROVE  Holds(p, step[c], n, tree[p]) /\ HasPinned(tree[p], p)
    BY <1>4, <1>5, AloneThere
  <1>6. CASE MakeDirectory(c)
    <2> DEFINE to == After(p, 0)
               first == IF Plan(p) = "prebuilt" THEN 0 ELSE 1
    <2>1. step[c] = "making" /\ step'[c] = to /\ source'[c] = first /\ held = tree[p] \cup {Directory}
      BY <1>2, <1>6 DEF MakeDirectory, Goes, Adds
    <2>2. ~RemovedResidue(c)
      BY <2>1 DEF RemovedResidue, Goes
    <2>3. held = {Directory}
      BY <1>5, <2>1, <2>2 DEF Holds
    <2>4. Gathered(p, first) = {Directory} /\ first \in Nat
      BY <1>2, GatheredEnds, NumbersOf
    <2>5. to = "post_install" => MadeBefore(p) = {}
      BY <1>2, AfterSources, NumbersOf DEF MadeBefore
    <2>6. to \in {"asking", "fetching", "build", "post_install"}
      BY <1>2, AfterSources
    <2>7. HasPinned(held, p)
      BY <2>3, KindsOfItems DEF HasPinned
    <2> HIDE DEF to, first
    <2> QED BY <2>1, <2>3, <2>4, <2>5, <2>6, <2>7 DEF Holds
  <1>7. CASE AskIndex(c) \/ AskAgain(c)
    <2>1. step[c] = "asking" /\ step'[c] \in {"asking", "fetching", "failing"} /\ source' = source /\ held = tree[p]
      BY <1>2, <1>7 DEF AskIndex, AskAgain, Goes
    <2>2. Plan(p) = "prebuilt" /\ n = 0 /\ held = {Directory}
      BY <1>2, <1>5, <2>1 DEF Knows, Holds, RemovedResidue, Goes
    <2>3. Gathered(p, n) = {Directory}
      BY <1>2, <2>2, GatheredEnds, NumbersOf
    <2>4. HasPinned({Directory}, p) /\ Marker \notin {Directory}
      BY KindsOfItems DEF HasPinned
    <2> QED BY <2>1, <2>2, <2>3, <2>4 DEF Holds
  <1>8. CASE FetchSource(c)
    <2>1. PICK digest :
            /\ step[c] = "fetching" /\ source' = source
            /\ step'[c] = IF digest = Sha(p, n) THEN "extracting" ELSE "failing"
            /\ held = (tree[p] \ ArchivesOf(p, n)) \cup {<<"archive", n, digest>>}
      BY <1>2, <1>8 DEF FetchSource, Goes, Stores, Sha
    <2>2. tree[p] = Gathered(p, n) /\ n \in Numbers(p)
      BY <1>2, <1>5, <2>1 DEF Knows, Holds, RemovedResidue, Goes
    <2>3. ArchivesOf(p, n) = {}
      BY <1>2, <2>2, GatheredArchives DEF ArchivesOf, Archives
    <2> DEFINE archive == <<"archive", n, digest>>
    <2>4. archive[1] = "archive"
      OBVIOUS
    <2>5. held = Gathered(p, n) \cup {archive}
      BY <2>1, <2>2, <2>3
    <2>6. HasPinned(Gathered(p, n), p)
      BY <1>2, GatheredIsPinned
    <2>7. HasPinned(held, p) /\ Marker \notin held
      <3> HIDE DEF archive
      <3> QED BY <2>4, <2>5, <2>6, KindsOfItems DEF HasPinned
    <2>8. digest = Sha(p, n) => held = Gathered(p, n) \cup {<<"archive", n, Sha(p, n)>>}
      BY <2>5
    <2> HIDE DEF archive
    <2> QED BY <2>1, <2>7, <2>8 DEF Holds
  <1>9. CASE Extract(c)
    <2> DEFINE m == IF n = 0 THEN 1 ELSE n
               to == After(p, m)
               next == n + 1
               archive == <<"archive", n, Sha(p, n)>>
    <2>1. step[c] = "extracting" /\ step'[c] = to /\ source'[c] = next
      BY <1>2, <1>9 DEF Extract, Goes
    <2>2. tree[p] = Gathered(p, n) \cup {archive} /\ n \in Numbers(p)
      BY <1>2, <1>5, <2>1 DEF Knows, Holds, RemovedResidue, Goes
    <2>3. ArchivesOf(p, n) = {archive}
      <3>1. archive[1] = "archive" /\ archive[2] = n
        OBVIOUS
      <3> HIDE DEF archive
      <3> QED BY <1>2, <2>2, <3>1, GatheredArchives DEF ArchivesOf, Archives
    <2>4. held = (IF Plan(p) = "build" THEN tree[p] \ {archive} ELSE tree[p]) \cup {<<"content", n, Sha(p, n)>>}
      <3>1. {<<"content", a[2], a[3]>> : a \in {archive}} = {<<"content", n, Sha(p, n)>>}
        OBVIOUS
      <3>2. held = (IF Plan(p) = "build" THEN tree[p] \ ArchivesOf(p, n) ELSE tree[p])
                    \cup {<<"content", a[2], a[3]>> : a \in ArchivesOf(p, n)}
        BY <1>2, <1>9 DEF Extract
      <3> QED BY <2>3, <3>1, <3>2
    <2>5. held = Gathered(p, next)
      <3>1. (IF Plan(p) = "build" THEN (Gathered(p, n) \cup {archive}) \ {archive} ELSE Gathered(p, n) \cup {archive})
                \cup {<<"content", n, Sha(p, n)>>} = Gathered(p, next)
        BY <1>2, <2>2, GatheredGrows
      <3> HIDE DEF archive, next
      <3> QED BY <2>2, <2>4, <3>1
    <2>6. m \in Nat /\ m > 0
      BY <1>2
    <2>7. to \in {"fetching", "build", "post_install", "writing"}
      BY <1>2, <2>6, AfterSources
    <2>8. (to = "post_install" => MadeBefore(p) = {}) /\ (to = "writing" => Made(p) = {})
      BY <1>2, <2>6, AfterSources, NumbersOf DEF MadeBefore, Made
    <2>9. HasPinned(held, p)
      BY <1>2, <2>5, GatheredIsPinned
    <2> HIDE DEF to, next
    <2> QED BY <2>1, <2>5, <2>7, <2>8, <2>9 DEF Holds
  <1>10. CASE RunScript(c)
    <2>1. PICK script \in {"build", "post_install"} :
            /\ step[c] = script /\ source' = source
            /\ step'[c] = (IF script = "build" /\ "post_install" \in Scripts(p) THEN "post_install" ELSE "writing")
            /\ held = tree[p] \cup {Directory, <<"made", script>>}
      BY <1>2, <1>10 DEF RunScript, Goes, Adds
    <2>2. /\ Plan(p) = "build" /\ script \in Scripts(p)
          /\ script = "build" => tree[p] = Gathered(p, n)
          /\ script = "post_install" => tree[p] = Gathered(p, n) \cup MadeBefore(p)
      BY <1>2, <1>5, <2>1 DEF Knows, Holds, RemovedResidue, Goes
    <2>3. Made(p) = {<<"made", s>> : s \in Scripts(p)}
      BY <2>2 DEF Made
    <2>4. CASE script = "build" /\ "post_install" \in Scripts(p)
      <3>1. Scripts(p) \ {"post_install"} = {"build"}
        BY <1>2, <2>2, <2>4, NumbersOf
      <3>2. MadeBefore(p) = {<<"made", "build">>}
        BY <3>1 DEF MadeBefore
      <3>3. held = Gathered(p, n) \cup MadeBefore(p)
        BY <2>1, <2>2, <2>4, <3>2, KindsOfItems
      <3>4. Holds(p, "post_install", n, held)
        BY <3>3 DEF Holds
      <3> QED BY <1>2, <2>1, <2>4, <3>4, HeldIsPinned DEF CallSteps
    <2>5. CASE script = "build" /\ "post_install" \notin Scripts(p)
      <3>1. Scripts(p) = {"build"}
        BY <1>2, <2>2, <2>5, NumbersOf
      <3>2. Made(p) = {<<"made", "build">>}
        BY <2>3, <3>1
      <3>3. held = Gathered(p, n) \cup Made(p)
        BY <2>1, <2>2, <2>5, <3>2, KindsOfItems
      <3>4. Holds(p, "writing", n, held)
        BY <3>3 DEF Holds
      <3> QED BY <1>2, <2>1, <2>5, <3>4, HeldIsPinned DEF CallSteps
    <2>6. CASE script = "post_install"
      <3>1. MadeBefore(p) \cup {<<"made", "post_install">>} = Made(p)
        BY <2>2, <2>3, <2>6 DEF MadeBefore
      <3>2. held = Gathered(p, n) \cup Made(p)
        BY <2>1, <2>2, <2>6, <3>1, KindsOfItems
      <3>3. Holds(p, "writing", n, held)
        BY <3>2 DEF Holds
      <3> QED BY <1>2, <2>1, <2>6, <3>3, HeldIsPinned DEF CallSteps
    <2> QED BY <2>1, <2>4, <2>5, <2>6
  <1>11. CASE WriteInfo(c) \/ WriteRest(c) \/ Register(c) \/ Chowned(c) \/ Mark(c)
    <2>1. step[c] \in {"writing", "rendering", "registering", "chowning", "marking"} /\ source' = source
      BY <1>11 DEF WriteInfo, WriteRest, Register, Chowned, Mark, Goes
    <2>2. Holds(p, step[c], n, tree[p]) /\ Directory \in tree[p]
      BY <1>5, <2>1, KindsOfItems DEF RemovedResidue, Goes, Holds
    <2>3. ASSUME WriteInfo(c) PROVE Holds(p, at, n, held)
      <3>1. step[c] = "writing" /\ step'[c] = "rendering" /\ held = tree[p] \cup {Info}
        BY <1>2, <2>2, <2>3 DEF WriteInfo, Goes, Adds
      <3> QED BY <2>2, <3>1 DEF Holds
    <2>4. ASSUME WriteRest(c) PROVE Holds(p, at, n, held)
      <3>1. step[c] = "rendering" /\ step'[c] = "registering" /\ held = tree[p] \cup {Rendered}
        BY <1>2, <2>2, <2>4 DEF WriteRest, Goes, Adds
      <3> QED BY <2>2, <3>1 DEF Holds
    <2>5. ASSUME Register(c) \/ Chowned(c) PROVE Holds(p, at, n, held)
      <3>1. step[c] \in {"registering", "chowning"} /\ step'[c] \in {"chowning", "marking"} /\ held = tree[p]
        BY <1>2, <2>5 DEF Register, Chowned, Goes
      <3> QED BY <2>2, <3>1 DEF Holds
    <2>6. ASSUME Mark(c) PROVE Holds(p, at, n, held)
      <3>1. step[c] = "marking" /\ step'[c] = "closing" /\ held = tree[p] \cup {Marker}
        BY <1>2, <2>6 DEF Mark, Goes, Adds
      <3> QED BY <2>2, <3>1 DEF Holds
    <2>7. Holds(p, step'[c], n, held) /\ step'[c] \in {"rendering", "registering", "chowning", "marking", "closing"}
      <3>1. step'[c] \in {"rendering", "registering", "chowning", "marking", "closing"}
        BY <1>2, <1>11 DEF WriteInfo, WriteRest, Register, Chowned, Mark, Goes
      <3> QED BY <1>11, <2>1, <2>3, <2>4, <2>5, <2>6, <3>1
    <2> QED BY <1>2, <2>1, <2>7, HeldIsPinned DEF CallSteps
  <1>12. CASE InstallFails(c)
    <2>1. /\ step[c] \in CallSteps \ {"idle", "deleting", "removing", "closing", "failing"}
          /\ step'[c] = "failing" /\ source' = source
      BY <1>2, <1>12 DEF InstallFails, Goes, Filling, CallSteps
    <2>2. held = tree[p] \/ held = tree[p] \cup {Directory, <<"partial">>}
      <3>1. \/ Adds(c, {})
            \/ Adds(c, {Directory, <<"partial">>})
        BY <1>12 DEF InstallFails
      <3>2. ASSUME NEW items, Adds(c, items) PROVE held = tree[p] \cup items
        <4>1. tree' = [tree EXCEPT ![p] = tree[p] \cup items]
          BY <3>2 DEF Adds
        <4> QED BY <1>2, <4>1
      <3>3. held = tree[p] \cup {} \/ held = tree[p] \cup {Directory, <<"partial">>}
        BY <3>1, <3>2
      <3> QED BY <3>3
    <2>3. Holds(p, step[c], n, tree[p])
      BY <1>5, <2>1 DEF RemovedResidue, Goes
    <2>4. HasPinned(tree[p], p) /\ Marker \notin tree[p]
      BY <1>2, <2>1, <2>3, HeldIsPinned
    <2>5. <<"partial">>[1] = "partial"
      OBVIOUS
    <2>6. HasPinned(held, p) /\ Marker \notin held
      BY <2>2, <2>4, <2>5, KindsOfItems DEF HasPinned
    <2> QED BY <2>1, <2>6 DEF Holds
  <1> QED BY <1>3, <1>4, <1>6, <1>7, <1>8, <1>9, <1>10, <1>11, <1>12 DEF Works

\* The steps that end a call; all others leave its outcome open.
LEMMA HowCallsEnd ==
  ASSUME CallInv, NEW c \in Calls, Works(c)
  PROVE  \/ Uninstalled(c) \/ DirectoryFails(c) \/ Close(c) \/ CloseFails(c) \/ UninstallFails(c)
         \/ step'[c] # "idle" /\ step[c] # "deleting" /\ outcome' = outcome
  <1> DEFINE p == pkg[c]
             n == source[c]
  <1>1. step[c] # "idle"
    BY OwnPackage
  <1>2. Sequential(p) /\ n \in Nat /\ step = [d \in Calls |-> step[d]]
    BY <1>1, AtWork DEF CallInv
  <1>3. CASE MakeDirectory(c)
    <2>1. After(p, 0) # "idle"
      BY <1>2, AfterSources
    <2> QED BY <1>2, <1>3, <2>1 DEF MakeDirectory, Goes
  <1>4. CASE Extract(c)
    <2> DEFINE m == IF n = 0 THEN 1 ELSE n
    <2>1. m \in Nat
      BY <1>2
    <2>2. After(p, m) # "idle"
      BY <1>2, <2>1, AfterSources
    <2> QED BY <1>2, <1>4, <2>2 DEF Extract, Goes
  <1>5. CASE AskIndex(c) \/ AskAgain(c) \/ FetchSource(c) \/ RunScript(c)
    BY <1>2, <1>5 DEF AskIndex, AskAgain, FetchSource, RunScript, Goes
  <1>6. CASE RemovedResidue(c) \/ WriteInfo(c) \/ WriteRest(c) \/ Register(c) \/ Chowned(c) \/ Mark(c)
    BY <1>2, <1>6 DEF RemovedResidue, WriteInfo, WriteRest, Register, Chowned, Mark, Goes
  <1>7. CASE InstallFails(c)
    BY <1>2, <1>7 DEF InstallFails, Goes, Filling
  <1> QED BY <1>3, <1>4, <1>5, <1>6, <1>7 DEF Works

\* A call that ends leaves what it has marked complete, but for archives that
\* it could not remove, and what it has not marked unmarked.
LEMMA EndsWhole ==
  ASSUME CallInv, TreeInv, NEW c \in Calls, Works(c), pkg[c] \notin raced', step'[c] = "idle"
  PROVE  /\ HasPinned(tree'[pkg[c]], pkg[c])
         /\ Marker \in tree'[pkg[c]] /\ pkg[c] \notin deleted' =>
                /\ Complete(pkg[c]) \subseteq tree'[pkg[c]]
                /\ tree'[pkg[c]] \subseteq Complete(pkg[c]) \cup (IF pkg[c] \in littered' THEN Archives(pkg[c])' ELSE {})
  <1> DEFINE p == pkg[c]
             n == source[c]
             held == tree'[p]
  <1>1. step[c] # "idle" /\ step' = [step EXCEPT ![c] = step'[c]] /\ pkg' = pkg
    BY OwnPackage
  <1>2. /\ p \in Packages /\ Sequential(p) /\ Knows(p, step[c], n) /\ n \in Nat
        /\ step = [d \in Calls |-> step[d]] /\ tree = [q \in Packages |-> tree[q]]
        /\ outcome = [d \in Calls |-> outcome[d]]
    BY <1>1, AtWork DEF CallInv
  <1>3. Uninstalled(c) \/ DirectoryFails(c) \/ Close(c) \/ CloseFails(c) \/ UninstallFails(c)
    BY HowCallsEnd
  <1>4. CASE Uninstalled(c)
    <2>1. held = {}
      BY <1>2, <1>4 DEF Uninstalled
    <2> QED BY <2>1 DEF HasPinned
  <1>5. ~Uninstalled(c) => ~RemovedResidue(c) /\ raced' = raced
    BY <1>2, <1>3 DEF DirectoryFails, Close, CloseFails, UninstallFails, RemovedResidue, Goes, Ends
  <1>6. ASSUME ~Uninstalled(c)
        PROVE  Holds(p, step[c], n, tree[p]) /\ HasPinned(tree[p], p) /\ (step[c] = "deleting" => p \in deleted)
    BY <1>5, <1>6, AloneThere
  <1>7. CASE DirectoryFails(c) \/ UninstallFails(c)
    <2>1. held = tree[p] /\ deleted' = deleted /\ step[c] \in {"removing", "making", "deleting"} /\ ~Uninstalled(c)
      BY <1>2, <1>7 DEF DirectoryFails, UninstallFails, Uninstalled, Ends
    <2> QED BY <1>6, <2>1 DEF Holds
  <1>8. CASE Close(c) \/ CloseFails(c)
    <2>1. step[c] \in {"closing", "failing"} /\ ~Uninstalled(c)
      BY <1>8 DEF Close, CloseFails, Uninstalled
    <2>2. PICK kept \in SUBSET Pushed(c) :
            held = (tree[p] \ Pushed(c)) \cup kept /\ (kept # {} => p \in littered')
      <3>1. CASE Close(c)
        <4>1. held = (tree[p] \ Pushed(c)) \cup {}
          BY <1>2, <3>1 DEF Close
        <4> QED BY <4>1
      <3>2. CASE CloseFails(c)
        BY <1>2, <3>2 DEF CloseFails
      <3> QED BY <1>8, <3>1, <3>2
    <2>3. Pushed(c) \subseteq Archives(p) /\ Archives(p) \subseteq tree[p]
      BY DEF Pushed, Archives
    <2>4. HasPinned(held, p)
      BY <1>6, <2>1, <2>2, <2>3 DEF HasPinned
    <2>5. CASE step[c] = "failing"
      BY <1>6, <2>1, <2>2, <2>3, <2>4, <2>5 DEF Holds
    <2>6. CASE step[c] = "closing"
      <3>1. tree[p] = Gathered(p, n) \cup Made(p) \cup {Info, Rendered, Marker} /\ All(p, n)
        BY <1>2, <1>6, <2>1, <2>6 DEF Holds, Knows
      <3>2. Pushed(c) = IF Plan(p) = "build" THEN {} ELSE {item \in {a \in tree[p] : a[1] = "archive"} : item[2] <= n}
        BY DEF Pushed, Archives
      <3>3. tree[p] \ Pushed(c) = Complete(p)
        BY <1>2, <3>1, <3>2, GatheredEnds
      <3>4. Archives(p)' = {item \in held : item[1] = "archive"}
        BY <1>1 DEF Archives
      <3>5. kept \subseteq Archives(p)'
        BY <2>2, <2>3, <3>4 DEF Archives
      <3>6. kept # {} => p \in littered'
        BY <2>2
      <3>7. held = Complete(p) \cup kept
        BY <2>2, <3>3
      <3> QED BY <2>4, <3>5, <3>6, <3>7
    <2> QED BY <2>1, <2>5, <2>6
  <1> QED BY <1>3, <1>4, <1>7, <1>8

LEMMA WorksTreeInv ==
  ASSUME CallInv, TreeInv, NEW c \in Calls, Works(c)
  PROVE  TreeInv'
  <1> DEFINE q == pkg[c]
  <1>1. /\ step[c] # "idle" /\ UNCHANGED <<config, pkg>>
        /\ step' = [step EXCEPT ![c] = step'[c]] /\ source' = [source EXCEPT ![c] = source'[c]]
        /\ tree' = [tree EXCEPT ![q] = tree'[q]] /\ raced' \subseteq raced
        /\ \A p : p # q => /\ p \in raced' <=> p \in raced
                           /\ p \in deleted' <=> p \in deleted
                           /\ p \in littered' <=> p \in littered
    BY OwnPackage
  <1>2. q \in Packages /\ Sequential(q) /\ step'[c] \in CallSteps \ {"removing", "deleting"}
    BY <1>1, AtWork, WhereTo
  <1>3. /\ step = [d \in Calls |-> step[d]] /\ source = [d \in Calls |-> source[d]] /\ tree = [p \in Packages |-> tree[p]]
    BY DEF CallInv
  <1> SUFFICES ASSUME NEW p \in Packages, p \notin raced' PROVE Undisturbed(p)'
    BY DEF TreeInv
  <1>4. CASE p # q
    <2>1. Undisturbed(p) /\ tree'[p] = tree[p]
      BY <1>1, <1>3, <1>4 DEF TreeInv
    <2>2. Working(p)' = Working(p) /\ \A d \in Working(p) : step'[d] = step[d] /\ source'[d] = source[d]
      BY <1>1, <1>3, <1>4 DEF Working
    <2>3. WholeOrClosing(p) => WholeOrClosing(p)'
      <3>1. Complete(p)' = Complete(p) /\ Archives(p)' = Archives(p)
        BY <1>1, <2>1, SameConfig DEF Archives
      <3>2. \A d \in Calls : step[d] = "closing" /\ pkg[d] = p => step'[d] = "closing" /\ pkg'[d] = p
        BY <1>1, <1>3, <1>4
      <3> QED BY <1>1, <1>4, <2>1, <3>1, <3>2 DEF WholeOrClosing
    <2>4. \A d \in Working(p)' : Holds(p, step[d], source[d], tree[p])'
      BY <1>1, <2>1, <2>2, SameConfig DEF Undisturbed
    <2>5. HasPinned(tree[p], p)'
      BY <1>1, <2>1, SameConfig DEF Undisturbed
    <2> QED BY <1>1, <1>4, <2>1, <2>2, <2>3, <2>4, <2>5 DEF Undisturbed
  <1>5. CASE p = q
    <2>1. Working(q) = {c}
      BY <1>5, AloneThere
    <2>2. \A d \in Working(q)' : d = c
      BY <1>1, <1>3, <2>1 DEF Working
    <2>3. HasPinned(tree'[q], q)
      BY <1>5, LeavesWhatItHolds, EndsWhole
    <2>4. step'[c] # "idle" => Holds(q, step'[c], source'[c], tree'[q])
      BY <1>5, LeavesWhatItHolds
    <2>5. \A d \in Working(q)' : step'[d] # "idle"
      BY DEF Working
    <2>6. \A d \in Working(q)' : Holds(q, step[d], source[d], tree[q])'
      <3>1. \A d \in Working(q)' : Holds(q, step'[d], source'[d], tree'[q])
        BY <2>2, <2>4, <2>5
      <3> QED BY <1>1, <3>1, SameConfig
    <2>7. q \notin deleted' => WholeOrClosing(q)'
      <3> SUFFICES ASSUME q \notin deleted', Marker \in tree'[q]
                   PROVE  WholeOrClosing(q)'
        BY <1>1 DEF WholeOrClosing
      <3>1. Complete(q)' = Complete(q)
        BY <1>1, SameConfig
      <3>2. CASE step'[c] = "idle"
        BY <1>1, <1>5, <3>1, <3>2, EndsWhole DEF WholeOrClosing
      <3>3. CASE step'[c] # "idle"
        <4>1. step'[c] = "closing"
          BY <1>2, <2>4, <3>3, HeldIsPinned
        <4> QED BY <1>1, <4>1 DEF WholeOrClosing
      <3> QED BY <3>2, <3>3
    <2>8. \A d \in Working(q)' : step'[d] # "deleting"
      BY <1>2, <2>2
    <2>9. HasPinned(tree[q], q)'
      BY <1>1, <2>3, SameConfig
    <2> QED BY <1>1, <1>5, <2>2, <2>6, <2>7, <2>8, <2>9 DEF Undisturbed
  <1> QED BY <1>4, <1>5


\* What leaves a package, its directory and its calls alone leaves it as it was.
LEMMA LeftAlone ==
  ASSUME CallInv, NEW p \in Packages, Undisturbed(p), config' = config, tree'[p] = tree[p],
         Working(p)' = Working(p),
         \A c \in Working(p) : step'[c] = step[c] /\ source'[c] = source[c],
         \A c \in Calls : step[c] = "closing" /\ pkg[c] = p => step'[c] = "closing" /\ pkg'[c] = p,
         p \in deleted' <=> p \in deleted, p \in littered' <=> p \in littered
  PROVE  Undisturbed(p)'
  <1>1. Complete(p)' = Complete(p) /\ Archives(p)' = Archives(p)
    BY SameConfig DEF Archives
  <1>2. WholeOrClosing(p) => WholeOrClosing(p)'
    BY <1>1 DEF WholeOrClosing
  <1>3. \A c \in Working(p)' : Holds(p, step[c], source[c], tree[p])'
    BY SameConfig DEF Undisturbed
  <1>4. HasPinned(tree[p], p)'
    BY SameConfig DEF Undisturbed
  <1> QED BY <1>2, <1>3, <1>4 DEF Undisturbed

LEMMA TreeInvInit == InstallInit => TreeInv
  <1> SUFFICES ASSUME InstallInit, NEW p \in Packages PROVE Undisturbed(p)
    BY DEF TreeInv
  <1> USE DEF InstallInit
  <1>1. PICK installed \in SUBSET IF Loads(Files) THEN {q \in Packages : Installable(q)} ELSE {} :
            tree = [q \in Packages |-> IF q \in installed THEN Complete(q) ELSE {}]
    OBVIOUS
  <1>2. Working(p) = {}
    BY DEF Working
  <1>3. CASE tree[p] = {}
    BY <1>2, <1>3 DEF Undisturbed, WholeOrClosing, HasPinned
  <1>4. CASE tree[p] # {}
    <2>1. tree[p] = Complete(p) /\ p \in Listed /\ Loads(Files)
      BY <1>1, <1>4 DEF Installable
    <2>2. HasPinned(Complete(p), p)
      BY <2>1, ListedIsSequential, CompleteIsPinned
    <2> QED BY <1>2, <2>1, <2>2 DEF Undisturbed, WholeOrClosing
  <1> QED BY <1>3, <1>4

LEMMA RequestTreeInv ==
  ASSUME CallInv, TreeInv, NEW c \in Calls, NEW q, Request(c, q)
  PROVE  TreeInv'
  <1> SUFFICES ASSUME NEW p \in Packages, p \notin raced' PROVE Undisturbed(p)'
    BY DEF TreeInv
  <1>1. step[c] = "idle" /\ UNCHANGED <<config, tree, source, littered>>
    BY RequestSteps
  <1>2. step = [d \in Calls |-> step[d]] /\ pkg = [d \in Calls |-> pkg[d]]
    BY DEF CallInv
  <1>3. CASE step' = step /\ UNCHANGED <<pkg, deleted, raced>>
    <2>1. Undisturbed(p) /\ Working(p)' = Working(p)
      BY <1>3 DEF TreeInv, Working
    <2> QED BY <1>1, <1>3, <2>1, LeftAlone
  <1>4. CASE ~(step' = step /\ UNCHANGED <<pkg, deleted, raced>>)
    <2>1. /\ q \in Packages /\ pkg' = [pkg EXCEPT ![c] = q] /\ step' = [step EXCEPT ![c] = step'[c]]
          /\ step'[c] \in {"removing", "making", "deleting"}
          /\ raced' = (IF Working(q) = {} THEN raced ELSE raced \cup {q})
          /\ step'[c] = "removing" => Marker \notin tree[q]
          /\ step'[c] = "making" => tree[q] = {}
          /\ deleted' = (IF step'[c] = "deleting" THEN deleted \cup {q} ELSE deleted)
      BY <1>4, RequestSteps
    <2>2. p \notin raced /\ Undisturbed(p)
      BY <2>1 DEF TreeInv
    <2>3. \A d \in Calls : step[d] = "closing" /\ pkg[d] = p => step'[d] = "closing" /\ pkg'[d] = p
      BY <1>1, <1>2, <2>1
    <2>4. CASE p # q
      <3>1. Working(p)' = Working(p) /\ \A d \in Working(p) : step'[d] = step[d]
        BY <1>1, <1>2, <2>1, <2>4 DEF Working
      <3> QED BY <1>1, <2>1, <2>2, <2>3, <2>4, <3>1, LeftAlone
    <2>5. CASE p = q
      <3>1. Working(p) = {}
        BY <2>1, <2>5
      <3>2. \A d \in Working(p)' : d = c
        BY <1>2, <2>1, <3>1 DEF Working
      <3>3. Holds(p, step'[c], source'[c], tree'[p])
        BY <1>1, <2>1, <2>5 DEF Holds
      <3>4. \A d \in Working(p)' : Holds(p, step[d], source[d], tree[p])'
        <4>1. \A d \in Working(p)' : Holds(p, step'[d], source'[d], tree'[p])
          BY <3>2, <3>3
        <4> QED BY <1>1, <4>1, SameConfig
      <3>5. HasPinned(tree[p], p)'
        BY <1>1, <2>2, SameConfig DEF Undisturbed
      <3>6. p \notin deleted' => WholeOrClosing(p)'
        <4>1. Complete(p)' = Complete(p) /\ Archives(p)' = Archives(p)
          BY <1>1, SameConfig DEF Archives
        <4> QED BY <1>1, <2>1, <2>2, <2>3, <4>1 DEF Undisturbed, WholeOrClosing
      <3>7. \A d \in Working(p)' : step'[d] = "deleting" => p \in deleted'
        BY <2>1, <2>5, <3>2
      <3> QED BY <3>2, <3>4, <3>5, <3>6, <3>7 DEF Undisturbed
    <2> QED BY <2>4, <2>5
  <1> QED BY <1>3, <1>4

LEMMA RemoveSomeTreeInv ==
  ASSUME CallInv, TreeInv, NEW c \in Calls, RemoveSome(c)
  PROVE  TreeInv'
  <1> SUFFICES ASSUME NEW p \in Packages, p \notin raced' PROVE Undisturbed(p)'
    BY DEF TreeInv
  <1>1. /\ step[c] \in {"removing", "deleting"} /\ pkg[c] \in Packages
        /\ UNCHANGED <<config, step, pkg, source, deleted, raced, littered>>
        /\ tree' = [tree EXCEPT ![pkg[c]] = tree'[pkg[c]]]
        /\ tree'[pkg[c]] \subseteq tree[pkg[c]]
    BY RemovesSome DEF calls, history
  <1>2. Undisturbed(p) /\ Working(p)' = Working(p) /\ tree = [q \in Packages |-> tree[q]]
    BY <1>1 DEF TreeInv, Working, CallInv
  <1>3. CASE p # pkg[c]
    <2>1. tree'[p] = tree[p]
      BY <1>1, <1>2, <1>3
    <2> QED BY <1>1, <1>2, <2>1, LeftAlone
  <1>4. CASE p = pkg[c]
    <2>1. c \in Working(p)
      BY <1>1, <1>4 DEF Working
    <2>2. \A d \in Working(p) : d = c
      BY <1>2, <2>1 DEF Undisturbed
    <2>3. Holds(p, step[c], source[c], tree[p]) /\ (step[c] = "deleting" => p \in deleted)
      BY <1>2, <2>1 DEF Undisturbed
    <2>4. step[c] = "removing" => Marker \notin tree'[p]
      BY <1>1, <1>4, <2>3 DEF Holds
    <2>5. Holds(p, step[c], source[c], tree'[p])
      BY <1>1, <2>4 DEF Holds
    <2>6. \A d \in Working(p)' : Holds(p, step[d], source[d], tree[p])'
      <3>1. \A d \in Working(p)' : Holds(p, step'[d], source'[d], tree'[p])
        BY <1>1, <1>2, <2>2, <2>5
      <3> QED BY <1>1, <3>1, SameConfig
    <2>7. HasPinned(tree[p], p)'
      <3>1. HasPinned(tree'[p], p)
        BY <1>1, <1>2, <1>4 DEF Undisturbed, HasPinned
      <3> QED BY <1>1, <3>1, SameConfig
    <2>8. p \notin deleted' => WholeOrClosing(p)'
      BY <1>1, <2>3, <2>4 DEF WholeOrClosing
    <2> QED BY <1>1, <1>2, <2>2, <2>3, <2>6, <2>7, <2>8 DEF Undisturbed
  <1> QED BY <1>3, <1>4

LEMMA CrashTreeInv ==
  ASSUME CallInv, TreeInv, Crash
  PROVE  TreeInv'
  <1> SUFFICES ASSUME NEW p \in Packages, p \notin raced' PROVE Undisturbed(p)'
    BY DEF TreeInv
  <1>1. /\ UNCHANGED <<config, tree, deleted>> /\ step' = [c \in Calls |-> "idle"]
        /\ raced' = {q \in raced : tree[q] # {}}
        /\ littered' = littered \cup {q \in Packages : \E c \in Calls : step[c] = "closing" /\ pkg[c] = q}
    BY DEF Crash
  <1>2. Working(p)' = {} /\ Complete(p)' = Complete(p) /\ Archives(p)' = Archives(p)
    BY <1>1, SameConfig DEF Working, Archives
  <1>3. CASE tree[p] = {}
    BY <1>1, <1>2, <1>3 DEF Undisturbed, WholeOrClosing, HasPinned
  <1>4. CASE p \notin raced
    <2>1. Undisturbed(p)
      BY <1>4 DEF TreeInv
    <2>2. HasPinned(tree[p], p)'
      BY <1>1, <2>1, SameConfig DEF Undisturbed
    <2>3. ASSUME NEW c \in Calls, step[c] = "closing", pkg[c] = p
          PROVE  Complete(p) \subseteq tree[p] /\ tree[p] \subseteq Complete(p) \cup Archives(p)
      <3>1. Sequential(p) /\ Knows(p, "closing", source[c]) /\ source[c] \in Nat /\ c \in Working(p)
        BY <2>3, AtWork DEF Working
      <3>2. All(p, source[c]) /\ Holds(p, "closing", source[c], tree[p])
        BY <2>1, <2>3, <3>1 DEF Knows, Undisturbed
      <3>3. tree[p] = Gathered(p, source[c]) \cup Made(p) \cup {Info, Rendered, Marker}
        BY <3>2 DEF Holds
      <3> QED BY <3>1, <3>2, <3>3, GatheredEnds DEF Archives
    <2>4. p \notin deleted' => WholeOrClosing(p)'
      <3>1. ASSUME p \notin deleted, Marker \in tree[p]
            PROVE  Complete(p) \subseteq tree[p] /\ tree[p] \subseteq Complete(p) \cup (IF p \in littered' THEN Archives(p) ELSE {})
        BY <1>1, <2>1, <2>3, <3>1 DEF Undisturbed, WholeOrClosing
      <3> QED BY <1>1, <1>2, <3>1 DEF WholeOrClosing
    <2> QED BY <1>2, <2>2, <2>4 DEF Undisturbed
  <1> QED BY <1>1, <1>3, <1>4

LEMMA TreeInvNext == CallInv /\ TreeInv /\ [Next]_vars => TreeInv'
  <1> SUFFICES ASSUME CallInv, TreeInv, [Next]_vars PROVE TreeInv'
    OBVIOUS
  <1>1. ASSUME UNCHANGED <<config, tree, step, pkg, source, deleted, raced, littered>>
        PROVE  TreeInv'
    <2> SUFFICES ASSUME NEW p \in Packages, p \notin raced PROVE Undisturbed(p)'
      BY <1>1 DEF TreeInv
    <2>1. Undisturbed(p) /\ Working(p)' = Working(p)
      BY <1>1 DEF TreeInv, Working
    <2> QED BY <1>1, <2>1, LeftAlone
  <1>2. CASE Boot
    BY <1>1, <1>2 DEF Boot, calls, history
  <1>3. CASE UNCHANGED installVars
    BY <1>1, <1>3 DEF installVars, calls, history
  <1> QED BY <1>2, <1>3, Steps, ProvisionAssumption, WorksTreeInv, RequestTreeInv, RemoveSomeTreeInv, CrashTreeInv

LEMMA TreeInvariant == Spec => [](CallInv /\ TreeInv)
  <1>1. Init => CallInv /\ TreeInv
    BY CallInvInit, TreeInvInit DEF Init
  <1> QED BY <1>1, CallInvNext, TreeInvNext, PTL DEF Spec

\* Whatever the network serves, whatever fails and whenever the server is
\* killed, what is unpacked into a directory is what the manifest or the index
\* pins, unless calls raced there (package.ts #fetch_source, #extract).
THEOREM OnlyPinnedIsUnpackedHolds == Spec => []OnlyPinnedIsUnpacked
  <1>1. TreeInv => OnlyPinnedIsUnpacked
    BY DEF TreeInv, Undisturbed, HasPinned, OnlyPinnedIsUnpacked
  <1> QED BY <1>1, TreeInvariant, PTL

\* A package with the marker that was left to one call at a time holds all that
\* an undisturbed install of it leaves, and nothing else but archives that could
\* not be removed, unless its removal was cut short (package.ts #install).
THEOREM InstalledIsCompleteHolds == Spec => []InstalledIsComplete
  <1>1. TreeInv => InstalledIsComplete
    BY DEF TreeInv, Undisturbed, WholeOrClosing, InstalledIsComplete, Installed, Working
  <1> QED BY <1>1, TreeInvariant, PTL

-------------------------------------------------------------------------------
(* Installs implement the calls of Packages *)

\* The variables of Packages as Install has them.
Coarse(at) == IF at \in {"asking", "fetching", "extracting", "build", "post_install"} THEN "fetching" ELSE at
AServer == IF server = "rejected" THEN "down" ELSE server
AStep == [c \in Calls |-> IF step[c] \in {"asking", "fetching", "extracting", "build", "post_install"}
                          THEN "fetching" ELSE step[c]]
APkg == [c \in Calls |-> IF pkg[c] = Undefined THEN "none" ELSE pkg[c]]
AFlight == [p \in Packages |-> "none"]
AExists == {p \in Packages : Directory \in tree[p]}
AInfo == {p \in Packages : Info \in tree[p]}
AMarker == {p \in Packages : Installed(p)}

\* A step of one call, which leaves `held` in its directory, seen from Packages.
Seen(c, to, held) ==
    LET q == pkg[c] IN
    /\ q \in Packages /\ APkg[c] = q /\ AStep[c] = Coarse(step[c])
    /\ AStep' = [AStep EXCEPT ![c] = Coarse(to)]
    /\ UNCHANGED <<AServer, APkg, AFlight>>
    /\ (Directory \in held <=> Directory \in tree[q]) => AExists' = AExists
    /\ (Info \in held <=> Info \in tree[q]) => AInfo' = AInfo
    /\ (Marker \in held <=> Marker \in tree[q]) => AMarker' = AMarker
    /\ Directory \in held => AExists' = AExists \cup {q}
    /\ IF Info \in held THEN AInfo' = AInfo \cup {q} ELSE AInfo' = AInfo \ {q}
    /\ IF Marker \in held THEN AMarker' = AMarker \cup {q} ELSE AMarker' = AMarker \ {q}
    /\ held = {} => AExists' = AExists \ {q}

LEMMA CallIsSeen ==
  ASSUME CallInv, NEW c \in Calls, Works(c) \/ RemoveSome(c)
  PROVE  /\ Seen(c, step'[c], tree'[pkg[c]])
         /\ P!Working(pkg[c]) = Working(pkg[c])
  <1> DEFINE q == pkg[c]
  <1>1. /\ step[c] # "idle" /\ UNCHANGED <<server, pkg>> /\ step' = [step EXCEPT ![c] = step'[c]]
        /\ tree' = [tree EXCEPT ![q] = tree'[q]]
    <2>1. CASE Works(c)
      BY <2>1, OwnPackage
    <2>2. CASE RemoveSome(c)
      <3>1. step' = step
        BY <2>2, RemovesSome DEF calls
      <3> QED BY <2>2, <3>1, RemovesSome DEF calls, CallInv
    <2> QED BY <2>1, <2>2
  <1>2. q \in Packages /\ q # Undefined
    BY <1>1, AtWork, InstallAssumption
  <1>3. step = [d \in Calls |-> step[d]] /\ tree = [p \in Packages |-> tree[p]]
    BY DEF CallInv
  <1>4. APkg[c] = q /\ AStep[c] = Coarse(step[c]) /\ UNCHANGED <<AServer, APkg, AFlight>>
    BY <1>1, <1>2 DEF APkg, AStep, Coarse, AServer, AFlight
  <1>5. AStep' = [AStep EXCEPT ![c] = Coarse(step'[c])]
    BY <1>1, <1>3 DEF AStep, Coarse
  <1>6. \A p \in Packages \ {q} : tree'[p] = tree[p]
    BY <1>1, <1>3
  <1>7. /\ \A p : p # q => /\ p \in AExists' <=> p \in AExists
                           /\ p \in AInfo' <=> p \in AInfo
                           /\ p \in AMarker' <=> p \in AMarker
        /\ q \in AExists <=> Directory \in tree[q]
        /\ q \in AExists' <=> Directory \in tree'[q]
        /\ q \in AInfo <=> Info \in tree[q]
        /\ q \in AInfo' <=> Info \in tree'[q]
        /\ q \in AMarker <=> Marker \in tree[q]
        /\ q \in AMarker' <=> Marker \in tree'[q]
    BY <1>2, <1>6 DEF AExists, AInfo, AMarker, Installed
  <1>8. P!Working(q) = Working(q)
    <2>1. \A d \in Calls : step[d] # "idle" => pkg[d] \in Packages /\ pkg[d] # Undefined
      BY AtWork, InstallAssumption
    <2>2. P!Working(q) = {d \in Calls : AStep[d] # "idle" /\ APkg[d] = q}
      BY DEF P!Working, AStep, APkg
    <2>3. \A d \in Calls : (AStep[d] # "idle" <=> step[d] # "idle") /\ (step[d] # "idle" => APkg[d] = pkg[d])
      BY <2>1 DEF AStep, APkg
    <2> QED BY <2>2, <2>3 DEF Working
  <1> HIDE DEF q
  <1>9. /\ (Directory \in tree'[q] <=> Directory \in tree[q]) => AExists' = AExists
        /\ (Info \in tree'[q] <=> Info \in tree[q]) => AInfo' = AInfo
        /\ (Marker \in tree'[q] <=> Marker \in tree[q]) => AMarker' = AMarker
        /\ Directory \in tree'[q] => AExists' = AExists \cup {q}
        /\ IF Info \in tree'[q] THEN AInfo' = AInfo \cup {q} ELSE AInfo' = AInfo \ {q}
        /\ IF Marker \in tree'[q] THEN AMarker' = AMarker \cup {q} ELSE AMarker' = AMarker \ {q}
        /\ tree'[q] = {} => AExists' = AExists \ {q}
    BY <1>7
  <1>10. Seen(c, step'[c], tree'[q])
    BY <1>2, <1>4, <1>5, <1>9 DEF Seen, q
  <1> QED BY <1>8, <1>10 DEF q

\* What Packages sees of a directory.
LEMMA Marks ==
  /\ Directory[1] = "." /\ Info[1] = "pkg-info.json" /\ Marker[1] = ".ppman-installed" /\ Rendered[1] = "rendered"
  /\ \A p : \A item \in Archives(p) : item[1] = "archive"
  BY DEF Directory, Info, Marker, Rendered, Archives

\* Steps that begin to fill the directory, or go on filling it.
LEMMA FetchingMaps ==
  ASSUME CallInv, NEW c \in Calls,
         AskIndex(c) \/ AskAgain(c) \/ FetchSource(c) \/ Extract(c) \/ RunScript(c)
  PROVE  P!Fetched(c) \/ P!InstallFails(c)
  <1> DEFINE q == pkg[c]
             n == source[c]
             held == tree'[q]
             to == step'[c]
  <1>1. Works(c) /\ Seen(c, to, held)
    BY CallIsSeen DEF Works
  <1>2. step[c] # "idle" /\ q \in Packages /\ Sequential(q) /\ n \in Nat /\ step = [d \in Calls |-> step[d]]
        /\ tree = [p \in Packages |-> tree[p]] /\ Rooted(tree[q])
    BY <1>1, OwnPackage, AtWork DEF CallInv
  <1>3. /\ Coarse(step[c]) = "fetching" /\ Coarse(to) \in {"fetching", "writing", "failing"}
        /\ UNCHANGED <<runtimes, deleted, raced, halfway>>
    <2>1. CASE AskIndex(c) \/ AskAgain(c) \/ FetchSource(c) \/ RunScript(c)
      BY <1>2, <2>1 DEF AskIndex, AskAgain, FetchSource, RunScript, Goes, Coarse
    <2>2. CASE Extract(c)
      <3> DEFINE m == IF n = 0 THEN 1 ELSE n
      <3>1. m \in Nat /\ m > 0
        BY <1>2
      <3>2. After(q, m) \in {"fetching", "build", "post_install", "writing"}
        BY <1>2, <3>1, AfterSources
      <3>3. step[c] = "extracting" /\ to = After(q, m) /\ UNCHANGED <<runtimes, deleted, raced, halfway>>
        BY <1>2, <2>2 DEF Extract, Goes
      <3> HIDE DEF to, m
      <3> QED BY <3>2, <3>3 DEF Coarse
    <2> QED BY <2>1, <2>2
  <1>4. /\ Info \in held <=> Info \in tree[q]
        /\ Marker \in held <=> Marker \in tree[q]
        /\ (Directory \in held <=> Directory \in tree[q]) \/ Directory \in held
    <2>1. CASE AskIndex(c) \/ AskAgain(c)
      BY <2>1 DEF AskIndex, AskAgain
    <2>2. CASE FetchSource(c)
      <3>1. PICK digest : held = (tree[q] \ ArchivesOf(q, n)) \cup {<<"archive", n, digest>>}
        BY <1>2, <2>2 DEF FetchSource, Stores
      <3> DEFINE archive == <<"archive", n, digest>>
      <3>2. archive[1] = "archive" /\ held = (tree[q] \ ArchivesOf(q, n)) \cup {archive}
        BY <3>1
      <3> HIDE DEF archive
      <3> QED BY <3>2, Marks DEF ArchivesOf
    <2>3. CASE Extract(c)
      <3> DEFINE content == {<<"content", a[2], a[3]>> : a \in ArchivesOf(q, n)}
      <3>1. held = (IF Plan(q) = "build" THEN tree[q] \ ArchivesOf(q, n) ELSE tree[q]) \cup content
        BY <1>2, <2>3 DEF Extract
      <3>2. \A item \in content : item[1] = "content"
        OBVIOUS
      <3> HIDE DEF content
      <3> QED BY <3>1, <3>2, Marks DEF ArchivesOf
    <2>4. CASE RunScript(c)
      <3>1. PICK script : held = tree[q] \cup {Directory, <<"made", script>>}
        BY <1>2, <2>4 DEF RunScript, Adds
      <3> DEFINE made == <<"made", script>>
      <3>2. made[1] = "made" /\ held = tree[q] \cup {Directory, made}
        BY <3>1
      <3> HIDE DEF made
      <3> QED BY <3>2, Marks
    <2> QED BY <2>1, <2>2, <2>3, <2>4
  <1> HIDE DEF held, to
  <1>5. /\ AExists' \in {AExists, AExists \cup {q}} /\ AInfo' = AInfo /\ AMarker' = AMarker
        /\ AStep[c] = "fetching" /\ AStep' = [AStep EXCEPT ![c] = Coarse(to)]
        /\ UNCHANGED <<AServer, APkg, AFlight>> /\ APkg[c] = q
    BY <1>1, <1>3, <1>4 DEF Seen
  <1> HIDE DEF q
  <1>6. CASE Coarse(to) = "failing"
    <2>1. P!InstallFails(c)
      BY <1>3, <1>5, <1>6
      DEF P!InstallFails, P!Goes, AStep, APkg, AServer, AFlight, AExists, AInfo, AMarker
    <2> QED BY <2>1
  <1>7. CASE Coarse(to) # "failing"
    <2>1. P!Fetched(c)
      BY <1>3, <1>5, <1>7
      DEF P!Fetched, P!Goes, P!history, AStep, APkg, AServer, AFlight, AExists, AInfo, AMarker
    <2> QED BY <2>1
  <1> QED BY <1>6, <1>7

\* The steps that make the directory and write what Packages sees in it.
LEMMA FillingMaps ==
  ASSUME CallInv, NEW c \in Calls,
         MakeDirectory(c) \/ WriteInfo(c) \/ WriteRest(c) \/ Register(c) \/ Chowned(c) \/ Mark(c)
  PROVE  P!MakeDirectory(c) \/ P!WriteInfo(c) \/ P!WriteRest(c) \/ P!Register(c) \/ P!Chowned(c) \/ P!Mark(c)
  <1> DEFINE q == pkg[c]
             held == tree'[q]
             to == step'[c]
  <1>1. Works(c) /\ Seen(c, to, held)
    BY CallIsSeen DEF Works
  <1>2. q \in Packages /\ Sequential(q) /\ step = [d \in Calls |-> step[d]] /\ tree = [p \in Packages |-> tree[p]]
    BY <1>1, OwnPackage, AtWork DEF CallInv
  <1>3. /\ q \in AExists <=> Directory \in tree[q]
        /\ q \in AInfo <=> Info \in tree[q]
    BY <1>2 DEF AExists, AInfo
  <1> HIDE DEF held, to
  <1> USE DEF Coarse
  <1>4. CASE MakeDirectory(c)
    <2>1. After(q, 0) \in {"asking", "fetching", "build", "post_install"}
      BY <1>2, AfterSources
    <2>2. /\ step[c] = "making" /\ Coarse(to) = "fetching" /\ held = tree[q] \cup {Directory}
          /\ UNCHANGED <<runtimes, deleted, halfway, raced>>
      BY <1>2, <1>4, <2>1 DEF MakeDirectory, Goes, Adds, held, to
    <2>3. AExists' = AExists \cup {q} /\ AInfo' = AInfo /\ AMarker' = AMarker
          /\ AStep[c] = "making" /\ AStep' = [AStep EXCEPT ![c] = "fetching"]
          /\ UNCHANGED <<AServer, APkg, AFlight>> /\ APkg[c] = q
      BY <1>1, <2>2, Marks DEF Seen
    <2> HIDE DEF q
    <2>4. P!MakeDirectory(c)
      BY <2>2, <2>3
      DEF P!MakeDirectory, P!Goes, P!history, AStep, APkg, AServer, AFlight, AExists, AInfo, AMarker
    <2> QED BY <2>4
  <1>5. CASE WriteInfo(c)
    <2>1. /\ step[c] = "writing" /\ to = "rendering" /\ held = tree[q] \cup {Directory, Info}
          /\ UNCHANGED <<runtimes, deleted, halfway, raced>>
      BY <1>2, <1>5 DEF WriteInfo, Goes, Adds, held, to
    <2>2. AExists' = AExists \cup {q} /\ AInfo' = AInfo \cup {q} /\ AMarker' = AMarker
          /\ AStep[c] = "writing" /\ AStep' = [AStep EXCEPT ![c] = "rendering"]
          /\ UNCHANGED <<AServer, APkg, AFlight>> /\ APkg[c] = q
      BY <1>1, <2>1, Marks DEF Seen
    <2> HIDE DEF q
    <2>3. P!WriteInfo(c)
      BY <2>1, <2>2
      DEF P!WriteInfo, P!Goes, P!history, AStep, APkg, AServer, AFlight, AExists, AInfo, AMarker
    <2> QED BY <2>3
  <1>6. CASE WriteRest(c)
    <2>1. /\ step[c] = "rendering" /\ to = "registering" /\ held = tree[q] \cup {Directory, Rendered}
          /\ UNCHANGED <<runtimes, deleted, halfway, raced>>
      BY <1>2, <1>6 DEF WriteRest, Goes, Adds, held, to
    <2>2. AExists' = AExists \cup {q} /\ AInfo' = AInfo /\ AMarker' = AMarker
          /\ AStep[c] = "rendering" /\ AStep' = [AStep EXCEPT ![c] = "registering"]
          /\ UNCHANGED <<AServer, APkg, AFlight>> /\ APkg[c] = q
      BY <1>1, <2>1, Marks DEF Seen
    <2> HIDE DEF q
    <2>3. P!WriteRest(c)
      BY <2>1, <2>2
      DEF P!WriteRest, P!Goes, P!history, AStep, APkg, AServer, AFlight, AExists, AInfo, AMarker
    <2> QED BY <2>3
  <1>7. CASE Register(c)
    <2>1. /\ step[c] = "registering" /\ to = "chowning" /\ held = tree[q] /\ q \in AInfo
          /\ runtimes[q] < MaxRegistered /\ runtimes' = [runtimes EXCEPT ![q] = @ + 1]
          /\ UNCHANGED <<deleted, halfway, raced>>
      BY <1>2, <1>3, <1>7 DEF Register, Goes, held, to
    <2>2. UNCHANGED <<AExists, AInfo, AMarker>>
          /\ AStep[c] = "registering" /\ AStep' = [AStep EXCEPT ![c] = "chowning"]
          /\ UNCHANGED <<AServer, APkg, AFlight>> /\ APkg[c] = q
      BY <1>1, <2>1 DEF Seen
    <2> HIDE DEF q
    <2>3. P!Register(c)
      BY <2>1, <2>2
      DEF P!Register, P!Goes, P!disk, P!history, AStep, APkg, AServer, AFlight, AExists, AInfo, AMarker
    <2> QED BY <2>3
  <1>8. CASE Chowned(c)
    <2>1. /\ step[c] = "chowning" /\ to = "marking" /\ held = tree[q]
          /\ UNCHANGED <<runtimes, deleted, halfway, raced>>
      BY <1>2, <1>8 DEF Chowned, Goes, held, to
    <2>2. UNCHANGED <<AExists, AInfo, AMarker>>
          /\ AStep[c] = "chowning" /\ AStep' = [AStep EXCEPT ![c] = "marking"]
          /\ UNCHANGED <<AServer, APkg, AFlight>> /\ APkg[c] = q
      BY <1>1, <2>1 DEF Seen
    <2> HIDE DEF q
    <2>3. P!Chowned(c)
      BY <2>1, <2>2
      DEF P!Chowned, P!Goes, P!disk, P!history, AStep, APkg, AServer, AFlight, AExists, AInfo, AMarker
    <2> QED BY <2>3
  <1>9. CASE Mark(c)
    <2>1. /\ step[c] = "marking" /\ to = "closing" /\ held = tree[q] \cup {Marker} /\ q \in AExists
          /\ UNCHANGED <<runtimes, deleted, halfway, raced>>
      BY <1>2, <1>3, <1>9 DEF Mark, Goes, Adds, held, to
    <2>2. UNCHANGED <<AExists, AInfo>> /\ AMarker' = AMarker \cup {q}
          /\ AStep[c] = "marking" /\ AStep' = [AStep EXCEPT ![c] = "closing"]
          /\ UNCHANGED <<AServer, APkg, AFlight>> /\ APkg[c] = q
      BY <1>1, <2>1, Marks DEF Seen
    <2> HIDE DEF q
    <2>3. P!Mark(c)
      BY <2>1, <2>2
      DEF P!Mark, P!Goes, P!history, AStep, APkg, AServer, AFlight, AExists, AInfo, AMarker
    <2> QED BY <2>3
  <1> QED BY <1>4, <1>5, <1>6, <1>7, <1>8, <1>9

\* The steps that leave what Packages sees of the directory as it is.
LEMMA EndingMaps ==
  ASSUME CallInv, NEW c \in Calls,
         InstallFails(c) \/ Close(c) \/ CloseFails(c) \/ DirectoryFails(c) \/ UninstallFails(c)
  PROVE  P!InstallFails(c) \/ P!InstallEnds(c) \/ P!DirectoryFails(c) \/ P!UninstallFails(c)
  <1> DEFINE q == pkg[c]
             held == tree'[q]
             to == step'[c]
  <1>1. Works(c) /\ Seen(c, to, held)
    BY CallIsSeen DEF Works
  <1>2. q \in Packages /\ step = [d \in Calls |-> step[d]] /\ tree = [p \in Packages |-> tree[p]]
    BY <1>1, OwnPackage, AtWork DEF CallInv
  <1>3. AFlight' = [p \in Packages |-> IF AFlight[p] = c THEN "none" ELSE AFlight[p]]
    BY DEF AFlight
  <1>4. q \in AInfo <=> Info \in tree[q]
    BY <1>2 DEF AInfo
  <1> HIDE DEF held, to
  <1>5. CASE InstallFails(c)
    <2>1. PICK from \in Filling \cup {"registering", "chowning", "marking"} :
            /\ step[c] = from /\ to = "failing"
            /\ from = "registering" => Info \notin tree[q]
            /\ held = tree[q] \cup (IF from \in Filling THEN {Directory, <<"partial">>} ELSE {})
            /\ halfway' = IF from \in {"chowning", "marking"} THEN halfway \cup {q} ELSE halfway
            /\ UNCHANGED <<runtimes, deleted, raced>>
      BY <1>2, <1>5 DEF InstallFails, Goes, Adds, held, to
    <2> DEFINE partial == <<"partial">>
    <2>2. partial[1] = "partial"
      OBVIOUS
    <2>3. held = tree[q] \/ (from \in Filling /\ held = tree[q] \cup {Directory, partial})
      BY <2>1
    <2> HIDE DEF partial
    <2>4. AInfo' = AInfo /\ AMarker' = AMarker /\ AExists' \in {AExists, IF from \in Filling THEN AExists \cup {q} ELSE AExists}
      BY <1>1, <2>2, <2>3, Marks DEF Seen
    <2>5. AStep[c] = Coarse(from) /\ AStep' = [AStep EXCEPT ![c] = "failing"]
          /\ UNCHANGED <<AServer, APkg, AFlight>> /\ APkg[c] = q
      BY <1>1, <2>1 DEF Seen, Coarse
    <2>6. /\ from \in Filling => Coarse(from) \in {"fetching", "writing", "rendering"}
          /\ from \notin Filling => Coarse(from) = from
          /\ from \in {"registering", "chowning", "marking"} => from \notin Filling
      BY <2>1 DEF Filling, Coarse
    <2>7. AStep[c] \in {"chowning", "marking"} <=> from \in {"chowning", "marking"}
      BY <2>1, <2>5, <2>6 DEF Filling
    <2>8. \/ AStep[c] \in {"fetching", "writing", "rendering"}
          \/ AStep[c] \in {"chowning", "marking"}
          \/ AStep[c] = "registering" /\ q \notin AInfo
      BY <1>4, <2>1, <2>5, <2>6
    <2>9. AExists' \in {AExists, IF AStep[c] \in {"fetching", "writing", "rendering"} THEN AExists \cup {q} ELSE AExists}
      BY <2>4, <2>5, <2>6
    <2>10. halfway' = IF AStep[c] \in {"chowning", "marking"} THEN halfway \cup {q} ELSE halfway
      BY <2>1, <2>7
    <2>11. UNCHANGED <<runtimes, deleted, raced>>
      BY <2>1
    <2>12. AStep' = [AStep EXCEPT ![c] = "failing"] /\ UNCHANGED <<AServer, APkg, AFlight>> /\ APkg[c] = q
           /\ AInfo' = AInfo /\ AMarker' = AMarker
      BY <2>4, <2>5
    <2> HIDE DEF q
    <2>13. P!InstallFails(c)
      BY <2>8, <2>9, <2>10, <2>11, <2>12
      DEF P!InstallFails, P!Goes, AStep, APkg, AServer, AFlight, AExists, AInfo, AMarker
    <2> QED BY <2>13
  <1>6. CASE ~InstallFails(c)
    <2>1. /\ to = "idle" /\ step[c] \in {"closing", "failing", "removing", "making", "deleting"}
          /\ UNCHANGED <<runtimes, deleted, halfway, raced>>
          /\ step[c] \in {"closing", "failing"} \/ held = tree[q]
      BY <1>2, <1>6 DEF Close, CloseFails, DirectoryFails, UninstallFails, Ends, held, to
    <2>2. (Directory \in held <=> Directory \in tree[q]) /\ (Info \in held <=> Info \in tree[q])
          /\ (Marker \in held <=> Marker \in tree[q])
      <3>1. CASE Close(c) \/ CloseFails(c)
        <4>1. PICK kept \in SUBSET Pushed(c) : held = (tree[q] \ Pushed(c)) \cup kept
          <5>1. CASE Close(c)
            <6>1. held = (tree[q] \ Pushed(c)) \cup {}
              BY <1>2, <5>1 DEF Close, held
            <6> QED BY <6>1
          <5>2. CASE CloseFails(c)
            BY <1>2, <5>2 DEF CloseFails, held
          <5> QED BY <3>1, <5>1, <5>2
        <4>2. Pushed(c) \subseteq Archives(q)
          BY DEF Pushed
        <4> QED BY <4>1, <4>2, Marks
      <3>2. CASE DirectoryFails(c) \/ UninstallFails(c)
        BY <3>2 DEF DirectoryFails, UninstallFails, held
      <3> QED BY <1>6, <3>1, <3>2
    <2>3. AStep[c] = step[c] /\ AStep' = [AStep EXCEPT ![c] = "idle"]
          /\ UNCHANGED <<AServer, APkg, AExists, AInfo, AMarker>>
      BY <1>1, <2>1, <2>2 DEF Seen, Coarse
    <2> HIDE DEF q
    <2>4. P!InstallEnds(c) \/ P!DirectoryFails(c) \/ P!UninstallFails(c)
      BY <1>3, <2>1, <2>3
      DEF P!InstallEnds, P!DirectoryFails, P!UninstallFails, P!Ends, P!None, P!disk, P!history,
          AStep, APkg, AServer, AFlight, AExists, AInfo, AMarker
    <2> QED BY <2>4
  <1> QED BY <1>5, <1>6

\* The steps that remove the directory.
LEMMA RemovingMaps ==
  ASSUME CallInv, NEW c \in Calls, RemovedResidue(c) \/ Uninstalled(c) \/ RemoveSome(c)
  PROVE  P!RemovedResidue(c) \/ P!Uninstalled(c) \/ P!RemoveSome(c)
  <1> DEFINE q == pkg[c]
             held == tree'[q]
             to == step'[c]
  <1>1. Seen(c, to, held) /\ P!Working(q) = Working(q)
    BY CallIsSeen DEF Works
  <1>2. step[c] # "idle"
    BY DEF RemovedResidue, Uninstalled, RemoveSome, Goes
  <1>3. q \in Packages /\ step = [d \in Calls |-> step[d]] /\ tree = [p \in Packages |-> tree[p]] /\ APkg[c] = q
    BY <1>1, <1>2, AtWork DEF CallInv, Seen
  <1>4. AFlight' = [p \in Packages |-> IF AFlight[p] = c THEN "none" ELSE AFlight[p]]
    BY DEF AFlight
  <1> HIDE DEF held, to
  <1>5. CASE RemovedResidue(c) \/ Uninstalled(c)
    <2>1. /\ held = {} /\ runtimes' = runtimes
          /\ (step[c] = "removing" /\ to = "making") \/ (step[c] = "deleting" /\ to = "idle")
      <3>1. CASE RemovedResidue(c)
        BY <1>3, <3>1 DEF RemovedResidue, Goes, held, to
      <3>2. CASE Uninstalled(c)
        BY <1>3, <3>2 DEF Uninstalled, Ends, held, to
      <3> QED BY <1>5, <3>1, <3>2
    <2>2. AExists' = AExists \ {q} /\ AInfo' = AInfo \ {q} /\ AMarker' = AMarker \ {q}
          /\ AStep[c] = step[c] /\ AStep' = [AStep EXCEPT ![c] = to] /\ UNCHANGED <<AServer, APkg, AFlight>>
      BY <1>1, <2>1 DEF Seen, Coarse
    <2>3. P!Gone(APkg[c])
      BY <1>3, <2>2 DEF P!Gone, AExists, AInfo, AMarker
    <2>4. P!Cleared(c)
      <3>1. Cleared(c)
        BY <1>5 DEF RemovedResidue, Uninstalled
      <3>2. /\ deleted' = deleted \ {q}
            /\ IF P!Working(q) = {c} /\ runtimes[q] = 0
                 THEN raced' = raced \ {q} /\ halfway' = halfway \ {q}
                 ELSE UNCHANGED <<raced, halfway>>
        BY <1>1, <3>1 DEF Cleared
      <3>3. P!Cleared(c) <=>
                /\ deleted' = deleted \ {APkg[c]}
                /\ IF P!Working(APkg[c]) = {c} /\ runtimes[APkg[c]] = 0
                     THEN raced' = raced \ {APkg[c]} /\ halfway' = halfway \ {APkg[c]}
                     ELSE UNCHANGED <<raced, halfway>>
        BY DEF P!Cleared, APkg
      <3>4. APkg[c] = q
        BY <1>3
      <3> HIDE DEF q
      <3> QED BY <3>2, <3>3, <3>4
    <2> HIDE DEF q
    <2>5. step[c] = "removing" => P!RemovedResidue(c)
      <3> USE DEF AStep, APkg, AServer, AFlight
      <3>1. step[c] = "removing" => P!Goes(c, "removing", "making")
        BY <2>1, <2>2 DEF P!Goes
      <3> QED BY <2>1, <2>3, <2>4, <3>1 DEF P!RemovedResidue
    <2>6. step[c] = "deleting" => P!Uninstalled(c)
      <3> USE DEF AStep, APkg, AServer, AFlight
      <3>1. step[c] = "deleting" => P!Ends(c)
        BY <1>4, <2>1, <2>2 DEF P!Ends, P!None
      <3>2. step[c] = "deleting" => AStep[c] = "deleting"
        BY <2>2
      <3> QED BY <2>1, <2>3, <2>4, <3>1, <3>2 DEF P!Uninstalled
    <2> QED BY <2>1, <2>5, <2>6
  <1>6. CASE RemoveSome(c)
    <2>1. /\ step[c] \in {"removing", "deleting"} /\ to = step[c]
          /\ UNCHANGED <<server, runtimes, step, pkg, deleted, halfway, raced>>
          /\ held \subseteq tree[q] /\ (Directory \in held <=> Directory \in tree[q])
      BY <1>6, RemovesSome DEF calls, history, held, to
    <2>2. UNCHANGED <<AServer, AStep, APkg, AFlight>>
      BY <2>1 DEF AServer, AStep, APkg, AFlight
    <2>3. AExists' = AExists /\ AInfo' \in {AInfo, AInfo \ {q}} /\ AMarker' \in {AMarker, AMarker \ {q}}
      BY <1>1, <2>1 DEF Seen
    <2>4. AStep[c] \in {"removing", "deleting"}
      BY <1>1, <2>1 DEF Seen, Coarse
    <2> HIDE DEF q
    <2>5. P!RemoveSome(c)
      BY <1>3, <2>1, <2>2, <2>3, <2>4
      DEF P!RemoveSome, P!history, AStep, APkg, AServer, AFlight, AExists, AInfo, AMarker
    <2> QED BY <2>5
  <1> QED BY <1>5, <1>6

LEMMA WorksMaps ==
  ASSUME CallInv, NEW c \in Calls, Works(c) \/ RemoveSome(c)
  PROVE  P!Next
  <1>1. \/ P!MakeDirectory(c) \/ P!WriteInfo(c) \/ P!WriteRest(c) \/ P!Register(c) \/ P!Chowned(c) \/ P!Mark(c)
        \/ P!InstallFails(c) \/ P!InstallEnds(c) \/ P!DirectoryFails(c) \/ P!UninstallFails(c)
        \/ P!RemovedResidue(c) \/ P!Uninstalled(c) \/ P!RemoveSome(c) \/ P!Fetched(c)
    BY FillingMaps, EndingMaps, RemovingMaps, FetchingMaps DEF Works
  <1> QED BY <1>1 DEF P!Next

LEMMA NothingMaps ==
  ASSUME UNCHANGED <<tree, step, pkg, runtimes, deleted, halfway, raced>>, AServer' = AServer
  PROVE  UNCHANGED P!vars
  <1>1. UNCHANGED <<AStep, APkg, AFlight, AExists, AInfo, AMarker>>
    BY DEF AStep, APkg, AFlight, AExists, AInfo, AMarker, Installed
  <1> QED BY <1>1 DEF P!vars, P!disk, P!history, AStep, APkg, AServer, AFlight, AExists, AInfo, AMarker

LEMMA RequestMaps ==
  ASSUME CallInv, NEW c \in Calls, NEW p, Request(c, p)
  PROVE  [P!Next]_(P!vars)
  <1>1. step[c] = "idle" /\ UNCHANGED <<config, server, tree>> /\ AServer' = AServer
    BY RequestSteps DEF AServer
  <1>2. step = [d \in Calls |-> step[d]] /\ pkg = [d \in Calls |-> pkg[d]]
    BY DEF CallInv
  <1>3. CASE step' = step /\ UNCHANGED <<pkg, runtimes, deleted, halfway, raced>>
    BY <1>1, <1>3, NothingMaps
  <1>4. CASE StartInstall(c, p) \/ StartUninstall(c, p)
    <2>1. server = "up" /\ p \in Listed /\ p \in Packages /\ p # Undefined
      BY <1>4, InstallAssumption DEF StartInstall, StartUninstall, Begins, Listed
    <2>2. /\ AServer = "up" /\ AStep[c] = "idle" /\ UNCHANGED <<AFlight, AExists, AInfo, AMarker>>
          /\ APkg' = [APkg EXCEPT ![c] = p]
      <3>1. pkg' = [pkg EXCEPT ![c] = p]
        BY <1>4 DEF StartInstall, StartUninstall, Begins
      <3> QED BY <1>1, <1>2, <2>1, <3>1 DEF AServer, AStep, AFlight, AExists, AInfo, AMarker, APkg, Installed
    <2>3. P!Working(p) = Working(p)
      <3>1. \A d \in Calls : step[d] # "idle" => pkg[d] \in Packages /\ pkg[d] # Undefined
        BY AtWork, InstallAssumption
      <3>2. P!Working(p) = {d \in Calls : AStep[d] # "idle" /\ APkg[d] = p}
        BY DEF P!Working, AStep, APkg
      <3>3. \A d \in Calls : (AStep[d] # "idle" <=> step[d] # "idle") /\ (step[d] # "idle" => APkg[d] = pkg[d])
        BY <3>1 DEF AStep, APkg
      <3> QED BY <3>2, <3>3 DEF Working
    <2>4. raced' = IF P!Working(p) = {} THEN raced ELSE raced \cup {p}
      BY <1>4, <2>3 DEF StartInstall, StartUninstall, Begins
    <2>5. CASE StartInstall(c, p)
      <3>1. tree[p] = {} <=> p \notin AExists
        BY <2>1 DEF AExists, CallInv, Rooted
      <3>2. AStep' = [AStep EXCEPT ![c] = IF p \in AExists THEN "removing" ELSE "making"]
        BY <1>2, <2>5, <3>1 DEF StartInstall, Begins, AStep
      <3>3. p \notin AMarker /\ UNCHANGED <<runtimes, deleted, halfway>>
        BY <2>5 DEF StartInstall, AMarker
      <3>4. P!StartInstall(c, p, "sync")
        BY <1>1, <2>2, <2>4, <3>2, <3>3
        DEF P!StartInstall, P!Begins, P!Admit, P!Installed, P!disk, AStep, APkg, AServer, AFlight, AExists, AInfo, AMarker
      <3> QED BY <2>1, <3>4 DEF P!Next
    <2>6. CASE StartUninstall(c, p)
      <3>1. AStep' = [AStep EXCEPT ![c] = "deleting"]
        BY <1>2, <2>6 DEF StartUninstall, Begins, AStep
      <3>2. runtimes[p] > 0 /\ runtimes' = [runtimes EXCEPT ![p] = 0] /\ deleted' = deleted \cup {p} /\ halfway' = halfway \ {p}
        BY <2>6 DEF StartUninstall
      <3>3. P!StartUninstall(c, p, "sync")
        BY <1>1, <2>2, <2>4, <3>1, <3>2
        DEF P!StartUninstall, P!Begins, P!Admit, P!disk, AStep, APkg, AServer, AFlight, AExists, AInfo, AMarker
      <3> QED BY <2>1, <3>3 DEF P!Next
    <2> QED BY <1>4, <2>5, <2>6
  <1>5. RefuseInstall(c, p) \/ RefuseUninstall(c, p) \/ Unreachable(c) =>
            step' = step /\ UNCHANGED <<pkg, runtimes, deleted, halfway, raced>>
    BY DEF RefuseInstall, RefuseUninstall, Unreachable, Refused, history
  <1> QED BY <1>3, <1>4, <1>5 DEF Request

LEMMA CrashMaps ==
  ASSUME CallInv, Crash
  PROVE  P!Next
  <1>1. /\ UNCHANGED <<tree, pkg, deleted>> /\ server = "up" /\ server' = "down"
        /\ step' = [c \in Calls |-> "idle"] /\ runtimes' = [p \in Packages |-> 0] /\ halfway' = {}
        /\ raced' = {p \in raced : tree[p] # {}}
    BY DEF Crash
  <1>2. raced' = raced \cap AExists
    BY <1>1 DEF AExists, CallInv, Rooted
  <1>3. AServer = "up" /\ AServer' = "down" /\ UNCHANGED <<APkg, AExists, AInfo, AMarker, AFlight>>
    BY <1>1 DEF AServer, APkg, AExists, AInfo, AMarker, AFlight, Installed
  <1>4. AStep' = [c \in Calls |-> "idle"] /\ AFlight' = [p \in Packages |-> "none"]
    BY <1>1 DEF AStep, AFlight
  <1>5. P!Crash
    BY <1>1, <1>2, <1>3, <1>4 DEF P!Crash, P!None, P!disk, AStep, APkg, AServer, AFlight, AExists, AInfo, AMarker
  <1> QED BY <1>5 DEF P!Next

LEMMA BootMaps ==
  ASSUME CallInv, Boot
  PROVE  [P!Next]_(P!vars)
  <1>1. /\ server = "down" /\ UNCHANGED <<tree, step, pkg, deleted, halfway, raced>>
        /\ server' = IF ~Loads(Files) THEN "rejected" ELSE IF LoadsPackages THEN "up" ELSE "failed"
        /\ runtimes' = IF server' = "up" THEN [p \in Packages |-> IF Installed(p) THEN 1 ELSE 0] ELSE runtimes
    BY DEF Boot, calls, history
  <1>2. AServer = "down" /\ UNCHANGED <<AStep, APkg, AFlight, AExists, AInfo, AMarker>>
    BY <1>1 DEF AServer, AStep, APkg, AFlight, AExists, AInfo, AMarker, Installed
  <1>3. {p \in AExists : p \in AMarker} = {p \in Packages : Installed(p)}
    BY DEF AExists, AMarker, Installed, CallInv, Rooted
  <1>4. {p \in AExists : p \in AMarker} \subseteq AInfo <=> LoadsPackages
    BY <1>3 DEF AInfo, LoadsPackages
  <1>5. CASE server' = "rejected"
    <2>1. AServer' = AServer /\ runtimes' = runtimes
      BY <1>1, <1>2, <1>5 DEF AServer
    <2> QED BY <1>1, <2>1, NothingMaps
  <1>6. CASE server' = "up"
    <2>1. AServer' = "up" /\ LoadsPackages
      BY <1>1, <1>6 DEF AServer
    <2>2. runtimes' = [p \in Packages |-> IF p \in {r \in AExists : r \in AMarker} THEN 1 ELSE 0]
      BY <1>1, <1>3, <1>6
    <2>3. P!Boot
      BY <1>1, <1>2, <1>4, <2>1, <2>2
      DEF P!Boot, P!Found, P!disk, P!history, AStep, APkg, AServer, AFlight, AExists, AInfo, AMarker
    <2> QED BY <2>3 DEF P!Next
  <1>7. CASE server' = "failed"
    <2>1. AServer' = "failed" /\ ~LoadsPackages /\ runtimes' = runtimes
      BY <1>1, <1>7 DEF AServer
    <2>2. P!BootFails
      BY <1>1, <1>2, <1>4, <2>1
      DEF P!BootFails, P!Found, P!disk, P!history, AStep, APkg, AServer, AFlight, AExists, AInfo, AMarker
    <2> QED BY <2>2 DEF P!Next
  <1> QED BY <1>1, <1>5, <1>6, <1>7

LEMMA InitMaps == InstallInit => P!Init
  <1> SUFFICES ASSUME InstallInit PROVE P!Init
    OBVIOUS
  <1> USE DEF InstallInit
  <1>1. PICK installed \in SUBSET IF Loads(Files) THEN {p \in Packages : Installable(p)} ELSE {} :
            tree = [p \in Packages |-> IF p \in installed THEN Complete(p) ELSE {}]
    OBVIOUS
  <1>2. \A p \in Packages : Installed(p) => Info \in tree[p] /\ Directory \in tree[p]
    BY <1>1 DEF Installed, Complete
  <1>3. \A p \in Packages : Info \in tree[p] => Directory \in tree[p] /\ Installed(p)
    BY <1>1 DEF Installed, Complete
  <1>4. AExists \subseteq Packages /\ AInfo \subseteq AExists /\ AMarker \subseteq AInfo
    BY <1>2, <1>3 DEF AExists, AInfo, AMarker
  <1>5. AServer = "down" /\ AStep = [c \in Calls |-> "idle"] /\ APkg = [c \in Calls |-> "none"]
    BY DEF AServer, AStep, APkg
  <1> QED BY <1>4, <1>5 DEF P!Init, P!None, AStep, APkg, AServer, AExists, AInfo, AMarker

LEMMA NextMaps == CallInv /\ [Next]_vars => [P!Next]_(P!vars)
  <1> SUFFICES ASSUME CallInv, [Next]_vars PROVE [P!Next]_(P!vars)
    OBVIOUS
  <1>1. CASE UNCHANGED installVars
    <2>1. UNCHANGED <<tree, step, pkg, runtimes, deleted, halfway, raced>> /\ AServer' = AServer
      BY <1>1 DEF installVars, calls, history, AServer
    <2> QED BY <2>1, NothingMaps
  <1> QED BY <1>1, Steps, ProvisionAssumption, WorksMaps, RequestMaps, CrashMaps, BootMaps

\* With the sources, the index, the builds and the clients in it, every step of
\* the server is a step of the calls of Packages, or none: whatever those may
\* do side by side or leave behind, these may (package.ts #install, uninstall).
THEOREM InstallsAsPackagesHolds == Spec => InstallsAsPackages
  <1>1. Init => P!Init
    BY InitMaps DEF Init
  <1> QED BY <1>1, NextMaps, CallInvariant, PTL DEF Spec, InstallsAsPackages, P!Spec

-------------------------------------------------------------------------------
(* The rules, one after the other or all at once *)

\* A set of numbers that is not empty has a least one.
LEMMA LeastNumber ==
  ASSUME NEW S \in SUBSET Nat, S # {}
  PROVE  \E n \in S : \A m \in S : n <= m
  <1>1. PICK n \in S : \A m \in S : ~(<<m, n>> \in OpToRel(<, Nat))
    BY NatLessThanWellFounded, WFMin
  <1>2. \A m \in S : ~(m < n)
    BY <1>1 DEF OpToRel
  <1> QED BY <1>2

\* Two functions that begin alike and go on alike are alike.
LEMMA SameRecursion ==
  ASSUME NEW N \in Nat, NEW f, NEW g, f[0] = g[0],
         \A n \in 1..N : f[n - 1] = g[n - 1] => f[n] = g[n]
  PROVE  \A n \in 0..N : f[n] = g[n]
  <1> DEFINE Differ == {n \in 0..N : f[n] # g[n]}
  <1>1. SUFFICES ASSUME Differ # {} PROVE FALSE
    OBVIOUS
  <1>2. PICK n \in Differ : \A m \in Differ : n <= m
    <2>1. Differ \in SUBSET Nat
      OBVIOUS
    <2> HIDE DEF Differ
    <2> QED BY <1>1, <2>1, LeastNumber
  <1>3. n \in 1..N /\ n - 1 \in 0..N /\ ~(n <= n - 1)
    BY <1>2
  <1>4. f[n - 1] = g[n - 1]
    BY <1>2, <1>3
  <1> QED BY <1>2, <1>3, <1>4

\* A rule is a comment or a negation, not both, or neither.
IsRule(rule) ==
    rule.comment \in BOOLEAN /\ rule.negate \in BOOLEAN /\ ~(rule.comment /\ rule.negate)

\* What the first n rules ask for.
Asked(packages, given, n) ==
    {p \in packages : \E k \in 1..n :
        /\ ~given[k].comment /\ ~given[k].negate
        /\ p \in LatestMatches(packages, given[k])
        /\ \A j \in (k + 1)..n : given[j].negate => ~DoesMatch(p, given[j])}

LEMMA AskedGrows ==
  ASSUME NEW packages, NEW given, NEW n \in Nat \ {0}, IsRule(given[n])
  PROVE  Asked(packages, given, n) = Apply(packages, Asked(packages, given, n - 1), given[n])
  <1> DEFINE rule == given[n]
             Gives(k, p) == ~given[k].comment /\ ~given[k].negate /\ p \in LatestMatches(packages, given[k])
             TakenBack(j, p) == given[j].negate /\ DoesMatch(p, given[j])
             Asks(p, m) == \E k \in 1..m : Gives(k, p) /\ \A j \in (k + 1)..m : ~TakenBack(j, p)
  <1>1. /\ Asked(packages, given, n) = {p \in packages : Asks(p, n)}
        /\ Asked(packages, given, n - 1) = {p \in packages : Asks(p, n - 1)}
    BY DEF Asked
  <1>2. \A p : p \in LatestMatches(packages, rule) => p \in packages
    BY DEF LatestMatches
  <1>3. ASSUME NEW p PROVE Asks(p, n) <=> Gives(n, p) \/ (Asks(p, n - 1) /\ ~TakenBack(n, p))
    <2> HIDE DEF Gives, TakenBack
    <2>1. \A k \in 1..n : k = n \/ k \in 1..(n - 1)
      OBVIOUS
    <2>2. \A k \in 1..(n - 1) : (k + 1)..n = ((k + 1)..(n - 1)) \cup {n}
      OBVIOUS
    <2>3. (n + 1)..n = {} /\ n \in 1..n /\ 1..(n - 1) \subseteq 1..n
      OBVIOUS
    <2> QED BY <2>1, <2>2, <2>3
  <1>4. \A p : Gives(n, p) <=> ~rule.comment /\ ~rule.negate /\ p \in LatestMatches(packages, rule)
    OBVIOUS
  <1>5. \A p : TakenBack(n, p) <=> rule.negate /\ DoesMatch(p, rule)
    OBVIOUS
  <1> HIDE DEF Asks, Gives, TakenBack, rule
  <1>6. rule.comment \in BOOLEAN /\ rule.negate \in BOOLEAN /\ ~(rule.comment /\ rule.negate)
    BY DEF rule, IsRule
  <1>7. CASE rule.comment
    BY <1>1, <1>2, <1>3, <1>4, <1>5, <1>6, <1>7 DEF Apply, rule
  <1>8. CASE rule.negate
    BY <1>1, <1>2, <1>3, <1>4, <1>5, <1>6, <1>8 DEF Apply, rule
  <1>9. CASE ~rule.comment /\ ~rule.negate
    BY <1>1, <1>2, <1>3, <1>4, <1>5, <1>6, <1>9 DEF Apply, rule
  <1> QED BY <1>7, <1>8, <1>9

\* Rule after rule or all at once, the packages asked for are the same.
LEMMA EnsuredIsAsked ==
  ASSUME NEW packages, NEW given, Len(given) \in Nat, \A k \in 1..Len(given) : IsRule(given[k])
  PROVE  EnsurePackages(packages, given) = Asked(packages, given, Len(given))
  <1> DEFINE N == Len(given)
             Recurs(f) == f = [n \in 0..N |-> IF n = 0 THEN {} ELSE Apply(packages, f[n - 1], given[n])]
             asked == [n \in 0..N |-> Asked(packages, given, n)]
             e == CHOOSE f : Recurs(f)
  <1>1. Recurs(asked)
    <2> DEFINE next == [n \in 0..N |-> IF n = 0 THEN {} ELSE Apply(packages, asked[n - 1], given[n])]
    <2>1. ASSUME NEW n \in 0..N PROVE asked[n] = next[n]
      <3>1. CASE n = 0
        BY <3>1 DEF Asked
      <3>2. CASE n # 0
        <4>1. n \in Nat \ {0} /\ n \in 1..N /\ n - 1 \in 0..N
          BY <3>2
        <4>2. asked[n] = Apply(packages, Asked(packages, given, n - 1), given[n])
          BY <4>1, AskedGrows
        <4> QED BY <3>2, <4>1, <4>2
      <3> QED BY <3>1, <3>2
    <2> QED BY <2>1
  <1>2. Recurs(e)
    <2> HIDE DEF Recurs, asked
    <2> QED BY <1>1
  <1>3. EnsurePackages(packages, given) = e[N]
    BY DEF EnsurePackages
  <1> HIDE DEF e
  <1>4. \A n \in 0..N : e[n] = IF n = 0 THEN {} ELSE Apply(packages, e[n - 1], given[n])
    BY <1>2
  <1>5. \A n \in 0..N : asked[n] = IF n = 0 THEN {} ELSE Apply(packages, asked[n - 1], given[n])
    BY <1>1
  <1> HIDE DEF Recurs
  <1>6. asked[N] = Asked(packages, given, N)
    OBVIOUS
  <1> HIDE DEF asked
  <1>7. \A n \in 1..N : e[n - 1] = asked[n - 1] => e[n] = asked[n]
    BY <1>4, <1>5
  <1>8. e[0] = asked[0]
    BY <1>4, <1>5
  <1>9. N \in Nat
    OBVIOUS
  <1> HIDE DEF N
  <1>10. \A n \in 0..N : e[n] = asked[n]
    BY <1>7, <1>8, <1>9, SameRecursion
  <1>11. e[N] = asked[N]
    BY <1>9, <1>10
  <1> QED BY <1>3, <1>6, <1>11 DEF N

-------------------------------------------------------------------------------
(* What the client has done, while nobody else is at work *)

InstallOf(p) == [type |-> "install", package |-> p]
UninstallOf(p) == [type |-> "uninstall", package |-> p]

New == Wanted \ listing.installed
Old == listing.installed \ Wanted

Changes == {InstallOf(p) : p \in New} \cup {UninstallOf(p) : p \in Old}

\* An operation that is not to be begun, is not in hand and has not failed has
\* had its effect.
Accounted(operation, effect) ==
    operation \in todo \/ operation = request \/ operation \in failures \/ effect

Reached ==
    /\ listing.packages = Listed /\ listing.installed \subseteq Listed
    /\ todo \cup failures \subseteq Changes
    /\ request \in Changes \cup {None}
    /\ \A p \in Listed \ (New \cup Old) : Installed(p) <=> p \in listing.installed
    /\ \A p \in New : Accounted(InstallOf(p), Installed(p))
    /\ \A p \in Old : Accounted(UninstallOf(p), ~Installed(p))
    /\ request # None /\ outcome[ppman] \notin {Undefined, "failed"} =>
        (Installed(request.package) <=> request.type = "install")
    /\ Installs # {} \/ request.type = "install" => \A p \in listing.installed : Installed(p)
    /\ request.type = "uninstall" => Installs = {}

InHand ==
    /\ request # None /\ pkg[ppman] = request.package /\ outcome[ppman] = Undefined
    /\ step[ppman] = "deleting" <=> request.type = "uninstall"

Alone ==
    /\ raced = {}
    /\ \A c \in Calls \ {ppman} : step[c] = "idle"
    /\ step[ppman] # "idle" => InHand
    /\ phase \notin {"unread", "failed"} => Reached

ClientInv ==
    /\ others \in Nat
    /\ phase \in {"unread", "working", "done", "failed"}
    /\ phase \in {"unread", "failed"} =>
            todo = {} /\ request = None /\ failures = {} /\ listing.installed = {}
    /\ phase = "done" => todo = {} /\ request = None
    /\ others = 0 => Alone

\* Neither do the matches of a rule.
LEMMA SameMatches ==
  ASSUME config' = config
  PROVE  /\ \A p, rule : DoesMatch(p, rule)' <=> DoesMatch(p, rule)
         /\ \A packages, rule : LatestMatches(packages, rule)' = LatestMatches(packages, rule)
  <1>1. \A p, rule : DoesMatch(p, rule)' <=> DoesMatch(p, rule)
    BY SameConfig DEF DoesMatch
  <1>2. \A packages, rule : LatestMatches(packages, rule)' = LatestMatches(packages, rule)
    BY <1>1, SameConfig DEF LatestMatches
  <1> QED BY <1>1, <1>2

\* What is wanted is settled when the spec file has been read.
LEMMA SameWanted ==
  ASSUME config' = config, UNCHANGED <<rules, listing>>
  PROVE  /\ Wanted' = Wanted /\ New' = New /\ Old' = Old /\ Changes' = Changes
         /\ Listed' = Listed
  <1>1. Wanted' = Wanted
    BY SameMatches DEF Wanted
  <1>2. New' = New /\ Old' = Old
    BY <1>1 DEF New, Old
  <1>3. Changes' = Changes
    BY <1>2 DEF Changes, InstallOf, UninstallOf
  <1> QED BY <1>1, <1>2, <1>3, SameConfig

\* The lines of a spec file give as many rules, none both a comment and a negation.
LEMMA LinesAreRules ==
  ASSUME NEW lines \in SpecFiles
  PROVE  /\ Len(Rules(lines)) \in Nat /\ DOMAIN Rules(lines) = 1..Len(Rules(lines))
         /\ \A k \in 1..Len(Rules(lines)) : IsRule(Rules(lines)[k])
  <1>1. Len(lines) \in Nat /\ DOMAIN lines = 1..Len(lines)
    BY SpecFilesAssumption
  <1>2. DOMAIN Rules(lines) = 1..Len(lines) /\ Len(Rules(lines)) = Len(lines)
    BY <1>1 DEF Rules
  <1>3. \A line : IsRule(Rule(line))
    BY DEF IsRule, Rule
  <1>4. \A k \in 1..Len(lines) : Rules(lines)[k] = Rule(lines[k])
    BY <1>1 DEF Rules
  <1> QED BY <1>1, <1>2, <1>3, <1>4

\* What there is to do when the spec file has been read is what is wanted and
\* not there, and what is there and not wanted.
LEMMA ReadsSpec ==
  ASSUME ReadSpec
  PROVE  todo' = Changes' /\ config' = config
  <1>1. PICK lines \in SpecFiles : rules' = Rules(lines)
    BY DEF ReadSpec
  <1>2. config' = config
    BY DEF ReadSpec, installVars
  <1>3. Len(rules') \in Nat /\ DOMAIN rules' = 1..Len(rules') /\ \A k \in 1..Len(rules') : IsRule(rules'[k])
    BY <1>1, LinesAreRules
  <1>4. EnsurePackages(listing'.packages, rules') = Asked(listing'.packages, rules', Len(rules'))
    BY <1>3, EnsuredIsAsked
  <1>5. Wanted' = Asked(listing'.packages, rules', Len(rules'))
    BY <1>2, <1>3, SameMatches DEF Wanted, Asked
  <1>6. todo' = Operations(listing', rules')
    BY DEF ReadSpec
  <1> QED BY <1>2, <1>4, <1>5, <1>6 DEF Operations, Changes, New, Old, InstallOf, UninstallOf

\* What tells one operation from another.
LEMMA KindsOfChanges ==
  ASSUME NEW operation \in Changes
  PROVE  /\ operation # None
         /\ operation.type = "install" => operation.package \in New /\ operation = InstallOf(operation.package)
         /\ operation.type # "install" =>
                /\ operation.type = "uninstall"
                /\ operation.package \in Old /\ operation = UninstallOf(operation.package)
  BY DEF Changes, InstallOf, UninstallOf, None

-------------------------------------------------------------------------------
(* The steps of the client, and of its calls *)

LEMMA ClientInvInit == Init => ClientInv
  <1> SUFFICES ASSUME Init PROVE ClientInv
    OBVIOUS
  <1>1. step = [c \in Calls |-> "idle"] /\ raced = {}
    BY DEF Init, InstallInit
  <1> QED BY <1>1, ProvisionAssumption DEF Init, ClientInv, Alone

LEMMA Reads ==
  ASSUME CallInv, ClientInv, ReadSpec
  PROVE  ClientInv'
  <1>1. /\ phase = "unread" /\ phase' = "working"
        /\ UNCHANGED <<config, tree, step, pkg, outcome, raced, request, failures, others>>
    BY DEF ReadSpec, installVars, calls, history
  <1>2. request = None /\ failures = {} /\ \A p : Installed(p)' <=> Installed(p)
    BY <1>1 DEF ClientInv, Installed
  <1>3. listing'.packages = Listed /\ listing'.installed = {p \in Listed : Installed(p)} /\ Listed' = Listed
    BY <1>1, SameConfig DEF ReadSpec
  <1>4. todo' = Changes'
    BY ReadsSpec
  <1>5. Reached'
    <2>1. (\A p \in Listed \ (New \cup Old) : Installed(p) <=> p \in listing.installed)'
      BY <1>2, <1>3
    <2>2. (\A p \in New : Accounted(InstallOf(p), Installed(p)))'
      BY <1>4 DEF Changes, Accounted
    <2>3. (\A p \in Old : Accounted(UninstallOf(p), ~Installed(p)))'
      BY <1>4 DEF Changes, Accounted
    <2>4. (request # None /\ outcome[ppman] \notin {Undefined, "failed"} =>
            (Installed(request.package) <=> request.type = "install"))'
      BY <1>1, <1>2 DEF None
    <2>5. (Installs # {} \/ request.type = "install" => \A p \in listing.installed : Installed(p))'
      BY <1>2, <1>3
    <2>6. (request \in Changes \cup {None})' /\ (todo \cup failures \subseteq Changes)'
      BY <1>1, <1>2, <1>4 DEF None
    <2>7. (request.type = "uninstall" => Installs = {})'
      BY <1>1, <1>2 DEF None
    <2> QED BY <1>3, <2>1, <2>2, <2>3, <2>4, <2>5, <2>6, <2>7 DEF Reached
  <1>6. others' = 0 => Alone'
    <2>1. others = 0 => (\A c \in Calls \ {ppman} : step[c] = "idle") /\ step[ppman] = "idle" /\ raced = {}
      BY <1>2 DEF ClientInv, Alone, InHand
    <2> QED BY <1>1, <1>5, <2>1 DEF Alone
  <1> QED BY <1>1, <1>6 DEF ClientInv

\* What does not change, when only the variables of the requests do.
LEMMA SameGoal ==
  ASSUME config' = config, UNCHANGED <<rules, listing>>, Reached
  PROVE  /\ (listing.packages = Listed)' /\ (listing.installed \subseteq Listed)'
         /\ New' = New /\ Old' = Old /\ Changes' = Changes /\ Listed' = Listed
  BY SameWanted DEF Reached

LEMMA Sends ==
  ASSUME CallInv, ClientInv, Send
  PROVE  ClientInv'
  <1>1. PICK operation \in NextOperations :
            /\ request' = operation /\ todo' = todo \ {operation}
            /\ \/ Unreachable(ppman)
               \/ /\ operation.type = "install"
                  /\ StartInstall(ppman, operation.package) \/ RefuseInstall(ppman, operation.package)
               \/ /\ operation.type = "uninstall"
                  /\ StartUninstall(ppman, operation.package) \/ RefuseUninstall(ppman, operation.package)
    BY DEF Send
  <1> DEFINE q == operation.package
  <1>2. /\ phase = "working" /\ phase' = phase /\ request = None
        /\ UNCHANGED <<rules, listing, failures, others, config, tree>>
    <2>1. Request(ppman, q)
      BY <1>1 DEF Request
    <2> QED BY <2>1, ProvisionAssumption, RequestSteps DEF Send
  <1>3. SUFFICES ASSUME others = 0 PROVE Alone'
    BY <1>2 DEF ClientInv
  <1>4. Alone /\ Reached /\ operation \in todo /\ operation \in Changes
    BY <1>2, <1>3 DEF ClientInv, Alone, Reached, NextOperations, Installs
  <1>5. \A p : Installed(p)' <=> Installed(p)
    BY <1>2 DEF Installed
  <1>6. /\ raced' = {} /\ outcome'[ppman] \in {Undefined, "failed"}
        /\ \A c \in Calls \ {ppman} : step'[c] = step[c]
        /\ step'[ppman] # "idle" =>
            /\ pkg'[ppman] = q /\ outcome'[ppman] = Undefined
            /\ (step'[ppman] = "deleting" <=> operation.type = "uninstall")
    <2>1. /\ ppman \in Calls /\ raced = {} /\ \A c \in Calls \ {ppman} : step[c] = "idle"
          /\ step = [c \in Calls |-> step[c]] /\ outcome = [c \in Calls |-> outcome[c]]
          /\ pkg = [c \in Calls |-> pkg[c]]
      BY <1>4, ProvisionAssumption DEF Alone, CallInv
    <2>2. CASE RefuseInstall(ppman, q) \/ RefuseUninstall(ppman, q) \/ Unreachable(ppman)
      BY <2>1, <2>2 DEF RefuseInstall, RefuseUninstall, Unreachable, Refused, history
    <2>3. ASSUME NEW to, to # "idle", Begins(ppman, q, to), to = "deleting" <=> operation.type = "uninstall"
          PROVE  /\ raced' = {} /\ outcome'[ppman] = Undefined
                 /\ \A c \in Calls \ {ppman} : step'[c] = step[c]
                 /\ pkg'[ppman] = q
                 /\ (step'[ppman] = "deleting" <=> operation.type = "uninstall")
      <3>1. Working(q) = {}
        BY <2>1, <2>3 DEF Begins, Working
      <3> QED BY <2>1, <2>3, <3>1 DEF Begins
    <2>4. CASE operation.type = "install" /\ StartInstall(ppman, q)
      BY <2>3, <2>4 DEF StartInstall
    <2>5. CASE operation.type = "uninstall" /\ StartUninstall(ppman, q)
      BY <2>3, <2>5 DEF StartUninstall
    <2> QED BY <1>1, <2>2, <2>4, <2>5
  <1>7. /\ (listing.packages = Listed)' /\ (listing.installed \subseteq Listed)'
        /\ New' = New /\ Old' = Old /\ Changes' = Changes /\ Listed' = Listed
    BY <1>2, <1>4, SameGoal
  <1>8. Reached'
    <2>1. (\A p \in Listed \ (New \cup Old) : Installed(p) <=> p \in listing.installed)'
      BY <1>2, <1>4, <1>5, <1>7 DEF Reached
    <2>2. (\A p \in New : Accounted(InstallOf(p), Installed(p)))'
      BY <1>1, <1>2, <1>4, <1>5, <1>7 DEF Reached, Accounted, InstallOf, None
    <2>3. (\A p \in Old : Accounted(UninstallOf(p), ~Installed(p)))'
      BY <1>1, <1>2, <1>4, <1>5, <1>7 DEF Reached, Accounted, UninstallOf, None
    <2>4. (request # None /\ outcome[ppman] \notin {Undefined, "failed"} =>
            (Installed(request.package) <=> request.type = "install"))'
      BY <1>6
    <2>5. (Installs # {} \/ request.type = "install" => \A p \in listing.installed : Installed(p))'
      <3>1. Installs' \subseteq Installs /\ (request'.type = "install" => request' \in Installs)
        BY <1>1, <1>4 DEF Installs
      <3> QED BY <1>2, <1>4, <1>5, <3>1 DEF Reached
    <2>6. (request \in Changes \cup {None})' /\ (todo \cup failures \subseteq Changes)'
      BY <1>1, <1>2, <1>4, <1>7 DEF Reached
    <2>7. (request.type = "uninstall" => Installs = {})'
      BY <1>1 DEF NextOperations, Installs
    <2> QED BY <1>7, <2>1, <2>2, <2>3, <2>4, <2>5, <2>6, <2>7 DEF Reached
  <1>9. (step[ppman] # "idle" => InHand)'
    BY <1>1, <1>4, <1>6, KindsOfChanges DEF InHand, None
  <1>10. (\A c \in Calls \ {ppman} : step[c] = "idle")'
    BY <1>4, <1>6 DEF Alone
  <1> QED BY <1>6, <1>8, <1>9, <1>10 DEF Alone

LEMMA Receives ==
  ASSUME CallInv, ClientInv, Receive
  PROVE  ClientInv'
  <1>1. /\ request # None /\ outcome[ppman] # Undefined /\ request' = None
        /\ failures' = IF outcome[ppman] = "failed" THEN failures \cup {request} ELSE failures
        /\ UNCHANGED <<config, tree, step, pkg, outcome, raced, phase, rules, listing, todo, others>>
    BY DEF Receive, installVars, calls, history
  <1>2. phase = "working"
    BY <1>1 DEF ClientInv
  <1>3. ASSUME others = 0 PROVE Alone'
    <2>1. Alone /\ Reached /\ request \in Changes
      BY <1>1, <1>2, <1>3 DEF ClientInv, Alone, Reached
    <2>2. step[ppman] = "idle"
      BY <1>1, <2>1 DEF Alone, InHand
    <2>3. \A p : Installed(p)' <=> Installed(p)
      BY <1>1 DEF Installed
    <2>4. /\ (listing.packages = Listed)' /\ (listing.installed \subseteq Listed)'
          /\ New' = New /\ Old' = Old /\ Changes' = Changes /\ Listed' = Listed
      BY <1>1, <2>1, SameGoal
    <2>5. Reached'
      <3>1. (\A p \in Listed \ (New \cup Old) : Installed(p) <=> p \in listing.installed)'
        BY <1>1, <2>1, <2>3, <2>4 DEF Reached
      <3>2. \A p \in New : InstallOf(p) = request => request \in failures' \/ Installed(p)
        BY <1>1, <2>1 DEF Reached, InstallOf
      <3>3. \A p \in Old : UninstallOf(p) = request => request \in failures' \/ ~Installed(p)
        BY <1>1, <2>1 DEF Reached, UninstallOf
      <3>4. (\A p \in New : Accounted(InstallOf(p), Installed(p)))'
        BY <1>1, <2>1, <2>3, <2>4, <3>2 DEF Reached, Accounted
      <3>5. (\A p \in Old : Accounted(UninstallOf(p), ~Installed(p)))'
        BY <1>1, <2>1, <2>3, <2>4, <3>3 DEF Reached, Accounted
      <3>6. (Installs # {} \/ request.type = "install" => \A p \in listing.installed : Installed(p))'
        <4>1. Installs' = Installs /\ request'.type = "none"
          BY <1>1 DEF Installs, None
        <4> QED BY <1>1, <2>1, <2>3, <4>1 DEF Reached
      <3>7. (request \in Changes \cup {None})' /\ (todo \cup failures \subseteq Changes)'
        BY <1>1, <2>1, <2>4 DEF Reached, None
      <3>8. request' = None' /\ None'.type = "none"
        BY <1>1 DEF None
      <3> QED BY <2>4, <3>1, <3>4, <3>5, <3>6, <3>7, <3>8 DEF Reached
    <2> QED BY <1>1, <2>1, <2>2, <2>5 DEF Alone
  <1> QED BY <1>1, <1>2, <1>3 DEF ClientInv

\* A call works in its own directory, and when it is over without having failed
\* the package is installed, or is no more.
LEMMA WhatCallsDo ==
  ASSUME CallInv, TreeInv, NEW c \in Calls, Works(c)
  PROVE  \/ /\ step'[c] # "idle" /\ outcome' = outcome
            /\ step'[c] = "deleting" <=> step[c] = "deleting"
         \/ /\ step'[c] = "idle"
            /\ raced = {} => outcome'[c] = "failed" \/ (Installed(pkg[c])' <=> step[c] # "deleting")
  <1> DEFINE q == pkg[c]
  <1>1. step[c] # "idle" /\ pkg' = pkg
    BY OwnPackage
  <1>2. /\ q \in Packages /\ tree = [p \in Packages |-> tree[p]] /\ step = [d \in Calls |-> step[d]]
        /\ outcome = [d \in Calls |-> outcome[d]]
    BY <1>1, AtWork DEF CallInv
  <1>3. CASE Uninstalled(c)
    <2>1. step'[c] = "idle" /\ tree'[q] = {} /\ step[c] = "deleting"
      BY <1>2, <1>3 DEF Uninstalled, Ends
    <2> QED BY <1>1, <2>1 DEF Installed
  <1>4. CASE DirectoryFails(c) \/ CloseFails(c) \/ UninstallFails(c)
    <2>1. step'[c] = "idle" /\ outcome'[c] = "failed"
      BY <1>2, <1>4 DEF DirectoryFails, CloseFails, UninstallFails, Ends
    <2> QED BY <2>1
  <1>5. CASE Close(c)
    <2>1. /\ step'[c] = "idle" /\ step[c] \in {"closing", "failing"}
          /\ step[c] = "failing" => outcome'[c] = "failed"
          /\ tree'[q] = tree[q] \ Pushed(c)
      BY <1>2, <1>5 DEF Close, Ends
    <2>2. raced = {} /\ step[c] = "closing" => Marker \in tree[q]
      <3>1. c \in Working(q)
        BY <1>1 DEF Working
      <3>2. raced = {} => Undisturbed(q)
        BY <1>2 DEF TreeInv
      <3> QED BY <3>1, <3>2 DEF Undisturbed, Holds
    <2>3. Marker \notin Pushed(c)
      BY Marks DEF Pushed
    <2> QED BY <1>1, <2>1, <2>2, <2>3 DEF Installed
  <1>6. CASE step'[c] # "idle" /\ step[c] # "deleting" /\ outcome' = outcome
    <2>1. step'[c] # "deleting"
      BY WhereTo
    <2> QED BY <1>6, <2>1
  <1> QED BY <1>3, <1>4, <1>5, <1>6, HowCallsEnd

\* A call that goes on, or ends so.
LEMMA GoesOn ==
  ASSUME CallInv, ClientInv, NEW c \in Calls, step[c] # "idle",
         UNCHANGED <<config, pkg, clientVars>>, raced' \subseteq raced,
         \A d \in Calls \ {c} : step'[d] = step[d],
         \A p \in Packages : p # pkg[c] => (Installed(p)' <=> Installed(p)),
         \/ /\ step'[c] # "idle" /\ outcome' = outcome
            /\ step'[c] = "deleting" <=> step[c] = "deleting"
         \/ /\ step'[c] = "idle"
            /\ raced = {} => outcome'[c] = "failed" \/ (Installed(pkg[c])' <=> step[c] # "deleting")
  PROVE  ClientInv'
  <1>1. UNCHANGED <<phase, rules, listing, todo, request, failures, others>>
    BY DEF clientVars
  <1>4. ASSUME others = 0 PROVE Alone'
    <2>2. Alone /\ c = ppman /\ InHand /\ raced = {}
      BY <1>4 DEF ClientInv, Alone
    <2>3. phase \notin {"unread", "failed"} /\ Reached /\ request \in Changes
      BY <2>2 DEF ClientInv, Alone, InHand, Reached
    <2> DEFINE q == request.package
    <2>4. /\ UNCHANGED <<config, pkg>> /\ pkg[c] = q /\ outcome[c] = Undefined
          /\ \A d \in Calls \ {c} : step'[d] = step[d]
          /\ \A p \in Packages : p # q => (Installed(p)' <=> Installed(p))
          /\ step'[c] # "idle" => outcome' = outcome /\ (step'[c] = "deleting" <=> step[c] = "deleting")
          /\ step'[c] = "idle" =>
                outcome'[c] = "failed" \/ (Installed(q)' <=> step[c] # "deleting")
      BY <1>1, <2>2 DEF InHand, Installed
    <2>5. /\ (listing.packages = Listed)' /\ (listing.installed \subseteq Listed)'
          /\ New' = New /\ Old' = Old /\ Changes' = Changes /\ Listed' = Listed
      BY <1>1, <2>3, <2>4, SameGoal
    <2>6. /\ q \in New \cup Old /\ request.type \in {"install", "uninstall"}
          /\ request.type = "install" => q \in New /\ request = InstallOf(q)
          /\ request.type # "install" => q \in Old /\ request = UninstallOf(q)
      BY <2>3, KindsOfChanges
    <2>7. step[c] = "deleting" <=> request.type = "uninstall"
      BY <2>2 DEF InHand
    <2>8. Listed \subseteq Packages /\ listing.installed \subseteq Packages /\ New \subseteq Packages /\ Old \subseteq Packages
      BY <2>3 DEF Listed, Reached, New, Old, Wanted
    <2>9. Reached'
      <3>1. (\A p \in Listed \ (New \cup Old) : Installed(p) <=> p \in listing.installed)'
        BY <1>1, <2>3, <2>4, <2>5, <2>6, <2>8 DEF Reached
      <3>2. (\A p \in New : Accounted(InstallOf(p), Installed(p)))'
        <4>1. q \in New => request = InstallOf(q)
          BY <2>6 DEF New, Old
        <4> QED BY <1>1, <2>3, <2>4, <2>5, <2>8, <4>1 DEF Reached, Accounted
      <3>3. (\A p \in Old : Accounted(UninstallOf(p), ~Installed(p)))'
        <4>1. q \in Old => request = UninstallOf(q)
          BY <2>6 DEF New, Old
        <4> QED BY <1>1, <2>3, <2>4, <2>5, <2>8, <4>1 DEF Reached, Accounted
      <3>4. (request # None /\ outcome[ppman] \notin {Undefined, "failed"} =>
              (Installed(request.package) <=> request.type = "install"))'
        BY <1>1, <2>2, <2>4, <2>6, <2>7
      <3>5. (Installs # {} \/ request.type = "install" => \A p \in listing.installed : Installed(p))'
        <4>1. Installs' = Installs /\ request' = request
          BY <1>1 DEF Installs
        <4>2. Installs # {} \/ request.type = "install" => \A p \in listing.installed : Installed(p)
          BY <2>3 DEF Reached
        <4>3. CASE request.type = "install"
          <5>1. q \notin listing.installed
            BY <2>6, <4>3 DEF New
          <5> QED BY <1>1, <2>4, <2>8, <4>1, <4>2, <4>3, <5>1
        <4>4. CASE request.type # "install"
          <5>1. Installs = {}
            BY <2>3, <2>6, <4>4 DEF Reached
          <5> QED BY <4>1, <4>4, <5>1
        <4> QED BY <4>3, <4>4
      <3>6. (request \in Changes \cup {None})' /\ (todo \cup failures \subseteq Changes)'
        BY <1>1, <2>3, <2>5 DEF Reached
      <3>7. (request.type = "uninstall" => Installs = {})'
        BY <1>1, <2>3 DEF Reached, Installs
      <3> QED BY <2>5, <3>1, <3>2, <3>3, <3>4, <3>5, <3>6, <3>7 DEF Reached
    <2>10. (step[ppman] # "idle" => InHand)'
      BY <1>1, <2>2, <2>4, <2>7 DEF InHand, None
    <2>11. (\A d \in Calls \ {ppman} : step[d] = "idle")'
      BY <2>2, <2>4 DEF Alone
    <2> QED BY <2>2, <2>9, <2>10, <2>11 DEF Alone
  <1> QED BY <1>1, <1>4 DEF ClientInv

\* What leaves the packages alone changes nothing.
LEMMA ClientStays ==
  ASSUME CallInv, ClientInv, UNCHANGED <<config, tree, pkg, rules, listing, todo, request, failures, others>>,
         raced' \subseteq raced, \A c \in Calls : step'[c] \in {step[c], "idle"},
         outcome'[ppman] \in {outcome[ppman], "failed"},
         step'[ppman] # "idle" => outcome'[ppman] = outcome[ppman],
         phase' = phase \/ Finish \/ ReadFails
  PROVE  ClientInv'
  <1>1. ASSUME Reached PROVE Reached'
    <2>1. /\ (listing.packages = Listed)' /\ (listing.installed \subseteq Listed)'
          /\ New' = New /\ Old' = Old /\ Changes' = Changes /\ Listed' = Listed
      BY <1>1, SameGoal
    <2>2. \A p : Installed(p)' <=> Installed(p)
      BY DEF Installed
    <2>3. \A operation, effect : Accounted(operation, effect)' <=> Accounted(operation, effect)
      BY DEF Accounted
    <2>4. Installs' = Installs /\ None' = None
      BY DEF Installs, None
    <2>5. /\ (\A p \in New : Accounted(InstallOf(p), Installed(p)))'
          /\ (\A p \in Old : Accounted(UninstallOf(p), ~Installed(p)))'
      BY <1>1, <2>1, <2>2 DEF Reached, Accounted
    <2> QED BY <1>1, <2>1, <2>2, <2>4, <2>5 DEF Reached
  <1>2. phase' \notin {"unread", "failed"} => phase \notin {"unread", "failed"}
    BY DEF Finish, ReadFails
  <1>3. Alone => (step[ppman] # "idle" => InHand)'
    BY ProvisionAssumption DEF Alone, InHand, None
  <1>4. Alone => Alone'
    BY <1>1, <1>2, <1>3, ProvisionAssumption DEF Alone
  <1>5. /\ phase' \in {"unread", "working", "done", "failed"}
        /\ phase' \in {"unread", "failed"} => phase \in {"unread", "failed"}
        /\ phase' = "done" => todo = {} /\ request = None
    BY DEF Finish, ReadFails, ClientInv
  <1> QED BY <1>4, <1>5 DEF ClientInv, None

LEMMA WorksClientInv ==
  ASSUME CallInv, TreeInv, ClientInv, NEW c \in Calls, Works(c) \/ RemoveSome(c), UNCHANGED clientVars
  PROVE  ClientInv'
  <1>1. tree = [p \in Packages |-> tree[p]] /\ step = [d \in Calls |-> step[d]]
    BY DEF CallInv
  <1>2. CASE Works(c)
    <2>1. /\ step[c] # "idle" /\ UNCHANGED <<config, pkg>> /\ raced' \subseteq raced
          /\ step' = [step EXCEPT ![c] = step'[c]] /\ tree' = [tree EXCEPT ![pkg[c]] = tree'[pkg[c]]]
      BY <1>2, OwnPackage
    <2>2. /\ \A p \in Packages : p # pkg[c] => (Installed(p)' <=> Installed(p))
          /\ \A d \in Calls \ {c} : step'[d] = step[d]
      BY <1>1, <2>1 DEF Installed
    <2> QED BY <1>2, <2>1, <2>2, WhatCallsDo, GoesOn
  <1>3. CASE RemoveSome(c)
    <2>1. /\ step[c] # "idle" /\ UNCHANGED <<config, pkg, raced, step, outcome>>
          /\ tree' = [tree EXCEPT ![pkg[c]] = tree'[pkg[c]]]
      BY <1>3, RemovesSome DEF calls, history
    <2>2. \A p \in Packages : p # pkg[c] => (Installed(p)' <=> Installed(p))
      BY <1>1, <2>1 DEF Installed
    <2> QED BY <2>1, <2>2, GoesOn
  <1> QED BY <1>2, <1>3

LEMMA ClientInvNext == CallInv /\ TreeInv /\ ClientInv /\ [Next]_vars => ClientInv'
  <1> SUFFICES ASSUME CallInv, TreeInv, ClientInv, [Next]_vars PROVE ClientInv'
    OBVIOUS
  <1>1. CASE Boot /\ UNCHANGED clientVars
    BY <1>1, ClientStays, ProvisionAssumption DEF Boot, clientVars, calls, history
  <1>2. CASE Crash /\ UNCHANGED clientVars
    <2>1. /\ UNCHANGED <<config, tree, pkg>> /\ raced' \subseteq raced
          /\ \A c \in Calls : step'[c] = "idle"
          /\ outcome'[ppman] \in {outcome[ppman], "failed"}
      BY <1>2, ProvisionAssumption DEF Crash
    <2> QED BY <1>2, <2>1, ClientStays, ProvisionAssumption DEF clientVars
  <1>3. CASE UNCHANGED installVars /\ (Finish \/ ReadFails \/ UNCHANGED clientVars)
    BY <1>3, ClientStays DEF Finish, ReadFails, installVars, clientVars, calls, history
  <1>4. ASSUME NEW c \in Calls, OtherRequest(c) PROVE ClientInv'
    <2>1. others' \in Nat /\ others' # 0 /\ UNCHANGED <<phase, rules, listing, todo, request, failures>>
      BY <1>4 DEF OtherRequest, ClientInv
    <2> QED BY <2>1 DEF ClientInv, None
  <1> QED BY <1>1, <1>2, <1>3, <1>4, Reads, Sends, Receives, WorksClientInv, Steps

\* An invariant of the specification, on which both properties of the client rest.
LEMMA ClientInvariant == Spec => []ClientInv
  BY ClientInvInit, ClientInvNext, TreeInvariant, PTL DEF Spec

\* When `ppman spec` is done, nothing has failed and nobody else was at work,
\* the packages installed are those the spec file asks for, whatever its rules
\* (ppman.ts, spec).
THEOREM SpecConvergesHolds == Spec => []SpecConverges
  <1>1. ClientInv => SpecConverges
    <2> SUFFICES ASSUME ClientInv, phase = "done", failures = {}, others = 0, NEW p
                 PROVE  p \in Listed /\ Installed(p) <=> p \in Wanted
      BY DEF SpecConverges
    <2>1. Reached /\ todo = {} /\ request = None
      BY DEF ClientInv, Alone
    <2>2. Wanted \subseteq Listed /\ listing.installed \subseteq Listed
      BY <2>1 DEF Reached, Wanted
    <2>3. p \in New => Installed(p)
      BY <2>1 DEF Reached, Accounted, InstallOf, None
    <2>4. p \in Old => ~Installed(p)
      BY <2>1 DEF Reached, Accounted, UninstallOf, None
    <2>5. p \in Listed \ (New \cup Old) => (Installed(p) <=> p \in listing.installed)
      BY <2>1 DEF Reached
    <2> QED BY <2>2, <2>3, <2>4, <2>5 DEF New, Old
  <1> QED BY <1>1, ClientInvariant, PTL

\* A language that was installed and is to be kept is never without a version,
\* unless an install of it has failed: what is to go is there until no install
\* is left to do or under way (ppman.ts, spec).
THEOREM UpgradeLeavesNoGapHolds == Spec => []UpgradeLeavesNoGap
  <1>1. ClientInv => UpgradeLeavesNoGap
    <2> SUFFICES ASSUME ClientInv, others = 0, phase # "unread",
                        NEW old \in listing.installed, NEW new \in Wanted,
                        Manifest(old).language = Manifest(new).language
                 PROVE  \/ \E p \in Packages : Manifest(p).language = Manifest(new).language /\ Installed(p)
                        \/ \E f \in failures : /\ f.type = "install"
                                               /\ Manifest(f.package).language = Manifest(new).language
      BY DEF UpgradeLeavesNoGap
    <2>1. Reached
      BY DEF ClientInv, Alone
    <2>2. new \in Packages /\ old \in Packages /\ new \in Listed
      BY <2>1 DEF Reached, Listed, Wanted
    <2>3. CASE new \in listing.installed
      <3>1. new \notin New \cup Old
        BY <2>3 DEF New, Old
      <3> QED BY <2>1, <2>2, <2>3, <3>1 DEF Reached
    <2>4. CASE new \notin listing.installed
      <3>1. new \in New
        BY <2>4 DEF New
      <3>2. InstallOf(new).type = "install" /\ InstallOf(new).package = new
        BY DEF InstallOf
      <3>3. CASE InstallOf(new) \in todo \/ InstallOf(new) = request
        BY <2>1, <2>2, <3>2, <3>3 DEF Reached, Installs
      <3>4. CASE InstallOf(new) \in failures \/ Installed(new)
        BY <2>2, <3>2, <3>4
      <3> QED BY <2>1, <3>1, <3>3, <3>4 DEF Reached, Accounted
    <2> QED BY <2>3, <2>4
  <1> QED BY <1>1, ClientInvariant, PTL

-------------------------------------------------------------------------------
(* Every call comes to its end *)

\* How many sources an install unpacks one after the other.
Downloads(p) == IF Plan(p) = "prebuilt" THEN 0 ELSE Len(Sources(Manifest(p)))

\* A bound on the steps before a call that is at `at`, with source n in hand
\* and the attempts `tries` behind it.
EffortAt(p, at, n, tries) ==
    IF at = "idle" THEN 0
    ELSE IF at = "removing" THEN 13 + Attempts + 2 * Downloads(p)
    ELSE IF at = "making" THEN 12 + Attempts + 2 * Downloads(p)
    ELSE IF at = "asking" THEN 11 + Attempts - tries
    ELSE IF at = "fetching" THEN 10 + 2 * (Downloads(p) - n)
    ELSE IF at = "extracting" THEN 9 + 2 * (Downloads(p) - n)
    ELSE IF at = "build" THEN 8
    ELSE IF at = "post_install" THEN 7
    ELSE IF at = "writing" THEN 6
    ELSE IF at = "rendering" THEN 5
    ELSE IF at = "registering" THEN 4
    ELSE IF at = "chowning" THEN 3
    ELSE IF at = "marking" THEN 2
    ELSE 1

Effort(c) == EffortAt(pkg[c], step[c], source[c], attempt[c])

AttemptInv == \A c \in Calls : step[c] = "asking" => attempt[c] <= Attempts

\* What is left of the client's loop: two for an operation to do, one for the
\* one in hand, one for the end.
Left == 2 * Cardinality(todo) + (IF request # None THEN 1 ELSE 0) + (IF phase = "working" THEN 1 ELSE 0)

LEMMA EffortValues ==
  ASSUME NEW p, NEW n, NEW tries
  PROVE  /\ EffortAt(p, "removing", n, tries) = 13 + Attempts + 2 * Downloads(p)
         /\ EffortAt(p, "making", n, tries) = 12 + Attempts + 2 * Downloads(p)
         /\ EffortAt(p, "asking", n, tries) = 11 + Attempts - tries
         /\ EffortAt(p, "fetching", n, tries) = 10 + 2 * (Downloads(p) - n)
         /\ EffortAt(p, "extracting", n, tries) = 9 + 2 * (Downloads(p) - n)
         /\ EffortAt(p, "build", n, tries) = 8
         /\ EffortAt(p, "post_install", n, tries) = 7
         /\ EffortAt(p, "writing", n, tries) = 6
         /\ EffortAt(p, "rendering", n, tries) = 5
         /\ EffortAt(p, "registering", n, tries) = 4
         /\ EffortAt(p, "chowning", n, tries) = 3
         /\ EffortAt(p, "marking", n, tries) = 2
         /\ EffortAt(p, "closing", n, tries) = 1
         /\ EffortAt(p, "failing", n, tries) = 1
         /\ EffortAt(p, "deleting", n, tries) = 1
         /\ EffortAt(p, "idle", n, tries) = 0
  BY DEF EffortAt

LEMMA SourcesLeft ==
  ASSUME CallInv, NEW c \in Calls, step[c] # "idle"
  PROVE  /\ Downloads(pkg[c]) \in Nat
         /\ step[c] \in {"fetching", "extracting"} => source[c] <= Downloads(pkg[c])
  <1>1. Sequential(pkg[c]) /\ Knows(pkg[c], step[c], source[c])
    BY AtWork
  <1> QED BY <1>1, NumbersOf DEF Downloads, Knows

\* What a call has before it while it is at work, and when it is not.
LEMMA EffortIsMeasured ==
  ASSUME CallInv, AttemptInv, NEW c \in Calls
  PROVE  Effort(c) \in Nat /\ (step[c] # "idle" => Effort(c) > 0)
  <1> DEFINE p == pkg[c]
             N == Downloads(p)
             E == EffortAt(p, step[c], source[c], attempt[c])
  <1>1. step[c] \in CallSteps /\ source[c] \in Nat /\ attempt[c] \in Nat
    BY DEF CallInv
  <1>2. Attempts \in Nat /\ (step[c] = "asking" => attempt[c] <= Attempts)
    BY InstallAssumption DEF AttemptInv
  <1>3. step[c] # "idle" => N \in Nat /\ (step[c] \in {"fetching", "extracting"} => source[c] <= N)
    BY SourcesLeft
  <1>4. CASE step[c] \in {"removing", "making"}
    <2>1. E = 13 + Attempts + 2 * N \/ E = 12 + Attempts + 2 * N
      BY <1>4, EffortValues
    <2>2. N \in Nat
      BY <1>3, <1>4
    <2> HIDE DEF N, E
    <2> QED BY <1>2, <2>1, <2>2 DEF E, Effort
  <1>5. CASE step[c] = "asking"
    <2>1. E = 11 + Attempts - attempt[c]
      BY <1>5, EffortValues
    <2> HIDE DEF E
    <2> QED BY <1>1, <1>2, <1>5, <2>1 DEF E, Effort
  <1>6. CASE step[c] \in {"fetching", "extracting"}
    <2>1. E = 10 + 2 * (N - source[c]) \/ E = 9 + 2 * (N - source[c])
      BY <1>6, EffortValues
    <2>2. N \in Nat /\ source[c] <= N
      BY <1>3, <1>6
    <2> HIDE DEF N, E
    <2> QED BY <1>1, <2>1, <2>2 DEF E, Effort
  <1>7. CASE step[c] \notin {"removing", "making", "asking", "fetching", "extracting"}
    <2>1. E \in {0, 1, 2, 3, 4, 5, 6, 7, 8} /\ (step[c] # "idle" => E # 0)
      BY <1>1, <1>7 DEF EffortAt, CallSteps
    <2> HIDE DEF E
    <2> QED BY <2>1 DEF E, Effort
  <1> QED BY <1>4, <1>5, <1>6, <1>7

LEMMA SameEffort ==
  ASSUME NEW c \in Calls, config' = config, UNCHANGED <<step[c], pkg[c], source[c], attempt[c]>>
  PROVE  Effort(c)' = Effort(c)
  <1>1. \A q : Downloads(q)' = Downloads(q)
    BY SameConfig DEF Downloads
  <1>2. \A q, x, m, t : EffortAt(q, x, m, t)' = EffortAt(q, x, m, t)
    BY <1>1, SameConfig DEF EffortAt
  <1>3. Effort(c)' = EffortAt(pkg[c], step[c], source[c], attempt[c])'
    BY DEF Effort
  <1> QED BY <1>2, <1>3 DEF Effort

\* Only a failing answer of the index is another attempt.
LEMMA AttemptsCounted ==
  ASSUME CallInv, AttemptInv, NEW c \in Calls, Works(c), step'[c] = "asking"
  PROVE  attempt'[c] <= Attempts
  <1>1. step = [d \in Calls |-> step[d]] /\ attempt = [d \in Calls |-> attempt[d]] /\ attempt[c] \in Nat
    BY DEF CallInv
  <1>2. Attempts \in Nat /\ Attempts >= 1
    BY InstallAssumption
  <1>3. CASE MakeDirectory(c)
    BY <1>1, <1>2, <1>3 DEF MakeDirectory
  <1>4. CASE AskAgain(c)
    <2>1. attempt[c] < Attempts /\ attempt'[c] = attempt[c] + 1
      BY <1>1, <1>4 DEF AskAgain, Goes
    <2> QED BY <1>1, <1>2, <2>1
  <1>5. CASE Extract(c)
    <2>1. step[c] # "idle" /\ Sequential(pkg[c]) /\ source[c] \in Nat
      BY AtWork, OwnPackage
    <2> DEFINE m == IF source[c] = 0 THEN 1 ELSE source[c]
    <2>2. m \in Nat /\ m # 0
      BY <2>1
    <2>3. After(pkg[c], m) # "asking"
      BY <2>1, <2>2, AfterSources
    <2> QED BY <1>1, <1>5, <2>3 DEF Extract, Goes
  <1>6. CASE RemovedResidue(c) \/ DirectoryFails(c) \/ AskIndex(c) \/ FetchSource(c) \/ RunScript(c)
    BY <1>1, <1>6 DEF RemovedResidue, DirectoryFails, AskIndex, FetchSource, RunScript, Goes, Ends
  <1>7. CASE WriteInfo(c) \/ WriteRest(c) \/ Register(c) \/ Chowned(c) \/ Mark(c) \/ InstallFails(c)
    BY <1>1, <1>7 DEF WriteInfo, WriteRest, Register, Chowned, Mark, InstallFails, Goes
  <1>8. CASE Close(c) \/ CloseFails(c) \/ Uninstalled(c) \/ UninstallFails(c)
    BY <1>1, <1>8 DEF Close, CloseFails, Uninstalled, UninstallFails, Ends
  <1> QED BY <1>3, <1>4, <1>5, <1>6, <1>7, <1>8 DEF Works

LEMMA AttemptInvNext == CallInv /\ AttemptInv /\ [Next]_vars => AttemptInv'
  <1> SUFFICES ASSUME CallInv, AttemptInv, [Next]_vars PROVE AttemptInv'
    OBVIOUS
  <1>1. ppman \in Calls /\ step = [c \in Calls |-> step[c]]
    BY ProvisionAssumption DEF CallInv
  <1>2. ASSUME NEW c \in Calls, Works(c) PROVE AttemptInv'
    <2>1. \A d \in Calls \ {c} : step'[d] = step[d] /\ attempt'[d] = attempt[d]
      <3>1. step' = [step EXCEPT ![c] = step'[c]] /\ attempt' = [attempt EXCEPT ![c] = attempt'[c]]
        BY <1>2, OwnPackage
      <3> QED BY <3>1 DEF CallInv
    <2> QED BY <1>2, <2>1, AttemptsCounted DEF AttemptInv
  <1>3. ASSUME NEW c \in Calls, NEW p, Request(c, p) PROVE AttemptInv'
    <2>1. attempt' = attempt /\ \A d \in Calls : step'[d] = "asking" => step[d] = "asking"
      BY <1>1, <1>3, RequestSteps
    <2> QED BY <2>1 DEF AttemptInv
  <1>4. CASE Crash
    BY <1>4 DEF Crash, AttemptInv
  <1>5. CASE UNCHANGED <<step, attempt>>
    BY <1>5 DEF AttemptInv
  <1> QED BY <1>1, <1>2, <1>3, <1>4, <1>5, Steps DEF Boot, RemoveSome, calls, installVars

LEMMA EffortFalls ==
  ASSUME CallInv, AttemptInv, NEW c \in Calls, Works(c)
  PROVE  Effort(c)' < Effort(c)
  <1> DEFINE p == pkg[c]
             at == step[c]
             n == source[c]
             tries == attempt[c]
             N == Downloads(p)
             to == step'[c]
             Before == EffortAt(p, at, n, tries)
             Now == EffortAt(p, to, source'[c], attempt'[c])
  <1>1. at # "idle" /\ UNCHANGED <<config, pkg>>
    BY OwnPackage
  <1>2. p \in Packages /\ Sequential(p) /\ Knows(p, at, n) /\ n \in Nat /\ tries \in Nat
    BY <1>1, AtWork
  <1>3. N \in Nat /\ (at \in {"fetching", "extracting"} => n <= N)
    BY <1>1, SourcesLeft
  <1>4. (at = "asking" => tries <= Attempts) /\ Attempts \in Nat /\ Attempts >= 1
    BY InstallAssumption DEF AttemptInv
  <1>5. Effort(c) = Before /\ Effort(c)' = Now
    <2>1. \A q : Downloads(q)' = Downloads(q)
      BY <1>1, SameConfig DEF Downloads
    <2>2. \A q, x, m, t : EffortAt(q, x, m, t)' = EffortAt(q, x, m, t)
      BY <1>1, <2>1, SameConfig DEF EffortAt
    <2>3. Effort(c)' = EffortAt(pkg[c], step[c], source[c], attempt[c])'
      BY DEF Effort
    <2> QED BY <1>1, <2>2, <2>3 DEF Effort
  <1>6. /\ step = [d \in Calls |-> step[d]] /\ source = [d \in Calls |-> source[d]]
        /\ attempt = [d \in Calls |-> attempt[d]]
    BY DEF CallInv
  <1>7. CASE RemovedResidue(c)
    <2>1. at = "removing" /\ to = "making"
      BY <1>6, <1>7 DEF RemovedResidue, Goes
    <2>2. Before = 13 + Attempts + 2 * N /\ Now = 12 + Attempts + 2 * N
      BY <2>1, EffortValues
    <2> HIDE DEF Before, Now, N
    <2> QED BY <1>3, <1>4, <1>5, <2>2
  <1>8. CASE MakeDirectory(c)
    <2>1. at = "making" /\ to = After(p, 0) /\ attempt'[c] = 1
          /\ source'[c] = (IF Plan(p) = "prebuilt" THEN 0 ELSE 1)
      BY <1>6, <1>8 DEF MakeDirectory, Goes
    <2>2. \/ to = "asking"
          \/ to = "fetching" /\ source'[c] = 1
          \/ to \in {"build", "post_install"}
      BY <1>2, <2>1, AfterSources
    <2>3. Before = 12 + Attempts + 2 * N
      BY <2>1, EffortValues
    <2>4. CASE to = "asking"
      <3>1. Now = 11 + Attempts - 1
        BY <2>1, <2>4, EffortValues
      <3> HIDE DEF Before, Now, N, to
      <3> QED BY <1>3, <1>4, <1>5, <2>3, <3>1
    <2>5. CASE to = "fetching" /\ source'[c] = 1
      <3>1. Now = 10 + 2 * (N - 1)
        BY <2>5, EffortValues
      <3> HIDE DEF Before, Now, N, to
      <3> QED BY <1>3, <1>4, <1>5, <2>3, <3>1
    <2>6. CASE to \in {"build", "post_install"}
      <3>1. Now \in {7, 8}
        BY <2>6, EffortValues
      <3> HIDE DEF Before, Now, N, to
      <3> QED BY <1>3, <1>4, <1>5, <2>3, <3>1
    <2> QED BY <2>2, <2>4, <2>5, <2>6
  <1>9. CASE AskIndex(c) \/ AskAgain(c)
    <2>1. at = "asking" /\ Plan(p) = "prebuilt" /\ n = 0
      BY <1>2, <1>9 DEF AskIndex, AskAgain, Goes, Knows
    <2>2. N = 0
      BY <2>1 DEF Downloads
    <2>3. \/ to = "failing"
          \/ to = "fetching" /\ source'[c] = 0
          \/ to = "asking" /\ attempt'[c] = tries + 1
      BY <1>6, <1>9, <2>1 DEF AskIndex, AskAgain, Goes
    <2>4. Before = 11 + Attempts - tries
      BY <2>1, EffortValues
    <2>5. Now = 1 \/ Now = 10 + 2 * (N - 0) \/ Now = 11 + Attempts - (tries + 1)
      BY <2>3, EffortValues
    <2> HIDE DEF Before, Now, N, to
    <2> QED BY <1>2, <1>3, <1>4, <1>5, <2>1, <2>2, <2>4, <2>5
  <1>10. CASE FetchSource(c)
    <2>1. at = "fetching" /\ to \in {"extracting", "failing"} /\ source'[c] = n
      BY <1>6, <1>10 DEF FetchSource, Goes
    <2>2. Before = 10 + 2 * (N - n) /\ (Now = 9 + 2 * (N - n) \/ Now = 1)
      BY <2>1, EffortValues
    <2>3. n <= N
      BY <1>3, <2>1
    <2> HIDE DEF Before, Now, N, to
    <2> QED BY <1>2, <1>3, <1>5, <2>2, <2>3
  <1>11. CASE Extract(c)
    <2> DEFINE m == IF n = 0 THEN 1 ELSE n
    <2>1. at = "extracting" /\ to = After(p, m) /\ source'[c] = n + 1 /\ m \in Nat /\ m > 0
      BY <1>2, <1>6, <1>11 DEF Extract, Goes
    <2>2. \/ to = "fetching"
          \/ to \in {"build", "post_install", "writing"}
      <3> HIDE DEF m
      <3> QED BY <1>2, <2>1, AfterSources
    <2>3. Before = 9 + 2 * (N - n) /\ n <= N
      BY <1>3, <2>1, EffortValues
    <2>4. Now = 10 + 2 * (N - (n + 1)) \/ Now \in {6, 7, 8}
      BY <2>1, <2>2, EffortValues
    <2> HIDE DEF Before, Now, N, to
    <2> QED BY <1>2, <1>3, <1>5, <2>3, <2>4
  <1>12. CASE RunScript(c)
    <2>1. <<at, to>> \in {<<"build", "post_install">>, <<"build", "writing">>, <<"post_install", "writing">>}
      BY <1>6, <1>12 DEF RunScript, Goes
    <2>2. Before \in {7, 8} /\ Now \in {6, 7} /\ Now # Before
      BY <2>1, EffortValues
    <2> HIDE DEF Before, Now
    <2> QED BY <1>5, <2>2
  <1>13. CASE WriteInfo(c) \/ WriteRest(c) \/ Register(c) \/ Chowned(c) \/ Mark(c)
    <2>1. <<at, to>> \in {<<"writing", "rendering">>, <<"rendering", "registering">>, <<"registering", "chowning">>,
                          <<"chowning", "marking">>, <<"marking", "closing">>}
      BY <1>6, <1>13 DEF WriteInfo, WriteRest, Register, Chowned, Mark, Goes
    <2>2. <<Before, Now>> \in {<<6, 5>>, <<5, 4>>, <<4, 3>>, <<3, 2>>, <<2, 1>>}
      BY <2>1, EffortValues
    <2> HIDE DEF Before, Now
    <2> QED BY <1>5, <2>2
  <1>14. CASE InstallFails(c)
    <2>1. at \in {"fetching", "extracting", "build", "post_install", "writing", "rendering", "registering",
                  "chowning", "marking"} /\ to = "failing"
      BY <1>6, <1>14 DEF InstallFails, Filling, Goes
    <2>2. Now = 1
      BY <2>1, EffortValues
    <2>3. \/ Before = 10 + 2 * (N - n) /\ n <= N
          \/ Before = 9 + 2 * (N - n) /\ n <= N
          \/ Before \in 2..8
      BY <1>3, <2>1, EffortValues
    <2> HIDE DEF Before, Now, N
    <2> QED BY <1>2, <1>3, <1>5, <2>2, <2>3
  <1>15. CASE DirectoryFails(c) \/ Close(c) \/ CloseFails(c) \/ Uninstalled(c) \/ UninstallFails(c)
    <2>1. to = "idle"
      BY <1>6, <1>15 DEF DirectoryFails, Close, CloseFails, Uninstalled, UninstallFails, Ends
    <2>2. Now = 0
      BY <2>1, EffortValues
    <2>3. Effort(c) \in Nat /\ Effort(c) > 0
      BY <1>1, EffortIsMeasured
    <2> HIDE DEF Now
    <2> QED BY <1>5, <2>2, <2>3
  <1> QED BY <1>7, <1>8, <1>9, <1>10, <1>11, <1>12, <1>13, <1>14, <1>15 DEF Works

\* Somebody's step is due: the client is done, a call is at work, or the client
\* may go on: read the spec file or fail to, send an operation, receive, finish.
Due ==
    \/ phase \in {"unread", "done", "failed"}
    \/ \E c \in Calls : step[c] # "idle"
    \/ /\ phase = "working" /\ request = None
       /\ \/ todo = {}
          \/ \E operation \in NextOperations : operation.package \in Listed
    \/ request # None /\ outcome[ppman] # Undefined

\* Nobody takes a step without getting nearer the end: a call that is at work
\* is where it was or has less before it, whoever moves, and so has the client.
Nearer ==
    /\ \A c \in Calls : step[c] # "idle" =>
            \/ Effort(c)' < Effort(c)
            \/ Effort(c)' = Effort(c) /\ UNCHANGED <<step[c], pkg[c], source[c], attempt[c], outcome[c]>>
    /\ phase # "unread" => Left' < Left \/ UNCHANGED <<phase, rules, listing, todo, request, failures>>

Underway ==
    /\ request # None => phase = "working" /\ (step[ppman] = "idle" <=> outcome[ppman] # Undefined)
    /\ request = None => step[ppman] = "idle"
    /\ IsFiniteSet(todo)
    /\ \A operation \in todo : operation # None /\ operation.package \in Listed

LEMMA SomebodyIsDue ==
  ASSUME ClientInv, Underway
  PROVE  Due
  <1>1. SUFFICES ASSUME phase = "working", \A c \in Calls : step[c] = "idle"
                 PROVE  Due
    BY DEF Due, ClientInv
  <1>2. CASE request # None
    BY <1>1, <1>2, ProvisionAssumption DEF Due, Underway
  <1>3. CASE request = None
    <2>1. todo # {} => NextOperations # {} /\ NextOperations \subseteq todo
      BY DEF NextOperations, Installs
    <2> QED BY <1>1, <1>3, <2>1 DEF Due, Underway
  <1> QED BY <1>2, <1>3

\* What is asked for of finitely many packages are finitely many operations.
LEMMA OperationsAreFinite ==
  ASSUME NEW new \in SUBSET Packages, NEW old \in SUBSET Packages
  PROVE  IsFiniteSet({InstallOf(p) : p \in new} \cup {UninstallOf(p) : p \in old})
  <1> DEFINE S == {InstallOf(p) : p \in new}
             T == {UninstallOf(p) : p \in old}
             f == [p \in new |-> InstallOf(p)]
             g == [p \in old |-> UninstallOf(p)]
  <1>1. f \in Surjection(new, S) /\ g \in Surjection(old, T)
    BY DEF Surjection
  <1>2. IsFiniteSet(new) /\ IsFiniteSet(old)
    BY PackagesAssumption, FS_Subset
  <1> HIDE DEF f, g
  <1>3. IsFiniteSet(S) /\ IsFiniteSet(T)
    BY <1>1, <1>2, FS_Surjection
  <1> HIDE DEF S, T
  <1>4. IsFiniteSet(S \cup T)
    BY <1>3, FS_Union
  <1> QED BY <1>4 DEF S, T

LEMMA UnderwayNext ==
  ASSUME CallInv, ClientInv, Underway, [Next]_vars
  PROVE  Underway'
  <1>1. ppman \in Calls /\ step = [c \in Calls |-> step[c]] /\ outcome = [c \in Calls |-> outcome[c]]
    BY ProvisionAssumption DEF CallInv
  <1>2. config' = config => Listed' = Listed
    BY SameConfig
  <1>3. None' = None /\ Undefined \notin {"succeeded", "failed"}
    BY InstallAssumption DEF None
  <1>4. CASE UNCHANGED <<config, step, outcome, phase, todo, request>>
    BY <1>2, <1>3, <1>4 DEF Underway
  <1>5. CASE Crash /\ UNCHANGED clientVars
    <2>1. /\ config' = config /\ UNCHANGED <<phase, todo, request>>
          /\ step'[ppman] = "idle"
          /\ step[ppman] # "idle" => outcome'[ppman] = "failed"
          /\ outcome'[ppman] \in {outcome[ppman], "failed"}
      BY <1>1, <1>5 DEF Crash, clientVars
    <2> QED BY <1>2, <1>3, <2>1 DEF Underway
  <1>6. CASE ReadSpec
    <2>1. phase = "unread" /\ phase' = "working" /\ UNCHANGED <<config, step, outcome, request>>
      BY <1>6 DEF ReadSpec, installVars, calls
    <2>2. listing'.packages = Listed /\ listing'.installed \subseteq Listed /\ Listed' = Listed
      BY <1>2, <1>6, <2>1 DEF ReadSpec
    <2>3. todo' = Changes' /\ Changes' = {InstallOf(p) : p \in New'} \cup {UninstallOf(p) : p \in Old'}
      BY <1>6, ReadsSpec DEF Changes
    <2>4. New' \subseteq Listed' /\ Old' \subseteq Listed' /\ Listed' \subseteq Packages
      BY <2>2 DEF New, Old, Wanted, Listed
    <2>5. IsFiniteSet(todo')
      BY <2>3, <2>4, OperationsAreFinite
    <2>6. \A operation \in todo' : operation # None' /\ operation.package \in Listed'
      BY <1>3, <2>3, <2>4 DEF InstallOf, UninstallOf, None
    <2> QED BY <1>3, <2>1, <2>5, <2>6 DEF Underway, ClientInv
  <1>7. ASSUME NEW p, Request(ppman, p), Send PROVE Underway'
    <2>1. PICK operation \in NextOperations : request' = operation /\ todo' = todo \ {operation}
      BY <1>7 DEF Send
    <2>2. phase = "working" /\ phase' = phase /\ request = None
      BY <1>7 DEF Send
    <2>3. config' = config /\ (step'[ppman] = "idle" <=> outcome'[ppman] # Undefined)
      BY <1>1, <1>3, <1>7, RequestSteps
    <2>4. operation \in todo /\ request' # None
      BY <2>1 DEF NextOperations, Installs, Underway
    <2>5. IsFiniteSet(todo')
      BY <2>1, FS_RemoveElement DEF Underway
    <2> QED BY <1>2, <1>3, <2>1, <2>2, <2>3, <2>4, <2>5 DEF Underway
  <1>8. CASE UNCHANGED installVars /\ (ReadFails \/ Receive \/ Finish)
    <2>1. UNCHANGED <<config, step, outcome, todo>>
      BY <1>8 DEF installVars, calls, ReadFails, Receive, Finish
    <2>2. phase \in {"unread", "failed"} => request = None
      BY DEF ClientInv
    <2>3. CASE ReadFails \/ Finish
      BY <1>2, <1>3, <2>1, <2>2, <2>3 DEF ReadFails, Finish, Underway
    <2>4. CASE Receive
      BY <1>2, <1>3, <2>1, <2>4 DEF Receive, Underway
    <2> QED BY <1>8, <2>3, <2>4
  <1>9. ASSUME NEW c \in Calls, NEW p \in Packages, Request(c, p), c # ppman, OtherRequest(c) PROVE Underway'
    <2>1. config' = config /\ step'[ppman] = step[ppman] /\ outcome'[ppman] = outcome[ppman]
      BY <1>1, <1>9, RequestSteps
    <2>2. UNCHANGED <<phase, todo, request>>
      BY <1>9 DEF OtherRequest
    <2> QED BY <1>2, <1>3, <2>1, <2>2 DEF Underway
  <1>10. ASSUME NEW c \in Calls, Works(c), UNCHANGED clientVars PROVE Underway'
    <2>1. /\ step[c] # "idle" /\ config' = config /\ UNCHANGED <<phase, todo, request>>
          /\ \A d \in Calls \ {c} : step'[d] = step[d] /\ outcome'[d] = outcome[d]
      <3>1. /\ step[c] # "idle" /\ config' = config
            /\ step' = [step EXCEPT ![c] = step'[c]] /\ outcome' = [outcome EXCEPT ![c] = outcome'[c]]
        BY <1>10, OwnPackage
      <3> QED BY <1>1, <1>10, <3>1 DEF clientVars
    <2>2. \/ step'[c] = "idle" /\ outcome'[c] # Undefined
          \/ step'[c] # "idle" /\ outcome'[c] = outcome[c]
      <3>1. CASE Uninstalled(c) \/ DirectoryFails(c) \/ Close(c) \/ CloseFails(c) \/ UninstallFails(c)
        BY <1>1, <1>3, <3>1 DEF Uninstalled, DirectoryFails, Close, CloseFails, UninstallFails, Ends
      <3> QED BY <1>10, <3>1, HowCallsEnd
    <2>3. CASE c = ppman
      BY <1>2, <1>3, <2>1, <2>2, <2>3 DEF Underway
    <2>4. CASE c # ppman
      BY <1>1, <1>2, <1>3, <2>1, <2>4 DEF Underway
    <2> QED BY <2>3, <2>4
  <1>11. ASSUME NEW c \in Calls, RemoveSome(c), UNCHANGED clientVars PROVE Underway'
    BY <1>4, <1>11 DEF RemoveSome, calls, clientVars
  <1>12. CASE Boot /\ UNCHANGED clientVars
    BY <1>4, <1>12 DEF Boot, calls, clientVars
  <1>13. CASE UNCHANGED installVars /\ UNCHANGED clientVars
    BY <1>4, <1>13 DEF installVars, calls, clientVars
  <1> QED BY <1>1, <1>5, <1>6, <1>7, <1>8, <1>9, <1>10, <1>11, <1>12, <1>13, Steps

LEMMA CallsAreNearer ==
  ASSUME CallInv, AttemptInv, [Next]_vars, NEW c \in Calls, step[c] # "idle"
  PROVE  \/ Effort(c)' < Effort(c)
         \/ Effort(c)' = Effort(c) /\ UNCHANGED <<step[c], pkg[c], source[c], attempt[c], outcome[c]>>
  <1>1. /\ step = [d \in Calls |-> step[d]] /\ pkg = [d \in Calls |-> pkg[d]] /\ ppman \in Calls
        /\ source = [d \in Calls |-> source[d]] /\ attempt = [d \in Calls |-> attempt[d]]
        /\ outcome = [d \in Calls |-> outcome[d]]
    BY ProvisionAssumption DEF CallInv
  <1>2. ASSUME NEW d \in Calls, NEW p, Request(d, p)
        PROVE  Effort(c)' = Effort(c) /\ UNCHANGED <<step[c], pkg[c], source[c], attempt[c], outcome[c]>>
    <2>1. d # c /\ config' = config /\ UNCHANGED <<step[c], pkg[c], source[c], attempt[c], outcome[c]>>
      BY <1>1, <1>2, RequestSteps
    <2> QED BY <2>1, SameEffort
  <1>3. ASSUME NEW d \in Calls, d # c, Works(d)
        PROVE  Effort(c)' = Effort(c) /\ UNCHANGED <<step[c], pkg[c], source[c], attempt[c], outcome[c]>>
    <2>1. /\ UNCHANGED <<config, pkg>>
          /\ step' = [step EXCEPT ![d] = step'[d]] /\ source' = [source EXCEPT ![d] = source'[d]]
          /\ attempt' = [attempt EXCEPT ![d] = attempt'[d]] /\ outcome' = [outcome EXCEPT ![d] = outcome'[d]]
      BY <1>3, OwnPackage
    <2>2. UNCHANGED <<step[c], pkg[c], source[c], attempt[c], outcome[c]>>
      BY <1>1, <1>3, <2>1
    <2> QED BY <2>1, <2>2, SameEffort
  <1>4. CASE UNCHANGED <<config, step, pkg, source, attempt, outcome>>
    BY <1>4, SameEffort
  <1>5. CASE Crash
    <2>1. step'[c] = "idle" /\ config' = config
      BY <1>5 DEF Crash
    <2>2. Effort(c)' = 0
      BY <2>1 DEF Effort, EffortAt
    <2>3. Effort(c) \in Nat /\ Effort(c) > 0
      BY EffortIsMeasured
    <2> QED BY <2>2, <2>3
  <1>6. ASSUME NEW d \in Calls, Works(d) \/ RemoveSome(d)
        PROVE  \/ Effort(c)' < Effort(c)
               \/ Effort(c)' = Effort(c) /\ UNCHANGED <<step[c], pkg[c], source[c], attempt[c], outcome[c]>>
    <2>1. CASE Works(d) /\ d # c
      BY <1>3, <2>1
    <2>2. CASE Works(d) /\ d = c
      BY <2>2, EffortFalls
    <2>3. CASE RemoveSome(d)
      BY <1>4, <2>3 DEF RemoveSome, calls
    <2> QED BY <1>6, <2>1, <2>2, <2>3
  <1>7. CASE Boot \/ UNCHANGED installVars
    BY <1>4, <1>7 DEF Boot, installVars, calls
  <1> QED BY <1>1, <1>2, <1>5, <1>6, <1>7, Steps

LEMMA ClientIsNearer ==
  ASSUME Underway, [Next]_vars, phase # "unread"
  PROVE  Left' < Left \/ UNCHANGED <<phase, rules, listing, todo, request, failures>>
  <1> DEFINE n == Cardinality(todo)
  <1>1. n \in Nat
    BY FS_CardinalityType DEF Underway
  <1>2. CASE Send
    <2>1. PICK operation \in NextOperations : request' = operation /\ todo' = todo \ {operation}
      BY <1>2 DEF Send
    <2>2. operation \in todo /\ operation # None
      BY <2>1 DEF NextOperations, Installs, Underway
    <2>3. Cardinality(todo') = n - 1
      BY <2>1, <2>2, FS_RemoveElement DEF Underway
    <2>4. request = None /\ request' # None' /\ phase = "working" /\ phase' = "working"
      BY <1>2, <2>1, <2>2 DEF Send, None
    <2>5. Left = 2 * n + 0 + 1 /\ Left' = 2 * (n - 1) + 1 + 1
      BY <2>3, <2>4 DEF Left
    <2> HIDE DEF n
    <2> QED BY <1>1, <2>5
  <1>3. CASE Receive
    <2>1. request # None /\ request' = None' /\ todo' = todo /\ phase' = phase
      BY <1>3 DEF Receive, None
    <2>2. PICK m \in {0, 1} : Left = 2 * n + 1 + m /\ Left' = 2 * n + 0 + m
      BY <2>1 DEF Left
    <2> HIDE DEF n
    <2> QED BY <1>1, <2>2
  <1>4. CASE Finish
    <2>1. phase = "working" /\ phase' = "done" /\ todo' = todo /\ request = None /\ request' = None'
      BY <1>4 DEF Finish, None
    <2>2. Left = 2 * n + 0 + 1 /\ Left' = 2 * n + 0 + 0
      BY <2>1 DEF Left
    <2> HIDE DEF n
    <2> QED BY <1>1, <2>2
  <1>5. CASE ~Send /\ ~Receive /\ ~Finish
    BY <1>5 DEF Next, Client, ReadSpec, ReadFails, OtherRequest, Call, vars, clientVars
  <1> QED BY <1>2, <1>3, <1>4, <1>5

\* However many packages there are and however many clients, `ppman spec`
\* comes to its end but for what it waits for: as long as it has not, some step
\* is due, of a call or of its own, and no call and no client steps without
\* getting nearer its end, of which only so many steps are left (ppman.ts,
\* spec; package.ts, install; package_index.ts, fetch_index).
THEOREM SpecGetsNearerItsEnd ==
  Spec => /\ []Due
          /\ [](Left \in Nat /\ \A c \in Calls : Effort(c) \in Nat)
          /\ [][Nearer]_vars
  <1>1. Init => Underway /\ AttemptInv
    <2>1. IsFiniteSet({})
      BY FS_EmptySet
    <2> QED BY <2>1, ProvisionAssumption DEF Init, InstallInit, Underway, AttemptInv
  <1>2. CallInv /\ ClientInv /\ Underway /\ [Next]_vars => Underway'
    BY UnderwayNext
  <1>3. Spec => []Underway /\ []AttemptInv
    BY <1>1, <1>2, AttemptInvNext, CallInvariant, ClientInvariant, PTL DEF Spec
  <1>4. ClientInv /\ Underway => Due
    BY SomebodyIsDue
  <1>5. Underway => Left \in Nat
    BY FS_CardinalityType DEF Underway, Left
  <1>6. CallInv /\ AttemptInv => \A c \in Calls : Effort(c) \in Nat
    BY EffortIsMeasured
  <1>7. CallInv /\ ClientInv /\ Underway /\ AttemptInv /\ [Next]_vars => Nearer
    BY CallsAreNearer, ClientIsNearer DEF Nearer
  <1>8. CallInv /\ ClientInv /\ Underway /\ AttemptInv /\ [Next]_vars => [Nearer]_vars
    BY <1>7
  <1> QED BY <1>3, <1>4, <1>5, <1>6, <1>8, CallInvariant, ClientInvariant, PTL DEF Spec
===============================================================================
