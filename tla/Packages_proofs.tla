---------------------------- MODULE Packages_proofs ----------------------------
(***************************************************************************)
(* What calls keep true of the package directories and the registry,       *)
(* through failures and crashes, proved for any number of packages and of  *)
(* calls through either endpoint.  A package is left out from when a call  *)
(* was started on it beside another, and until no trace of that can be     *)
(* left.                                                                   *)
(***************************************************************************)
EXTENDS Packages, TLAPS

\* A call at work has its package to itself, unless the package was raced for.
FlightInv ==
    /\ server \in {"up", "down", "failed"}
    /\ step \in [Calls -> Steps]
    /\ pkg \in [Calls -> Packages \cup {None}]
    /\ \A c \in Calls : step[c] # "idle" => pkg[c] \in Packages /\ server = "up"
    /\ \A c, d \in Calls :
         step[c] # "idle" /\ step[d] # "idle" /\ pkg[c] = pkg[d] /\ pkg[c] \notin raced => c = d

\* What is on disk of a package at each step of the call that works on it.
DiskInv ==
    /\ exists \subseteq Packages /\ info \subseteq exists /\ marker \subseteq exists
    /\ \A p \in marker : p \in info \/ p \in deleted \/ p \in raced
    /\ \A c \in Calls : pkg[c] \notin raced =>
         /\ step[c] = "deleting" => pkg[c] \in deleted
         /\ step[c] \in InstallSteps \ {"closing"} => pkg[c] \notin marker
         /\ step[c] \in {"rendering", "registering", "chowning", "marking", "closing"} => pkg[c] \in info

ResidueInv == FlightInv /\ DiskInv

LEMMA ResidueInit == Init => ResidueInv
  BY PackagesAssumption DEF Init, ResidueInv, FlightInv, DiskInv, Steps, InstallSteps, None

\* A call of either kind that begins: it is alone, or the package is raced for.
LEMMA BeginsFacts ==
  ASSUME FlightInv, NEW c \in Calls, NEW p \in Packages, NEW endpoint,
         NEW s \in Steps \ {"idle"}, Begins(c, p, endpoint, s)
  PROVE  /\ step[c] = "idle" /\ step'[c] = s /\ pkg'[c] = p
         /\ \A d \in Calls \ {c} : step'[d] = step[d] /\ pkg'[d] = pkg[d]
         /\ p \notin raced' => Working(p) = {} /\ p \notin raced
         /\ \A q \in Packages \ {p} : (q \in raced' <=> q \in raced) /\ Working(q)' = Working(q)
         /\ Working(p)' # {}
         /\ FlightInv'
  <1>1. /\ step[c] = "idle" /\ server = "up" /\ server' = "up"
        /\ step' = [step EXCEPT ![c] = s] /\ pkg' = [pkg EXCEPT ![c] = p]
        /\ raced' = IF Working(p) = {} THEN raced ELSE raced \cup {p}
    BY DEF Begins
  <1>2. /\ step'[c] = s /\ pkg'[c] = p
        /\ \A d \in Calls \ {c} : step'[d] = step[d] /\ pkg'[d] = pkg[d]
        /\ step' \in [Calls -> Steps] /\ pkg' \in [Calls -> Packages \cup {None}]
    BY <1>1 DEF FlightInv
  <1>3. p \notin raced' => Working(p) = {} /\ p \notin raced
    BY <1>1
  <1>4. \A q \in Packages \ {p} : (q \in raced' <=> q \in raced) /\ Working(q)' = Working(q)
    BY <1>1, <1>2 DEF Working
  <1>5. Working(p)' # {}
    BY <1>2 DEF Working
  <1>6. p \notin raced' => \A d \in Calls \ {c} : step[d] # "idle" => pkg[d] # p
    BY <1>3 DEF Working
  <1>7. FlightInv'
    <2>1. ASSUME NEW d \in Calls, NEW e \in Calls, step'[d] # "idle", step'[e] # "idle",
                 pkg'[d] = pkg'[e], pkg'[d] \notin raced', d # e
          PROVE  FALSE
      <3>1. CASE d = c
        BY <1>2, <1>6, <2>1, <3>1
      <3>2. CASE e = c
        BY <1>2, <1>6, <2>1, <3>2
      <3>3. CASE d # c /\ e # c
        <4>1. pkg[d] \in Packages /\ pkg[d] = pkg[e] /\ step[d] # "idle" /\ step[e] # "idle"
          BY <1>2, <2>1, <3>3 DEF FlightInv
        <4>2. pkg[d] \notin raced
          BY <1>1, <1>2, <2>1, <3>3
        <4> QED BY <2>1, <4>1, <4>2 DEF FlightInv
      <3> QED BY <3>1, <3>2, <3>3
    <2> QED BY <1>1, <1>2, <2>1 DEF FlightInv
  <1> QED BY <1>1, <1>2, <1>3, <1>4, <1>5, <1>7

\* A call that works on a package nobody raced for is the only one.
LEMMA WorkingAlone ==
  ASSUME FlightInv, NEW c \in Calls, step[c] # "idle"
  PROVE  /\ pkg[c] \in Packages /\ server = "up"
         /\ pkg[c] \notin raced =>
              /\ Working(pkg[c]) = {c}
              /\ \A d \in Calls \ {c} : step[d] # "idle" => pkg[d] # pkg[c]
  BY DEF FlightInv, Working

\* A call that goes on: nobody comes to work on a package or leaves it.
LEMMA GoesOn ==
  ASSUME FlightInv, NEW c \in Calls, NEW s \in Steps \ {"idle"}, step[c] # "idle",
         Goes(c, step[c], s), raced' \in {raced, raced \ {pkg[c]}},
         pkg[c] \in raced \ raced' => Working(pkg[c]) = {c}
  PROVE  /\ step'[c] = s /\ (\A d \in Calls \ {c} : step'[d] = step[d])
         /\ pkg' = pkg /\ server' = server
         /\ \A p \in Packages : Working(p)' = Working(p)
         /\ FlightInv'
  <1>1. /\ step'[c] = s /\ (\A d \in Calls \ {c} : step'[d] = step[d])
        /\ pkg' = pkg /\ server' = server /\ step' \in [Calls -> Steps]
    BY DEF Goes, FlightInv
  <1>2. \A d \in Calls : step'[d] # "idle" <=> step[d] # "idle"
    BY <1>1
  <1>3. ASSUME NEW d \in Calls, NEW e \in Calls, step'[d] # "idle", step'[e] # "idle",
               pkg'[d] = pkg'[e], pkg'[d] \notin raced'
        PROVE  d = e
    <2>1. step[d] # "idle" /\ step[e] # "idle" /\ pkg[d] = pkg[e]
      BY <1>1, <1>2, <1>3
    <2>2. CASE pkg[d] \in raced
      <3>1. pkg[d] = pkg[c] /\ Working(pkg[c]) = {c}
        BY <1>1, <1>3, <2>2
      <3>2. d \in Working(pkg[c]) /\ e \in Working(pkg[c])
        BY <2>1, <3>1 DEF Working
      <3> QED BY <3>1, <3>2
    <2>3. CASE pkg[d] \notin raced
      BY <2>1, <2>3 DEF FlightInv
    <2> QED BY <2>2, <2>3
  <1> QED BY <1>1, <1>2, <1>3 DEF FlightInv, Working

\* A call that ends leaves its package to the others.
LEMMA EndsFacts ==
  ASSUME FlightInv, NEW c \in Calls, step[c] # "idle", Ends(c), raced' \in {raced, raced \ {pkg[c]}},
         pkg[c] \in raced \ raced' => Working(pkg[c]) = {c}
  PROVE  /\ step'[c] = "idle" /\ (\A d \in Calls \ {c} : step'[d] = step[d])
         /\ pkg' = pkg /\ server' = server
         /\ \A p \in Packages : Working(p)' = IF p = pkg[c] THEN Working(p) \ {c} ELSE Working(p)
         /\ pkg[c] \notin raced' => Working(pkg[c])' = {}
         /\ FlightInv'
  <1>1. /\ step'[c] = "idle" /\ (\A d \in Calls \ {c} : step'[d] = step[d])
        /\ pkg' = pkg /\ server' = server /\ step' \in [Calls -> Steps]
    BY DEF Ends, FlightInv, Steps
  <1>2. \A p \in Packages : Working(p)' = IF p = pkg[c] THEN Working(p) \ {c} ELSE Working(p)
    BY <1>1 DEF Working
  <1>3. pkg[c] \notin raced' => Working(pkg[c]) = {c}
    BY WorkingAlone
  <1>4. pkg[c] \notin raced' => Working(pkg[c])' = {}
    <2>1. pkg[c] \in Packages
      BY WorkingAlone
    <2> QED BY <1>1, <1>2, <1>3, <2>1
  <1>5. \A d \in Calls \ {c} : step[d] # "idle" /\ pkg[d] = pkg[c] => pkg[c] \in raced'
    BY <1>3 DEF Working
  <1>6. FlightInv'
    <2>1. ASSUME NEW d \in Calls, NEW e \in Calls, step'[d] # "idle", step'[e] # "idle",
                 pkg'[d] = pkg'[e], pkg'[d] \notin raced'
          PROVE  d = e
      <3>1. d # c /\ e # c /\ step[d] # "idle" /\ step[e] # "idle" /\ pkg[d] = pkg[e]
        BY <1>1, <2>1
      <3>2. pkg[d] # pkg[c]
        BY <1>1, <1>5, <2>1, <3>1
      <3>3. pkg[d] \notin raced
        BY <1>1, <2>1, <3>2
      <3> QED BY <3>1, <3>3 DEF FlightInv
    <2>2. \A d \in Calls : step'[d] # "idle" => pkg'[d] \in Packages /\ server' = "up"
      BY <1>1 DEF FlightInv
    <2> QED BY <1>1, <2>1, <2>2 DEF FlightInv
  <1> QED BY <1>1, <1>2, <1>4, <1>6

LEMMA ResidueNext ==
  ASSUME ResidueInv, [Next]_vars
  PROVE  ResidueInv'
  <1> USE PackagesAssumption DEF ResidueInv
  <1> USE DEF disk, history
  <1>1. ASSUME NEW c \in Calls, NEW p \in Packages, NEW endpoint \in Endpoints,
               StartInstall(c, p, endpoint) \/ StartUninstall(c, p, endpoint)
        PROVE  ResidueInv'
    <2>1. PICK s \in {"removing", "making", "deleting"} :
            /\ Begins(c, p, endpoint, s)
            /\ s = "deleting" => deleted' = deleted \cup {p}
            /\ s # "deleting" => deleted' = deleted /\ p \notin marker
      BY <1>1 DEF StartInstall, StartUninstall, Installed
    <2>2. s \in Steps \ {"idle"}
      BY DEF Steps, InstallSteps
    <2>3. /\ step[c] = "idle" /\ step'[c] = s /\ pkg'[c] = p
          /\ \A d \in Calls \ {c} : step'[d] = step[d] /\ pkg'[d] = pkg[d]
          /\ p \notin raced' => Working(p) = {} /\ p \notin raced
          /\ \A q \in Packages \ {p} : (q \in raced' <=> q \in raced)
          /\ FlightInv'
      BY <2>1, <2>2, BeginsFacts
    <2>4. UNCHANGED disk /\ deleted \subseteq deleted' /\ raced \subseteq raced'
      BY <2>1 DEF Begins
    <2>5. p \notin raced' => \A d \in Calls \ {c} : step[d] # "idle" => pkg[d] # p
      BY <2>3 DEF Working
    <2>6. \A d \in Calls \ {c} : step[d] # "idle" => pkg[d] \in Packages
      BY DEF FlightInv
    <2>7. \A q \in marker' : q \in info' \/ q \in deleted' \/ q \in raced'
      BY <2>4 DEF DiskInv
    <2>8. ASSUME NEW d \in Calls, pkg'[d] \notin raced'
          PROVE  /\ step'[d] = "deleting" => pkg'[d] \in deleted'
                 /\ step'[d] \in InstallSteps \ {"closing"} => pkg'[d] \notin marker'
                 /\ step'[d] \in {"rendering", "registering", "chowning", "marking", "closing"} => pkg'[d] \in info'
      <3>1. CASE d = c
        BY <2>1, <2>3, <2>4, <3>1 DEF DiskInv, InstallSteps
      <3>2. CASE d # c
        <4>1. pkg[d] \notin raced
          BY <2>3, <2>4, <2>8, <3>2
        <4> QED BY <2>3, <2>4, <3>2, <4>1 DEF DiskInv
      <3> QED BY <3>1, <3>2
    <2> QED BY <2>3, <2>4, <2>7, <2>8 DEF DiskInv
  <1>3. ASSUME NEW c \in Calls, step[c] # "idle"
        PROVE  /\ pkg[c] \in Packages
               /\ pkg[c] \notin raced =>
                    \A d \in Calls \ {c} : step[d] # "idle" => pkg[d] # pkg[c]
    BY <1>3, WorkingAlone
  <1>4. ASSUME NEW c \in Calls, RemoveSome(c) PROVE ResidueInv'
    <2>1. FlightInv'
      BY <1>4 DEF RemoveSome, FlightInv
    <2>2. DiskInv'
      BY <1>3, <1>4 DEF RemoveSome, DiskInv, InstallSteps
    <2> QED BY <2>1, <2>2
  <1>5. ASSUME NEW c \in Calls, RemovedResidue(c) PROVE ResidueInv'
    <2>1. /\ step[c] = "removing" /\ Goes(c, step[c], "making") /\ Gone(pkg[c]) /\ deleted' = deleted \ {pkg[c]}
          /\ raced' \in {raced, raced \ {pkg[c]}}
          /\ pkg[c] \in raced \ raced' => Working(pkg[c]) = {c}
      BY <1>5 DEF RemovedResidue, Cleared, Goes
    <2>2. /\ step'[c] = "making" /\ (\A d \in Calls \ {c} : step'[d] = step[d])
          /\ pkg' = pkg /\ FlightInv'
          /\ \A p \in Packages : Working(p)' = Working(p)
      BY <2>1, GoesOn DEF Steps, InstallSteps
    <2>3. pkg[c] \notin raced' => \A d \in Calls \ {c} : step[d] # "idle" => pkg[d] # pkg[c]
      BY <1>3, <2>1 DEF Working
    <2>4. DiskInv'
      BY <1>3, <2>1, <2>2, <2>3 DEF Gone, DiskInv, InstallSteps
    <2> QED BY <2>2, <2>4
  <1>7. ASSUME NEW c \in Calls, Uninstalled(c) PROVE ResidueInv'
    <2>1. /\ step[c] = "deleting" /\ Ends(c) /\ Gone(pkg[c]) /\ deleted' = deleted \ {pkg[c]}
          /\ raced' \in {raced, raced \ {pkg[c]}}
          /\ pkg[c] \in raced \ raced' => Working(pkg[c]) = {c}
      BY <1>7 DEF Uninstalled, Cleared
    <2>2. /\ step'[c] = "idle" /\ (\A d \in Calls \ {c} : step'[d] = step[d])
          /\ pkg' = pkg /\ FlightInv'
          /\ pkg[c] \notin raced' => Working(pkg[c])' = {}
      BY <2>1, EndsFacts
    <2>3. pkg[c] \notin raced' => \A d \in Calls : step'[d] # "idle" => pkg'[d] # pkg[c]
      BY <2>2 DEF Working
    <2>4. DiskInv'
      BY <1>3, <2>1, <2>2, <2>3 DEF Gone, DiskInv, InstallSteps
    <2> QED BY <2>2, <2>4
  <1>9. ASSUME NEW c \in Calls, MakeDirectory(c) \/ Fetched(c) \/ WriteInfo(c) \/ WriteRest(c) \/ Register(c) \/ Chowned(c) \/ Mark(c)
        PROVE  ResidueInv'
    <2>1. PICK s \in Steps \ {"idle"} : step[c] # "idle" /\ Goes(c, step[c], s) /\ raced' = raced /\ deleted' = deleted
      BY <1>9 DEF MakeDirectory, Fetched, WriteInfo, WriteRest, Register, Chowned, Mark, Goes, Steps, InstallSteps
    <2>2. /\ step'[c] = s /\ (\A d \in Calls \ {c} : step'[d] = step[d])
          /\ pkg' = pkg /\ FlightInv'
      BY <2>1, GoesOn
    <2>3. CASE MakeDirectory(c) \/ Fetched(c)
      <3>1. step[c] \in {"making", "fetching"} /\ s \in {"fetching", "writing"}
        BY <2>2, <2>3 DEF MakeDirectory, Fetched, Goes, FlightInv
      <3> QED BY <1>3, <2>1, <2>2, <2>3, <3>1 DEF MakeDirectory, Fetched, DiskInv, InstallSteps
    <2>4. CASE WriteInfo(c) \/ WriteRest(c)
      <3>1. \/ step[c] = "writing" /\ s = "rendering" /\ pkg[c] \in info'
            \/ step[c] = "rendering" /\ s = "registering" /\ info' = info
        BY <2>2, <2>4 DEF WriteInfo, WriteRest, Goes, FlightInv
      <3> QED BY <1>3, <2>1, <2>2, <2>4, <3>1 DEF WriteInfo, WriteRest, DiskInv, InstallSteps
    <2>5. CASE Register(c) \/ Chowned(c)
      <3>1. step[c] \in {"registering", "chowning"} /\ s \in {"chowning", "marking"}
        BY <2>2, <2>5 DEF Register, Chowned, Goes, FlightInv
      <3> QED BY <1>3, <2>1, <2>2, <2>5, <3>1 DEF Register, Chowned, DiskInv, InstallSteps
    <2>6. CASE Mark(c)
      <3>1. step[c] = "marking" /\ s = "closing"
        BY <2>2, <2>6 DEF Mark, Goes, FlightInv
      <3> QED BY <1>3, <2>1, <2>2, <2>6, <3>1 DEF Mark, DiskInv, InstallSteps
    <2> QED BY <1>9, <2>3, <2>4, <2>5, <2>6
  <1>10. ASSUME NEW c \in Calls, InstallEnds(c) \/ DirectoryFails(c) \/ UninstallFails(c) PROVE ResidueInv'
    <2>1. step[c] # "idle" /\ Ends(c) /\ UNCHANGED <<disk, history>>
      BY <1>10 DEF InstallEnds, DirectoryFails, UninstallFails
    <2>2. /\ step'[c] = "idle" /\ (\A d \in Calls \ {c} : step'[d] = step[d])
          /\ pkg' = pkg /\ FlightInv'
      BY <2>1, EndsFacts
    <2> QED BY <2>1, <2>2 DEF DiskInv, InstallSteps
  <1>14. ASSUME NEW c \in Calls, InstallFails(c) PROVE ResidueInv'
    <2>1. /\ step[c] \in InstallSteps \ {"closing"} /\ Goes(c, step[c], "failing")
          /\ UNCHANGED <<info, marker, deleted, raced>>
          /\ exists' \in {exists, exists \cup {pkg[c]}}
      BY <1>14 DEF InstallFails, InstallSteps
    <2>2. step[c] # "idle" /\ "failing" \in Steps \ {"idle"}
      BY <2>1 DEF Steps, InstallSteps
    <2>3. /\ step'[c] = "failing" /\ (\A d \in Calls \ {c} : step'[d] = step[d])
          /\ pkg' = pkg /\ FlightInv'
      BY <2>1, <2>2, GoesOn
    <2> QED BY <1>3, <2>1, <2>2, <2>3 DEF DiskInv, InstallSteps
  <1>11. CASE Crash
    BY <1>11 DEF Crash, FlightInv, DiskInv, Steps, InstallSteps
  <1>12. CASE Boot \/ BootFails
    BY <1>12 DEF Boot, BootFails, FlightInv, DiskInv
  <1>13. CASE UNCHANGED vars
    BY <1>13 DEF vars, FlightInv, DiskInv
  <1> QED BY <1>1, <1>4, <1>5, <1>7, <1>9, <1>10, <1>11, <1>12, <1>13, <1>14 DEF Next

\* No crash or failure leaves a package that passes for installed without its
\* files, save by cutting short its uninstall or between two calls that raced
\* for it (package.ts:393-399, 440-443).
THEOREM HalfInstallIsResidueHolds == Spec => []HalfInstallIsResidue
  <1>1. ResidueInv => HalfInstallIsResidue
    BY DEF ResidueInv, DiskInv, HalfInstallIsResidue
  <1>2. ResidueInv /\ [Next]_vars => ResidueInv'
    BY ResidueNext
  <1> QED BY <1>1, <1>2, ResidueInit, PTL DEF Spec

-----------------------------------------------------------------------------
\* What the registry says of a package nobody raced for at each step of the
\* call that works on it, and between calls.
RegistryInv ==
    /\ runtimes \in [Packages -> Nat]
    /\ server # "up" => \A p \in Packages : runtimes[p] = 0
    /\ \A p \in Packages \ raced : p \in halfway => runtimes[p] > 0
    /\ \A p \in Packages \ (halfway \cup raced) :
         /\ runtimes[p] > 0 => p \in info
         /\ runtimes[p] <= 1
         /\ server = "up" /\ Working(p) = {} =>
              /\ runtimes[p] = 1 => p \in marker
              /\ p \in marker /\ p \notin deleted => runtimes[p] = 1
    /\ \A c \in Calls : pkg[c] \notin halfway \cup raced =>
         /\ step[c] \in {"removing", "making", "fetching", "writing", "rendering", "registering", "failing"}
              => runtimes[pkg[c]] = 0
         /\ step[c] \in {"chowning", "marking", "closing"} => runtimes[pkg[c]] = 1
    /\ \A c \in Calls : pkg[c] \notin raced =>
         /\ step[c] = "deleting" => runtimes[pkg[c]] = 0
         /\ step[c] = "closing" => pkg[c] \in marker

LEMMA RegistryInit == Init => RegistryInv
  BY DEF Init, RegistryInv

LEMMA RegistryNext ==
  ASSUME ResidueInv, RegistryInv, [Next]_vars
  PROVE  RegistryInv'
  <1> USE PackagesAssumption DEF ResidueInv, disk, history
  <1>1. ASSUME NEW c \in Calls, NEW p \in Packages, NEW endpoint \in Endpoints, StartInstall(c, p, endpoint)
        PROVE  RegistryInv'
    <2>1. PICK s \in {"removing", "making"} : Begins(c, p, endpoint, s)
      BY <1>1 DEF StartInstall
    <2>2. s \in Steps \ {"idle"}
      BY DEF Steps, InstallSteps
    <2>3. /\ step[c] = "idle" /\ step'[c] = s /\ pkg'[c] = p
          /\ \A d \in Calls \ {c} : step'[d] = step[d] /\ pkg'[d] = pkg[d]
          /\ p \notin raced' => Working(p) = {} /\ p \notin raced
          /\ \A q \in Packages \ {p} : (q \in raced' <=> q \in raced) /\ Working(q)' = Working(q)
          /\ Working(p)' # {}
      BY <2>1, <2>2, BeginsFacts
    <2>4. server = "up" /\ p \notin marker /\ UNCHANGED <<server, exists, info, marker, runtimes, deleted, halfway>>
      BY <1>1 DEF StartInstall, Begins, Installed
    <2>5. p \notin halfway \cup raced' => runtimes[p] = 0
      BY <2>3, <2>4 DEF RegistryInv
    <2>6. raced \subseteq raced'
      BY <2>1 DEF Begins
    <2>7. \A d \in Calls \ {c} : step[d] # "idle" => pkg[d] \in Packages
      BY DEF FlightInv
    <2> QED BY <2>3, <2>4, <2>5, <2>6, <2>7 DEF RegistryInv
  <1>2. ASSUME NEW c \in Calls, NEW p \in Packages, NEW endpoint \in Endpoints, StartUninstall(c, p, endpoint)
        PROVE  RegistryInv'
    <2>1. Begins(c, p, endpoint, "deleting")
      BY <1>2 DEF StartUninstall
    <2>2. "deleting" \in Steps \ {"idle"}
      BY DEF Steps
    <2>3. /\ step[c] = "idle" /\ step'[c] = "deleting" /\ pkg'[c] = p
          /\ \A d \in Calls \ {c} : step'[d] = step[d] /\ pkg'[d] = pkg[d]
          /\ p \notin raced' => Working(p) = {} /\ p \notin raced
          /\ \A q \in Packages \ {p} : (q \in raced' <=> q \in raced) /\ Working(q)' = Working(q)
          /\ Working(p)' # {}
      BY <2>1, <2>2, BeginsFacts
    <2>4. /\ server = "up" /\ UNCHANGED <<server, exists, info, marker>>
          /\ runtimes' = [runtimes EXCEPT ![p] = 0] /\ deleted' = deleted \cup {p} /\ halfway' = halfway \ {p}
      BY <1>2 DEF StartUninstall, Begins
    <2>5. p \notin raced' => \A d \in Calls : step[d] # "idle" => pkg[d] # p
      BY <2>3 DEF Working
    <2>6. raced \subseteq raced'
      BY <2>1 DEF Begins
    <2>7. runtimes' \in [Packages -> Nat] /\ runtimes'[p] = 0 /\ \A q \in Packages \ {p} : runtimes'[q] = runtimes[q]
      BY <2>4 DEF RegistryInv
    <2>8. \A d \in Calls \ {c} : step[d] # "idle" => pkg[d] \in Packages
      BY DEF FlightInv
    <2> QED BY <2>3, <2>4, <2>5, <2>6, <2>7, <2>8 DEF RegistryInv
  <1>3. ASSUME NEW c \in Calls, step[c] # "idle"
        PROVE  /\ pkg[c] \in Packages /\ server = "up"
               /\ pkg[c] \notin raced =>
                    /\ Working(pkg[c]) = {c}
                    /\ \A d \in Calls \ {c} : step[d] # "idle" => pkg[d] # pkg[c]
    BY <1>3, WorkingAlone
  <1>4. ASSUME NEW c \in Calls, RemoveSome(c) PROVE RegistryInv'
    <2>1. step[c] # "idle" /\ step[c] \in {"removing", "deleting"}
      BY <1>4 DEF RemoveSome
    <2>2. /\ UNCHANGED <<server, step, pkg, runtimes, deleted, halfway, raced>>
          /\ \A p \in Packages \ {pkg[c]} : (p \in info' <=> p \in info) /\ (p \in marker' <=> p \in marker)
      BY <1>4 DEF RemoveSome
    <2>3. \A p \in Packages : Working(p)' = Working(p)
      BY <2>2 DEF Working
    <2> QED BY <1>3, <2>1, <2>2, <2>3 DEF RegistryInv, FlightInv
  <1>5. ASSUME NEW c \in Calls, RemovedResidue(c) PROVE RegistryInv'
    <2>1. /\ step[c] = "removing" /\ Goes(c, step[c], "making") /\ Gone(pkg[c])
          /\ UNCHANGED runtimes
          /\ \/ /\ Working(pkg[c]) = {c} /\ runtimes[pkg[c]] = 0
                /\ raced' = raced \ {pkg[c]} /\ halfway' = halfway \ {pkg[c]}
             \/ UNCHANGED <<raced, halfway>>
      BY <1>5 DEF RemovedResidue, Cleared, Goes
    <2>2. raced' \in {raced, raced \ {pkg[c]}} /\ (pkg[c] \in raced \ raced' => Working(pkg[c]) = {c})
      BY <2>1
    <2>3. /\ step'[c] = "making" /\ (\A d \in Calls \ {c} : step'[d] = step[d])
          /\ pkg' = pkg /\ server' = server
          /\ \A p \in Packages : Working(p)' = Working(p)
      BY <2>1, <2>2, GoesOn DEF Steps, InstallSteps
    <2>4. /\ pkg[c] \notin marker'
          /\ \A p \in Packages \ {pkg[c]} :
               /\ (p \in info' <=> p \in info) /\ (p \in marker' <=> p \in marker)
               /\ (p \in deleted' <=> p \in deleted)
      BY <1>5 DEF RemovedResidue, Cleared, Gone
    <2>5. pkg[c] \notin halfway' \cup raced' => runtimes[pkg[c]] = 0
      BY <2>1 DEF RegistryInv
    <2>6. pkg[c] \notin raced' /\ pkg[c] \in halfway' => runtimes[pkg[c]] > 0
      BY <1>3, <2>1 DEF RegistryInv
    <2>7. Working(pkg[c])' # {}
      BY <1>3, <2>1, <2>3 DEF Working
    <2>8. pkg[c] \notin raced' => \A d \in Calls \ {c} : step[d] # "idle" => pkg[d] # pkg[c]
      BY <1>3, <2>1 DEF Working
    <2>9. \A p \in Packages \ {pkg[c]} : (p \in raced' <=> p \in raced) /\ (p \in halfway' <=> p \in halfway)
      BY <2>1
    <2>10. \A d \in Calls \ {c} : step[d] # "idle" => pkg[d] \in Packages
      BY DEF FlightInv
    <2> QED BY <1>3, <2>1, <2>3, <2>4, <2>5, <2>6, <2>7, <2>8, <2>9, <2>10 DEF RegistryInv
  <1>6. ASSUME NEW c \in Calls, Uninstalled(c) PROVE RegistryInv'
    <2>1. /\ step[c] = "deleting" /\ Ends(c) /\ Gone(pkg[c])
          /\ UNCHANGED runtimes
          /\ \/ /\ Working(pkg[c]) = {c} /\ runtimes[pkg[c]] = 0
                /\ raced' = raced \ {pkg[c]} /\ halfway' = halfway \ {pkg[c]}
             \/ UNCHANGED <<raced, halfway>>
      BY <1>6 DEF Uninstalled, Cleared
    <2>2. raced' \in {raced, raced \ {pkg[c]}} /\ (pkg[c] \in raced \ raced' => Working(pkg[c]) = {c})
      BY <2>1
    <2>3. /\ step'[c] = "idle" /\ (\A d \in Calls \ {c} : step'[d] = step[d])
          /\ pkg' = pkg /\ server' = server
          /\ \A p \in Packages : Working(p)' = IF p = pkg[c] THEN Working(p) \ {c} ELSE Working(p)
          /\ pkg[c] \notin raced' => Working(pkg[c])' = {}
      BY <2>1, <2>2, EndsFacts
    <2>4. /\ pkg[c] \notin marker'
          /\ \A p \in Packages \ {pkg[c]} :
               /\ (p \in info' <=> p \in info) /\ (p \in marker' <=> p \in marker)
               /\ (p \in deleted' <=> p \in deleted)
      BY <1>6 DEF Uninstalled, Cleared, Gone
    <2>5. pkg[c] \notin raced' => runtimes[pkg[c]] = 0
      BY <2>1 DEF RegistryInv
    <2>6. pkg[c] \notin raced' => pkg[c] \notin halfway'
      BY <1>3, <2>1, <2>5 DEF RegistryInv
    <2>7. pkg[c] \notin raced' => \A d \in Calls : step'[d] # "idle" => pkg'[d] # pkg[c]
      BY <2>3 DEF Working
    <2>8. \A d \in Calls \ {c} : step[d] # "idle" => pkg[d] \in Packages
      BY DEF FlightInv
    <2>9. \A p \in Packages \ {pkg[c]} : (p \in raced' <=> p \in raced) /\ (p \in halfway' <=> p \in halfway)
      BY <2>1
    <2> QED BY <1>3, <2>1, <2>3, <2>4, <2>5, <2>6, <2>7, <2>8, <2>9 DEF RegistryInv
  <1>7. ASSUME NEW c \in Calls, MakeDirectory(c) \/ Fetched(c) \/ WriteInfo(c) \/ WriteRest(c) \/ Register(c) \/ Chowned(c) \/ Mark(c)
        PROVE  RegistryInv'
    <2>1. PICK s \in Steps \ {"idle"} :
            /\ step[c] # "idle" /\ Goes(c, step[c], s)
            /\ UNCHANGED <<raced, deleted, halfway>>
      BY <1>7 DEF MakeDirectory, Fetched, WriteInfo, WriteRest, Register, Chowned, Mark, Goes, Steps, InstallSteps
    <2>2. /\ step'[c] = s /\ (\A d \in Calls \ {c} : step'[d] = step[d])
          /\ pkg' = pkg /\ server' = server
          /\ \A p \in Packages : Working(p)' = Working(p)
      BY <2>1, GoesOn
    <2>3. CASE MakeDirectory(c) \/ Fetched(c) \/ WriteInfo(c) \/ WriteRest(c)
      <3>1. step[c] \in {"making", "fetching", "writing", "rendering"}
            /\ step'[c] \in {"fetching", "writing", "rendering", "registering"}
        BY <2>3 DEF MakeDirectory, Fetched, WriteInfo, WriteRest, Goes, FlightInv
      <3>2. info \subseteq info' /\ UNCHANGED <<marker, runtimes>>
        BY <2>3 DEF MakeDirectory, Fetched, WriteInfo, WriteRest
      <3> QED BY <2>1, <2>2, <3>1, <3>2 DEF RegistryInv
    <2>4. CASE Register(c)
      <3>1. step[c] = "registering" /\ step'[c] = "chowning" /\ pkg[c] \in info /\ UNCHANGED <<info, marker>>
            /\ runtimes' = [runtimes EXCEPT ![pkg[c]] = @ + 1]
        BY <2>4 DEF Register, Goes, FlightInv
      <3>2. pkg[c] \in Packages /\ (pkg[c] \notin halfway \cup raced => runtimes[pkg[c]] = 0)
        BY <1>3, <3>1 DEF RegistryInv
      <3>3. /\ runtimes' \in [Packages -> Nat]
            /\ runtimes'[pkg[c]] > 0
            /\ pkg[c] \notin halfway \cup raced => runtimes'[pkg[c]] = 1
            /\ \A p \in Packages \ {pkg[c]} : runtimes'[p] = runtimes[p]
        BY <3>1, <3>2 DEF RegistryInv
      <3>4. pkg[c] \notin raced => \A d \in Calls \ {c} : step[d] # "idle" => pkg[d] # pkg[c]
        BY <1>3, <3>1
      <3>5. \A d \in Calls \ {c} : step[d] # "idle" => pkg[d] \in Packages
        BY DEF FlightInv
      <3> QED BY <1>3, <2>1, <2>2, <3>1, <3>2, <3>3, <3>4, <3>5 DEF RegistryInv
    <2>5. CASE Chowned(c) \/ Mark(c)
      <3>1. step[c] \in {"chowning", "marking"} /\ step'[c] \in {"marking", "closing"}
            /\ (step'[c] = "closing" => pkg[c] \in marker') /\ UNCHANGED <<info, runtimes>>
            /\ marker \subseteq marker' /\ marker' \subseteq marker \cup {pkg[c]}
        BY <2>5 DEF Chowned, Mark, Goes, FlightInv
      <3> QED BY <1>3, <2>1, <2>2, <3>1 DEF RegistryInv
    <2> QED BY <1>7, <2>3, <2>4, <2>5
  <1>8. ASSUME NEW c \in Calls, InstallEnds(c) \/ DirectoryFails(c) \/ UninstallFails(c) PROVE RegistryInv'
    <2>1. /\ step[c] \in {"removing", "making", "deleting", "closing", "failing"}
          /\ step[c] # "idle" /\ Ends(c) /\ UNCHANGED <<info, marker, runtimes, deleted, halfway, raced>>
      BY <1>8 DEF InstallEnds, DirectoryFails, UninstallFails
    <2>2. /\ step'[c] = "idle" /\ (\A d \in Calls \ {c} : step'[d] = step[d]) /\ UNCHANGED <<server, pkg>>
          /\ \A p \in Packages : Working(p)' = IF p = pkg[c] THEN Working(p) \ {c} ELSE Working(p)
      BY <2>1, EndsFacts
    <2>4. pkg[c] \notin raced /\ step[c] \in {"removing", "making", "failing"} => pkg[c] \notin marker
      BY DEF DiskInv, InstallSteps
    <2>5. pkg[c] \notin raced /\ step[c] = "deleting" => pkg[c] \in deleted
      BY DEF DiskInv
    <2> QED BY <1>3, <2>1, <2>2, <2>4, <2>5 DEF RegistryInv
  <1>13. ASSUME NEW c \in Calls, InstallFails(c) PROVE RegistryInv'
    <2>1. /\ step[c] \in InstallSteps /\ step[c] # "closing" /\ Goes(c, step[c], "failing")
          /\ UNCHANGED <<info, marker, runtimes, deleted, raced>>
          /\ step[c] \in {"chowning", "marking"} => halfway' = halfway \cup {pkg[c]}
          /\ step[c] \notin {"chowning", "marking"} => halfway' = halfway
      BY <1>13 DEF InstallFails, InstallSteps
    <2>2. step[c] # "idle" /\ "failing" \in Steps \ {"idle"}
      BY <2>1 DEF Steps, InstallSteps
    <2>3. /\ step'[c] = "failing" /\ (\A d \in Calls \ {c} : step'[d] = step[d]) /\ UNCHANGED <<server, pkg>>
          /\ \A p \in Packages : Working(p)' = Working(p)
      BY <2>1, <2>2, GoesOn
    <2>4. halfway \subseteq halfway' /\ halfway' \subseteq halfway \cup {pkg[c]} /\ pkg[c] \in Packages
      BY <1>3, <2>1, <2>2
    <2>5. pkg[c] \notin raced /\ step[c] \in {"chowning", "marking"} => runtimes[pkg[c]] > 0
      BY <2>4 DEF RegistryInv
    <2>6. step[c] \notin {"chowning", "marking"} =>
            step[c] \in {"removing", "making", "fetching", "writing", "rendering", "registering", "failing"}
      BY <2>1 DEF InstallSteps
    <2> QED BY <2>1, <2>3, <2>4, <2>5, <2>6 DEF RegistryInv
  <1>9. CASE Crash
    BY <1>9 DEF Crash, RegistryInv
  <1>10. CASE Boot
    <2>1. server = "down" /\ server' = "up" /\ UNCHANGED <<step, pkg, info, marker, deleted, halfway, raced>>
          /\ runtimes' = [p \in Packages |-> IF p \in Found THEN 1 ELSE 0] /\ Found \subseteq info
      BY <1>10 DEF Boot
    <2>2. \A c \in Calls : step[c] = "idle"
      BY <2>1 DEF FlightInv
    <2>3. \A p \in Packages : p \in Found <=> p \in marker
      BY DEF Found, DiskInv
    <2>4. \A p \in Packages \ raced : p \notin halfway
      BY <2>1 DEF RegistryInv
    <2> QED BY <2>1, <2>2, <2>3, <2>4 DEF RegistryInv
  <1>11. CASE BootFails
    BY <1>11 DEF BootFails, RegistryInv
  <1>12. CASE UNCHANGED vars
    BY <1>12 DEF vars, RegistryInv, Working
  <1> QED BY <1>1, <1>2, <1>4, <1>5, <1>6, <1>7, <1>8, <1>9, <1>10, <1>11, <1>12, <1>13 DEF Next

LEMMA RegistryHolds == Spec => [](ResidueInv /\ RegistryInv)
  <1>1. Init => ResidueInv /\ RegistryInv
    BY ResidueInit, RegistryInit
  <1>2. ResidueInv /\ RegistryInv /\ [Next]_vars => (ResidueInv /\ RegistryInv)'
    BY ResidueNext, RegistryNext
  <1> QED BY <1>1, <1>2, PTL DEF Spec

\* A runtime that is listed has all its files and is listed once, whatever
\* fails and whenever the process is killed, until an install fails with its
\* runtimes registered or calls race for it (package.ts:428-443, 589-591).
THEOREM ListedRuntimesAreWholeHolds == Spec => []ListedRuntimesAreWhole
  <1>1. RegistryInv => ListedRuntimesAreWhole
    BY DEF RegistryInv, ListedRuntimesAreWhole
  <1> QED BY <1>1, RegistryHolds, PTL

\* Between calls the registry says of a package what a restart would, unless
\* its uninstall was cut short, an install failed with its runtimes registered
\* or calls raced for it (operations.ts:9-11, index.ts:86-90).
THEOREM RegistryIsWhatBootDerivesHolds == Spec => []RegistryIsWhatBootDerives
  <1>1. RegistryInv => RegistryIsWhatBootDerives
    BY DEF RegistryInv, RegistryIsWhatBootDerives
  <1> QED BY <1>1, RegistryHolds, PTL

\* Whatever fails, a package that is installed and left alone has its runtimes
\* in the registry, unless its uninstall was cut short or calls raced for it
\* (package.ts:431-443, 589-591).
THEOREM InstalledIsListedHolds == Spec => []InstalledIsListed
  <1>1. ResidueInv /\ RegistryInv => InstalledIsListed
    BY DEF ResidueInv, DiskInv, RegistryInv, InstalledIsListed
  <1> QED BY <1>1, RegistryHolds, PTL

-----------------------------------------------------------------------------
(* Types                                                                   *)

\* A call that begins, of either kind, through either endpoint.
LEMMA StartTypes ==
  ASSUME TypeOK, NEW c \in Calls, NEW p \in Packages, NEW endpoint \in Endpoints,
         StartInstall(c, p, endpoint) \/ StartUninstall(c, p, endpoint)
  PROVE  TypeOK'
  <1>1. in_flight' \in [Packages -> Calls \cup {None}]
    BY DEF StartInstall, StartUninstall, Begins, history, Admit, TypeOK
  <1>2. /\ step' \in [Calls -> Steps] /\ pkg' \in [Calls -> Packages \cup {None}]
        /\ \A d \in Calls : step'[d] # "idle" => pkg'[d] \in Packages
    BY DEF StartInstall, StartUninstall, Begins, history, TypeOK, Steps, InstallSteps
  <1>3. /\ runtimes' \in [Packages -> 0..MaxRegistered]
        /\ deleted' \subseteq Packages /\ halfway' \subseteq Packages /\ raced' \subseteq Packages
    BY PackagesAssumption DEF StartInstall, StartUninstall, Begins, history, TypeOK
  <1>4. UNCHANGED <<server, disk>>
    BY DEF StartInstall, StartUninstall, Begins, history
  <1> QED BY <1>1, <1>2, <1>3, <1>4 DEF TypeOK, disk, history

\* A call that goes on, or ends.
LEMMA CallTypes ==
  ASSUME TypeOK, NEW c \in Calls,
         \/ RemoveSome(c) \/ RemovedResidue(c) \/ Uninstalled(c) \/ MakeDirectory(c)
         \/ Fetched(c) \/ WriteInfo(c) \/ WriteRest(c) \/ Register(c) \/ Chowned(c) \/ Mark(c)
         \/ InstallEnds(c) \/ DirectoryFails(c) \/ InstallFails(c) \/ UninstallFails(c)
  PROVE  TypeOK'
  <1>1. step[c] # "idle" /\ pkg[c] \in Packages
    BY DEF RemoveSome, RemovedResidue, Uninstalled, MakeDirectory, Fetched, WriteInfo, WriteRest,
           Register, Chowned, Mark, InstallEnds, DirectoryFails, InstallFails, UninstallFails, Goes, TypeOK
  <1>2. /\ UNCHANGED <<server, pkg>>
        /\ step' \in [Calls -> Steps]
        /\ \A d \in Calls : step'[d] # "idle" => step[d] # "idle"
    <2>1. \E to \in Steps : step' = step \/ step' = [step EXCEPT ![c] = to]
      BY DEF RemoveSome, RemovedResidue, Uninstalled, MakeDirectory, Fetched, WriteInfo, WriteRest, Register,
             Chowned, Mark, InstallEnds, DirectoryFails, InstallFails, UninstallFails, Goes, Ends, Steps, InstallSteps
    <2>2. UNCHANGED <<server, pkg>>
      BY DEF RemoveSome, RemovedResidue, Uninstalled, MakeDirectory, Fetched, WriteInfo, WriteRest, Register,
             Chowned, Mark, InstallEnds, DirectoryFails, InstallFails, UninstallFails, Goes, Ends
    <2> QED BY <1>1, <2>1, <2>2 DEF TypeOK
  <1>3. in_flight' \in [Packages -> Calls \cup {None}]
    BY DEF RemoveSome, RemovedResidue, Uninstalled, MakeDirectory, Fetched, WriteInfo, WriteRest, Register,
           Chowned, Mark, InstallEnds, DirectoryFails, InstallFails, UninstallFails, Goes, Ends, TypeOK
  <1>4. exists' \subseteq Packages /\ info' \subseteq exists' /\ marker' \subseteq exists'
    BY <1>1 DEF RemoveSome, RemovedResidue, Uninstalled, MakeDirectory, Fetched, WriteInfo, WriteRest, Register,
           Chowned, Mark, InstallEnds, DirectoryFails, InstallFails, UninstallFails, Gone, TypeOK, disk, history
  <1>5. /\ runtimes' \in [Packages -> 0..MaxRegistered]
        /\ deleted' \subseteq Packages /\ halfway' \subseteq Packages /\ raced' \subseteq Packages
    BY <1>1, PackagesAssumption DEF RemoveSome, RemovedResidue, Uninstalled, MakeDirectory, Fetched,
           WriteInfo, WriteRest, Register, Chowned, Mark, InstallEnds, DirectoryFails, InstallFails, UninstallFails,
           Cleared, TypeOK, history
  <1> QED BY <1>2, <1>3, <1>4, <1>5 DEF TypeOK

LEMMA TypesNext == TypeOK /\ [Next]_vars => TypeOK'
  <1> SUFFICES ASSUME TypeOK, [Next]_vars PROVE TypeOK'
    OBVIOUS
  <1>1. CASE Crash
    BY <1>1, PackagesAssumption DEF Crash, TypeOK, Steps, disk
  <1>2. CASE Boot \/ BootFails
    BY <1>2, PackagesAssumption DEF Boot, BootFails, TypeOK, disk, history
  <1>3. CASE UNCHANGED vars
    BY <1>3 DEF vars, TypeOK, disk, history
  <1> QED BY <1>1, <1>2, <1>3, StartTypes, CallTypes DEF Next

\* Every variable keeps its type, through either endpoint, and a directory that
\* is not there has neither a pkg-info.json nor a marker (package.ts).
THEOREM TypeOKHolds == Spec => []TypeOK
  <1>1. Init => TypeOK
    BY PackagesAssumption DEF Init, TypeOK, Steps, None
  <1> QED BY <1>1, TypesNext, PTL DEF Spec
=============================================================================
