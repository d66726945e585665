------------------------------- MODULE Provision -------------------------------
(***************************************************************************)
(* The command line client's `ppman spec` (src/cli/commands/ppman.ts) and  *)
(* the server it installs packages on (Install), with other clients that   *)
(* install and uninstall meanwhile: the rules of a spec file are folded    *)
(* over one listing of the packages, and what differs is put right by one  *)
(* request after the other, each of which may fail.                        *)
(***************************************************************************)
EXTENDS Install, FiniteSets

CONSTANTS
    ppman,          \* the call of `ppman spec`
    SpecFiles,      \* the spec files it may be given, each a sequence of lines
    MaxOthers       \* bound on the requests of the others

ASSUME ProvisionAssumption == ppman \in Calls /\ MaxOthers \in Nat

\* There are as many packages as files in a directory.
ASSUME PackagesAssumption == IsFiniteSet(Packages)

\* A spec file is a sequence of lines.
ASSUME SpecFilesAssumption ==
    \A lines \in SpecFiles : lines \in Seq({lines[i] : i \in DOMAIN lines})

VARIABLES
    phase,          \* of `ppman spec`: unread, working, done, or failed to read
    rules,
    listing,        \* the packages of GET /packages, and which were installed
    todo,           \* the operations not begun
    request,        \* the one under way
    failures,       \* history: the operations that failed
    others          \* history: how many requests others have made

clientVars == <<phase, rules, listing, todo, request, failures, others>>
vars == <<installVars, clientVars>>

-------------------------------------------------------------------------------
(* Spec files.  A line has what precedes its text, "", "!" or "#", whether it *)
(* is indented, and the languages and the versions its selectors match.       *)

\* Only at the start of the line are the marks looked for: an indented "!" is
\* part of the selector, where a glob takes it to mean every other name.
Rule(line) == [
    comment |-> line.mark = "#" /\ ~line.indented,
    negate |-> line.mark = "!" /\ ~line.indented,
    languages |-> IF ~line.indented THEN line.languages
                  ELSE CASE line.mark = "!" -> {Manifest(p).language : p \in Listed} \ line.languages
                         [] line.mark = "#" -> {}
                         [] OTHER -> line.languages,
    versions |-> line.versions]

Rules(lines) == [i \in DOMAIN lines |-> Rule(lines[i])]

DoesMatch(p, rule) ==
    Manifest(p).language \in rule.languages /\ Manifest(p).version \in rule.versions

LatestMatches(packages, rule) ==
    LET matches == {p \in packages : DoesMatch(p, rule)}
    IN  {p \in matches : \A q \in matches :
            Manifest(q).language = Manifest(p).language => Manifest(q).version <= Manifest(p).version}

\* Altered: a negated rule only takes back the latest of what it matches.
ApplyLatest(packages, ensured, rule) ==
    IF rule.comment THEN ensured
    ELSE IF rule.negate THEN ensured \ LatestMatches(packages, rule)
    ELSE ensured \cup LatestMatches(packages, rule)

Apply(packages, ensured, rule) ==
    IF rule.comment THEN ensured
    ELSE IF rule.negate THEN {p \in ensured : ~DoesMatch(p, rule)}
    ELSE ensured \cup LatestMatches(packages, rule)

EnsurePackages(packages, given) ==
    LET ensured[n \in 0..Len(given)] ==
            IF n = 0 THEN {} ELSE Apply(packages, ensured[n - 1], given[n])
    IN  ensured[Len(given)]

Operations(list, given) ==
    LET ensured == EnsurePackages(list.packages, given)
    IN  {[type |-> "install", package |-> p] : p \in ensured \ list.installed} \cup
        {[type |-> "uninstall", package |-> p] : p \in list.installed \ ensured}

-------------------------------------------------------------------------------

None == [type |-> "none"]

Init ==
    /\ InstallInit
    /\ phase = "unread" /\ rules = <<>> /\ listing = [packages |-> {}, installed |-> {}]
    /\ todo = {} /\ request = None /\ failures = {} /\ others = 0

ReadSpec ==
    /\ server = "up" /\ phase = "unread"
    /\ phase' = "working"
    /\ \E lines \in SpecFiles : rules' = Rules(lines)
    /\ listing' = [packages |-> Listed, installed |-> {p \in Listed : Installed(p)}]
    /\ todo' = Operations(listing', rules')
    /\ UNCHANGED <<installVars, request, failures, others>>

\* The list cannot be had: the command ends there.
ReadFails ==
    /\ server # "up" /\ phase = "unread"
    /\ phase' = "failed"
    /\ UNCHANGED <<installVars, rules, listing, todo, request, failures, others>>

Installs == {operation \in todo : operation.type = "install"}

\* Altered: the operations are run in any order.
NextOperationsUnordered == todo

\* The installs come first.  (Within them the order is that of the listing,
\* which is that of a directory.)
NextOperations == IF Installs # {} THEN Installs ELSE todo

Send ==
    /\ phase = "working" /\ request = None
    /\ \E operation \in NextOperations :
        /\ request' = operation
        /\ todo' = todo \ {operation}
        /\ \/ Unreachable(ppman)
           \/ /\ operation.type = "install"
              /\ StartInstall(ppman, operation.package) \/ RefuseInstall(ppman, operation.package)
           \/ /\ operation.type = "uninstall"
              /\ StartUninstall(ppman, operation.package) \/ RefuseUninstall(ppman, operation.package)
    /\ UNCHANGED <<phase, rules, listing, failures, others>>

\* A failure is printed, and the loop goes on.
Receive ==
    /\ request # None /\ outcome[ppman] # Undefined
    /\ failures' = IF outcome[ppman] = "failed" THEN failures \cup {request} ELSE failures
    /\ request' = None
    /\ UNCHANGED <<installVars, phase, rules, listing, todo, others>>

Finish ==
    /\ phase = "working" /\ request = None /\ todo = {}
    /\ phase' = "done"
    /\ UNCHANGED <<installVars, rules, listing, todo, request, failures, others>>

\* External: other clients, whatever is at work.
OtherRequest(c) ==
    /\ c # ppman /\ others < MaxOthers
    /\ others' = others + 1
    /\ \E p \in Packages : StartInstall(c, p) \/ StartUninstall(c, p)
    /\ UNCHANGED <<phase, rules, listing, todo, request, failures>>

Client == ReadSpec \/ ReadFails \/ Send \/ Receive \/ Finish

Call(c) == Works(c) /\ UNCHANGED clientVars

Next ==
    \/ (Boot \/ Crash) /\ UNCHANGED clientVars
    \/ Client
    \/ \E c \in Calls : OtherRequest(c) \/ Call(c) \/ (RemoveSome(c) /\ UNCHANGED clientVars)

\* The client goes on, and what a call waits for, the network, the processes it
\* runs and the disk, answers or fails.
Fairness ==
    /\ WF_vars(Client)
    /\ \A c \in Calls : WF_vars(Call(c))

Spec == Init /\ [][Next]_vars /\ Fairness

-------------------------------------------------------------------------------
(* Properties *)

\* What the rules ask for: of what some rule matches the latest of each
\* language, unless a later rule takes it back.
Wanted ==
    {p \in listing.packages : \E k \in DOMAIN rules :
        /\ ~rules[k].comment /\ ~rules[k].negate
        /\ p \in LatestMatches(listing.packages, rules[k])
        /\ \A j \in (k + 1)..Len(rules) : rules[j].negate => ~DoesMatch(p, rules[j])}

\* When the client is done, nothing has failed and nobody else was at work, the
\* packages installed are those the spec file asks for (ppman.ts, spec).
SpecConverges ==
    phase = "done" /\ failures = {} /\ others = 0 => {p \in Listed : Installed(p)} = Wanted

\* A language that was installed when the client began, and that it was to keep
\* in some version, is never without one unless an install of it has failed:
\* the new version is there before the old one goes.
UpgradeLeavesNoGap ==
    others = 0 /\ phase # "unread" =>
        \A old \in listing.installed, new \in Wanted :
            Manifest(old).language = Manifest(new).language =>
                \/ \E p \in Packages : Manifest(p).language = Manifest(new).language /\ Installed(p)
                \/ \E f \in failures : /\ f.type = "install"
                                       /\ Manifest(f.package).language = Manifest(new).language

\* The client gets to its end, whatever fails, in the server or of it, and
\* whoever else is at work.
SpecEnds == <>(phase \in {"done", "failed"})

\* docs/api-v2.md:68-70: "Every runtime that shares a language is guaranteed to
\* have at least one alias no other runtime of that language claims", as the
\* manifests have been validated.
EngineHasAnAlias ==
    Validated(Files) =>
        LET registered == {Manifest(p) : p \in {q \in Packages : runtimes[q] > 0}}
        IN  \A m \in registered : \A language \in ProvidedLanguages(m) :
                LET rivals == {n \in registered : n.language # m.language /\ language \in ProvidedLanguages(n)}
                IN  rivals # {} =>
                        ~(AliasesFor(m, language) \subseteq UNION {AliasesFor(n, language) : n \in rivals})
===============================================================================
