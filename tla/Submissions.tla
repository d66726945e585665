------------------------------ MODULE Submissions ------------------------------
(***************************************************************************)
(* From the environment the server is started in to the limits a           *)
(* submission runs under: configuration, registered packages, the body     *)
(* gate, get_job (src/api/src/api/v2.ts) and what the job then reads of    *)
(* its runtime (job.ts, runtime.ts), while packages come and go.           *)
(*                                                                         *)
(* Packages are installed and removed as far as a submission sees it, by   *)
(* calls that may fail, race for a package and register what they do not   *)
(* complete: files, then registration, then the marker; unregistration,    *)
(* then the files.  The package files come and go together.  Crashes are   *)
(* those of Packages: they leave no job and no cache.  One job is followed *)
(* at a time, from get_job to the start of its stage.                      *)
(***************************************************************************)
EXTENDS Runtimes, Gate, FiniteSets

CONSTANTS
    Environments,   \* the environments the server may be started in
    Packages,
    Info,           \* what pkg-info.json says of each package
    Requests,       \* the requests clients may send
    Fields,         \* the limits a request may name: CONSTRAINTS by STAGES
    Calls,          \* bound on the installs and uninstalls at work at once
    MaxInstalls     \* bound on the installations of a behaviour

ASSUME SubmissionsAssumption ==
    /\ Fields \subseteq Limits
    /\ MaxInstalls \in Nat
    /\ Undefined \notin {"base64", "hex"}

\* What pkg-info.json provides of a package: itself, or each of `provides`.
Provided(info) ==
    IF info.provides = <<>> THEN {info} ELSE {info.provides[i] : i \in DOMAIN info.provides}

\* As the manifest it was written from has been parsed, limits are numbers.
ASSUME InfoAssumption == \A p \in Packages :
    /\ Info[p].version \in Nat
    /\ Len(Info[p].provides) \in Nat
    /\ DOMAIN Info[p].provides = 1..Len(Info[p].provides)
    /\ \A entry \in Provided(Info[p]) : \A l \in DOMAIN entry.limit_overrides :
        entry.limit_overrides[l] \in Int

\* A value of a limit is a number, or of a type get_job refuses.
ASSUME RequestsAssumption == \A r \in Requests :
    /\ r = [path |-> r.path, method |-> r.method, json |-> r.json, text |-> r.text, body |-> r.body]
    /\ r.json \in BOOLEAN
    /\ \A f \in Fields \cap DOMAIN r.body.limits : r.body.limits[f] \in Int \cup {Junk}

VARIABLES
    env,            \* process.env
    config,         \* undefined until resolved, null if the process has ended
    runtimes,       \* the registry
    step,           \* where each call is
    pkg,            \* the package it works on
    operations,     \* the calls that operations are at work with
    exists,         \* the packages whose directory is there
    disk,           \* which writing of the package files a directory holds, 0 for none
    marked,         \* the packages with the installed marker
    installs,       \* the writings so far
    registered,     \* the registrations so far
    disturbed,      \* history: packages a call was let loose on beside another, or
                    \* an install when they were listed, until no trace is left
    compiled,       \* Runtime.#compiled of those asked: runtime and what was found
    env_vars,       \* Runtime.#env_vars likewise
    job,            \* the job followed
    answer          \* the request just answered, and its status

calls == <<step, pkg, operations>>
disks == <<exists, disk, marked>>
registry == <<runtimes, calls, disks, installs, registered, disturbed>>
caches == <<compiled, env_vars>>
vars == <<env, config, registry, caches, job, answer>>

Nothing == [language |-> Undefined, version |-> Undefined, files |-> Undefined,
            limits |-> <<>>, kind |-> Undefined]

Steps == {"idle", "removing", "fetching", "written", "registered", "deleting"}

Init ==
    /\ env \in Environments
    /\ config = Undefined
    /\ runtimes = {} /\ exists = {} /\ marked = {} /\ disk = [p \in Packages |-> 0]
    /\ step = [c \in Calls |-> "idle"] /\ pkg = [c \in Calls |-> Undefined] /\ operations = {}
    /\ installs = 0 /\ registered = 0 /\ disturbed = {}
    /\ compiled = {} /\ env_vars = {}
    /\ job = Undefined
    /\ answer = Undefined

Boot ==
    /\ config = Undefined
    /\ config' = IF Survives(env) THEN Resolved(env) ELSE Null
    /\ UNCHANGED <<env, registry, caches, job, answer>>

Up == config \notin {Undefined, Null}

-------------------------------------------------------------------------------
(* Packages come and go *)

Working(p) == {c \in Calls : step[c] # "idle" /\ pkg[c] = p}

\* Altered: of the languages a package provides, the first is unregistered.
RegisteredFirst(p) == {rt \in runtimes : rt.package = p /\ rt.number = 1}

\* The runtimes whose pkgdir is the package's.
Registered(p) == {rt \in runtimes : rt.package = p /\ rt.version = Info[p].version}

\* A call begins to work on a package.  Only operations keep out of each
\* other's way; the synchronous endpoints ask nobody.
Begins(c, p, operation, to) ==
    /\ step[c] = "idle"
    /\ step' = [step EXCEPT ![c] = to]
    /\ pkg' = [pkg EXCEPT ![c] = p]
    /\ operations' = IF operation THEN operations \cup {c} ELSE operations
    /\ UNCHANGED <<env, config, disk, marked, installs, registered, job>>

Goes(c, from, to) ==
    /\ step[c] = from
    /\ step' = [step EXCEPT ![c] = to]
    /\ operations' = IF to = "idle" THEN operations \ {c} ELSE operations
    /\ UNCHANGED <<env, config, pkg, caches, job, answer>>

Install(c, p, operation) ==
    /\ p \notin marked
    /\ Begins(c, p, operation, IF p \in exists THEN "removing" ELSE "fetching")
    /\ exists' = exists \cup {p}
    /\ disturbed' = IF Working(p) # {} \/ Registered(p) # {} THEN disturbed \cup {p} ELSE disturbed
    /\ UNCHANGED <<runtimes, caches>>

\* A runtime that is neither listed nor a job's is gone, with what it remembered.
Reachable(cache) == {c \in cache : c.runtime \in runtimes' \/ (job # Undefined /\ c.runtime = job.runtime)}

\* Altered: what is listed stays so.
UninstallListed(c, p, operation) ==
    /\ Registered(p) # {}
    /\ Begins(c, p, operation, "deleting")
    /\ disturbed' = IF Working(p) # {} THEN disturbed \cup {p} ELSE disturbed
    /\ UNCHANGED <<runtimes, caches, exists>>

\* All runtimes of the package are unregistered at once, before the directory goes.
Uninstall(c, p, operation) ==
    /\ Registered(p) # {}
    /\ Begins(c, p, operation, "deleting")
    /\ runtimes' = runtimes \ Registered(p)
    /\ compiled' = Reachable(compiled)
    /\ env_vars' = Reachable(env_vars)
    /\ disturbed' = IF Working(p) # {} THEN disturbed \cup {p} ELSE disturbed
    /\ UNCHANGED exists

\* fs.rm under way: the marker has gone, or the package files.
RemoveSome(c) ==
    /\ step[c] \in {"removing", "deleting"}
    /\ \/ marked' = marked \ {pkg[c]} /\ UNCHANGED disk
       \/ disk' = [disk EXCEPT ![pkg[c]] = 0] /\ UNCHANGED marked
    /\ UNCHANGED <<env, config, runtimes, calls, exists, installs, registered, disturbed, caches, job, answer>>

\* The directory has gone: an uninstall is over, an install makes it anew.
Removed(c) ==
    LET p == pkg[c] IN
    /\ \/ Goes(c, "removing", "fetching") /\ exists' = exists \cup {p}
       \/ Goes(c, "deleting", "idle") /\ exists' = exists \ {p}
    /\ disk' = [disk EXCEPT ![p] = 0]
    /\ marked' = marked \ {p}
    /\ disturbed' = IF Working(p) = {c} /\ Registered(p) = {} THEN disturbed \ {p} ELSE disturbed
    /\ UNCHANGED <<runtimes, installs, registered>>

WriteFiles(c) ==
    /\ installs < MaxInstalls
    /\ Goes(c, "fetching", "written")
    /\ installs' = installs + 1
    /\ exists' = exists \cup {pkg[c]}
    /\ disk' = [disk EXCEPT ![pkg[c]] = installs + 1]
    /\ UNCHANGED <<runtimes, marked, registered, disturbed>>

\* load_package, which throws if another call has removed the files meanwhile.
Register(c) ==
    /\ Goes(c, "written", "registered")
    /\ disk[pkg[c]] # 0
    /\ registered' = registered + 1
    /\ runtimes' = runtimes \cup LoadPackage(config, pkg[c], Info[pkg[c]], registered + 1)
    /\ UNCHANGED <<disks, installs, disturbed>>

\* The last of an install.
Mark(c) ==
    /\ Goes(c, "registered", "idle")
    /\ pkg[c] \in exists
    /\ marked' = marked \cup {pkg[c]}
    /\ UNCHANGED <<runtimes, exists, disk, installs, registered, disturbed>>

\* Whichever step fails, what was done stays done: of an install that has
\* registered its runtimes they stay listed.
Fails(c) ==
    /\ \E from \in Steps \ {"idle"} : Goes(c, from, "idle")
    /\ UNCHANGED <<runtimes, disks, installs, registered, disturbed>>

-------------------------------------------------------------------------------
(* Requests *)

Later == 0      \* the answer comes once the work is done

Answer(r, status) == answer' = [request |-> [r EXCEPT !.body = Nothing], status |-> status]

Refuse(r) ==
    /\ Refused(r)
    /\ Answer(r, ReadJsonBody(r))
    /\ UNCHANGED <<env, config, registry, caches, job>>

Miss(r) ==
    /\ ~Routed(r) /\ ~Refused(r)
    /\ Answer(r, 404)
    /\ UNCHANGED <<env, config, registry, caches, job>>

\* The routes that only read; an operation may be unknown.
Lookup(r) ==
    /\ Routed(r) /\ r.method \in Lookups
    /\ \E status \in IF r.path \in {"operation", "log"} THEN {200, 404} ELSE {200} : Answer(r, status)
    /\ UNCHANGED <<env, config, registry, caches, job>>

\* Altered: a negative value of a limited field is let through.
WithinLimitAnySign(value, configured) ==
    \/ value = 0
    \/ value # Junk /\ (configured <= 0 \/ value <= configured)

\* Zero is skipped as absent values are; what is not limited takes any number.
WithinLimit(value, configured) ==
    \/ value = 0
    \/ value # Junk /\ (configured <= 0 \/ value \in 0..configured)

Accepts(body, rt) ==
    /\ Undefined \notin {body.language, body.version, body.files}
    /\ \A i \in DOMAIN body.files : body.files[i].content # Undefined
    /\ rt # Undefined
    /\ rt.language = "file" \/ \E i \in DOMAIN body.files : body.files[i].encoding \in {Undefined, "utf8"}
    /\ \A f \in Fields \cap DOMAIN body.limits : WithinLimit(body.limits[f], rt.limits[f])

\* `??` takes a zero, and only passes over what is undefined.
JobLimits(body, rt) ==
    [f \in Fields |-> IF f \in DOMAIN body.limits THEN body.limits[f] ELSE rt.limits[f]]

\* Altered: an encoding that is not given stays that way.
EncodingAsGiven(file) == file.encoding

Encoding(file) == IF file.encoding \in {"base64", "hex", "utf8"} THEN file.encoding ELSE "utf8"

NewJob(body, rt) == [
    stage |-> "ready",
    runtime |-> rt,
    encodings |-> [i \in DOMAIN body.files |-> Encoding(body.files[i])],
    body |-> body,
    limits |-> JobLimits(body, rt)]

RuntimeFor(body) == Latest(runtimes, body.language, body.version)

\* No response is on its way, and no job past its first step is still followed.
Idle == answer = Undefined /\ (job # Undefined => job.stage = "ready")

Reject(r) ==
    /\ r.path = "execute" /\ Routed(r) /\ ~Refused(r)
    /\ ~Accepts(Decoded(r, Nothing), RuntimeFor(Decoded(r, Nothing)))
    /\ Answer(r, 400)
    /\ UNCHANGED <<env, config, registry, caches, job>>

Submit(r) ==
    /\ r.path = "execute" /\ Routed(r) /\ ~Refused(r)
    /\ LET body == Decoded(r, Nothing) IN
        /\ Accepts(body, RuntimeFor(body))
        /\ job = Undefined
        /\ job' = NewJob(body, RuntimeFor(body))
    /\ Answer(r, Later)
    /\ UNCHANGED <<env, config, registry, caches>>

\* get_package: the exact language, the highest version in the range.
Package(body) ==
    LET found == {p \in Packages : /\ Undefined \notin {body.language, body.version}
                                   /\ Info[p].language = body.language
                                   /\ Info[p].version \in body.version}
    IN  IF found = {} THEN Undefined
        ELSE CHOOSE p \in found : \A q \in found : Info[q].version <= Info[p].version

Uninstalls(r, body) == IF r.path = "packages" THEN r.method = "DELETE" ELSE body.kind = "uninstall"

\* A request to install or uninstall package p has been decoded.
Manages(r, p) ==
    /\ r.path \in {"packages", "operations"} /\ Routed(r) /\ r.method \notin Lookups /\ ~Refused(r)
    /\ p = Package(Decoded(r, Nothing))

Started(r) == Answer(r, IF r.path = "operations" THEN 202 ELSE Later)

UnknownPackage(r) ==
    /\ Manages(r, Undefined)
    /\ Answer(r, 404)
    /\ UNCHANGED <<env, config, registry, caches, job>>

\* Another operation is at work on the package.
Occupied(p) == \E c \in operations : pkg[c] = p

Busy(r, p) ==
    /\ Manages(r, p) /\ r.path = "operations" /\ Occupied(p)
    /\ Answer(r, 409)
    /\ UNCHANGED <<env, config, registry, caches, job>>

Admitted(r, p) == Manages(r, p) /\ (r.path = "operations" => ~Occupied(p))

\* Installed already, or not installed: an operation fails later, by itself.
Futile(r, p) ==
    /\ Admitted(r, p)
    /\ IF Uninstalls(r, Decoded(r, Nothing)) THEN Registered(p) = {} ELSE p \in marked
    /\ Answer(r, IF r.path = "operations" THEN 202 ELSE 500)
    /\ UNCHANGED <<env, config, registry, caches, job>>

StartInstall(r, p) ==
    /\ Admitted(r, p) /\ ~Uninstalls(r, Decoded(r, Nothing))
    /\ \E c \in Calls : Install(c, p, r.path = "operations")
    /\ Started(r)

StartUninstall(r, p) ==
    /\ Admitted(r, p) /\ Uninstalls(r, Decoded(r, Nothing))
    /\ \E c \in Calls : Uninstall(c, p, r.path = "operations")
    /\ Started(r)

-------------------------------------------------------------------------------
(* The job reads of its runtime what it needs to start its first stage *)

HasEntrypoint(j) ==
    IF j.runtime.language = "file" THEN j.encodings # <<>>
    ELSE \E i \in DOMAIN j.encodings : j.encodings[i] = "utf8"

\* What a getter of the runtime finds, now or when it was first asked.
Found(cache, rt) ==
    IF \E c \in cache : c.runtime = rt THEN (CHOOSE c \in cache : c.runtime = rt).found
    ELSE disk[rt.package]

Remember(cache, rt) == cache \cup {[runtime |-> rt, found |-> Found(cache, rt)]}

StartStage ==
    /\ job # Undefined /\ job.stage = "ready" /\ HasEntrypoint(job)
    /\ Found(env_vars, job.runtime) # 0
    /\ job' = [job EXCEPT !.stage = "started"]
    /\ compiled' = Remember(compiled, job.runtime)
    /\ env_vars' = Remember(env_vars, job.runtime)
    /\ UNCHANGED <<env, config, registry, answer>>

\* existsSync says no of a directory that is gone; readFileSync throws.
StageFails ==
    /\ job # Undefined /\ job.stage = "ready"
    /\ HasEntrypoint(job) => Found(env_vars, job.runtime) = 0
    /\ job' = [job EXCEPT !.stage = "failed"]
    /\ compiled' = IF HasEntrypoint(job) THEN Remember(compiled, job.runtime) ELSE compiled
    /\ UNCHANGED <<env, config, registry, env_vars, answer>>

-------------------------------------------------------------------------------

Handle(r) ==
    \/ Refuse(r) \/ Miss(r) \/ Lookup(r) \/ Reject(r) \/ Submit(r) \/ UnknownPackage(r)
    \/ \E p \in Packages : Busy(r, p) \/ Futile(r, p) \/ StartInstall(r, p) \/ StartUninstall(r, p)

Call(c) == RemoveSome(c) \/ Removed(c) \/ WriteFiles(c) \/ Register(c) \/ Mark(c) \/ Fails(c)

\* The response leaves, or the job goes on to its end.
Respond ==
    /\ ~Idle
    /\ answer' = Undefined
    /\ job' = IF answer = Undefined THEN Undefined ELSE job
    /\ UNCHANGED <<env, config, registry, caches>>

Next ==
    \/ Boot
    \/ Respond
    \/ /\ Up /\ Idle
       /\ \/ \E r \in Requests : Handle(r)
          \/ \E c \in Calls : Call(c)
          \/ StartStage
          \/ StageFails

Spec == Init /\ [][Next]_vars

-------------------------------------------------------------------------------
(* Properties *)

\* What a package says of the language a runtime was registered for.
Entry(rt) ==
    LET info == Info[rt.package]
    IN  IF info.provides = <<>> THEN info ELSE info.provides[rt.number]

\* The limit the operator and the package mean for a runtime: the override named
\* for the language in the environment, else the package's, else the option.
Meant(rt, limit) ==
    LET named == IF "limit_overrides" \in DOMAIN env THEN env.limit_overrides ELSE <<>>
    IN  IF rt.language \in DOMAIN named /\ limit \in DOMAIN named[rt.language]
        THEN named[rt.language][limit]
        ELSE IF limit \in DOMAIN Entry(rt).limit_overrides THEN Entry(rt).limit_overrides[limit]
        ELSE IF limit \in DOMAIN env THEN env[limit] ELSE Default[limit]

\* Every limit a job runs under is a number, and one that a positive limit was
\* meant for is between zero and that limit, from the environment through the
\* registration of whatever package and the request's own value to isolate's
\* arguments (config.ts, runtime.ts, get_job).
JobsKeepTheLimits ==
    job # Undefined => \A f \in Fields :
        /\ job.limits[f] \in Int
        /\ Meant(job.runtime, f) > 0 => job.limits[f] \in 0..Meant(job.runtime, f)

\* Of the runtimes that match a submission it gets the newest, and of equals the
\* one registered first, whatever has come and gone (runtime.ts).
LatestIsServed ==
    [][job = Undefined /\ job' # Undefined =>
        \A rt \in Matching(runtimes, job'.body.language, job'.body.version) :
            \/ rt.version < job'.runtime.version
            \/ rt.version = job'.runtime.version /\ Before(job'.runtime, rt)]_vars

\* What a listed runtime has remembered of its package directory is still true:
\* a package is not removed or replaced under the getters' cached answers,
\* whatever installs and uninstalls fail; but where a second call is let loose
\* on the package, or an install is begun when one that failed late has left its
\* runtimes listed, it is (package.ts:393-399, 431-443, 589-591).
ListedCachesAreFresh ==
    \A c \in compiled \cup env_vars :
        c.runtime \in runtimes /\ c.runtime.package \notin disturbed => c.found = disk[c.runtime.package]

\* A job that was accepted can only fail to start for the want of its package's
\* files if the package was uninstalled after it was accepted, or is being
\* installed when it is listed already, or by two calls at once.  An install or
\* an uninstall that fails is not enough.
FailsOnlyIfUninstalled ==
    job # Undefined /\ job.stage = "failed" /\ HasEntrypoint(job) =>
        job.runtime \notin runtimes \/ job.runtime.package \in disturbed

\* What get_job takes for a utf8 file is one to Job as well: an accepted job has
\* an entrypoint.  (For the language "file" get_job asks for no file at all.)
AcceptedHaveAnEntrypoint ==
    job # Undefined /\ job.runtime.language # "file" => HasEntrypoint(job)

\* Whatever the path, one with a handler or one without, a request that would
\* change something under /api/v2 is refused first if it is not json (415) or
\* does not parse (400); only WebSocket paths are outside the gate.
GateComesFirst ==
    answer # Undefined =>
        LET r == answer.request IN
        r.method \in {"POST", "PUT", "PATCH", "DELETE"} /\ r.path \notin Sockets \cup {"root", "elsewhere"} =>
            /\ ~r.json => answer.status = 415
            /\ r.json /\ r.text = "malformed" => answer.status = 400

\* A limit given as zero is treated as one that is absent, as
\* api/tests/contract.test.ts:271 has it.
ZeroIsAbsent ==
    job # Undefined => \A f \in Fields \cap DOMAIN job.body.limits :
        job.body.limits[f] = 0 => job.limits[f] = job.runtime.limits[f]
===============================================================================
