--------------------------- MODULE Submissions_proofs ---------------------------
(***************************************************************************)
(* What holds of submissions for any environment, packages and requests:   *)
(* the gate, the choice of a runtime, the limits of a job, and what the    *)
(* getters of a runtime remember.                                          *)
(***************************************************************************)
EXTENDS Submissions, FiniteSetTheorems, WellFoundedInduction, TLAPS

-------------------------------------------------------------------------------
(* The choice of the latest *)

\* Of runtimes a and b, a is served.
Precedes(a, b) ==
    \/ a.version > b.version
    \/ a.version = b.version /\ Before(a, b)

Numbered(rt) == rt.version \in Nat /\ rt.installation \in Nat /\ rt.number \in Nat

\* The order of Latest is total: of finitely many runtimes one comes first.
LEMMA OneComesFirst ==
  ASSUME NEW S, IsFiniteSet(S), S # {}, \A rt \in S : Numbered(rt)
  PROVE  \E rt \in S : \A other \in S : Precedes(rt, other)
  <1> DEFINE First(T) == \E rt \in T : \A other \in T : Precedes(rt, other)
             Without == {T \in FiniteSubsetsOf(S) : T # {} /\ ~First(T)}
  <1>1. SUFFICES ASSUME Without # {} PROVE FALSE
    BY DEF FiniteSubsetsOf
  <1>2. PICK T \in Without : \A U \in Without : <<U, T>> \notin StrictSubsetOrdering(S)
    <2> HIDE DEF First
    <2> QED BY <1>1, FS_StrictSubsetOrderingWellFounded, WFMin
  <1>3. T \subseteq S /\ IsFiniteSet(T) /\ T # {} /\ ~First(T)
    BY <1>2 DEF FiniteSubsetsOf
  <1>4. PICK rt \in T : TRUE
    BY <1>3
  <1> DEFINE U == T \ {rt}
  <1>5. U \in FiniteSubsetsOf(S) /\ <<U, T>> \in StrictSubsetOrdering(S)
    <2>1. IsFiniteSet(U)
      BY <1>3, FS_RemoveElement
    <2>2. U \subseteq S /\ U \subseteq T /\ U # T /\ T \in SUBSET S
      BY <1>3, <1>4
    <2> HIDE DEF U
    <2> QED BY <2>1, <2>2 DEF FiniteSubsetsOf, StrictSubsetOrdering
  <1>6. Precedes(rt, rt)
    BY <1>3, <1>4 DEF Precedes, Before, Numbered
  <1>7. CASE U = {}
    BY <1>3, <1>4, <1>6, <1>7
  <1>8. CASE U # {}
    <2>1. First(U)
      <3> HIDE DEF First
      <3> QED BY <1>2, <1>5, <1>8
    <2>2. PICK first \in U : \A other \in U : Precedes(first, other)
      BY <2>1
    <2>3. \A a, b \in T : Precedes(a, b) \/ Precedes(b, a)
      BY <1>3 DEF Precedes, Before, Numbered
    <2>4. \A a, b, c \in T : Precedes(a, b) /\ Precedes(b, c) => Precedes(a, c)
      BY <1>3 DEF Precedes, Before, Numbered
    <2>5. CASE Precedes(first, rt)
      BY <1>3, <2>2, <2>5
    <2>6. CASE Precedes(rt, first)
      BY <1>3, <1>4, <1>6, <2>2, <2>4, <2>6
    <2> QED BY <1>4, <2>2, <2>3, <2>5, <2>6
  <1> QED BY <1>7, <1>8

LEMMA LatestIsFirst ==
  ASSUME NEW S, IsFiniteSet(S), \A rt \in S : Numbered(rt), NEW language, NEW range,
         Latest(S, language, range) # Undefined
  PROVE  /\ Latest(S, language, range) \in Matching(S, language, range)
         /\ \A other \in Matching(S, language, range) : Precedes(Latest(S, language, range), other)
  <1> DEFINE found == Matching(S, language, range)
  <1>1. found \subseteq S /\ found # {} /\ IsFiniteSet(found)
    BY FS_Subset DEF Matching, Latest
  <1>2. \E rt \in found : \A other \in found : Precedes(rt, other)
    BY <1>1, OneComesFirst
  <1>3. Latest(S, language, range) = CHOOSE rt \in found : \A other \in found : Precedes(rt, other)
    BY <1>1 DEF Latest, Precedes
  <1> QED BY <1>2, <1>3

-------------------------------------------------------------------------------
(* Configuration *)

ConfigInv == Up => config = Resolved(env) /\ Survives(env)

\* What the process has survived with is what the operator meant.
LEMMA ConfigIsMeant ==
  ASSUME ConfigInv, Up
  PROVE  /\ \A l \in Limits : /\ config[l] \in Int
                              /\ config[l] = IF l \in DOMAIN env THEN env[l] ELSE Default[l]
         /\ LET named == IF "limit_overrides" \in DOMAIN env THEN env.limit_overrides ELSE <<>>
            IN  /\ DOMAIN config.limit_overrides = DOMAIN named
                /\ \A language \in DOMAIN named :
                    /\ DOMAIN config.limit_overrides[language] = DOMAIN named[language]
                    /\ \A l \in DOMAIN named[language] :
                        /\ config.limit_overrides[language][l] \in Int
                        /\ config.limit_overrides[language][l] = named[language][l]
  <1>1. \A o \in Options : config[o] = Value(o, env) /\ Valid(o, Value(o, env))
    BY DEF ConfigInv, Resolved, Survives
  <1>2. \A l \in Limits : /\ config[l] \in Int
                          /\ config[l] = IF l \in DOMAIN env THEN env[l] ELSE Default[l]
    <2> SUFFICES ASSUME NEW l \in Limits
                 PROVE  /\ config[l] \in Int
                        /\ config[l] = IF l \in DOMAIN env THEN env[l] ELSE Default[l]
      OBVIOUS
    <2>1. Kind(l) = "number" /\ l \in Options
      BY DEF Kind, Options
    <2>2. config[l] = Value(l, env) /\ Value(l, env) # NaN
      BY <1>1, <2>1 DEF Valid
    <2>3. Value(l, env) = IF l \in DOMAIN env THEN ParseInt(env[l]) ELSE Default[l]
      BY <2>1 DEF Value, Parse
    <2> QED BY <2>2, <2>3, ConfigAssumption DEF ParseInt
  <1> DEFINE o == "limit_overrides"
             named == IF o \in DOMAIN env THEN env.limit_overrides ELSE <<>>
  <1>3. Kind(o) = "overrides" /\ o \in Options
    BY ConfigAssumption DEF Kind, Options, Others
  <1>4. /\ config.limit_overrides = Value(o, env)
        /\ Value(o, env) # Null /\ ValidOverrides(Value(o, env))
    BY <1>1, <1>3 DEF Valid
  <1>5. CASE o \notin DOMAIN env
    BY <1>2, <1>4, <1>5, ConfigAssumption DEF Value
  <1>6. CASE o \in DOMAIN env
    <2>1. Value(o, env) = ParseOverrides(env.limit_overrides)
      BY <1>3, <1>6 DEF Value, Parse
    <2>2. config.limit_overrides =
            [l \in DOMAIN named |-> [k \in DOMAIN named[l] |-> ParseInt(named[l][k])]]
      BY <1>4, <1>6, <2>1 DEF ParseOverrides
    <2>3. \A l \in DOMAIN named : \A k \in DOMAIN named[l] : config.limit_overrides[l][k] # NaN
      BY <1>4, <2>2 DEF ValidOverrides
    <2> HIDE DEF named
    <2>4. \A l \in DOMAIN named : \A k \in DOMAIN named[l] :
            config.limit_overrides[l][k] \in Int /\ config.limit_overrides[l][k] = named[l][k]
      BY <2>2, <2>3 DEF ParseInt
    <2>5. /\ DOMAIN config.limit_overrides = DOMAIN named
          /\ \A l \in DOMAIN named : DOMAIN config.limit_overrides[l] = DOMAIN named[l]
      BY <2>2
    <2> QED BY <1>2, <2>4, <2>5 DEF named
  <1> QED BY <1>5, <1>6

\* What a registered runtime has of its package and of the operator.
RuntimeOK(rt) ==
    /\ rt.package \in Packages /\ Numbered(rt)
    /\ rt.version = Info[rt.package].version
    /\ \A l \in Limits : rt.limits[l] \in Int /\ rt.limits[l] = Meant(rt, l)

LEMMA LoadedIsOK ==
  ASSUME ConfigInv, Up, NEW p \in Packages, NEW n \in Nat
  PROVE  /\ IsFiniteSet(LoadPackage(config, p, Info[p], n))
         /\ \A rt \in LoadPackage(config, p, Info[p], n) :
                RuntimeOK(rt) /\ rt.package = p /\ rt.installation = n
  <1> DEFINE info == Info[p]
             R(entry, i) == Runtime(config, p, info, entry, i, n)
             entryOf(i) == IF info.provides = <<>> THEN info ELSE info.provides[i]
  <1>1. ASSUME NEW i \in Nat, entryOf(i) \in Provided(info)
        PROVE  RuntimeOK(R(entryOf(i), i)) /\ R(entryOf(i), i).package = p /\ R(entryOf(i), i).installation = n
    <2> DEFINE rt == R(entryOf(i), i)
    <2>1. /\ rt.package = p /\ rt.installation = n /\ rt.number = i
          /\ rt.language = entryOf(i).language /\ rt.version = info.version
          /\ rt.limits = ComputeAllLimits(config, entryOf(i).language, entryOf(i).limit_overrides)
      BY DEF Runtime
    <2> HIDE DEF rt, R
    <2>2. Entry(rt) = entryOf(i)
      BY <2>1 DEF Entry
    <2>3. \A l \in DOMAIN entryOf(i).limit_overrides : entryOf(i).limit_overrides[l] \in Int
      BY <1>1, InfoAssumption
    <2> HIDE DEF entryOf
    <2>4. ASSUME NEW l \in Limits PROVE rt.limits[l] \in Int /\ rt.limits[l] = Meant(rt, l)
      <3>1. rt.limits[l] = ComputeSingleLimit(config, rt.language, l, entryOf(i).limit_overrides)
        BY <2>1 DEF ComputeAllLimits
      <3> QED BY <2>2, <2>3, <3>1, ConfigIsMeant DEF ComputeSingleLimit, Meant
    <2>5. Numbered(rt) /\ rt.version = Info[rt.package].version
      BY <2>1, InfoAssumption DEF Numbered
    <2> QED BY <2>1, <2>4, <2>5 DEF RuntimeOK, rt
  <1>2. CASE info.provides = <<>>
    <2>1. LoadPackage(config, p, info, n) = {R(entryOf(1), 1)}
      BY <1>2 DEF LoadPackage
    <2>2. entryOf(1) \in Provided(info)
      BY <1>2 DEF Provided
    <2> HIDE DEF R, entryOf
    <2> QED BY <1>1, <2>1, <2>2, FS_Singleton
  <1>3. CASE info.provides # <<>>
    <2> DEFINE D == DOMAIN info.provides
               f == [i \in D |-> R(entryOf(i), i)]
    <2>1. D \subseteq Nat /\ IsFiniteSet(D)
      <3>1. D = 1..Len(info.provides) /\ Len(info.provides) \in Int
        BY InfoAssumption
      <3> HIDE DEF D
      <3> QED BY <3>1, FS_Interval
    <2>2. LoadPackage(config, p, info, n) = {f[i] : i \in D}
      BY <1>3 DEF LoadPackage
    <2>3. \A i \in D : entryOf(i) \in Provided(info)
      BY <1>3 DEF Provided
    <2>4. f \in Surjection(D, {f[i] : i \in D})
      BY DEF Surjection
    <2>5. IsFiniteSet({f[i] : i \in D})
      <3> HIDE DEF f, D
      <3> QED BY <2>1, <2>4, FS_Surjection
    <2> HIDE DEF R, entryOf
    <2> QED BY <1>1, <2>1, <2>2, <2>3, <2>5
  <1> QED BY <1>2, <1>3

-------------------------------------------------------------------------------
(* The registry, the calls, and the runtimes that jobs and getters know *)

\* No registration to come is of a runtime that is known.
Aged(rt) == rt.package \in Packages /\ rt.installation \in 0..registered

RegistryInv ==
    /\ installs \in Nat /\ registered \in Nat
    /\ IsFiniteSet(runtimes)
    /\ \A rt \in runtimes : RuntimeOK(rt) /\ Aged(rt)

Listed(p) == \E rt \in runtimes : rt.package = p

\* Of a package that no second call was let loose on: once it is listed its files
\* are there, and no call at work on it will still touch them.
Undisturbed(p) ==
    /\ \A c, d \in Working(p) : c = d
    /\ Listed(p) => disk[p] # 0 /\ \A c \in Working(p) : step[c] = "registered"

CallsInv ==
    /\ disk \in [Packages -> Nat]
    /\ step \in [Calls -> Steps] /\ DOMAIN pkg = Calls
    /\ \A c \in Calls : step[c] # "idle" => pkg[c] \in Packages
    /\ \A p \in Packages \ disturbed : Undisturbed(p)

\* All that get_job has looked at when it accepts, and the limits that follow.
AcceptedJob(j) ==
    /\ j = [stage |-> j.stage, runtime |-> j.runtime, encodings |-> j.encodings,
            body |-> j.body, limits |-> j.limits]
    /\ RuntimeOK(j.runtime)
    /\ j.runtime.language # "file" => HasEntrypoint(j)
    /\ \A f \in Fields : /\ j.limits[f] \in Int
                         /\ j.runtime.limits[f] > 0 => j.limits[f] \in 0..j.runtime.limits[f]

JobInv == job # Undefined => AcceptedJob(job) /\ Aged(job.runtime)

CacheInv == \A c \in compiled \cup env_vars : Aged(c.runtime)

SubmissionInv ==
    /\ ConfigInv /\ RegistryInv /\ CallsInv /\ JobInv /\ CacheInv
    /\ ListedCachesAreFresh /\ FailsOnlyIfUninstalled

LEMMA SubmissionInit == Init => SubmissionInv
  <1> SUFFICES ASSUME Init PROVE SubmissionInv
    OBVIOUS
  <1>1. ConfigInv
    BY DEF Init, ConfigInv, Up
  <1>2. RegistryInv
    BY FS_EmptySet DEF Init, RegistryInv
  <1>4. CallsInv
    BY DEF Init, CallsInv, Undisturbed, Listed, Working, Steps
  <1>3. JobInv /\ CacheInv /\ ListedCachesAreFresh /\ FailsOnlyIfUninstalled
    BY DEF Init, JobInv, CacheInv, ListedCachesAreFresh, FailsOnlyIfUninstalled
  <1> QED BY <1>1, <1>2, <1>3, <1>4 DEF SubmissionInv

\* What get_job accepts runs under limits that keep within the runtime's.
LEMMA AcceptedIsOK ==
  ASSUME RegistryInv, NEW r \in Requests,
         Accepts(Decoded(r, Nothing), RuntimeFor(Decoded(r, Nothing)))
  PROVE  LET body == Decoded(r, Nothing)
             rt == RuntimeFor(body)
         IN  rt \in runtimes /\ AcceptedJob(NewJob(body, rt)) /\ NewJob(body, rt).runtime = rt
  <1> DEFINE body == Decoded(r, Nothing)
             rt == RuntimeFor(body)
             j == NewJob(body, rt)
  <1>1. rt \in runtimes
    <2>1. rt # Undefined
      BY DEF Accepts
    <2>2. \A other \in runtimes : Numbered(other)
      BY DEF RegistryInv, RuntimeOK
    <2> QED BY <2>1, <2>2, LatestIsFirst DEF RegistryInv, RuntimeFor, Matching
  <1>2. RuntimeOK(rt)
    BY <1>1 DEF RegistryInv
  <1>3. /\ rt.language = "file" \/ \E i \in DOMAIN body.files : body.files[i].encoding \in {Undefined, "utf8"}
        /\ \A f \in Fields \cap DOMAIN body.limits : WithinLimit(body.limits[f], rt.limits[f])
    BY DEF Accepts
  <1>4. \A f \in Fields \cap DOMAIN body.limits : body.limits[f] \in Int \cup {Junk}
    BY RequestsAssumption DEF Decoded, Nothing
  <1> HIDE DEF rt, body
  <1>5. /\ j = [stage |-> "ready", runtime |-> rt, encodings |-> j.encodings, body |-> body, limits |-> j.limits]
        /\ j.encodings = [i \in DOMAIN body.files |-> Encoding(body.files[i])]
        /\ j.limits = JobLimits(body, rt)
    BY DEF NewJob
  <1> HIDE DEF j
  <1>6. rt.language # "file" => HasEntrypoint(j)
    BY <1>3, <1>5, SubmissionsAssumption DEF HasEntrypoint, Encoding
  <1>7. ASSUME NEW f \in Fields
        PROVE  j.limits[f] \in Int /\ (rt.limits[f] > 0 => j.limits[f] \in 0..rt.limits[f])
    <2>1. rt.limits[f] \in Int
      BY <1>2, SubmissionsAssumption DEF RuntimeOK
    <2>2. CASE f \in DOMAIN body.limits
      BY <1>3, <1>4, <1>5, <2>1, <2>2 DEF JobLimits, WithinLimit
    <2>3. CASE f \notin DOMAIN body.limits
      BY <1>5, <2>1, <2>3 DEF JobLimits
    <2> QED BY <2>2, <2>3
  <1> QED BY <1>1, <1>2, <1>5, <1>6, <1>7 DEF AcceptedJob, j, rt, body

\* A getter's answer about a listed runtime is what its directory holds.
LEMMA FoundIsFresh ==
  ASSUME NEW cache, cache \in {compiled, env_vars}, ListedCachesAreFresh, NEW rt \in runtimes,
         rt.package \notin disturbed
  PROVE  Found(cache, rt) = disk[rt.package]
  BY DEF Found, ListedCachesAreFresh

\* What each step of a call has to keep: packages it is not about are as they
\* were, and so are the files of its own where it is listed and undisturbed.
LEMMA CallKeeps ==
  ASSUME SubmissionInv, Up, UNCHANGED <<env, config, pkg, compiled, env_vars, job>>,
         NEW c \in Calls, step[c] # "idle", NEW to \in Steps, step' = [step EXCEPT ![c] = to],
         installs' \in Nat, registered' \in Nat, registered <= registered',
         disk' \in [Packages -> Nat], \A q \in Packages \ {pkg[c]} : disk'[q] = disk[q],
         disturbed' \in {disturbed, disturbed \ {pkg[c]}},
         IsFiniteSet(runtimes'), runtimes \subseteq runtimes',
         \A rt \in runtimes' : RuntimeOK(rt) /\ rt.installation \in 0..registered',
         \A rt \in runtimes' \ runtimes : rt.package = pkg[c] /\ rt.installation > registered,
         pkg[c] \notin disturbed' =>
            /\ Undisturbed(pkg[c])'
            /\ \A rt \in runtimes : rt.package = pkg[c] =>
                    pkg[c] \notin disturbed /\ disk'[pkg[c]] = disk[pkg[c]]
  PROVE  SubmissionInv'
  <1> DEFINE p == pkg[c]
  <1>1. p \in Packages /\ p' = p /\ disk \in [Packages -> Nat] /\ step \in [Calls -> Steps] /\ DOMAIN pkg = Calls
    BY DEF SubmissionInv, CallsInv
  <1>2. ConfigInv'
    BY DEF SubmissionInv, ConfigInv, Up, Resolved, Survives, Value
  <1>3. \A rt : RuntimeOK(rt) => RuntimeOK(rt)'
    BY DEF RuntimeOK, Meant, Entry, Numbered
  <1>4. \A rt : Aged(rt) => Aged(rt)' /\ rt \notin runtimes' \ runtimes
    BY DEF Aged, SubmissionInv, RegistryInv
  <1>5. RegistryInv'
    BY <1>3 DEF RegistryInv, Aged, RuntimeOK
  <1>6. ASSUME NEW q \in Packages, q \notin disturbed', q # p PROVE Undisturbed(q)'
    <2>1. Undisturbed(q)
      BY <1>6 DEF SubmissionInv, CallsInv
    <2>2. Working(q)' = Working(q) /\ \A d \in Working(q) : step'[d] = step[d]
      BY <1>1, <1>6 DEF Working
    <2>3. Listed(q)' => Listed(q)
      BY <1>6 DEF Listed
    <2>4. disk'[q] = disk[q]
      BY <1>6
    <2> HIDE DEF p
    <2> QED BY <2>1, <2>2, <2>3, <2>4 DEF Undisturbed
  <1>7. CallsInv'
    <2>1. \A q \in Packages \ disturbed' : Undisturbed(q)'
      BY <1>6
    <2>2. step' \in [Calls -> Steps] /\ \A d \in Calls : step'[d] # "idle" => pkg'[d] \in Packages
      BY <1>1 DEF SubmissionInv, CallsInv
    <2> QED BY <1>1, <2>1, <2>2 DEF CallsInv
  <1>8. JobInv' /\ CacheInv'
    BY <1>3, <1>4 DEF SubmissionInv, JobInv, AcceptedJob, HasEntrypoint, CacheInv
  <1>9. ListedCachesAreFresh'
    <2> SUFFICES ASSUME NEW e \in compiled \cup env_vars, e.runtime \in runtimes',
                        e.runtime.package \notin disturbed'
                 PROVE  e.found = disk'[e.runtime.package]
      BY DEF ListedCachesAreFresh
    <2>1. e.runtime \in runtimes /\ e.runtime.package \in Packages
      BY <1>4 DEF SubmissionInv, CacheInv, Aged
    <2>2. e.runtime.package \notin disturbed /\ disk'[e.runtime.package] = disk[e.runtime.package]
      BY <2>1
    <2> QED BY <2>1, <2>2 DEF SubmissionInv, ListedCachesAreFresh
  <1>10. FailsOnlyIfUninstalled'
    <2> SUFFICES ASSUME job # Undefined, job.stage = "failed", HasEntrypoint(job), job.runtime \in runtimes',
                        job.runtime.package \notin disturbed'
                 PROVE  FALSE
      BY DEF FailsOnlyIfUninstalled, HasEntrypoint
    <2>1. job.runtime \in runtimes
      BY <1>4 DEF SubmissionInv, JobInv
    <2>2. job.runtime.package \notin disturbed
      BY <2>1
    <2> QED BY <2>1, <2>2 DEF SubmissionInv, FailsOnlyIfUninstalled
  <1> QED BY <1>2, <1>5, <1>7, <1>8, <1>9, <1>10 DEF SubmissionInv

\* All that is listed of a package is what an uninstall would unregister.
LEMMA RegisteredIsListed ==
  ASSUME RegistryInv, NEW p
  PROVE  \A rt \in runtimes : rt.package = p <=> rt \in Registered(p)
  BY DEF RegistryInv, RuntimeOK, Registered

LEMMA CallsGoOn ==
  ASSUME SubmissionInv, Up, NEW c \in Calls, Call(c)
  PROVE  SubmissionInv'
  <1> DEFINE p == pkg[c]
  <1>1. /\ RegistryInv /\ CallsInv
        /\ installs \in Nat /\ registered \in Nat /\ IsFiniteSet(runtimes) /\ disk \in [Packages -> Nat]
        /\ \A rt \in runtimes : RuntimeOK(rt) /\ rt.installation \in 0..registered
    BY DEF SubmissionInv, RegistryInv, CallsInv, Aged
  <1>2. step[c] # "idle" /\ step \in [Calls -> Steps] /\ p \in Packages
    BY <1>1 DEF Call, RemoveSome, Removed, WriteFiles, Register, Mark, Fails, Goes, CallsInv
  <1>3. p \notin disturbed => Undisturbed(p)
    BY <1>1, <1>2 DEF CallsInv
  <1>4. c \in Working(p)
    BY <1>2 DEF Working
  <1>5. CASE RemoveSome(c)
    <2>1. /\ step[c] \in {"removing", "deleting"}
          /\ disk' \in {disk, [disk EXCEPT ![p] = 0]}
          /\ UNCHANGED <<env, config, pkg, compiled, env_vars, job, runtimes, step, installs, registered, disturbed>>
      BY <1>5 DEF RemoveSome, calls, caches
    <2>2. step' = [step EXCEPT ![c] = step[c]] /\ step[c] \in Steps
      BY <1>2, <2>1
    <2>3. p \notin disturbed => ~Listed(p) /\ Undisturbed(p)'
      BY <1>3, <1>4, <2>1 DEF Undisturbed, Listed, Working
    <2>4. disk' \in [Packages -> Nat] /\ \A q \in Packages \ {p} : disk'[q] = disk[q]
      BY <1>1, <1>2, <2>1
    <2>5. p \notin disturbed' =>
            Undisturbed(p)' /\ \A rt \in runtimes : rt.package = p => p \notin disturbed /\ disk'[p] = disk[p]
      BY <2>1, <2>3 DEF Listed
    <2>6. registered <= registered' /\ runtimes' \ runtimes = {}
      BY <1>1, <2>1
    <2> QED BY <1>1, <1>2, <2>1, <2>2, <2>4, <2>5, <2>6, CallKeeps
  <1>6. CASE Removed(c)
    <2>1. PICK from, to \in Steps :
            /\ Goes(c, from, to)
            /\ <<from, to>> \in {<<"removing", "fetching">>, <<"deleting", "idle">>}
      BY <1>6 DEF Removed, Steps
    <2>2. /\ step[c] \in {"removing", "deleting"} /\ step' = [step EXCEPT ![c] = to] /\ to # "registered"
          /\ disk' = [disk EXCEPT ![p] = 0]
          /\ UNCHANGED <<env, config, pkg, compiled, env_vars, job, runtimes, installs, registered>>
      BY <1>6, <2>1 DEF Goes, Removed, caches
    <2>3. disturbed' = IF Working(p) = {c} /\ Registered(p) = {} THEN disturbed \ {p} ELSE disturbed
      BY <1>6 DEF Removed
    <2>4. ASSUME p \notin disturbed' PROVE ~Listed(p) /\ \A d, e \in Working(p) : d = e
      <3>1. CASE p \notin disturbed
        BY <1>3, <1>4, <2>2, <3>1 DEF Undisturbed
      <3>2. CASE p \in disturbed
        <4>1. Working(p) = {c} /\ Registered(p) = {}
          BY <2>3, <2>4, <3>2
        <4> QED BY <1>1, <4>1, RegisteredIsListed DEF Listed
      <3> QED BY <3>1, <3>2
    <2>5. Working(p)' \subseteq Working(p) /\ (Listed(p)' <=> Listed(p))
      BY <1>2, <2>2 DEF Working, Listed
    <2>6. p \notin disturbed' => Undisturbed(p)'
      BY <2>2, <2>4, <2>5 DEF Undisturbed
    <2>7. disk' \in [Packages -> Nat] /\ \A q \in Packages \ {p} : disk'[q] = disk[q]
      BY <1>1, <1>2, <2>2
    <2>8. disturbed' \in {disturbed, disturbed \ {p}}
      BY <2>3
    <2>9. p \notin disturbed' =>
            Undisturbed(p)' /\ \A rt \in runtimes : rt.package = p => p \notin disturbed /\ disk'[p] = disk[p]
      BY <2>4, <2>6 DEF Listed
    <2>10. registered <= registered' /\ runtimes' \ runtimes = {}
      BY <1>1, <2>2
    <2> QED BY <1>1, <1>2, <2>1, <2>2, <2>7, <2>8, <2>9, <2>10, CallKeeps
  <1>7. CASE WriteFiles(c)
    <2>1. /\ step[c] = "fetching" /\ step' = [step EXCEPT ![c] = "written"]
          /\ installs' = installs + 1 /\ disk' = [disk EXCEPT ![p] = installs + 1]
          /\ UNCHANGED <<env, config, pkg, compiled, env_vars, job, runtimes, registered, disturbed>>
      BY <1>7 DEF WriteFiles, Goes, caches
    <2>2. p \notin disturbed => ~Listed(p)
      BY <1>3, <1>4, <2>1 DEF Undisturbed
    <2>3. Working(p)' = Working(p) /\ (Listed(p)' <=> Listed(p))
      BY <1>2, <2>1 DEF Working, Listed
    <2>4. p \notin disturbed => Undisturbed(p)'
      BY <1>3, <2>2, <2>3, <2>1 DEF Undisturbed
    <2>5. disk' \in [Packages -> Nat] /\ \A q \in Packages \ {p} : disk'[q] = disk[q]
      BY <1>1, <1>2, <2>1
    <2>6. installs' \in Nat /\ "written" \in Steps
      BY <1>1, <2>1 DEF Steps
    <2>7. p \notin disturbed' =>
            Undisturbed(p)' /\ \A rt \in runtimes : rt.package = p => p \notin disturbed /\ disk'[p] = disk[p]
      BY <2>1, <2>2, <2>4 DEF Listed
    <2>8. registered <= registered' /\ runtimes' \ runtimes = {}
      BY <1>1, <2>1
    <2> QED BY <1>1, <1>2, <2>1, <2>5, <2>6, <2>7, <2>8, CallKeeps
  <1>8. CASE Register(c)
    <2> DEFINE new == LoadPackage(config, p, Info[p], registered + 1)
    <2>1. /\ step[c] = "written" /\ step' = [step EXCEPT ![c] = "registered"]
          /\ disk[p] # 0 /\ registered' = registered + 1 /\ runtimes' = runtimes \cup new
          /\ UNCHANGED <<env, config, pkg, compiled, env_vars, job, disk, installs, disturbed>>
      BY <1>8 DEF Register, Goes, caches, disks
    <2>2. /\ IsFiniteSet(new)
          /\ \A rt \in new : RuntimeOK(rt) /\ rt.package = p /\ rt.installation = registered + 1
      <3>1. registered + 1 \in Nat
        BY <1>1
      <3> QED BY <1>2, <3>1, LoadedIsOK DEF SubmissionInv
    <2> HIDE DEF new
    <2>3. IsFiniteSet(runtimes')
      BY <1>1, <2>1, <2>2, FS_Union
    <2>4. \A rt \in runtimes' : RuntimeOK(rt) /\ rt.installation \in 0..registered'
      BY <1>1, <2>1, <2>2
    <2>5. \A rt \in runtimes' \ runtimes : rt.package = p /\ rt.installation > registered
      BY <1>1, <2>1, <2>2
    <2>6. Working(p)' = Working(p)
      BY <1>2, <2>1 DEF Working
    <2>7. p \notin disturbed => Undisturbed(p)'
      BY <1>2, <1>3, <1>4, <2>1, <2>6 DEF Undisturbed
    <2>8. registered' \in Nat /\ registered <= registered' /\ "registered" \in Steps
      BY <1>1, <2>1 DEF Steps
    <2> QED BY <1>1, <1>2, <2>1, <2>3, <2>4, <2>5, <2>7, <2>8, CallKeeps
  <1>9. CASE Mark(c) \/ Fails(c)
    <2>1. /\ step' = [step EXCEPT ![c] = "idle"]
          /\ UNCHANGED <<env, config, pkg, compiled, env_vars, job, runtimes, disk, installs, registered, disturbed>>
      BY <1>9 DEF Mark, Fails, Goes, caches, disks
    <2>2. Working(p)' \subseteq Working(p) /\ (Listed(p)' <=> Listed(p))
          /\ \A d \in Working(p)' : step'[d] = step[d]
      BY <1>2, <2>1 DEF Working, Listed
    <2>3. p \notin disturbed => Undisturbed(p)'
      BY <1>3, <2>1, <2>2 DEF Undisturbed
    <2>4. /\ registered <= registered' /\ runtimes' \ runtimes = {} /\ "idle" \in Steps
          /\ p \notin disturbed' =>
                Undisturbed(p)' /\ \A rt \in runtimes : rt.package = p => p \notin disturbed /\ disk'[p] = disk[p]
      BY <1>1, <2>1, <2>3 DEF Steps
    <2> QED BY <1>1, <1>2, <2>1, <2>4, CallKeeps
  <1> QED BY <1>5, <1>6, <1>7, <1>8, <1>9 DEF Call

\* A call begins: where it meets another, or an install what is listed, the
\* package is disturbed; an uninstall leaves nothing listed.
LEMMA CallBegins ==
  ASSUME SubmissionInv, Up, NEW c \in Calls, NEW p \in Packages, NEW operation,
         Install(c, p, operation) \/ Uninstall(c, p, operation)
  PROVE  SubmissionInv'
  <1>1. /\ RegistryInv /\ CallsInv /\ disk \in [Packages -> Nat]
        /\ step \in [Calls -> Steps] /\ DOMAIN pkg = Calls
    BY DEF SubmissionInv, CallsInv
  <1>2. PICK to \in Steps \ {"idle"} : Begins(c, p, operation, to)
    BY DEF Install, Uninstall, Steps
  <1>3. /\ step[c] = "idle" /\ step' = [step EXCEPT ![c] = to] /\ pkg' = [pkg EXCEPT ![c] = p]
        /\ UNCHANGED <<env, config, disk, installs, registered, job>>
    BY <1>2 DEF Begins
  <1>4. /\ runtimes' \subseteq runtimes /\ compiled' \subseteq compiled /\ env_vars' \subseteq env_vars
        /\ disturbed \subseteq disturbed' /\ disturbed' \subseteq disturbed \cup {p}
        /\ p \notin disturbed' => Working(p) = {}
    BY DEF Install, Uninstall, Reachable, caches
  <1>5. p \notin disturbed' => ~Listed(p)'
    <2>1. CASE Install(c, p, operation)
      <3>1. runtimes' = runtimes /\ (p \notin disturbed' => Registered(p) = {})
        BY <2>1 DEF Install
      <3> QED BY <1>1, <3>1, RegisteredIsListed DEF Listed
    <2>2. CASE Uninstall(c, p, operation)
      <3>1. runtimes' = runtimes \ Registered(p)
        BY <2>2 DEF Uninstall
      <3> QED BY <1>1, <3>1, RegisteredIsListed DEF Listed
    <2> QED BY <2>1, <2>2
  <1>6. ConfigInv'
    BY <1>3 DEF SubmissionInv, ConfigInv, Up, Resolved, Survives, Value
  <1>7. \A rt : (RuntimeOK(rt) => RuntimeOK(rt)') /\ (Aged(rt) => Aged(rt)')
    BY <1>3 DEF RuntimeOK, Meant, Entry, Numbered, Aged
  <1>8. RegistryInv'
    BY <1>1, <1>3, <1>4, <1>7, FS_Subset DEF RegistryInv
  <1>9. ASSUME NEW q \in Packages, q \notin disturbed' PROVE Undisturbed(q)'
    <2>1. CASE q = p
      <3>1. Working(p)' = {c}
        BY <1>1, <1>3, <1>4, <1>9, <2>1 DEF Working
      <3> QED BY <1>5, <1>9, <2>1, <3>1 DEF Undisturbed
    <2>2. CASE q # p
      <3>1. Undisturbed(q)
        BY <1>1, <1>4, <1>9 DEF CallsInv
      <3>2. Working(q)' = Working(q) /\ \A d \in Working(q) : step'[d] = step[d]
        BY <1>1, <1>3, <2>2 DEF Working
      <3>3. Listed(q)' => Listed(q)
        BY <1>4 DEF Listed
      <3> QED BY <1>3, <3>1, <3>2, <3>3 DEF Undisturbed
    <2> QED BY <2>1, <2>2
  <1>10. CallsInv'
    <2>1. /\ step' \in [Calls -> Steps] /\ DOMAIN pkg' = Calls
          /\ \A d \in Calls : step'[d] # "idle" => pkg'[d] \in Packages
      BY <1>1, <1>3 DEF CallsInv
    <2> QED BY <1>1, <1>3, <1>9, <2>1 DEF CallsInv
  <1>11. JobInv' /\ CacheInv'
    BY <1>3, <1>4, <1>7 DEF SubmissionInv, JobInv, AcceptedJob, HasEntrypoint, CacheInv
  <1>12. ListedCachesAreFresh' /\ FailsOnlyIfUninstalled'
    BY <1>3, <1>4 DEF SubmissionInv, ListedCachesAreFresh, FailsOnlyIfUninstalled, HasEntrypoint
  <1> QED BY <1>6, <1>8, <1>10, <1>11, <1>12 DEF SubmissionInv

LEMMA JobsGoOn ==
  ASSUME SubmissionInv, StartStage \/ StageFails
  PROVE  SubmissionInv'
  <1> USE DEF SubmissionInv
  <1>1. /\ job # Undefined /\ AcceptedJob(job) /\ Aged(job.runtime)
        /\ UNCHANGED <<env, config, runtimes, step, pkg, disk, installs, registered, disturbed>>
        /\ \E stage : job' = [job EXCEPT !.stage = stage]
    BY DEF StartStage, StageFails, JobInv, registry, calls, disks
  <1>2. /\ job' = [stage |-> job'.stage, runtime |-> job.runtime, encodings |-> job.encodings,
                   body |-> job.body, limits |-> job.limits]
    BY <1>1 DEF AcceptedJob
  <1>3. AcceptedJob(job)' /\ job'.runtime = job.runtime /\ (HasEntrypoint(job)' <=> HasEntrypoint(job))
    BY <1>1, <1>2 DEF AcceptedJob, HasEntrypoint, RuntimeOK, Meant, Entry, Numbered
  <1>4. /\ compiled' \in {compiled, Remember(compiled, job.runtime)}
        /\ env_vars' \in {env_vars, Remember(env_vars, job.runtime)}
    BY DEF StartStage, StageFails
  <1>5. job.runtime \in runtimes /\ job.runtime.package \notin disturbed =>
            /\ Found(compiled, job.runtime) = disk[job.runtime.package]
            /\ Found(env_vars, job.runtime) = disk[job.runtime.package]
            /\ disk[job.runtime.package] # 0
    <2>1. \A rt \in runtimes : rt.package \notin disturbed => disk[rt.package] # 0
      BY DEF RegistryInv, Aged, CallsInv, Undisturbed, Listed
    <2> QED BY <2>1, FoundIsFresh
  <1>6. ConfigInv' /\ RegistryInv' /\ CallsInv'
    <2>1. ConfigInv' /\ RegistryInv'
      BY <1>1 DEF ConfigInv, Up, Resolved, Survives, Value, RegistryInv, RuntimeOK, Meant, Entry, Numbered, Aged
    <2>2. CallsInv'
      BY <1>1 DEF CallsInv, Undisturbed, Working, Listed
    <2> QED BY <2>1, <2>2
  <1>7. \A rt : Aged(rt) => Aged(rt)'
    BY <1>1 DEF Aged
  <1>8. CacheInv'
    BY <1>1, <1>4, <1>7 DEF CacheInv, Remember
  <1>9. ListedCachesAreFresh'
    BY <1>1, <1>4, <1>5 DEF ListedCachesAreFresh, Remember
  <1>10. FailsOnlyIfUninstalled'
    <2>1. CASE StartStage
      BY <1>2, <2>1, <1>1 DEF StartStage, FailsOnlyIfUninstalled, AcceptedJob
    <2>2. CASE StageFails
      BY <1>1, <1>3, <1>5, <2>2 DEF StageFails, FailsOnlyIfUninstalled
    <2> QED BY <2>1, <2>2
  <1> QED BY <1>1, <1>3, <1>6, <1>7, <1>8, <1>9, <1>10 DEF JobInv

\* The handlers that neither begin a job nor manage a package, and the
\* response, change nothing but the answer, or end a job.
LEMMA Bystanders ==
  ASSUME SubmissionInv, UNCHANGED <<env, config, registry, caches>>, job' \in {job, Undefined}
  PROVE  SubmissionInv'
  <1> USE DEF SubmissionInv
  <1>1. UNCHANGED <<env, config, runtimes, step, pkg, disk, installs, registered, disturbed, compiled, env_vars>>
    BY DEF registry, calls, disks, caches
  <1>2. ConfigInv' /\ RegistryInv' /\ CacheInv' /\ ListedCachesAreFresh'
    BY <1>1 DEF ConfigInv, Up, Resolved, Survives, Value, RegistryInv, RuntimeOK, Meant, Entry,
                Numbered, CacheInv, Aged, ListedCachesAreFresh
  <1>4. CallsInv'
    BY <1>1 DEF CallsInv, Undisturbed, Working, Listed
  <1>3. JobInv' /\ FailsOnlyIfUninstalled'
    BY <1>1 DEF JobInv, AcceptedJob, HasEntrypoint, RuntimeOK, Meant, Entry, Numbered, Aged,
                FailsOnlyIfUninstalled
  <1> QED BY <1>2, <1>3, <1>4

LEMMA Accepting ==
  ASSUME SubmissionInv, NEW r \in Requests, Submit(r)
  PROVE  SubmissionInv'
  <1> USE DEF SubmissionInv
  <1> DEFINE body == Decoded(r, Nothing)
             j == NewJob(body, RuntimeFor(body))
  <1>1. /\ Accepts(body, RuntimeFor(body)) /\ job' = j
        /\ UNCHANGED <<env, config, runtimes, step, pkg, disk, installs, registered, disturbed, compiled, env_vars>>
    BY DEF Submit, registry, calls, disks, caches
  <1>2. AcceptedJob(j) /\ j.runtime \in runtimes
    BY <1>1, AcceptedIsOK
  <1>3. j.stage = "ready"
    BY DEF NewJob
  <1> HIDE DEF j, body
  <1>4. Aged(j.runtime)
    BY <1>2 DEF RegistryInv
  <1>7. CallsInv'
    BY <1>1 DEF CallsInv, Undisturbed, Working, Listed
  <1>5. ConfigInv' /\ RegistryInv' /\ CacheInv' /\ ListedCachesAreFresh'
    BY <1>1 DEF ConfigInv, Up, Resolved, Survives, Value, RegistryInv, RuntimeOK, Meant, Entry,
                Numbered, CacheInv, Aged, ListedCachesAreFresh
  <1>6. JobInv' /\ FailsOnlyIfUninstalled'
    BY <1>1, <1>2, <1>3, <1>4 DEF JobInv, AcceptedJob, HasEntrypoint, RuntimeOK, Meant, Entry,
                                  Numbered, Aged, FailsOnlyIfUninstalled
  <1> QED BY <1>5, <1>6, <1>7

LEMMA SubmissionNext == SubmissionInv /\ [Next]_vars => SubmissionInv'
  <1> SUFFICES ASSUME SubmissionInv, [Next]_vars PROVE SubmissionInv'
    OBVIOUS
  <1>1. CASE Boot
    <2>1. /\ config' = IF Survives(env) THEN Resolved(env) ELSE Null
          /\ UNCHANGED <<env, runtimes, step, pkg, disk, installs, registered, disturbed, compiled, env_vars, job>>
      BY <1>1 DEF Boot, registry, calls, disks, caches
    <2>2. ConfigInv'
      BY <2>1 DEF ConfigInv, Up, Resolved, Survives, Value
    <2>3. RegistryInv' /\ CacheInv' /\ ListedCachesAreFresh'
      BY <2>1 DEF SubmissionInv, RegistryInv, RuntimeOK, Meant, Entry, Numbered, CacheInv, Aged, ListedCachesAreFresh
    <2>4. JobInv' /\ FailsOnlyIfUninstalled'
      BY <2>1 DEF SubmissionInv, JobInv, AcceptedJob, HasEntrypoint, RuntimeOK, Meant, Entry, Numbered,
                  Aged, FailsOnlyIfUninstalled
    <2>5. CallsInv'
      BY <2>1 DEF SubmissionInv, CallsInv, Undisturbed, Working, Listed
    <2> QED BY <2>2, <2>3, <2>4, <2>5 DEF SubmissionInv
  <1>2. CASE Respond
    BY <1>2, Bystanders DEF Respond
  <1>3. ASSUME NEW r \in Requests, Handle(r), Up PROVE SubmissionInv'
    <2>1. CASE Refuse(r) \/ Miss(r) \/ Lookup(r) \/ Reject(r) \/ UnknownPackage(r)
      BY <2>1, Bystanders DEF Refuse, Miss, Lookup, Reject, UnknownPackage
    <2>2. CASE Submit(r)
      BY <2>2, Accepting
    <2>3. ASSUME NEW p \in Packages, Busy(r, p) \/ Futile(r, p) PROVE SubmissionInv'
      BY <2>3, Bystanders DEF Busy, Futile
    <2>4. ASSUME NEW p \in Packages, StartInstall(r, p) \/ StartUninstall(r, p) PROVE SubmissionInv'
      BY <1>3, <2>4, CallBegins DEF StartInstall, StartUninstall
    <2> QED BY <1>3, <2>1, <2>2, <2>3, <2>4 DEF Handle
  <1>4. ASSUME NEW c \in Calls, Up, Call(c) PROVE SubmissionInv'
    BY <1>4, CallsGoOn
  <1>5. CASE StartStage \/ StageFails
    BY <1>5, JobsGoOn
  <1>6. CASE UNCHANGED vars
    BY <1>6, Bystanders DEF vars, registry, caches
  <1> QED BY <1>1, <1>2, <1>3, <1>4, <1>5, <1>6 DEF Next

LEMMA SubmissionInvariant == Spec => []SubmissionInv
  BY SubmissionInit, SubmissionNext, PTL DEF Spec

-------------------------------------------------------------------------------
(* Theorems *)

\* In any environment and whatever packages and requests say, a job's limits are
\* numbers, and keep within the positive limits that were meant for it (config.ts,
\* runtime.ts compute_single_limit, v2.ts get_job).
THEOREM JobsKeepTheLimitsHolds == Spec => []JobsKeepTheLimits
  <1>1. SubmissionInv => JobsKeepTheLimits
    <2> SUFFICES ASSUME SubmissionInv, job # Undefined, NEW f \in Fields
                 PROVE  /\ job.limits[f] \in Int
                        /\ Meant(job.runtime, f) > 0 => job.limits[f] \in 0..Meant(job.runtime, f)
      BY DEF JobsKeepTheLimits
    <2>1. AcceptedJob(job)
      BY DEF SubmissionInv, JobInv
    <2>2. job.runtime.limits[f] = Meant(job.runtime, f)
      BY <2>1, SubmissionsAssumption DEF AcceptedJob, RuntimeOK
    <2> QED BY <2>1, <2>2 DEF AcceptedJob
  <1> QED BY <1>1, SubmissionInvariant, PTL

\* get_job and Job agree on what an entrypoint is (v2.ts get_job, job.ts constructor
\* and execute).
THEOREM AcceptedHaveAnEntrypointHolds == Spec => []AcceptedHaveAnEntrypoint
  <1>1. SubmissionInv => AcceptedHaveAnEntrypoint
    BY DEF SubmissionInv, JobInv, AcceptedJob, AcceptedHaveAnEntrypoint
  <1> QED BY <1>1, SubmissionInvariant, PTL

\* However often packages are removed and installed again, and whichever step of
\* it fails, a listed runtime remembers of its directory what is there, unless two
\* calls met at its package or an install was begun when it was listed
\* (runtime.ts compiled, env_vars; package.ts 393-399, 431-443).
THEOREM ListedCachesAreFreshHolds == Spec => []ListedCachesAreFresh
  <1>1. SubmissionInv => ListedCachesAreFresh
    BY DEF SubmissionInv
  <1> QED BY <1>1, SubmissionInvariant, PTL

\* Only an uninstall keeps an accepted job from starting, or two calls that met
\* at the package, or an install begun when it was listed: no call that fails does.
THEOREM FailsOnlyIfUninstalledHolds == Spec => []FailsOnlyIfUninstalled
  <1>1. SubmissionInv => FailsOnlyIfUninstalled
    BY DEF SubmissionInv
  <1> QED BY <1>1, SubmissionInvariant, PTL

\* Of any number of runtimes that match, the one served comes before all others
\* (runtime.ts get_latest_runtime_matching_language_version).
THEOREM LatestIsServedHolds == Spec => LatestIsServed
  <1> DEFINE Served == job = Undefined /\ job' # Undefined =>
                \A rt \in Matching(runtimes, job'.body.language, job'.body.version) :
                    \/ rt.version < job'.runtime.version
                    \/ rt.version = job'.runtime.version /\ Before(job'.runtime, rt)
  <1>1. SubmissionInv /\ [Next]_vars => [Served]_vars
    <2> SUFFICES ASSUME SubmissionInv, [Next]_vars, job = Undefined, job' # Undefined PROVE Served
      OBVIOUS
    <2>1. PICK r \in Requests : Submit(r)
      BY DEF Next, Handle, Boot, Respond, vars, Refuse, Miss, Lookup, Reject, UnknownPackage, Busy, Futile,
             StartInstall, StartUninstall, Install, Uninstall, Begins, Call, RemoveSome, Removed, WriteFiles,
             Register, Mark, Fails, Goes, StartStage, StageFails
    <2> DEFINE body == Decoded(r, Nothing)
               rt == RuntimeFor(body)
    <2>2. job' = NewJob(body, rt) /\ rt # Undefined
      BY <2>1 DEF Submit, Accepts
    <2>3. job'.body = body /\ job'.runtime = rt
      BY <2>2 DEF NewJob
    <2>4. /\ rt \in Matching(runtimes, body.language, body.version)
          /\ \A other \in Matching(runtimes, body.language, body.version) : Precedes(rt, other)
      <3>1. IsFiniteSet(runtimes) /\ \A other \in runtimes : Numbered(other)
        BY DEF SubmissionInv, RegistryInv, RuntimeOK
      <3> HIDE DEF body
      <3> QED BY <2>2, <3>1, LatestIsFirst DEF RuntimeFor
    <2>5. \A other \in Matching(runtimes, body.language, body.version) : Numbered(other)
      BY DEF SubmissionInv, RegistryInv, RuntimeOK, Matching
    <2> HIDE DEF body, rt
    <2> QED BY <2>3, <2>4, <2>5 DEF Precedes, Numbered
  <1> QED BY <1>1, SubmissionInvariant, PTL DEF Spec, LatestIsServed

\* No request that would change something passes the gate without a json body
\* that parses, whether or not its path has a handler (index.ts).
THEOREM GateComesFirstHolds == Spec => []GateComesFirst
  <1> DEFINE Protected(r) == /\ r.method \in {"POST", "PUT", "PATCH", "DELETE"}
                             /\ r.path \notin Sockets \cup {"root", "elsewhere"}
  <1>1. Init => GateComesFirst
    BY DEF Init, GateComesFirst
  <1>2. GateComesFirst /\ [Next]_vars => GateComesFirst'
    <2> SUFFICES ASSUME GateComesFirst, [Next]_vars PROVE GateComesFirst'
      OBVIOUS
    <2>1. ASSUME NEW r \in Requests, NEW status, Answer(r, status),
                 Protected(r) /\ ReadJsonBody(r) # 200 => status = ReadJsonBody(r)
          PROVE  GateComesFirst'
      <3> DEFINE shown == [path |-> r.path, method |-> r.method, json |-> r.json, text |-> r.text,
                           body |-> Nothing]
      <3>1. answer' = [request |-> shown, status |-> status]
        BY <2>1, RequestsAssumption DEF Answer
      <3> HIDE DEF Nothing
      <3> QED BY <2>1, <3>1 DEF GateComesFirst, ReadJsonBody
    <2>2. ASSUME NEW r \in Requests, Handle(r) PROVE GateComesFirst'
      <3>1. Protected(r) /\ ReadJsonBody(r) # 200 => Refused(r)
        BY DEF Refused, Gated, Lookups
      <3>2. CASE Refuse(r)
        BY <2>1, <3>2 DEF Refuse
      <3>3. ~Refuse(r) => ~Refused(r) \/ ~Protected(r)
        BY <2>2 DEF Handle, Refuse, Miss, Lookup, Reject, Submit, UnknownPackage, Busy, Futile,
                    StartInstall, StartUninstall, Admitted, Manages, Lookups
      <3>4. \E status : Answer(r, status)
        BY <2>2 DEF Handle, Refuse, Miss, Lookup, Reject, Submit, UnknownPackage, Busy, Futile,
                    StartInstall, StartUninstall, Started
      <3> QED BY <2>1, <3>1, <3>2, <3>3, <3>4
    <2>3. CASE \A r \in Requests : ~Handle(r)
      <3>1. answer' \in {answer, Undefined}
        BY <2>3 DEF Next, Boot, Respond, vars, Call, RemoveSome, Removed, WriteFiles, Register, Mark, Fails, Goes,
                    StartStage, StageFails
      <3> QED BY <3>1 DEF GateComesFirst
    <2> QED BY <2>2, <2>3
  <1> QED BY <1>1, <1>2, PTL DEF Spec
===============================================================================
