------------------------------- MODULE Runtimes -------------------------------
(***************************************************************************)
(* What a package is registered as, and which runtime a submission gets    *)
(* (src/api/src/runtime.ts).  The registry is a set; the order of the list *)
(* it stands for is that of the installations, and within a package that   *)
(* of the languages it provides.  A version is a number and a range the    *)
(* set of the versions that satisfy it.                                    *)
(***************************************************************************)
EXTENDS Config, Sequences

CONSTANT Undefined

ComputeSingleLimit(config, language, limit, package) ==
    LET operator == config.limit_overrides
    IN  IF language \in DOMAIN operator /\ limit \in DOMAIN operator[language]
        THEN operator[language][limit]
        ELSE IF limit \in DOMAIN package THEN package[limit] ELSE config[limit]

ComputeAllLimits(config, language, package) ==
    [l \in Limits |-> ComputeSingleLimit(config, language, l, package)]

\* What an entry of `provides`, or a package without one, is registered as.
Runtime(config, package, info, entry, number, installation) == [
    package |-> package,
    installation |-> installation,
    number |-> number,
    language |-> entry.language,
    aliases |-> entry.aliases,
    version |-> info.version,
    limits |-> ComputeAllLimits(config, entry.language, entry.limit_overrides)]

LoadPackage(config, package, info, installation) ==
    IF info.provides = <<>>
    THEN {Runtime(config, package, info, info, 1, installation)}
    ELSE {Runtime(config, package, info, info.provides[i], i, installation) : i \in DOMAIN info.provides}

Matching(runtimes, language, range) ==
    {rt \in runtimes : /\ rt.language = language \/ language \in rt.aliases
                       /\ rt.version \in range}

Before(a, b) ==
    \/ a.installation < b.installation
    \/ a.installation = b.installation /\ a.number <= b.number

\* Altered: the versions are sorted the wrong way round.
LatestReversed(runtimes, language, range) ==
    LET found == Matching(runtimes, language, range)
    IN  IF found = {} THEN Undefined
        ELSE CHOOSE rt \in found : \A other \in found : rt.version <= other.version

\* The sort is stable: of equal versions the one registered first comes first.
Latest(runtimes, language, range) ==
    LET found == Matching(runtimes, language, range)
    IN  IF found = {} THEN Undefined
        ELSE CHOOSE rt \in found : \A other \in found :
                \/ rt.version > other.version
                \/ rt.version = other.version /\ Before(rt, other)
===============================================================================
