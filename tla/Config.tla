-------------------------------- MODULE Config --------------------------------
(***************************************************************************)
(* What the server makes of its environment (src/api/src/config.ts): every *)
(* option is taken from its variable or from its default, parsed, and      *)
(* validated; one that fails ends the process before it serves anything.   *)
(*                                                                         *)
(* An environment is a function on the variables that are set.  A raw      *)
(* string is kept as what a parser can make of it: the integer parseInt    *)
(* finds in it, the set of patterns it lists, the mapping its JSON spells  *)
(* out, or Junk.  Options whose validators pass whatever they are given    *)
(* (flags, addresses, URLs) are left out, and so is the log level.         *)
(***************************************************************************)
EXTENDS Integers

CONSTANTS
    Limits,         \* the options an override may name
    Default,        \* options[name].default
    Directories,    \* the paths that exist
    NaN,            \* what parseInt returns of text that is no number
    Junk,           \* text no parser can make anything of
    Null            \* what a parser returns that gives up

Others == [
    max_concurrent_jobs |-> "positive",
    data_directory |-> "directory",
    manifest_directory |-> "directory",
    allowed_languages |-> "patterns",
    limit_overrides |-> "overrides"]

ASSUME ConfigAssumption ==
    /\ NaN \notin Int
    /\ \A l \in Limits : Default[l] \in Int
    /\ Default["limit_overrides"] = <<>>
    /\ DOMAIN Others \cap Limits = {}

Options == Limits \cup DOMAIN Others

Kind(option) == IF option \in Limits THEN "number" ELSE Others[option]

ParseInt(raw) == IF raw \in Int THEN raw ELSE NaN

ParseOverrides(raw) ==
    IF raw = Junk \/ \E l \in DOMAIN raw : raw[l] = Junk \/ ~(DOMAIN raw[l] \subseteq Limits)
    THEN Null
    ELSE [l \in DOMAIN raw |-> [k \in DOMAIN raw[l] |-> ParseInt(raw[l][k])]]

Parse(option, raw) ==
    CASE Kind(option) \in {"number", "positive"} -> ParseInt(raw)
      [] Kind(option) = "overrides" -> ParseOverrides(raw)
      [] Kind(option) \in {"directory", "patterns"} -> raw

ValidOverrides(overrides) ==
    \A l \in DOMAIN overrides : \A k \in DOMAIN overrides[l] : overrides[l][k] # NaN

Valid(option, value) ==
    CASE Kind(option) = "number" -> value # NaN
      [] Kind(option) = "positive" -> value # NaN /\ value > 0
      [] Kind(option) = "directory" -> value \in Directories
      [] Kind(option) = "patterns" -> value # {}
      [] Kind(option) = "overrides" -> value # Null /\ ValidOverrides(value)

Value(option, env) ==
    IF option \in DOMAIN env THEN Parse(option, env[option]) ELSE Default[option]

\* Whether no option ends the process.
Survives(env) == \A o \in Options : Valid(o, Value(o, env))

Resolved(env) == [o \in Options |-> Value(o, env)]
===============================================================================
