---------------------------- MODULE MCSubmissions ----------------------------
(***************************************************************************)
(* Two fields, one limit overridden for a language and one by a package;   *)
(* two packages, the newer of which provides the older one's language.     *)
(* The older is installed and removed through the synchronous endpoints,   *)
(* as often as two calls at a time can, the newer by operations.           *)
(* Requests that are refused differ from a good one in one respect.        *)
(***************************************************************************)
EXTENDS Submissions, TLC

CONSTANTS p1, p2, c1, c2

Interchangeable == Permutations(Calls)

T == "run_timeout"
M == "run_memory_limit"

MCDefault ==
    [run_timeout |-> 3, run_memory_limit |-> -1, max_concurrent_jobs |-> 64,
     data_directory |-> "/piston", manifest_directory |-> "/packages",
     allowed_languages |-> {"*"}, limit_overrides |-> <<>>]

MCEnvironments ==
    {T :> Junk, "max_concurrent_jobs" :> 0, "data_directory" :> "/nowhere",
     "allowed_languages" :> {},
     "limit_overrides" :> Junk,
     "limit_overrides" :> ("python" :> Junk),
     "limit_overrides" :> ("python" :> ("colour" :> 1)),
     "limit_overrides" :> ("python" :> (T :> Junk)),
     "limit_overrides" :> ("python" :> (T :> 1)) @@ T :> 4}

Python(version, overrides) ==
    [language |-> "python", aliases |-> {"py"}, version |-> version,
     limit_overrides |-> overrides, provides |-> <<>>]

Multi ==
    [language |-> "multi", version |-> 2, provides |->
        << [language |-> "python", aliases |-> {"py"}, limit_overrides |-> T :> 2],
           [language |-> "file", aliases |-> {"python"}, limit_overrides |-> <<>>] >>]

MCInfo == p1 :> Python(1, M :> 1) @@ p2 :> Multi

File(encoding) == [content |-> "text", encoding |-> encoding]

Every == {1, 2}

Body == [language |-> "python", version |-> Every, files |-> <<File("utf8")>>,
         limits |-> <<>>, kind |-> Undefined]

\* Accepted, given a runtime, unless a limit is above the runtime's.
Good ==
    {[Body EXCEPT !.language = "file", !.files = <<>>],
     [Body EXCEPT !.files = <<File("base64"), File(Undefined)>>, !.limits = M :> 1 @@ T :> 0]}

Bad ==
    {[Body EXCEPT !.language = l] : l \in {"perl", Undefined}} \cup
    {[Body EXCEPT !.version = v] : v \in {{3}, Undefined}} \cup
    {[Body EXCEPT !.files = f] :
        f \in {Undefined, <<>>, <<[content |-> Undefined, encoding |-> "utf8"]>>,
               <<File("base64")>>, <<File("base64"), File("latin1")>>}} \cup
    {[Body EXCEPT !.limits = T :> t] : t \in {Junk, -1, 4}} \cup
    {[Body EXCEPT !.limits = M :> m] : m \in {Junk, -1}}

Request(path, method, body) ==
    [path |-> path, method |-> method, json |-> TRUE, text |-> "object", body |-> body]

Manage(language, kind) == [Body EXCEPT !.language = language, !.kind = kind]

MCRequests ==
    {Request("execute", "POST", b) : b \in Good \cup Bad} \cup
    {Request("runtimes", "GET", Nothing), Request("connect", "POST", Nothing)} \cup
    {[Request(path, "POST", Body) EXCEPT !.json = FALSE] :
        path \in {"execute", "elsewhere"}} \cup
    {[Request("unknown", "POST", Nothing) EXCEPT !.text = "malformed"],
     [Request("execute", "POST", Nothing) EXCEPT !.text = "scalar"]} \cup
    {Request("operations", "POST", Manage("multi", k)) : k \in {"uninstall", Undefined}} \cup
    {Request("packages", "POST", Manage(l, Undefined)) : l \in {"python", "perl"}} \cup
    {Request("packages", "DELETE", Manage("python", Undefined))}
===============================================================================
