--------------------------------- MODULE Gate ---------------------------------
(***************************************************************************)
(* Which handler a request reaches, and with what body (src/api/src/       *)
(* index.ts): the routes, the gate in front of the handlers that take a    *)
(* body, and the fallback, which has the gate once more.                   *)
(*                                                                         *)
(* A request has a path, a method, whether its content-type is json, what  *)
(* its text decodes to, and the body of an object.  The path is the name   *)
(* of a route, "unknown" for any other under /api/v2, or "elsewhere".      *)
(***************************************************************************)
LOCAL INSTANCE Integers

Lookups == {"GET", "HEAD"}

Routes == [
    root |-> Lookups,
    runtimes |-> Lookups,
    execute |-> {"POST"},
    packages |-> Lookups \cup {"POST", "DELETE"},
    operations |-> Lookups \cup {"POST"},
    operation |-> Lookups,
    log |-> Lookups]

\* Mounted for every method: they upgrade to a WebSocket or are not found.
Sockets == {"connect", "operation_connect"}

Routed(r) == r.path \in DOMAIN Routes /\ r.method \in Routes[r.path]

\* Altered: only the handlers ask for json, not the fallback.
GatedByRoute(r) == Routed(r) /\ r.method \notin Lookups

Gated(r) ==
    \/ Routed(r) /\ r.method \notin Lookups
    \/ /\ ~Routed(r) /\ r.path \notin Sockets \cup {"root", "elsewhere"}
       /\ r.method \notin Lookups \cup {"OPTIONS"}

\* The status read_json_body answers with itself, or 200.
ReadJsonBody(r) ==
    IF ~r.json THEN 415 ELSE IF r.text = "malformed" THEN 400 ELSE 200

Refused(r) == Gated(r) /\ ReadJsonBody(r) # 200

\* No text, a scalar and an array have none of the fields handlers look for.
Decoded(r, nothing) == IF r.text = "object" THEN r.body ELSE nothing
===============================================================================
