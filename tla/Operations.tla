------------------------------ MODULE Operations ------------------------------
(***************************************************************************)
(* Long-running package operations (src/api/src/operations.ts) and the     *)
(* sockets that watch them (operation_socket, src/api/src/api/v2.ts).      *)
(*                                                                         *)
(* A log line is a number, its place in everything the operation ever      *)
(* logged; the log that is kept is the lines truncated+1 .. appended.  A   *)
(* watcher's frames are the numbers it was sent and the states it was      *)
(* told.  The work itself (install, uninstall) is any sequence of appends  *)
(* that ends in success or failure.                                        *)
(*                                                                         *)
(* The promise chain of start() runs to its end before the event loop      *)
(* turns to anything else, so settling, leaving in_flight and pruning are  *)
(* one step; so is everything a socket's open handler does.                *)
(***************************************************************************)
EXTENDS Naturals, Sequences, FiniteSets

CONSTANTS
    Packages,           \* language-version keys
    Ops,                \* the ids randomUUID may yield
    Watchers,           \* sockets on /api/v2/operations/:id/connect
    RETAIN_COMPLETED,
    MAX_LOG_LINES,
    MaxAppended,        \* bound on the lines an operation logs
    MaxClock            \* bound on Date.now()

ASSUME OperationsAssumption ==
    /\ RETAIN_COMPLETED \in Nat \ {0}
    /\ MAX_LOG_LINES \in Nat \ {0}
    /\ MaxAppended \in Nat
    /\ MaxClock \in Nat
    /\ "none" \notin Packages \cup Ops

VARIABLES
    pkg,        \* the package an operation is about, None before it starts
    state,      \* its state
    finished,   \* when it settled
    appended,   \* the lines it logged
    truncated,  \* how many of the first of them were dropped
    operations, \* the ids in the map of that name
    in_flight,  \* for every package the operation that is running
    clock,      \* Date.now()
    target,     \* the operation a socket watches, None before it connects
    sock,       \* the socket
    attached,   \* the sockets whose listeners are on their operation
    lines,      \* the log lines a socket was sent
    told        \* the states it was told

ops == <<pkg, state, finished, appended, truncated, operations, in_flight>>
sockets == <<target, sock, attached, lines, told>>
vars == <<ops, clock, sockets>>

None == "none"

Running(o) == state[o] = "running"
Settled == {o \in operations : ~Running(o)}

\* The k lines after the first n.
Stretch(n, k) == [i \in 1..k |-> n + i]

\* What operation.log yields, less the line that says how many were dropped.
Log(o) == Stretch(truncated[o], appended[o] - truncated[o])

Init ==
    /\ pkg = [o \in Ops |-> None]
    /\ state = [o \in Ops |-> None]
    /\ finished = [o \in Ops |-> 0]
    /\ appended = [o \in Ops |-> 0]
    /\ truncated = [o \in Ops |-> 0]
    /\ operations = {}
    /\ in_flight = [p \in Packages |-> None]
    /\ clock = 0
    /\ target = [w \in Watchers |-> None]
    /\ sock = [w \in Watchers |-> "idle"]
    /\ attached = {}
    /\ lines = [w \in Watchers |-> << >>]
    /\ told = [w \in Watchers |-> << >>]

-----------------------------------------------------------------------------
\* start(): a second operation on a package is refused (409) and leaves no trace.
Start(o, p) ==
    /\ pkg[o] = None
    /\ in_flight[p] = None
    /\ pkg' = [pkg EXCEPT ![o] = p]
    /\ state' = [state EXCEPT ![o] = "running"]
    /\ operations' = operations \cup {o}
    /\ in_flight' = [in_flight EXCEPT ![p] = o]
    /\ UNCHANGED <<finished, appended, truncated, clock, sockets>>

\* send_raw: a frame for a socket that is no longer open goes nowhere.
Reached(o) == {w \in attached : target[w] = o /\ sock[w] = "open"}

\* What truncated is once n lines were logged.
Dropped(o, n) ==
    IF n - truncated[o] > MAX_LOG_LINES THEN n - MAX_LOG_LINES ELSE truncated[o]

\* append(): k lines, kept up to the limit, and sent on whole.
Logged(o, k) ==
    /\ appended' = [appended EXCEPT ![o] = @ + k]
    /\ truncated' = [truncated EXCEPT ![o] = Dropped(o, appended[o] + k)]
    /\ lines' = [w \in Watchers |->
                   IF w \in Reached(o)
                   THEN lines[w] \o Stretch(appended[o], k)
                   ELSE lines[w]]

Work(o, k) ==
    /\ Running(o)
    /\ appended[o] + k <= MaxAppended
    /\ Logged(o, k)
    /\ UNCHANGED <<pkg, state, finished, operations, in_flight, clock, target, sock, attached, told>>

\* Altered: slice(-RETAIN_COMPLETED) for slice(0, -RETAIN_COMPLETED).
DropsNewest(all, drop, ends) ==
    /\ Cardinality(drop) = IF Cardinality(all) < RETAIN_COMPLETED THEN 0 ELSE Cardinality(all) - RETAIN_COMPLETED
    /\ \A o \in drop, q \in all \ drop : ends[o] >= ends[q]

\* drop is all but the RETAIN_COMPLETED operations that ended last; among those
\* that ended in the same millisecond the choice is open.
DropsOldest(all, drop, ends) ==
    /\ Cardinality(drop) = IF Cardinality(all) < RETAIN_COMPLETED THEN 0 ELSE Cardinality(all) - RETAIN_COMPLETED
    /\ \A o \in drop, q \in all \ drop : ends[o] <= ends[q]

Prunable(o) == Settled \cup {o}

\* prune(), once o has settled.
Prune(o) ==
    \E drop \in SUBSET Prunable(o) :
        /\ DropsOldest(Prunable(o), drop, [finished EXCEPT ![o] = clock])
        /\ operations' = operations \ drop

\* Altered: the package is only freed by an operation that succeeded.
SettleThenFree(o, end) ==
    /\ Running(o)
    /\ state' = [state EXCEPT ![o] = end]
    /\ finished' = [finished EXCEPT ![o] = clock]
    /\ Logged(o, IF end = "failed" THEN 1 ELSE 0)
    /\ told' = [w \in Watchers |-> IF w \in Reached(o) THEN Append(told[w], end) ELSE told[w]]
    /\ sock' = [w \in Watchers |-> IF w \in Reached(o) THEN "closing" ELSE sock[w]]
    /\ in_flight' = IF end = "succeeded" THEN [in_flight EXCEPT ![pkg[o]] = None] ELSE in_flight
    /\ Prune(o)
    /\ UNCHANGED <<pkg, clock, target, attached>>

\* The work resolved or rejected: a failure is logged, settle() tells every
\* listener, each of which closes its socket, the package is free again, and
\* the map is pruned.
Settle(o, end) ==
    /\ Running(o)
    /\ state' = [state EXCEPT ![o] = end]
    /\ finished' = [finished EXCEPT ![o] = clock]
    /\ Logged(o, IF end = "failed" THEN 1 ELSE 0)
    /\ told' = [w \in Watchers |-> IF w \in Reached(o) THEN Append(told[w], end) ELSE told[w]]
    /\ sock' = [w \in Watchers |-> IF w \in Reached(o) THEN "closing" ELSE sock[w]]
    /\ in_flight' = [in_flight EXCEPT ![pkg[o]] = None]
    /\ Prune(o)
    /\ UNCHANGED <<pkg, clock, target, attached>>

\* External: time passes.
Tick ==
    /\ clock < MaxClock
    /\ clock' = clock + 1
    /\ UNCHANGED <<ops, sockets>>

-----------------------------------------------------------------------------
\* The upgrade request: 404 unless the operation is in the map.
Connect(w, o) ==
    /\ sock[w] = "idle"
    /\ o \in operations
    /\ target' = [target EXCEPT ![w] = o]
    /\ sock' = [sock EXCEPT ![w] = "upgrading"]
    /\ UNCHANGED <<ops, clock, attached, lines, told>>

\* Altered: the listeners are attached without a look at the state.
OpenUnsettled(w) ==
    /\ sock[w] = "upgrading"
    /\ lines' = [lines EXCEPT ![w] = Log(target[w])]
    /\ attached' = attached \cup {w}
    /\ sock' = [sock EXCEPT ![w] = "open"]
    /\ UNCHANGED <<ops, clock, target, told>>

\* open on a running operation: the log so far is replayed and the listeners
\* attached.
OpenRunning(w) ==
    /\ Running(target[w])
    /\ attached' = attached \cup {w}
    /\ sock' = [sock EXCEPT ![w] = "open"]
    /\ UNCHANGED told

\* open on a settled one: the state is told and the socket closed.
OpenSettled(w) ==
    /\ ~Running(target[w])
    /\ told' = [told EXCEPT ![w] = Append(@, state[target[w]])]
    /\ sock' = [sock EXCEPT ![w] = "closing"]
    /\ UNCHANGED attached

\* Altered: the log is not replayed.
OpenWithoutReplay(w) ==
    /\ sock[w] = "upgrading"
    /\ OpenRunning(w) \/ OpenSettled(w)
    /\ UNCHANGED <<ops, clock, target, lines>>

Open(w) ==
    /\ sock[w] = "upgrading"
    /\ lines' = [lines EXCEPT ![w] = Log(target[w])]
    /\ OpenRunning(w) \/ OpenSettled(w)
    /\ UNCHANGED <<ops, clock, target>>

\* External: the client goes away, or its connection breaks.
ClientGone(w) ==
    /\ sock[w] = "open"
    /\ sock' = [sock EXCEPT ![w] = "closing"]
    /\ UNCHANGED <<ops, clock, target, attached, lines, told>>

\* Altered: the listeners stay.
CloseEventAttached(w) ==
    /\ sock[w] = "closing"
    /\ sock' = [sock EXCEPT ![w] = "closed"]
    /\ UNCHANGED <<ops, clock, target, attached, lines, told>>

\* close: detach.
CloseEvent(w) ==
    /\ sock[w] = "closing"
    /\ sock' = [sock EXCEPT ![w] = "closed"]
    /\ attached' = attached \ {w}
    /\ UNCHANGED <<ops, clock, target, lines, told>>

Next ==
    \/ \E o \in Ops :
         \/ \E p \in Packages : Start(o, p)
         \/ \E k \in 1..MaxAppended : Work(o, k)
         \/ Settle(o, "succeeded")
         \/ Settle(o, "failed")
    \/ Tick
    \/ \E w \in Watchers :
         \/ \E o \in Ops : Connect(w, o)
         \/ Open(w)
         \/ ClientGone(w)
         \/ CloseEvent(w)

Spec == Init /\ [][Next]_vars

\* The event loop delivers the open and close events of a socket.
FairSpec == Spec /\ \A w \in Watchers : WF_vars(Open(w)) /\ WF_vars(CloseEvent(w))

-----------------------------------------------------------------------------
States == {"running", "succeeded", "failed"}

\* Every variable has its type, and a log is never longer than its limit.
TypeOK ==
    /\ pkg \in [Ops -> Packages \cup {None}]
    /\ state \in [Ops -> States \cup {None}]
    /\ finished \in [Ops -> 0..MaxClock]
    /\ appended \in [Ops -> Nat] /\ truncated \in [Ops -> Nat]
    /\ \A o \in Ops : appended[o] - truncated[o] \in 0..MAX_LOG_LINES
    /\ operations \subseteq {o \in Ops : pkg[o] # None}
    /\ in_flight \in [Packages -> Ops \cup {None}]
    /\ clock \in 0..MaxClock
    /\ target \in [Watchers -> Ops \cup {None}]
    /\ sock \in [Watchers -> {"idle", "upgrading", "open", "closing", "closed"}]
    /\ attached \subseteq Watchers
    /\ \A w \in Watchers : lines[w] \in Seq(Nat) /\ told[w] \in Seq(States)

\* in_flight holds the running operations and nothing else: no package has two
\* operations at work at once, and none is shut out by one that has ended
\* (operations.ts:111, 158-182).
InFlightIsRunning ==
    /\ \A o \in Ops : Running(o) => in_flight[pkg[o]] = o
    /\ \A p \in Packages : in_flight[p] # None => Running(in_flight[p]) /\ pkg[in_flight[p]] = p

\* What is kept for inspection is bounded, is the operations that settled last,
\* and always includes those still at work (operations.ts:134-143).
LatestAreRetained ==
    /\ Cardinality(Settled) <= RETAIN_COMPLETED
    /\ \A o \in Ops : Running(o) => o \in operations
    /\ \A o \in Ops \ operations : pkg[o] # None =>
         /\ Cardinality(Settled) = RETAIN_COMPLETED
         /\ \A q \in Settled : finished[o] <= finished[q]

\* A line follows the line before it.
Consecutive(s) == \A i \in 1..Len(s) - 1 : s[i + 1] = s[i] + 1

Last(s) == IF s = << >> THEN 0 ELSE s[Len(s)]

\* What a watcher was sent, replay and live lines together, has no gap and no
\* line twice, and reaches up to what the operation has logged for as long as
\* the socket is open; one that was told how the operation ended was told once
\* and truly, and had every line to the last by then (v2.ts:458-484).
WatcherIsUpToDate ==
    \A w \in Watchers : sock[w] \in {"open", "closing", "closed"} =>
        /\ Consecutive(lines[w])
        /\ told[w] # << >> => told[w] = <<state[target[w]]>>
        /\ sock[w] = "open" \/ told[w] # << >> =>
             Last(lines[w]) = appended[target[w]]

\* An operation does not hold on to the listeners of a socket that is closed
\* (v2.ts:480-490).
ListenersLeaveWithTheirSocket == \A w \in attached : sock[w] \in {"open", "closing"}

\* Whoever watches an operation that has settled is let go, whenever the socket
\* was opened (v2.ts:465-483).
WatchersAreReleased ==
    \A w \in Watchers :
        (target[w] # None /\ ~Running(target[w])) ~> (sock[w] = "closed")
=============================================================================
