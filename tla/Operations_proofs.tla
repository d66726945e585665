--------------------------- MODULE Operations_proofs ---------------------------
(***************************************************************************)
(* At most one operation at work on a package, and none that has ended     *)
(* shutting others out; what watchers were sent; and which operations are  *)
(* retained: proved for any number of packages, operations and watchers,   *)
(* any log length and any number of operations retained.                   *)
(***************************************************************************)
EXTENDS Operations, SequenceTheorems, FiniteSetTheorems, TLAPS

\* The types the argument needs, and the property itself.  An operation is at
\* work only if it was started on a package.
FlightInv ==
    /\ pkg \in [Ops -> Packages \cup {None}]
    /\ state \in [Ops -> States \cup {None}]
    /\ in_flight \in [Packages -> Ops \cup {None}]
    /\ \A o \in Ops : Running(o) => pkg[o] # None
    /\ \A o \in Ops : pkg[o] = None => state[o] = None
    /\ InFlightIsRunning

LEMMA FlightInit == Init => FlightInv
  BY OperationsAssumption DEF Init, FlightInv, InFlightIsRunning, Running, None

LEMMA FlightNext == FlightInv /\ [Next]_vars => FlightInv'
  <1> SUFFICES ASSUME FlightInv, [Next]_vars PROVE FlightInv'
    OBVIOUS
  <1> USE OperationsAssumption DEF FlightInv, InFlightIsRunning, Running
  <1>1. ASSUME NEW o \in Ops, NEW p \in Packages, Start(o, p) PROVE FlightInv'
    BY <1>1 DEF Start, States, None
  <1>2. ASSUME NEW o \in Ops, NEW k \in 1..MaxAppended, Work(o, k) PROVE FlightInv'
    BY <1>2 DEF Work
  <1>3. ASSUME NEW o \in Ops, NEW end \in {"succeeded", "failed"}, Settle(o, end) PROVE FlightInv'
    BY <1>3 DEF Settle, States, None
  <1>4. CASE Tick
    BY <1>4 DEF Tick, ops
  <1>5. ASSUME NEW w \in Watchers, NEW o \in Ops, Connect(w, o) PROVE FlightInv'
    BY <1>5 DEF Connect, ops
  <1>6. ASSUME NEW w \in Watchers, Open(w) \/ ClientGone(w) \/ CloseEvent(w) PROVE FlightInv'
    BY <1>6 DEF Open, ClientGone, CloseEvent, ops
  <1>7. CASE UNCHANGED vars
    BY <1>7 DEF vars, ops
  <1> QED BY <1>1, <1>2, <1>3, <1>4, <1>5, <1>6, <1>7 DEF Next

\* in_flight is exactly the operations at work: two operations never work on
\* one package, and an operation that ended, well or badly, never leaves its
\* package shut (operations.ts:111, 158-182).
THEOREM InFlightHolds == Spec => []InFlightIsRunning
  <1>1. FlightInv => InFlightIsRunning
    BY DEF FlightInv
  <1> QED BY <1>1, FlightInit, FlightNext, PTL DEF Spec

-----------------------------------------------------------------------------
LEMMA StretchIsSeq ==
  ASSUME NEW n \in Nat, NEW k \in Nat
  PROVE  /\ Stretch(n, k) \in Seq(Nat)
         /\ Len(Stretch(n, k)) = k
         /\ \A i \in 1..k : Stretch(n, k)[i] = n + i
  BY DEF Stretch

\* Lines that follow the last line sent leave no gap.
LEMMA StretchFollows ==
  ASSUME NEW s \in Seq(Nat), Consecutive(s), NEW k \in Nat
  PROVE  LET t == s \o Stretch(Last(s), k)
         IN  t \in Seq(Nat) /\ Consecutive(t) /\ Last(t) = Last(s) + k
  <1> DEFINE n == Last(s)
             m == Len(s)
             u == Stretch(n, k)
             t == s \o u
  <1>1. n \in Nat /\ m \in Nat
    BY LenProperties, ElementOfSeq, EmptySeq DEF Last
  <1>2. m > 0 => s[m] = n
    BY EmptySeq DEF Last
  <1>3. s = << >> <=> m = 0
    BY EmptySeq
  <1>4. m = 0 => n = 0
    BY <1>3 DEF Last
  <1>5. \A i \in 1..m - 1 : s[i + 1] = s[i] + 1
    BY DEF Consecutive
  <1>6. u \in Seq(Nat) /\ Len(u) = k /\ \A i \in 1..k : u[i] = n + i
    BY <1>1, StretchIsSeq
  <1> HIDE DEF n, u
  <1>7. /\ t \in Seq(Nat)
        /\ Len(t) = m + Len(u)
        /\ \A i \in 1..m + Len(u) : t[i] = IF i <= m THEN s[i] ELSE u[i - m]
    BY <1>6, ConcatProperties, Zenon
  <1>8. t = << >> <=> m + k = 0
    BY <1>1, <1>6, <1>7, EmptySeq
  <1> HIDE DEF t, m
  <1>9. \A i \in 1..m : t[i] = s[i]
    BY <1>1, <1>6, <1>7
  <1>10. ASSUME NEW i \in 1..k PROVE t[m + i] = n + i
    <2> DEFINE j == m + i
    <2>1. j \in 1..m + Len(u) /\ ~(j <= m) /\ j - m = i
      BY <1>1, <1>6
    <2> HIDE DEF j
    <2>2. t[j] = u[j - m]
      BY <1>7, <2>1
    <2> QED BY <1>6, <2>1, <2>2 DEF j
  <1>11. Consecutive(t)
    <2> SUFFICES ASSUME NEW i \in 1..m + k - 1 PROVE t[i + 1] = t[i] + 1
      <3>1. Len(t) = m + k
        BY <1>6, <1>7
      <3> QED BY <1>1, <3>1 DEF Consecutive
    <2>1. CASE i < m
      BY <1>1, <1>5, <1>9, <2>1
    <2>2. CASE i = m
      <3>1. t[m] = n /\ t[m + 1] = n + 1
        BY <1>1, <1>2, <1>9, <1>10, <2>2
      <3> QED BY <2>2, <3>1
    <2>3. CASE i > m
      <3>1. PICK j \in 1..k - 1 : i = m + j
        <4>1. i - m \in 1..k - 1 /\ i = m + (i - m)
          BY <1>1, <2>3
        <4> QED BY <4>1
      <3>2. t[m + j] = n + j /\ t[m + (j + 1)] = n + (j + 1)
        BY <1>10
      <3> QED BY <1>1, <3>1, <3>2
    <2> QED BY <1>1, <2>1, <2>2, <2>3
  <1>12. Last(t) = n + k
    <2>1. CASE m + k = 0
      BY <1>1, <1>4, <1>8, <2>1 DEF Last
    <2>2. CASE m > 0 /\ k = 0
      BY <1>1, <1>2, <1>6, <1>7, <1>8, <1>9, <2>2 DEF Last
    <2>3. CASE k > 0
      <3>1. t[m + k] = n + k
        BY <1>10, <2>3
      <3> QED BY <1>1, <1>6, <1>7, <1>8, <2>3, <3>1 DEF Last
    <2> QED BY <1>1, <2>1, <2>2, <2>3
  <1> QED BY <1>7, <1>11, <1>12 DEF n, t, u

\* What an operation still holds of its log ends with the last line logged.
LEMMA LogReachesEnd ==
  ASSUME NEW o, appended[o] \in Nat, truncated[o] \in Nat,
         truncated[o] < appended[o] \/ (truncated[o] = 0 /\ appended[o] = 0)
  PROVE  Log(o) \in Seq(Nat) /\ Consecutive(Log(o)) /\ Last(Log(o)) = appended[o]
  <1> DEFINE n == truncated[o]
             k == appended[o] - truncated[o]
  <1>1. n \in Nat /\ k \in Nat
    OBVIOUS
  <1> HIDE DEF n, k
  <1>2. /\ Stretch(n, k) \in Seq(Nat)
        /\ Len(Stretch(n, k)) = k
        /\ \A i \in 1..k : Stretch(n, k)[i] = n + i
    BY <1>1, StretchIsSeq
  <1>3. Consecutive(Stretch(n, k))
    BY <1>1, <1>2 DEF Consecutive
  <1>4. Last(Stretch(n, k)) = IF k = 0 THEN 0 ELSE n + k
    BY <1>1, <1>2, EmptySeq DEF Last
  <1>5. Last(Stretch(n, k)) = appended[o]
    BY <1>4 DEF n, k
  <1> QED BY <1>2, <1>3, <1>5 DEF Log, n, k

\* An operation that was watched was started, has the state it was seen in for
\* good once it settled, and a socket that is open is attached to one at work.
WatchInv ==
    /\ pkg \in [Ops -> Packages \cup {None}]
    /\ state \in [Ops -> States \cup {None}]
    /\ appended \in [Ops -> Nat] /\ truncated \in [Ops -> Nat]
    /\ \A o \in Ops : truncated[o] < appended[o] \/ (truncated[o] = 0 /\ appended[o] = 0)
    /\ operations \subseteq Ops
    /\ attached \subseteq Watchers
    /\ \A o \in operations : pkg[o] # None
    /\ target \in [Watchers -> Ops \cup {None}]
    /\ sock \in [Watchers -> {"idle", "upgrading", "open", "closing", "closed"}]
    /\ lines \in [Watchers -> Seq(Nat)]
    /\ told \in [Watchers -> Seq(States \cup {None})]
    /\ \A w \in Watchers :
         /\ sock[w] # "idle" => target[w] \in Ops /\ pkg[target[w]] # None
         /\ sock[w] \in {"idle", "upgrading"} => lines[w] = << >> /\ told[w] = << >> /\ w \notin attached
         /\ sock[w] = "open" => w \in attached /\ Running(target[w]) /\ told[w] = << >>
         /\ told[w] # << >> => ~Running(target[w]) /\ told[w] = <<state[target[w]]>>
         /\ sock[w] = "open" \/ told[w] # << >> => Last(lines[w]) = appended[target[w]]
         /\ Consecutive(lines[w])

LEMMA WatchInit == Init => WatchInv
  <1> SUFFICES ASSUME Init PROVE WatchInv
    OBVIOUS
  <1>1. << >> \in Seq(Nat) /\ << >> \in Seq(States \cup {None}) /\ Consecutive(<< >>)
    BY EmptySeq DEF Consecutive
  <1> QED BY <1>1 DEF Init, WatchInv, Running

\* What a step that logs does to a watcher.
LEMMA LoggedFacts ==
  ASSUME WatchInv, NEW o \in Ops, NEW k \in Nat, Running(o), Logged(o, k)
  PROVE  /\ appended' \in [Ops -> Nat] /\ truncated' \in [Ops -> Nat]
         /\ \A q \in Ops : truncated'[q] < appended'[q] \/ (truncated'[q] = 0 /\ appended'[q] = 0)
         /\ appended'[o] = appended[o] + k
         /\ \A q \in Ops \ {o} : appended'[q] = appended[q]
         /\ lines' \in [Watchers -> Seq(Nat)]
         /\ \A w \in Watchers : Consecutive(lines'[w])
         /\ \A w \in Watchers : w \notin Reached(o) => lines'[w] = lines[w]
         /\ \A w \in Reached(o) : Last(lines'[w]) = appended[o] + k
  <1> USE OperationsAssumption DEF WatchInv
  <1>1. appended' \in [Ops -> Nat] /\ appended'[o] = appended[o] + k
        /\ \A q \in Ops \ {o} : appended'[q] = appended[q]
    BY DEF Logged
  <1>2. Dropped(o, appended[o] + k) \in Nat
        /\ (Dropped(o, appended[o] + k) < appended[o] + k
            \/ (Dropped(o, appended[o] + k) = 0 /\ appended[o] + k = 0))
    BY DEF Dropped
  <1>3. truncated' \in [Ops -> Nat] /\ truncated'[o] = Dropped(o, appended[o] + k)
        /\ \A q \in Ops \ {o} : truncated'[q] = truncated[q]
    BY <1>2 DEF Logged
  <1>4. \A q \in Ops : truncated'[q] < appended'[q] \/ (truncated'[q] = 0 /\ appended'[q] = 0)
    <2> SUFFICES ASSUME NEW q \in Ops
                 PROVE  truncated'[q] < appended'[q] \/ (truncated'[q] = 0 /\ appended'[q] = 0)
      OBVIOUS
    <2>1. CASE q = o
      BY <1>1, <1>2, <1>3, <2>1
    <2>2. CASE q # o
      <3>1. truncated'[q] = truncated[q] /\ appended'[q] = appended[q]
        BY <1>1, <1>3, <2>2
      <3> QED BY <3>1
    <2> QED BY <2>1, <2>2
  <1>5. \A w \in Watchers : lines'[w] = IF w \in Reached(o) THEN lines[w] \o Stretch(appended[o], k) ELSE lines[w]
    BY DEF Logged
  <1>6. ASSUME NEW w \in Reached(o)
        PROVE  lines'[w] \in Seq(Nat) /\ Consecutive(lines'[w]) /\ Last(lines'[w]) = appended[o] + k
    <2>1. w \in Watchers /\ lines[w] \in Seq(Nat) /\ Consecutive(lines[w]) /\ Last(lines[w]) = appended[o]
      <3>1. w \in Watchers /\ target[w] = o /\ sock[w] = "open"
        BY DEF Reached
      <3> QED BY <3>1
    <2>2. lines'[w] = lines[w] \o Stretch(Last(lines[w]), k)
      BY <1>5, <2>1
    <2> HIDE DEF WatchInv
    <2> QED BY <2>1, <2>2, StretchFollows
  <1>7. lines' \in [Watchers -> Seq(Nat)]
    <2>1. \A w \in Watchers : lines'[w] \in Seq(Nat)
      BY <1>5, <1>6
    <2> QED BY <2>1 DEF Logged
  <1> QED BY <1>1, <1>3, <1>4, <1>5, <1>6, <1>7

LEMMA WatchNext == WatchInv /\ [Next]_vars => WatchInv'
  <1> SUFFICES ASSUME WatchInv, [Next]_vars PROVE WatchInv'
    OBVIOUS
  <1> USE OperationsAssumption
  <1>1. ASSUME NEW o \in Ops, NEW p \in Packages, Start(o, p) PROVE WatchInv'
    <2>1. /\ pkg' \in [Ops -> Packages \cup {None}] /\ state' \in [Ops -> States \cup {None}]
          /\ operations' \subseteq Ops /\ \A q \in operations' : pkg'[q] # None
          /\ UNCHANGED <<appended, truncated, target, sock, lines, told, attached>>
      BY <1>1 DEF Start, WatchInv, sockets, States, None
    <2>2. \A q \in Ops : pkg[q] # None => pkg'[q] # None /\ state'[q] = state[q]
      BY <1>1 DEF Start, WatchInv
    <2> QED BY <2>1, <2>2 DEF WatchInv, Running
  <1>2. ASSUME NEW o \in Ops, NEW k \in 1..MaxAppended, Work(o, k) PROVE WatchInv'
    <2>1. Running(o) /\ Logged(o, k) /\ k \in Nat
          /\ UNCHANGED <<pkg, state, operations, target, sock, attached, told>>
      BY <1>2 DEF Work
    <2>2. ASSUME NEW w \in Watchers
          PROVE  /\ sock'[w] \in {"idle", "upgrading"} => lines'[w] = << >> /\ told'[w] = << >> /\ w \notin attached'
                 /\ sock'[w] = "open" \/ told'[w] # << >> => Last(lines'[w]) = appended'[target'[w]]
      <3>1. CASE w \in Reached(o)
        <4>1. sock[w] = "open" /\ target[w] = o
          BY <3>1 DEF Reached
        <4> QED BY <2>1, <3>1, <4>1, LoggedFacts DEF WatchInv
      <3>2. CASE w \notin Reached(o)
        <4>1. lines'[w] = lines[w]
          BY <2>1, <3>2, LoggedFacts
        <4>2. sock[w] = "open" => target[w] # o
          BY <3>2 DEF Reached, WatchInv
        <4>3. told[w] # << >> => target[w] # o
          BY <2>1 DEF WatchInv
        <4>4. sock[w] = "open" \/ told[w] # << >> => target[w] \in Ops
          BY DEF WatchInv
        <4>5. \A q \in Ops \ {o} : appended'[q] = appended[q]
          BY <2>1, LoggedFacts
        <4> QED BY <2>1, <4>1, <4>2, <4>3, <4>4, <4>5 DEF WatchInv
      <3> QED BY <3>1, <3>2
    <2>3. /\ appended' \in [Ops -> Nat] /\ truncated' \in [Ops -> Nat]
          /\ \A q \in Ops : truncated'[q] < appended'[q] \/ (truncated'[q] = 0 /\ appended'[q] = 0)
          /\ lines' \in [Watchers -> Seq(Nat)]
          /\ \A w \in Watchers : Consecutive(lines'[w])
      BY <2>1, LoggedFacts
    <2> QED BY <2>1, <2>2, <2>3 DEF WatchInv, Running
  <1>3. ASSUME NEW o \in Ops, NEW end \in {"succeeded", "failed"}, Settle(o, end) PROVE WatchInv'
    <2> DEFINE k == IF end = "failed" THEN 1 ELSE 0
    <2>1. Running(o) /\ Logged(o, k) /\ k \in Nat /\ UNCHANGED <<pkg, target, attached>>
      BY <1>3 DEF Settle
    <2> HIDE DEF k
    <2>2. /\ state' \in [Ops -> States \cup {None}]
          /\ state'[o] = end /\ end # "running"
          /\ \A q \in Ops \ {o} : state'[q] = state[q]
          /\ operations' \subseteq operations
      BY <1>3 DEF Settle, Prune, WatchInv, States
    <2>3. /\ sock' \in [Watchers -> {"idle", "upgrading", "open", "closing", "closed"}]
          /\ told' \in [Watchers -> Seq(States \cup {None})]
          /\ \A w \in Reached(o) : sock'[w] = "closing" /\ told'[w] = <<end>>
          /\ \A w \in Watchers \ Reached(o) : sock'[w] = sock[w] /\ told'[w] = told[w]
      <3>1. \A w \in Reached(o) : w \in Watchers /\ told[w] = << >> /\ sock[w] = "open"
        BY DEF Reached, WatchInv
      <3>2. /\ told' = [w \in Watchers |-> IF w \in Reached(o) THEN Append(told[w], end) ELSE told[w]]
            /\ sock' = [w \in Watchers |-> IF w \in Reached(o) THEN "closing" ELSE sock[w]]
        BY <1>3 DEF Settle
      <3>3. Append(<< >>, end) = <<end>> /\ <<end>> \in Seq(States \cup {None})
        BY DEF States
      <3>4. \A w \in Watchers : told'[w] \in Seq(States \cup {None})
        BY <3>1, <3>2, <3>3 DEF WatchInv
      <3> QED BY <3>1, <3>2, <3>3, <3>4 DEF WatchInv
    <2>4. /\ appended' \in [Ops -> Nat] /\ truncated' \in [Ops -> Nat]
          /\ \A q \in Ops : truncated'[q] < appended'[q] \/ (truncated'[q] = 0 /\ appended'[q] = 0)
          /\ appended'[o] = appended[o] + k
          /\ \A q \in Ops \ {o} : appended'[q] = appended[q]
          /\ lines' \in [Watchers -> Seq(Nat)]
          /\ \A w \in Watchers : Consecutive(lines'[w])
          /\ \A w \in Watchers : w \notin Reached(o) => lines'[w] = lines[w]
          /\ \A w \in Reached(o) : Last(lines'[w]) = appended[o] + k
      BY <2>1, LoggedFacts
    <2>5. ASSUME NEW w \in Watchers
          PROVE  /\ sock'[w] # "idle" => target'[w] \in Ops /\ pkg'[target'[w]] # None
                 /\ sock'[w] \in {"idle", "upgrading"} => lines'[w] = << >> /\ told'[w] = << >> /\ w \notin attached'
                 /\ sock'[w] = "open" => w \in attached' /\ Running(target[w])' /\ told'[w] = << >>
                 /\ told'[w] # << >> => ~Running(target[w])' /\ told'[w] = <<state'[target'[w]]>>
                 /\ sock'[w] = "open" \/ told'[w] # << >> => Last(lines'[w]) = appended'[target'[w]]
      <3>1. CASE w \in Reached(o)
        <4>1. sock[w] = "open" /\ target[w] = o
          BY <3>1 DEF Reached
        <4> QED BY <2>1, <2>2, <2>3, <2>4, <3>1, <4>1 DEF WatchInv, Running
      <3>2. CASE w \notin Reached(o)
        <4>1. sock'[w] = sock[w] /\ told'[w] = told[w] /\ lines'[w] = lines[w]
          BY <2>3, <2>4, <3>2
        <4>2. sock[w] = "open" => target[w] # o
          BY <3>2 DEF Reached, WatchInv
        <4>3. told[w] # << >> => target[w] # o
          BY <2>1 DEF WatchInv
        <4>4. sock[w] # "idle" => target[w] \in Ops
          BY DEF WatchInv
        <4> QED BY <2>1, <2>2, <2>4, <4>1, <4>2, <4>3, <4>4 DEF WatchInv, Running
      <3> QED BY <3>1, <3>2
    <2> QED BY <2>1, <2>2, <2>3, <2>4, <2>5 DEF WatchInv
  <1>4. CASE Tick
    BY <1>4 DEF Tick, ops, sockets, WatchInv, Running
  <1>5. ASSUME NEW w \in Watchers, NEW o \in Ops, Connect(w, o) PROVE WatchInv'
    BY <1>5 DEF Connect, ops, WatchInv, Running
  <1>6. ASSUME NEW w \in Watchers, Open(w) PROVE WatchInv'
    <2> DEFINE o == target[w]
    <2>1. o \in Ops /\ pkg[o] # None /\ lines[w] = << >> /\ told[w] = << >>
      BY <1>6 DEF Open, WatchInv
    <2>2. Log(o) \in Seq(Nat) /\ Consecutive(Log(o)) /\ Last(Log(o)) = appended[o]
      BY <2>1, LogReachesEnd DEF WatchInv
    <2>3. lines' = [lines EXCEPT ![w] = Log(o)] /\ UNCHANGED <<ops, clock, target>>
      BY <1>6 DEF Open
    <2>4. /\ lines' \in [Watchers -> Seq(Nat)] /\ lines'[w] = Log(o)
          /\ \A x \in Watchers \ {w} : lines'[x] = lines[x]
      BY <2>2, <2>3 DEF WatchInv
    <2>5. CASE OpenRunning(w)
      BY <2>1, <2>2, <2>3, <2>4, <2>5 DEF OpenRunning, WatchInv, Running, ops
    <2>6. CASE OpenSettled(w)
      <3>1. state[o] \in States \cup {None}
        BY <2>1 DEF WatchInv
      <3>2. Append(<< >>, state[o]) = <<state[o]>> /\ <<state[o]>> \in Seq(States \cup {None})
        BY <3>1
      <3>3. /\ told' \in [Watchers -> Seq(States \cup {None})] /\ told'[w] = <<state[o]>>
            /\ \A x \in Watchers \ {w} : told'[x] = told[x]
        BY <2>1, <2>6, <3>2 DEF OpenSettled, WatchInv
      <3> QED BY <2>1, <2>2, <2>3, <2>4, <2>6, <3>3 DEF OpenSettled, WatchInv, Running, ops
    <2> QED BY <1>6, <2>5, <2>6 DEF Open
  <1>7. ASSUME NEW w \in Watchers, ClientGone(w) PROVE WatchInv'
    BY <1>7 DEF ClientGone, ops, WatchInv, Running
  <1>8. ASSUME NEW w \in Watchers, CloseEvent(w) PROVE WatchInv'
    BY <1>8 DEF CloseEvent, ops, WatchInv, Running
  <1>9. CASE UNCHANGED vars
    BY <1>9 DEF vars, ops, sockets, WatchInv, Running
  <1> QED BY <1>1, <1>2, <1>3, <1>4, <1>5, <1>6, <1>7, <1>8, <1>9 DEF Next

\* Replay and live lines together have no gap and no line twice, reach up to
\* what the operation has logged, and the outcome is told once and truly, for
\* any log limit, however much was dropped before the watcher came
\* (v2.ts:458-484).
THEOREM WatcherIsUpToDateHolds == Spec => []WatcherIsUpToDate
  <1>1. WatchInv => WatcherIsUpToDate
    BY DEF WatchInv, WatcherIsUpToDate
  <1> QED BY <1>1, WatchInit, WatchNext, PTL DEF Spec

-----------------------------------------------------------------------------
\* What prune() keeps, and that nothing has ended later than now.
RetainInv ==
    /\ IsFiniteSet(operations) /\ operations \subseteq {o \in Ops : pkg[o] # None}
    /\ finished \in [Ops -> Nat] /\ clock \in Nat
    /\ \A o \in Ops : finished[o] <= clock
    /\ LatestAreRetained

LEMMA RetainInit == Init => RetainInv
  <1> SUFFICES ASSUME Init PROVE RetainInv
    OBVIOUS
  <1>1. Settled = {} /\ \A o \in Ops : ~Running(o)
    BY DEF Init, Settled, Running, None
  <1> QED BY <1>1, FS_EmptySet, OperationsAssumption DEF Init, RetainInv, LatestAreRetained

\* Of the operations that have settled, and one that does now, prune() keeps
\* RETAIN_COMPLETED, or all.
LEMMA SettledAfter ==
  ASSUME FlightInv, RetainInv, NEW o \in Ops, NEW end \in {"succeeded", "failed"}, Settle(o, end)
  PROVE  RetainInv'
  <1> USE OperationsAssumption
  <1> DEFINE all == Prunable(o)
             ends == [finished EXCEPT ![o] = clock]
  <1>1. PICK drop \in SUBSET all : DropsOldest(all, drop, ends) /\ operations' = operations \ drop
    BY DEF Settle, Prune
  <1>2. /\ Running(o) /\ o \in operations /\ o \notin Settled /\ all = Settled \cup {o}
        /\ finished' = ends /\ clock' = clock /\ pkg' = pkg
        /\ state' = [state EXCEPT ![o] = end]
    BY DEF Settle, RetainInv, LatestAreRetained, Settled, Prunable
  <1>3. \A x \in Ops : (Running(x))' <=> Running(x) /\ x # o
    BY <1>2 DEF Running, FlightInv
  <1>4. IsFiniteSet(Settled) /\ IsFiniteSet(all) /\ Cardinality(all) = Cardinality(Settled) + 1
        /\ Cardinality(Settled) \in Nat
    <2>1. Settled \in SUBSET operations
      BY DEF Settled
    <2>2. IsFiniteSet(Settled)
      BY <2>1, FS_Subset DEF RetainInv
    <2> QED BY <1>2, <2>2, FS_AddElement, FS_CardinalityType
  <1>5. Settled' = all \ drop
    BY <1>1, <1>2, <1>3 DEF Settled, RetainInv
  <1>6. IsFiniteSet(drop) /\ Cardinality(drop) \in Nat /\ Cardinality(Settled') = Cardinality(all) - Cardinality(drop)
    <2>1. all \cap drop = drop
      OBVIOUS
    <2>2. Cardinality(all \ drop) = Cardinality(all) - Cardinality(all \cap drop)
      BY <1>4, FS_Difference
    <2> HIDE DEF all
    <2> QED BY <1>4, <1>5, <2>1, <2>2, FS_Subset, FS_CardinalityType
  <1>7. /\ Cardinality(drop) = IF Cardinality(all) < RETAIN_COMPLETED THEN 0 ELSE Cardinality(all) - RETAIN_COMPLETED
        /\ \A x \in drop, q \in all \ drop : ends[x] <= ends[q]
    BY <1>1 DEF DropsOldest
  <1>8. Cardinality(Settled') <= RETAIN_COMPLETED
    BY <1>4, <1>6, <1>7
  <1>9. \A x \in Ops : finished'[x] <= clock' /\ finished'[x] \in Nat /\ ends[x] >= finished[x]
    BY <1>2 DEF RetainInv
  <1>10. ASSUME NEW x \in Ops \ operations', pkg'[x] # None
         PROVE  Cardinality(Settled') = RETAIN_COMPLETED /\ \A q \in Settled' : finished'[x] <= finished'[q]
    <2>1. CASE x \in drop
      <3>1. Cardinality(drop) # 0
        BY <1>6, <2>1, FS_EmptySet
      <3> HIDE DEF all, ends
      <3> QED BY <1>2, <1>4, <1>5, <1>6, <1>7, <2>1, <3>1
    <2>2. CASE x \notin drop
      <3>1. /\ Cardinality(Settled) = RETAIN_COMPLETED /\ \A q \in Settled : finished[x] <= finished[q]
            /\ x # o
        BY <1>1, <1>2, <1>10, <2>2 DEF RetainInv, LatestAreRetained
      <3>2. Cardinality(Settled') = RETAIN_COMPLETED
        BY <1>4, <1>6, <1>7, <3>1
      <3>3. ASSUME NEW q \in Settled' PROVE finished'[x] <= finished'[q]
        <4>1. q \in Settled \cup {o}
          BY <1>2, <1>5
        <4>2. q \in Ops
          BY <1>2, <4>1 DEF Settled, RetainInv
        <4>3. finished'[x] = finished[x]
          BY <1>2, <3>1 DEF RetainInv
        <4>4. CASE q = o
          BY <1>2, <4>3, <4>4 DEF RetainInv
        <4>5. CASE q # o
          BY <1>2, <3>1, <4>1, <4>2, <4>3, <4>5 DEF RetainInv
        <4> QED BY <4>4, <4>5
      <3> QED BY <3>2, <3>3
    <2> QED BY <2>1, <2>2
  <1>11. IsFiniteSet(operations') /\ operations' \subseteq {x \in Ops : pkg'[x] # None}
    BY <1>1, <1>2, FS_Subset DEF RetainInv
  <1>12. \A x \in Ops : (Running(x))' => x \in operations'
    BY <1>1, <1>2, <1>3 DEF RetainInv, LatestAreRetained, Settled
  <1>13. finished' \in [Ops -> Nat] /\ clock' \in Nat
    BY <1>2 DEF RetainInv
  <1> QED BY <1>8, <1>9, <1>10, <1>11, <1>12, <1>13 DEF RetainInv, LatestAreRetained

LEMMA RetainNext == FlightInv /\ RetainInv /\ [Next]_vars => RetainInv'
  <1> SUFFICES ASSUME FlightInv, RetainInv, [Next]_vars PROVE RetainInv'
    OBVIOUS
  <1>1. ASSUME NEW o \in Ops, NEW p \in Packages, Start(o, p) PROVE RetainInv'
    <2>1. /\ operations' = operations \cup {o} /\ o \notin operations /\ pkg[o] = None /\ pkg'[o] = p
          /\ (Running(o))' /\ \A x \in Ops \ {o} : pkg'[x] = pkg[x] /\ ((Running(x))' <=> Running(x))
          /\ UNCHANGED <<finished, clock>> /\ p # None
      BY <1>1, OperationsAssumption DEF Start, FlightInv, RetainInv, Running, None
    <2>2. Settled' = Settled
      BY <2>1 DEF Settled, RetainInv
    <2>3. IsFiniteSet(operations')
      BY <2>1, FS_AddElement DEF RetainInv
    <2> QED BY <2>1, <2>2, <2>3 DEF RetainInv, LatestAreRetained
  <1>2. ASSUME NEW o \in Ops, NEW end \in {"succeeded", "failed"}, Settle(o, end) PROVE RetainInv'
    BY <1>2, SettledAfter
  <1>3. CASE Tick
    BY <1>3 DEF Tick, ops, RetainInv, LatestAreRetained, Settled, Running
  <1>4. ASSUME UNCHANGED <<pkg, state, finished, operations, clock>> PROVE RetainInv'
    BY <1>4 DEF RetainInv, LatestAreRetained, Settled, Running
  <1>5. ASSUME NEW o \in Ops, NEW k \in 1..MaxAppended, Work(o, k) PROVE RetainInv'
    BY <1>4, <1>5 DEF Work
  <1>6. ASSUME NEW w \in Watchers, (\E o \in Ops : Connect(w, o)) \/ Open(w) \/ ClientGone(w) \/ CloseEvent(w)
        PROVE  RetainInv'
    BY <1>4, <1>6 DEF Connect, Open, ClientGone, CloseEvent, ops
  <1>7. CASE UNCHANGED vars
    BY <1>4, <1>7 DEF vars, ops
  <1> QED BY <1>1, <1>2, <1>3, <1>5, <1>6, <1>7 DEF Next

\* However many operations there were, those kept for inspection are the
\* RETAIN_COMPLETED that settled last, or all, and those at work
\* (operations.ts:134-143).
THEOREM LatestAreRetainedHolds == Spec => []LatestAreRetained
  <1>1. RetainInv => LatestAreRetained
    BY DEF RetainInv
  <1> QED BY <1>1, FlightInit, FlightNext, RetainInit, RetainNext, PTL DEF Spec

\* Only a socket that is not closed yet has listeners on its operation, however
\* it came to close (v2.ts:480-490).
THEOREM ListenersLeaveWithTheirSocketHolds == Spec => []ListenersLeaveWithTheirSocket
  <1> DEFINE Inv == /\ attached \subseteq Watchers
                    /\ sock = [w \in Watchers |-> sock[w]]
                    /\ ListenersLeaveWithTheirSocket
  <1>1. Init => Inv
    BY DEF Init, ListenersLeaveWithTheirSocket
  <1>2. Inv /\ [Next]_vars => Inv'
    BY DEF Next, Start, Work, Logged, Settle, Reached, Tick, Connect, Open, OpenRunning, OpenSettled,
           ClientGone, CloseEvent, vars, ops, sockets, ListenersLeaveWithTheirSocket
  <1>3. Inv => ListenersLeaveWithTheirSocket
    OBVIOUS
  <1> HIDE DEF Inv
  <1> QED BY <1>1, <1>2, <1>3, PTL DEF Spec

-----------------------------------------------------------------------------
(* Types                                                                   *)

\* Types, and that an operation that was started has a state.
TypesInv == TypeOK /\ \A o \in Ops : pkg[o] # None => state[o] \in States

LEMMA LoggedTypes ==
  ASSUME TypeOK, NEW o \in Ops, NEW k \in Nat, Logged(o, k)
  PROVE  /\ appended' \in [Ops -> Nat] /\ truncated' \in [Ops -> Nat]
         /\ \A q \in Ops : appended'[q] - truncated'[q] \in 0..MAX_LOG_LINES
         /\ \A w \in Watchers : lines'[w] \in Seq(Nat)
  <1>1. /\ appended[o] \in Nat /\ truncated[o] \in Nat
        /\ appended[o] - truncated[o] \in 0..MAX_LOG_LINES
        /\ MAX_LOG_LINES \in Nat \ {0}
    BY OperationsAssumption DEF TypeOK
  <1>2. /\ Dropped(o, appended[o] + k) \in Nat
        /\ appended[o] + k - Dropped(o, appended[o] + k) \in 0..MAX_LOG_LINES
    BY <1>1 DEF Dropped
  <1>3. appended' \in [Ops -> Nat] /\ truncated' \in [Ops -> Nat]
    BY <1>1, <1>2 DEF Logged, TypeOK
  <1>4. \A q \in Ops : appended'[q] - truncated'[q] \in 0..MAX_LOG_LINES
    BY <1>2 DEF Logged, TypeOK
  <1>5. Stretch(appended[o], k) \in Seq(Nat)
    BY <1>1, StretchIsSeq
  <1>6. \A w \in Watchers : lines'[w] \in Seq(Nat)
    BY <1>5, ConcatProperties DEF Logged, TypeOK
  <1> QED BY <1>3, <1>4, <1>6

LEMMA SettleTypes ==
  ASSUME TypeOK, NEW o \in Ops, NEW end \in {"succeeded", "failed"}, Settle(o, end)
  PROVE  TypeOK'
  <1>1. Logged(o, IF end = "failed" THEN 1 ELSE 0)
    BY DEF Settle
  <1>2. /\ appended' \in [Ops -> Nat] /\ truncated' \in [Ops -> Nat]
        /\ \A q \in Ops : appended'[q] - truncated'[q] \in 0..MAX_LOG_LINES
        /\ \A w \in Watchers : lines'[w] \in Seq(Nat)
    <2>1. CASE end = "failed"
      BY <1>1, <2>1, LoggedTypes
    <2>2. CASE end # "failed"
      BY <1>1, <2>2, LoggedTypes
    <2> QED BY <2>1, <2>2
  <1>3. /\ state' \in [Ops -> States \cup {None}] /\ finished' \in [Ops -> 0..MaxClock]
        /\ in_flight' \in [Packages -> Ops \cup {None}]
        /\ sock' \in [Watchers -> {"idle", "upgrading", "open", "closing", "closed"}]
        /\ UNCHANGED <<pkg, clock, target, attached>>
    BY DEF Settle, TypeOK, States
  <1>4. operations' \subseteq {q \in Ops : pkg[q] # None}
    BY DEF Settle, Prune, TypeOK
  <1>5. \A w \in Watchers : told'[w] \in Seq(States)
    <2>1. end \in States
      BY DEF States
    <2> QED BY <2>1, AppendProperties DEF Settle, TypeOK
  <1> QED BY <1>2, <1>3, <1>4, <1>5 DEF TypeOK

\* A socket is only told the state of an operation that was started.
LEMMA OpenTypes ==
  ASSUME TypesInv, WatchInv, NEW w \in Watchers, Open(w)
  PROVE  TypeOK'
  <1> USE DEF TypesInv
  <1>1. target[w] \in Ops /\ pkg[target[w]] # None
    BY DEF Open, WatchInv
  <1>2. state[target[w]] \in States
    BY <1>1
  <1>3. \A v \in Watchers : lines'[v] \in Seq(Nat)
    <2>1. Log(target[w]) \in Seq(Nat)
      BY <1>1, StretchIsSeq DEF Log, TypeOK
    <2> QED BY <2>1 DEF Open, TypeOK
  <1>4. \A v \in Watchers : told'[v] \in Seq(States)
    <2> DEFINE seen == state[target[w]]
    <2>1. told' = told \/ told' = [told EXCEPT ![w] = Append(@, seen)]
      BY DEF Open, OpenRunning, OpenSettled
    <2>2. DOMAIN told = Watchers /\ \A v \in Watchers : told[v] \in Seq(States)
      BY DEF TypeOK, WatchInv
    <2>3. Append(told[w], seen) \in Seq(States)
      BY <1>2, <2>2, AppendProperties
    <2> HIDE DEF seen
    <2> QED BY <2>1, <2>2, <2>3
  <1>5. /\ sock' \in [Watchers -> {"idle", "upgrading", "open", "closing", "closed"}]
        /\ attached' \subseteq Watchers /\ UNCHANGED <<ops, clock, target>>
    BY DEF Open, OpenRunning, OpenSettled, TypeOK
  <1> QED BY <1>3, <1>4, <1>5 DEF TypeOK, ops

LEMMA TypesNext == WatchInv /\ TypesInv /\ [Next]_vars => TypesInv'
  <1> SUFFICES ASSUME WatchInv, TypesInv, [Next]_vars PROVE TypesInv'
    OBVIOUS
  <1>1. ASSUME NEW o \in Ops, NEW p \in Packages, Start(o, p) PROVE TypesInv'
    BY <1>1, OperationsAssumption DEF Start, TypesInv, TypeOK, States, sockets, None
  <1>2. ASSUME NEW o \in Ops, NEW k \in 1..MaxAppended, Work(o, k) PROVE TypesInv'
    <2>1. k \in Nat /\ Logged(o, k)
      BY <1>2, OperationsAssumption DEF Work
    <2> QED BY <1>2, <2>1, LoggedTypes DEF Work, TypesInv, TypeOK
  <1>3. ASSUME NEW o \in Ops, NEW end \in {"succeeded", "failed"}, Settle(o, end) PROVE TypesInv'
    <2>1. TypeOK'
      BY <1>3, SettleTypes DEF TypesInv
    <2>2. \A q \in Ops : pkg'[q] # None => state'[q] \in States
      BY <1>3 DEF Settle, TypesInv, TypeOK, States
    <2> QED BY <2>1, <2>2 DEF TypesInv
  <1>4. CASE Tick
    BY <1>4, OperationsAssumption DEF Tick, TypesInv, TypeOK, ops, sockets
  <1>5. ASSUME NEW w \in Watchers, NEW o \in Ops, Connect(w, o) PROVE TypesInv'
    BY <1>5 DEF Connect, TypesInv, TypeOK, ops
  <1>6. ASSUME NEW w \in Watchers, Open(w) PROVE TypesInv'
    BY <1>6, OpenTypes DEF Open, TypesInv, ops
  <1>7. ASSUME NEW w \in Watchers, ClientGone(w) \/ CloseEvent(w) PROVE TypesInv'
    BY <1>7 DEF ClientGone, CloseEvent, TypesInv, TypeOK, ops
  <1>8. CASE UNCHANGED vars
    BY <1>8 DEF vars, TypesInv, TypeOK, ops, sockets
  <1> QED BY <1>1, <1>2, <1>3, <1>4, <1>5, <1>6, <1>7, <1>8 DEF Next

\* Every variable keeps its type, a log is never longer than MAX_LOG_LINES, and a
\* watcher is told of no state an operation cannot have (operations.ts:62-83).
THEOREM TypeOKHolds == Spec => []TypeOK
  <1>1. Init => TypesInv
    BY OperationsAssumption DEF Init, TypesInv, TypeOK, None
  <1>2. TypesInv => TypeOK
    BY DEF TypesInv
  <1> QED BY <1>1, <1>2, WatchInit, WatchNext, TypesNext, PTL DEF Spec

-----------------------------------------------------------------------------
(* Every watcher of an operation that has ended is let go                  *)

\* The events a socket has before it.
Ahead(w) ==
    IF sock[w] = "idle" THEN 4
    ELSE IF sock[w] = "upgrading" THEN 3
    ELSE IF sock[w] = "open" THEN 2
    ELSE IF sock[w] = "closing" THEN 1
    ELSE 0

\* A socket never waits for an operation that has ended: its own open or close
\* event is due, or it is closed.
ReleaseDue ==
    \A w \in Watchers :
        target[w] # None /\ ~Running(target[w]) => sock[w] \in {"upgrading", "closing", "closed"}

\* A socket only goes on, and stays with its operation, which has ended for good.
TargetKept(w) == target[w] # None => target'[w] = target[w]

NearerRelease ==
    /\ \A w \in Watchers : TargetKept(w) /\ (Ahead(w)' < Ahead(w) \/ sock'[w] = sock[w])
    /\ \A o \in Ops : pkg[o] # None /\ ~Running(o) => UNCHANGED <<pkg[o], state[o]>>

\* A socket has a target once its client has asked for one.
TargetInv ==
    \A w \in Watchers : sock[w] = "idle" => target[w] = None

LEMMA EndedForGood ==
  ASSUME WatchInv, [Next]_vars, NEW o \in Ops, pkg[o] # None, ~Running(o)
  PROVE  UNCHANGED <<pkg[o], state[o]>>
  <1>1. ASSUME NEW q \in Ops, NEW p \in Packages, Start(q, p) PROVE UNCHANGED <<pkg[o], state[o]>>
    BY <1>1 DEF Start, WatchInv
  <1>2. ASSUME NEW q \in Ops, NEW end, Settle(q, end) PROVE UNCHANGED <<pkg[o], state[o]>>
    BY <1>2 DEF Settle, WatchInv, Running
  <1>3. ASSUME NEW q \in Ops, NEW k, Work(q, k) PROVE UNCHANGED <<pkg[o], state[o]>>
    BY <1>3 DEF Work
  <1>4. ASSUME NEW w \in Watchers, NEW q \in Ops, Connect(w, q) \/ Open(w) \/ ClientGone(w) \/ CloseEvent(w)
        PROVE  UNCHANGED ops
    BY <1>4 DEF Connect, Open, ClientGone, CloseEvent
  <1>5. Tick => UNCHANGED ops
    BY DEF Tick
  <1> QED BY <1>1, <1>2, <1>3, <1>4, <1>5 DEF Next, vars, ops

LEMMA SocketsGoOn ==
  ASSUME WatchInv, TargetInv, [Next]_vars, NEW w \in Watchers
  PROVE  /\ TargetKept(w) /\ (Ahead(w)' < Ahead(w) \/ sock'[w] = sock[w])
         /\ sock'[w] = "idle" => target'[w] = None
  <1> DEFINE GoesOn == /\ TargetKept(w) /\ (Ahead(w)' < Ahead(w) \/ sock'[w] = sock[w])
                       /\ sock'[w] = "idle" => target'[w] = None
  <1> USE DEF TargetKept, WatchInv, TargetInv
  <1>1. ASSUME sock'[w] = sock[w], target'[w] = target[w]
        PROVE  GoesOn
    BY <1>1
  <1>2. ASSUME <<sock[w], sock'[w]>> \in {<<"upgrading", "open">>, <<"upgrading", "closing">>,
                                         <<"open", "closing">>, <<"closing", "closed">>},
               target' = target
        PROVE  GoesOn
    BY <1>2 DEF Ahead
  <1>3. ASSUME NEW v \in Watchers, NEW o \in Ops, Connect(v, o)
        PROVE  GoesOn
    <2>1. CASE v = w
      <3>1. sock[w] = "idle" /\ sock'[w] = "upgrading" /\ target[w] = None
        BY <1>3, <2>1 DEF Connect
      <3> QED BY <3>1 DEF Ahead
    <2>2. CASE v # w
      BY <1>1, <1>3, <2>2 DEF Connect
    <2> QED BY <2>1, <2>2
  <1>4. ASSUME NEW v \in Watchers, Open(v) \/ ClientGone(v) \/ CloseEvent(v)
        PROVE  GoesOn
    <2>1. target' = target
      BY <1>4 DEF Open, ClientGone, CloseEvent
    <2>2. CASE v = w
      BY <1>2, <1>4, <2>1, <2>2 DEF Open, OpenRunning, OpenSettled, ClientGone, CloseEvent
    <2>3. CASE v # w
      BY <1>1, <1>4, <2>1, <2>3 DEF Open, OpenRunning, OpenSettled, ClientGone, CloseEvent
    <2> QED BY <2>2, <2>3
  <1>5. ASSUME NEW o \in Ops, NEW end, Settle(o, end)
        PROVE  GoesOn
    <2>1. target' = target /\ sock'[w] = (IF w \in Reached(o) THEN "closing" ELSE sock[w])
      BY <1>5 DEF Settle
    <2> QED BY <1>1, <1>2, <2>1 DEF Reached
  <1>6. ASSUME NEW o \in Ops, NEW p, NEW k, Start(o, p) \/ Work(o, k)
        PROVE  UNCHANGED <<sock, target>>
    BY <1>6 DEF Start, Work, sockets
  <1>7. Tick \/ UNCHANGED vars => UNCHANGED <<sock, target>>
    BY DEF Tick, vars, sockets
  <1> QED BY <1>1, <1>3, <1>4, <1>5, <1>6, <1>7 DEF Next

\* However many sockets and operations there are, a watcher comes to its release
\* but for the events the runtime owes it: once its operation has ended, which
\* it has for good, the socket's open or close event is due until it is closed,
\* and no step takes a socket back (v2.ts:465-490).
THEOREM WatchersGetNearerTheirRelease == Spec => []ReleaseDue /\ [][NearerRelease]_vars
  <1>1. Init => TargetInv
    BY DEF Init, TargetInv
  <1>2. WatchInv /\ TargetInv /\ [Next]_vars => TargetInv' /\ [NearerRelease]_vars
    <2> SUFFICES ASSUME WatchInv, TargetInv, [Next]_vars PROVE TargetInv' /\ NearerRelease
      OBVIOUS
    <2> QED BY EndedForGood, SocketsGoOn DEF TargetInv, NearerRelease
  <1>3. WatchInv /\ TargetInv => ReleaseDue
    BY DEF WatchInv, TargetInv, ReleaseDue
  <1> QED BY <1>1, <1>2, <1>3, WatchInit, WatchNext, PTL DEF Spec

===============================================================================
