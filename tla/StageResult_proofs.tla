-------------------------- MODULE StageResult_proofs --------------------------
(***************************************************************************)
(* The verdict of a stage, proved for every output limit, every size of    *)
(* chunk and every set of signals.                                         *)
(***************************************************************************)
EXTENDS StageResult, TLAPS

\* The limit status and the refused output come together.
LimitInv ==
    /\ limit # None => \E s \in Streams : dropped[s] /\ limit = LimitStatus[s]
    /\ (\E s \in Streams : dropped[s]) => limit # None

\* Output is refused in one kind of stage and signals are sent in the other.
KindInv ==
    /\ interactive => \A s \in Streams : ~dropped[s]
    /\ ~interactive => killed = None

\* Once isolate was waited for nothing that a result is made of changes.
PhaseInv ==
    /\ stage \in {"reading", "returned"} => isolate = "waited"
    /\ stage = "thrown" => isolate = "waited"
    /\ isolate \in {"starting", "running"} => metadata = NoVerdict
    /\ isolate = "starting" => killed = None
    /\ stage \notin {"returned"} => result = NoResult
    /\ stage = "returned" => result = Report /\ (metadata.readable \/ killed # None)
    /\ stage = "thrown" => ~metadata.readable

StageInv == TypeOK /\ BoundedCapture /\ LimitInv /\ KindInv /\ PhaseInv

LEMMA InitInv == Init => StageInv
  <1> SUFFICES ASSUME Init PROVE StageInv
    OBVIOUS
  <1> USE StageAssumption DEF Init, None, Streams, NoVerdict, NoResult
  <1>1. TypeOK
    BY DEF TypeOK, Results
  <1>2. BoundedCapture
    BY DEF BoundedCapture
  <1>3. LimitInv /\ KindInv
    BY DEF LimitInv, KindInv
  <1>4. PhaseInv
    BY DEF PhaseInv
  <1> QED BY <1>1, <1>2, <1>3, <1>4 DEF StageInv

\* A verdict has a code, a signal and a status of the kinds known, and no signal
\* beside a code.
LEMMA WholeVerdict ==
  ASSUME NEW v \in Verdicts
  PROVE  /\ v.readable = TRUE
         /\ v.code \in {"0", "1", None}
         /\ v.signal \in Signals \cup {None}
         /\ v.status \in {None, "RE", "SG", "TO", "XX"}
         /\ v.code # None => v.signal = None /\ v.status \in {None, "RE"}
  <1> USE DEF None
  <1>1. CASE v \in [readable : {TRUE}, code : {None}, signal : Signals \cup {None}, status : {"SG"}]
    BY <1>1
  <1>2. CASE v = [readable |-> TRUE, code |-> "0", signal |-> None, status |-> None]
    BY <1>2
  <1>3. CASE v = [readable |-> TRUE, code |-> "1", signal |-> None, status |-> "RE"]
    BY <1>3
  <1>4. CASE v = [readable |-> TRUE, code |-> None, signal |-> None, status |-> "TO"]
    BY <1>4
  <1>5. CASE v = [readable |-> TRUE, code |-> None, signal |-> None, status |-> "XX"]
    BY <1>5
  <1> QED BY <1>1, <1>2, <1>3, <1>4, <1>5 DEF Verdicts

\* What can be in the file is of the same kind, and nothing counts of one that
\* does not parse.
LEMMA VerdictFacts ==
  ASSUME NEW v \in Verdicts \cup CutShort \cup {NoVerdict}
  PROVE  /\ v.code \in {"0", "1", None}
         /\ v.signal \in Signals \cup {None}
         /\ v.status \in {None, "RE", "SG", "TO", "XX"}
         /\ ~v.readable => v.code = None /\ v.signal = None /\ v.status = None
         /\ v.code # None => v.signal = None /\ v.status \in {None, "RE"}
  <1>1. CASE v \in Verdicts
    BY <1>1, WholeVerdict
  <1>2. CASE v = NoVerdict
    BY <1>2 DEF NoVerdict, None
  <1>3. CASE v \in CutShort
    <2>1. /\ v.readable = TRUE /\ v.code \in {"0", "1", None}
          /\ v.signal \in Signals \cup {None} /\ v.status \in {None, "RE", "SG", "TO", "XX"}
      BY <1>3 DEF CutShort
    <2>2. PICK w \in Verdicts : \A f \in {"code", "signal", "status"} : v[f] \in {w[f], None}
      BY <1>3 DEF CutShort
    <2>3. v.code \in {w.code, None} /\ v.signal \in {w.signal, None} /\ v.status \in {w.status, None}
      BY <2>2
    <2>4. w.code # None => w.signal = None /\ w.status \in {None, "RE"}
      BY WholeVerdict
    <2> QED BY <2>1, <2>3, <2>4 DEF None
  <1> QED BY <1>1, <1>2, <1>3

\* What Report makes of a verdict is a result.
LEMMA ReportIsAResult == TypeOK => Report \in Results
  <1> SUFFICES ASSUME TypeOK PROVE Report \in Results
    OBVIOUS
  <1> DEFINE r == [code |-> metadata.code, signal |-> metadata.signal, status |-> Status]
  <1>1. r \in Results
    <2>1. metadata.code \in {"0", "1", None} /\ metadata.signal \in Signals \cup {None}
      BY VerdictFacts DEF TypeOK
    <2>2. Status \in {None, "RE", "SG", "TO", "XX", "OL", "EL"}
      BY VerdictFacts DEF TypeOK, Status, None
    <2> QED BY <2>1, <2>2 DEF Results
  <1>2. killed # None => killed \in Signals
    BY DEF TypeOK
  <1>3. exitSignal # None => exitSignal \in Signals
    BY StageAssumption DEF TypeOK
  <1>4. ASSUME NEW q \in Results PROVE Signalled(q) \in Results
    BY <1>2, <1>3 DEF Signalled, Results, None
  <1>5. ASSUME NEW q \in Results PROVE Killed(q) \in Results
    BY StageAssumption DEF Killed, Results, None
  <1> QED BY <1>1, <1>4, <1>5 DEF Report

LEMMA NextInv == StageInv /\ [Next]_vars => StageInv'
  <1> SUFFICES ASSUME StageInv, [Next]_vars PROVE StageInv'
    OBVIOUS
  <1> USE DEF StageInv
  <1> USE StageAssumption
  <1>1. CASE Spawned
    BY <1>1 DEF Spawned, TypeOK, BoundedCapture, LimitInv, KindInv, PhaseInv, Report, Status, Signalled, Killed
  <1>2. CASE SpawnFails
    BY <1>2 DEF SpawnFails, TypeOK, BoundedCapture, LimitInv, KindInv, PhaseInv, NoVerdict, Report, Status, Signalled, Killed
  <1>3. ASSUME NEW s \in Streams, NEW c \in Chunks, Keep(s, c) PROVE StageInv'
    <2>1. c.bytes \in Nat /\ c.chars \in Nat /\ c.chars <= c.bytes
      OBVIOUS
    <2>2. TypeOK'
      BY <1>3, <2>1 DEF Keep, TypeOK
    <2>3. BoundedCapture'
      BY <1>3, <2>1 DEF Keep, Fits, BoundedCapture, TypeOK
    <2>4. PhaseInv'
      BY <1>3 DEF Keep, Listening, PhaseInv
    <2>5. LimitInv' /\ KindInv'
      BY <1>3 DEF Keep, LimitInv, KindInv
    <2> QED BY <2>2, <2>3, <2>4, <2>5
  <1>4. ASSUME NEW s \in Streams, NEW c \in Chunks, AbortForOutputLimit(s, c) PROVE StageInv'
    <2>1. LimitStatus[s] \in {"OL", "EL"}
      BY DEF LimitStatus, Streams
    <2>2. TypeOK' /\ BoundedCapture'
      BY <1>4, <2>1 DEF AbortForOutputLimit, TypeOK, BoundedCapture
    <2>3. LimitInv' /\ KindInv'
      BY <1>4, <2>1 DEF AbortForOutputLimit, Listening, LimitInv, KindInv, TypeOK, None
    <2>4. PhaseInv'
      BY <1>4 DEF AbortForOutputLimit, Listening, PhaseInv
    <2> QED BY <2>2, <2>3, <2>4
  <1>5. ASSUME NEW sig \in Signals, Signal(sig) PROVE StageInv'
    <2>1. TypeOK' /\ BoundedCapture'
      BY <1>5 DEF Signal, TypeOK, BoundedCapture
    <2>4. stage = "waiting"
      BY <1>5 DEF Signal, PhaseInv, TypeOK
    <2>2. LimitInv' /\ KindInv'
      BY <1>5 DEF Signal, LimitInv, KindInv
    <2>3. PhaseInv'
      BY <1>5, <2>4 DEF Signal, PhaseInv
    <2> QED BY <2>1, <2>2, <2>3
  <1>6. CASE IsolateExits
    <2>1. TypeOK' /\ BoundedCapture' /\ LimitInv' /\ KindInv'
      BY <1>6 DEF IsolateExits, TypeOK, BoundedCapture, LimitInv, KindInv
    <2>2. stage \notin {"reading", "returned"}
      BY <1>6 DEF IsolateExits, PhaseInv
    <2>3. stage # "thrown" \/ ~metadata'.readable
      BY <1>6 DEF IsolateExits, PhaseInv
    <2> QED BY <1>6, <2>1, <2>2, <2>3 DEF IsolateExits, PhaseInv
  <1>7. CASE HostKills
    BY <1>7 DEF HostKills, TypeOK, BoundedCapture, LimitInv, KindInv, PhaseInv, None
  <1>8. CASE Exit
    BY <1>8 DEF Exit, TypeOK, BoundedCapture, LimitInv, KindInv, PhaseInv
  <1>9. CASE Return
    <2>1. TypeOK'
      BY <1>9, ReportIsAResult DEF Return, TypeOK
    <2>2. PhaseInv'
      BY <1>9 DEF Return, PhaseInv, Report, Status, Signalled, Killed
    <2> QED BY <1>9, <2>1, <2>2 DEF Return, BoundedCapture, LimitInv, KindInv
  <1>10. CASE Throw
    BY <1>10 DEF Throw, TypeOK, BoundedCapture, LimitInv, KindInv, PhaseInv
  <1>11. CASE UNCHANGED vars
    BY <1>11 DEF vars, TypeOK, BoundedCapture, LimitInv, KindInv, PhaseInv, Report, Status, Signalled, Killed
  <1> QED BY <1>1, <1>2, <1>3, <1>4, <1>5, <1>6, <1>7, <1>8, <1>9, <1>10, <1>11 DEF Next

LEMMA InvHolds == Spec => []StageInv
  BY InitInv, NextInv, PTL DEF Spec

-----------------------------------------------------------------------------
\* No stage makes the server keep more characters than the limit, whatever the
\* limit and the chunks are (job.ts:401-426).
THEOREM BoundedCaptureHolds == Spec => []BoundedCapture
  <1>1. StageInv => BoundedCapture
    BY DEF StageInv
  <1> QED BY <1>1, InvHolds, PTL

\* The shape of a result once the stage returned, in terms of its four sources.
LEMMA ReportFacts ==
  ASSUME StageInv
  PROVE  /\ Report.code = metadata.code
         /\ limit # None => Report.status = limit /\ Report.signal = "SIGKILL"
         /\ limit = None /\ metadata.code # None =>
              Report.signal = None /\ Report.status = metadata.status
         /\ limit = None => Report.status \notin {"OL", "EL"}
         /\ limit = None => Report.status \in {metadata.status, "SG"}
         /\ metadata.status # None => Report.status # None
         /\ limit # None => Report.status # None
         /\ killed # None /\ metadata.code = None => Report.signal # None
         /\ limit = None /\ metadata.status = "TO" => Report.signal # None
         /\ metadata.signal # None => Report.signal # None
         /\ killed = None /\ limit = None /\ metadata.status # "TO" => Report.signal = metadata.signal
  <1> DEFINE r == [code |-> metadata.code, signal |-> metadata.signal, status |-> Status]
             q == Signalled(r)
  <1> USE StageAssumption DEF None
  <1>1. /\ metadata.code \in {"0", "1", None}
        /\ metadata.status \in {None, "RE", "SG", "TO", "XX"}
        /\ metadata.code # None => metadata.signal = None /\ metadata.status \in {None, "RE"}
    BY VerdictFacts DEF StageInv, TypeOK
  <1>2. limit \in {None, "OL", "EL"} /\ killed \in Signals \cup {None} /\ exitSignal \in Signals \cup {None}
    BY DEF StageInv, TypeOK
  <1>3. /\ q.code = metadata.code
        /\ limit # None => q.status = limit
        /\ limit = None => q.status \in {metadata.status, "SG"}
        /\ metadata.code # None => q = r
        /\ killed # None /\ metadata.code = None => q.signal # None
        /\ metadata.status # None => q.status # None
        /\ limit = None /\ metadata.status = "TO" => q.status = "TO"
        /\ metadata.signal # None => q.signal # None
        /\ killed = None => q = r
    BY <1>1, <1>2 DEF Signalled, Status
  <1>4. Report = IF q.status \in KILLED_STATUSES THEN [q EXCEPT !.signal = "SIGKILL"] ELSE q
    BY DEF Report, Killed
  <1>5. q = [code |-> q.code, signal |-> q.signal, status |-> q.status]
    BY DEF Signalled
  <1>6. /\ Report.code = q.code
        /\ Report.status = q.status
        /\ Report.signal = IF q.status \in KILLED_STATUSES THEN "SIGKILL" ELSE q.signal
    BY <1>4, <1>5
  <1>7. limit = None /\ metadata.code # None => Report.signal = None /\ Report.status = metadata.status
    BY <1>1, <1>3, <1>6 DEF KILLED_STATUSES, Status
  <1> QED BY <1>1, <1>2, <1>3, <1>6, <1>7 DEF KILLED_STATUSES

\* Refused output decides the verdict, whatever isolate reports of its end, and
\* only refused output does (job.ts:342-361, 469-471, 518-521).
THEOREM LimitVerdictStandsHolds == Spec => []LimitVerdictStands
  <1>1. StageInv => LimitVerdictStands
    <2> SUFFICES ASSUME StageInv PROVE LimitVerdictStands
      OBVIOUS
    <2>1. CASE stage = "returned"
      <3>1. result = Report
        BY <2>1 DEF StageInv, PhaseInv
      <3>2. CASE limit = None
        <4>1. \A s \in Streams : LimitStatus[s] \in {"OL", "EL"}
          BY DEF Streams, LimitStatus
        <4> QED BY <3>1, <3>2, <4>1, ReportFacts DEF LimitVerdictStands, StageInv, LimitInv
      <3>3. CASE limit # None
        <4>1. PICK s \in Streams : dropped[s] /\ limit = LimitStatus[s]
          BY <3>3 DEF StageInv, LimitInv
        <4>2. \A t \in Streams : LimitStatus[t] = LimitStatus[s] => t = s
          BY DEF Streams, LimitStatus
        <4> QED BY <3>1, <3>3, <4>1, <4>2, ReportFacts DEF LimitVerdictStands
      <3> QED BY <3>2, <3>3
    <2>2. CASE stage # "returned"
      BY <2>2 DEF LimitVerdictStands, StageInv, PhaseInv, NoResult, LimitStatus, Streams, None
    <2> QED BY <2>1, <2>2
  <1> QED BY <1>1, InvHolds, PTL

\* A stage no exit code was recorded of never passes for one that succeeded, and
\* only a file that says nothing leaves a result that says nothing
\* (job.ts:443-512).
THEOREM LostVerdictIsNoSuccessHolds == Spec => []LostVerdictIsNoSuccess
  <1>1. ASSUME StageInv, stage = "returned", result = NoResult
        PROVE  metadata.readable /\ metadata.signal = None /\ killed = None /\ limit = None
    <2>1. result = Report /\ (metadata.readable \/ killed # None)
      BY <1>1 DEF StageInv, PhaseInv
    <2>2. Report.code = None /\ Report.signal = None /\ Report.status = None
      BY <1>1, <2>1 DEF NoResult
    <2> QED BY <1>1, <2>1, <2>2, ReportFacts
  <1>2. StageInv => LostVerdictIsNoSuccess
    <2> SUFFICES ASSUME StageInv PROVE LostVerdictIsNoSuccess
      OBVIOUS
    <2>1. ~metadata.readable => metadata.code = None
      BY VerdictFacts DEF StageInv, TypeOK
    <2> QED BY <1>1, <2>1, ReportFacts DEF LostVerdictIsNoSuccess, StageInv, PhaseInv
  <1> QED BY <1>2, InvHolds, PTL

\* Signals do not change the exit code a program ended with by itself, a signal
\* stands beside it exactly when an output limit was exceeded, and neither is
\* there exactly when nothing of the two is known (job.ts:373-387, 496-518).
THEOREM CodeOrSignalHolds == Spec => []CodeOrSignal
  <1>1. StageInv => CodeOrSignal
    <2> SUFFICES ASSUME StageInv, stage = "returned" PROVE CodeOrSignal
      BY DEF CodeOrSignal
    <2>1. limit \in {None, "OL", "EL"}
      BY DEF StageInv, TypeOK
    <2>2. result = Report
      BY DEF StageInv, PhaseInv
    <2>3. metadata.code # None => metadata.signal = None /\ metadata.status \in {None, "RE"}
      BY VerdictFacts DEF StageInv, TypeOK
    <2>4. result.code # None /\ result.signal # None <=> metadata.code # None /\ limit # None
      BY <2>1, <2>2, ReportFacts DEF None
    <2>5. result.code = None /\ result.signal = None <=>
             /\ metadata.code = None /\ metadata.signal = None
             /\ killed = None /\ limit = None /\ metadata.status # "TO"
      BY <2>1, <2>2, <2>3, ReportFacts DEF None
    <2> QED BY <2>2, <2>4, <2>5, ReportFacts DEF CodeOrSignal
  <1> QED BY <1>1, InvHolds, PTL

\* Every variable has its type, whatever the limit and the chunks are.
THEOREM TypeOKHolds == Spec => []TypeOK
  <1>1. StageInv => TypeOK
    BY DEF StageInv
  <1> QED BY <1>1, InvHolds, PTL

-----------------------------------------------------------------------------
(* The stage the job sees *)

\* Every step is one of Stage, or none.  A signal isolate survives is seen only
\* when isolate ends without an exit code.
LEMMA StepIsSeen == StageInv /\ [Next]_vars => [Seen!Next]_(Seen!stageVars)
  <1> SUFFICES ASSUME StageInv, [Next]_vars PROVE [Seen!Next]_(Seen!stageVars)
    OBVIOUS
  <1> USE DEF Seen!stageVars, Seen!Next
  <1>1. CASE UNCHANGED <<isolate, metadata, killed, stage, result>>
    BY <1>1 DEF SeenProc, SeenMeta, SeenKilled, SeenVerdict
  <1>2. CASE Spawned
    <2>1. SeenProc = "starting" /\ SeenProc' = "alive" /\ UNCHANGED <<SeenMeta, SeenVerdict>>
      BY <1>2 DEF Spawned, SeenProc, SeenMeta, SeenVerdict
    <2>2. UNCHANGED SeenKilled
      BY <1>2 DEF Spawned, SeenKilled
    <2> QED BY <2>1, <2>2 DEF Seen!Starts
  <1>3. CASE SpawnFails
    <2>1. SeenProc = "starting" /\ SeenProc' = "none" /\ UNCHANGED SeenMeta /\ SeenVerdict' = "error"
      BY <1>3 DEF SpawnFails, SeenProc, SeenMeta, SeenVerdict
    <2>2. killed = None
      BY <1>3 DEF SpawnFails, StageInv, PhaseInv
    <2>3. UNCHANGED SeenKilled
      BY <1>3, <2>2 DEF SpawnFails, SeenKilled
    <2> QED BY <2>1, <2>3 DEF Seen!StartFails
  <1>4. ASSUME NEW s \in Streams, NEW c \in Chunks, Keep(s, c) \/ AbortForOutputLimit(s, c)
        PROVE  [Seen!Next]_(Seen!stageVars)
    BY <1>1, <1>4 DEF Keep, AbortForOutputLimit
  <1>5. ASSUME NEW sig \in Signals, Signal(sig) PROVE [Seen!Next]_(Seen!stageVars)
    <2>1. killed' # None /\ stage' = stage /\ stage = "waiting" /\ UNCHANGED <<result, SeenVerdict>>
      BY <1>5, StageAssumption DEF Signal, StageInv, PhaseInv, TypeOK, None, SeenVerdict
    <2>5. ~(isolate = "running" /\ sig \in Uncaught) => UNCHANGED <<metadata, SeenMeta>>
      BY <1>5 DEF Signal, SeenMeta
    <2>2. CASE isolate = "running" /\ sig \in Uncaught
      <3>1. metadata' \in CutShort \cup {NoVerdict} /\ isolate' = "dead"
        BY <1>5, <2>2 DEF Signal
      <3>2. metadata'.code \in {"0", "1", None} /\ (~metadata'.readable => metadata'.code = None)
        BY <3>1, VerdictFacts
      <3>3. SeenProc = "alive" /\ SeenProc' = "dead" /\ SeenKilled = FALSE
        BY <2>2, <3>1 DEF SeenProc, SeenKilled
      <3>4. SeenMeta' \in {"zero", "nonzero", "null", "absent"}
        BY DEF SeenMeta, ExitCode
      <3>5. CASE metadata'.code = None
        <4>1. SeenKilled' = TRUE /\ SeenMeta' \in {"null", "absent"}
          BY <2>1, <3>1, <3>5 DEF SeenKilled, SeenMeta, ExitCode, None
        <4> QED BY <2>1, <3>3, <4>1 DEF Seen!Signal
      <3>6. CASE metadata'.code # None
        <4>1. SeenKilled' = FALSE
          BY <3>6 DEF SeenKilled
        <4> QED BY <2>1, <3>3, <3>4, <4>1 DEF Seen!Ends
      <3> QED BY <3>5, <3>6
    <2>3. CASE isolate = "running" /\ sig \notin Uncaught
      <3>1. isolate' = isolate
        BY <1>5, <2>3 DEF Signal
      <3> QED BY <2>1, <2>3, <2>5, <3>1 DEF SeenProc, SeenKilled
    <2>4. CASE isolate = "dead"
      <3>1. isolate' = "dead" /\ SeenProc = "dead" /\ SeenProc' = "dead"
        BY <1>5, <2>4 DEF Signal, SeenProc
      <3>2. CASE metadata.code = None
        <4>1. SeenKilled' = TRUE
          BY <2>1, <2>4, <2>5, <3>1, <3>2 DEF SeenKilled
        <4> QED BY <2>1, <2>4, <2>5, <3>1, <4>1 DEF Seen!Signal
      <3>3. CASE metadata.code # None
        BY <2>1, <2>4, <2>5, <3>1, <3>3 DEF SeenKilled
      <3> QED BY <3>2, <3>3
    <2> QED BY <1>5, <2>2, <2>3, <2>4 DEF Signal
  <1>6. CASE IsolateExits \/ HostKills
    <2>1. /\ isolate = "running" /\ isolate' = "dead" /\ metadata' \in Verdicts \cup CutShort \cup {NoVerdict}
          /\ UNCHANGED <<killed, stage, result, SeenVerdict>>
      BY <1>6 DEF IsolateExits, HostKills, StageInv, TypeOK, SeenVerdict
    <2>2. stage = "waiting"
      BY <2>1 DEF StageInv, PhaseInv, TypeOK
    <2>3. SeenProc = "alive" /\ SeenProc' = "dead" /\ SeenKilled = FALSE
      BY <2>1 DEF SeenProc, SeenKilled
    <2>4. metadata'.code \in {"0", "1", None} /\ (~metadata'.readable => metadata'.code = None)
      BY <2>1, VerdictFacts
    <2>5. SeenMeta' \in {"zero", "nonzero", "null", "absent"}
      BY DEF SeenMeta, ExitCode
    <2>6. CASE killed # None /\ metadata'.code = None
      <3>1. SeenKilled' = TRUE /\ SeenMeta' \in {"null", "absent"}
        BY <2>1, <2>2, <2>6 DEF SeenKilled, SeenMeta, ExitCode, None
      <3> QED BY <2>1, <2>3, <3>1 DEF Seen!Signal
    <2>7. CASE ~(killed # None /\ metadata'.code = None)
      <3>1. SeenKilled' = FALSE
        BY <2>1, <2>7 DEF SeenKilled
      <3> QED BY <2>1, <2>3, <2>5, <3>1 DEF Seen!Ends
    <2> QED BY <2>6, <2>7
  <1>7. CASE Exit
    <2>1. /\ isolate = "dead" /\ isolate' = "waited" /\ stage' = "reading" /\ stage = "waiting"
          /\ UNCHANGED <<metadata, killed, result>>
      BY <1>7 DEF Exit, StageInv, PhaseInv, TypeOK
    <2>2. SeenProc = "dead" /\ SeenProc' = "none" /\ UNCHANGED <<SeenMeta, SeenKilled, SeenVerdict>>
      BY <2>1 DEF SeenProc, SeenMeta, SeenKilled, SeenVerdict
    <2> QED BY <2>2 DEF Seen!Exit
  <1>8. CASE Return
    <2>1. /\ stage = "reading" /\ stage' = "returned" /\ isolate = "waited" /\ result' = Report
          /\ metadata.readable \/ killed # None
          /\ metadata \in Verdicts \cup CutShort \cup {NoVerdict}
          /\ UNCHANGED <<isolate, metadata, killed>>
      BY <1>8 DEF Return, StageInv, PhaseInv, TypeOK
    <2>2. Report.code = metadata.code /\ (~metadata.readable => metadata.code = None)
      BY <2>1, ReportFacts, VerdictFacts DEF StageInv
    <2>3. SeenProc = "none" /\ UNCHANGED <<SeenProc, SeenMeta>> /\ SeenKilled' = FALSE /\ SeenVerdict = "none"
      BY <2>1 DEF SeenProc, SeenMeta, SeenKilled, SeenVerdict
    <2>4. SeenVerdict' = IF SeenMeta = "absent" THEN "null" ELSE SeenMeta
      BY <2>1, <2>2 DEF SeenVerdict, SeenMeta, ExitCode, None
    <2>5. SeenMeta # "absent" \/ SeenKilled = TRUE
      BY <2>1, <2>2 DEF SeenMeta, SeenKilled, ExitCode
    <2> QED BY <2>3, <2>4, <2>5 DEF Seen!Finish, Seen!Usable
  <1>9. CASE Throw
    <2>1. /\ stage = "reading" /\ stage' = "thrown" /\ isolate = "waited"
          /\ ~metadata.readable /\ killed = None /\ UNCHANGED <<isolate, metadata, killed>>
      BY <1>9 DEF Throw, StageInv, PhaseInv
    <2>2. /\ SeenProc = "none" /\ UNCHANGED <<SeenProc, SeenMeta, SeenKilled>>
          /\ SeenVerdict = "none" /\ SeenVerdict' = "error"
      BY <2>1 DEF SeenProc, SeenMeta, SeenKilled, SeenVerdict
    <2>3. SeenMeta = "absent" /\ SeenKilled = FALSE
      BY <2>1 DEF SeenMeta, SeenKilled
    <2> QED BY <2>2, <2>3 DEF Seen!Throw, Seen!Usable
  <1>10. CASE UNCHANGED vars
    BY <1>1, <1>10 DEF vars
  <1> QED BY <1>2, <1>3, <1>4, <1>5, <1>6, <1>7, <1>8, <1>9, <1>10 DEF Next

\* Whatever safe_call looks at and however isolate, the client and the output
\* come together, a stage is to the job what Stage says (job.ts:326-525).
THEOREM SeenAsStageHolds == Spec => SeenAsStage
  <1>1. Init => Seen!Init
    <2> SUFFICES ASSUME Init PROVE Seen!Begun("starting")
      BY DEF Seen!Init
    <2> QED BY DEF Init, Seen!Begun, SeenProc, SeenMeta, SeenKilled, SeenVerdict, NoVerdict
  <1> QED BY <1>1, StepIsSeen, InvHolds, PTL DEF Spec, Seen!Spec, SeenAsStage
=============================================================================
