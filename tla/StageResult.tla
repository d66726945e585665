------------------------------ MODULE StageResult ------------------------------
(***************************************************************************)
(* One stage of a job: Job.safe_call (src/api/src/job.ts).  isolate is     *)
(* started, its output is kept up to a limit, the client of an interactive *)
(* job may signal it, and once it has exited the metadata file it left is  *)
(* read and a verdict is put together from four sources: the output limit, *)
(* the metadata, the client's signal and the signal isolate died of.       *)
(*                                                                         *)
(* Output is measured twice, as the code does: what is kept in characters  *)
(* (the length of a string), what arrives in bytes (the length of a        *)
(* Buffer).  A chunk has no fewer bytes than characters.  Messages, times  *)
(* and memory are left out.  An interactive stage passes its output on and *)
(* keeps none of it.                                                       *)
(*                                                                         *)
(* isolate is external.  It reports an end it saw in the metadata file;    *)
(* when a signal it cannot catch takes it out there is no file, or one     *)
(* with as much in it as was written by then: nothing at all, perhaps.     *)
(***************************************************************************)
EXTENDS Naturals

CONSTANTS
    OutputMax,      \* runtime.output_max_size
    Chunks,         \* what a stage may print at a time, in bytes and characters
    Signals,        \* SIGNALS, the names a client may send
    StopSignals,    \* STOP_SIGNALS
    Unnamed,        \* the signals Node has no constant for (SIGRTMIN+n)
    Uncaught        \* the signals that take isolate out before it can report

ASSUME StageAssumption ==
    /\ OutputMax \in Nat
    /\ Chunks \subseteq [bytes : Nat, chars : Nat]
    /\ \A c \in Chunks : c.chars <= c.bytes
    /\ Uncaught \subseteq Signals
    /\ Uncaught \cap StopSignals = {}
    /\ "SIGKILL" \in Uncaught
    /\ "none" \notin Signals

VARIABLES
    interactive,    \* event_bus !== null
    isolate,        \* the process: starting, running, dead, or waited for
    metadata,       \* what the metadata file says once isolate is dead
    exitSignal,     \* exit_signal
    kept,           \* the length of the strings stdout and stderr
    dropped,        \* history: output of the stream was refused
    limit,          \* status, as abort_for_output_limit left it
    killed,         \* killed_by_signal
    stage,          \* where safe_call is
    result          \* what it returned

vars == <<interactive, isolate, metadata, exitSignal, kept, dropped, limit, killed, stage, result>>

None == "none"

Streams == {"stdout", "stderr"}

LimitStatus == [stdout |-> "OL", stderr |-> "EL"]

KILLED_STATUSES == {"TO", "OL", "EL"}

\* What isolate writes: an exit code, a signal (unknown to signal_for_code
\* perhaps), a time limit or an error of its own.
Verdicts ==
    {[readable |-> TRUE, code |-> "0", signal |-> None, status |-> None],
     [readable |-> TRUE, code |-> "1", signal |-> None, status |-> "RE"],
     [readable |-> TRUE, code |-> None, signal |-> None, status |-> "TO"],
     [readable |-> TRUE, code |-> None, signal |-> None, status |-> "XX"]}
    \cup [readable : {TRUE}, code : {None}, signal : Signals \cup {None}, status : {"SG"}]

\* A file that was opened, and whatever of a verdict was written to it: lines
\* that are missing are not missed, and of an empty file the one line there is
\* is skipped.
CutShort ==
    {w \in [readable : {TRUE}, code : {"0", "1", None}, signal : Signals \cup {None},
            status : {None, "RE", "SG", "TO", "XX"}] :
        \E v \in Verdicts : \A f \in {"code", "signal", "status"} : w[f] \in {v[f], None}}

\* The file is missing, or has a line that does not parse.
NoVerdict == [readable |-> FALSE, code |-> None, signal |-> None, status |-> None]

NoResult == [code |-> None, signal |-> None, status |-> None]

Init ==
    /\ interactive \in BOOLEAN
    /\ isolate = "starting"
    /\ metadata = NoVerdict
    /\ exitSignal = None
    /\ kept = [s \in Streams |-> 0]
    /\ dropped = [s \in Streams |-> FALSE]
    /\ limit = None
    /\ killed = None
    /\ stage = "waiting"
    /\ result = NoResult

-----------------------------------------------------------------------------
Spawned ==
    /\ isolate = "starting"
    /\ isolate' = "running"
    /\ UNCHANGED <<interactive, metadata, exitSignal, kept, dropped, limit, killed, stage, result>>

\* The 'error' event: the promise rejects and safe_call throws.
SpawnFails ==
    /\ isolate = "starting"
    /\ isolate' = "waited"
    /\ stage' = "thrown"
    /\ UNCHANGED <<interactive, metadata, exitSignal, kept, dropped, limit, killed, result>>

\* Output may arrive until safe_call returns, after the 'exit' event too.
Listening == ~interactive /\ isolate # "starting" /\ stage \in {"waiting", "reading"}

\* Altered: the arriving chunk is measured in characters after the check.
FitsBeforeAppend(s, c) == kept[s] <= OutputMax

Fits(s, c) == kept[s] + c.bytes <= OutputMax

Keep(s, c) ==
    /\ Listening
    /\ Fits(s, c)
    /\ kept' = [kept EXCEPT ![s] = @ + c.chars]
    /\ UNCHANGED <<interactive, isolate, metadata, exitSignal, dropped, limit, killed, stage, result>>

\* abort_for_output_limit.  isolate answers the SIGABRT by ending in its own
\* time, in any way an end can be reported.
AbortForOutputLimit(s, c) ==
    /\ Listening
    /\ ~Fits(s, c)
    /\ dropped' = [dropped EXCEPT ![s] = TRUE]
    /\ limit' = LimitStatus[s]
    /\ UNCHANGED <<interactive, isolate, metadata, exitSignal, kept, killed, stage, result>>

\* signal_handler: stop signals are ignored, unnamed ones make proc.kill throw,
\* and a process not yet waited for accepts any other, dead or not.  One that
\* isolate cannot catch leaves it no time to write.
Signal(sig) ==
    /\ interactive /\ isolate \in {"running", "dead"}
    /\ sig \notin StopSignals \cup Unnamed
    /\ killed' = sig
    /\ IF sig \in Uncaught /\ isolate = "running"
         THEN isolate' = "dead" /\ exitSignal' = sig /\ metadata' \in CutShort \cup {NoVerdict}
         ELSE UNCHANGED <<isolate, exitSignal, metadata>>
    /\ UNCHANGED <<interactive, kept, dropped, limit, stage, result>>

\* isolate reports how the program ended and exits, perhaps because it was
\* signalled; or it could not write all of that, or what it wrote does not parse.
IsolateExits ==
    /\ isolate = "running"
    /\ isolate' = "dead"
    /\ metadata' \in Verdicts \cup CutShort \cup {NoVerdict}
    /\ UNCHANGED <<interactive, exitSignal, kept, dropped, limit, killed, stage, result>>

\* The host takes isolate out, for want of memory.
HostKills ==
    /\ isolate = "running"
    /\ isolate' = "dead"
    /\ exitSignal' = "SIGKILL"
    /\ metadata' \in CutShort \cup {NoVerdict}
    /\ UNCHANGED <<interactive, kept, dropped, limit, killed, stage, result>>

\* The 'exit' event: the handlers leave the bus and the metadata is read.
Exit ==
    /\ isolate = "dead"
    /\ isolate' = "waited"
    /\ stage' = "reading"
    /\ UNCHANGED <<interactive, metadata, exitSignal, kept, dropped, limit, killed, result>>

-----------------------------------------------------------------------------
\* Altered: what isolate says of itself replaces what is known.
StatusOfMetadata == IF metadata.status # None THEN metadata.status ELSE limit

\* status || value
Status == IF limit # None THEN limit ELSE metadata.status

\* Altered: a signal that was sent is taken for the one the program died of.
SignalledAlways(r) ==
    IF killed = None THEN r
    ELSE [r EXCEPT !.signal = IF exitSignal # None THEN exitSignal ELSE killed,
                   !.status = IF r.status = None THEN "SG" ELSE r.status]

\* Altered: nothing is filled in for a client's signal.
SignalledNever(r) == r

\* A client's signal explains an end that nothing else does.
Signalled(r) ==
    IF killed = None \/ r.code # None \/ r.signal # None THEN r
    ELSE [r EXCEPT !.signal = IF exitSignal # None THEN exitSignal ELSE killed,
                   !.status = IF r.status = None THEN "SG" ELSE r.status]

Killed(r) ==
    IF r.status \in KILLED_STATUSES THEN [r EXCEPT !.signal = "SIGKILL"] ELSE r

Report ==
    Killed(Signalled([code |-> metadata.code, signal |-> metadata.signal, status |-> Status]))

\* Altered: a missing file is let pass whoever killed isolate.
ReturnWithoutFile ==
    /\ stage = "reading"
    /\ stage' = "returned"
    /\ result' = Report
    /\ UNCHANGED <<interactive, isolate, metadata, exitSignal, kept, dropped, limit, killed>>

\* The metadata was read, or is missed and a client's signal accounts for it.
Return ==
    /\ stage = "reading"
    /\ metadata.readable \/ killed # None
    /\ stage' = "returned"
    /\ result' = Report
    /\ UNCHANGED <<interactive, isolate, metadata, exitSignal, kept, dropped, limit, killed>>

\* "Error reading metadata file".
Throw ==
    /\ stage = "reading"
    /\ ~metadata.readable /\ killed = None
    /\ stage' = "thrown"
    /\ UNCHANGED <<interactive, isolate, metadata, exitSignal, kept, dropped, limit, killed, result>>

Next ==
    \/ Spawned
    \/ SpawnFails
    \/ \E s \in Streams, c \in Chunks : Keep(s, c) \/ AbortForOutputLimit(s, c)
    \/ \E sig \in Signals : Signal(sig)
    \/ IsolateExits
    \/ HostKills
    \/ Exit
    \/ Return
    \/ Throw

Spec == Init /\ [][Next]_vars

-----------------------------------------------------------------------------
Results ==
    [code : {"0", "1", None}, signal : Signals \cup {None},
     status : {None, "RE", "SG", "TO", "XX", "OL", "EL"}]

\* Every variable has its type; the result is one a client may be sent.
TypeOK ==
    /\ interactive \in BOOLEAN
    /\ isolate \in {"starting", "running", "dead", "waited"}
    /\ metadata \in Verdicts \cup CutShort \cup {NoVerdict}
    /\ exitSignal \in Uncaught \cup {None}
    /\ kept \in [Streams -> Nat]
    /\ dropped \in [Streams -> BOOLEAN]
    /\ limit \in {None, "OL", "EL"}
    /\ killed \in Signals \cup {None}
    /\ stage \in {"waiting", "reading", "returned", "thrown"}
    /\ result \in Results

\* A stage cannot make the server hold more output than the limit, however it
\* is cut into chunks and whatever its characters weigh (job.ts:401-426).
BoundedCapture == \A s \in Streams : kept[s] <= OutputMax

\* Output that was refused decides the verdict, whatever isolate made of the
\* SIGABRT: the status names a stream that did exceed and the signal is
\* SIGKILL.  A stage whose output fitted is never charged with too much
\* (job.ts:342-361, 469-471, 518-521).
LimitVerdictStands ==
    /\ stage = "returned" /\ (\E s \in Streams : dropped[s]) =>
         /\ \E s \in Streams : dropped[s] /\ result.status = LimitStatus[s]
         /\ result.signal = "SIGKILL"
    /\ \A s \in Streams : result.status = LimitStatus[s] => dropped[s]

\* A stage of which isolate recorded no exit code is never reported to have one.
\* When there is no file that parses it is an error, unless the client signalled
\* it, and then a signal is reported.  A stage is reported to have ended without
\* a code, a signal or a status in one case only: a file was there, it said none
\* of the three, and no signal and no output limit can account for the end
\* (job.ts:443-512).
LostVerdictIsNoSuccess ==
    /\ stage = "thrown" => ~metadata.readable
    /\ stage = "returned" /\ metadata.code = None => result.code = None
    /\ stage = "returned" /\ ~metadata.readable => killed # None /\ result.signal # None
    /\ stage = "returned" /\ result = NoResult =>
         metadata.readable /\ metadata.signal = None /\ killed = None /\ limit = None

\* "Exit code from run process, or null if signal is not null", and the signal
\* null if the code is not (docs/api-v2.md:104-105): what the code does of this.
\* An exit code that was recorded is reported as it is, whatever signals the
\* program survived or came after its end.  A signal stands beside it exactly if
\* an output limit was exceeded.  Neither is there exactly if isolate recorded
\* neither, no signal was sent and the status is not that of a limit
\* (job.ts:373-387, 469-471, 496-518).
CodeOrSignal ==
    stage = "returned" =>
        /\ result.code = metadata.code
        /\ result.code # None /\ result.signal # None <=> metadata.code # None /\ limit # None
        /\ result.code = None /\ result.signal = None <=>
             /\ metadata.code = None /\ metadata.signal = None
             /\ killed = None /\ limit = None /\ metadata.status # "TO"

-----------------------------------------------------------------------------
(* What the job sees of all this *)

SeenProc ==
    IF isolate = "running" THEN "alive" ELSE IF isolate = "waited" THEN "none" ELSE isolate

ExitCode(code) == IF code = "0" THEN "zero" ELSE IF code = "1" THEN "nonzero" ELSE "null"

SeenMeta == IF metadata.readable THEN ExitCode(metadata.code) ELSE "absent"

\* A signal counts once isolate is dead and has recorded no exit code: before,
\* and with one, the program may have survived it.
SeenKilled ==
    /\ killed # None /\ isolate \in {"dead", "waited"} /\ metadata.code = None
    /\ stage # "returned"

SeenVerdict ==
    IF stage = "thrown" THEN "error"
    ELSE IF stage = "returned" THEN ExitCode(result.code)
    ELSE "none"

Seen == INSTANCE Stage WITH
    proc <- SeenProc, meta <- SeenMeta, killed <- SeenKilled, verdict <- SeenVerdict

\* Whatever safe_call looks at, a stage is to the job what Stage says: a process
\* that ends with an exit code or none, and a verdict that is the exit code that
\* was recorded, none for one a signal took, or an error when nothing accounts
\* for nothing being recorded (job.ts:326-525).  Sessions rests on this.
SeenAsStage == Seen!Spec
=============================================================================
