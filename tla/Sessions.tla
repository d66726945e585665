------------------------------ MODULE Sessions ------------------------------
(***************************************************************************)
(* The life of a job over both transports: POST /api/v2/execute and the    *)
(* WebSocket at /api/v2/connect (src/api/src/api/v2.ts), around the Job    *)
(* class (src/api/src/job.ts) and the job slots (module JobSlots).         *)
(*                                                                         *)
(* One action is what the program does between two waits: an event handler *)
(* with the microtasks it leads to.  The code after every await belongs to *)
(* the action of the event that ends the wait.  Waking a parked job is the *)
(* exception (JobSlots' Resume): it is a microtask of its own, and no      *)
(* event handler starts before it ran (MicrotasksDrained).                 *)
(*                                                                         *)
(* A request or a socket brings at most one job, so jobs are named after   *)
(* the request or socket.  What a box is on disk is module Boxes; what a   *)
(* stage reports is module StageResult.  Here a stage ends with one of the *)
(* three exit codes the control flow tells apart.                          *)
(***************************************************************************)
EXTENDS Integers, Sequences, FiniteSets

CONSTANTS
    Requests,   \* POST /api/v2/execute requests
    Sockets,    \* WebSocket connections to /api/v2/connect
    Compiled,   \* the jobs whose runtime has a compile stage
    Unlimited,  \* the stages, as <<job, stage>>, that have no wall-time limit
    Capacity    \* config.max_concurrent_jobs

Jobs == Requests \cup Sockets

ASSUME SessionsAssumption ==
    /\ Requests \cap Sockets = {}
    /\ Compiled \subseteq Jobs
    /\ Unlimited \subseteq Jobs \X {"compile", "run"}
    /\ Capacity \in Nat \ {0}

VARIABLES
    available, waiting, woken, held,    \* the job slots
    pc,         \* what each job waits for
    stage,      \* the stage a job is in or was in last
    proc,       \* the isolate process of that stage
    meta,       \* what its metadata file says of the exit code
    killed,     \* killed_by_signal # null
    listening,  \* stages whose stdin and signal handlers are on the bus
    outcome,    \* whether prime and execute returned or threw
    answer,     \* the HTTP status sent
    sock,       \* the state of each connection
    timer,      \* whether the one-second init timer is armed
    closeCode,  \* the code the connection was closed with, 0 for none
    frames,     \* what the client was sent, in order
    cut         \* history: stages whose process a signal took down before
                \* it wrote its metadata

slotVars   == <<available, waiting, woken, held>>
stageVars  == <<stage, proc, meta, killed, listening, cut>>
socketVars == <<sock, timer, closeCode, frames>>
vars       == <<slotVars, pc, stageVars, outcome, answer, socketVars>>

Slots == INSTANCE JobSlots WITH Callers <- Jobs

Drained == Slots!MicrotasksDrained

\* The job's pc; "idle" is state.job === null for a socket.
PCs == {"idle", "acquiring", "initBox", "writeFiles", "stage", "readMeta",
        "initBox2", "moveFiles", "cleanup", "settled"}

HoldsSlot(p) == p \in PCs \ {"idle", "acquiring", "cleanup", "settled"}

ExitCodes == {"zero", "nonzero", "null"}

Init ==
    /\ Slots!SlotsInit
    /\ pc = [j \in Jobs |-> "idle"]
    /\ stage = [j \in Jobs |-> "none"]
    /\ proc = [j \in Jobs |-> "none"]
    /\ meta = [j \in Jobs |-> "absent"]
    /\ killed = [j \in Jobs |-> FALSE]
    /\ listening = [j \in Jobs |-> {}]
    /\ cut = [j \in Jobs |-> {}]
    /\ outcome = [j \in Jobs |-> "none"]
    /\ answer = [r \in Requests |-> 0]
    /\ sock = [s \in Sockets |-> "connecting"]
    /\ timer = [s \in Sockets |-> FALSE]
    /\ closeCode = [s \in Sockets |-> 0]
    /\ frames = [s \in Sockets |-> <<>>]

-----------------------------------------------------------------------------
(* What the server does to a connection.                                   *)

Frame(type, what) == <<type, what>>

\* send(): a frame for a connection that is no longer open goes nowhere.
Sent(j, fs) ==
    IF j \in Sockets /\ sock[j] = "open"
    THEN [frames EXCEPT ![j] = @ \o fs]
    ELSE frames

Send(j, fs) == frames' = Sent(j, fs)

\* close(): without effect on a connection that is closing or closed.
Close(s, code) ==
    /\ sock' = [sock EXCEPT ![s] = IF @ = "open" THEN "closing" ELSE @]
    /\ closeCode' = [closeCode EXCEPT ![s] = IF sock[s] = "open" THEN code ELSE @]

\* The catch of websocket_handlers.message.
NotifyError(s) ==
    /\ Send(s, <<Frame("error", "message")>>)
    /\ Close(s, 4002)

-----------------------------------------------------------------------------
(* Priming: a slot, a box, the submission's files.                         *)

\* The head of prime(): runs at once up to the wait for a slot or for isolate.
BeginPrime(j) ==
    /\ Slots!Acquire(j)
    /\ pc' = [pc EXCEPT ![j] = IF available < 1 THEN "acquiring" ELSE "initBox"]

\* The continuation of acquire() and, in the same microtasks, isolate --init.
Woken(j) ==
    /\ Slots!Resume(j)
    /\ pc' = [pc EXCEPT ![j] = "initBox"]
    /\ UNCHANGED <<stageVars, outcome, answer, socketVars>>

\* finally { job.cleanup() }: the slot is released before anything is awaited.
BeginCleanup(j, how) ==
    /\ outcome' = [outcome EXCEPT ![j] = how]
    /\ Slots!Release(j)
    /\ pc' = [pc EXCEPT ![j] = "cleanup"]

\* Altered: cleanup() is skipped when a step throws.
ThrowWithoutRelease(j) ==
    /\ outcome' = [outcome EXCEPT ![j] = "error"]
    /\ pc' = [pc EXCEPT ![j] = "cleanup"]
    /\ UNCHANGED <<slotVars, answer, socketVars>>

\* A step of prime() or execute() throws.
Throw(j) ==
    /\ BeginCleanup(j, "error")
    /\ UNCHANGED <<answer, socketVars>>

BoxReady(j) ==
    /\ Drained /\ pc[j] = "initBox"
    /\ pc' = [pc EXCEPT ![j] = "writeFiles"]
    /\ UNCHANGED <<slotVars, stageVars, outcome, answer, socketVars>>

\* isolate --init fails, a file cannot be written or escapes the submission
\* directory, a second box fails, the submission cannot be moved.
PrimeFails(j) ==
    /\ Drained /\ pc[j] \in {"initBox", "writeFiles", "initBox2", "moveFiles"}
    /\ Throw(j)
    /\ UNCHANGED stageVars

\* Altered: the handlers are put on the bus for the first stage only.
StartStageFirstListens(j, st) ==
    /\ pc' = [pc EXCEPT ![j] = "stage"]
    /\ stage' = [stage EXCEPT ![j] = st]
    /\ \E p \in {"alive", "unspawned"} : proc' = [proc EXCEPT ![j] = p]
    /\ meta' = [meta EXCEPT ![j] = "absent"]
    /\ killed' = [killed EXCEPT ![j] = FALSE]
    /\ listening' = IF j \in Sockets /\ stage[j] = "none"
                    THEN [listening EXCEPT ![j] = @ \cup {st}] ELSE listening
    /\ UNCHANGED cut

\* report.stage_started and the synchronous head of safe_call.
StartStage(j, st) ==
    /\ pc' = [pc EXCEPT ![j] = "stage"]
    /\ stage' = [stage EXCEPT ![j] = st]
    /\ \E p \in {"alive", "unspawned"} : proc' = [proc EXCEPT ![j] = p]
    /\ meta' = [meta EXCEPT ![j] = "absent"]
    /\ killed' = [killed EXCEPT ![j] = FALSE]
    /\ listening' = IF j \in Sockets
                    THEN [listening EXCEPT ![j] = @ \cup {st}] ELSE listening
    /\ UNCHANGED cut

FirstStage(j) == IF j \in Compiled THEN "compile" ELSE "run"

\* The last file is written: prime() returns, the runtime frame is sent and
\* execute() starts its first stage.
FilesWritten(j) ==
    /\ Drained /\ pc[j] = "writeFiles"
    /\ StartStage(j, FirstStage(j))
    /\ Send(j, <<Frame("runtime", "info"), Frame("stage", FirstStage(j))>>)
    /\ UNCHANGED <<slotVars, outcome, answer, sock, timer, closeCode>>

\* The same, for a submission without a code file: execute() throws.
NoCodeFile(j) ==
    /\ Drained /\ pc[j] = "writeFiles"
    /\ Send(j, <<Frame("runtime", "info")>>)
    /\ BeginCleanup(j, "error")
    /\ UNCHANGED <<stageVars, answer, sock, timer, closeCode>>

-----------------------------------------------------------------------------
(* A stage: safe_call.                                                     *)

\* The isolate process ends by itself: the program exits, or isolate stops it
\* at a limit.  isolate may fail before it writes its metadata.
ProcEnds(j) ==
    /\ proc[j] = "alive"
    /\ proc' = [proc EXCEPT ![j] = "dead"]
    /\ \E m \in ExitCodes \cup {"absent"} : meta' = [meta EXCEPT ![j] = m]
    /\ UNCHANGED <<slotVars, pc, stage, killed, listening, cut, outcome, answer, socketVars>>

\* proc.kill() of a handler on the bus: true for a process not yet reaped.
\* m is what the metadata says afterwards: isolate records a signal it can
\* catch ("null": a signal and no exit code), and cannot record SIGKILL.
KillStage(s, m) ==
    IF listening[s] # {} /\ proc[s] = "alive"
    THEN /\ killed' = [killed EXCEPT ![s] = TRUE]
         /\ proc' = [proc EXCEPT ![s] = "dead"]
         /\ meta' = [meta EXCEPT ![s] = m]
         /\ cut' = [cut EXCEPT ![s] = IF m = "absent" THEN @ \cup {stage[s]} ELSE @]
         /\ UNCHANGED <<stage, listening>>
    ELSE /\ killed' = [killed EXCEPT ![s] =
                          @ \/ (listening[s] # {} /\ proc[s] = "dead")]
         /\ UNCHANGED <<stage, proc, meta, listening, cut>>

\* The process could not be spawned: 'error' instead of 'exit'.
SpawnError(j) ==
    /\ Drained /\ pc[j] = "stage" /\ proc[j] = "unspawned"
    /\ proc' = [proc EXCEPT ![j] = "none"]
    /\ listening' = [listening EXCEPT ![j] = @ \ {stage[j]}]
    /\ Throw(j)
    /\ UNCHANGED <<stage, meta, killed, cut>>

\* 'exit': the handlers leave the bus and the metadata is read.
ExitEvent(j) ==
    /\ Drained /\ pc[j] = "stage" /\ proc[j] = "dead"
    /\ proc' = [proc EXCEPT ![j] = "none"]
    /\ listening' = [listening EXCEPT ![j] = @ \ {stage[j]}]
    /\ pc' = [pc EXCEPT ![j] = "readMeta"]
    /\ UNCHANGED <<slotVars, stage, meta, killed, cut, outcome, answer, socketVars>>

\* What safe_call makes of the metadata.  A missing file is an error unless a
\* signal explains it, and then there is no exit code.
MetaUsable(j) == meta[j] # "absent" \/ killed[j]

ExitCode(j) == IF meta[j] = "absent" THEN "null" ELSE meta[j]

\* Altered: a missing exit code counts as success.
CompileErroredIfCode(j) == ExitCode(j) = "nonzero"

CompileErrored(j) == ExitCode(j) # "zero"

MetaMissing(j) ==
    /\ Drained /\ pc[j] = "readMeta" /\ ~MetaUsable(j)
    /\ Throw(j)
    /\ UNCHANGED stageVars

\* The stage is over: its exit frame is sent, safe_call's locals are gone, and
\* execute() goes on to the second box, or is done.
StageFinished(j) ==
    /\ Drained /\ pc[j] = "readMeta" /\ MetaUsable(j)
    /\ Send(j, <<Frame("exit", stage[j])>>)
    /\ IF stage[j] = "compile" /\ ~CompileErrored(j)
       THEN /\ pc' = [pc EXCEPT ![j] = "initBox2"]
            /\ UNCHANGED <<slotVars, outcome>>
       ELSE BeginCleanup(j, "ok")
    /\ killed' = [killed EXCEPT ![j] = FALSE]
    /\ UNCHANGED <<stage, proc, meta, listening, cut, answer, sock, timer, closeCode>>

SecondBoxReady(j) ==
    /\ Drained /\ pc[j] = "initBox2"
    /\ pc' = [pc EXCEPT ![j] = "moveFiles"]
    /\ UNCHANGED <<slotVars, stageVars, outcome, answer, socketVars>>

\* Altered: the run stage is not announced.
FilesMovedSilently(j) ==
    /\ Drained /\ pc[j] = "moveFiles"
    /\ StartStage(j, "run")
    /\ UNCHANGED <<slotVars, outcome, answer, socketVars>>

FilesMoved(j) ==
    /\ Drained /\ pc[j] = "moveFiles"
    /\ StartStage(j, "run")
    /\ Send(j, <<Frame("stage", "run")>>)
    /\ UNCHANGED <<slotVars, outcome, answer, sock, timer, closeCode>>

-----------------------------------------------------------------------------
(* The end of cleanup(): the answer.  A cleanup that throws replaces the   *)
(* outcome.                                                                *)

\* Altered: a completed job leaves its socket open.
SettleLeavesOpen(j, ok) ==
    /\ Drained /\ pc[j] = "cleanup"
    /\ pc' = [pc EXCEPT ![j] = "settled"]
    /\ IF j \in Requests
       THEN /\ answer' = [answer EXCEPT ![j] = IF ok THEN 200 ELSE 500]
            /\ UNCHANGED <<sock, closeCode, frames>>
       ELSE /\ IF ok THEN UNCHANGED <<sock, closeCode, frames>> ELSE NotifyError(j)
            /\ UNCHANGED answer
    /\ UNCHANGED <<slotVars, stageVars, outcome, timer>>

Settle(j, ok) ==
    /\ Drained /\ pc[j] = "cleanup"
    /\ pc' = [pc EXCEPT ![j] = "settled"]
    /\ IF j \in Requests
       THEN /\ answer' = [answer EXCEPT ![j] = IF ok THEN 200 ELSE 500]
            /\ UNCHANGED <<sock, closeCode, frames>>
       ELSE /\ IF ok THEN Close(j, 4999) /\ UNCHANGED frames ELSE NotifyError(j)
            /\ UNCHANGED answer
    /\ UNCHANGED <<slotVars, stageVars, outcome, timer>>

CleanupDone(j)   == Settle(j, outcome[j] = "ok")
CleanupThrows(j) == Settle(j, FALSE)

-----------------------------------------------------------------------------
(* What clients do.                                                        *)

\* handle_execute: get_job rejects the body, or the job is primed.
Execute(r) ==
    /\ Drained /\ pc[r] = "idle" /\ answer[r] = 0
    /\ \/ /\ answer' = [answer EXCEPT ![r] = 400]
          /\ UNCHANGED <<slotVars, pc>>
       \/ BeginPrime(r) /\ UNCHANGED answer
    /\ UNCHANGED <<stageVars, outcome, socketVars>>

Open(s) ==
    /\ Drained /\ sock[s] = "connecting"
    /\ sock' = [sock EXCEPT ![s] = "open"]
    /\ timer' = [timer EXCEPT ![s] = TRUE]
    /\ UNCHANGED <<slotVars, pc, stageVars, outcome, answer, closeCode, frames>>

\* Altered: the job is not looked at.
InitTimerUnchecked(s) ==
    /\ Drained /\ timer[s]
    /\ timer' = [timer EXCEPT ![s] = FALSE]
    /\ Close(s, 4001)
    /\ UNCHANGED <<slotVars, pc, stageVars, outcome, answer, frames>>

\* The one-second timer: it closes the socket unless a job was set.
InitTimer(s) ==
    /\ Drained /\ timer[s]
    /\ timer' = [timer EXCEPT ![s] = FALSE]
    /\ IF pc[s] = "idle" THEN Close(s, 4001) ELSE UNCHANGED <<sock, closeCode>>
    /\ UNCHANGED <<slotVars, pc, stageVars, outcome, answer, frames>>

Delivered(s) == Drained /\ sock[s] = "open"

\* A frame that is not JSON, or an init that get_job rejects.
BadMessage(s) ==
    /\ Delivered(s)
    /\ NotifyError(s)
    /\ UNCHANGED <<slotVars, pc, stageVars, outcome, answer, timer>>

\* Altered: state.job is set once prime() has a slot, not before.
InitMessageLateJob(s) ==
    /\ Delivered(s)
    /\ IF pc[s] \in {"idle", "acquiring"}
       THEN BeginPrime(s) /\ UNCHANGED <<sock, closeCode>>
       ELSE Close(s, 4000) /\ UNCHANGED <<slotVars, pc>>
    /\ UNCHANGED <<stageVars, outcome, answer, timer, frames>>

InitMessage(s) ==
    /\ Delivered(s)
    /\ IF pc[s] = "idle"
       THEN BeginPrime(s) /\ UNCHANGED <<sock, closeCode>>
       ELSE Close(s, 4000) /\ UNCHANGED <<slotVars, pc>>
    /\ UNCHANGED <<stageVars, outcome, answer, timer, frames>>

\* A chunk for a stream that is not stdin.  (One for stdin changes nothing
\* here: it reaches the stage that listens, or no one.)
DataMessage(s) ==
    /\ Delivered(s)
    /\ Close(s, IF pc[s] = "idle" THEN 4003 ELSE 4004)
    /\ UNCHANGED <<slotVars, pc, stageVars, outcome, answer, timer, frames>>

\* A signal with a known name that ends isolate.  (The stop signals are
\* dropped, and a signal that leaves isolate running changes nothing here.)
SignalMessage(s) ==
    /\ Delivered(s) /\ pc[s] # "idle"
    /\ \E m \in {"absent", "null"} : KillStage(s, m)
    /\ UNCHANGED <<slotVars, pc, outcome, answer, socketVars>>

BadSignal(s) ==
    /\ Delivered(s)
    /\ Close(s, IF pc[s] = "idle" THEN 4003 ELSE 4005)
    /\ UNCHANGED <<slotVars, pc, stageVars, outcome, answer, timer, frames>>

\* websocket_handlers.close, after the server closed or the client left:
\* SIGKILL goes to the handlers on the bus, if any.
CloseEvent(s) ==
    /\ Drained /\ sock[s] \in {"open", "closing"}
    /\ sock' = [sock EXCEPT ![s] = "closed"]
    /\ timer' = [timer EXCEPT ![s] = FALSE]
    /\ KillStage(s, "absent")
    /\ UNCHANGED <<slotVars, pc, outcome, answer, closeCode, frames>>

-----------------------------------------------------------------------------
JobStep(j) ==
    \/ Woken(j)
    \/ BoxReady(j) \/ PrimeFails(j) \/ FilesWritten(j) \/ NoCodeFile(j)
    \/ SpawnError(j) \/ ExitEvent(j) \/ MetaMissing(j) \/ StageFinished(j)
    \/ SecondBoxReady(j) \/ FilesMoved(j)
    \/ CleanupDone(j) \/ CleanupThrows(j)

ClientStep(s) ==
    \/ Open(s) \/ BadMessage(s) \/ InitMessage(s) \/ DataMessage(s)
    \/ SignalMessage(s) \/ BadSignal(s)

Next ==
    \/ \E j \in Jobs : JobStep(j) \/ ProcEnds(j)
    \/ \E r \in Requests : Execute(r)
    \/ \E s \in Sockets : ClientStep(s) \/ InitTimer(s) \/ CloseEvent(s)

Spec == Init /\ [][Next]_vars

(* A program nobody makes end: it runs in a stage without a wall-time      *)
(* limit.  A request gets one by asking for a timeout of zero, which       *)
(* get_job lets pass and isolate takes for none (v2.ts:140, 161-164,       *)
(* job.ts:288); so does every stage whose limit is configured to zero.     *)
Endless(j) == proc[j] = "alive" /\ <<j, stage[j]>> \in Unlimited

(* The runtime delivers every event it owes: continuations, timers, the    *)
(* close of a socket the server closed.  isolate ends every stage that has *)
(* a wall-time limit, by that limit if need be.  Clients owe nothing, and  *)
(* neither do programs.                                                    *)
Fairness ==
    /\ \A j \in Jobs : WF_vars(JobStep(j)) /\ WF_vars(~Endless(j) /\ ProcEnds(j))
    /\ \A s \in Sockets :
          WF_vars(InitTimer(s)) /\ WF_vars(sock[s] = "closing" /\ CloseEvent(s))

FairSpec == Spec /\ Fairness

-----------------------------------------------------------------------------
TypeOK ==
    /\ Slots!SlotsTypeOK
    /\ pc \in [Jobs -> PCs]
    /\ stage \in [Jobs -> {"none", "compile", "run"}]
    /\ proc \in [Jobs -> {"none", "unspawned", "alive", "dead"}]
    /\ meta \in [Jobs -> ExitCodes \cup {"absent"}]
    /\ killed \in [Jobs -> BOOLEAN]
    /\ listening \in [Jobs -> SUBSET {"compile", "run"}]
    /\ cut \in [Jobs -> SUBSET {"compile", "run"}]
    /\ outcome \in [Jobs -> {"none", "ok", "error"}]
    /\ answer \in [Requests -> {0, 200, 400, 500}]
    /\ sock \in [Sockets -> {"connecting", "open", "closing", "closed"}]
    /\ timer \in [Sockets -> BOOLEAN]
    /\ closeCode \in [Sockets -> {0} \cup 4000..4005 \cup {4999}]
    /\ frames \in [Sockets -> Seq({"runtime", "stage", "exit", "error"}
                                \X {"info", "message", "compile", "run"})]

(* Acquire and release are exactly paired (job_slots.ts:10-11) although    *)
(* release() is called without looking: on every path through prime,       *)
(* execute and cleanup the jobs use the slots the way JobSlots requires.   *)
SlotsPaired == Slots!SlotsSpec

(* The slots held are those of the jobs between prime and cleanup, and a   *)
(* job whose answer is out holds none (v2.ts:213-220, 564-568).            *)
SlotsHeldByJobs ==
    /\ held = {j \in Jobs : HoldsSlot(pc[j])}
    /\ available = Capacity - Cardinality(held)
    /\ \A r \in Requests : answer[r] # 0 => r \notin held
    /\ \A s \in Sockets : closeCode[s] = 4999 => s \notin held

(* The client sees a prefix of one conversation: the runtime, then each    *)
(* stage opened and closed in turn, with at most one error, last           *)
(* (protocol.ts:79-90).                                                    *)
Conversation(s) ==
    <<Frame("runtime", "info")>>
    \o (IF s \in Compiled THEN <<Frame("stage", "compile"), Frame("exit", "compile")>>
                          ELSE <<>>)
    \o <<Frame("stage", "run"), Frame("exit", "run")>>

LegalConversation ==
    \A s \in Sockets : \E n \in 0..Len(Conversation(s)) :
        LET said == SubSeq(Conversation(s), 1, n)
        IN \/ frames[s] = said
           \/ frames[s] = Append(said, Frame("error", "message")) /\ closeCode[s] = 4002

(* A close code tells what happened to the job: none was ever started      *)
(* (4001, 4003), one was (4000, 4004, 4005), it ended and its last stage   *)
(* was reported (4999), an error frame preceded (4002) (protocol.ts:94-105).*)
CloseCodesTellTheTruth ==
    \A s \in Sockets :
        /\ closeCode[s] \in {4001, 4003} => pc[s] = "idle"
        /\ closeCode[s] \in {4000, 4004, 4005} => pc[s] # "idle"
        /\ closeCode[s] = 4002 => frames[s][Len(frames[s])] = Frame("error", "message")
        /\ closeCode[s] = 4999 =>
              /\ outcome[s] = "ok"
              /\ frames[s][Len(frames[s])] = Frame("exit", stage[s])
              /\ stage[s] = "compile" => CompileErrored(s)

(* A job whose compiler was taken down by a signal before it recorded      *)
(* anything never gets to its run stage, although code is null and not a   *)
(* failing exit code (job.ts:482-494, 571).                                *)
KilledCompileIsTheEnd ==
    \A s \in Sockets : "compile" \in cut[s] => stage[s] = "compile"

(* A stage that is running when its socket closes is killed (v2.ts:613-616,*)
(* typed_emitter.ts:4-7), in either stage.                                 *)
CloseKillsRunningStage ==
    [][\A s \in Sockets :
          sock'[s] = "closed" /\ sock[s] # "closed" /\ pc[s] = "stage"
            => proc'[s] # "alive"]_vars

(* The job runs in a stage without a limit, or is parked and such stages   *)
(* have all the slots there are.                                           *)
Stuck(j) ==
    \/ Endless(j)
    \/ /\ pc[j] = "acquiring"
       /\ Cardinality(held) = Capacity /\ \A i \in held : Endless(i)

(* Every job that starts is answered and has given its slot back, so a     *)
(* parked job is never forgotten (job_slots.ts:4-6,                        *)
(* slot_release.test.ts:118).  The exceptions are the jobs whose requests  *)
(* did without a limit, as long as their programs run, and those parked    *)
(* while every slot is such a job's: one and the same stage or slots, for  *)
(* good, and not one after the other.                                      *)
JobsSettle ==
    \A j \in Jobs :
        [](pc[j] # "idle" => \/ <>(pc[j] = "settled" /\ j \notin held)
                            \/ <>[]Stuck(j))

(* An open connection does not stay open for ever: the timer or the end of *)
(* its job closes it (v2.ts:521-526, 568, 598), with the same exceptions.  *)
SocketsClose ==
    \A s \in Sockets :
        [](sock[s] = "open" => <>(sock[s] = "closed") \/ <>[]Stuck(s))

(* readme.md:382: "Closing the WebSocket terminates any stage still        *)
(* running, so an abandoned connection releases its sandbox immediately    *)
(* rather than running out its remaining timeout": no program is running   *)
(* for a connection that is closed.                                        *)
AbandonedSandboxReleased ==
    \A s \in Sockets : sock[s] = "closed" => proc[s] # "alive"
=============================================================================
