--------------------------- MODULE Sessions_proofs ---------------------------
(***************************************************************************)
(* Proofs about Sessions, for every set of requests and sockets, every     *)
(* choice of compiled runtimes and every capacity.                         *)
(*                                                                         *)
(* PairingInv  the jobs use the slots the way JobSlots requires, so what   *)
(*             JobSlots_proofs shows of the slots holds of the jobs.       *)
(* HeldInv     the slots held are those of the jobs under way.             *)
(* RunInv      where a job's process, handlers and metadata are.           *)
(* SockInv     why a connection is closed and what was sent on it last.    *)
(* SpeechInv   how much of its conversation a client has been told.        *)
(* AnswerInv   the types of what is answered.                              *)
(* SeenInv     where a job's stage is among the states of Stage.           *)
(* WayInv      what a job under way and an open connection wait for.       *)
(***************************************************************************)
EXTENDS Sessions, SequenceTheorems, FiniteSetTheorems, TLAPS

(* What pairing rests on: a job not started yet is nowhere in the slots,   *)
(* and a job that will call release() holds one.                           *)
IdleAskNothing == \A j \in Jobs : pc[j] = "idle" => ~Slots!Asking(j)
HoldersHold    == \A j \in Jobs : HoldsSlot(pc[j]) => j \in held

PairingInv ==
    /\ pc \in [Jobs -> PCs]
    /\ waiting \in Seq(Jobs)
    /\ woken \in Seq(Jobs)
    /\ IdleAskNothing
    /\ HoldersHold

-----------------------------------------------------------------------------
(* Who is asking after each operation of the slots.                        *)

LEMMA RangeAppend ==
    ASSUME NEW s \in Seq(Jobs), NEW c \in Jobs
    PROVE  Slots!Range(Append(s, c)) = Slots!Range(s) \cup {c}
  <1>1. /\ Append(s, c) \in Seq(Jobs)
        /\ Len(Append(s, c)) = Len(s) + 1
        /\ \A i \in 1..Len(s) : Append(s, c)[i] = s[i]
        /\ Append(s, c)[Len(s) + 1] = c
    BY AppendProperties
  <1>2. /\ DOMAIN s = 1..Len(s) /\ Len(s) \in Nat
        /\ DOMAIN Append(s, c) = 1..Len(s) + 1
    BY <1>1, LenProperties
  <1> QED
    BY <1>1, <1>2 DEF Slots!Range

LEMMA RangeTail ==
    ASSUME NEW s \in Seq(Jobs), s # <<>>
    PROVE  /\ Head(s) \in Jobs /\ Tail(s) \in Seq(Jobs)
           /\ Head(s) \in Slots!Range(s)
           /\ Slots!Range(Tail(s)) \subseteq Slots!Range(s)
  <1>1. /\ Head(s) \in Jobs
        /\ Tail(s) \in Seq(Jobs)
        /\ Len(Tail(s)) = Len(s) - 1
        /\ \A i \in 1..Len(Tail(s)) : Tail(s)[i] = s[i+1]
    BY HeadTailProperties
  <1>2. /\ DOMAIN s = 1..Len(s) /\ Len(s) \in Nat \ {0}
        /\ DOMAIN Tail(s) = 1..Len(Tail(s))
        /\ Head(s) = s[1]
    BY <1>1, LenProperties, EmptySeq
  <1>3. \A i \in 1..Len(Tail(s)) : i + 1 \in 1..Len(s)
    BY <1>1, <1>2
  <1> QED
    BY <1>1, <1>2, <1>3 DEF Slots!Range

LEMMA AcquireAsking ==
    ASSUME PairingInv, NEW j \in Jobs, Slots!Acquire(j)
    PROVE  /\ waiting' \in Seq(Jobs) /\ woken' \in Seq(Jobs)
           /\ \A i \in Jobs : Slots!Asking(i)' => Slots!Asking(i) \/ i = j
           /\ held \subseteq held'
           /\ ~(available < 1) => j \in held'
  <1>1. CASE Slots!AcquireNow(j)
    BY <1>1 DEF PairingInv, Slots!AcquireNow, Slots!Asking
  <1>2. CASE Slots!AcquirePark(j)
    <2>1. waiting' = Append(waiting, j) /\ woken' = woken /\ held' = held /\ available < 1
      BY <1>2 DEF Slots!AcquirePark
    <2>2. Slots!Range(waiting') = Slots!Range(waiting) \cup {j} /\ waiting' \in Seq(Jobs)
      BY <2>1, RangeAppend, AppendProperties DEF PairingInv
    <2> QED
      BY <2>1, <2>2 DEF PairingInv, Slots!Asking
  <1> QED
    BY <1>1, <1>2 DEF Slots!Acquire

LEMMA ResumeAsking ==
    ASSUME PairingInv, NEW j \in Jobs, Slots!Resume(j)
    PROVE  /\ waiting' \in Seq(Jobs) /\ woken' \in Seq(Jobs)
           /\ \A i \in Jobs : Slots!Asking(i)' => Slots!Asking(i)
           /\ held' = held \cup {j}
  <1>1. /\ woken # <<>> /\ woken \in Seq(Jobs) /\ waiting \in Seq(Jobs)
        /\ j = Head(woken) /\ woken' = Tail(woken)
        /\ waiting' = waiting /\ held' = held \cup {j}
    BY DEF PairingInv, Slots!Resume
  <1>2. /\ woken' \in Seq(Jobs)
        /\ j \in Slots!Range(woken)
        /\ Slots!Range(woken') \subseteq Slots!Range(woken)
    BY <1>1, RangeTail
  <1> QED
    BY <1>1, <1>2 DEF Slots!Asking

LEMMA ReleaseAsking ==
    ASSUME PairingInv, NEW j \in Jobs, Slots!Release(j)
    PROVE  /\ waiting' \in Seq(Jobs) /\ woken' \in Seq(Jobs)
           /\ \A i \in Jobs : Slots!Asking(i)' => Slots!Asking(i)
           /\ held' = held \ {j}
  <1>1. CASE waiting = <<>>
    BY <1>1 DEF PairingInv, Slots!Release, Slots!Asking
  <1>2. CASE waiting # <<>>
    <2>1. /\ waiting \in Seq(Jobs) /\ woken \in Seq(Jobs)
          /\ waiting' = Tail(waiting)
          /\ woken' = Append(woken, Head(waiting))
          /\ held' = held \ {j}
      BY <1>2 DEF PairingInv, Slots!Release
    <2>2. /\ waiting' \in Seq(Jobs)
          /\ Head(waiting) \in Jobs
          /\ Head(waiting) \in Slots!Range(waiting)
          /\ Slots!Range(waiting') \subseteq Slots!Range(waiting)
      BY <1>2, <2>1, RangeTail
    <2>3. /\ Slots!Range(woken') = Slots!Range(woken) \cup {Head(waiting)}
          /\ woken' \in Seq(Jobs)
      BY <2>1, <2>2, RangeAppend, AppendProperties
    <2> QED
      BY <2>1, <2>2, <2>3 DEF Slots!Asking
  <1> QED
    BY <1>1, <1>2

-----------------------------------------------------------------------------
(* The three ways a step of a job touches the slots.                       *)

LEMMA BeginPrimePairs ==
    ASSUME PairingInv, NEW j \in Jobs, pc[j] = "idle", BeginPrime(j)
    PROVE  PairingInv' /\ Slots!Ask(j)
  <1>1. Slots!Ask(j)
    BY DEF BeginPrime, Slots!Ask, PairingInv, IdleAskNothing
  <1>2. /\ waiting' \in Seq(Jobs) /\ woken' \in Seq(Jobs)
        /\ \A i \in Jobs : Slots!Asking(i)' => Slots!Asking(i) \/ i = j
        /\ held \subseteq held'
        /\ ~(available < 1) => j \in held'
    BY AcquireAsking DEF BeginPrime
  <1>3. /\ pc' \in [Jobs -> PCs]
        /\ \A i \in Jobs : i # j => pc'[i] = pc[i]
        /\ pc'[j] = IF available < 1 THEN "acquiring" ELSE "initBox"
    BY DEF BeginPrime, PairingInv, PCs
  <1>4. IdleAskNothing'
    BY <1>2, <1>3 DEF IdleAskNothing, PairingInv
  <1>5. HoldersHold'
    BY <1>2, <1>3 DEF HoldersHold, HoldsSlot, PairingInv
  <1> QED
    BY <1>1, <1>2, <1>3, <1>4, <1>5 DEF PairingInv

LEMMA WokenPairs ==
    ASSUME PairingInv, NEW j \in Jobs, Woken(j)
    PROVE  PairingInv' /\ Slots!Resume(j)
  <1>1. /\ waiting' \in Seq(Jobs) /\ woken' \in Seq(Jobs)
        /\ \A i \in Jobs : Slots!Asking(i)' => Slots!Asking(i)
        /\ held' = held \cup {j}
    BY ResumeAsking DEF Woken
  <1>2. /\ pc' \in [Jobs -> PCs]
        /\ \A i \in Jobs : i # j => pc'[i] = pc[i]
        /\ pc'[j] = "initBox"
    BY DEF Woken, PairingInv, PCs
  <1>3. IdleAskNothing' /\ HoldersHold'
    BY <1>1, <1>2 DEF IdleAskNothing, HoldersHold, PairingInv
  <1> QED
    BY <1>1, <1>2, <1>3 DEF PairingInv, Woken

LEMMA BeginCleanupPairs ==
    ASSUME PairingInv, NEW j \in Jobs, NEW how, HoldsSlot(pc[j]), BeginCleanup(j, how)
    PROVE  PairingInv' /\ Slots!GiveBack(j)
  <1>1. /\ waiting' \in Seq(Jobs) /\ woken' \in Seq(Jobs)
        /\ \A i \in Jobs : Slots!Asking(i)' => Slots!Asking(i)
        /\ held' = held \ {j}
    BY ReleaseAsking DEF BeginCleanup
  <1>2. /\ pc' \in [Jobs -> PCs]
        /\ \A i \in Jobs : i # j => pc'[i] = pc[i]
        /\ pc'[j] = "cleanup"
    BY DEF BeginCleanup, PairingInv, PCs
  <1>3. IdleAskNothing' /\ HoldersHold'
    BY <1>1, <1>2 DEF IdleAskNothing, HoldersHold, HoldsSlot, PairingInv
  <1>4. Slots!GiveBack(j)
    BY DEF Slots!GiveBack, BeginCleanup, PairingInv, HoldersHold
  <1> QED
    BY <1>1, <1>2, <1>3, <1>4 DEF PairingInv

(* A step that leaves the slots alone and moves no job into or out of the  *)
(* part of its life in which it holds one.                                 *)
LEMMA QuietStep ==
    ASSUME PairingInv, UNCHANGED slotVars, pc' \in [Jobs -> PCs],
           \A i \in Jobs : \/ pc'[i] = pc[i]
                           \/ /\ pc'[i] # "idle"
                              /\ HoldsSlot(pc'[i]) => HoldsSlot(pc[i])
    PROVE  PairingInv'
  <1>1. IdleAskNothing'
    BY DEF PairingInv, IdleAskNothing, slotVars, Slots!Asking
  <1>2. HoldersHold'
    BY DEF PairingInv, HoldersHold, slotVars
  <1> QED
    BY <1>1, <1>2 DEF PairingInv, slotVars

LEMMA StartStageQuiet ==
    ASSUME PairingInv, NEW j \in Jobs, NEW st, HoldsSlot(pc[j]),
           StartStage(j, st), UNCHANGED slotVars
    PROVE  PairingInv'
  <1>1. pc' = [pc EXCEPT ![j] = "stage"] /\ pc \in [Jobs -> PCs]
    BY DEF StartStage, PairingInv
  <1>2. pc' \in [Jobs -> PCs]
    BY <1>1 DEF PCs
  <1>3. \A i \in Jobs : pc'[i] = pc[i] \/ (pc'[i] = "stage" /\ HoldsSlot(pc[i]))
    BY <1>1
  <1> QED
    BY <1>2, <1>3, QuietStep

(* Every step of a job, of a client or of the runtime keeps the pairing    *)
(* invariant and is a step of JobSlots or leaves the slots alone.          *)
LEMMA JobStepPairs ==
    ASSUME PairingInv, NEW j \in Jobs, JobStep(j)
    PROVE  PairingInv' /\ (Slots!SlotsNext \/ UNCHANGED slotVars)
  <1> USE DEF Drained
  <1>1. CASE Woken(j)
    BY <1>1, WokenPairs DEF Slots!SlotsNext
  <1>2. CASE BoxReady(j) \/ SecondBoxReady(j)
    <2>1. /\ pc[j] \in {"initBox", "initBox2"} /\ UNCHANGED slotVars
          /\ \/ pc' = [pc EXCEPT ![j] = "writeFiles"]
             \/ pc' = [pc EXCEPT ![j] = "moveFiles"]
      BY <1>2 DEF BoxReady, SecondBoxReady
    <2>2. pc' \in [Jobs -> PCs]
      BY <2>1 DEF PairingInv, PCs
    <2>3. \A i \in Jobs : i # j => pc'[i] = pc[i]
      BY <2>1 DEF PairingInv
    <2>4. pc'[j] # "idle" /\ HoldsSlot(pc[j])
      BY <2>1 DEF PairingInv, HoldsSlot, PCs
    <2> QED
      BY <2>1, <2>2, <2>3, <2>4, QuietStep
  <1>3. CASE PrimeFails(j)
    <2>1. HoldsSlot(pc[j])
      BY <1>3 DEF PrimeFails, HoldsSlot, PCs
    <2> QED
      BY <1>3, <2>1, BeginCleanupPairs DEF PrimeFails, Throw, Slots!SlotsNext
  <1>4. CASE FilesWritten(j)
    <2>1. HoldsSlot(pc[j])
      BY <1>4 DEF FilesWritten, HoldsSlot, PCs
    <2> QED
      BY <1>4, <2>1, StartStageQuiet DEF FilesWritten
  <1>5. CASE NoCodeFile(j)
    <2>1. HoldsSlot(pc[j])
      BY <1>5 DEF NoCodeFile, HoldsSlot, PCs
    <2> QED
      BY <1>5, <2>1, BeginCleanupPairs DEF NoCodeFile, Slots!SlotsNext
  <1>6. CASE SpawnError(j)
    <2>1. HoldsSlot(pc[j])
      BY <1>6 DEF SpawnError, HoldsSlot, PCs
    <2> QED
      BY <1>6, <2>1, BeginCleanupPairs DEF SpawnError, Throw, Slots!SlotsNext
  <1>7. CASE ExitEvent(j)
    <2>1. /\ pc[j] = "stage" /\ UNCHANGED slotVars
          /\ pc' = [pc EXCEPT ![j] = "readMeta"]
      BY <1>7 DEF ExitEvent
    <2>2. pc' \in [Jobs -> PCs]
      BY <2>1 DEF PairingInv, PCs
    <2>3. \A i \in Jobs : i # j => pc'[i] = pc[i]
      BY <2>1 DEF PairingInv
    <2>4. pc'[j] # "idle" /\ HoldsSlot(pc[j])
      BY <2>1 DEF PairingInv, HoldsSlot, PCs
    <2> QED
      BY <2>1, <2>2, <2>3, <2>4, QuietStep
  <1>8. CASE MetaMissing(j)
    <2>1. HoldsSlot(pc[j])
      BY <1>8 DEF MetaMissing, HoldsSlot, PCs
    <2> QED
      BY <1>8, <2>1, BeginCleanupPairs DEF MetaMissing, Throw, Slots!SlotsNext
  <1>9. CASE StageFinished(j)
    <2>1. pc[j] = "readMeta" /\ HoldsSlot(pc[j])
      BY <1>9 DEF StageFinished, HoldsSlot, PCs
    <2>2. CASE BeginCleanup(j, "ok")
      BY <2>1, <2>2, BeginCleanupPairs DEF Slots!SlotsNext
    <2>3. CASE pc' = [pc EXCEPT ![j] = "initBox2"] /\ UNCHANGED slotVars
      <3>1. pc' \in [Jobs -> PCs]
        BY <2>3 DEF PairingInv, PCs
      <3>2. \A i \in Jobs : i # j => pc'[i] = pc[i]
        BY <2>3 DEF PairingInv
      <3>3. pc'[j] # "idle"
        BY <2>3 DEF PairingInv
      <3> QED
        BY <2>1, <2>3, <3>1, <3>2, <3>3, QuietStep
    <2> QED
      BY <1>9, <2>2, <2>3 DEF StageFinished
  <1>10. CASE FilesMoved(j)
    <2>1. HoldsSlot(pc[j])
      BY <1>10 DEF FilesMoved, HoldsSlot, PCs
    <2> QED
      BY <1>10, <2>1, StartStageQuiet DEF FilesMoved
  <1>11. CASE CleanupDone(j) \/ CleanupThrows(j)
    <2>1. /\ UNCHANGED slotVars
          /\ pc' = [pc EXCEPT ![j] = "settled"]
      BY <1>11 DEF CleanupDone, CleanupThrows, Settle
    <2>2. pc' \in [Jobs -> PCs]
      BY <2>1 DEF PairingInv, PCs
    <2>3. \A i \in Jobs : i # j => pc'[i] = pc[i]
      BY <2>1 DEF PairingInv
    <2>4. pc'[j] # "idle" /\ ~HoldsSlot(pc'[j])
      BY <2>1 DEF PairingInv, HoldsSlot
    <2> QED
      BY <2>1, <2>2, <2>3, <2>4, QuietStep
  <1> QED
    BY <1>1, <1>2, <1>3, <1>4, <1>5, <1>6, <1>7, <1>8, <1>9, <1>10, <1>11 DEF JobStep

LEMMA QuietPc ==
    ASSUME PairingInv, UNCHANGED <<slotVars, pc>>
    PROVE  PairingInv' /\ UNCHANGED slotVars
  BY QuietStep DEF PairingInv

LEMMA ClientPairs ==
    ASSUME PairingInv,
           \/ \E r \in Requests : Execute(r)
           \/ \E s \in Sockets : ClientStep(s) \/ InitTimer(s) \/ CloseEvent(s)
           \/ \E j \in Jobs : ProcEnds(j)
    PROVE  PairingInv' /\ (Slots!SlotsNext \/ UNCHANGED slotVars)
  <1>1. ASSUME NEW r \in Requests, Execute(r)
        PROVE  PairingInv' /\ (Slots!SlotsNext \/ UNCHANGED slotVars)
    <2>1. r \in Jobs /\ pc[r] = "idle"
      BY <1>1 DEF Jobs, Execute
    <2>2. CASE BeginPrime(r)
      BY <2>1, <2>2, BeginPrimePairs DEF Slots!SlotsNext
    <2>3. CASE UNCHANGED <<slotVars, pc>>
      BY <2>3, QuietPc
    <2> QED
      BY <1>1, <2>2, <2>3 DEF Execute
  <1>2. ASSUME NEW s \in Sockets, InitMessage(s)
        PROVE  PairingInv' /\ (Slots!SlotsNext \/ UNCHANGED slotVars)
    <2>1. s \in Jobs
      BY DEF Jobs
    <2>2. CASE pc[s] = "idle" /\ BeginPrime(s)
      BY <2>1, <2>2, BeginPrimePairs DEF Slots!SlotsNext
    <2>3. CASE UNCHANGED <<slotVars, pc>>
      BY <2>3, QuietPc
    <2> QED
      BY <1>2, <2>2, <2>3 DEF InitMessage
  <1>3. ASSUME NEW s \in Sockets,
               Open(s) \/ BadMessage(s) \/ DataMessage(s) \/ SignalMessage(s)
                 \/ BadSignal(s) \/ InitTimer(s) \/ CloseEvent(s)
        PROVE  PairingInv' /\ UNCHANGED slotVars
    BY <1>3, QuietPc
    DEF Open, BadMessage, DataMessage, SignalMessage, BadSignal, InitTimer, CloseEvent
  <1>4. ASSUME NEW j \in Jobs, ProcEnds(j)
        PROVE  PairingInv' /\ UNCHANGED slotVars
    BY <1>4, QuietPc DEF ProcEnds
  <1> QED
    BY <1>1, <1>2, <1>3, <1>4 DEF ClientStep

LEMMA PairingInit == Init => PairingInv /\ Slots!SlotsInit
  <1> SUFFICES ASSUME Init PROVE PairingInv /\ Slots!SlotsInit
    OBVIOUS
  <1>1. /\ Slots!SlotsInit /\ waiting = <<>> /\ woken = <<>> /\ held = {}
        /\ pc = [j \in Jobs |-> "idle"]
    BY DEF Init, Slots!SlotsInit
  <1>2. Slots!Range(<<>>) = {}
    BY DEF Slots!Range
  <1>3. IdleAskNothing /\ HoldersHold
    BY <1>1, <1>2 DEF IdleAskNothing, HoldersHold, HoldsSlot, Slots!Asking
  <1> QED
    BY <1>1, <1>3 DEF PairingInv, PCs

(* Acquire and release are exactly paired on every path of both transports *)
(* (job_slots.ts:10-11): the jobs, with whatever clients, programs and     *)
(* failures do, are a client the slots' own theorems apply to.             *)
THEOREM SlotsPairedHolds == Spec => SlotsPaired
  <1>1. PairingInv /\ [Next]_vars => PairingInv' /\ [Slots!SlotsNext]_(Slots!slotVars)
    <2> SUFFICES ASSUME PairingInv, [Next]_vars
                 PROVE  PairingInv' /\ (Slots!SlotsNext \/ UNCHANGED slotVars)
      BY DEF slotVars, Slots!slotVars
    <2>1. CASE UNCHANGED vars
      BY <2>1, QuietPc DEF vars
    <2>2. CASE Next
      BY <2>2, JobStepPairs, ClientPairs DEF Next
    <2> QED
      BY <2>1, <2>2
  <1> QED
    BY <1>1, PairingInit, PTL DEF Spec, SlotsPaired, Slots!SlotsSpec

-----------------------------------------------------------------------------
(* The slots are those of the jobs between prime and cleanup.              *)

Proved == INSTANCE JobSlots_proofs WITH Callers <- Jobs

(* What JobSlots_proofs shows of the slots holds of the jobs, who use them *)
(* as it requires.                                                         *)
LEMMA JobsAreCallers == Spec => Proved!SlotsSpec
  <1>1. Slots!SlotsInit => Proved!SlotsInit
    BY DEF Proved!SlotsInit, Slots!SlotsInit
  <1>2. [Slots!SlotsNext]_(Slots!slotVars) => [Proved!SlotsNext]_(Proved!slotVars)
    BY DEF Proved!SlotsNext, Proved!slotVars, Proved!Ask, Proved!Resume, Proved!GiveBack,
       Proved!Acquire,
           Proved!AcquireNow, Proved!AcquirePark, Proved!Release, Proved!Asking,
           Proved!MicrotasksDrained, Proved!Range,
           Slots!SlotsNext, Slots!slotVars, Slots!Ask, Slots!Resume, Slots!GiveBack,
           Slots!Acquire,
           Slots!AcquireNow, Slots!AcquirePark, Slots!Release, Slots!Asking,
           Slots!MicrotasksDrained, Slots!Range
  <1> QED
    BY <1>1, <1>2, SlotsPairedHolds, PTL DEF SlotsPaired, Slots!SlotsSpec, Proved!SlotsSpec

LEMMA SlotsOfJobs ==
  Spec => [](available = Capacity - Cardinality(held) /\ Proved!OnePlaceEach /\ Proved!NoIdleSlot)
  <1>1. Proved!SlotsSpec => []Proved!SlotsInv
    BY SessionsAssumption, Proved!SlotsInvariant
  <1>2. Proved!SlotsInv =>
            available = Capacity - Cardinality(held) /\ Proved!OnePlaceEach /\ Proved!NoIdleSlot
    <2>1. Proved!Cardinality(held) = Cardinality(held)
      BY DEF Proved!Cardinality, Cardinality
    <2> QED BY <2>1 DEF Proved!SlotsInv, Proved!SlotAccounting
  <1> QED BY <1>1, <1>2, JobsAreCallers, PTL

Parked(j) == j \in Slots!Range(waiting) \/ j \in Slots!Range(woken)

HeldInv ==
    /\ held = {j \in Jobs : HoldsSlot(pc[j])}
    /\ \A j \in Jobs : Parked(j) => pc[j] = "acquiring"

LEMMA AcquireParks ==
  ASSUME PairingInv, NEW j \in Jobs, Slots!Acquire(j)
  PROVE  /\ \A i \in Jobs : Parked(i)' => Parked(i) \/ (i = j /\ available < 1)
         /\ held' = IF available < 1 THEN held ELSE held \cup {j}
  <1>1. CASE Slots!AcquireNow(j)
    BY <1>1 DEF Slots!AcquireNow, Parked
  <1>2. CASE Slots!AcquirePark(j)
    <2>1. waiting' = Append(waiting, j) /\ woken' = woken /\ held' = held /\ available < 1
      BY <1>2 DEF Slots!AcquirePark
    <2>2. Slots!Range(waiting') = Slots!Range(waiting) \cup {j}
      BY <2>1, RangeAppend DEF PairingInv
    <2> QED BY <2>1, <2>2 DEF Parked
  <1> QED BY <1>1, <1>2 DEF Slots!Acquire

LEMMA ReleaseParks ==
  ASSUME PairingInv, NEW j \in Jobs, Slots!Release(j)
  PROVE  (\A i \in Jobs : Parked(i)' => Parked(i)) /\ held' = held \ {j}
  <1>1. CASE waiting = <<>>
    BY <1>1 DEF Slots!Release, Parked
  <1>2. CASE waiting # <<>>
    <2>1. /\ waiting' = Tail(waiting) /\ woken' = Append(woken, Head(waiting))
          /\ held' = held \ {j}
          /\ waiting \in Seq(Jobs) /\ woken \in Seq(Jobs)
      BY <1>2 DEF PairingInv, Slots!Release
    <2>2. /\ Head(waiting) \in Jobs /\ Head(waiting) \in Slots!Range(waiting)
          /\ Slots!Range(waiting') \subseteq Slots!Range(waiting)
      BY <1>2, <2>1, RangeTail
    <2>3. Slots!Range(woken') = Slots!Range(woken) \cup {Head(waiting)}
      BY <2>1, <2>2, RangeAppend
    <2> QED BY <2>1, <2>2, <2>3 DEF Parked
  <1> QED BY <1>1, <1>2

LEMMA WokenParked == ASSUME PairingInv, NEW j \in Jobs, Slots!Resume(j) PROVE Parked(j)
  BY RangeTail DEF Slots!Resume, PairingInv, Parked

\* The one that goes on is parked no more.
LEMMA ResumeParks ==
  ASSUME PairingInv, Proved!OnePlaceEach, NEW j \in Jobs, Slots!Resume(j)
  PROVE  (\A i \in Jobs : Parked(i)' => Parked(i) /\ i # j) /\ held' = held \cup {j}
  <1>1. /\ woken # <<>> /\ woken \in Seq(Jobs) /\ waiting \in Seq(Jobs) /\ j = Head(woken)
        /\ woken' = Tail(woken) /\ waiting' = waiting /\ held' = held \cup {j}
    BY DEF PairingInv, Slots!Resume
  <1>2. /\ Len(woken) \in Nat \ {0} /\ j = woken[1] /\ Len(waiting) \in Nat
        /\ DOMAIN Tail(woken) = 1..Len(woken) - 1 /\ DOMAIN waiting = 1..Len(waiting)
        /\ \A k \in 1..Len(woken) - 1 : Tail(woken)[k] = woken[k + 1]
    BY <1>1, HeadTailProperties, LenProperties, EmptySeq
  <1>3. j \notin Slots!Range(Tail(woken)) /\ j \notin Slots!Range(waiting)
    BY <1>2 DEF Proved!OnePlaceEach, Slots!Range
  <1>4. Slots!Range(Tail(woken)) \subseteq Slots!Range(woken)
    BY <1>1, RangeTail
  <1> QED BY <1>1, <1>3, <1>4 DEF Parked

\* Steps that leave the slots alone.
LEMMA QuietHeld ==
  ASSUME HeldInv, UNCHANGED slotVars,
         \A i \in Jobs : pc'[i] = pc[i] \/ (pc[i] # "acquiring" /\ (HoldsSlot(pc'[i]) <=> HoldsSlot(pc[i])))
  PROVE  HeldInv'
  BY DEF HeldInv, slotVars, Parked

LEMMA ReleaseHeld ==
  ASSUME PairingInv, HeldInv, NEW j \in Jobs, NEW how, HoldsSlot(pc[j]), BeginCleanup(j, how)
  PROVE  HeldInv'
  <1>1. (\A i \in Jobs : Parked(i)' => Parked(i)) /\ held' = held \ {j}
    BY ReleaseParks DEF BeginCleanup
  <1>2. pc'[j] = "cleanup" /\ \A i \in Jobs \ {j} : pc'[i] = pc[i]
    BY DEF BeginCleanup, PairingInv
  <1>3. pc[j] # "acquiring" /\ ~HoldsSlot("cleanup")
    BY DEF HoldsSlot
  <1> QED BY <1>1, <1>2, <1>3 DEF HeldInv

LEMMA AcquireHeld ==
  ASSUME PairingInv, HeldInv, NEW j \in Jobs, pc[j] = "idle", BeginPrime(j)
  PROVE  HeldInv'
  <1>1. /\ \A i \in Jobs : Parked(i)' => Parked(i) \/ (i = j /\ available < 1)
        /\ held' = IF available < 1 THEN held ELSE held \cup {j}
    BY AcquireParks DEF BeginPrime
  <1>2. /\ pc'[j] = IF available < 1 THEN "acquiring" ELSE "initBox"
        /\ \A i \in Jobs \ {j} : pc'[i] = pc[i]
    BY DEF BeginPrime, PairingInv
  <1>3. HoldsSlot("initBox") /\ ~HoldsSlot("acquiring") /\ ~HoldsSlot("idle")
    BY DEF HoldsSlot, PCs
  <1>4. ~Parked(j)
    BY DEF HeldInv
  <1> QED BY <1>1, <1>2, <1>3, <1>4 DEF HeldInv

LEMMA HeldNext == PairingInv /\ Proved!OnePlaceEach /\ HeldInv /\ [Next]_vars => HeldInv'
  <1> SUFFICES ASSUME PairingInv, Proved!OnePlaceEach, HeldInv, [Next]_vars PROVE HeldInv'
    OBVIOUS
  <1>1. ASSUME NEW j \in Jobs, Woken(j) PROVE HeldInv'
    <2>1. (\A i \in Jobs : Parked(i)' => Parked(i) /\ i # j) /\ held' = held \cup {j}
      BY <1>1, ResumeParks DEF Woken
    <2>2. pc'[j] = "initBox" /\ \A i \in Jobs \ {j} : pc'[i] = pc[i]
      BY <1>1 DEF Woken, PairingInv
    <2> QED BY <2>1, <2>2 DEF HeldInv, HoldsSlot, PCs
  <1>2. ASSUME NEW j \in Jobs, NEW how, HoldsSlot(pc[j]), BeginCleanup(j, how) PROVE HeldInv'
    BY <1>2, ReleaseHeld
  <1>3. ASSUME NEW j \in Jobs, PrimeFails(j) \/ NoCodeFile(j) \/ SpawnError(j) \/ MetaMissing(j) PROVE HeldInv'
    <2>1. HoldsSlot(pc[j])
      BY <1>3 DEF PrimeFails, NoCodeFile, SpawnError, MetaMissing, HoldsSlot, PCs
    <2> QED BY <1>2, <1>3, <2>1 DEF PrimeFails, NoCodeFile, SpawnError, MetaMissing, Throw
  <1>4. ASSUME NEW j \in Jobs, BoxReady(j) \/ SecondBoxReady(j) \/ FilesWritten(j) \/ FilesMoved(j) \/ ExitEvent(j)
        PROVE  HeldInv'
    <2>1. /\ UNCHANGED slotVars
          /\ pc[j] \in {"initBox", "initBox2", "writeFiles", "moveFiles", "stage"}
          /\ pc'[j] \in {"writeFiles", "moveFiles", "stage", "readMeta"}
          /\ \A i \in Jobs \ {j} : pc'[i] = pc[i]
      BY <1>4 DEF BoxReady, SecondBoxReady, FilesWritten, FilesMoved, ExitEvent, StartStage,
         PairingInv
    <2>2. HoldsSlot(pc[j]) /\ HoldsSlot(pc'[j]) /\ pc[j] # "acquiring"
      BY <2>1 DEF HoldsSlot, PCs
    <2> QED BY <2>1, <2>2, QuietHeld
  <1>5. ASSUME NEW j \in Jobs, StageFinished(j) PROVE HeldInv'
    <2>1. pc[j] = "readMeta" /\ HoldsSlot(pc[j]) /\ HoldsSlot("initBox2")
      BY <1>5 DEF StageFinished, HoldsSlot, PCs
    <2>2. CASE BeginCleanup(j, "ok")
      BY <1>2, <2>1, <2>2
    <2>3. CASE pc' = [pc EXCEPT ![j] = "initBox2"] /\ UNCHANGED slotVars
      <3>1. pc'[j] = "initBox2" /\ \A i \in Jobs \ {j} : pc'[i] = pc[i]
        BY <2>3 DEF PairingInv
      <3> QED BY <2>1, <2>3, <3>1, QuietHeld
    <2> QED BY <1>5, <2>2, <2>3 DEF StageFinished
  <1>6. ASSUME NEW j \in Jobs, CleanupDone(j) \/ CleanupThrows(j) PROVE HeldInv'
    <2>1. UNCHANGED slotVars /\ pc[j] = "cleanup" /\ pc'[j] = "settled" /\ \A i \in Jobs \ {j} : pc'[i] = pc[i]
      BY <1>6 DEF CleanupDone, CleanupThrows, Settle, PairingInv
    <2>2. ~HoldsSlot("cleanup") /\ ~HoldsSlot("settled")
      BY DEF HoldsSlot
    <2> QED BY <2>1, <2>2, QuietHeld
  <1>7. ASSUME UNCHANGED <<slotVars, pc>> PROVE HeldInv'
    BY <1>7, QuietHeld
  <1>8. ASSUME NEW r \in Requests, Execute(r) PROVE HeldInv'
    BY <1>7, <1>8, AcquireHeld DEF Execute, Jobs
  <1>9. ASSUME NEW s \in Sockets, InitMessage(s) PROVE HeldInv'
    BY <1>7, <1>9, AcquireHeld DEF InitMessage, Jobs
  <1>10. ASSUME NEW s \in Sockets,
               Open(s) \/ BadMessage(s) \/ DataMessage(s) \/ SignalMessage(s)
                 \/ BadSignal(s) \/ InitTimer(s) \/ CloseEvent(s)
        PROVE  HeldInv'
    BY <1>7, <1>10 DEF Open, BadMessage, DataMessage, SignalMessage, BadSignal, InitTimer,
       CloseEvent
  <1>11. ASSUME NEW j \in Jobs, ProcEnds(j) PROVE HeldInv'
    BY <1>7, <1>11 DEF ProcEnds
  <1>12. CASE UNCHANGED vars
    BY <1>7, <1>12 DEF vars
  <1> QED BY <1>1, <1>3, <1>4, <1>5, <1>6, <1>8, <1>9, <1>10, <1>11, <1>12 DEF Next, JobStep,
         ClientStep

LEMMA HeldInit == Init => HeldInv
  <1> SUFFICES ASSUME Init PROVE HeldInv
    OBVIOUS
  <1>1. waiting = <<>> /\ woken = <<>> /\ held = {} /\ pc = [j \in Jobs |-> "idle"]
    BY DEF Init, Slots!SlotsInit
  <1>2. Slots!Range(<<>>) = {}
    BY DEF Slots!Range
  <1> QED BY <1>1, <1>2 DEF HeldInv, Parked, HoldsSlot

LEMMA HeldInvariant == Spec => [](PairingInv /\ HeldInv)
  <1>1. PairingInv /\ [Next]_vars => PairingInv'
    <2> SUFFICES ASSUME PairingInv, [Next]_vars PROVE PairingInv'
      OBVIOUS
    <2> QED BY JobStepPairs, ClientPairs, QuietPc DEF Next, vars
  <1>2. Init => PairingInv
    BY PairingInit
  <1> QED BY <1>1, <1>2, SlotsOfJobs, HeldInit, HeldNext, PTL DEF Spec

-----------------------------------------------------------------------------
(* A stage: its process, its handlers and its metadata.                    *)

(* A process is there only while its stage lasts, a stage of a socket has  *)
(* its handlers on the bus, and a compile stage that was cut down has left *)
(* no metadata and is the last.                                            *)
RunOf(j) ==
    /\ pc[j] \in PCs /\ stage[j] \in {"none", "compile", "run"}
    /\ proc[j] \in {"none", "unspawned", "alive", "dead"}
    /\ meta[j] \in ExitCodes \cup {"absent"} /\ killed[j] \in BOOLEAN
    /\ listening[j] \in SUBSET {"compile", "run"} /\ cut[j] \in SUBSET {"compile", "run"}
    /\ proc[j] # "none" => pc[j] = "stage"
    /\ j \in Sockets /\ pc[j] = "stage" => stage[j] \in listening[j]
    /\ "compile" \in cut[j] =>
          /\ stage[j] = "compile" /\ pc[j] \in {"stage", "readMeta", "cleanup", "settled"}
          /\ meta[j] = "absent" /\ proc[j] \in {"none", "dead"}

Functions ==
    /\ pc = [j \in Jobs |-> pc[j]] /\ stage = [j \in Jobs |-> stage[j]]
    /\ proc = [j \in Jobs |-> proc[j]] /\ meta = [j \in Jobs |-> meta[j]]
    /\ killed = [j \in Jobs |-> killed[j]] /\ listening = [j \in Jobs |-> listening[j]]
    /\ cut = [j \in Jobs |-> cut[j]]

RunInv == Functions /\ \A j \in Jobs : RunOf(j)

LEMMA RunInit == Init => RunInv
  <1> SUFFICES ASSUME Init PROVE RunInv
    OBVIOUS
  <1>1. Functions
    BY DEF Init, Functions
  <1>2. \A j \in Jobs : RunOf(j)
    BY DEF Init, RunOf, PCs
  <1> QED BY <1>1, <1>2 DEF RunInv

\* All the variables of a job's stages change for one job only.
Moves(j) ==
    /\ pc' = [pc EXCEPT ![j] = pc'[j]] /\ stage' = [stage EXCEPT ![j] = stage'[j]]
    /\ proc' = [proc EXCEPT ![j] = proc'[j]] /\ meta' = [meta EXCEPT ![j] = meta'[j]]
    /\ killed' = [killed EXCEPT ![j] = killed'[j]]
    /\ listening' = [listening EXCEPT ![j] = listening'[j]]
    /\ cut' = [cut EXCEPT ![j] = cut'[j]]

LEMMA OneJobMoves ==
  ASSUME RunInv, NEW j \in Jobs, Moves(j), RunOf(j)'
  PROVE  RunInv'
  <1>1. Functions'
    BY DEF RunInv, Functions, Moves
  <1>2. ASSUME NEW i \in Jobs \ {j} PROVE RunOf(i)'
    <2>1. /\ pc'[i] = pc[i] /\ stage'[i] = stage[i] /\ proc'[i] = proc[i] /\ meta'[i] = meta[i]
          /\ killed'[i] = killed[i] /\ listening'[i] = listening[i] /\ cut'[i] = cut[i]
      BY DEF RunInv, Functions, Moves
    <2> QED BY <2>1 DEF RunInv, RunOf
  <1> QED BY <1>1, <1>2 DEF RunInv

LEMMA NothingMoves == ASSUME RunInv, UNCHANGED <<pc, stageVars>> PROVE RunInv'
  BY DEF RunInv, Functions, RunOf, stageVars

LEMMA PrimeRuns ==
  ASSUME RunInv, NEW j \in Jobs, BoxReady(j) \/ SecondBoxReady(j)
  PROVE  RunInv'
  <1>1. Moves(j)
    BY DEF RunInv, Functions, Moves, stageVars, BoxReady, SecondBoxReady
  <1>2. RunOf(j)'
    BY DEF RunInv, Functions, RunOf, PCs, ExitCodes, stageVars, BoxReady, SecondBoxReady
  <1> QED BY <1>1, <1>2, OneJobMoves

LEMMA WokenRuns ==
  ASSUME RunInv, NEW j \in Jobs, pc[j] = "acquiring", Woken(j)
  PROVE  RunInv'
  <1>1. Moves(j)
    BY DEF RunInv, Functions, Moves, stageVars, Woken
  <1>2. RunOf(j)'
    BY DEF RunInv, Functions, RunOf, PCs, ExitCodes, stageVars, Woken
  <1> QED BY <1>1, <1>2, OneJobMoves

LEMMA ThrowsRuns ==
  ASSUME RunInv, NEW j \in Jobs, PrimeFails(j) \/ NoCodeFile(j) \/ MetaMissing(j)
  PROVE  RunInv'
  <1>1. Moves(j)
    BY DEF RunInv, Functions, Moves, stageVars, PrimeFails, NoCodeFile, MetaMissing, Throw,
       BeginCleanup
  <1>2. RunOf(j)'
    BY DEF RunInv, Functions, RunOf, PCs, ExitCodes, stageVars, PrimeFails, NoCodeFile,
       MetaMissing, Throw, BeginCleanup
  <1> QED BY <1>1, <1>2, OneJobMoves

LEMMA SpawnRuns ==
  ASSUME RunInv, NEW j \in Jobs, SpawnError(j)
  PROVE  RunInv'
  <1>1. Moves(j)
    BY DEF RunInv, Functions, Moves, stageVars, SpawnError, Throw, BeginCleanup
  <1>2. RunOf(j)'
    BY DEF RunInv, Functions, RunOf, PCs, ExitCodes, stageVars, SpawnError, Throw, BeginCleanup
  <1> QED BY <1>1, <1>2, OneJobMoves

LEMMA ExitRuns ==
  ASSUME RunInv, NEW j \in Jobs, ExitEvent(j)
  PROVE  RunInv'
  <1>1. Moves(j)
    BY DEF RunInv, Functions, Moves, stageVars, ExitEvent
  <1>2. RunOf(j)'
    BY DEF RunInv, Functions, RunOf, PCs, ExitCodes, stageVars, ExitEvent
  <1> QED BY <1>1, <1>2, OneJobMoves

LEMMA StartsRuns ==
  ASSUME RunInv, NEW j \in Jobs, NEW st \in {"compile", "run"}, pc[j] \in {"writeFiles", "moveFiles"}, StartStage(j, st)
  PROVE  RunInv'
  <1>1. Moves(j)
    BY DEF RunInv, Functions, Moves, stageVars, StartStage
  <1>2. RunOf(j)'
    BY DEF RunInv, Functions, RunOf, PCs, ExitCodes, stageVars, StartStage
  <1> QED BY <1>1, <1>2, OneJobMoves

LEMMA FinishesRuns ==
  ASSUME RunInv, NEW j \in Jobs, StageFinished(j)
  PROVE  RunInv'
  <1>1. Moves(j)
    BY DEF RunInv, Functions, Moves, stageVars, StageFinished, BeginCleanup, CompileErrored,
       ExitCode, MetaUsable
  <1>2. RunOf(j)'
    BY DEF RunInv, Functions, RunOf, PCs, ExitCodes, stageVars, StageFinished, BeginCleanup,
       CompileErrored, ExitCode, MetaUsable
  <1> QED BY <1>1, <1>2, OneJobMoves

LEMMA SettlesRuns ==
  ASSUME RunInv, NEW j \in Jobs, CleanupDone(j) \/ CleanupThrows(j)
  PROVE  RunInv'
  <1>1. Moves(j)
    BY DEF RunInv, Functions, Moves, stageVars, CleanupDone, CleanupThrows, Settle
  <1>2. RunOf(j)'
    BY DEF RunInv, Functions, RunOf, PCs, ExitCodes, stageVars, CleanupDone, CleanupThrows,
       Settle
  <1> QED BY <1>1, <1>2, OneJobMoves

LEMMA EndsRuns ==
  ASSUME RunInv, NEW j \in Jobs, ProcEnds(j)
  PROVE  RunInv'
  <1>1. Moves(j)
    BY DEF RunInv, Functions, Moves, stageVars, ProcEnds
  <1>2. RunOf(j)'
    BY DEF RunInv, Functions, RunOf, PCs, ExitCodes, stageVars, ProcEnds
  <1> QED BY <1>1, <1>2, OneJobMoves

LEMMA KillRuns ==
  ASSUME RunInv, NEW s \in Sockets, NEW m \in {"absent", "null"}, KillStage(s, m), pc' = pc
  PROVE  RunInv'
  <1>1. s \in Jobs
    BY DEF Jobs
  <1>2. Moves(s)
    BY <1>1 DEF RunInv, Functions, Moves, KillStage
  <1>3. CASE listening[s] # {} /\ proc[s] = "alive"
    <2>1. RunOf(s)'
      <3>1. /\ pc'[s] = "stage" /\ stage'[s] = stage[s] /\ proc'[s] = "dead" /\ meta'[s] = m
            /\ killed'[s] = TRUE /\ listening'[s] = listening[s]
            /\ cut'[s] = IF m = "absent" THEN cut[s] \cup {stage[s]} ELSE cut[s]
            /\ "compile" \notin cut[s] /\ stage[s] \in listening[s]
        BY <1>1, <1>3 DEF RunInv, Functions, RunOf, KillStage
      <3> QED BY <1>1, <3>1 DEF RunInv, RunOf, ExitCodes
    <2> QED BY <1>1, <1>2, <2>1, OneJobMoves
  <1>4. CASE ~(listening[s] # {} /\ proc[s] = "alive")
    <2>1. RunOf(s)'
      <3>1. /\ pc'[s] = pc[s] /\ stage'[s] = stage[s] /\ proc'[s] = proc[s]
            /\ meta'[s] = meta[s]
            /\ killed'[s] \in BOOLEAN /\ listening'[s] = listening[s] /\ cut'[s] = cut[s]
        BY <1>1, <1>4 DEF RunInv, Functions, RunOf, KillStage
      <3> QED BY <1>1, <3>1 DEF RunInv, RunOf
    <2> QED BY <1>1, <1>2, <2>1, OneJobMoves
  <1> QED BY <1>3, <1>4

LEMMA BeginRuns ==
  ASSUME RunInv, NEW j \in Jobs, pc[j] = "idle", BeginPrime(j), UNCHANGED stageVars
  PROVE  RunInv'
  <1>1. Moves(j)
    BY DEF RunInv, Functions, Moves, stageVars, BeginPrime
  <1>2. RunOf(j)'
    BY DEF RunInv, Functions, RunOf, PCs, stageVars, BeginPrime
  <1> QED BY <1>1, <1>2, OneJobMoves

LEMMA RunNext == PairingInv /\ HeldInv /\ RunInv /\ [Next]_vars => RunInv'
  <1> SUFFICES ASSUME PairingInv, HeldInv, RunInv, [Next]_vars PROVE RunInv'
    OBVIOUS
  <1>1. ASSUME NEW j \in Jobs, JobStep(j) \/ ProcEnds(j) PROVE RunInv'
    <2>1. FilesWritten(j) \/ FilesMoved(j) => \E st \in {"compile", "run"} :
            pc[j] \in {"writeFiles", "moveFiles"} /\ StartStage(j, st)
      BY DEF FilesWritten, FilesMoved, FirstStage
    <2>2. Woken(j) => pc[j] = "acquiring"
      BY WokenParked DEF Woken, HeldInv
    <2> QED BY <1>1, <2>1, <2>2, PrimeRuns, WokenRuns, ThrowsRuns, SpawnRuns, ExitRuns,
           StartsRuns, FinishesRuns,
               SettlesRuns, EndsRuns
            DEF JobStep
  <1>2. ASSUME NEW r \in Requests, Execute(r) PROVE RunInv'
    BY <1>2, BeginRuns, NothingMoves DEF Execute, Jobs
  <1>3. ASSUME NEW s \in Sockets, InitMessage(s) PROVE RunInv'
    BY <1>3, BeginRuns, NothingMoves DEF InitMessage, Jobs
  <1>4. ASSUME NEW s \in Sockets, SignalMessage(s) \/ CloseEvent(s) PROVE RunInv'
    BY <1>4, KillRuns DEF SignalMessage, CloseEvent
  <1>5. ASSUME NEW s \in Sockets,
               Open(s) \/ BadMessage(s) \/ DataMessage(s) \/ BadSignal(s) \/ InitTimer(s)
        PROVE  RunInv'
    BY <1>5, NothingMoves DEF Open, BadMessage, DataMessage, BadSignal, InitTimer
  <1>6. CASE UNCHANGED vars
    BY <1>6, NothingMoves DEF vars
  <1> QED BY <1>1, <1>2, <1>3, <1>4, <1>5, <1>6 DEF Next, ClientStep

LEMMA RunInvariant == Spec => []RunInv
  BY RunInit, RunNext, HeldInvariant, PTL DEF Spec

(* A compiler a signal took down before it recorded anything is never      *)
(* followed by a run stage (job.ts:482-494, 571).                          *)
THEOREM KilledCompileIsTheEndHolds == Spec => []KilledCompileIsTheEnd
  <1>1. RunInv => KilledCompileIsTheEnd
    BY DEF RunInv, RunOf, KilledCompileIsTheEnd, Jobs
  <1> QED BY <1>1, RunInvariant, PTL
-----------------------------------------------------------------------------
(* A connection: why it is closed, and what its client was told last.      *)

Frames == {"runtime", "stage", "exit", "error"} \X {"info", "message", "none", "compile", "run"}

LastFrame(s) == frames[s][Len(frames[s])]

(* A connection closed with a code is not open any more, and the job is    *)
(* where the code says; one that is open when its job ended well has had   *)
(* the exit of the last stage.                                             *)
SockOf(s) ==
    /\ sock[s] \in {"connecting", "open", "closing", "closed"} /\ frames[s] \in Seq(Frames)
    /\ sock[s] = "connecting" => pc[s] = "idle"
    /\ closeCode[s] # 0 => sock[s] \in {"closing", "closed"}
    /\ closeCode[s] \in {4001, 4003} => pc[s] = "idle"
    /\ closeCode[s] \in {4000, 4004, 4005} => pc[s] # "idle"
    /\ closeCode[s] = 4002 => LastFrame(s) = Frame("error", "message")
    /\ closeCode[s] = 4999 => pc[s] = "settled"
    /\ closeCode[s] = 4999 \/ (pc[s] = "cleanup" /\ sock[s] = "open" /\ outcome[s] = "ok") =>
          /\ outcome[s] = "ok"
          /\ LastFrame(s) = Frame("exit", stage[s])
          /\ stage[s] = "compile" => CompileErrored(s)

SockFunctions ==
    /\ sock = [s \in Sockets |-> sock[s]] /\ closeCode = [s \in Sockets |-> closeCode[s]]
    /\ frames = [s \in Sockets |-> frames[s]]
    /\ outcome = [j \in Jobs |-> outcome[j]] /\ answer = [r \in Requests |-> answer[r]]

SockInv ==
    /\ SockFunctions
    /\ \A s \in Sockets : SockOf(s)
    /\ \A r \in Requests : answer[r] # 0 => pc[r] \in {"idle", "settled"}

LEMMA SockInit == Init => SockInv
  <1> SUFFICES ASSUME Init PROVE SockInv
    OBVIOUS
  <1>1. <<>> \in Seq(Frames)
    BY EmptySeq
  <1>2. SockFunctions
    BY DEF Init, SockFunctions
  <1>3. ASSUME NEW s \in Sockets PROVE SockOf(s)
    <2>1. sock[s] = "connecting" /\ closeCode[s] = 0 /\ frames[s] = <<>> /\ pc[s] = "idle"
      BY DEF Init, Jobs
    <2> QED BY <1>1, <2>1 DEF SockOf
  <1>4. \A r \in Requests : answer[r] = 0
    BY DEF Init
  <1> QED BY <1>2, <1>3, <1>4 DEF SockInv

\* A frame or two at the end.
LEMMA SentOne ==
  ASSUME NEW said \in Seq(Frames), NEW f \in Frames
  PROVE  said \o <<f>> \in Seq(Frames) /\ (said \o <<f>>)[Len(said \o <<f>>)] = f
  BY ConcatProperties

LEMMA SentTwo ==
  ASSUME NEW said \in Seq(Frames), NEW f \in Frames, NEW g \in Frames
  PROVE  said \o <<f, g>> \in Seq(Frames)
  BY ConcatProperties

LEMMA FramesAre ==
  ASSUME NEW type \in {"runtime", "stage", "exit", "error"},
         NEW what \in {"info", "message", "none", "compile", "run"}
  PROVE  Frame(type, what) \in Frames
  BY DEF Frame, Frames

\* A function that is left alone, or changed at one argument.
LEMMA Kept ==
  ASSUME NEW D, NEW f, f = [x \in D |-> f[x]], NEW g, NEW i, g = f
  PROVE  g = [f EXCEPT ![i] = g[i]]
  OBVIOUS

LEMMA Changed ==
  ASSUME NEW D, NEW f, f = [x \in D |-> f[x]], NEW g, NEW i, NEW e, g = [f EXCEPT ![i] = e]
  PROVE  g = [f EXCEPT ![i] = g[i]]
  <1>1. CASE i \in D
    BY <1>1
  <1>2. CASE i \notin D
    BY <1>2
  <1> QED BY <1>1, <1>2

\* What is a socket's changes for one socket only.
SockMoves(j) ==
    /\ pc' = [pc EXCEPT ![j] = pc'[j]] /\ stage' = [stage EXCEPT ![j] = stage'[j]]
    /\ meta' = [meta EXCEPT ![j] = meta'[j]] /\ outcome' = [outcome EXCEPT ![j] = outcome'[j]]
    /\ sock' = [sock EXCEPT ![j] = sock'[j]]
    /\ closeCode' = [closeCode EXCEPT ![j] = closeCode'[j]]
    /\ frames' = [frames EXCEPT ![j] = frames'[j]]
    /\ answer' = [answer EXCEPT ![j] = answer'[j]]

\* Those of them that belong to the job, and those of its socket.
JobMoves(j) ==
    /\ \/ UNCHANGED pc
       \/ \E p \in PCs : pc' = [pc EXCEPT ![j] = p]
    /\ UNCHANGED stage /\ UNCHANGED outcome

LEMMA JobKept ==
  ASSUME RunInv, SockInv, NEW j \in Jobs, JobMoves(j)
  PROVE  /\ pc' = [pc EXCEPT ![j] = pc'[j]] /\ stage' = [stage EXCEPT ![j] = stage'[j]]
         /\ outcome' = [outcome EXCEPT ![j] = outcome'[j]]
  <1>1. pc' = [pc EXCEPT ![j] = pc'[j]]
    BY Kept, Changed DEF JobMoves, RunInv, Functions
  <1>2. stage' = [stage EXCEPT ![j] = stage'[j]]
    BY Kept DEF JobMoves, RunInv, Functions
  <1>3. outcome' = [outcome EXCEPT ![j] = outcome'[j]]
    BY Kept DEF JobMoves, SockInv, SockFunctions
  <1> QED BY <1>1, <1>2, <1>3

LEMMA MetaKept == ASSUME RunInv, NEW j, UNCHANGED meta PROVE meta' = [meta EXCEPT ![j] = meta'[j]]
  BY Kept DEF RunInv, Functions

LEMMA AnswerKept == ASSUME SockInv, NEW j, UNCHANGED answer PROVE answer' = [answer EXCEPT ![j] = answer'[j]]
  BY Kept DEF SockInv, SockFunctions

LEMMA SocketKept ==
  ASSUME SockInv, NEW j
  PROVE  /\ UNCHANGED sock => sock' = [sock EXCEPT ![j] = sock'[j]]
         /\ UNCHANGED closeCode => closeCode' = [closeCode EXCEPT ![j] = closeCode'[j]]
         /\ UNCHANGED frames => frames' = [frames EXCEPT ![j] = frames'[j]]
  <1>1. UNCHANGED sock => sock' = [sock EXCEPT ![j] = sock'[j]]
    BY Kept DEF SockInv, SockFunctions
  <1>2. UNCHANGED closeCode => closeCode' = [closeCode EXCEPT ![j] = closeCode'[j]]
    BY Kept DEF SockInv, SockFunctions
  <1>3. UNCHANGED frames => frames' = [frames EXCEPT ![j] = frames'[j]]
    BY Kept DEF SockInv, SockFunctions
  <1> QED BY <1>1, <1>2, <1>3

LEMMA Closes ==
  ASSUME SockInv, NEW s \in Sockets, NEW code, Close(s, code)
  PROVE  /\ sock' = [sock EXCEPT ![s] = sock'[s]]
         /\ closeCode' = [closeCode EXCEPT ![s] = closeCode'[s]]
         /\ IF sock[s] = "open" THEN sock'[s] = "closing" /\ closeCode'[s] = code
            ELSE sock'[s] = sock[s] /\ closeCode'[s] = closeCode[s]
  BY DEF Close, SockInv, SockFunctions

LEMMA OneSocketMoves ==
  ASSUME RunInv, SockInv, NEW j \in Jobs, SockMoves(j),
         j \in Sockets => SockOf(j)',
         j \in Requests => (answer'[j] # 0 => pc'[j] \in {"idle", "settled"})
  PROVE  SockInv'
  <1>1. SockFunctions'
    BY DEF SockMoves, SockInv, SockFunctions
  <1>2. ASSUME NEW s \in Sockets, s # j PROVE SockOf(s)'
    <2>1. /\ pc'[s] = pc[s] /\ stage'[s] = stage[s] /\ meta'[s] = meta[s]
          /\ outcome'[s] = outcome[s]
          /\ sock'[s] = sock[s] /\ closeCode'[s] = closeCode[s] /\ frames'[s] = frames[s]
      BY <1>2 DEF SockMoves, SockInv, SockFunctions, RunInv, Functions, Jobs
    <2> QED BY <2>1 DEF SockInv, SockOf, LastFrame, CompileErrored, ExitCode
  <1>3. ASSUME NEW r \in Requests, r # j PROVE answer'[r] = answer[r] /\ pc'[r] = pc[r]
    BY <1>3 DEF SockMoves, SockInv, SockFunctions, RunInv, Functions, Jobs
  <1> QED BY <1>1, <1>2, <1>3 DEF SockInv

LEMMA NoSocketMoves ==
  ASSUME SockInv, UNCHANGED <<pc, stage, meta, outcome, answer, sock, closeCode, frames>>
  PROVE  SockInv'
  <1>1. SockFunctions'
    BY DEF SockInv, SockFunctions
  <1>2. ASSUME NEW s \in Sockets PROVE SockOf(s)'
    <2>1. SockOf(s)
      BY DEF SockInv
    <2> QED BY <2>1 DEF SockOf, LastFrame, CompileErrored, ExitCode
  <1>3. \A r \in Requests : answer'[r] # 0 => pc'[r] \in {"idle", "settled"}
    BY DEF SockInv
  <1> QED BY <1>1, <1>2, <1>3 DEF SockInv

\* The job goes on; its socket is left as it is, but for what is sent on it.
LEMMA GoesOn ==
  ASSUME RunInv, SockInv, NEW j \in Jobs, SockMoves(j),
         pc[j] \notin {"idle", "settled"}, pc'[j] \notin {"idle", "settled"},
         pc'[j] = "cleanup" => outcome'[j] # "ok",
         UNCHANGED <<sock, closeCode, answer>>,
         j \in Sockets => frames'[j] \in Seq(Frames) /\ (sock[j] # "open" => frames'[j] = frames[j])
  PROVE  SockInv'
  <1>1. j \in Sockets => SockOf(j)'
    BY DEF SockInv, SockOf, LastFrame
  <1>2. j \in Requests => answer'[j] = 0
    BY DEF SockInv
  <1> QED BY <1>1, <1>2, OneSocketMoves

LEMMA SendsOn ==
  ASSUME SockInv, NEW j \in Jobs, NEW fs,
         \A said \in Seq(Frames) : said \o fs \in Seq(Frames), Send(j, fs)
  PROVE  /\ frames' = [frames EXCEPT ![j] = frames'[j]]
         /\ j \in Sockets => /\ frames'[j] \in Seq(Frames)
                            /\ frames'[j] = IF sock[j] = "open" THEN frames[j] \o fs ELSE frames[j]
  <1>1. SockFunctions /\ (j \in Sockets => frames[j] \in Seq(Frames))
    BY DEF SockInv, SockOf
  <1>2. CASE j \in Sockets /\ sock[j] = "open"
    <2>1. frames' = [frames EXCEPT ![j] = frames[j] \o fs]
      BY <1>2 DEF Send, Sent
    <2>2. frames'[j] = frames[j] \o fs
      BY <1>1, <1>2, <2>1 DEF SockFunctions
    <2> QED BY <1>1, <1>2, <2>1, <2>2
  <1>3. CASE ~(j \in Sockets /\ sock[j] = "open")
    <2>1. frames' = frames
      BY <1>3 DEF Send, Sent
    <2> QED BY <1>1, <1>3, <2>1, Kept DEF SockFunctions
  <1> QED BY <1>2, <1>3

LEMMA QuietGoesOn ==
  ASSUME RunInv, SockInv, NEW j \in Jobs, PairingInv, HeldInv,
         Woken(j) \/ BoxReady(j) \/ SecondBoxReady(j) \/ PrimeFails(j) \/ SpawnError(j) \/ MetaMissing(j)
            \/ ExitEvent(j) \/ ProcEnds(j)
  PROVE  SockInv'
  <1>1. Woken(j) => pc[j] = "acquiring"
    BY WokenParked DEF Woken, HeldInv
  <1>2. ProcEnds(j) => pc[j] = "stage"
    BY DEF ProcEnds, RunInv, RunOf
  <1>3. /\ pc[j] \notin {"idle", "settled"} /\ pc'[j] \notin {"idle", "settled"}
        /\ pc'[j] = "cleanup" => outcome'[j] # "ok"
        /\ UNCHANGED <<sock, closeCode, answer, frames>>
    BY <1>1, <1>2 DEF Woken, BoxReady, SecondBoxReady, PrimeFails, SpawnError, MetaMissing,
       ExitEvent, ProcEnds,
        Throw, BeginCleanup, socketVars, RunInv, Functions, SockInv, SockFunctions
  <1>4. SockMoves(j)
    BY DEF SockMoves, Woken, BoxReady, SecondBoxReady, PrimeFails, SpawnError, MetaMissing,
       ExitEvent, ProcEnds,
        Throw, BeginCleanup, socketVars, stageVars, RunInv, Functions, SockInv, SockFunctions
  <1>5. j \in Sockets => frames[j] \in Seq(Frames)
    BY DEF SockInv, SockOf
  <1> QED BY <1>3, <1>4, <1>5, GoesOn

LEMMA SendingGoesOn ==
  ASSUME RunInv, SockInv, NEW j \in Jobs, FilesWritten(j) \/ FilesMoved(j) \/ NoCodeFile(j)
  PROVE  SockInv'
  <1>1. PICK fs : Send(j, fs) /\ \A said \in Seq(Frames) : said \o fs \in Seq(Frames)
    <2>1. FilesWritten(j) => Send(j, <<Frame("runtime", "info"), Frame("stage", FirstStage(j))>>)
      BY DEF FilesWritten
    <2>2. FilesMoved(j) \/ NoCodeFile(j) => Send(j, <<Frame("stage", "run")>>) \/ Send(j, <<Frame("runtime", "info")>>)
      BY DEF FilesMoved, NoCodeFile
    <2>3. Frame("runtime", "info") \in Frames /\ Frame("stage", FirstStage(j)) \in Frames /\ Frame("stage", "run") \in Frames
      BY FramesAre DEF FirstStage
    <2> QED BY <2>1, <2>2, <2>3, SentOne, SentTwo
  <1>2. /\ frames' = [frames EXCEPT ![j] = frames'[j]]
        /\ j \in Sockets => frames'[j] \in Seq(Frames) /\ (sock[j] # "open" => frames'[j] = frames[j])
    BY <1>1, SendsOn
  <1>3. /\ pc[j] \notin {"idle", "settled"} /\ pc'[j] \notin {"idle", "settled"}
        /\ pc'[j] = "cleanup" => outcome'[j] # "ok"
        /\ UNCHANGED <<sock, closeCode, answer>>
    BY DEF FilesWritten, FilesMoved, NoCodeFile, StartStage, BeginCleanup, RunInv, Functions,
       SockInv, SockFunctions
  <1>4. SockMoves(j)
    BY <1>2 DEF SockMoves, FilesWritten, FilesMoved, NoCodeFile, StartStage, BeginCleanup,
       stageVars,
        RunInv, Functions, SockInv, SockFunctions
  <1> QED BY <1>2, <1>3, <1>4, GoesOn

LEMMA FinishesGoesOn ==
  ASSUME RunInv, SockInv, NEW j \in Jobs, StageFinished(j)
  PROVE  SockInv'
  <1> DEFINE exit == Frame("exit", stage[j])
  <1>1. exit \in Frames
    BY FramesAre DEF RunInv, RunOf
  <1>2. Send(j, <<exit>>)
    BY DEF StageFinished
  <1>3. \A said \in Seq(Frames) : said \o <<exit>> \in Seq(Frames) /\ (said \o <<exit>>)[Len(said \o <<exit>>)] = exit
    BY <1>1, SentOne
  <1> HIDE DEF exit
  <1>4. /\ frames' = [frames EXCEPT ![j] = frames'[j]]
        /\ j \in Sockets => /\ frames'[j] \in Seq(Frames)
                           /\ frames'[j] = IF sock[j] = "open" THEN frames[j] \o <<exit>> ELSE frames[j]
    BY <1>2, <1>3, SendsOn
  <1>5. /\ pc[j] = "readMeta" /\ UNCHANGED <<stage, meta, sock, closeCode, answer>>
        /\ \/ pc' = [pc EXCEPT ![j] = "initBox2"] /\ UNCHANGED outcome
           \/ /\ pc' = [pc EXCEPT ![j] = "cleanup"] /\ outcome' = [outcome EXCEPT ![j] = "ok"]
              /\ stage[j] = "compile" => CompileErrored(j)
    BY DEF StageFinished, BeginCleanup
  <1>6. SockMoves(j)
    BY <1>4, <1>5 DEF SockMoves, RunInv, Functions, SockInv, SockFunctions
  <1>7. CASE pc'[j] = "initBox2"
    BY <1>4, <1>5, <1>6, <1>7, GoesOn
  <1>8. CASE pc'[j] # "initBox2"
    <2>1. pc'[j] = "cleanup" /\ outcome'[j] = "ok" /\ (stage[j] = "compile" => CompileErrored(j))
      BY <1>5, <1>8 DEF RunInv, Functions, SockInv, SockFunctions
    <2>2. ASSUME j \in Sockets PROVE SockOf(j)'
      <3>1. sock[j] = "open" => LastFrame(j)' = exit
        BY <1>3, <1>4, <2>2 DEF SockInv, SockOf, LastFrame
      <3>2. sock[j] # "open" => LastFrame(j)' = LastFrame(j)
        BY <1>4, <2>2 DEF LastFrame
      <3>3. CompileErrored(j)' <=> CompileErrored(j)
        BY <1>5 DEF CompileErrored, ExitCode
      <3>4. SockOf(j)
        BY <2>2 DEF SockInv
      <3> QED BY <1>4, <1>5, <2>1, <2>2, <3>1, <3>2, <3>3, <3>4 DEF SockOf, exit
    <2>3. j \in Requests => answer'[j] = 0
      BY <1>5 DEF SockInv
    <2> QED BY <1>6, <2>2, <2>3, OneSocketMoves
  <1> QED BY <1>7, <1>8

\* The server closes a socket, with or without an error frame.
LEMMA ClosingSends ==
  ASSUME SockInv, NEW s \in Sockets, NotifyError(s)
  PROVE  /\ sock' = [sock EXCEPT ![s] = sock'[s]]
         /\ closeCode' = [closeCode EXCEPT ![s] = closeCode'[s]]
         /\ frames' = [frames EXCEPT ![s] = frames'[s]] /\ frames'[s] \in Seq(Frames)
         /\ IF sock[s] = "open"
            THEN sock'[s] = "closing" /\ closeCode'[s] = 4002 /\ LastFrame(s)' = Frame("error", "message")
            ELSE sock'[s] = sock[s] /\ closeCode'[s] = closeCode[s] /\ frames'[s] = frames[s]
  <1> DEFINE error == Frame("error", "message")
  <1>1. error \in Frames
    BY FramesAre
  <1>2. \A said \in Seq(Frames) : said \o <<error>> \in Seq(Frames) /\ (said \o <<error>>)[Len(said \o <<error>>)] = error
    BY <1>1, SentOne
  <1>3. Send(s, <<error>>) /\ Close(s, 4002)
    BY DEF NotifyError
  <1> HIDE DEF error
  <1>4. /\ frames' = [frames EXCEPT ![s] = frames'[s]] /\ frames'[s] \in Seq(Frames)
        /\ frames'[s] = IF sock[s] = "open" THEN frames[s] \o <<error>> ELSE frames[s]
    <2>1. s \in Jobs /\ Send(s, <<error>>) /\ \A said \in Seq(Frames) : said \o <<error>> \in Seq(Frames)
      BY <1>2, <1>3 DEF Jobs
    <2> QED BY <2>1, SendsOn
  <1>5. sock[s] = "open" => LastFrame(s)' = error
    BY <1>2, <1>4 DEF LastFrame, SockInv, SockOf
  <1>6. /\ sock' = [sock EXCEPT ![s] = sock'[s]]
        /\ closeCode' = [closeCode EXCEPT ![s] = closeCode'[s]]
        /\ IF sock[s] = "open" THEN sock'[s] = "closing" /\ closeCode'[s] = 4002
           ELSE sock'[s] = sock[s] /\ closeCode'[s] = closeCode[s]
    BY <1>3 DEF Close, SockInv, SockFunctions
  <1> QED BY <1>4, <1>5, <1>6 DEF error

LEMMA SettlesSocket ==
  ASSUME RunInv, SockInv, NEW j \in Jobs, NEW ok \in BOOLEAN, Settle(j, ok), ok => outcome[j] = "ok"
  PROVE  SockInv'
  <1>1. pc[j] = "cleanup" /\ pc' = [pc EXCEPT ![j] = "settled"] /\ pc'[j] = "settled" /\ UNCHANGED <<stage, meta, outcome>>
    BY DEF Settle, stageVars, RunInv, Functions
  <1>2. CASE j \in Requests
    <2>1. SockMoves(j) /\ j \notin Sockets
      <3>1. (\E a : answer' = [answer EXCEPT ![j] = a]) /\ UNCHANGED <<sock, closeCode, frames>>
        BY <1>2 DEF Settle
      <3>2. answer' = [answer EXCEPT ![j] = answer'[j]]
        BY <3>1, Changed DEF SockInv, SockFunctions
      <3>3. JobMoves(j)
        BY <1>1 DEF JobMoves, PCs
      <3>4. j \notin Sockets
        BY <1>2, SessionsAssumption
      <3> QED BY <1>1, <3>1, <3>2, <3>3, <3>4, JobKept, MetaKept, SocketKept DEF SockMoves
    <2> QED BY <1>1, <2>1, OneSocketMoves
  <1>3. CASE j \notin Requests
    <2>1. j \in Sockets /\ UNCHANGED answer
      BY <1>3 DEF Jobs, Settle
    <2>2. CASE ok
      <3>1. Close(j, 4999) /\ UNCHANGED frames
        BY <1>3, <2>2 DEF Settle
      <3>2. SockMoves(j)
        <4>1. JobMoves(j)
          BY <1>1 DEF JobMoves, PCs
        <4>2. sock' = [sock EXCEPT ![j] = sock'[j]] /\ closeCode' = [closeCode EXCEPT ![j] = closeCode'[j]]
          BY <2>1, <3>1, Closes
        <4>3. pc' = [pc EXCEPT ![j] = pc'[j]] /\ stage' = [stage EXCEPT ![j] = stage'[j]]
              /\ outcome' = [outcome EXCEPT ![j] = outcome'[j]]
          BY <4>1, JobKept
        <4>4. meta' = [meta EXCEPT ![j] = meta'[j]] /\ answer' = [answer EXCEPT ![j] = answer'[j]]
          BY <1>1, <2>1, MetaKept, AnswerKept
        <4>5. frames' = [frames EXCEPT ![j] = frames'[j]]
          BY <3>1, SocketKept
        <4> QED BY <4>2, <4>3, <4>4, <4>5 DEF SockMoves
      <3>3. IF sock[j] = "open" THEN sock'[j] = "closing" /\ closeCode'[j] = 4999
            ELSE sock'[j] = sock[j] /\ closeCode'[j] = closeCode[j]
        BY <2>1, <3>1 DEF Close, SockInv, SockFunctions
      <3>4. (CompileErrored(j)' <=> CompileErrored(j)) /\ LastFrame(j)' = LastFrame(j) /\ SockOf(j)
        BY <1>1, <2>1, <3>1 DEF CompileErrored, ExitCode, LastFrame, SockInv
      <3>5. SockOf(j)'
        BY <1>1, <2>2, <3>1, <3>3, <3>4 DEF SockOf
      <3> QED BY <1>3, <3>2, <3>5, OneSocketMoves
    <2>3. CASE ~ok
      <3>1. NotifyError(j)
        BY <1>3, <2>3 DEF Settle
      <3>2. /\ sock' = [sock EXCEPT ![j] = sock'[j]]
            /\ closeCode' = [closeCode EXCEPT ![j] = closeCode'[j]]
            /\ frames' = [frames EXCEPT ![j] = frames'[j]] /\ frames'[j] \in Seq(Frames)
            /\ IF sock[j] = "open"
               THEN sock'[j] = "closing" /\ closeCode'[j] = 4002 /\ LastFrame(j)' = Frame("error", "message")
               ELSE sock'[j] = sock[j] /\ closeCode'[j] = closeCode[j] /\ frames'[j] = frames[j]
        BY <2>1, <3>1, ClosingSends
      <3>3. SockMoves(j)
        <4>1. JobMoves(j)
          BY <1>1 DEF JobMoves, PCs
        <4> QED BY <1>1, <2>1, <3>2, <4>1, JobKept, MetaKept, AnswerKept DEF SockMoves
      <3>4. (CompileErrored(j)' <=> CompileErrored(j)) /\ SockOf(j)
            /\ (frames'[j] = frames[j] => LastFrame(j)' = LastFrame(j))
        BY <1>1, <2>1 DEF CompileErrored, ExitCode, LastFrame, SockInv
      <3>5. SockOf(j)'
        BY <1>1, <3>2, <3>4 DEF SockOf
      <3> QED BY <1>3, <3>3, <3>5, OneSocketMoves
    <2> QED BY <2>2, <2>3
  <1> QED BY <1>2, <1>3

\* What a client does to its socket while its job stays where it is.
LEMMA SocketOnly ==
  ASSUME RunInv, SockInv, NEW s \in Sockets, UNCHANGED <<pc, stage, meta, outcome, answer>>,
         \/ Open(s) \/ BadMessage(s) \/ DataMessage(s) \/ BadSignal(s) \/ InitTimer(s)
         \/ pc[s] # "idle" /\ Close(s, 4000) /\ UNCHANGED frames
  PROVE  SockInv'
  <1>1. s \in Jobs /\ s \notin Requests /\ SockOf(s)
    BY SessionsAssumption DEF Jobs, SockInv
  <1>2. (CompileErrored(s)' <=> CompileErrored(s)) /\ (frames'[s] = frames[s] => LastFrame(s)' = LastFrame(s))
    BY DEF CompileErrored, ExitCode, LastFrame
  <1>0. JobMoves(s)
    BY DEF JobMoves
  <1>3. CASE BadMessage(s)
    <2>1. /\ sock' = [sock EXCEPT ![s] = sock'[s]]
          /\ closeCode' = [closeCode EXCEPT ![s] = closeCode'[s]]
          /\ frames' = [frames EXCEPT ![s] = frames'[s]] /\ frames'[s] \in Seq(Frames)
          /\ sock'[s] = "closing" /\ closeCode'[s] = 4002
          /\ LastFrame(s)' = Frame("error", "message")
      BY <1>3, ClosingSends DEF BadMessage, Delivered
    <2>2. SockMoves(s)
      BY <1>0, <1>1, <2>1, JobKept, MetaKept, AnswerKept DEF SockMoves
    <2>3. SockOf(s)'
      BY <1>1, <2>1 DEF SockOf
    <2> QED BY <1>1, <2>2, <2>3, OneSocketMoves
  <1>4. ASSUME NEW code \in {4000, 4001, 4003, 4004, 4005}, Close(s, code), UNCHANGED frames,
               IF code \in {4001, 4003} THEN pc[s] = "idle" ELSE pc[s] # "idle"
        PROVE  SockInv'
    <2>1. SockMoves(s)
      BY <1>0, <1>1, <1>4, JobKept, MetaKept, SocketKept, AnswerKept, Closes DEF SockMoves
    <2>2. IF sock[s] = "open" THEN sock'[s] = "closing" /\ closeCode'[s] = code
          ELSE sock'[s] = sock[s] /\ closeCode'[s] = closeCode[s]
      BY <1>4, Closes
    <2>3. SockOf(s)'
      BY <1>1, <1>2, <1>4, <2>2 DEF SockOf
    <2> QED BY <1>1, <2>1, <2>3, OneSocketMoves
  <1>5. CASE InitTimer(s) /\ pc[s] # "idle"
    BY <1>5, NoSocketMoves DEF InitTimer
  <1>6. CASE Open(s)
    <2>1. SockMoves(s) /\ sock[s] = "connecting" /\ sock'[s] = "open" /\ UNCHANGED <<closeCode, frames>>
      <3>1. /\ sock' = [sock EXCEPT ![s] = "open"] /\ sock[s] = "connecting"
            /\ UNCHANGED <<closeCode, frames>>
        BY <1>6 DEF Open
      <3>2. sock' = [sock EXCEPT ![s] = sock'[s]] /\ sock'[s] = "open"
        BY <3>1 DEF SockInv, SockFunctions
      <3> QED BY <1>0, <1>1, <3>1, <3>2, JobKept, MetaKept, SocketKept, AnswerKept DEF SockMoves
    <2>2. pc[s] = "idle"
      BY <2>1, <1>1 DEF SockOf
    <2>3. SockOf(s)'
      BY <1>1, <1>2, <2>1, <2>2 DEF SockOf
    <2> QED BY <1>1, <2>1, <2>3, OneSocketMoves
  <1> QED BY <1>3, <1>4, <1>5, <1>6 DEF DataMessage, BadSignal, InitTimer

\* A signal, or the end of the connection, to the stage that runs.
LEMMA KilledSocket ==
  ASSUME RunInv, SockInv, NEW s \in Sockets, SignalMessage(s) \/ CloseEvent(s)
  PROVE  SockInv'
  <1>1. s \in Jobs /\ s \notin Requests /\ SockOf(s)
    BY SessionsAssumption DEF Jobs, SockInv
  <1>2. /\ UNCHANGED <<pc, stage, outcome, answer, closeCode, frames>>
        /\ meta' = [meta EXCEPT ![s] = meta'[s]] /\ (meta'[s] # meta[s] => pc[s] = "stage")
        /\ sock' = [sock EXCEPT ![s] = sock'[s]] /\ sock'[s] \in {sock[s], "closed"}
    BY <1>1 DEF SignalMessage, CloseEvent, KillStage, socketVars, RunInv, RunOf, Functions,
       SockInv, SockFunctions
  <1>3. SockMoves(s)
    BY <1>2 DEF SockMoves, RunInv, Functions, SockInv, SockFunctions
  <1>4. pc[s] # "stage" => (CompileErrored(s)' <=> CompileErrored(s))
    BY <1>2 DEF CompileErrored, ExitCode
  <1>5. SockOf(s)'
    BY <1>1, <1>2, <1>4 DEF SockOf, LastFrame
  <1> QED BY <1>1, <1>3, <1>5, OneSocketMoves

LEMMA BeginSocket ==
  ASSUME RunInv, SockInv, NEW j \in Jobs, pc[j] = "idle", BeginPrime(j),
         UNCHANGED <<stageVars, outcome, answer, socketVars>>,
         IF j \in Sockets THEN sock[j] = "open" ELSE answer[j] = 0
  PROVE  SockInv'
  <1>1. pc' = [pc EXCEPT ![j] = pc'[j]] /\ pc'[j] \in {"acquiring", "initBox"}
    BY DEF BeginPrime, RunInv, Functions
  <1>2. SockMoves(j)
    BY <1>1 DEF SockMoves, stageVars, socketVars, RunInv, Functions, SockInv, SockFunctions
  <1>3. j \in Sockets => SockOf(j)'
    BY <1>1 DEF SockInv, SockOf, LastFrame, stageVars, socketVars
  <1>4. j \in Requests => answer'[j] = 0
    BY SessionsAssumption
  <1> QED BY <1>2, <1>3, <1>4, OneSocketMoves

LEMMA SockNext == PairingInv /\ HeldInv /\ RunInv /\ SockInv /\ [Next]_vars => SockInv'
  <1> SUFFICES ASSUME PairingInv, HeldInv, RunInv, SockInv, [Next]_vars PROVE SockInv'
    OBVIOUS
  <1>1. ASSUME NEW j \in Jobs, CleanupDone(j) \/ CleanupThrows(j) PROVE SockInv'
    BY <1>1, SettlesSocket DEF CleanupDone, CleanupThrows
  <1>2. ASSUME NEW j \in Jobs, JobStep(j) \/ ProcEnds(j) PROVE SockInv'
    BY <1>1, <1>2, QuietGoesOn, SendingGoesOn, FinishesGoesOn DEF JobStep
  <1>3. ASSUME NEW r \in Requests, Execute(r) PROVE SockInv'
    <2>1. r \in Jobs /\ r \notin Sockets /\ pc[r] = "idle" /\ answer[r] = 0
      BY <1>3, SessionsAssumption DEF Execute, Jobs
    <2>2. CASE BeginPrime(r) /\ UNCHANGED answer
      BY <1>3, <2>1, <2>2, BeginSocket DEF Execute
    <2>3. CASE answer' = [answer EXCEPT ![r] = 400] /\ UNCHANGED pc
      <3>1. SockMoves(r)
        <4>1. UNCHANGED <<stage, meta, outcome, sock, closeCode, frames>>
          BY <1>3 DEF Execute, stageVars, socketVars
        <4>2. answer' = [answer EXCEPT ![r] = answer'[r]]
          BY <2>3, Changed DEF SockInv, SockFunctions
        <4>3. JobMoves(r)
          BY <2>3, <4>1 DEF JobMoves
        <4> QED BY <2>1, <4>1, <4>2, <4>3, JobKept, MetaKept, SocketKept DEF SockMoves
      <3> QED BY <2>1, <2>3, <3>1, OneSocketMoves
    <2> QED BY <1>3, <2>2, <2>3 DEF Execute
  <1>4. ASSUME NEW s \in Sockets, InitMessage(s) PROVE SockInv'
    <2>1. s \in Jobs /\ sock[s] = "open" /\ UNCHANGED <<stageVars, outcome, answer, timer, frames>>
      BY <1>4 DEF InitMessage, Jobs, Delivered
    <2>2. CASE pc[s] = "idle"
      BY <1>4, <2>1, <2>2, BeginSocket DEF InitMessage, socketVars
    <2>3. CASE pc[s] # "idle"
      BY <1>4, <2>1, <2>3, SocketOnly DEF InitMessage, stageVars
    <2> QED BY <2>2, <2>3
  <1>5. ASSUME NEW s \in Sockets, Open(s) \/ BadMessage(s) \/ DataMessage(s) \/ BadSignal(s) \/ InitTimer(s)
        PROVE  SockInv'
    <2>1. UNCHANGED <<pc, stage, meta, outcome, answer>>
      BY <1>5 DEF Open, BadMessage, DataMessage, BadSignal, InitTimer, stageVars
    <2> QED BY <1>5, <2>1, SocketOnly
  <1>6. ASSUME NEW s \in Sockets, SignalMessage(s) \/ CloseEvent(s) PROVE SockInv'
    BY <1>6, KilledSocket
  <1>7. CASE UNCHANGED vars
    BY <1>7, NoSocketMoves DEF vars, stageVars, socketVars
  <1> QED BY <1>2, <1>3, <1>4, <1>5, <1>6, <1>7 DEF Next, ClientStep

LEMMA SockInvariant == Spec => []SockInv
  BY SockInit, SockNext, RunInvariant, HeldInvariant, PTL DEF Spec

(* Whichever stage runs when its socket closes is killed, for any runtimes *)
(* and any number of sockets (v2.ts:613-616, typed_emitter.ts:4-7).        *)
THEOREM CloseKillsRunningStageHolds == Spec => CloseKillsRunningStage
  <1> DEFINE Kills == \A s \in Sockets :
                sock'[s] = "closed" /\ sock[s] # "closed" /\ pc[s] = "stage" => proc'[s] # "alive"
  <1>1. RunInv /\ SockInv /\ [Next]_vars => [Kills]_vars
    <2> SUFFICES ASSUME RunInv, SockInv, Next, NEW s \in Sockets,
                        sock'[s] = "closed", sock[s] # "closed", pc[s] = "stage"
                 PROVE  proc'[s] # "alive"
      OBVIOUS
    <2>1. CloseEvent(s)
      <3>1. \A j \in Jobs : JobStep(j) \/ ProcEnds(j) => sock'[s] # "closed"
        BY DEF JobStep, Woken, BoxReady, PrimeFails, FilesWritten, NoCodeFile, SpawnError,
           ExitEvent,
               MetaMissing, StageFinished, SecondBoxReady, FilesMoved, CleanupDone,
               CleanupThrows, Settle, ProcEnds,
               Close, NotifyError, Throw, socketVars, SockInv, SockFunctions
      <3>2. \A r \in Requests : Execute(r) => sock'[s] # "closed"
        BY DEF Execute, socketVars
      <3>3. \A t \in Sockets : ClientStep(t) \/ InitTimer(t) => sock'[s] # "closed"
        BY DEF ClientStep, Open, BadMessage, InitMessage, DataMessage, SignalMessage,
           BadSignal, InitTimer,
               Close, NotifyError, socketVars, SockInv, SockFunctions
      <3>4. \A t \in Sockets : CloseEvent(t) => t = s
        BY DEF CloseEvent, SockInv, SockFunctions
      <3> QED BY <3>1, <3>2, <3>3, <3>4 DEF Next
    <2> QED BY <2>1 DEF CloseEvent, KillStage, RunInv, RunOf, Functions, Jobs
  <1> QED BY <1>1, RunInvariant, SockInvariant, PTL DEF Spec, CloseKillsRunningStage

(* The slots held are those of the jobs that are between prime and cleanup,*)
(* as many as the counter is short of, and none of a job that was answered *)
(* (v2.ts:213-220, 564-568).                                               *)
THEOREM SlotsHeldByJobsHolds == Spec => []SlotsHeldByJobs
  <1>1. /\ available = Capacity - Cardinality(held) /\ HeldInv /\ SockInv => SlotsHeldByJobs
    <2> SUFFICES ASSUME available = Capacity - Cardinality(held), HeldInv, SockInv PROVE SlotsHeldByJobs
      OBVIOUS
    <2>1. \A j \in held : pc[j] \notin {"idle", "settled"}
      BY DEF HeldInv, HoldsSlot
    <2>2. \A r \in Requests : answer[r] # 0 => r \notin held
      BY <2>1 DEF SockInv
    <2>3. \A s \in Sockets : closeCode[s] = 4999 => s \notin held
      BY <2>1 DEF SockInv, SockOf
    <2> QED BY <2>2, <2>3 DEF SlotsHeldByJobs, HeldInv
  <1> QED BY <1>1, SlotsOfJobs, HeldInvariant, SockInvariant, PTL

(* No close code says of a job what did not happen to it, whoever closed   *)
(* the connection and in whatever order (protocol.ts:94-105).              *)
THEOREM CloseCodesTellTheTruthHolds == Spec => []CloseCodesTellTheTruth
  <1>1. SockInv => CloseCodesTellTheTruth
    BY DEF SockInv, SockOf, LastFrame, CloseCodesTellTheTruth
  <1> QED BY <1>1, SockInvariant, PTL

-----------------------------------------------------------------------------
(* A conversation: how much of it has been said when the job is where it is.*)

Told == {"runtime", "stage", "exit", "error"} \X {"info", "message", "compile", "run"}

Talking(s) == sock[s] \in {"connecting", "open"} /\ pc[s] \notin {"cleanup", "settled"}

\* The frames that have been sent before the job waits where it does.
Reached(s) ==
    IF pc[s] \in {"stage", "readMeta"}
    THEN IF stage[s] = "run" /\ s \in Compiled THEN 4 ELSE 2
    ELSE IF pc[s] \in {"initBox2", "moveFiles"} THEN 3 ELSE 0

Said(s, n) == SubSeq(Conversation(s), 1, n)

SpeechOf(s) ==
    /\ pc[s] \in {"stage", "readMeta"} =>
          stage[s] = "run" \/ (stage[s] = "compile" /\ s \in Compiled)
    /\ pc[s] \in {"initBox2", "moveFiles"} => s \in Compiled
    /\ \E n \in 0..Len(Conversation(s)) :
          \/ frames[s] = Said(s, n) /\ (Talking(s) => n = Reached(s))
          \/ frames[s] = Append(Said(s, n), Frame("error", "message")) /\ closeCode[s] = 4002

SpeechInv == \A s \in Sockets : SpeechOf(s)

LEMMA ToldAre ==
  ASSUME NEW type \in {"runtime", "stage", "exit", "error"},
         NEW what \in {"info", "message", "compile", "run"}
  PROVE  Frame(type, what) \in Told
  BY DEF Frame, Told

LEMMA ConversationIs ==
  ASSUME NEW s
  PROVE  LET c == Conversation(s) IN
         /\ c \in Seq(Told) /\ Len(c) = IF s \in Compiled THEN 5 ELSE 3
         /\ c[1] = Frame("runtime", "info")
         /\ c[2] = Frame("stage", FirstStage(s))
         /\ c[3] = Frame("exit", FirstStage(s))
         /\ s \in Compiled => c[4] = Frame("stage", "run") /\ c[5] = Frame("exit", "run")
  <1> DEFINE a == <<Frame("runtime", "info")>>
             b == <<Frame("stage", "compile"), Frame("exit", "compile")>>
             d == <<Frame("stage", "run"), Frame("exit", "run")>>
             m == IF s \in Compiled THEN b ELSE <<>>
  <1>1. /\ a \in Seq(Told) /\ Len(a) = 1 /\ a[1] = Frame("runtime", "info")
        /\ b \in Seq(Told) /\ Len(b) = 2 /\ b[1] = Frame("stage", "compile") /\ b[2] = Frame("exit", "compile")
        /\ d \in Seq(Told) /\ Len(d) = 2 /\ d[1] = Frame("stage", "run") /\ d[2] = Frame("exit", "run")
        /\ <<>> \in Seq(Told) /\ Len(<<>>) = 0
    BY ToldAre
  <1>2. Conversation(s) = (a \o m) \o d
    BY DEF Conversation
  <1> HIDE DEF a, b, d
  <1>3. CASE s \in Compiled
    <2>1. m = b /\ FirstStage(s) = "compile"
      BY <1>3 DEF FirstStage
    <2> HIDE DEF m
    <2>2. /\ a \o b \in Seq(Told) /\ Len(a \o b) = 3
          /\ (a \o b)[1] = a[1] /\ (a \o b)[2] = b[1] /\ (a \o b)[3] = b[2]
      <3>1. /\ a \o b \in Seq(Told) /\ Len(a \o b) = Len(a) + Len(b)
            /\ \A i \in 1..Len(a) + Len(b) : (a \o b)[i] = IF i <= Len(a) THEN a[i] ELSE b[i - Len(a)]
        BY <1>1, ConcatProperties
      <3>2. Len(a) = 1 /\ Len(b) = 2
        BY <1>1
      <3> QED BY <3>1, <3>2
    <2> DEFINE e == a \o b
    <2>3. /\ e \o d \in Seq(Told) /\ Len(e \o d) = 5
          /\ (e \o d)[1] = e[1] /\ (e \o d)[2] = e[2] /\ (e \o d)[3] = e[3]
          /\ (e \o d)[4] = d[1] /\ (e \o d)[5] = d[2]
      <3>1. e \in Seq(Told) /\ Len(e) = 3
        BY <2>2
      <3> HIDE DEF e
      <3>2. /\ e \o d \in Seq(Told) /\ Len(e \o d) = Len(e) + Len(d)
            /\ \A i \in 1..Len(e) + Len(d) : (e \o d)[i] = IF i <= Len(e) THEN e[i] ELSE d[i - Len(e)]
        BY <1>1, <3>1, ConcatProperties
      <3>3. Len(d) = 2
        BY <1>1
      <3> QED BY <3>1, <3>2, <3>3
    <2>4. Conversation(s) = e \o d
      BY <1>2, <2>1
    <2> QED BY <1>1, <1>3, <2>1, <2>2, <2>3, <2>4
  <1>4. CASE s \notin Compiled
    <2>1. m = <<>> /\ FirstStage(s) = "run"
      BY <1>4 DEF FirstStage
    <2> HIDE DEF m
    <2>2. a \o m = a
      BY <1>1, <2>1, ConcatEmptySeq
    <2>3. /\ a \o d \in Seq(Told) /\ Len(a \o d) = 3
          /\ (a \o d)[1] = a[1] /\ (a \o d)[2] = d[1] /\ (a \o d)[3] = d[2]
      <3>1. /\ a \o d \in Seq(Told) /\ Len(a \o d) = Len(a) + Len(d)
            /\ \A i \in 1..Len(a) + Len(d) : (a \o d)[i] = IF i <= Len(a) THEN a[i] ELSE d[i - Len(a)]
        BY <1>1, ConcatProperties
      <3>2. Len(a) = 1 /\ Len(d) = 2
        BY <1>1
      <3> QED BY <3>1, <3>2
    <2>4. Conversation(s) = a \o d
      BY <1>2, <2>2
    <2> QED BY <1>1, <1>4, <2>1, <2>3, <2>4
  <1> QED BY <1>3, <1>4

LEMMA LengthIs == ASSUME NEW s PROVE Len(Conversation(s)) \in {3, 5}
  BY ConversationIs

\* The next frame, and the first two.
LEMMA SaidMore ==
  ASSUME NEW s, NEW n \in 0..(Len(Conversation(s)) - 1)
  PROVE  Said(s, n) \o <<Conversation(s)[n + 1]>> = Said(s, n + 1)
  <1>1. Conversation(s) \in Seq(Told) /\ Len(Conversation(s)) \in Nat
    BY ConversationIs
  <1>2. n + 1 \in 1..Len(Conversation(s)) /\ 1 \in 1..Len(Conversation(s)) /\ (n + 1) - 1 = n
    BY <1>1
  <1>3. SubSeq(Conversation(s), 1, n + 1)
           = SubSeq(Conversation(s), 1, (n + 1) - 1) \o <<Conversation(s)[n + 1]>>
    BY <1>1, <1>2, SubSeqRecursiveSecond
  <1> QED BY <1>2, <1>3 DEF Said

LEMMA SaidFirst ==
  ASSUME NEW s
  PROVE  /\ Said(s, 0) = <<>>
         /\ Said(s, 0) \o <<Frame("runtime", "info")>> = Said(s, 1)
         /\ Said(s, 0) \o <<Frame("runtime", "info"), Frame("stage", FirstStage(s))>> = Said(s, 2)
  <1> DEFINE f == Frame("runtime", "info")
             g == Frame("stage", FirstStage(s))
  <1>1. /\ Len(Conversation(s)) \in {3, 5}
        /\ Conversation(s)[1] = f /\ Conversation(s)[2] = g
    BY ConversationIs
  <1>2. f \in Told /\ g \in Told
    BY ToldAre DEF FirstStage
  <1> HIDE DEF f, g
  <1>3. Said(s, 0) = <<>>
    BY SubSeqEmpty DEF Said
  <1>4. Said(s, 0) \o <<f>> = Said(s, 1)
    BY <1>1, SaidMore
  <1>5. Said(s, 1) \o <<g>> = Said(s, 2)
    BY <1>1, SaidMore
  <1>6. <<>> \o <<f, g>> = (<<>> \o <<f>>) \o <<g>>
    <2>1. <<f>> \in Seq(Told) /\ <<g>> \in Seq(Told) /\ <<f, g>> \in Seq(Told)
      BY <1>2
    <2>2. <<>> \o <<f, g>> = <<f, g>> /\ <<>> \o <<f>> = <<f>>
      BY <2>1, ConcatEmptySeq
    <2>3. /\ <<f>> \o <<g>> \in Seq(Told) /\ Len(<<f>> \o <<g>>) = 2
          /\ (<<f>> \o <<g>>)[1] = f /\ (<<f>> \o <<g>>)[2] = g
      BY <2>1, ConcatProperties
    <2>4. Len(<<f, g>>) = 2 /\ <<f, g>>[1] = f /\ <<f, g>>[2] = g
      OBVIOUS
    <2>5. <<f>> \o <<g>> = <<f, g>>
      <3>1. \A i \in 1..2 : (<<f>> \o <<g>>)[i] = <<f, g>>[i]
        BY <2>3, <2>4
      <3> QED BY <2>1, <2>3, <2>4, <3>1, SeqEqual
    <2> QED BY <2>2, <2>5
  <1> QED BY <1>3, <1>4, <1>5, <1>6 DEF f, g

LEMMA SaidTold ==
  ASSUME NEW s, NEW n \in 0..Len(Conversation(s))
  PROVE  Said(s, n) \in Seq(Told)
  <1>1. Conversation(s) \in Seq(Told) /\ \A i \in 1..n : Conversation(s)[i] \in Told
    BY ConversationIs, ElementOfSeq
  <1> QED BY <1>1, SubSeqProperties DEF Said

\* What a step leaves of a connection that it does not send on.
Quiet(s) ==
    /\ frames'[s] = frames[s]
    /\ closeCode[s] = 4002 => closeCode'[s] = 4002
    /\ Talking(s)' => Talking(s) /\ Reached(s)' = Reached(s)

\* A step that sends the next frames while the connection is open.
Tells(s, fs) ==
    /\ frames'[s] = IF sock[s] = "open" THEN frames[s] \o fs ELSE frames[s]
    /\ UNCHANGED closeCode /\ sock'[s] = sock[s]

\* What it sends takes the conversation from where the job was to its frame
\* m, and the job with it.
TakesTo(s, fs, m) ==
    /\ m \in 0..Len(Conversation(s)) /\ Said(s, Reached(s)) \o fs = Said(s, m)
    /\ Talking(s)' => Reached(s)' = m

\* Where a job is among its stages.
Placed(s) ==
    /\ pc[s] \in {"stage", "readMeta"} =>
          stage[s] = "run" \/ (stage[s] = "compile" /\ s \in Compiled)
    /\ pc[s] \in {"initBox2", "moveFiles"} => s \in Compiled

LEMMA QuietSpeech ==
  ASSUME NEW s, SpeechOf(s), Quiet(s), Placed(s)'
  PROVE  SpeechOf(s)'
  <1>1. Conversation(s)' = Conversation(s) /\ \A n : Said(s, n)' = Said(s, n)
    BY DEF Conversation, Said, Frame
  <1>2. PICK n \in 0..Len(Conversation(s)) :
          \/ frames[s] = Said(s, n) /\ (Talking(s) => n = Reached(s))
          \/ frames[s] = Append(Said(s, n), Frame("error", "message")) /\ closeCode[s] = 4002
    BY DEF SpeechOf
  <1>3. \/ frames'[s] = Said(s, n)' /\ (Talking(s)' => n = Reached(s)')
        \/ frames'[s] = Append(Said(s, n)', Frame("error", "message")) /\ closeCode'[s] = 4002
    BY <1>1, <1>2 DEF Quiet
  <1> QED BY <1>1, <1>2, <1>3 DEF SpeechOf, Placed, Frame

\* The next frames are sent by a job that goes on by as many, or ends.
LEMMA TellingSpeech ==
  ASSUME NEW s, SpeechOf(s), NEW fs, Tells(s, fs), Placed(s)',
         sock[s] # "connecting", sock[s] = "open" => closeCode[s] # 4002,
         pc[s] \notin {"cleanup", "settled"},
         NEW m, TakesTo(s, fs, m)
  PROVE  SpeechOf(s)'
  <1>1. Conversation(s)' = Conversation(s) /\ \A n : Said(s, n)' = Said(s, n)
    BY DEF Conversation, Said, Frame
  <1>2. PICK n \in 0..Len(Conversation(s)) :
          \/ frames[s] = Said(s, n) /\ (Talking(s) => n = Reached(s))
          \/ frames[s] = Append(Said(s, n), Frame("error", "message")) /\ closeCode[s] = 4002
    BY DEF SpeechOf
  <1>3. CASE sock[s] = "open"
    <2>1. Talking(s) /\ frames[s] = Said(s, n) /\ n = Reached(s)
      BY <1>2, <1>3 DEF Talking
    <2>2. frames'[s] = Said(s, m)
      BY <1>3, <2>1 DEF Tells, TakesTo
    <2> QED BY <1>1, <2>1, <2>2 DEF SpeechOf, Placed, TakesTo, Frame
  <1>4. CASE sock[s] # "open"
    <2>1. ~Talking(s)' /\ frames'[s] = frames[s] /\ closeCode'[s] = closeCode[s]
      BY <1>4 DEF Talking, Tells
    <2> QED BY <2>1, QuietSpeech DEF Quiet
  <1> QED BY <1>3, <1>4

\* An error frame and code 4002, or nothing.
LEMMA ErrorSpeech ==
  ASSUME SockInv, NEW s \in Sockets, SpeechOf(s), NotifyError(s), Placed(s)', sock[s] # "connecting"
  PROVE  SpeechOf(s)'
  <1>1. Conversation(s)' = Conversation(s) /\ \A n : Said(s, n)' = Said(s, n)
    BY DEF Conversation, Said, Frame
  <1>2. PICK n \in 0..Len(Conversation(s)) :
          \/ frames[s] = Said(s, n) /\ (Talking(s) => n = Reached(s))
          \/ frames[s] = Append(Said(s, n), Frame("error", "message")) /\ closeCode[s] = 4002
    BY DEF SpeechOf
  <1>3. SockOf(s) /\ SockFunctions
    BY DEF SockInv
  <1>4. CASE sock[s] = "open"
    <2>1. closeCode[s] # 4002 /\ frames[s] = Said(s, n)
      BY <1>2, <1>3, <1>4 DEF SockOf
    <2>2. frames'[s] = frames[s] \o <<Frame("error", "message")>> /\ closeCode'[s] = 4002
      BY <1>3, <1>4 DEF NotifyError, Send, Sent, Close, SockFunctions
    <2>3. Said(s, n) \in Seq(Told)
      BY SaidTold
    <2>4. Append(Said(s, n), Frame("error", "message")) = Said(s, n) \o <<Frame("error", "message")>>
      BY <2>3, ToldAre, AppendIsConcat
    <2>5. frames'[s] = Append(Said(s, n)', Frame("error", "message")) /\ closeCode'[s] = 4002
      BY <1>1, <2>1, <2>2, <2>4
    <2>6. n \in 0..Len(Conversation(s)')
      BY <1>1, <1>2
    <2> QED BY <2>5, <2>6 DEF SpeechOf, Placed, Frame
  <1>5. CASE sock[s] # "open"
    <2>1. frames'[s] = frames[s] /\ closeCode'[s] = closeCode[s] /\ sock'[s] = sock[s]
      BY <1>3, <1>5 DEF NotifyError, Send, Sent, Close, SockFunctions
    <2>2. ~Talking(s)'
      BY <1>5, <2>1 DEF Talking
    <2> QED BY <2>1, <2>2, QuietSpeech DEF Quiet
  <1> QED BY <1>4, <1>5

\* A step of another job or on another connection.
LEMMA Elsewhere ==
  ASSUME RunInv, SockInv, [Next]_vars, NEW s \in Sockets,
         ~(JobStep(s) \/ ProcEnds(s) \/ ClientStep(s) \/ InitTimer(s) \/ CloseEvent(s))
  PROVE  /\ pc'[s] = pc[s] /\ stage'[s] = stage[s] /\ sock'[s] = sock[s]
         /\ closeCode'[s] = closeCode[s] /\ frames'[s] = frames[s]
  <1>1. s \in Jobs /\ Functions /\ SockFunctions
    BY DEF Jobs, RunInv, SockInv
  <1>2. ASSUME NEW j \in Jobs \ {s}, JobStep(j) \/ ProcEnds(j)
        PROVE  pc'[s] = pc[s] /\ stage'[s] = stage[s]
    BY <1>1, <1>2 DEF Functions, JobStep, Woken, BoxReady, PrimeFails, FilesWritten, NoCodeFile,
       SpawnError, ExitEvent, MetaMissing, StageFinished, SecondBoxReady, FilesMoved, CleanupDone,
       CleanupThrows, Settle, ProcEnds, StartStage, Throw, BeginCleanup, stageVars
  <1>3. ASSUME NEW j \in Jobs \ {s}, JobStep(j) \/ ProcEnds(j)
        PROVE  sock'[s] = sock[s] /\ closeCode'[s] = closeCode[s] /\ frames'[s] = frames[s]
    <2>1. \/ UNCHANGED <<sock, closeCode>>
          \/ Close(j, 4999) \/ Close(j, 4002)
      BY <1>3 DEF JobStep, Woken, BoxReady, PrimeFails, FilesWritten, NoCodeFile, SpawnError, ExitEvent,
         MetaMissing, StageFinished, SecondBoxReady, FilesMoved, CleanupDone, CleanupThrows, Settle,
         ProcEnds, Throw, NotifyError, socketVars
    <2>2. sock'[s] = sock[s] /\ closeCode'[s] = closeCode[s]
      BY <1>1, <2>1 DEF SockFunctions, Close
    <2>3. UNCHANGED frames \/ \E fs : Send(j, fs)
      BY <1>3 DEF JobStep, Woken, BoxReady, PrimeFails, FilesWritten, NoCodeFile, SpawnError, ExitEvent,
         MetaMissing, StageFinished, SecondBoxReady, FilesMoved, CleanupDone, CleanupThrows, Settle,
         ProcEnds, Throw, NotifyError, socketVars
    <2>4. frames'[s] = frames[s]
      BY <1>1, <2>3 DEF SockFunctions, Send, Sent
    <2> QED BY <2>2, <2>4
  <1>4. ASSUME NEW r \in Requests, Execute(r)
        PROVE  /\ pc'[s] = pc[s] /\ stage'[s] = stage[s] /\ sock'[s] = sock[s]
               /\ closeCode'[s] = closeCode[s] /\ frames'[s] = frames[s]
    <2>1. r # s
      BY SessionsAssumption
    <2> QED BY <1>1, <1>4, <2>1 DEF Functions, Execute, BeginPrime, stageVars, socketVars
  <1>5. ASSUME NEW t \in Sockets \ {s}, ClientStep(t) \/ InitTimer(t) \/ CloseEvent(t)
        PROVE  /\ pc'[s] = pc[s] /\ stage'[s] = stage[s] /\ sock'[s] = sock[s]
               /\ closeCode'[s] = closeCode[s] /\ frames'[s] = frames[s]
    <2>1. UNCHANGED stage
      BY <1>5 DEF ClientStep, Open, BadMessage, InitMessage, DataMessage, SignalMessage, BadSignal,
         InitTimer, CloseEvent, KillStage, stageVars
    <2>4. pc'[s] = pc[s]
      <3>1. UNCHANGED pc \/ BeginPrime(t)
        BY <1>5 DEF ClientStep, Open, BadMessage, InitMessage, DataMessage, SignalMessage, BadSignal,
           InitTimer, CloseEvent
      <3> QED BY <1>1, <3>1 DEF BeginPrime, Functions
    <2>2. sock'[s] = sock[s] /\ closeCode'[s] = closeCode[s]
      BY <1>1, <1>5 DEF SockFunctions, ClientStep, Open, BadMessage, InitMessage, DataMessage,
         SignalMessage, BadSignal, InitTimer, CloseEvent, NotifyError, Close, socketVars
    <2>3. frames'[s] = frames[s]
      BY <1>1, <1>5 DEF SockFunctions, ClientStep, Open, BadMessage, InitMessage, DataMessage,
         SignalMessage, BadSignal, InitTimer, CloseEvent, NotifyError, Send, Sent, socketVars
    <2> QED BY <2>1, <2>2, <2>3, <2>4
  <1>6. CASE UNCHANGED vars
    BY <1>6 DEF vars, stageVars, socketVars
  <1> QED BY <1>1, <1>2, <1>3, <1>4, <1>5, <1>6 DEF Next

LEMMA JobQuiet ==
  ASSUME PairingInv, HeldInv, RunInv, SockInv, NEW s \in Sockets, SpeechOf(s),
         Woken(s) \/ BoxReady(s) \/ SecondBoxReady(s) \/ PrimeFails(s) \/ SpawnError(s) \/ MetaMissing(s)
            \/ ExitEvent(s) \/ ProcEnds(s)
  PROVE  SpeechOf(s)'
  <1>1. s \in Jobs /\ Functions
    BY DEF Jobs, RunInv
  <1>2. Woken(s) => pc[s] = "acquiring"
    BY <1>1, WokenParked DEF Woken, HeldInv
  <1>3. UNCHANGED <<stage, sock, closeCode, frames>>
    BY DEF Woken, BoxReady, SecondBoxReady, PrimeFails, SpawnError, MetaMissing, ExitEvent,
       ProcEnds, Throw, stageVars, socketVars
  <1>4. \/ pc'[s] = pc[s]
        \/ pc'[s] = "cleanup"
        \/ pc[s] = "acquiring" /\ pc'[s] = "initBox"
        \/ pc[s] = "initBox" /\ pc'[s] = "writeFiles"
        \/ pc[s] = "initBox2" /\ pc'[s] = "moveFiles"
        \/ pc[s] = "stage" /\ pc'[s] = "readMeta"
    BY <1>1, <1>2 DEF Woken, BoxReady, SecondBoxReady, PrimeFails, SpawnError, MetaMissing, ExitEvent,
       ProcEnds, Throw, BeginCleanup, Functions
  <1>5. Quiet(s) /\ Placed(s)'
    BY <1>3, <1>4 DEF Quiet, Placed, Talking, Reached, SpeechOf
  <1> QED BY <1>5, QuietSpeech

LEMMA ClientQuiet ==
  ASSUME RunInv, SockInv, NEW s \in Sockets, SpeechOf(s),
         Open(s) \/ InitMessage(s) \/ DataMessage(s) \/ SignalMessage(s) \/ BadSignal(s)
            \/ InitTimer(s) \/ CloseEvent(s)
  PROVE  SpeechOf(s)'
  <1>1. s \in Jobs /\ Functions /\ SockFunctions /\ SockOf(s)
    BY DEF Jobs, RunInv, SockInv
  <1>2. UNCHANGED <<stage, frames>>
    BY DEF Open, InitMessage, DataMessage, SignalMessage, BadSignal, InitTimer, CloseEvent, KillStage,
       stageVars, socketVars
  <1>3. pc'[s] = pc[s] \/ (pc[s] = "idle" /\ pc'[s] \in {"acquiring", "initBox"})
    BY <1>1 DEF Open, InitMessage, DataMessage, SignalMessage, BadSignal, InitTimer, CloseEvent,
       BeginPrime, Functions
  <1>4. /\ sock'[s] \in {"connecting", "open"} => sock[s] \in {"connecting", "open"}
        /\ sock[s] \in {"closing", "closed"} => closeCode'[s] = closeCode[s]
    BY <1>1 DEF Open, InitMessage, DataMessage, SignalMessage, BadSignal, InitTimer, CloseEvent,
       Close, SockFunctions, socketVars
  <1>5. closeCode[s] = 4002 => sock[s] \in {"closing", "closed"}
    BY <1>1 DEF SockOf
  <1>6. Quiet(s) /\ Placed(s)'
    BY <1>2, <1>3, <1>4, <1>5 DEF Quiet, Placed, Talking, Reached, SpeechOf
  <1> QED BY <1>6, QuietSpeech

LEMMA JobTells ==
  ASSUME RunInv, SockInv, NEW s \in Sockets, SpeechOf(s),
         FilesWritten(s) \/ NoCodeFile(s) \/ FilesMoved(s) \/ StageFinished(s)
  PROVE  SpeechOf(s)'
  <1>1. s \in Jobs /\ Functions /\ SockFunctions /\ SockOf(s)
    BY DEF Jobs, RunInv, SockInv
  <1>2. pc[s] \notin {"idle", "cleanup", "settled"}
    BY DEF FilesWritten, NoCodeFile, FilesMoved, StageFinished
  <1>3. sock[s] # "connecting" /\ (sock[s] = "open" => closeCode[s] # 4002)
    BY <1>1, <1>2 DEF SockOf
  <1>4. ASSUME NEW fs, Send(s, fs), UNCHANGED <<sock, closeCode>> PROVE Tells(s, fs)
    BY <1>1, <1>4 DEF Send, Sent, Tells, SockFunctions
  <1>5. CASE FilesWritten(s)
    <2> DEFINE fs == <<Frame("runtime", "info"), Frame("stage", FirstStage(s))>>
    <2>1. Tells(s, fs)
      BY <1>4, <1>5 DEF FilesWritten
    <2>2. pc[s] = "writeFiles" /\ pc'[s] = "stage" /\ stage'[s] = FirstStage(s)
      BY <1>1, <1>5 DEF FilesWritten, StartStage, Functions
    <2>3. Reached(s) = 0 /\ Reached(s)' = 2 /\ Placed(s)'
      BY <2>2 DEF Reached, Placed, FirstStage
    <2>4. 2 \in 0..Len(Conversation(s))
      BY LengthIs
    <2>5. Said(s, Reached(s)) \o fs = Said(s, 2)
      BY <2>3, SaidFirst
    <2>8. TakesTo(s, fs, 2)
      BY <2>3, <2>4, <2>5 DEF TakesTo
    <2> HIDE DEF fs
    <2> QED BY <1>2, <1>3, <2>1, <2>3, <2>8, TellingSpeech
  <1>6. CASE NoCodeFile(s)
    <2> DEFINE fs == <<Frame("runtime", "info")>>
    <2>1. Tells(s, fs)
      BY <1>4, <1>6 DEF NoCodeFile
    <2>2. pc[s] = "writeFiles" /\ pc'[s] = "cleanup"
      BY <1>1, <1>6 DEF NoCodeFile, BeginCleanup, Functions
    <2>3. Reached(s) = 0 /\ ~Talking(s)' /\ Placed(s)'
      BY <2>2 DEF Reached, Talking, Placed
    <2>4. 1 \in 0..Len(Conversation(s))
      BY LengthIs
    <2>5. Said(s, Reached(s)) \o fs = Said(s, 1)
      BY <2>3, SaidFirst
    <2>8. TakesTo(s, fs, 1)
      BY <2>3, <2>4, <2>5 DEF TakesTo
    <2> HIDE DEF fs
    <2> QED BY <1>2, <1>3, <2>1, <2>3, <2>8, TellingSpeech
  <1>7. CASE FilesMoved(s)
    <2> DEFINE fs == <<Frame("stage", "run")>>
    <2>1. Tells(s, fs)
      BY <1>4, <1>7 DEF FilesMoved
    <2>2. pc[s] = "moveFiles" /\ pc'[s] = "stage" /\ stage'[s] = "run" /\ s \in Compiled
      BY <1>1, <1>7 DEF FilesMoved, StartStage, Functions, SpeechOf
    <2>3. Reached(s) = 3 /\ Reached(s)' = 4 /\ Placed(s)'
      BY <2>2 DEF Reached, Placed
    <2>4. Len(Conversation(s)) = 5 /\ Conversation(s)[4] = Frame("stage", "run")
      BY <2>2, ConversationIs
    <2>5. Said(s, Reached(s)) \o fs = Said(s, 4)
      <3>1. 3 \in 0..(Len(Conversation(s)) - 1) /\ 3 + 1 = 4
        BY <2>4
      <3>2. Said(s, 3) \o <<Conversation(s)[4]>> = Said(s, 4)
        BY <3>1, SaidMore
      <3> QED BY <2>3, <2>4, <3>2
    <2>6. 4 \in 0..Len(Conversation(s))
      BY <2>4
    <2>8. TakesTo(s, fs, 4)
      BY <2>3, <2>5, <2>6 DEF TakesTo
    <2> HIDE DEF fs
    <2> QED BY <1>2, <1>3, <2>1, <2>3, <2>8, TellingSpeech
  <1>8. CASE StageFinished(s)
    <2> DEFINE fs == <<Frame("exit", stage[s])>>
    <2>1. Tells(s, fs)
      BY <1>4, <1>8 DEF StageFinished
    <2>2. /\ pc[s] = "readMeta" /\ (stage[s] = "run" \/ (stage[s] = "compile" /\ s \in Compiled))
          /\ pc'[s] = "cleanup" \/ (pc'[s] = "initBox2" /\ stage[s] = "compile")
      BY <1>1, <1>8 DEF StageFinished, BeginCleanup, Functions, SpeechOf
    <2>3. /\ Reached(s) = IF stage[s] = "run" /\ s \in Compiled THEN 4 ELSE 2
          /\ Talking(s)' => stage[s] = "compile" /\ Reached(s)' = 3
      BY <1>8, <2>2 DEF Reached, Talking, StageFinished
    <2>4. Placed(s)'
      BY <2>2 DEF Placed
    <2>5. /\ Reached(s) + 1 <= Len(Conversation(s)) /\ Reached(s) \in Nat
          /\ Conversation(s)[Reached(s) + 1] = Frame("exit", stage[s])
      BY <2>2, <2>3, ConversationIs DEF FirstStage
    <2>6. Said(s, Reached(s)) \o fs = Said(s, Reached(s) + 1)
      <3>1. Reached(s) \in 0..(Len(Conversation(s)) - 1)
        BY <2>5, LengthIs
      <3> QED BY <2>5, <3>1, SaidMore
    <2>7. Reached(s) + 1 \in 0..Len(Conversation(s)) /\ (Talking(s)' => Reached(s)' = Reached(s) + 1)
      BY <2>3, <2>5, LengthIs
    <2>8. TakesTo(s, fs, Reached(s) + 1)
      BY <2>6, <2>7 DEF TakesTo
    <2> HIDE DEF fs
    <2> QED BY <1>2, <1>3, <2>1, <2>4, <2>8, TellingSpeech
  <1> QED BY <1>5, <1>6, <1>7, <1>8

LEMMA EndsSpeech ==
  ASSUME RunInv, SockInv, NEW s \in Sockets, SpeechOf(s),
         BadMessage(s) \/ CleanupDone(s) \/ CleanupThrows(s)
  PROVE  SpeechOf(s)'
  <1>1. s \in Jobs /\ s \notin Requests /\ Functions /\ SockFunctions /\ SockOf(s)
    BY SessionsAssumption DEF Jobs, RunInv, SockInv
  <1>2. UNCHANGED stage /\ sock[s] # "connecting" /\ (pc'[s] = pc[s] \/ pc'[s] = "settled")
    BY <1>1 DEF BadMessage, Delivered, CleanupDone, CleanupThrows, Settle, Functions, SockOf, stageVars
  <1>3. Placed(s)'
    BY <1>2 DEF Placed, SpeechOf
  <1>4. CASE NotifyError(s)
    BY <1>2, <1>3, <1>4, ErrorSpeech
  <1>5. CASE ~NotifyError(s)
    <2>1. pc'[s] = "settled" /\ Close(s, 4999) /\ UNCHANGED frames
      BY <1>1, <1>5 DEF BadMessage, CleanupDone, CleanupThrows, Settle, Functions
    <2>2. closeCode[s] = 4002 => closeCode'[s] = 4002
      BY <1>1, <2>1 DEF Close, SockOf, SockFunctions
    <2>3. Quiet(s)
      BY <2>1, <2>2 DEF Quiet, Talking
    <2> QED BY <1>3, <2>3, QuietSpeech
  <1> QED BY <1>4, <1>5

LEMMA SpeechNext ==
  PairingInv /\ HeldInv /\ RunInv /\ SockInv /\ SpeechInv /\ [Next]_vars => SpeechInv'
  <1> SUFFICES ASSUME PairingInv, HeldInv, RunInv, SockInv, SpeechInv, [Next]_vars, NEW s \in Sockets
               PROVE  SpeechOf(s)'
    BY DEF SpeechInv
  <1>1. SpeechOf(s)
    BY DEF SpeechInv
  <1>2. CASE JobStep(s) \/ ProcEnds(s)
    BY <1>1, <1>2, JobQuiet, JobTells, EndsSpeech DEF JobStep
  <1>3. CASE ClientStep(s) \/ InitTimer(s) \/ CloseEvent(s)
    BY <1>1, <1>3, ClientQuiet, EndsSpeech DEF ClientStep
  <1>4. CASE ~(JobStep(s) \/ ProcEnds(s) \/ ClientStep(s) \/ InitTimer(s) \/ CloseEvent(s))
    <2>1. Quiet(s) /\ Placed(s)'
      BY <1>1, <1>4, Elsewhere DEF Quiet, Placed, Talking, Reached, SpeechOf
    <2> QED BY <1>1, <2>1, QuietSpeech
  <1> QED BY <1>2, <1>3, <1>4

LEMMA SpeechInvariant == Spec => []SpeechInv
  <1>1. Init => SpeechInv
    <2> SUFFICES ASSUME Init, NEW s \in Sockets PROVE SpeechOf(s)
      BY DEF SpeechInv
    <2>1. frames[s] = <<>> /\ pc[s] = "idle"
      BY DEF Init, Jobs
    <2>2. Said(s, 0) = <<>>
      BY SaidFirst
    <2>3. 0 \in 0..Len(Conversation(s))
      BY LengthIs
    <2>4. Reached(s) = 0
      BY <2>1 DEF Reached
    <2> QED BY <2>1, <2>2, <2>3, <2>4 DEF SpeechOf
  <1> QED BY <1>1, SpeechNext, HeldInvariant, RunInvariant, SockInvariant, PTL DEF Spec

(* Whatever the order of messages, failures and closes, a client sees a    *)
(* beginning of the one conversation its runtime has, and at most one      *)
(* error, at the end (protocol.ts:79-90).                                  *)
THEOREM LegalConversationHolds == Spec => []LegalConversation
  <1>1. SpeechInv => LegalConversation
    BY DEF SpeechInv, SpeechOf, Said, LegalConversation
  <1> QED BY <1>1, SpeechInvariant, PTL

-----------------------------------------------------------------------------
(* Types.  What the other invariants do not say of them: outcomes, answers,*)
(* timers and close codes.                                                 *)

CloseCodes == {0} \cup 4000..4005 \cup {4999}

AnswerInv ==
    /\ outcome \in [Jobs -> {"none", "ok", "error"}]
    /\ answer \in [Requests -> {0, 200, 400, 500}]
    /\ timer \in [Sockets -> BOOLEAN]
    /\ closeCode \in [Sockets -> CloseCodes]

LEMMA ClosesTyped ==
  ASSUME AnswerInv, NEW s, NEW code \in CloseCodes, Close(s, code)
  PROVE  closeCode' \in [Sockets -> CloseCodes]
  BY DEF Close, AnswerInv

LEMMA NotifyTyped ==
  ASSUME AnswerInv, NEW s, NotifyError(s)
  PROVE  closeCode' \in [Sockets -> CloseCodes]
  BY ClosesTyped DEF NotifyError, CloseCodes

LEMMA JobTyped ==
  ASSUME AnswerInv, NEW j \in Jobs, JobStep(j) \/ ProcEnds(j)
  PROVE  AnswerInv'
  <1>1. CASE CleanupDone(j) \/ CleanupThrows(j)
    <2>1. PICK ok : Settle(j, ok)
      BY <1>1 DEF CleanupDone, CleanupThrows
    <2>2. UNCHANGED <<outcome, timer>>
      BY <2>1 DEF Settle
    <2>3. answer' \in [Requests -> {0, 200, 400, 500}]
      BY <2>1 DEF Settle, AnswerInv
    <2>4. 4999 \in CloseCodes
      BY DEF CloseCodes
    <2>5. closeCode' \in [Sockets -> CloseCodes]
      <3>1. closeCode' = closeCode \/ Close(j, 4999) \/ NotifyError(j)
        BY <2>1 DEF Settle
      <3> QED BY <2>4, <3>1, ClosesTyped, NotifyTyped DEF AnswerInv
    <2> QED BY <2>2, <2>3, <2>5 DEF AnswerInv
  <1>2. CASE ~(CleanupDone(j) \/ CleanupThrows(j))
    <2>1. UNCHANGED <<answer, timer, closeCode>>
      BY <1>2 DEF JobStep, socketVars, Woken, BoxReady, PrimeFails, FilesWritten, NoCodeFile, SpawnError,
             ExitEvent, MetaMissing, StageFinished, SecondBoxReady, FilesMoved, ProcEnds, Throw
    <2>2. \/ UNCHANGED outcome
          \/ outcome' = [outcome EXCEPT ![j] = "ok"]
          \/ outcome' = [outcome EXCEPT ![j] = "error"]
      BY <1>2 DEF JobStep, Woken, BoxReady, PrimeFails, FilesWritten, NoCodeFile, SpawnError,
             ExitEvent, MetaMissing, StageFinished, SecondBoxReady, FilesMoved, ProcEnds, Throw, BeginCleanup
    <2>3. outcome' \in [Jobs -> {"none", "ok", "error"}]
      BY <2>2 DEF AnswerInv
    <2> QED BY <2>1, <2>3 DEF AnswerInv
  <1> QED BY <1>1, <1>2

LEMMA SocketTyped ==
  ASSUME AnswerInv, NEW s \in Sockets, ClientStep(s) \/ InitTimer(s) \/ CloseEvent(s)
  PROVE  AnswerInv'
  <1>1. UNCHANGED <<outcome, answer>>
    BY DEF ClientStep, Open, BadMessage, InitMessage, DataMessage, SignalMessage, BadSignal,
           InitTimer, CloseEvent
  <1>2. timer' \in [Sockets -> BOOLEAN]
    <2>1. timer' = timer \/ timer' = [timer EXCEPT ![s] = TRUE] \/ timer' = [timer EXCEPT ![s] = FALSE]
      BY DEF ClientStep, Open, BadMessage, InitMessage, DataMessage, SignalMessage, BadSignal,
             InitTimer, CloseEvent, socketVars
    <2>2. timer \in [Sockets -> BOOLEAN]
      BY DEF AnswerInv
    <2> HIDE DEF AnswerInv
    <2> QED BY <2>1, <2>2, Zenon
  <1>3. closeCode' \in [Sockets -> CloseCodes]
    <2>1. \/ closeCode' = closeCode \/ NotifyError(s)
          \/ \E code \in {4000, 4001, 4003, 4004, 4005} : Close(s, code)
      BY DEF ClientStep, Open, BadMessage, InitMessage, DataMessage, SignalMessage, BadSignal,
             InitTimer, CloseEvent, socketVars
    <2>2. {4000, 4001, 4003, 4004, 4005} \subseteq CloseCodes
      BY DEF CloseCodes
    <2> QED BY <2>1, <2>2, ClosesTyped, NotifyTyped DEF AnswerInv
  <1> QED BY <1>1, <1>2, <1>3 DEF AnswerInv

LEMMA AnswerInvariant == Spec => []AnswerInv
  <1>1. Init => AnswerInv
    BY DEF Init, AnswerInv, CloseCodes
  <1>2. ASSUME AnswerInv, NEW r \in Requests, Execute(r) PROVE AnswerInv'
    <2>1. UNCHANGED <<outcome, timer, closeCode>>
      BY <1>2 DEF Execute, socketVars
    <2>2. answer' \in [Requests -> {0, 200, 400, 500}]
      BY <1>2 DEF Execute, AnswerInv
    <2> QED BY <1>2, <2>1, <2>2 DEF AnswerInv
  <1>3. ASSUME AnswerInv, UNCHANGED vars PROVE AnswerInv'
    BY <1>3 DEF AnswerInv, vars, socketVars
  <1>4. AnswerInv /\ [Next]_vars => AnswerInv'
    BY <1>2, <1>3, JobTyped, SocketTyped DEF Next
  <1> QED BY <1>1, <1>4, PTL DEF Spec

(* What JobSlots_proofs shows of the types of the slots. *)
LEMMA SlotsTyped == Spec => []Slots!SlotsTypeOK
  <1>1. Proved!SlotsSpec => []Proved!SlotsInv
    BY SessionsAssumption, Proved!SlotsInvariant
  <1>2. Proved!SlotsInv => Slots!SlotsTypeOK
    BY DEF Proved!SlotsInv, Proved!SlotsTypeOK, Slots!SlotsTypeOK
  <1> QED BY <1>1, <1>2, JobsAreCallers, PTL

(* Every variable keeps its type: each job is at one of its awaits, and no *)
(* answer and no close code is sent that the protocol does not list        *)
(* (v2.ts:194-220, protocol.ts:94-105).                                    *)
THEOREM TypeOKHolds == Spec => []TypeOK
  <1>1. RunInv => /\ pc \in [Jobs -> PCs] /\ stage \in [Jobs -> {"none", "compile", "run"}]
                  /\ proc \in [Jobs -> {"none", "unspawned", "alive", "dead"}]
                  /\ meta \in [Jobs -> ExitCodes \cup {"absent"}] /\ killed \in [Jobs -> BOOLEAN]
                  /\ listening \in [Jobs -> SUBSET {"compile", "run"}]
                  /\ cut \in [Jobs -> SUBSET {"compile", "run"}]
    BY DEF RunInv, RunOf, Functions
  <1>2. SockInv /\ SpeechInv => /\ sock \in [Sockets -> {"connecting", "open", "closing", "closed"}]
                                /\ frames \in [Sockets -> Seq(Told)]
    <2> SUFFICES ASSUME SockInv, SpeechInv
                 PROVE  /\ sock \in [Sockets -> {"connecting", "open", "closing", "closed"}]
                        /\ frames \in [Sockets -> Seq(Told)]
      OBVIOUS
    <2>1. ASSUME NEW s \in Sockets PROVE frames[s] \in Seq(Told)
      <3>1. PICK n \in 0..Len(Conversation(s)) :
              frames[s] = Said(s, n) \/ frames[s] = Append(Said(s, n), Frame("error", "message"))
        BY DEF SpeechInv, SpeechOf
      <3>2. Said(s, n) \in Seq(Told)
        BY SaidTold
      <3>3. Frame("error", "message") \in Told
        BY ToldAre
      <3>4. Append(Said(s, n), Frame("error", "message")) \in Seq(Told)
        BY <3>2, <3>3, AppendProperties
      <3> QED BY <3>1, <3>2, <3>4
    <2>2. \A s \in Sockets : sock[s] \in {"connecting", "open", "closing", "closed"}
      BY DEF SockInv, SockOf
    <2>3. sock = [s \in Sockets |-> sock[s]] /\ frames = [s \in Sockets |-> frames[s]]
      BY DEF SockInv, SockFunctions
    <2> QED BY <2>1, <2>2, <2>3
  <1>3. Slots!SlotsTypeOK /\ RunInv /\ SockInv /\ SpeechInv /\ AnswerInv => TypeOK
    BY <1>1, <1>2 DEF AnswerInv, CloseCodes, Told, TypeOK
  <1> QED BY <1>3, SlotsTyped, RunInvariant, SockInvariant, SpeechInvariant, AnswerInvariant, PTL

-----------------------------------------------------------------------------
(* The stages of a job are those of Stage, of which StageResult is the     *)
(* detail.                                                                 *)

SeenProc(j) == IF proc[j] = "unspawned" THEN "starting" ELSE proc[j]

SeenVerdict(j) ==
    IF stage[j] = "none" THEN "no stage"
    ELSE IF pc[j] \in {"stage", "readMeta"} THEN "none"
    ELSE IF meta[j] # "absent" THEN meta[j]
    ELSE IF outcome[j] = "ok" THEN "null" ELSE "error"

Seen(j) == INSTANCE Stage WITH
    proc <- SeenProc(j), meta <- meta[j], killed <- killed[j], verdict <- SeenVerdict(j)

\* A first stage has none before it, a second one a compilation that ended
\* with zero, and a process that could not be spawned left nothing.
SeenOf(j) ==
    /\ pc[j] \in {"idle", "acquiring", "initBox", "writeFiles"} => stage[j] = "none"
    /\ pc[j] \in {"stage", "readMeta"} => stage[j] # "none"
    /\ pc[j] \in {"initBox2", "moveFiles"} => stage[j] = "compile" /\ meta[j] = "zero"
    /\ proc[j] = "unspawned" => meta[j] = "absent"

SeenInv == outcome = [j \in Jobs |-> outcome[j]] /\ \A j \in Jobs : SeenOf(j)

SeenStep(j) == [Seen(j)!Next]_(Seen(j)!stageVars)

Still(j) ==
    /\ pc'[j] = pc[j] /\ stage'[j] = stage[j] /\ proc'[j] = proc[j]
    /\ meta'[j] = meta[j] /\ killed'[j] = killed[j] /\ outcome'[j] = outcome[j]

LEMMA StillSeen == ASSUME NEW j, SeenOf(j), Still(j) PROVE SeenStep(j) /\ SeenOf(j)'
  BY DEF SeenStep, Still, SeenOf, SeenProc, SeenVerdict, Seen!stageVars

\* A step of one job leaves the stages of the others as they are.
LEMMA OthersAreStill ==
  ASSUME RunInv, SeenInv, NEW j \in Jobs, NEW i \in Jobs \ {j}, JobStep(j) \/ ProcEnds(j)
  PROVE  Still(i) /\ outcome' = [k \in Jobs |-> outcome'[k]]
  <1> USE DEF RunInv, Functions, SeenInv, Still, stageVars
  <1>1. CASE BoxReady(j) \/ SecondBoxReady(j) \/ ExitEvent(j) \/ ProcEnds(j) \/ Woken(j)
    BY <1>1 DEF BoxReady, SecondBoxReady, ExitEvent, ProcEnds, Woken
  <1>2. CASE PrimeFails(j) \/ NoCodeFile(j) \/ SpawnError(j) \/ MetaMissing(j) \/ StageFinished(j)
    BY <1>2 DEF PrimeFails, NoCodeFile, SpawnError, MetaMissing, StageFinished, Throw, BeginCleanup
  <1>3. CASE FilesWritten(j) \/ FilesMoved(j) \/ CleanupDone(j) \/ CleanupThrows(j)
    BY <1>3 DEF FilesWritten, FilesMoved, StartStage, CleanupDone, CleanupThrows, Settle
  <1> QED BY <1>1, <1>2, <1>3 DEF JobStep

LEMMA JobIsSeen ==
  ASSUME PairingInv, HeldInv, RunInv, SeenInv, NEW j \in Jobs, JobStep(j) \/ ProcEnds(j)
  PROVE  SeenStep(j) /\ SeenOf(j)'
  <1> USE DEF RunInv, Functions, SeenInv, SeenStep, Seen!stageVars, Seen!Next
  <1>1. CASE BoxReady(j) \/ SecondBoxReady(j)
    <2>1. /\ UNCHANGED <<proc, meta, killed, stage, outcome>>
          /\ <<pc[j], pc'[j]>> \in {<<"initBox", "writeFiles">>, <<"initBox2", "moveFiles">>}
      BY <1>1 DEF BoxReady, SecondBoxReady, stageVars
    <2> QED BY <2>1 DEF SeenOf, SeenProc, SeenVerdict
  <1>2. CASE Woken(j)
    <2>1. pc[j] = "acquiring" /\ pc'[j] = "initBox" /\ UNCHANGED <<proc, meta, killed, stage, outcome>>
      BY <1>2, WokenParked DEF Woken, HeldInv, stageVars
    <2> QED BY <2>1 DEF SeenOf, SeenProc, SeenVerdict
  <1>3. CASE PrimeFails(j) \/ NoCodeFile(j)
    <2>1. /\ pc[j] \in {"initBox", "writeFiles", "initBox2", "moveFiles"} /\ pc'[j] = "cleanup"
          /\ UNCHANGED <<proc, meta, killed, stage>>
      BY <1>3 DEF PrimeFails, NoCodeFile, Throw, BeginCleanup, stageVars
    <2> QED BY <2>1 DEF SeenOf, SeenProc, SeenVerdict
  <1>4. CASE FilesWritten(j) \/ FilesMoved(j)
    <2>1. PICK st \in {"compile", "run"} : StartStage(j, st)
      BY <1>4 DEF FilesWritten, FilesMoved, FirstStage
    <2>2. pc[j] \in {"writeFiles", "moveFiles"}
      BY <1>4 DEF FilesWritten, FilesMoved
    <2>3. /\ pc'[j] = "stage" /\ stage'[j] = st /\ proc'[j] \in {"alive", "unspawned"}
          /\ meta'[j] = "absent" /\ killed'[j] = FALSE
      BY <2>1 DEF StartStage
    <2>4. SeenVerdict(j) \in {"no stage", "zero"}
      BY <2>2 DEF SeenOf, SeenVerdict
    <2>5. SeenVerdict(j)' = "none" /\ SeenProc(j)' \in {"alive", "starting"}
      BY <2>3 DEF SeenVerdict, SeenProc
    <2>6. SeenOf(j)'
      BY <2>3 DEF SeenOf
    <2> QED BY <2>3, <2>4, <2>5, <2>6 DEF Seen!Begin, Seen!Begun
  <1>5. CASE SpawnError(j)
    <2>1. /\ pc[j] = "stage" /\ pc'[j] = "cleanup" /\ proc[j] = "unspawned" /\ proc'[j] = "none"
          /\ outcome'[j] = "error" /\ UNCHANGED <<stage, meta, killed>>
      BY <1>5 DEF SpawnError, Throw, BeginCleanup
    <2>2. SeenVerdict(j)' = "error" /\ SeenProc(j) = "starting" /\ SeenProc(j)' = "none"
      BY <2>1 DEF SeenOf, SeenVerdict, SeenProc
    <2>3. SeenOf(j)'
      BY <2>1 DEF SeenOf
    <2> QED BY <2>1, <2>2, <2>3 DEF Seen!StartFails
  <1>6. CASE ExitEvent(j)
    <2>1. /\ pc[j] = "stage" /\ pc'[j] = "readMeta" /\ proc[j] = "dead" /\ proc'[j] = "none"
          /\ UNCHANGED <<stage, meta, killed, outcome>>
      BY <1>6 DEF ExitEvent
    <2> QED BY <2>1 DEF SeenOf, SeenVerdict, SeenProc, Seen!Exit
  <1>7. CASE MetaMissing(j)
    <2>1. /\ pc[j] = "readMeta" /\ pc'[j] = "cleanup" /\ proc[j] = "none" /\ meta[j] = "absent" /\ ~killed[j]
          /\ outcome'[j] = "error" /\ UNCHANGED <<stage, proc, meta, killed>>
      BY <1>7 DEF MetaMissing, MetaUsable, Throw, BeginCleanup, stageVars, RunOf
    <2>2. SeenVerdict(j)' = "error" /\ SeenVerdict(j) = "none" /\ SeenProc(j) = "none" /\ SeenProc(j)' = "none"
      BY <2>1 DEF SeenOf, SeenVerdict, SeenProc
    <2>3. SeenOf(j)'
      BY <2>1 DEF SeenOf
    <2> QED BY <2>1, <2>2, <2>3 DEF Seen!Throw, Seen!Usable
  <1>8. CASE StageFinished(j)
    <2>1. /\ pc[j] = "readMeta" /\ proc[j] = "none" /\ (meta[j] # "absent" \/ killed[j]) /\ killed'[j] = FALSE
          /\ UNCHANGED <<stage, proc, meta>>
          /\ \/ pc'[j] = "initBox2" /\ stage[j] = "compile" /\ meta[j] = "zero"
             \/ pc'[j] = "cleanup" /\ outcome'[j] = "ok"
      BY <1>8 DEF StageFinished, MetaUsable, BeginCleanup, RunOf, CompileErrored, ExitCode
    <2>2. /\ SeenVerdict(j)' = IF meta[j] = "absent" THEN "null" ELSE meta[j]
          /\ SeenVerdict(j) = "none" /\ SeenProc(j) = "none" /\ SeenProc(j)' = "none"
      BY <2>1 DEF SeenOf, SeenVerdict, SeenProc
    <2>3. SeenOf(j)'
      BY <2>1 DEF SeenOf
    <2> QED BY <2>1, <2>2, <2>3 DEF Seen!Finish, Seen!Usable
  <1>9. CASE CleanupDone(j) \/ CleanupThrows(j)
    <2>1. pc[j] = "cleanup" /\ pc'[j] = "settled" /\ UNCHANGED <<stage, proc, meta, killed, outcome>>
      BY <1>9 DEF CleanupDone, CleanupThrows, Settle, stageVars
    <2> QED BY <2>1 DEF SeenOf, SeenVerdict, SeenProc
  <1>10. CASE ProcEnds(j)
    <2>1. /\ proc[j] = "alive" /\ proc'[j] = "dead" /\ meta'[j] \in {"zero", "nonzero", "null", "absent"}
          /\ pc[j] = "stage" /\ UNCHANGED <<pc, stage, killed, outcome>>
      BY <1>10 DEF ProcEnds, ExitCodes, RunOf
    <2>2. SeenProc(j) = "alive" /\ SeenProc(j)' = "dead" /\ UNCHANGED SeenVerdict(j)
      BY <2>1 DEF SeenVerdict, SeenProc
    <2>3. SeenOf(j)'
      BY <2>1 DEF SeenOf
    <2> QED BY <2>1, <2>2, <2>3 DEF Seen!Ends
  <1> QED BY <1>1, <1>2, <1>3, <1>4, <1>5, <1>6, <1>7, <1>8, <1>9, <1>10 DEF JobStep

LEMMA KillIsSeen ==
  ASSUME RunInv, SeenInv, NEW s \in Sockets, NEW m \in {"absent", "null"}, KillStage(s, m),
         UNCHANGED <<pc, outcome>>, NEW j \in Jobs
  PROVE  SeenStep(j) /\ SeenOf(j)'
  <1> USE DEF RunInv, Functions, SeenInv
  <1>1. CASE j # s
    <2>1. Still(j)
      BY <1>1 DEF KillStage, Still, Jobs
    <2> QED BY <2>1, StillSeen
  <1>2. CASE j = s /\ listening[s] # {} /\ proc[s] = "alive"
    <2>1. /\ proc'[j] = "dead" /\ killed'[j] = TRUE /\ meta'[j] = m /\ pc[j] = "stage"
          /\ UNCHANGED <<stage, pc, outcome>>
      BY <1>2 DEF KillStage, RunOf
    <2>2. SeenProc(j) = "alive" /\ SeenProc(j)' = "dead" /\ UNCHANGED SeenVerdict(j) /\ SeenOf(j)'
      BY <1>2, <2>1 DEF SeenProc, SeenVerdict, SeenOf
    <2> QED BY <1>2, <2>1, <2>2 DEF SeenStep, Seen!Next, Seen!Signal
  <1>3. CASE j = s /\ ~(listening[s] # {} /\ proc[s] = "alive")
    <2>1. /\ UNCHANGED <<stage, proc, meta, pc, outcome>>
          /\ killed'[j] = (killed[j] \/ (listening[j] # {} /\ proc[j] = "dead"))
      BY <1>3 DEF KillStage
    <2>2. UNCHANGED <<SeenProc(j), SeenVerdict(j)>> /\ SeenOf(j)'
      BY <2>1 DEF SeenProc, SeenVerdict, SeenOf
    <2>3. killed[j] \in BOOLEAN
      BY DEF RunOf
    <2>4. CASE listening[j] # {} /\ proc[j] = "dead"
      <3>1. killed'[j] = TRUE /\ SeenProc(j) = "dead"
        BY <2>1, <2>4 DEF SeenProc
      <3> QED BY <2>1, <2>2, <3>1 DEF SeenStep, Seen!Next, Seen!Signal, Seen!stageVars
    <2>5. CASE ~(listening[j] # {} /\ proc[j] = "dead")
      <3>1. killed'[j] = killed[j]
        BY <2>1, <2>3, <2>5
      <3> QED BY <2>1, <2>2, <3>1 DEF SeenStep, Seen!stageVars
    <2> QED BY <2>4, <2>5
  <1> QED BY <1>2, <1>1, <1>3

LEMMA SeenNext ==
  ASSUME PairingInv, HeldInv, RunInv, SeenInv, [Next]_vars
  PROVE  SeenInv' /\ \A j \in Jobs : SeenStep(j)
  <1> USE DEF SeenInv
  <1>1. ASSUME NEW i \in Jobs, JobStep(i) \/ ProcEnds(i)
        PROVE  SeenInv' /\ \A j \in Jobs : SeenStep(j)
    <2>1. \A j \in Jobs \ {i} : SeenStep(j) /\ SeenOf(j)'
      BY <1>1, OthersAreStill, StillSeen
    <2>2. outcome' = [k \in Jobs |-> outcome'[k]]
      BY <1>1 DEF JobStep, Woken, BoxReady, PrimeFails, FilesWritten, NoCodeFile, SpawnError, ExitEvent, MetaMissing,
         StageFinished, SecondBoxReady, FilesMoved, CleanupDone, CleanupThrows, Settle, ProcEnds, Throw, BeginCleanup
    <2> QED BY <1>1, <2>1, <2>2, JobIsSeen
  <1>2. ASSUME NEW i \in Jobs, pc[i] = "idle", BeginPrime(i), UNCHANGED <<stageVars, outcome>>
        PROVE  SeenInv' /\ \A j \in Jobs : SeenStep(j)
    <2>1. pc'[i] \in {"acquiring", "initBox"} /\ \A j \in Jobs \ {i} : pc'[j] = pc[j]
      BY <1>2 DEF BeginPrime, RunInv, Functions
    <2>2. SeenStep(i) /\ SeenOf(i)'
      BY <1>2, <2>1 DEF SeenStep, SeenOf, SeenProc, SeenVerdict, Seen!stageVars, stageVars
    <2>3. \A j \in Jobs \ {i} : Still(j)
      BY <1>2, <2>1 DEF Still, stageVars
    <2> QED BY <1>2, <2>2, <2>3, StillSeen
  <1>3. CASE UNCHANGED <<pc, stageVars, outcome>>
    <2>1. \A j \in Jobs : Still(j)
      BY <1>3 DEF Still, stageVars
    <2> QED BY <1>3, <2>1, StillSeen
  <1>4. ASSUME NEW r \in Requests, Execute(r) PROVE SeenInv' /\ \A j \in Jobs : SeenStep(j)
    BY <1>2, <1>3, <1>4 DEF Execute, Jobs
  <1>5. ASSUME NEW s \in Sockets, InitMessage(s) PROVE SeenInv' /\ \A j \in Jobs : SeenStep(j)
    BY <1>2, <1>3, <1>5 DEF InitMessage, Jobs
  <1>6. ASSUME NEW s \in Sockets, SignalMessage(s) \/ CloseEvent(s)
        PROVE  SeenInv' /\ \A j \in Jobs : SeenStep(j)
    <2>1. PICK m \in {"absent", "null"} : KillStage(s, m)
      BY <1>6 DEF SignalMessage, CloseEvent
    <2>2. UNCHANGED <<pc, outcome>>
      BY <1>6 DEF SignalMessage, CloseEvent
    <2> QED BY <2>1, <2>2, KillIsSeen
  <1>7. ASSUME NEW s \in Sockets, Open(s) \/ BadMessage(s) \/ DataMessage(s) \/ BadSignal(s) \/ InitTimer(s)
        PROVE  UNCHANGED <<pc, stageVars, outcome>>
    BY <1>7 DEF Open, BadMessage, DataMessage, BadSignal, InitTimer
  <1>8. CASE UNCHANGED vars
    BY <1>3, <1>8 DEF vars
  <1> QED BY <1>1, <1>3, <1>4, <1>5, <1>6, <1>7, <1>8 DEF Next, ClientStep

LEMMA SeenInvariant == Spec => []SeenInv
  <1>1. Init => SeenInv
    BY DEF Init, SeenInv, SeenOf
  <1>2. PairingInv /\ HeldInv /\ RunInv /\ SeenInv /\ [Next]_vars => SeenInv'
    BY SeenNext
  <1> QED BY <1>1, <1>2, RunInvariant, HeldInvariant, PTL DEF Spec

(* Every job goes through its stages as Stage has it, on either transport  *)
(* and whatever its client sends meanwhile: a second stage begins only     *)
(* after an exit code of zero (job.ts:548-590).                            *)
StagesAreSeen ==
    /\ \A j \in Jobs : Seen(j)!Init
    /\ [][\A j \in Jobs : SeenStep(j)]_vars

THEOREM StagesAreSeenHolds == Spec => StagesAreSeen
  <1>1. Init => \A j \in Jobs : Seen(j)!Init
    BY DEF Init, Seen!Init, SeenProc, SeenVerdict
  <1>2. PairingInv /\ HeldInv /\ RunInv /\ SeenInv /\ [Next]_vars => [\A j \in Jobs : SeenStep(j)]_vars
    BY SeenNext
  <1> QED BY <1>1, <1>2, SeenInvariant, RunInvariant, HeldInvariant, PTL DEF Spec, StagesAreSeen

-----------------------------------------------------------------------------
(* Every job comes to its end, and every connection to its close.          *)

UnderWay(j) == pc[j] \notin {"idle", "settled"}

\* The most steps a job has before it.  A compilation is followed by five.
StepsLeft(j) ==
    LET then == IF stage[j] = "compile" THEN 5 ELSE 0
    IN  IF pc[j] = "acquiring" THEN 13
        ELSE IF pc[j] = "initBox" THEN 12
        ELSE IF pc[j] = "writeFiles" THEN 11
        ELSE IF pc[j] = "stage" THEN then + (IF proc[j] = "dead" THEN 4 ELSE 5)
        ELSE IF pc[j] = "readMeta" THEN then + 3
        ELSE IF pc[j] = "initBox2" THEN 7
        ELSE IF pc[j] = "moveFiles" THEN 6
        ELSE IF pc[j] = "cleanup" THEN 1
        ELSE 0

SocketLeft(s) ==
    IF sock[s] = "connecting" THEN 3
    ELSE IF sock[s] = "open" THEN 2
    ELSE IF sock[s] = "closing" THEN 1
    ELSE 0

\* What the job waits for is an event of the runtime's or of isolate's: its
\* continuation is the next microtask, or no microtask is left and a command
\* it started ends.
EventDue(j) ==
    \/ woken # <<>> /\ j = Head(woken)
    \/ /\ woken = <<>>
       /\ \/ pc[j] \in {"initBox", "writeFiles", "readMeta", "initBox2", "moveFiles", "cleanup"}
          \/ pc[j] = "stage" /\ proc[j] # "none"

\* A job waits for an event, or for another job that does, being parked or
\* behind that one's microtask; an open connection has its timer or its job.
Owed ==
    /\ \A j \in Jobs : UnderWay(j) =>
          \/ EventDue(j)
          \/ (pc[j] = "acquiring" \/ woken # <<>>) /\ \E k \in Jobs : EventDue(k)
    /\ \A s \in Sockets : sock[s] = "open" => timer[s] \/ UnderWay(s)

JobForward(j) ==
    pc[j] # "idle" => StepsLeft(j)' < StepsLeft(j) \/ UNCHANGED <<pc[j], stage[j], proc[j]>>

SocketForward(s) ==
    \/ SocketLeft(s)' < SocketLeft(s)
    \/ sock'[s] = sock[s] /\ (timer'[s] => timer[s])

Forward ==
    /\ \A j \in Jobs : JobForward(j)
    /\ \A s \in Sockets : SocketForward(s)

\* A parked job is in one of the two queues, a stage has a process until its
\* exit event, and a connection is open only until the job on it has settled.
WayOf(j) ==
    /\ pc[j] = "acquiring" => Parked(j)
    /\ pc[j] = "stage" => proc[j] # "none"

OpenOf(s) ==
    /\ timer[s] \in BOOLEAN
    /\ sock[s] = "open" => pc[s] # "settled" /\ (timer[s] \/ pc[s] # "idle")

WayInv ==
    /\ timer = [s \in Sockets |-> timer[s]]
    /\ \A j \in Jobs : WayOf(j)
    /\ \A s \in Sockets : OpenOf(s)

\* Nobody leaves the queues but the one that goes on.
LEMMA AcquireKeeps ==
  ASSUME PairingInv, NEW j \in Jobs, Slots!Acquire(j)
  PROVE  /\ \A i \in Jobs : Parked(i) => Parked(i)'
         /\ available < 1 => Parked(j)'
  <1>1. CASE Slots!AcquireNow(j)
    BY <1>1 DEF Slots!AcquireNow, Parked
  <1>2. CASE Slots!AcquirePark(j)
    <2>1. waiting' = Append(waiting, j) /\ woken' = woken
      BY <1>2 DEF Slots!AcquirePark
    <2>2. Slots!Range(waiting') = Slots!Range(waiting) \cup {j}
      BY <2>1, RangeAppend DEF PairingInv
    <2> QED BY <2>1, <2>2 DEF Parked
  <1> QED BY <1>1, <1>2 DEF Slots!Acquire

LEMMA HeadOrTail ==
  ASSUME NEW S, NEW q \in Seq(S), q # <<>>
  PROVE  Slots!Range(q) = {Head(q)} \cup Slots!Range(Tail(q))
  <1>1. /\ Len(q) \in Nat \ {0} /\ DOMAIN q = 1..Len(q) /\ Head(q) = q[1]
        /\ DOMAIN Tail(q) = 1..Len(q) - 1
        /\ \A k \in 1..Len(q) - 1 : Tail(q)[k] = q[k + 1]
    BY HeadTailProperties, LenProperties, EmptySeq
  <1>2. ASSUME NEW k \in 1..Len(q), k # 1 PROVE q[k] = Tail(q)[k - 1] /\ k - 1 \in 1..Len(q) - 1
    BY <1>1, <1>2
  <1>3. ASSUME NEW k \in 1..Len(q) - 1 PROVE Tail(q)[k] = q[k + 1] /\ k + 1 \in 1..Len(q)
    BY <1>1, <1>3
  <1>4. ASSUME NEW x \in Slots!Range(q) PROVE x = Head(q) \/ x \in Slots!Range(Tail(q))
    BY <1>1, <1>2 DEF Slots!Range
  <1>5. Head(q) \in Slots!Range(q)
    BY <1>1 DEF Slots!Range
  <1>6. ASSUME NEW x \in Slots!Range(Tail(q)) PROVE x \in Slots!Range(q)
    BY <1>1, <1>3 DEF Slots!Range
  <1> QED BY <1>4, <1>5, <1>6

LEMMA ReleaseKeeps ==
  ASSUME PairingInv, NEW j \in Jobs, Slots!Release(j)
  PROVE  \A i \in Jobs : Parked(i) => Parked(i)'
  <1>1. CASE waiting = <<>>
    BY <1>1 DEF Slots!Release, Parked
  <1>2. CASE waiting # <<>>
    <2>1. waiting' = Tail(waiting) /\ woken' = Append(woken, Head(waiting))
      BY <1>2 DEF Slots!Release
    <2>2. Slots!Range(waiting) = {Head(waiting)} \cup Slots!Range(waiting')
      BY <1>2, <2>1, HeadOrTail DEF PairingInv
    <2>3. Slots!Range(woken') = Slots!Range(woken) \cup {Head(waiting)}
      BY <1>2, <2>1, RangeAppend, RangeTail DEF PairingInv
    <2> QED BY <2>2, <2>3 DEF Parked
  <1> QED BY <1>1, <1>2

LEMMA ResumeKeeps ==
  ASSUME PairingInv, NEW j \in Jobs, Slots!Resume(j)
  PROVE  \A i \in Jobs \ {j} : Parked(i) => Parked(i)'
  <1>1. woken # <<>> /\ woken' = Tail(woken) /\ waiting' = waiting /\ j = Head(woken)
    BY DEF Slots!Resume
  <1>2. Slots!Range(woken) = {j} \cup Slots!Range(woken')
    BY <1>1, HeadOrTail DEF PairingInv
  <1> QED BY <1>1, <1>2 DEF Parked


\* What a step does to the queues of the slots.
LEMMA StepsKeepParked ==
  ASSUME PairingInv, [Next]_vars, NEW i \in Jobs, Parked(i), pc'[i] = "acquiring"
  PROVE  Parked(i)'
  <1>1. ASSUME UNCHANGED slotVars PROVE Parked(i)'
    BY <1>1 DEF Parked, slotVars
  <1>2. ASSUME NEW j \in Jobs, JobStep(j) \/ ProcEnds(j) PROVE Parked(i)'
    <2>1. CASE Woken(j)
      <3>1. pc'[j] = "initBox" /\ Slots!Resume(j)
        BY <2>1 DEF Woken, PairingInv
      <3> QED BY <3>1, ResumeKeeps
    <2>2. CASE ~Woken(j)
      <3>1. UNCHANGED slotVars \/ Slots!Release(j)
        BY <1>2, <2>2 DEF JobStep, ProcEnds, BoxReady, PrimeFails, FilesWritten, NoCodeFile, SpawnError, ExitEvent,
           MetaMissing, StageFinished, SecondBoxReady, FilesMoved, CleanupDone, CleanupThrows, Settle, Throw,
           BeginCleanup
      <3> QED BY <1>1, <3>1, ReleaseKeeps
    <2> QED BY <2>1, <2>2
  <1>3. ASSUME NEW j \in Jobs, BeginPrime(j) PROVE Parked(i)'
    BY <1>3, AcquireKeeps DEF BeginPrime
  <1>4. ASSUME NEW r \in Requests, Execute(r) PROVE Parked(i)'
    BY <1>1, <1>3, <1>4 DEF Execute, Jobs
  <1>5. ASSUME NEW s \in Sockets, ClientStep(s) \/ InitTimer(s) \/ CloseEvent(s) PROVE Parked(i)'
    <2>1. UNCHANGED slotVars \/ BeginPrime(s)
      BY <1>5 DEF ClientStep, Open, BadMessage, InitMessage, DataMessage, SignalMessage, BadSignal, InitTimer,
         CloseEvent
    <2> QED BY <1>1, <1>3, <2>1 DEF Jobs
  <1>6. CASE UNCHANGED vars
    BY <1>1, <1>6 DEF vars
  <1> QED BY <1>2, <1>4, <1>5, <1>6 DEF Next

\* A step of a job takes it on, and it is parked or started by its client alone.
LEMMA JobGoesForward ==
  ASSUME PairingInv, HeldInv, RunInv, SeenInv, WayInv, NEW j \in Jobs, JobStep(j) \/ ProcEnds(j)
  PROVE  /\ StepsLeft(j)' < StepsLeft(j)
         /\ pc'[j] # "acquiring" /\ (pc'[j] = "stage" => proc'[j] # "none")
         /\ pc[j] # "idle" /\ (pc'[j] = "settled" => pc[j] = "cleanup") /\ pc'[j] # "idle"
  <1> USE DEF RunInv, Functions
  <1>1. CASE BoxReady(j) \/ SecondBoxReady(j) \/ Woken(j)
    <2>1. <<pc[j], pc'[j]>> \in {<<"initBox", "writeFiles">>, <<"initBox2", "moveFiles">>, <<"acquiring", "initBox">>}
      BY <1>1, WokenParked DEF BoxReady, SecondBoxReady, Woken, HeldInv
    <2> QED BY <2>1 DEF StepsLeft
  <1>2. CASE PrimeFails(j) \/ NoCodeFile(j) \/ SpawnError(j) \/ MetaMissing(j)
    <2>1. pc[j] \in {"initBox", "writeFiles", "stage", "readMeta", "initBox2", "moveFiles"} /\ pc'[j] = "cleanup"
      BY <1>2 DEF PrimeFails, NoCodeFile, SpawnError, MetaMissing, Throw, BeginCleanup
    <2> QED BY <2>1 DEF StepsLeft
  <1>3. CASE FilesWritten(j)
    <2>1. /\ pc[j] = "writeFiles" /\ pc'[j] = "stage" /\ proc'[j] \in {"alive", "unspawned"}
      BY <1>3 DEF FilesWritten, StartStage
    <2> QED BY <2>1 DEF StepsLeft
  <1>4. CASE FilesMoved(j)
    <2>1. /\ pc[j] = "moveFiles" /\ pc'[j] = "stage" /\ proc'[j] \in {"alive", "unspawned"} /\ stage'[j] = "run"
      BY <1>4 DEF FilesMoved, StartStage
    <2> QED BY <2>1 DEF StepsLeft
  <1>5. CASE ExitEvent(j)
    <2>1. pc[j] = "stage" /\ proc[j] = "dead" /\ pc'[j] = "readMeta" /\ stage'[j] = stage[j]
      BY <1>5 DEF ExitEvent
    <2> QED BY <2>1 DEF StepsLeft
  <1>6. CASE StageFinished(j)
    <2>1. /\ pc[j] = "readMeta"
          /\ pc'[j] = "cleanup" \/ (stage[j] = "compile" /\ pc'[j] = "initBox2")
      BY <1>6 DEF StageFinished, BeginCleanup
    <2> QED BY <2>1 DEF StepsLeft
  <1>7. CASE CleanupDone(j) \/ CleanupThrows(j)
    <2>1. pc[j] = "cleanup" /\ pc'[j] = "settled"
      BY <1>7 DEF CleanupDone, CleanupThrows, Settle
    <2> QED BY <2>1 DEF StepsLeft
  <1>8. CASE ProcEnds(j)
    <2>1. pc[j] = "stage" /\ pc'[j] = "stage" /\ stage'[j] = stage[j] /\ proc[j] = "alive" /\ proc'[j] = "dead"
      BY <1>8 DEF ProcEnds, RunOf
    <2> QED BY <2>1 DEF StepsLeft
  <1> QED BY <1>1, <1>2, <1>3, <1>4, <1>5, <1>6, <1>7, <1>8 DEF JobStep

\* So does a signal that ends its process.
LEMMA KillGoesForward ==
  ASSUME RunInv, WayInv, NEW s \in Sockets, NEW m, KillStage(s, m), pc' = pc, NEW j \in Jobs
  PROVE  JobForward(j) /\ (pc'[j] = "stage" => proc'[j] # "none")
  <1> USE DEF RunInv, Functions, WayInv, WayOf, Jobs
  <1>1. stage' = stage
    BY DEF KillStage
  <1>2. CASE j = s /\ listening[s] # {} /\ proc[s] = "alive"
    <2>1. proc'[j] = "dead" /\ pc[j] = "stage" /\ proc[j] = "alive"
      BY <1>2 DEF KillStage, RunOf
    <2> QED BY <1>1, <2>1 DEF JobForward, StepsLeft
  <1>3. CASE ~(j = s /\ listening[s] # {} /\ proc[s] = "alive")
    <2>1. proc'[j] = proc[j]
      BY <1>3 DEF KillStage
    <2> QED BY <1>1, <2>1 DEF JobForward
  <1> QED BY <1>2, <1>3


LEMMA JobsGoForward ==
  ASSUME PairingInv, HeldInv, RunInv, SeenInv, WayInv, [Next]_vars
  PROVE  \A j \in Jobs : JobForward(j) /\ WayOf(j)'
  <1> USE DEF WayInv, Jobs
  <1>1. ASSUME NEW j \in Jobs, JobForward(j), pc'[j] = "acquiring" => pc[j] = "acquiring",
               pc'[j] = "stage" => proc'[j] # "none"
        PROVE  JobForward(j) /\ WayOf(j)'
    BY <1>1, StepsKeepParked DEF WayOf
  <1>2. ASSUME NEW j \in Jobs, UNCHANGED <<pc[j], stage[j], proc[j]>> PROVE JobForward(j) /\ WayOf(j)'
    BY <1>1, <1>2 DEF JobForward, WayOf
  <1>3. ASSUME NEW i \in Jobs, JobStep(i) \/ ProcEnds(i), NEW j \in Jobs PROVE JobForward(j) /\ WayOf(j)'
    <2>1. CASE i = j
      BY <1>1, <1>3, <2>1, JobGoesForward DEF JobForward
    <2>2. CASE i # j
      BY <1>2, <1>3, <2>2, OthersAreStill DEF Still
    <2> QED BY <2>1, <2>2
  <1>4. ASSUME NEW i \in Jobs, pc[i] = "idle", BeginPrime(i), UNCHANGED stageVars, NEW j \in Jobs
        PROVE  JobForward(j) /\ WayOf(j)'
    <2>1. CASE i = j
      <3>1. pc'[j] = (IF available < 1 THEN "acquiring" ELSE "initBox") /\ (available < 1 => Parked(j)')
        BY <1>4, <2>1, AcquireKeeps DEF BeginPrime, RunInv, Functions
      <3> QED BY <1>4, <2>1, <3>1 DEF JobForward, WayOf
    <2>2. CASE i # j
      BY <1>2, <1>4, <2>2 DEF BeginPrime, RunInv, Functions, stageVars
    <2> QED BY <2>1, <2>2
  <1>5. ASSUME UNCHANGED <<pc, stageVars>>, NEW j \in Jobs PROVE JobForward(j) /\ WayOf(j)'
    BY <1>2, <1>5 DEF stageVars
  <1>6. ASSUME NEW r \in Requests, Execute(r), NEW j \in Jobs PROVE JobForward(j) /\ WayOf(j)'
    BY <1>4, <1>5, <1>6 DEF Execute
  <1>7. ASSUME NEW s \in Sockets, InitMessage(s), NEW j \in Jobs PROVE JobForward(j) /\ WayOf(j)'
    BY <1>4, <1>5, <1>7 DEF InitMessage
  <1>8. ASSUME NEW s \in Sockets, SignalMessage(s) \/ CloseEvent(s), NEW j \in Jobs
        PROVE  JobForward(j) /\ WayOf(j)'
    <2>1. pc' = pc /\ \E m \in {"absent", "null"} : KillStage(s, m)
      BY <1>8 DEF SignalMessage, CloseEvent
    <2> QED BY <1>1, <2>1, KillGoesForward
  <1>9. ASSUME NEW s \in Sockets, Open(s) \/ BadMessage(s) \/ DataMessage(s) \/ BadSignal(s) \/ InitTimer(s)
        PROVE  UNCHANGED <<pc, stageVars>>
    BY <1>9 DEF Open, BadMessage, DataMessage, BadSignal, InitTimer
  <1>10. UNCHANGED vars => UNCHANGED <<pc, stageVars>>
    BY DEF vars
  <1> QED BY <1>3, <1>5, <1>6, <1>7, <1>8, <1>9, <1>10 DEF Next, ClientStep

\* What a step of a job is to the connections.
LEMMA JobSockets ==
  ASSUME PairingInv, HeldInv, RunInv, SockInv, SeenInv, WayInv, NEW j \in Jobs, JobStep(j) \/ ProcEnds(j), NEW s \in Sockets
  PROVE  SocketForward(s) /\ OpenOf(s)'
  <1> USE DEF WayInv, Jobs
  <1>1. CASE CleanupDone(j) \/ CleanupThrows(j)
    <2>1. PICK ok : Settle(j, ok)
      BY <1>1 DEF CleanupDone, CleanupThrows
    <2>2. pc' = [pc EXCEPT ![j] = "settled"] /\ timer' = timer
      BY <2>1 DEF Settle
    <2>3. CASE s = j
      <3>1. sock'[s] = IF sock[s] = "open" THEN "closing" ELSE sock[s]
        BY <2>1, <2>3, SessionsAssumption DEF Settle, Close, NotifyError, SockInv, SockFunctions
      <3> QED BY <2>2, <3>1 DEF SocketForward, SocketLeft, OpenOf
    <2>4. CASE s # j
      <3>1. sock'[s] = sock[s] /\ pc'[s] = pc[s]
        BY <2>1, <2>2, <2>4 DEF Settle, Close, NotifyError, SockInv, SockFunctions, RunInv, Functions
      <3> QED BY <2>2, <3>1 DEF SocketForward, OpenOf
    <2> QED BY <2>3, <2>4
  <1>2. CASE ~(CleanupDone(j) \/ CleanupThrows(j))
    <2>1. UNCHANGED <<sock, timer>>
      BY <1>2 DEF JobStep, socketVars, Woken, BoxReady, PrimeFails, FilesWritten, NoCodeFile, SpawnError,
         ExitEvent, MetaMissing, StageFinished, SecondBoxReady, FilesMoved, ProcEnds, Throw
    <2>2. s # j => pc'[s] = pc[s]
      BY OthersAreStill DEF Still
    <2>3. pc'[j] # "settled"
      BY <1>2 DEF JobStep, Woken, BoxReady, PrimeFails, FilesWritten, NoCodeFile, SpawnError, ExitEvent, MetaMissing,
         StageFinished, SecondBoxReady, FilesMoved, ProcEnds, Throw, BeginCleanup, StartStage, RunInv, Functions, RunOf
    <2>4. pc'[j] # "idle"
      BY JobGoesForward
    <2> QED BY <2>1, <2>2, <2>3, <2>4 DEF SocketForward, OpenOf
  <1> QED BY <1>1, <1>2

LEMMA SocketsGoForward ==
  ASSUME PairingInv, HeldInv, RunInv, SockInv, SeenInv, WayInv, [Next]_vars, NEW s \in Sockets
  PROVE  SocketForward(s) /\ OpenOf(s)'
  <1> USE DEF WayInv, SockInv, SockFunctions, Jobs
  <1>1. ASSUME UNCHANGED <<sock, timer>>, pc'[s] = pc[s] \/ (pc'[s] \notin {"idle", "settled"})
        PROVE  SocketForward(s) /\ OpenOf(s)'
    BY <1>1 DEF SocketForward, OpenOf
  <1>2. ASSUME NEW r \in Requests, Execute(r) PROVE SocketForward(s) /\ OpenOf(s)'
    <2>1. pc'[s] = pc[s]
      BY <1>2, SessionsAssumption DEF Execute, BeginPrime, RunInv, Functions
    <2> QED BY <1>1, <1>2, <2>1 DEF Execute, socketVars
  <1>3. ASSUME NEW t \in Sockets, ClientStep(t) \/ InitTimer(t) \/ CloseEvent(t) PROVE SocketForward(s) /\ OpenOf(s)'
    <2>1. CASE BadMessage(t) \/ DataMessage(t) \/ BadSignal(t)
      <3>1. PICK code : Close(t, code)
        BY <2>1 DEF BadMessage, DataMessage, BadSignal, NotifyError
      <3>2. sock'[s] = sock[s] \/ (sock[s] = "open" /\ sock'[s] = "closing")
        BY <3>1 DEF Close
      <3>3. UNCHANGED <<pc, timer>>
        BY <2>1 DEF BadMessage, DataMessage, BadSignal
      <3> QED BY <3>2, <3>3 DEF SocketForward, SocketLeft, OpenOf
    <2>2. CASE SignalMessage(t)
      BY <1>1, <2>2 DEF SignalMessage, socketVars
    <2>3. CASE InitMessage(t)
      <3>1. CASE pc[t] = "idle"
        <4>1. UNCHANGED <<sock, timer>> /\ BeginPrime(t)
          BY <2>3, <3>1 DEF InitMessage
        <4>2. pc'[s] = pc[s] \/ pc'[s] \in {"acquiring", "initBox"}
          BY <4>1 DEF BeginPrime, RunInv, Functions
        <4> QED BY <1>1, <4>1, <4>2
      <3>2. CASE pc[t] # "idle"
        <4>1. UNCHANGED <<pc, timer>> /\ Close(t, 4000)
          BY <2>3, <3>2 DEF InitMessage
        <4>2. sock'[s] = sock[s] \/ (sock[s] = "open" /\ sock'[s] = "closing")
          BY <4>1 DEF Close
        <4> QED BY <4>1, <4>2 DEF SocketForward, SocketLeft, OpenOf
      <3> QED BY <3>1, <3>2
    <2>4. CASE Open(t)
      <3>1. /\ UNCHANGED pc /\ sock[t] = "connecting" /\ sock' = [sock EXCEPT ![t] = "open"]
            /\ timer' = [timer EXCEPT ![t] = TRUE]
        BY <2>4 DEF Open
      <3>2. CASE s = t
        <4>1. sock'[s] = "open" /\ timer'[s] = TRUE /\ pc[s] = "idle"
          BY <3>1, <3>2 DEF SockOf
        <4> QED BY <3>1, <3>2, <4>1 DEF SocketForward, SocketLeft, OpenOf
      <3>3. CASE s # t
        <4>1. sock'[s] = sock[s] /\ timer'[s] = timer[s]
          BY <3>1, <3>3
        <4> QED BY <3>1, <4>1 DEF SocketForward, OpenOf
      <3> QED BY <3>2, <3>3
    <2>5. CASE InitTimer(t)
      <3>1. UNCHANGED pc /\ timer[t] /\ timer' = [timer EXCEPT ![t] = FALSE]
        BY <2>5 DEF InitTimer
      <3>2. CASE s = t
        <4>1. timer'[s] = FALSE
          BY <3>1, <3>2
        <4>2. sock'[s] = IF pc[s] = "idle" /\ sock[s] = "open" THEN "closing" ELSE sock[s]
          BY <2>5, <3>2 DEF InitTimer, Close
        <4>3. SocketForward(s)
          <5>1. CASE pc[s] = "idle" /\ sock[s] = "open"
            BY <4>2, <5>1 DEF SocketForward, SocketLeft
          <5>2. CASE ~(pc[s] = "idle" /\ sock[s] = "open")
            BY <4>1, <4>2, <5>2 DEF SocketForward
          <5> QED BY <5>1, <5>2
        <4>4. sock'[s] = "open" => pc'[s] # "settled" /\ pc'[s] # "idle"
          BY <3>1, <4>2 DEF OpenOf
        <4> QED BY <4>1, <4>3, <4>4 DEF OpenOf
      <3>3. CASE s # t
        <4>1. sock'[s] = sock[s] /\ timer'[s] = timer[s]
          BY <2>5, <3>1, <3>3 DEF InitTimer, Close
        <4> QED BY <3>1, <4>1 DEF SocketForward, OpenOf
      <3> QED BY <3>2, <3>3
    <2>6. CASE CloseEvent(t)
      <3>1. /\ UNCHANGED pc /\ sock[t] \in {"open", "closing"} /\ sock' = [sock EXCEPT ![t] = "closed"]
            /\ timer' = [timer EXCEPT ![t] = FALSE]
        BY <2>6 DEF CloseEvent
      <3>2. CASE s = t
        <4>1. sock'[s] = "closed" /\ timer'[s] = FALSE
          BY <3>1, <3>2
        <4> QED BY <3>1, <3>2, <4>1 DEF SocketForward, SocketLeft, OpenOf
      <3>3. CASE s # t
        <4>1. sock'[s] = sock[s] /\ timer'[s] = timer[s]
          BY <3>1, <3>3
        <4> QED BY <3>1, <4>1 DEF SocketForward, OpenOf
      <3> QED BY <3>2, <3>3
    <2> QED BY <1>3, <2>1, <2>2, <2>3, <2>4, <2>5, <2>6 DEF ClientStep
  <1>4. CASE UNCHANGED vars
    BY <1>1, <1>4 DEF vars, socketVars
  <1> QED BY <1>2, <1>3, <1>4, JobSockets DEF Next


LEMMA WayNext ==
  ASSUME PairingInv, HeldInv, RunInv, SockInv, SeenInv, WayInv, [Next]_vars
  PROVE  WayInv' /\ Forward
  <1>1. timer' = [s \in Sockets |-> timer'[s]]
    <2>1. \/ timer' = timer
          \/ \E s \in Sockets : timer' = [timer EXCEPT ![s] = TRUE] \/ timer' = [timer EXCEPT ![s] = FALSE]
      <3>1. ASSUME NEW j \in Jobs, JobStep(j) \/ ProcEnds(j) PROVE timer' = timer
        BY <3>1 DEF JobStep, ProcEnds, Woken, BoxReady, PrimeFails, FilesWritten, NoCodeFile, SpawnError,
           ExitEvent, MetaMissing, StageFinished, SecondBoxReady, FilesMoved, CleanupDone, CleanupThrows, Settle,
           Throw, socketVars
      <3>2. ASSUME NEW r \in Requests, Execute(r) PROVE timer' = timer
        BY <3>2 DEF Execute, socketVars
      <3>3. ASSUME NEW s \in Sockets, ClientStep(s) \/ InitTimer(s) \/ CloseEvent(s)
            PROVE  timer' = timer \/ timer' = [timer EXCEPT ![s] = TRUE] \/ timer' = [timer EXCEPT ![s] = FALSE]
        BY <3>3 DEF ClientStep, Open, BadMessage, InitMessage, DataMessage, SignalMessage, BadSignal, InitTimer,
           CloseEvent, socketVars
      <3> QED BY <3>1, <3>2, <3>3 DEF Next, vars, socketVars
    <2>2. timer = [s \in Sockets |-> timer[s]]
      BY DEF WayInv
    <2> QED BY <2>1, <2>2
  <1> QED BY <1>1, JobsGoForward, SocketsGoForward DEF WayInv, Forward

LEMMA WayInit == Init => WayInv
  BY DEF Init, WayInv, WayOf, OpenOf, Jobs

\* Nobody waits for nothing: a parked job is woken, or every slot is held.
LEMMA NothingIsForgotten ==
  ASSUME PairingInv, HeldInv, RunInv, WayInv, available = Capacity - Cardinality(held), Proved!NoIdleSlot
  PROVE  Owed
  <1> USE DEF WayInv
  <1>1. ASSUME NEW j \in Jobs, HoldsSlot(pc[j]) \/ pc[j] = "cleanup", woken = <<>> PROVE EventDue(j)
    BY <1>1 DEF EventDue, HoldsSlot, PCs, WayOf
  <1>2. ASSUME woken # <<>> PROVE Head(woken) \in Jobs /\ EventDue(Head(woken))
    BY <1>2, RangeTail DEF PairingInv, EventDue
  <1>3. ASSUME NEW j \in Jobs, pc[j] = "acquiring", woken = <<>> PROVE \E k \in Jobs : EventDue(k)
    <2>1. waiting # <<>>
      <3>1. Slots!Range(<<>>) = {}
        BY DEF Slots!Range
      <3> QED BY <1>3, <3>1 DEF WayOf, Parked
    <2>2. Capacity - Cardinality(held) = 0
      <3>1. available = Len(<<>>) /\ Len(<<>>) = 0
        BY <1>3, <2>1, EmptySeq DEF Proved!NoIdleSlot
      <3> QED BY <3>1
    <2>3. held # {}
      <3>1. Cardinality({}) = 0 /\ Capacity \in Nat \ {0}
        BY FS_EmptySet, SessionsAssumption
      <3> QED BY <2>2, <3>1
    <2> QED BY <1>1, <1>3, <2>3 DEF HeldInv
  <1>4. ASSUME NEW j \in Jobs, UnderWay(j)
        PROVE  EventDue(j) \/ ((pc[j] = "acquiring" \/ woken # <<>>) /\ \E k \in Jobs : EventDue(k))
    <2>1. pc[j] = "acquiring" \/ HoldsSlot(pc[j]) \/ pc[j] = "cleanup"
      BY <1>4 DEF UnderWay, HoldsSlot, RunInv, RunOf
    <2> QED BY <1>1, <1>2, <1>3, <2>1
  <1>5. \A s \in Sockets : sock[s] = "open" => timer[s] \/ UnderWay(s)
    BY DEF OpenOf, UnderWay
  <1> QED BY <1>4, <1>5 DEF Owed


\* However many requests and sockets there are, every job comes to its end but
\* for what it waits for: no step takes a job back, and as long as one is under
\* way it waits for an event of its own, or for a slot or a microtask that the
\* event of another job leads to; the parked ones stand in a line that only loses
\* its head, to a slot.  So do the connections: one that is open has its timer or
\* a job to close it (job_slots.ts:4-6, v2.ts:521-526, 568, 598).
THEOREM JobsGetNearerTheirEnd ==
  Spec => /\ []Owed /\ [](\A j \in Jobs : StepsLeft(j) \in Nat)
          /\ [][Forward]_vars /\ [][Proved!LineMoves]_slotVars
  <1>1. PairingInv /\ HeldInv /\ RunInv /\ SockInv /\ SeenInv /\ WayInv /\ [Next]_vars => WayInv' /\ [Forward]_vars
    BY WayNext
  <1>2. /\ PairingInv /\ HeldInv /\ RunInv /\ WayInv
        /\ available = Capacity - Cardinality(held) /\ Proved!NoIdleSlot
        => Owed
    BY NothingIsForgotten
  <1>3. \A j \in Jobs : StepsLeft(j) \in Nat
    BY DEF StepsLeft
  <1>4. Proved!SlotsSpec => [][Proved!LineMoves]_(Proved!slotVars)
    <2>1. Proved!SlotsSpec => []Proved!SlotIsDue /\ [][Proved!LineMoves]_(Proved!slotVars)
      BY SessionsAssumption, Proved!ParkedGetNearerTheirSlot
    <2> QED BY <2>1, PTL
  <1>5. [Proved!LineMoves]_(Proved!slotVars) => [Proved!LineMoves]_slotVars
    BY DEF slotVars, Proved!slotVars
  <1> QED
    BY <1>1, <1>2, <1>3, <1>4, <1>5, WayInit, JobsAreCallers, SlotsOfJobs, HeldInvariant, RunInvariant,
       SockInvariant, SeenInvariant, PTL DEF Spec

===============================================================================
