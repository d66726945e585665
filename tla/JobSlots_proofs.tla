--------------------------- MODULE JobSlots_proofs ---------------------------
(***************************************************************************)
(* Proofs about JobSlots, for every set of callers (finite or not) and     *)
(* every capacity: the inductive invariant, its conjuncts, first come      *)
(* first served, the refinement of SlotPool, and that whoever is parked    *)
(* gets nearer its slot.                                                   *)
(***************************************************************************)
EXTENDS JobSlots, FiniteSetTheorems, SequenceTheorems, TLAPS

(* Asking, in terms of positions. *)
LEMMA AskingPositions ==
    ASSUME SlotsTypeOK, NEW c, ~Asking(c)
    PROVE  /\ c \notin held
           /\ \A i \in 1..Len(waiting) : waiting[i] # c
           /\ \A i \in 1..Len(woken) : woken[i] # c
  BY LenProperties DEF SlotsTypeOK, Asking, Range

(* The slot taken by c when c holds none yet. *)
LEMMA TakeSlot ==
    ASSUME SlotAccounting, available >= 1, NEW c, c \notin held,
           available' = available - 1, held' = held \cup {c}
    PROVE  SlotAccounting'
  <1>1. /\ IsFiniteSet(held')
        /\ Cardinality(held') = Cardinality(held) + 1
    BY FS_AddElement DEF SlotAccounting
  <1>2. Cardinality(held) \in Nat /\ Capacity \in Nat
    BY FS_CardinalityType, CapacityAssumption DEF SlotAccounting
  <1> QED
    BY <1>1, <1>2 DEF SlotAccounting

LEMMA AcquireNowInv ==
    ASSUME SlotsInv, NEW c \in Callers, ~Asking(c), MicrotasksDrained, AcquireNow(c)
    PROVE  SlotsInv'
  <1> USE DEF SlotsInv
  <1>1. c \notin held /\ (\A i \in 1..Len(waiting) : waiting[i] # c)
    BY AskingPositions
  <1>2. Len(woken) = 0 /\ Len(woken) \in Nat
    BY DEF MicrotasksDrained
  <1>3. SlotsTypeOK'
    BY DEF AcquireNow, SlotsTypeOK
  <1>4. SlotAccounting'
    BY <1>1, TakeSlot DEF AcquireNow, SlotsTypeOK
  <1>5. NoIdleSlot'
    BY <1>2 DEF AcquireNow, NoIdleSlot, SlotsTypeOK
  <1>6. WokenHaveSlots'
    BY <1>2 DEF AcquireNow, WokenHaveSlots, SlotsTypeOK
  <1>7. OnePlaceEach'
    BY <1>1, <1>2 DEF AcquireNow, OnePlaceEach
  <1> QED
    BY <1>3, <1>4, <1>5, <1>6, <1>7

LEMMA AcquireParkInv ==
    ASSUME SlotsInv, NEW c \in Callers, ~Asking(c), MicrotasksDrained, AcquirePark(c)
    PROVE  SlotsInv'
  <1> USE DEF SlotsInv
  <1>1. /\ c \notin held
        /\ \A i \in 1..Len(waiting) : waiting[i] # c
        /\ \A i \in 1..Len(woken) : woken[i] # c
    BY AskingPositions
  <1>2. Len(woken) = 0
    BY DEF MicrotasksDrained
  <1>3. /\ Len(waiting) \in Nat
        /\ Len(waiting') = Len(waiting) + 1
        /\ waiting'[Len(waiting) + 1] = c
        /\ \A i \in 1..Len(waiting) : waiting'[i] = waiting[i]
    BY AppendProperties, LenProperties DEF AcquirePark, SlotsTypeOK
  <1>4. SlotsTypeOK'
    BY AppendProperties DEF AcquirePark, SlotsTypeOK
  <1>5. SlotAccounting' /\ WokenHaveSlots'
    BY DEF AcquirePark, SlotAccounting, WokenHaveSlots
  <1>6. NoIdleSlot'
    BY <1>2 DEF AcquirePark, NoIdleSlot, SlotAccounting, SlotsTypeOK
  <1>7. OnePlaceEach'
    BY <1>1, <1>2, <1>3 DEF AcquirePark, OnePlaceEach
  <1> QED
    BY <1>4, <1>5, <1>6, <1>7

LEMMA ResumeInv ==
    ASSUME SlotsInv, NEW c \in Callers, Resume(c)
    PROVE  SlotsInv'
  <1> USE DEF SlotsInv
  <1>1. /\ Len(woken) \in Nat \ {0}
        /\ c = woken[1]
    BY EmptySeq, LenProperties DEF Resume, SlotsTypeOK
  <1>2. /\ woken' \in Seq(Callers)
        /\ Len(woken') = Len(woken) - 1
        /\ \A i \in 1..Len(woken') : woken'[i] = woken[i+1]
    BY HeadTailProperties DEF Resume, SlotsTypeOK
  <1>3. c \notin held
    BY <1>1 DEF OnePlaceEach
  <1>4. SlotsTypeOK'
    BY <1>2 DEF Resume, SlotsTypeOK
  <1>5. available >= 1
    BY <1>1 DEF WokenHaveSlots, SlotsTypeOK
  <1>6. SlotAccounting'
    BY <1>3, <1>5, TakeSlot DEF Resume
  <1>7. NoIdleSlot' /\ WokenHaveSlots'
    <2>1. Len(woken') = Len(woken) - 1 /\ Len(woken) \in Nat
      BY <1>1, <1>2
    <2>2. available' = available - 1 /\ waiting' = waiting /\ available \in Int
      BY DEF Resume, SlotsTypeOK
    <2> QED
      BY <2>1, <2>2 DEF NoIdleSlot, WokenHaveSlots
  <1>8. OnePlaceEach'
    <2>1. \A i \in 1..Len(woken') : i + 1 \in 1..Len(woken) /\ i + 1 # 1
      BY <1>1, <1>2
    <2>2. \A i, j \in 1..Len(woken') : woken'[i] = woken'[j] => i = j
      BY <1>2, <2>1 DEF OnePlaceEach
    <2>3. \A j \in 1..Len(woken') : woken'[j] \notin held'
      BY <1>1, <1>2, <2>1 DEF OnePlaceEach, Resume
    <2>4. \A i \in 1..Len(waiting') : waiting'[i] \notin held'
      BY <1>1 DEF OnePlaceEach, Resume
    <2>5. \A i \in 1..Len(waiting') : \A j \in 1..Len(woken') : waiting'[i] # woken'[j]
      BY <1>2, <2>1 DEF OnePlaceEach, Resume
    <2> QED
      BY <2>2, <2>3, <2>4, <2>5 DEF OnePlaceEach, Resume
  <1> QED
    BY <1>4, <1>6, <1>7, <1>8

LEMMA ReleaseInv ==
    ASSUME SlotsInv, NEW c \in Callers, GiveBack(c)
    PROVE  SlotsInv'
  <1> USE DEF SlotsInv, GiveBack
  <1>1. SlotAccounting'
    <2>1. /\ IsFiniteSet(held')
          /\ Cardinality(held') = Cardinality(held) - 1
      BY FS_RemoveElement DEF SlotAccounting, Release
    <2>2. Cardinality(held) \in Nat /\ Capacity \in Nat
      BY FS_CardinalityType, CapacityAssumption DEF SlotAccounting
    <2> QED
      BY <2>1, <2>2 DEF SlotAccounting, Release
  <1>2. CASE waiting = <<>>
    <2>1. SlotsTypeOK'
      BY <1>2 DEF SlotsTypeOK, Release
    <2>2. NoIdleSlot' /\ WokenHaveSlots'
      BY <1>2, LenProperties DEF NoIdleSlot, WokenHaveSlots, Release, SlotsTypeOK
    <2>3. OnePlaceEach'
      BY <1>2 DEF OnePlaceEach, Release
    <2> QED
      BY <1>1, <2>1, <2>2, <2>3
  <1>3. CASE waiting # <<>>
    <2>1. /\ Len(waiting) \in Nat \ {0}
          /\ Len(woken) \in Nat
          /\ Head(waiting) = waiting[1]
          /\ Head(waiting) \in Callers
      BY <1>3, EmptySeq, LenProperties, HeadTailProperties DEF SlotsTypeOK
    <2>2. /\ waiting' \in Seq(Callers)
          /\ Len(waiting') = Len(waiting) - 1
          /\ \A i \in 1..Len(waiting') : waiting'[i] = waiting[i+1]
      BY <1>3, HeadTailProperties DEF Release, SlotsTypeOK
    <2>3. /\ woken' \in Seq(Callers)
          /\ Len(woken') = Len(woken) + 1
          /\ woken'[Len(woken) + 1] = waiting[1]
          /\ \A i \in 1..Len(woken) : woken'[i] = woken[i]
      <3>1. woken' = Append(woken, waiting[1]) /\ woken \in Seq(Callers)
        BY <1>3, <2>1 DEF Release, SlotsTypeOK
      <3>2. waiting[1] \in Callers
        BY <2>1
      <3> QED
        BY <3>1, <3>2, AppendProperties
    <2>4. SlotsTypeOK'
      BY <2>2, <2>3 DEF SlotsTypeOK, Release
    <2>5. NoIdleSlot' /\ WokenHaveSlots'
      BY <1>3, <2>1, <2>3 DEF NoIdleSlot, WokenHaveSlots, Release, SlotsTypeOK
    <2>6. OnePlaceEach'
      <3>1. \A i \in 1..Len(waiting') : i + 1 \in 1..Len(waiting) /\ i + 1 # 1
        BY <2>1, <2>2
      <3>2. 1 \in 1..Len(waiting)
        BY <2>1
      <3>3. \A j \in 1..Len(woken') : j \in 1..Len(woken) \/ j = Len(woken) + 1
        BY <2>1, <2>3
      <3>4. \A i, j \in 1..Len(waiting') : waiting'[i] = waiting'[j] => i = j
        BY <2>2, <3>1 DEF OnePlaceEach
      <3>5. \A i, j \in 1..Len(woken') : woken'[i] = woken'[j] => i = j
        BY <2>3, <3>2, <3>3 DEF OnePlaceEach
      <3>6. \A i \in 1..Len(waiting') : \A j \in 1..Len(woken') : waiting'[i] # woken'[j]
        BY <2>2, <2>3, <3>1, <3>2, <3>3 DEF OnePlaceEach
      <3>7. \A i \in 1..Len(waiting') : waiting'[i] \notin held'
        BY <2>2, <3>1 DEF OnePlaceEach, Release
      <3>8. \A j \in 1..Len(woken') : woken'[j] \notin held'
        BY <2>3, <3>2, <3>3 DEF OnePlaceEach, Release
      <3> QED
        BY <3>4, <3>5, <3>6, <3>7, <3>8 DEF OnePlaceEach
    <2> QED
      BY <1>1, <2>4, <2>5, <2>6
  <1> QED
    BY <1>2, <1>3

LEMMA StutterInv ==
    ASSUME SlotsInv, UNCHANGED slotVars
    PROVE  SlotsInv'
  BY DEF SlotsInv, SlotsTypeOK, SlotAccounting, NoIdleSlot, WokenHaveSlots,
         OnePlaceEach, slotVars

LEMMA InitInv == SlotsInit => SlotsInv
  BY FS_EmptySet, CapacityAssumption
  DEF SlotsInit, SlotsInv, SlotsTypeOK, SlotAccounting, NoIdleSlot, WokenHaveSlots,
      OnePlaceEach

(* The five invariants hold together, for any callers and capacity.        *)
THEOREM SlotsInvariant == SlotsSpec => []SlotsInv
  <1>1. SlotsInv /\ [SlotsNext]_slotVars => SlotsInv'
    <2> SUFFICES ASSUME SlotsInv, [SlotsNext]_slotVars PROVE SlotsInv'
      OBVIOUS
    <2>1. ASSUME NEW c \in Callers, Ask(c) PROVE SlotsInv'
      BY <2>1, AcquireNowInv, AcquireParkInv DEF Ask, Acquire
    <2>2. ASSUME NEW c \in Callers, Resume(c) PROVE SlotsInv'
      BY <2>2, ResumeInv
    <2>3. ASSUME NEW c \in Callers, GiveBack(c) PROVE SlotsInv'
      BY <2>3, ReleaseInv
    <2>4. CASE UNCHANGED slotVars
      BY <2>4, StutterInv
    <2> QED
      BY <2>1, <2>2, <2>3, <2>4 DEF SlotsNext
  <1> QED
    BY <1>1, InitInv, PTL DEF SlotsSpec

(* The counter never lies and never goes below zero, whatever the order of *)
(* acquisitions, releases and late decrements (job_slots.ts:22-36).        *)
THEOREM SlotAccountingHolds == SlotsSpec => []SlotAccounting
  BY SlotsInvariant, PTL DEF SlotsInv

(* A wakeup is never lost: no free slot is left unpromised while a caller  *)
(* is parked (job_slots.ts:32-36).                                         *)
THEOREM NoIdleSlotHolds == SlotsSpec => []NoIdleSlot
  BY SlotsInvariant, PTL DEF SlotsInv

-----------------------------------------------------------------------------
(* How the queue of callers, woken ones first, changes at each action.     *)

LEMMA LineOnAcquireNow ==
    ASSUME SlotsInv, MicrotasksDrained, NEW c, AcquireNow(c)
    PROVE  woken = <<>> /\ waiting = <<>> /\ woken \o waiting = <<>>
  <1>1. woken = <<>> /\ Len(woken) = 0
    BY DEF MicrotasksDrained
  <1>2. waiting = <<>>
    BY <1>1 DEF AcquireNow, SlotsInv, NoIdleSlot, SlotsTypeOK
  <1>3. <<>> \o <<>> = <<>>
    BY ConcatEmptySeq, EmptySeq
  <1> QED
    BY <1>1, <1>2, <1>3

LEMMA LineOnAcquirePark ==
    ASSUME SlotsInv, NEW c \in Callers, AcquirePark(c)
    PROVE  (woken \o waiting)' = Append(woken \o waiting, c)
  <1>1. waiting' = waiting \o <<c>> /\ woken' = woken
    BY AppendIsConcat DEF AcquirePark, SlotsInv, SlotsTypeOK
  <1>2. <<c>> \in Seq(Callers) /\ waiting \in Seq(Callers) /\ woken \in Seq(Callers)
    BY DEF SlotsInv, SlotsTypeOK
  <1>3. (woken \o waiting) \o <<c>> = woken \o (waiting \o <<c>>)
    BY <1>2, ConcatAssociative
  <1>4. Append(woken \o waiting, c) = (woken \o waiting) \o <<c>>
    BY <1>2, ConcatProperties, AppendIsConcat
  <1> QED
    BY <1>1, <1>3, <1>4

LEMMA LineOnResume ==
    ASSUME SlotsInv, NEW c, Resume(c)
    PROVE  /\ woken \o waiting # <<>>
           /\ Head(woken \o waiting) = c
           /\ (woken \o waiting)' = Tail(woken \o waiting)
  <1> DEFINE line == woken \o waiting
  <1>1. /\ woken \in Seq(Callers) /\ waiting \in Seq(Callers)
        /\ woken # <<>> /\ woken' = Tail(woken) /\ waiting' = waiting
        /\ c = Head(woken)
    BY DEF SlotsInv, SlotsTypeOK, Resume
  <1>2. /\ Len(woken) \in Nat \ {0} /\ Len(waiting) \in Nat
        /\ Head(woken) = woken[1]
    BY <1>1, EmptySeq, LenProperties
  <1>3. /\ line \in Seq(Callers)
        /\ Len(line) = Len(woken) + Len(waiting)
        /\ \A i \in 1..Len(woken) + Len(waiting) :
              line[i] = IF i <= Len(woken) THEN woken[i] ELSE waiting[i - Len(woken)]
    BY <1>1, ConcatProperties
  <1>4. line # <<>>
    BY <1>2, <1>3
  <1>5. Head(line) = line[1]
    BY <1>3, <1>4
  <1>6. line[1] = woken[1]
    BY <1>2, <1>3
  <1>7. Tail(line) = Tail(woken) \o waiting
    <2>1. /\ Tail(woken) \in Seq(Callers)
          /\ Len(Tail(woken)) = Len(woken) - 1
          /\ \A i \in 1..Len(Tail(woken)) : Tail(woken)[i] = woken[i+1]
      BY <1>1, HeadTailProperties
    <2>2. /\ Tail(line) \in Seq(Callers)
          /\ Len(Tail(line)) = Len(line) - 1
          /\ \A i \in 1..Len(Tail(line)) : Tail(line)[i] = line[i+1]
      BY <1>3, <1>4, HeadTailProperties
    <2>3. /\ Tail(woken) \o waiting \in Seq(Callers)
          /\ Len(Tail(woken) \o waiting) = Len(woken) - 1 + Len(waiting)
          /\ \A i \in 1..Len(woken) - 1 + Len(waiting) :
                (Tail(woken) \o waiting)[i] =
                   IF i <= Len(woken) - 1 THEN Tail(woken)[i]
                   ELSE waiting[i - (Len(woken) - 1)]
      BY <1>1, <2>1, ConcatProperties
    <2>4. ASSUME NEW i \in 1..Len(Tail(line))
          PROVE  Tail(line)[i] = (Tail(woken) \o waiting)[i]
      <3>1. /\ i \in Nat \ {0} /\ i + 1 \in 1..Len(woken) + Len(waiting)
            /\ i \in 1..Len(woken) - 1 + Len(waiting)
            /\ Tail(line)[i] = line[i+1]
        BY <1>2, <1>3, <2>2
      <3>2. CASE i <= Len(woken) - 1
        BY <1>2, <1>3, <2>1, <2>3, <3>1, <3>2
      <3>3. CASE i > Len(woken) - 1
        <4>1. i + 1 - Len(woken) = i - (Len(woken) - 1)
          BY <1>2, <3>1
        <4>2. line[i+1] = waiting[i + 1 - Len(woken)]
          BY <1>2, <1>3, <3>1, <3>3
        <4>3. (Tail(woken) \o waiting)[i] = waiting[i - (Len(woken) - 1)]
          BY <1>2, <2>3, <3>1, <3>3
        <4> QED
          BY <4>1, <4>2, <4>3, <3>1
      <3> QED
        BY <1>2, <3>1, <3>2, <3>3
    <2>5. Len(Tail(line)) = Len(Tail(woken) \o waiting)
      BY <1>2, <1>3, <2>2, <2>3
    <2> QED
      BY <2>2, <2>3, <2>4, <2>5, SeqEqual
  <1> QED
    BY <1>1, <1>2, <1>4, <1>5, <1>6, <1>7

LEMMA LineOnRelease ==
    ASSUME SlotsInv, NEW c, Release(c)
    PROVE  (woken \o waiting)' = woken \o waiting
  <1>1. woken \in Seq(Callers) /\ waiting \in Seq(Callers)
    BY DEF SlotsInv, SlotsTypeOK
  <1>2. CASE waiting # <<>>
    <2>1. Head(waiting) \in Callers /\ Tail(waiting) \in Seq(Callers)
      BY <1>1, <1>2, HeadTailProperties
    <2>2. woken' = woken \o <<Head(waiting)>> /\ waiting' = Tail(waiting)
      BY <1>1, <1>2, <2>1, AppendIsConcat DEF Release
    <2>3. waiting = <<Head(waiting)>> \o Tail(waiting)
      <3>1. /\ Len(waiting) \in Nat \ {0} /\ Head(waiting) = waiting[1]
            /\ <<Head(waiting)>> \in Seq(Callers)
            /\ Len(<<Head(waiting)>>) = 1 /\ <<Head(waiting)>>[1] = Head(waiting)
        BY <1>1, <1>2, <2>1, EmptySeq, LenProperties
      <3>2. /\ Len(Tail(waiting)) = Len(waiting) - 1
            /\ \A i \in 1..Len(Tail(waiting)) : Tail(waiting)[i] = waiting[i+1]
        BY <1>1, <1>2, HeadTailProperties
      <3>3. /\ <<Head(waiting)>> \o Tail(waiting) \in Seq(Callers)
            /\ Len(<<Head(waiting)>> \o Tail(waiting)) = 1 + (Len(waiting) - 1)
            /\ \A i \in 1..1 + (Len(waiting) - 1) :
                  (<<Head(waiting)>> \o Tail(waiting))[i] =
                     IF i <= 1 THEN <<Head(waiting)>>[i] ELSE Tail(waiting)[i - 1]
        BY <2>1, <3>1, <3>2, ConcatProperties
      <3>4. ASSUME NEW i \in 1..Len(waiting)
            PROVE  waiting[i] = (<<Head(waiting)>> \o Tail(waiting))[i]
        <4>1. i \in 1..1 + (Len(waiting) - 1)
          BY <3>1
        <4>2. CASE i = 1
          BY <3>1, <3>3, <4>1, <4>2
        <4>3. CASE i # 1
          <5>1. i - 1 \in 1..Len(Tail(waiting)) /\ ~(i <= 1) /\ (i - 1) + 1 = i
            BY <3>1, <3>2, <4>3
          <5> QED
            BY <3>2, <3>3, <4>1, <5>1
        <4> QED
          BY <4>2, <4>3
      <3>5. Len(waiting) = Len(<<Head(waiting)>> \o Tail(waiting))
        BY <3>1, <3>3
      <3> QED
        BY <1>1, <3>3, <3>4, <3>5, SeqEqual
    <2>4. (woken \o <<Head(waiting)>>) \o Tail(waiting)
            = woken \o (<<Head(waiting)>> \o Tail(waiting))
      BY <1>1, <2>1, ConcatAssociative
    <2> QED
      BY <2>2, <2>3, <2>4
  <1>3. CASE waiting = <<>>
    BY <1>3 DEF Release
  <1> QED
    BY <1>2, <1>3

(* A caller that gets a slot was first in line (job_slots.ts:31).          *)
THEOREM FirstComeFirstServedHolds == SlotsSpec => FirstComeFirstServed
  <1> DEFINE Fair(c) == woken \o waiting # <<>> => c = Head(woken \o waiting)
  <1>1. SlotsInv /\ [SlotsNext]_slotVars => [\A c \in held' \ held : Fair(c)]_slotVars
    <2> SUFFICES ASSUME SlotsInv, SlotsNext, NEW c \in held', c \notin held
                 PROVE  Fair(c)
      OBVIOUS
    <2>1. ASSUME NEW d \in Callers, Ask(d) PROVE Fair(c)
      <3>1. CASE AcquireNow(d)
        BY <2>1, <3>1, LineOnAcquireNow DEF Ask, Acquire
      <3>2. CASE AcquirePark(d)
        BY <3>2 DEF AcquirePark
      <3> QED
        BY <2>1, <3>1, <3>2 DEF Ask, Acquire
    <2>2. ASSUME NEW d \in Callers, Resume(d) PROVE Fair(c)
      <3>1. c = d
        BY <2>2 DEF Resume
      <3> QED
        BY <2>2, <3>1, LineOnResume
    <2>3. ASSUME NEW d \in Callers, GiveBack(d) PROVE Fair(c)
      BY <2>3 DEF GiveBack, Release
    <2> QED
      BY <2>1, <2>2, <2>3 DEF SlotsNext
  <1> QED
    BY <1>1, SlotsInvariant, PTL DEF SlotsSpec, FirstComeFirstServed

LEMMA OutstandingIsAsking ==
    ASSUME SlotsInv, NEW c, ~Asking(c)
    PROVE  c \notin Pool!Outstanding
  <1>1. /\ woken \in Seq(Callers) /\ waiting \in Seq(Callers)
        /\ Len(woken) \in Nat /\ Len(waiting) \in Nat
    BY LenProperties DEF SlotsInv, SlotsTypeOK
  <1>2. /\ Len(woken \o waiting) = Len(woken) + Len(waiting)
        /\ \A i \in 1..Len(woken) + Len(waiting) : (woken \o waiting)[i] =
              IF i <= Len(woken) THEN woken[i] ELSE waiting[i - Len(woken)]
    BY <1>1, ConcatProperties
  <1>3. /\ c \notin held
        /\ \A i \in 1..Len(waiting) : waiting[i] # c
        /\ \A i \in 1..Len(woken) : woken[i] # c
    BY AskingPositions DEF SlotsInv
  <1>4. ASSUME NEW i \in 1..Len(woken \o waiting)
        PROVE  (woken \o waiting)[i] # c
    <2>1. CASE i <= Len(woken)
      BY <1>1, <1>2, <1>3, <2>1
    <2>2. CASE ~(i <= Len(woken))
      <3>1. i - Len(woken) \in 1..Len(waiting)
        BY <1>1, <1>2, <2>2
      <3> QED
        BY <1>1, <1>2, <1>3, <2>2, <3>1
    <2> QED
      BY <2>1, <2>2
  <1> QED
    BY <1>3, <1>4 DEF Pool!Outstanding

(* The counter, the parked promises and the microtask queue implement the  *)
(* abstract pool: every step of JobSlots is a step of SlotPool.            *)
THEOREM PoolRefinedHolds == SlotsSpec => PoolRefined
  <1>1. SlotsInit => Pool!PoolInit
    BY ConcatEmptySeq, EmptySeq DEF SlotsInit, Pool!PoolInit
  <1>2. SlotsInv /\ [SlotsNext]_slotVars => [Pool!PoolNext]_(Pool!poolVars)
    <2> SUFFICES ASSUME SlotsInv, [SlotsNext]_slotVars
                 PROVE  [Pool!PoolNext]_(Pool!poolVars)
      OBVIOUS
    <2> USE DEF Pool!poolVars
    <2>1. Pool!Full <=> available = 0
      <3>1. Cardinality(held) \in Nat /\ Capacity \in Nat
        BY FS_CardinalityType, CapacityAssumption DEF SlotsInv, SlotAccounting
      <3>2. Pool!Cardinality(held) = Cardinality(held)
        BY DEF Pool!Cardinality, Cardinality
      <3> QED
        BY <3>1, <3>2 DEF Pool!Full, SlotsInv, SlotAccounting
    <2>2. ASSUME NEW c \in Callers, Ask(c) PROVE Pool!Arrive(c)
      <3>1. c \notin Pool!Outstanding
        BY <2>2, OutstandingIsAsking DEF Ask
      <3>2. CASE AcquireNow(c)
        <4>1. woken \o waiting = <<>> /\ (woken \o waiting)' = woken \o waiting
          BY <2>2, <3>2, LineOnAcquireNow DEF Ask, Acquire, AcquireNow
        <4>2. ~Pool!Full
          BY <2>1, <3>2 DEF AcquireNow
        <4> QED
          BY <3>1, <3>2, <4>1, <4>2 DEF Pool!Arrive, AcquireNow
      <3>3. CASE AcquirePark(c)
        <4>1. (woken \o waiting)' = Append(woken \o waiting, c)
          BY <3>3, LineOnAcquirePark
        <4>2. Pool!Full
          BY <2>1, <3>3 DEF AcquirePark, SlotsInv, SlotAccounting, SlotsTypeOK
        <4> QED
          BY <3>1, <3>3, <4>1, <4>2 DEF Pool!Arrive, AcquirePark
      <3> QED
        BY <2>2, <3>2, <3>3 DEF Ask, Acquire
    <2>3. ASSUME NEW c \in Callers, Resume(c) PROVE Pool!Grant
      <3>1. ~Pool!Full
        <4>1. Len(woken) \in Nat \ {0}
          BY <2>3, EmptySeq DEF Resume, SlotsInv, SlotsTypeOK
        <4>2. available >= 1
          BY <4>1 DEF SlotsInv, WokenHaveSlots, SlotsTypeOK
        <4> QED
          BY <2>1, <4>2 DEF SlotsInv, SlotsTypeOK
      <3> QED
        BY <2>3, <3>1, LineOnResume DEF Pool!Grant, Resume
    <2>4. ASSUME NEW c \in Callers, GiveBack(c) PROVE Pool!Return(c)
      BY <2>4, LineOnRelease DEF Pool!Return, GiveBack, Release
    <2>5. CASE UNCHANGED slotVars
      BY <2>5 DEF slotVars
    <2> QED
      BY <2>2, <2>3, <2>4, <2>5 DEF SlotsNext, Pool!PoolNext
  <1> QED
    BY <1>1, <1>2, SlotsInvariant, PTL DEF SlotsSpec, PoolRefined, Pool!PoolSpec

-----------------------------------------------------------------------------
(* Every parked caller gets nearer its slot.                               *)

\* A woken caller's continuation is due, or somebody holds a slot to give back.
SlotIsDue == woken \o waiting # <<>> => woken # <<>> \/ held # {}

\* The line grows at its end and loses only its head, to a slot.
LineMoves ==
    LET line == woken \o waiting
    IN  \/ line' = line
        \/ \E c \in Callers : line' = Append(line, c)
        \/ line # <<>> /\ line' = Tail(line) /\ Head(line) \in held'

(* A parked caller has only those in front of it to wait for, of whom each *)
(* step takes one away or none, and never all wait for each other: one is  *)
(* woken, or a slot is held whose return wakes one (job_slots.ts:4-6).     *)
THEOREM ParkedGetNearerTheirSlot == SlotsSpec => []SlotIsDue /\ [][LineMoves]_slotVars
  <1>1. SlotsInv => SlotIsDue
    <2> SUFFICES ASSUME SlotsInv, woken = <<>>, held = {} PROVE woken \o waiting = <<>>
      BY DEF SlotIsDue
    <2>1. available = Capacity /\ Capacity # 0
      BY FS_EmptySet, CapacityAssumption DEF SlotsInv, SlotAccounting
    <2>2. waiting = <<>>
      BY <2>1 DEF SlotsInv, NoIdleSlot
    <2>3. <<>> \o <<>> = <<>>
      BY ConcatEmptySeq, EmptySeq
    <2> QED BY <2>2, <2>3
  <1>2. SlotsInv /\ [SlotsNext]_slotVars => [LineMoves]_slotVars
    <2> SUFFICES ASSUME SlotsInv, SlotsNext PROVE LineMoves
      OBVIOUS
    <2>1. ASSUME NEW c \in Callers, Ask(c) PROVE LineMoves
      <3>1. CASE AcquireNow(c)
        BY <3>1 DEF AcquireNow, LineMoves
      <3>2. CASE AcquirePark(c)
        BY <3>2, LineOnAcquirePark DEF LineMoves
      <3> QED BY <2>1, <3>1, <3>2 DEF Ask, Acquire
    <2>2. ASSUME NEW c \in Callers, Resume(c) PROVE LineMoves
      <3>1. held' = held \cup {c}
        BY <2>2 DEF Resume
      <3> QED BY <2>2, <3>1, LineOnResume DEF LineMoves
    <2>3. ASSUME NEW c \in Callers, GiveBack(c) PROVE LineMoves
      BY <2>3, LineOnRelease DEF GiveBack, LineMoves
    <2> QED BY <2>1, <2>2, <2>3 DEF SlotsNext
  <1> QED BY <1>1, <1>2, SlotsInvariant, PTL DEF SlotsSpec

===============================================================================
