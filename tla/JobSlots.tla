------------------------------ MODULE JobSlots ------------------------------
(***************************************************************************)
(* The counting semaphore of src/api/src/job_slots.ts that bounds how many *)
(* jobs run at once.                                                       *)
(*                                                                         *)
(* The class runs on a JavaScript event loop.  acquire() that finds no     *)
(* slot parks a promise resolver; release() gives the slot back to the     *)
(* counter and resolves the oldest promise, but the woken caller only      *)
(* takes the slot (the available-- after its await) in a later microtask.  *)
(* Between the two the counter shows a slot that is already promised.      *)
(* "woken" holds the callers in that window, in the order of the microtask *)
(* queue.  The runtime empties that queue before it starts another event   *)
(* handler, and every acquire() of the program is called from one (a       *)
(* WebSocket message, the arrival of a request body): hence the guard of   *)
(* Acquire.  release() is called from microtasks too and has no such guard.*)
(*                                                                         *)
(* "held" is not in the class: it names the callers whose acquire()        *)
(* returned and that have not released, the pairing the class's comment    *)
(* demands of its users.                                                   *)
(***************************************************************************)
EXTENDS Integers, Sequences, FiniteSets, Functions

CONSTANTS
    Callers,    \* the jobs that may ask for a slot
    Capacity    \* config.max_concurrent_jobs

ASSUME CapacityAssumption == Capacity \in Nat \ {0}

VARIABLES
    available,  \* #available
    waiting,    \* #waiting: resolvers of parked callers, oldest first
    woken,      \* resolved callers whose continuation has not run yet
    held        \* callers that hold a slot

slotVars == <<available, waiting, woken, held>>

SlotsInit ==
    /\ available = Capacity
    /\ waiting = <<>>
    /\ woken = <<>>
    /\ held = {}

Asking(c) == c \in Range(waiting) \/ c \in Range(woken) \/ c \in held

MicrotasksDrained == woken = <<>>

-----------------------------------------------------------------------------
(* acquire(): the counter is tested once, before the await.                *)

\* Altered: admits one caller too many.
AcquireNowOffByOne(c) ==
    /\ ~(available < 0)
    /\ available' = available - 1
    /\ held' = held \cup {c}
    /\ UNCHANGED <<waiting, woken>>

AcquireNow(c) ==
    /\ ~(available < 1)
    /\ available' = available - 1
    /\ held' = held \cup {c}
    /\ UNCHANGED <<waiting, woken>>

AcquirePark(c) ==
    /\ available < 1
    /\ waiting' = Append(waiting, c)
    /\ UNCHANGED <<available, woken, held>>

Acquire(c) ==
    /\ MicrotasksDrained
    /\ AcquireNow(c) \/ AcquirePark(c)

(* The continuation of acquire() after its await: no second test.          *)
Resume(c) ==
    /\ woken # <<>> /\ c = Head(woken)
    /\ woken' = Tail(woken)
    /\ available' = available - 1
    /\ held' = held \cup {c}
    /\ UNCHANGED waiting

\* Altered: nobody is woken.
ReleaseWithoutWake(c) ==
    /\ available' = available + 1
    /\ held' = held \ {c}
    /\ UNCHANGED <<waiting, woken>>

\* Altered: pop() for shift().
ReleaseWakesNewest(c) ==
    /\ available' = available + 1
    /\ IF waiting # <<>>
       THEN /\ waiting' = SubSeq(waiting, 1, Len(waiting) - 1)
            /\ woken' = Append(woken, waiting[Len(waiting)])
       ELSE UNCHANGED <<waiting, woken>>
    /\ held' = held \ {c}

(* release(): unconditional, whoever calls it.                             *)
Release(c) ==
    /\ available' = available + 1
    /\ IF waiting # <<>>
       THEN /\ waiting' = Tail(waiting)
            /\ woken' = Append(woken, Head(waiting))
       ELSE UNCHANGED <<waiting, woken>>
    /\ held' = held \ {c}

-----------------------------------------------------------------------------
(* A client of the class that pairs its calls, as its comment requires.    *)
Ask(c)      == ~Asking(c) /\ Acquire(c)
GiveBack(c) == c \in held /\ Release(c)

SlotsNext == \E c \in Callers : Ask(c) \/ Resume(c) \/ GiveBack(c)

SlotsSpec == SlotsInit /\ [][SlotsNext]_slotVars

(* The runtime runs the microtasks it queued, and a job that holds a slot  *)
(* gives it back (module Sessions shows that of the jobs).                 *)
SlotsFairness == \A c \in Callers : WF_slotVars(Resume(c)) /\ WF_slotVars(GiveBack(c))

FairSlotsSpec == SlotsSpec /\ SlotsFairness

-----------------------------------------------------------------------------
SlotsTypeOK ==
    /\ available \in Int
    /\ waiting \in Seq(Callers)
    /\ woken \in Seq(Callers)
    /\ held \in SUBSET Callers

(* The counter is the capacity less the slots held, so at most Capacity    *)
(* callers hold one however acquire, release and the late decrement of a   *)
(* woken caller interleave (job_slots.ts:22-36).                           *)
SlotAccounting ==
    /\ IsFiniteSet(held)
    /\ available = Capacity - Cardinality(held)
    /\ available >= 0

(* No lost wakeup: while a caller is parked, every slot the counter shows  *)
(* is promised to a woken caller (job_slots.ts:32-36 resolves one waiter   *)
(* for every slot it returns).                                             *)
NoIdleSlot == waiting # <<>> => available = Len(woken)

(* Every woken caller has a slot to take when its continuation runs, which *)
(* is why acquire() need not test the counter again (job_slots.ts:24-28).  *)
WokenHaveSlots == Len(woken) <= available

(* A caller is in one place only: parked once, woken once or holding, so   *)
(* one release never wakes the same caller twice and no slot is charged    *)
(* twice to a job (job_slots.ts:32-36).                                    *)
OnePlaceEach ==
    /\ \A i, j \in 1..Len(waiting) : waiting[i] = waiting[j] => i = j
    /\ \A i, j \in 1..Len(woken) : woken[i] = woken[j] => i = j
    /\ \A i \in 1..Len(waiting) : \A j \in 1..Len(woken) : waiting[i] # woken[j]
    /\ \A i \in 1..Len(waiting) : waiting[i] \notin held
    /\ \A j \in 1..Len(woken) : woken[j] \notin held

(* The inductive invariant: none of the five is preserved alone.           *)
SlotsInv ==
    SlotsTypeOK /\ SlotAccounting /\ NoIdleSlot /\ WokenHaveSlots /\ OnePlaceEach

(* A parked caller is never overtaken: a caller that gets a slot was       *)
(* first in line, or no one was (job_slots.ts:31 "wakes the longest-       *)
(* waiting acquirer").                                                     *)
FirstComeFirstServed ==
    [][\A c \in held' \ held :
          LET line == woken \o waiting
          IN line # <<>> => c = Head(line)]_slotVars

(* A parked caller eventually holds a slot: once every slot has leaked,    *)
(* the API "accepts requests and never runs them" (job_slots.ts:4-6).      *)
ParkedEventuallyServed ==
    \A c \in Callers : c \in Range(waiting) ~> c \in held

(* The refinement: parked and woken callers form one queue.                *)
Pool == INSTANCE SlotPool WITH holders <- held, queue <- woken \o waiting

PoolRefined == Pool!PoolSpec
=============================================================================
