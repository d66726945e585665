------------------------------ MODULE SlotPool ------------------------------
(***************************************************************************)
(* What the job slots promise, without promises or microtasks: at most     *)
(* Capacity callers hold a slot, and slots are granted in arrival order.   *)
(* JobSlots is shown to implement this module.                             *)
(***************************************************************************)
EXTENDS Naturals, Sequences, FiniteSets

CONSTANTS Callers, Capacity

VARIABLES
    holders,    \* the callers that hold a slot
    queue       \* the callers that asked and hold none yet, oldest first

poolVars == <<holders, queue>>

PoolInit == holders = {} /\ queue = <<>>

Full == Cardinality(holders) = Capacity

Outstanding == holders \cup {queue[i] : i \in 1..Len(queue)}

\* A caller is served on the spot only if a slot is free and nobody is ahead.
Arrive(c) ==
    /\ c \notin Outstanding
    /\ \/ /\ ~Full /\ queue = <<>>
          /\ holders' = holders \cup {c}
          /\ UNCHANGED queue
       \/ /\ Full \/ queue # <<>>
          /\ queue' = Append(queue, c)
          /\ UNCHANGED holders

Grant ==
    /\ ~Full /\ queue # <<>>
    /\ holders' = holders \cup {Head(queue)}
    /\ queue' = Tail(queue)

Return(c) ==
    /\ c \in holders
    /\ holders' = holders \ {c}
    /\ UNCHANGED queue

PoolNext == Grant \/ \E c \in Callers : Arrive(c) \/ Return(c)

PoolSpec == PoolInit /\ [][PoolNext]_poolVars
=============================================================================
