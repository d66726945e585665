----------------------------- MODULE Boxes_proofs -----------------------------
(***************************************************************************)
(* Proofs about Boxes, for any number of job slots and any MAX_BOX_ID: what*)
(* is on disk has someone who will clean it up, and a job is alone in its  *)
(* box until an id is issued that is in use.                               *)
(***************************************************************************)
EXTENDS Boxes, TLAPS

USE DEF history

\* The leases that are a job's, and those of this process.
Owned(r) == dirty[r] \cup (IF step[r] = "idle" THEN {} ELSE {lease[r]})

Leases == (before + 1)..issued

Types ==
    /\ issued \in Nat /\ before \in 0..issued /\ reissued \in BOOLEAN
    /\ step \in [Runners -> Steps] /\ lease \in [Runners -> Nat]
    /\ dirty \in [Runners -> SUBSET Leases]
    /\ sandbox \in [BoxIds -> 0..issued] /\ metadata \in [BoxIds -> 0..issued]
    /\ cleaning \in SUBSET Leases /\ removing \in SUBSET Leases

InBox(r) == step[r] \in {"compile", "run", "readCompile", "readRun"}

JobOf(r) ==
    /\ step[r] # "idle" => lease[r] \in Leases
    /\ InBox(r) => lease[r] \in dirty[r]
    /\ Owned(r) \cap cleaning = {}

\* What is on disk under an id has been put there for a lease with that id.
Placed(b) ==
    /\ sandbox[b] > before => Id(sandbox[b]) = b
    /\ metadata[b] > before => Id(metadata[b]) = b

\* Every lease of this process is somebody's, and nobody else's.
HomeInv ==
    /\ Types
    /\ \A r \in Runners : JobOf(r)
    /\ \A r, q \in Runners : r # q => Owned(r) \cap Owned(q) = {}
    /\ \A b \in BoxIds : Placed(b)
    /\ NothingLeftBehind

\* Before an id in use is issued, the ids of what is in use are distinct.
AloneInv ==
    ~reissued =>
        /\ \A m, n \in Outstanding : Id(m) = Id(n) => m = n
        /\ \A r \in Runners : InBox(r) => sandbox[Id(lease[r])] = lease[r]

-------------------------------------------------------------------------------
(* What is on disk is somebody's                                               *)

LEMMA IdIsBoxId == ASSUME NEW n \in Nat, before \in 0..n PROVE Id(n) \in BoxIds
  BY BoxesAssumption DEF Id, BoxIds

LEMMA HomeInit == Init => HomeInv
  <1> SUFFICES ASSUME Init PROVE HomeInv
    OBVIOUS
  <1>1. Types
    <2>1. issued = 0 /\ before = 0 /\ reissued = FALSE /\ cleaning = {} /\ removing = {}
      BY DEF Init
    <2>2. step \in [Runners -> Steps]
      BY DEF Init, Steps
    <2>3. lease \in [Runners -> Nat]
      BY DEF Init
    <2>4. dirty \in [Runners -> SUBSET Leases]
      <3>1. dirty = [r \in Runners |-> {}] /\ {} \in SUBSET Leases
        BY DEF Init
      <3> QED BY <3>1, Zenon
    <2>5. sandbox \in [BoxIds -> 0..issued] /\ metadata \in [BoxIds -> 0..issued]
      <3>1. 0 \in 0..issued
        BY <2>1
      <3>2. sandbox = [b \in BoxIds |-> 0] /\ metadata = [b \in BoxIds |-> 0]
        BY DEF Init
      <3> QED BY <3>1, <3>2
    <2>6. issued \in Nat /\ before \in 0..issued /\ reissued \in BOOLEAN
      <3>1. issued \in Nat /\ before \in 0..issued
        BY <2>1
      <3>2. reissued \in BOOLEAN
        BY <2>1, Zenon
      <3> QED BY <3>1, <3>2, Zenon
    <2>7. cleaning \in SUBSET Leases /\ removing \in SUBSET Leases
      BY <2>1
    <2> QED BY <2>2, <2>3, <2>4, <2>5, <2>6, <2>7 DEF Types
  <1>2. \A r \in Runners : JobOf(r) /\ Owned(r) = {}
    BY DEF Init, JobOf, Owned, InBox
  <1>3. \A b \in BoxIds : sandbox[b] = 0 /\ metadata[b] = 0 /\ before = 0
    BY DEF Init
  <1> QED BY <1>1, <1>2, <1>3 DEF HomeInv, Placed, NothingLeftBehind

\* An id is issued to a job that begins, or that moves to a second box.
LEMMA NextBoxHome ==
  ASSUME HomeInv, NEW r \in Runners, NEW then \in {"init", "init2"}, NextBox(r, then)
  PROVE  HomeInv'
  <1>1. issued' = issued + 1 /\ UNCHANGED <<before, dirty, sandbox, metadata, cleaning, removing>>
    BY DEF NextBox
  <1>2. Types'
    BY <1>1 DEF NextBox, HomeInv, Types, Leases, Steps
  <1>3. /\ step'[r] = then /\ lease'[r] = issued + 1
        /\ \A q \in Runners \ {r} : step'[q] = step[q] /\ lease'[q] = lease[q]
        /\ UNCHANGED <<uncleaned, unremoved>>
    BY DEF NextBox, HomeInv, Types
  <1>4. \A q \in Runners : JobOf(q)'
    BY <1>1, <1>3 DEF HomeInv, Types, JobOf, InBox, Owned, Leases
  <1>5. \A p, q \in Runners : p # q => Owned(p)' \cap Owned(q)' = {}
    <2>1. \A q \in Runners : issued + 1 \notin Owned(q)
      BY DEF HomeInv, Types, JobOf, Owned, Leases
    <2>2. \A q \in Runners \ {r} : Owned(q)' = Owned(q)
      BY <1>1, <1>3 DEF Owned
    <2>3. Owned(r)' \subseteq Owned(r) \cup {issued + 1}
      BY <1>1, <1>3 DEF Owned
    <2> QED BY <2>1, <2>2, <2>3 DEF HomeInv
  <1>6. \A b \in BoxIds : Placed(b)'
    BY <1>1 DEF HomeInv, Placed, Id, BoxIds
  <1>7. NothingLeftBehind'
    BY <1>1, <1>3 DEF HomeInv, NothingLeftBehind
  <1> QED BY <1>1, <1>2, <1>4, <1>5, <1>6, <1>7 DEF HomeInv, BoxIds

\* A job goes on in the box it has: its sandbox is made, or its stage is over.
LEMMA StaysHome ==
  ASSUME HomeInv, NEW r \in Runners, BoxReady(r) \/ StageEnds(r)
  PROVE  HomeInv'
  <1> DEFINE b == Id(lease[r])
  <1>1. UNCHANGED <<issued, before, lease, cleaning, removing, history>> /\ step[r] # "idle"
    BY DEF BoxReady, InitCallback, StageEnds
  <1>2. lease[r] \in Leases /\ lease[r] \in Owned(r)
    BY <1>1 DEF HomeInv, JobOf, Owned
  <1>3. b \in BoxIds
    BY <1>2, IdIsBoxId DEF Leases, HomeInv, Types
  <1>4. /\ step' \in [Runners -> Steps] /\ step'[r] \in Steps \ {"idle"}
        /\ \A q \in Runners \ {r} : step'[q] = step[q]
    BY DEF BoxReady, StageEnds, HomeInv, Types, Steps
  <1>5. /\ dirty' \in [Runners -> SUBSET Leases]
        /\ dirty[r] \subseteq dirty'[r] /\ dirty'[r] \subseteq dirty[r] \cup {lease[r]}
        /\ lease[r] \in dirty'[r]
        /\ \A q \in Runners \ {r} : dirty'[q] = dirty[q]
    <2>1. CASE BoxReady(r)
      BY <1>2, <2>1 DEF BoxReady, InitCallback, HomeInv, Types
    <2>2. CASE StageEnds(r)
      BY <2>2 DEF StageEnds, HomeInv, Types, JobOf, InBox
    <2> QED BY <2>1, <2>2
  <1>6. /\ sandbox' = sandbox \/ sandbox' = [sandbox EXCEPT ![b] = lease[r]]
        /\ metadata' = metadata \/ metadata' = [metadata EXCEPT ![b] = lease[r]]
    BY DEF BoxReady, InitCallback, StageEnds
  <1>7. /\ sandbox' \in [BoxIds -> 0..issued] /\ metadata' \in [BoxIds -> 0..issued]
        /\ \A c \in BoxIds : sandbox'[c] = sandbox[c] \/ (c = b /\ sandbox'[c] = lease[r])
        /\ \A c \in BoxIds : metadata'[c] = metadata[c] \/ (c = b /\ metadata'[c] = lease[r])
    BY <1>2, <1>3, <1>6 DEF HomeInv, Types, Leases
  <1>8. Types'
    BY <1>1, <1>4, <1>5, <1>7 DEF HomeInv, Types, Leases, BoxIds
  <1>9. /\ Owned(r)' = Owned(r)
        /\ \A q \in Runners \ {r} : Owned(q)' = Owned(q)
    BY <1>1, <1>4, <1>5 DEF Owned
  <1>10. \A q \in Runners : JobOf(q)'
    BY <1>1, <1>2, <1>4, <1>5, <1>9 DEF HomeInv, JobOf, InBox, Leases
  <1>11. \A c \in BoxIds : Placed(c)'
    BY <1>1, <1>7 DEF HomeInv, Placed, Id
  <1>12. NothingLeftBehind'
    <2>1. UNION {dirty[q] : q \in Runners} \subseteq UNION {dirty'[q] : q \in Runners}
      BY <1>5
    <2>2. lease[r] \in UNION {dirty'[q] : q \in Runners}
      BY <1>5
    <2> HIDE DEF b
    <2> QED BY <1>1, <1>7, <2>1, <2>2 DEF HomeInv, NothingLeftBehind, BoxIds
  <1> QED BY <1>1, <1>8, <1>9, <1>10, <1>11, <1>12 DEF HomeInv, BoxIds

\* A job hands its boxes to whoever cleans them up.
LEMMA CleanupHome ==
  ASSUME HomeInv, NEW r \in Runners, NEW boxes, Cleanup(r, boxes), step[r] # "idle",
         dirty[r] \subseteq boxes, boxes \subseteq Owned(r),
         \/ sandbox' = sandbox
         \/ sandbox' = [sandbox EXCEPT ![Id(lease[r])] = lease[r]] /\ lease[r] \in boxes
  PROVE  HomeInv'
  <1> DEFINE b == Id(lease[r])
  <1>1. /\ UNCHANGED <<issued, before, lease, metadata, history>>
        /\ cleaning' = cleaning \cup boxes /\ removing' = removing \cup boxes
    BY DEF Cleanup
  <1>2. lease[r] \in Leases /\ Owned(r) \subseteq Leases
    BY DEF HomeInv, JobOf, Owned, Types
  <1>3. b \in BoxIds
    BY <1>2, IdIsBoxId DEF Leases, HomeInv, Types
  <1>4. /\ step' \in [Runners -> Steps] /\ step'[r] = "idle"
        /\ dirty' \in [Runners -> SUBSET Leases] /\ dirty'[r] = {}
        /\ \A q \in Runners \ {r} : step'[q] = step[q] /\ dirty'[q] = dirty[q]
    BY DEF Cleanup, HomeInv, Types, Steps
  <1>5. /\ sandbox' \in [BoxIds -> 0..issued]
        /\ \A c \in BoxIds : sandbox'[c] = sandbox[c]
                          \/ (c = b /\ sandbox'[c] = lease[r] /\ lease[r] \in boxes)
    BY <1>2, <1>3 DEF HomeInv, Types, Leases
  <1>6. Types'
    BY <1>1, <1>2, <1>4, <1>5 DEF HomeInv, Types, Leases, BoxIds
  <1>7. Owned(r)' = {} /\ \A q \in Runners \ {r} : Owned(q)' = Owned(q)
    BY <1>1, <1>4 DEF Owned
  <1>8. \A q \in Runners : JobOf(q)'
    <2>1. JobOf(r)'
      BY <1>4, <1>7 DEF JobOf, InBox
    <2>2. ASSUME NEW q \in Runners \ {r} PROVE JobOf(q)'
      <3>1. JobOf(q) /\ Owned(q) \cap boxes = {}
        BY DEF HomeInv
      <3> QED BY <1>1, <1>4, <1>7, <3>1 DEF JobOf, InBox, Leases
    <2> QED BY <2>1, <2>2
  <1>9. \A c \in BoxIds : Placed(c)'
    BY <1>1, <1>5 DEF HomeInv, Placed, Id
  <1>10. NothingLeftBehind'
    <2>1. UNION {dirty[q] : q \in Runners} \subseteq boxes \cup UNION {dirty'[q] : q \in Runners}
      BY <1>4
    <2> HIDE DEF b
    <2> QED BY <1>1, <1>5, <2>1 DEF HomeInv, NothingLeftBehind, BoxIds
  <1> QED BY <1>1, <1>6, <1>7, <1>8, <1>9, <1>10 DEF HomeInv, BoxIds

\* What is removed under an id is all there is of the leases with that id, and what
\* is not is logged.
LEMMA RemovedHome ==
  ASSUME HomeInv, NEW n \in 1..issued, CleanupReturns(n) \/ RemovalReturns(n)
  PROVE  HomeInv'
  <1>1. /\ UNCHANGED <<issued, before, step, lease, dirty, reissued>>
        /\ uncleaned \subseteq uncleaned' /\ unremoved \subseteq unremoved'
    BY DEF CleanupReturns, RemovalReturns, SandboxRemoved, MetadataRemoved, CleanupFails, RemovalFails
  <1>2. n \in Leases /\ Id(n) \in BoxIds
    BY IdIsBoxId DEF CleanupReturns, RemovalReturns, SandboxRemoved, MetadataRemoved, CleanupFails, RemovalFails, HomeInv, Types, Leases
  <1>3. /\ sandbox' \in [BoxIds -> 0..issued] /\ metadata' \in [BoxIds -> 0..issued]
        /\ \A b \in BoxIds :
              /\ sandbox'[b] \in {sandbox[b], 0} /\ metadata'[b] \in {metadata[b], 0}
              /\ n \notin cleaning' /\ n \in cleaning /\ b = Id(n) => sandbox'[b] = 0 \/ n \in uncleaned'
              /\ n \notin removing' /\ n \in removing /\ b = Id(n) => metadata'[b] = 0 \/ n \in unremoved'
    BY <1>2 DEF CleanupReturns, RemovalReturns, SandboxRemoved, MetadataRemoved, CleanupFails, RemovalFails, HomeInv, Types
  <1>4. /\ cleaning' \subseteq cleaning /\ removing' \subseteq removing
        /\ cleaning \subseteq cleaning' \cup {n} /\ removing \subseteq removing' \cup {n}
    BY DEF CleanupReturns, RemovalReturns, SandboxRemoved, MetadataRemoved, CleanupFails, RemovalFails
  <1>5. Types'
    BY <1>1, <1>3, <1>4 DEF HomeInv, Types, Leases, BoxIds
  <1>6. \A q \in Runners : JobOf(q)' /\ Owned(q)' = Owned(q)
    BY <1>1, <1>4 DEF HomeInv, JobOf, Owned, InBox, Leases
  <1>7. \A b \in BoxIds : Placed(b)'
    BY <1>1, <1>3 DEF HomeInv, Placed, Id, Types
  <1>8. NothingLeftBehind'
    <2> SUFFICES ASSUME NEW b \in BoxIds
                 PROVE  /\ sandbox'[b] > before =>
                              sandbox'[b] \in cleaning' \cup uncleaned' \cup UNION {dirty[r] : r \in Runners}
                        /\ metadata'[b] > before =>
                              metadata'[b] \in removing' \cup unremoved' \cup UNION {dirty[r] : r \in Runners}
      BY <1>1 DEF NothingLeftBehind, BoxIds
    <2>1. /\ sandbox[b] > before => Id(sandbox[b]) = b /\ sandbox[b] \in cleaning \cup uncleaned \cup UNION {dirty[r] : r \in Runners}
          /\ metadata[b] > before => Id(metadata[b]) = b /\ metadata[b] \in removing \cup unremoved \cup UNION {dirty[r] : r \in Runners}
          /\ before \in Nat
      BY DEF HomeInv, NothingLeftBehind, Placed, Types
    <2> QED BY <1>1, <1>3, <1>4, <2>1
  <1> QED BY <1>1, <1>5, <1>6, <1>7, <1>8 DEF HomeInv, BoxIds

\* A new process has no leases of its own yet.
LEMMA RestartHome == ASSUME HomeInv, Restart PROVE HomeInv'
  <1>1. Types'
    <2>1. issued' = issued /\ before' = issued /\ reissued' = FALSE /\ cleaning' = {} /\ removing' = {}
          /\ UNCHANGED <<sandbox, metadata>>
      BY DEF Restart
    <2>2. step' \in [Runners -> Steps]
      BY DEF Restart, Steps
    <2>3. lease' \in [Runners -> Nat]
      BY DEF Restart, HomeInv, Types
    <2>4. dirty' \in [Runners -> SUBSET Leases']
      <3>1. dirty' = [r \in Runners |-> {}] /\ {} \in SUBSET Leases'
        BY DEF Restart
      <3> QED BY <3>1, Zenon
    <2>5. issued' \in Nat /\ before' \in 0..issued' /\ reissued' \in BOOLEAN
      <3>1. issued' \in Nat /\ before' \in 0..issued'
        BY <2>1 DEF HomeInv, Types
      <3>2. reissued' \in BOOLEAN
        BY <2>1, Zenon
      <3> QED BY <3>1, <3>2, Zenon
    <2>6. cleaning' \in SUBSET Leases' /\ removing' \in SUBSET Leases'
      BY <2>1
    <2>7. sandbox' \in [BoxIds -> 0..issued'] /\ metadata' \in [BoxIds -> 0..issued']
      BY <2>1 DEF HomeInv, Types
    <2> QED BY <2>2, <2>3, <2>4, <2>5, <2>6, <2>7 DEF Types, BoxIds
  <1>2. \A r \in Runners : JobOf(r)' /\ Owned(r)' = {}
    BY DEF Restart, JobOf, Owned, InBox
  <1>3. \A b \in BoxIds : ~(sandbox'[b] > before') /\ ~(metadata'[b] > before')
    BY DEF Restart, HomeInv, Types
  <1> QED BY <1>1, <1>2, <1>3 DEF HomeInv, Placed, NothingLeftBehind, BoxIds

LEMMA HomeNext == HomeInv /\ [Next]_vars => HomeInv'
  <1> SUFFICES ASSUME HomeInv, [Next]_vars PROVE HomeInv'
    OBVIOUS
  <1>1. ASSUME NEW r \in Runners, FirstBox(r) \/ SecondBox(r) PROVE HomeInv'
    BY <1>1, NextBoxHome DEF FirstBox, SecondBox
  <1>2. ASSUME NEW r \in Runners, BoxReady(r) \/ StageEnds(r) PROVE HomeInv'
    BY <1>2, StaysHome
  <1>3. ASSUME NEW r \in Runners, BoxFails(r) PROVE HomeInv'
    <2>1. /\ Cleanup(r, dirty[r] \cup {lease[r]}) /\ step[r] # "idle"
          /\ \/ sandbox' = sandbox
             \/ sandbox' = [sandbox EXCEPT ![Id(lease[r])] = lease[r]]
      BY <1>3 DEF BoxFails
    <2>2. dirty[r] \cup {lease[r]} \subseteq Owned(r)
      BY <2>1 DEF Owned
    <2> QED BY <2>1, <2>2, CleanupHome
  <1>4. ASSUME NEW r \in Runners, JobEnds(r) PROVE HomeInv'
    <2>1. Cleanup(r, dirty[r]) /\ step[r] # "idle" /\ sandbox' = sandbox /\ dirty[r] \subseteq Owned(r)
      BY <1>4 DEF JobEnds, Owned
    <2> QED BY <2>1, CleanupHome
  <1>5. CASE UNCHANGED vars
    <2>1. \A r \in Runners : JobOf(r)' <=> JobOf(r)
      BY <1>5 DEF vars, JobOf, InBox, Owned, Leases
    <2>2. \A r \in Runners : Owned(r)' = Owned(r)
      BY <1>5 DEF vars, Owned
    <2>3. Types' /\ NothingLeftBehind'
      BY <1>5 DEF vars, HomeInv, Types, Leases, NothingLeftBehind, BoxIds
    <2>4. \A b \in BoxIds : Placed(b)' <=> Placed(b)
      BY <1>5 DEF vars, Placed, Id
    <2> QED BY <1>5, <2>1, <2>2, <2>3, <2>4 DEF HomeInv, BoxIds
  <1> QED BY <1>1, <1>2, <1>3, <1>4, <1>5, RemovedHome, RestartHome DEF Next, JobStep

-------------------------------------------------------------------------------
(* A job is alone in its box                                                   *)

LEMMA AloneInit == Init => AloneInv
  BY DEF Init, AloneInv, Outstanding, InBox

\* Outstanding is what is owned or being cleaned up.
LEMMA OutstandingIs ==
  ASSUME NEW n
  PROVE  n \in Outstanding <=> n \in cleaning \/ n \in removing \/ \E r \in Runners : n \in Owned(r)
  <1>1. n \in UNION {dirty[r] : r \in Runners} <=> \E r \in Runners : n \in dirty[r]
    OBVIOUS
  <1>2. n \in {lease[r] : r \in {q \in Runners : step[q] # "idle"}}
            <=> \E r \in Runners : step[r] # "idle" /\ n = lease[r]
    OBVIOUS
  <1> QED BY <1>1, <1>2 DEF Outstanding, Owned

LEMMA OutstandingWillBe ==
  ASSUME NEW n
  PROVE  n \in Outstanding' <=> n \in cleaning' \/ n \in removing' \/ \E r \in Runners : n \in Owned(r)'
  <1>1. n \in UNION {dirty'[r] : r \in Runners} <=> \E r \in Runners : n \in dirty'[r]
    OBVIOUS
  <1>2. n \in {lease'[r] : r \in {q \in Runners : step'[q] # "idle"}}
            <=> \E r \in Runners : step'[r] # "idle" /\ n = lease'[r]
    OBVIOUS
  <1> QED BY <1>1, <1>2 DEF Outstanding, Owned

\* What is outstanding stays so or is somebody's no more.
LEMMA OutstandingShrinks ==
  ASSUME HomeInv, Next
  PROVE  \/ before' = before /\ Outstanding' \subseteq Outstanding /\ reissued' = reissued
         \/ /\ before' = before /\ Outstanding' \subseteq Outstanding \cup {issued + 1}
            /\ reissued' = (reissued \/ \E n \in Outstanding : Id(n) = Id(issued + 1))
         \/ Restart
  <1>1. ASSUME NEW r \in Runners, NEW then \in {"init", "init2"}, NextBox(r, then)
        PROVE  Outstanding' \subseteq Outstanding \cup {issued + 1}
    <2>1. \A q \in Runners : Owned(q)' \subseteq Owned(q) \cup {issued + 1}
      BY <1>1 DEF NextBox, Owned, HomeInv, Types
    <2>2. UNCHANGED <<cleaning, removing>>
      BY <1>1 DEF NextBox
    <2> QED BY <2>1, <2>2, OutstandingIs, OutstandingWillBe
  <1>2. ASSUME NEW r \in Runners, BoxReady(r) \/ StageEnds(r)
        PROVE  Outstanding' \subseteq Outstanding
    <2>1. \A q \in Runners : Owned(q)' \subseteq Owned(q)
      BY <1>2 DEF BoxReady, InitCallback, StageEnds, Owned, HomeInv, Types
    <2>2. UNCHANGED <<cleaning, removing>>
      BY <1>2 DEF BoxReady, InitCallback, StageEnds
    <2> QED BY <2>1, <2>2, OutstandingIs, OutstandingWillBe
  <1>3. ASSUME NEW r \in Runners, BoxFails(r) \/ JobEnds(r)
        PROVE  Outstanding' \subseteq Outstanding
    <2>1. \A q \in Runners : Owned(q)' \subseteq Owned(q)
      BY <1>3 DEF BoxFails, JobEnds, Cleanup, Owned, HomeInv, Types
    <2>2. cleaning' \subseteq cleaning \cup Owned(r) /\ removing' \subseteq removing \cup Owned(r)
      BY <1>3 DEF BoxFails, JobEnds, Cleanup, Owned
    <2> QED BY <2>1, <2>2, OutstandingIs, OutstandingWillBe
  <1>4. ASSUME NEW n, CleanupReturns(n) \/ RemovalReturns(n)
        PROVE  Outstanding' \subseteq Outstanding
    BY <1>4 DEF CleanupReturns, RemovalReturns, SandboxRemoved, MetadataRemoved,
         CleanupFails, RemovalFails, Outstanding
  <1>5. ASSUME NEW r \in Runners, NEW then, NextBox(r, then)
        PROVE  before' = before /\ reissued' = (reissued \/ \E n \in Outstanding : Id(n) = Id(issued + 1))
    BY <1>5 DEF NextBox
  <1>6. \A r \in Runners : BoxReady(r) \/ StageEnds(r) \/ BoxFails(r) \/ JobEnds(r)
            => before' = before /\ reissued' = reissued
    BY DEF BoxReady, InitCallback, StageEnds, BoxFails, JobEnds, Cleanup
  <1>7. \A n : CleanupReturns(n) \/ RemovalReturns(n) => before' = before /\ reissued' = reissued
    BY DEF CleanupReturns, RemovalReturns, SandboxRemoved, MetadataRemoved,
         CleanupFails, RemovalFails
  <1> QED BY <1>1, <1>2, <1>3, <1>4, <1>5, <1>6, <1>7 DEF Next, JobStep, FirstBox, SecondBox

LEMMA DistinctNext ==
  ASSUME HomeInv, AloneInv, Next, ~reissued', NEW m \in Outstanding', NEW n \in Outstanding', Id(m)' = Id(n)'
  PROVE  m = n
  <1>1. CASE Restart
    <2>1. Outstanding' = {}
      BY <1>1 DEF Restart, Outstanding
    <2> QED BY <2>1
  <1>2. CASE before' = before /\ Outstanding' \subseteq Outstanding /\ reissued' = reissued
    BY <1>2 DEF AloneInv, Id
  <1>3. CASE /\ before' = before /\ Outstanding' \subseteq Outstanding \cup {issued + 1}
             /\ reissued' = (reissued \/ \E k \in Outstanding : Id(k) = Id(issued + 1))
    <2>1. Id(m) = Id(n) /\ ~reissued /\ \A k \in Outstanding : Id(k) # Id(issued + 1)
      BY <1>3 DEF Id, HomeInv, Types
    <2> QED BY <1>3, <2>1 DEF AloneInv
  <1> QED BY <1>1, <1>2, <1>3, OutstandingShrinks

\* Nobody touches the sandbox of a job that is in its box.
LEMMA SandboxNext ==
  ASSUME HomeInv, AloneInv, Next, ~reissued', NEW r \in Runners, InBox(r)'
  PROVE  sandbox'[Id(lease[r])'] = lease'[r]
  <1>1. ~Restart
    BY DEF Restart, InBox
  <1>2. before' = before /\ ~reissued
    BY <1>1, OutstandingShrinks DEF HomeInv, Types
  <1>3. CASE BoxReady(r)
    <2>1. lease[r] \in Leases
      BY <1>3 DEF BoxReady, HomeInv, JobOf
    <2>2. Id(lease[r]) \in BoxIds
      BY <2>1, IdIsBoxId DEF Leases, HomeInv, Types
    <2> QED BY <1>2, <1>3, <2>2 DEF BoxReady, InitCallback, HomeInv, Types, Id
  <1>4. CASE ~BoxReady(r)
    <2>1. InBox(r) /\ lease'[r] = lease[r]
      BY <1>1, <1>4 DEF Next, JobStep, FirstBox, SecondBox, NextBox, BoxReady, InitCallback,
         BoxFails, StageEnds,
             JobEnds, Cleanup, CleanupReturns, RemovalReturns, SandboxRemoved, MetadataRemoved,
         CleanupFails, RemovalFails, InBox, HomeInv, Types
    <2>2. /\ sandbox[Id(lease[r])] = lease[r] /\ lease[r] \in Outstanding
          /\ lease[r] \notin cleaning
          /\ Id(lease[r]) \in BoxIds
      <3>1. JobOf(r) /\ step[r] # "idle"
        BY <2>1 DEF HomeInv, InBox
      <3>2. lease[r] \in Leases
        BY <3>1 DEF JobOf
      <3>3. Id(lease[r]) \in BoxIds
        BY <3>2, IdIsBoxId DEF Leases, HomeInv, Types
      <3> QED BY <1>2, <2>1, <3>1, <3>3 DEF AloneInv, JobOf, Owned, Outstanding
    <2>3. sandbox'[Id(lease[r])] = lease[r]
      <3>1. ASSUME NEW q \in Runners, step[q] # "idle", sandbox' = [sandbox EXCEPT ![Id(lease[q])] = lease[q]]
            PROVE  sandbox'[Id(lease[r])] = lease[r]
        <4>1. lease[q] \in Outstanding
          BY <3>1, OutstandingIs DEF Owned
        <4>2. Id(lease[q]) = Id(lease[r]) => lease[q] = lease[r]
          BY <1>2, <2>2, <4>1 DEF AloneInv
        <4> QED BY <2>2, <3>1, <4>2 DEF HomeInv, Types
      <3>2. ASSUME NEW n \in cleaning, sandbox' = [sandbox EXCEPT ![Id(n)] = 0]
            PROVE  sandbox'[Id(lease[r])] = lease[r]
        <4>1. n \in Outstanding /\ n # lease[r]
          BY <2>2, OutstandingIs
        <4>2. Id(n) # Id(lease[r])
          BY <1>2, <2>2, <4>1 DEF AloneInv
        <4> QED BY <2>2, <3>2, <4>2 DEF HomeInv, Types
      <3>3. CASE sandbox' = sandbox
        BY <2>2, <3>3
      <3>4. \/ sandbox' = sandbox
            \/ \E q \in Runners : step[q] # "idle" /\ sandbox' = [sandbox EXCEPT ![Id(lease[q])] = lease[q]]
            \/ \E n \in cleaning : sandbox' = [sandbox EXCEPT ![Id(n)] = 0]
        BY <1>1 DEF Next, JobStep, FirstBox, SecondBox, NextBox, BoxReady, InitCallback,
           BoxFails, StageEnds,
               JobEnds, Cleanup, CleanupReturns, RemovalReturns, SandboxRemoved, MetadataRemoved,
         CleanupFails, RemovalFails
      <3> QED BY <3>1, <3>2, <3>3, <3>4
    <2> QED BY <1>2, <2>1, <2>3 DEF Id
  <1> QED BY <1>3, <1>4

LEMMA AloneNext == HomeInv /\ AloneInv /\ [Next]_vars => AloneInv'
  <1>1. HomeInv /\ AloneInv /\ Next => AloneInv'
    BY DistinctNext, SandboxNext DEF AloneInv
  <1>2. AloneInv /\ UNCHANGED vars => AloneInv'
    BY DEF vars, AloneInv, Outstanding, InBox, Id
  <1> QED BY <1>1, <1>2

LEMMA BoxesInvariant == Spec => [](HomeInv /\ AloneInv)
  BY HomeInit, HomeNext, AloneInit, AloneNext, PTL DEF Spec

-------------------------------------------------------------------------------
(* Theorems                                                                    *)

\* However jobs, their failures and the commands of their cleanup overlap, what
\* is on disk under an id belongs to a job that lists it, is being removed, has a
\* removal that is logged to have failed, or is of a process that has ended
\* (job.ts:204-217, 609-634).
THEOREM NothingLeftBehindHolds == Spec => []NothingLeftBehind
  <1>1. HomeInv => NothingLeftBehind
    BY DEF HomeInv
  <1> QED BY <1>1, BoxesInvariant, PTL

\* Whatever MAX_BOX_ID is and however many slots there are: until an id is issued
\* that is still in use, nobody recreates or removes a job's sandbox under it, and
\* the metadata it reads is its own, an ended process's, or one whose removal is
\* logged to have failed (job.ts:34, 609-634).
THEOREM AloneInTheBoxHolds == Spec => []AloneInTheBox
  <1>1. HomeInv /\ AloneInv => AloneInTheBox
    <2> SUFFICES ASSUME HomeInv, AloneInv, ~reissued, NEW r \in Runners, InBox(r)
                 PROVE  /\ sandbox[Id(lease[r])] = lease[r]
                        /\ metadata[Id(lease[r])] \in 0..before \cup {lease[r]} \cup unremoved
      BY DEF AloneInTheBox, InBox
    <2> DEFINE b == Id(lease[r])
    <2>1. step[r] # "idle" /\ lease[r] \in Leases /\ lease[r] \in Outstanding
      BY DEF HomeInv, JobOf, InBox, Outstanding
    <2>2. b \in BoxIds
      BY <2>1, IdIsBoxId DEF Leases, HomeInv, Types
    <2>3. CASE metadata[b] > before /\ metadata[b] \notin unremoved
      <3>1. metadata[b] \in Outstanding /\ Id(metadata[b]) = b
        <4>1. /\ Id(metadata[b]) = b
              /\ metadata[b] \in removing \/ \E q \in Runners : metadata[b] \in dirty[q]
          BY <2>2, <2>3 DEF HomeInv, NothingLeftBehind, Placed
        <4> HIDE DEF b
        <4> QED BY <4>1, OutstandingIs DEF Owned
      <3> QED BY <2>1, <3>1 DEF AloneInv
    <2>4. CASE ~(metadata[b] > before) \/ metadata[b] \in unremoved
      BY <2>2, <2>4 DEF HomeInv, Types, AloneInv
    <2> QED BY <2>3, <2>4 DEF AloneInv
  <1> QED BY <1>1, BoxesInvariant, PTL

-------------------------------------------------------------------------------
(* What is on disk is cleaned up in the end                                    *)

\* The most steps a job has before it.
JobLeft(r) ==
    IF step[r] = "init" THEN 6
    ELSE IF step[r] = "compile" THEN 5
    ELSE IF step[r] = "readCompile" THEN 4
    ELSE IF step[r] = "init2" THEN 3
    ELSE IF step[r] = "run" THEN 2
    ELSE IF step[r] = "readRun" THEN 1
    ELSE 0

InHand == UNION {Owned(r) : r \in Runners}

\* Boxes are dirty only for a job that is under way.
DirtyInHand == \A r \in Runners : dirty[r] # {} => step[r] # "idle"

JobGoesOn(r) ==
    step[r] # "idle" => JobLeft(r)' < JobLeft(r) \/ UNCHANGED <<step[r], lease[r], dirty[r]>>

\* A lease that no job has in hand stays so, and nothing is put on disk for it.
Stays(n) ==
    n \notin InHand =>
        /\ n \notin InHand'
        /\ \A b \in BoxIds : (sandbox'[b] = n => sandbox[b] = n) /\ (metadata'[b] = n => metadata[b] = n)

\* A command that ends has done what it was for or is logged to have failed,
\* unless its process ended.
Removes ==
    /\ \A n \in cleaning \ cleaning' : n \in uncleaned' \/ n <= before' \/ \A b \in BoxIds : sandbox'[b] # n
    /\ \A n \in removing \ removing' : n \in unremoved' \/ n <= before' \/ \A b \in BoxIds : metadata'[b] # n

NearerClean ==
    /\ \A r \in Runners : JobGoesOn(r)
    /\ \A n \in 1..issued : Stays(n)
    /\ Removes

\* One job's step: the boxes of the others are untouched, it takes at most a
\* lease that was not issued before, and only its own are put on disk.
LEMMA JobsOwn ==
  ASSUME HomeInv, NEW r \in Runners, FirstBox(r) \/ JobStep(r)
  PROVE  /\ JobLeft(r)' < JobLeft(r) \/ step[r] = "idle"
         /\ \A q \in Runners \ {r} : UNCHANGED <<step[q], lease[q], dirty[q]>>
         /\ Owned(r)' \subseteq Owned(r) \cup {issued + 1}
         /\ \A b \in BoxIds : /\ sandbox'[b] = sandbox[b] \/ sandbox'[b] \in Owned(r)
                              /\ metadata'[b] = metadata[b] \/ metadata'[b] \in Owned(r)
         /\ cleaning \subseteq cleaning' /\ removing \subseteq removing'
         /\ dirty'[r] # {} => step'[r] # "idle"
  <1> USE DEF HomeInv, Types, Owned
  <1>1. CASE FirstBox(r)
    <2>1. /\ step[r] = "idle" /\ step' = [step EXCEPT ![r] = "init"] /\ lease' = [lease EXCEPT ![r] = issued + 1]
          /\ UNCHANGED <<dirty, sandbox, metadata, cleaning, removing>>
      BY <1>1 DEF FirstBox, NextBox
    <2> QED BY <2>1
  <1>2. CASE SecondBox(r)
    <2>1. /\ step[r] = "readCompile" /\ step' = [step EXCEPT ![r] = "init2"] /\ lease' = [lease EXCEPT ![r] = issued + 1]
          /\ UNCHANGED <<dirty, sandbox, metadata, cleaning, removing>>
      BY <1>2 DEF SecondBox, NextBox
    <2> QED BY <2>1 DEF JobLeft
  <1>3. CASE BoxReady(r)
    <2>1. /\ \/ step[r] = "init" /\ step'[r] \in {"compile", "run"}
             \/ step[r] = "init2" /\ step'[r] = "run"
          /\ \A q \in Runners \ {r} : step'[q] = step[q]
          /\ dirty' = [dirty EXCEPT ![r] = @ \cup {lease[r]}]
          /\ sandbox' = [sandbox EXCEPT ![Id(lease[r])] = lease[r]]
          /\ UNCHANGED <<lease, metadata, cleaning, removing>>
      BY <1>3 DEF BoxReady, InitCallback
    <2>2. JobLeft(r)' < JobLeft(r)
      BY <2>1 DEF JobLeft
    <2> QED BY <2>1, <2>2
  <1>4. CASE StageEnds(r)
    <2>1. /\ <<step[r], step'[r]>> \in {<<"compile", "readCompile">>, <<"run", "readRun">>}
          /\ \A q \in Runners \ {r} : step'[q] = step[q]
          /\ metadata' = metadata \/ metadata' = [metadata EXCEPT ![Id(lease[r])] = lease[r]]
          /\ UNCHANGED <<lease, dirty, sandbox, cleaning, removing>>
      BY <1>4 DEF StageEnds
    <2>2. JobLeft(r)' < JobLeft(r)
      BY <2>1 DEF JobLeft
    <2> QED BY <2>1, <2>2
  <1>5. CASE BoxFails(r) \/ JobEnds(r)
    <2>1. /\ step[r] \in Steps \ {"idle"} /\ step' = [step EXCEPT ![r] = "idle"] /\ dirty' = [dirty EXCEPT ![r] = {}]
          /\ cleaning \subseteq cleaning' /\ removing \subseteq removing'
          /\ sandbox' = sandbox \/ sandbox' = [sandbox EXCEPT ![Id(lease[r])] = lease[r]]
          /\ UNCHANGED <<lease, metadata>>
      BY <1>5 DEF BoxFails, JobEnds, Cleanup, Steps
    <2>2. JobLeft(r)' < JobLeft(r)
      BY <2>1 DEF JobLeft, Steps
    <2> QED BY <2>1, <2>2
  <1> QED BY <1>1, <1>2, <1>3, <1>4, <1>5 DEF JobStep


LEMMA StepCleans ==
  ASSUME HomeInv, DirtyInHand, NEW r \in Runners, FirstBox(r) \/ JobStep(r)
  PROVE  NearerClean /\ DirtyInHand'
  <1>1. /\ JobLeft(r)' < JobLeft(r) \/ step[r] = "idle"
        /\ \A q \in Runners \ {r} : UNCHANGED <<step[q], lease[q], dirty[q]>>
        /\ Owned(r)' \subseteq Owned(r) \cup {issued + 1}
        /\ \A b \in BoxIds : /\ sandbox'[b] = sandbox[b] \/ sandbox'[b] \in Owned(r)
                             /\ metadata'[b] = metadata[b] \/ metadata'[b] \in Owned(r)
        /\ cleaning \subseteq cleaning' /\ removing \subseteq removing'
        /\ dirty'[r] # {} => step'[r] # "idle"
    BY JobsOwn
  <1>2. \A q \in Runners : JobGoesOn(q)
    BY <1>1 DEF JobGoesOn
  <1>3. InHand' \subseteq InHand \cup {issued + 1}
    <2>1. \A q \in Runners : Owned(q)' \subseteq Owned(q) \cup {issued + 1}
      BY <1>1 DEF Owned
    <2> QED BY <2>1 DEF InHand
  <1>4. ASSUME NEW n \in 1..issued PROVE Stays(n)
    <2>1. n # issued + 1
      BY DEF HomeInv, Types
    <2>2. n \notin InHand => n \notin Owned(r)
      BY DEF InHand
    <2> QED BY <1>1, <1>3, <2>1, <2>2 DEF Stays
  <1>5. Removes
    BY <1>1 DEF Removes
  <1>6. DirtyInHand'
    BY <1>1 DEF DirtyInHand
  <1> QED BY <1>2, <1>4, <1>5, <1>6 DEF NearerClean

LEMMA RemovalCleans ==
  ASSUME HomeInv, DirtyInHand, NEW n \in 1..issued, CleanupReturns(n) \/ RemovalReturns(n)
  PROVE  NearerClean /\ DirtyInHand'
  <1> USE DEF HomeInv, Types
  <1>1. UNCHANGED <<issued, before, step, lease, dirty>>
    BY DEF CleanupReturns, RemovalReturns, SandboxRemoved, MetadataRemoved,
         CleanupFails, RemovalFails
  <1>2. n \in Leases /\ Id(n) \in BoxIds
    BY IdIsBoxId DEF CleanupReturns, RemovalReturns, SandboxRemoved, MetadataRemoved,
         CleanupFails, RemovalFails, Leases
  <1>3. InHand' = InHand /\ \A q \in Runners : JobGoesOn(q)
    BY <1>1 DEF InHand, Owned, JobGoesOn
  <1>4. \A b \in BoxIds : /\ sandbox'[b] = sandbox[b] \/ sandbox'[b] = 0
                          /\ metadata'[b] = metadata[b] \/ metadata'[b] = 0
    BY DEF CleanupReturns, RemovalReturns, SandboxRemoved, MetadataRemoved,
         CleanupFails, RemovalFails
  <1>5. \A m \in 1..issued : Stays(m)
    BY <1>3, <1>4 DEF Stays
  <1>6. Removes
    <2>1. ASSUME NEW m \in cleaning \ cleaning', NEW b \in BoxIds, m \notin uncleaned' PROVE sandbox'[b] # m
      <3>1. m = n /\ sandbox' = [sandbox EXCEPT ![Id(n)] = 0] /\ n > before /\ before \in Nat
        BY <1>2, <2>1 DEF CleanupReturns, RemovalReturns, SandboxRemoved, MetadataRemoved,
         CleanupFails, RemovalFails, Leases
      <3>2. sandbox[b] > before => Id(sandbox[b]) = b
        BY DEF Placed
      <3> QED BY <1>2, <3>1, <3>2
    <2>2. ASSUME NEW m \in removing \ removing', NEW b \in BoxIds, m \notin unremoved' PROVE metadata'[b] # m
      <3>1. m = n /\ metadata' = [metadata EXCEPT ![Id(n)] = 0] /\ n > before /\ before \in Nat
        BY <1>2, <2>2 DEF CleanupReturns, RemovalReturns, SandboxRemoved, MetadataRemoved,
         CleanupFails, RemovalFails, Leases
      <3>2. metadata[b] > before => Id(metadata[b]) = b
        BY DEF Placed
      <3> QED BY <1>2, <3>1, <3>2
    <2> QED BY <2>1, <2>2 DEF Removes
  <1> QED BY <1>1, <1>3, <1>5, <1>6 DEF NearerClean, DirtyInHand

LEMMA RestartCleans ==
  ASSUME HomeInv, DirtyInHand, Restart
  PROVE  NearerClean /\ DirtyInHand'
  <1> USE DEF HomeInv, Types
  <1>1. /\ before' = issued /\ UNCHANGED <<sandbox, metadata>>
        /\ \A r \in Runners : step'[r] = "idle" /\ dirty'[r] = {}
    BY DEF Restart
  <1>2. \A r \in Runners : JobGoesOn(r)
    BY <1>1 DEF JobGoesOn, JobLeft, Steps
  <1>3. InHand' = {}
    BY <1>1 DEF InHand, Owned
  <1>4. \A n \in 1..issued : Stays(n)
    BY <1>1, <1>3 DEF Stays
  <1>5. Removes
    BY <1>1 DEF Removes, Leases
  <1> QED BY <1>1, <1>2, <1>4, <1>5 DEF NearerClean, DirtyInHand

\* However many slots, box ids and leases there are, every sandbox and metadata
\* file is on its way to be removed, unless the process ends: whatever is on disk
\* is a running job's, is being removed or is logged, no step takes a job back, a
\* lease once given up is never in hand or put on disk again, and when its removal
\* is over, whatever was there for it is gone or logged (job.ts:609-634).
THEOREM DiskGetsCleaner == Spec => [](NothingLeftBehind /\ DirtyInHand) /\ [][NearerClean]_vars
  <1>1. Init => DirtyInHand
    BY DEF Init, DirtyInHand
  <1>2. HomeInv /\ DirtyInHand /\ [Next]_vars => DirtyInHand' /\ [NearerClean]_vars
    <2>1. UNCHANGED vars /\ DirtyInHand => DirtyInHand'
      BY DEF vars, DirtyInHand
    <2> QED BY <2>1, StepCleans, RemovalCleans, RestartCleans DEF Next
  <1>3. HomeInv => NothingLeftBehind
    BY DEF HomeInv
  <1> QED BY <1>1, <1>2, <1>3, HomeInit, HomeNext, PTL DEF Spec

===============================================================================
