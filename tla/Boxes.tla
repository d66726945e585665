-------------------------------- MODULE Boxes --------------------------------
(***************************************************************************)
(* The isolate boxes a job works in (src/api/src/job.ts): how box ids are  *)
(* issued, what is on disk under an id, and how it is cleaned up.          *)
(*                                                                         *)
(* An id is ++box_id % MAX_BOX_ID and nothing records which ids are in     *)
(* use.  The model names each issue of an id, a lease, by the value of the *)
(* counter, and records for every id whose lease the sandbox and the       *)
(* metadata file under that id belong to (0 for none).  A process that is  *)
(* started anew counts from 0 again and finds on disk what the one before  *)
(* has left; leases go on being numbered, so that they can be told apart.  *)
(*                                                                         *)
(* A runner stands for one job slot, whose jobs follow each other.  A job  *)
(* gives its slot back before its boxes are cleaned up, and the isolate    *)
(* --cleanup commands are not awaited, so the next job overlaps them.      *)
(* isolate itself is external: --init makes a fresh sandbox of an id, --run*)
(* writes the metadata file, --cleanup removes the sandbox.  A removal that*)
(* fails is logged and not tried again.                                    *)
(***************************************************************************)
EXTENDS Naturals, FiniteSets

CONSTANTS
    Runners,    \* the job slots
    MaxBoxId,   \* MAX_BOX_ID
    MaxLeases   \* bound on the counter, for model checking

ASSUME BoxesAssumption == MaxBoxId \in Nat \ {0} /\ MaxLeases \in Nat

VARIABLES
    issued,     \* the leases so far
    before,     \* those of earlier processes: box_id is what remains
    step,       \* what each runner's job waits for
    lease,      \* the lease of the box the job works in
    dirty,      \* the leases on the job's #dirty_boxes
    sandbox,    \* the lease whose sandbox is under each id
    metadata,   \* the lease whose stage wrote each metadata file
    cleaning,   \* leases whose isolate --cleanup has not finished
    removing,   \* leases whose metadata file is still to be removed
    uncleaned,  \* history: leases whose isolate --cleanup was logged to have failed
    unremoved,  \* history: leases whose metadata file was logged as not removed
    reissued    \* history: an id was issued that was still in use

history == <<uncleaned, unremoved, reissued>>
vars == <<issued, before, step, lease, dirty, sandbox, metadata, cleaning, removing, history>>

BoxIds == 0..MaxBoxId - 1

Id(n) == (n - before) % MaxBoxId

Steps == {"idle", "init", "compile", "run", "readCompile", "readRun", "init2"}

\* Leases that something still works on or has yet to clean up after.
Outstanding ==
    (UNION {dirty[r] : r \in Runners})
    \cup {lease[r] : r \in {q \in Runners : step[q] # "idle"}}
    \cup cleaning \cup removing

Init ==
    /\ issued = 0 /\ before = 0
    /\ step = [r \in Runners |-> "idle"]
    /\ lease = [r \in Runners |-> 0]
    /\ dirty = [r \in Runners |-> {}]
    /\ sandbox = [b \in BoxIds |-> 0]
    /\ metadata = [b \in BoxIds |-> 0]
    /\ cleaning = {}
    /\ removing = {}
    /\ uncleaned = {} /\ unremoved = {}
    /\ reissued = FALSE

-----------------------------------------------------------------------------
\* get_next_box_id(), then isolate --init is started.
NextBox(r, then) ==
    /\ issued < MaxLeases
    /\ issued' = issued + 1
    /\ lease' = [lease EXCEPT ![r] = issued + 1]
    /\ reissued' = (reissued \/ \E n \in Outstanding : Id(n) = Id(issued + 1))
    /\ step' = [step EXCEPT ![r] = then]
    /\ UNCHANGED <<before, dirty, sandbox, metadata, cleaning, removing, uncleaned, unremoved>>

\* A job got the slot.
FirstBox(r) == step[r] = "idle" /\ NextBox(r, "init")

\* The callback of isolate --init.  The box is put on #dirty_boxes whether or
\* not the command failed.
InitCallback(r) ==
    /\ dirty' = [dirty EXCEPT ![r] = @ \cup {lease[r]}]
    /\ UNCHANGED <<issued, before, lease, metadata, cleaning, removing, history>>

BoxReady(r) ==
    /\ step[r] \in {"init", "init2"}
    /\ InitCallback(r)
    /\ sandbox' = [sandbox EXCEPT ![Id(lease[r])] = lease[r]]
    /\ step' \in IF step[r] = "init"
                 THEN {[step EXCEPT ![r] = "compile"], [step EXCEPT ![r] = "run"]}
                 ELSE {[step EXCEPT ![r] = "run"]}

\* Altered: #dirty_boxes is static, shared by all jobs.
CleanupAllJobs(r, boxes) ==
    /\ step' = [step EXCEPT ![r] = "idle"]
    /\ dirty' = [dirty EXCEPT ![r] = {}]
    /\ cleaning' = cleaning \cup boxes \cup UNION {dirty[q] : q \in Runners}
    /\ removing' = removing \cup boxes
    /\ UNCHANGED <<issued, before, lease, metadata, history>>

\* Altered: only the box the job ended in is cleaned up.
CleanupLastBox(r, boxes) ==
    /\ step' = [step EXCEPT ![r] = "idle"]
    /\ dirty' = [dirty EXCEPT ![r] = {}]
    /\ cleaning' = cleaning \cup {lease[r]}
    /\ removing' = removing \cup {lease[r]}
    /\ UNCHANGED <<issued, before, lease, metadata, history>>

\* cleanup(): every dirty box is handed to isolate --cleanup, not awaited,
\* and its metadata file to fs.rm.  The slot is free already.
Cleanup(r, boxes) ==
    /\ step' = [step EXCEPT ![r] = "idle"]
    /\ dirty' = [dirty EXCEPT ![r] = {}]
    /\ cleaning' = cleaning \cup boxes
    /\ removing' = removing \cup boxes
    /\ UNCHANGED <<issued, before, lease, metadata, history>>

\* Altered: a failed box is not put on #dirty_boxes.
BoxFailsUnlisted(r) ==
    /\ step[r] \in {"init", "init2"}
    /\ sandbox' \in {sandbox, [sandbox EXCEPT ![Id(lease[r])] = lease[r]]}
    /\ Cleanup(r, dirty[r])

\* isolate --init failed, with or without leaving something behind.
BoxFails(r) ==
    /\ step[r] \in {"init", "init2"}
    /\ sandbox' \in {sandbox, [sandbox EXCEPT ![Id(lease[r])] = lease[r]]}
    /\ Cleanup(r, dirty[r] \cup {lease[r]})

\* The stage's isolate --run ends; one that is killed leaves no metadata.
StageEnds(r) ==
    /\ step[r] \in {"compile", "run"}
    /\ metadata' \in {metadata, [metadata EXCEPT ![Id(lease[r])] = lease[r]]}
    /\ step' = [step EXCEPT ![r] = IF step[r] = "compile" THEN "readCompile" ELSE "readRun"]
    /\ UNCHANGED <<issued, before, lease, dirty, sandbox, cleaning, removing, history>>

\* After a successful compilation the job moves to a second box.
SecondBox(r) == step[r] = "readCompile" /\ NextBox(r, "init2")

\* The job ends: its last stage is over, or priming or a stage failed.
JobEnds(r) ==
    /\ step[r] \in Steps \ {"idle", "init", "init2"}
    /\ Cleanup(r, dirty[r])
    /\ UNCHANGED sandbox

\* isolate --cleanup takes away whatever is under the id by then.
SandboxRemoved(n) ==
    /\ n \in cleaning
    /\ sandbox' = [sandbox EXCEPT ![Id(n)] = 0]
    /\ cleaning' = cleaning \ {n}
    /\ UNCHANGED <<issued, before, step, lease, dirty, metadata, removing, history>>

\* It fails, the sandbox stays, and the error is logged.
CleanupFails(n) ==
    /\ n \in cleaning
    /\ cleaning' = cleaning \ {n}
    /\ uncleaned' = uncleaned \cup {n}
    /\ UNCHANGED <<issued, before, step, lease, dirty, sandbox, metadata, removing, unremoved, reissued>>

MetadataRemoved(n) ==
    /\ n \in removing
    /\ metadata' = [metadata EXCEPT ![Id(n)] = 0]
    /\ removing' = removing \ {n}
    /\ UNCHANGED <<issued, before, step, lease, dirty, sandbox, cleaning, history>>

\* fs.rm rejects, which is caught and logged.
RemovalFails(n) ==
    /\ n \in removing
    /\ removing' = removing \ {n}
    /\ unremoved' = unremoved \cup {n}
    /\ UNCHANGED <<issued, before, step, lease, dirty, sandbox, metadata, cleaning, uncleaned, reissued>>

\* The process ends, its jobs and commands with it, and another is started:
\* what was dirty is forgotten, and stays on disk.
Restart ==
    /\ before < issued
    /\ before' = issued
    /\ step' = [r \in Runners |-> "idle"]
    /\ lease' = [r \in Runners |-> issued]
    /\ dirty' = [r \in Runners |-> {}]
    /\ cleaning' = {} /\ removing' = {}
    /\ uncleaned' = {} /\ unremoved' = {} /\ reissued' = FALSE
    /\ UNCHANGED <<issued, sandbox, metadata>>

JobStep(r) == BoxReady(r) \/ BoxFails(r) \/ StageEnds(r) \/ SecondBox(r) \/ JobEnds(r)

CleanupReturns(n) == SandboxRemoved(n) \/ CleanupFails(n)
RemovalReturns(n) == MetadataRemoved(n) \/ RemovalFails(n)

Next ==
    \/ \E r \in Runners : FirstBox(r) \/ JobStep(r)
    \/ \E n \in 1..issued : CleanupReturns(n) \/ RemovalReturns(n)
    \/ Restart

Spec == Init /\ [][Next]_vars

(* isolate --run is under way.  Nobody promises that it ends: its program  *)
(* may have been given no wall-time limit.                                 *)
Running(r) == step[r] \in {"compile", "run"}

(* isolate and the file system answer every other command, be it with an   *)
(* error.                                                                  *)
FairSpec ==
    /\ Spec
    /\ \A r \in Runners : WF_vars(~Running(r) /\ JobStep(r))
    /\ \A n \in 1..MaxLeases : WF_vars(CleanupReturns(n)) /\ WF_vars(RemovalReturns(n))

-----------------------------------------------------------------------------
(* As long as no id was issued that was still in use, a job is alone in    *)
(* its box: nobody recreated or removed its sandbox, whatever cleanups are *)
(* under way, late or failing; and the metadata it reads is its own        *)
(* stage's, or an ended process's, or a file whose removal was logged to   *)
(* have failed (job.ts:609-634).                                           *)
AloneInTheBox ==
    ~reissued =>
        \A r \in Runners :
            /\ step[r] \in {"compile", "run", "readCompile", "readRun"} =>
                  sandbox[Id(lease[r])] = lease[r]
            /\ step[r] \in {"readCompile", "readRun"} =>
                  metadata[Id(lease[r])] \in 0..before \cup {lease[r]} \cup unremoved

(* Nothing is left behind unnoticed: a sandbox or a metadata file on disk  *)
(* belongs to a job that will clean it up, also when isolate --init failed *)
(* after making it (job.ts:204-217), or is being cleaned up, or is one of  *)
(* which the log says that its removal failed (job.ts:618-631); or the     *)
(* process it belonged to has ended, which forgets what was dirty.         *)
NothingLeftBehind ==
    \A b \in BoxIds :
        /\ sandbox[b] > before =>
              sandbox[b] \in cleaning \cup uncleaned \cup UNION {dirty[r] : r \in Runners}
        /\ metadata[b] > before =>
              metadata[b] \in removing \cup unremoved \cup UNION {dirty[r] : r \in Runners}

InSandbox(n) == \E b \in BoxIds : sandbox[b] = n
InMetadata(n) == \E b \in BoxIds : metadata[b] = n

(* readme.md:491, "Cleaning up all temp space after each execution": every *)
(* sandbox and metadata file is removed in the end, however its job ended, *)
(* unless its removal is logged to have failed, the process ends, or a     *)
(* stage of the job whose box it is runs for good.                         *)
DiskIsCleaned ==
    \A n \in 1..MaxLeases :
        LET busy == \E r \in Runners : Running(r) /\ n \in dirty[r]
        IN  /\ [](InSandbox(n) => <>(~InSandbox(n) \/ n \in uncleaned \/ n <= before) \/ <>[]busy)
            /\ [](InMetadata(n) => <>(~InMetadata(n) \/ n \in unremoved \/ n <= before) \/ <>[]busy)
=============================================================================
