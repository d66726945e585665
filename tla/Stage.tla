-------------------------------- MODULE Stage ---------------------------------
(***************************************************************************)
(* What a job is told of its stages, one after the other: that a process   *)
(* ended, by itself or by a signal, and of the three exit codes the job    *)
(* tells apart, which; or that there is none to be had.  StageResult, with *)
(* all that safe_call looks at, is shown to implement this for one stage,  *)
(* and each job of Sessions for the stages it goes through.                *)
(***************************************************************************)

VARIABLES
    proc,       \* the process: none, starting, alive, dead
    meta,       \* what it left behind: nothing, or an exit code or the lack of one
    killed,     \* a signal was sent that may account for nothing being left
    verdict     \* what the job is told: no stage yet, none yet, a code, an error

stageVars == <<proc, meta, killed, verdict>>

Begun(p) ==
    /\ proc = p /\ meta = "absent" /\ killed = FALSE /\ verdict = "none"

Init ==
    \/ proc = "none" /\ meta = "absent" /\ killed = FALSE /\ verdict = "no stage"
    \/ Begun("starting")

\* A stage begins if it is the first, or after one that ended with zero.
Begin ==
    /\ verdict \in {"no stage", "zero"}
    /\ \/ Begun("starting")'
       \/ Begun("alive")'

Starts ==
    /\ proc = "starting"
    /\ proc' = "alive"
    /\ UNCHANGED <<meta, killed, verdict>>

StartFails ==
    /\ proc = "starting"
    /\ proc' = "none" /\ verdict' = "error"
    /\ UNCHANGED <<meta, killed>>

Ends ==
    /\ proc = "alive"
    /\ proc' = "dead"
    /\ meta' \in {"zero", "nonzero", "null", "absent"}
    /\ UNCHANGED <<killed, verdict>>

\* A process that a signal ends leaves no exit code.
Signal ==
    /\ \/ /\ proc = "alive"
          /\ proc' = "dead"
          /\ meta' \in {"null", "absent"}
       \/ /\ proc = "dead"
          /\ UNCHANGED <<proc, meta>>
    /\ killed' = TRUE
    /\ UNCHANGED verdict

Exit ==
    /\ proc = "dead"
    /\ proc' = "none"
    /\ UNCHANGED <<meta, killed, verdict>>

Usable == meta # "absent" \/ killed

Finish ==
    /\ proc = "none" /\ verdict = "none"
    /\ Usable
    /\ verdict' = IF meta = "absent" THEN "null" ELSE meta
    /\ killed' = FALSE
    /\ UNCHANGED <<proc, meta>>

Throw ==
    /\ proc = "none" /\ verdict = "none"
    /\ ~Usable
    /\ verdict' = "error"
    /\ UNCHANGED <<proc, meta, killed>>

Next == Begin \/ Starts \/ StartFails \/ Ends \/ Signal \/ Exit \/ Finish \/ Throw

Spec == Init /\ [][Next]_stageVars
===============================================================================
