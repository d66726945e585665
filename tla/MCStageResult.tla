----------------------------- MODULE MCStageResult -----------------------------
(***************************************************************************)
(* A stage under an output limit of four: a chunk of plain text, one that  *)
(* fills the limit, one over it, and one whose two bytes are one character.*)
(***************************************************************************)
EXTENDS StageResult

MCChunks ==
    {[bytes |-> 1, chars |-> 1], [bytes |-> 4, chars |-> 4],
     [bytes |-> 5, chars |-> 5], [bytes |-> 2, chars |-> 1]}

MCSignals == {"SIGKILL", "SIGINT", "SIGCHLD", "SIGTSTP", "SIGRTMIN+1"}
MCStopSignals == {"SIGTSTP"}
MCUnnamed == {"SIGRTMIN+1"}
MCUncaught == {"SIGKILL"}
=============================================================================
