------------------------------- MODULE MCBoxes -------------------------------
(***************************************************************************)
(* Two job slots over a counter of box ids that wraps around early.        *)
(***************************************************************************)
EXTENDS Boxes

CONSTANTS j1, j2
=============================================================================
