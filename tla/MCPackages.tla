------------------------------ MODULE MCPackages ------------------------------
(***************************************************************************)
(* Two packages and two calls, killed and restarted at any step.           *)
(***************************************************************************)
EXTENDS Packages, TLC

CONSTANTS p1, p2, c1, c2

Symmetry == Permutations({p1, p2}) \cup Permutations({c1, c2})
=============================================================================
