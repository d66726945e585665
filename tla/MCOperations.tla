----------------------------- MODULE MCOperations -----------------------------
(***************************************************************************)
(* Three operations on two packages and one watcher; one settled operation *)
(* is retained and one line of the two an operation may log is kept.       *)
(***************************************************************************)
EXTENDS Operations

CONSTANTS o1, o2, o3, p1, p2, w1
=============================================================================
