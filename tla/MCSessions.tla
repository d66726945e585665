----------------------------- MODULE MCSessions -----------------------------
(***************************************************************************)
(* Up to two HTTP requests and one WebSocket.                              *)
(***************************************************************************)
EXTENDS Sessions

CONSTANTS r1, r2, s1

\* Both jobs have a stage with a limit and one without.
MCUnlimited == {<<r1, "run">>, <<s1, "compile">>}
=============================================================================
