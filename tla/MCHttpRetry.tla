---------------------------- MODULE MCHttpRetry ----------------------------
(***************************************************************************)
(* A small instance of HttpRetry: four calls share two permits.            *)
(***************************************************************************)
EXTENDS HttpRetry

CONSTANTS r1, r2, r3, r4

MCRequests == {r1, r2, r3, r4}
=============================================================================
