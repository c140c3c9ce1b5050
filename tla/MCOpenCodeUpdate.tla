-------------------------- MODULE MCOpenCodeUpdate --------------------------
(* OpenCodeUpdate with named versions and threads.                          *)
EXTENDS OpenCodeUpdate, TLC

WorkerSymmetry == Permutations(Workers)
=============================================================================
