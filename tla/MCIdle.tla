-------------------------------- MODULE MCIdle --------------------------------
(* Idle on small instances: the projects of one user u1.                     *)
EXTENDS Idle, TLC

CONSTANT u1

OneOwner == [p \in Projects |-> u1]
=============================================================================
