---------------------------- MODULE MCWorkspaces ----------------------------
(* Workspaces on small instances: the projects of one user u1, and the       *)
(* symmetry this allows.                                                     *)
EXTENDS Workspaces, TLC

CONSTANT u1

OneOwner == [p \in Projects |-> u1]
Symmetry == UNION {Permutations(S) : S \in {Requests, Ids, Projects}}
=============================================================================
