------------------------------ MODULE MCGateway ------------------------------
(* Gateway on a small instance: a user u1 with project p1, a user u2 with    *)
(* project p2, and the symmetry this allows.                                 *)
EXTENDS Gateway, TLC

CONSTANTS p1, p2, u1, u2

OwnProject == (p1 :> u1) @@ (p2 :> u2)
SwapUsers == (p1 :> p2) @@ (p2 :> p1) @@ (u1 :> u2) @@ (u2 :> u1)
GatewaySymmetry == Permutations(Ids) \cup Permutations(Keys) \cup {SwapUsers}
=============================================================================
