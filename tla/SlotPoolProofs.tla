---------------------------- MODULE SlotPoolProofs ----------------------------
(* What every implementation of the pool inherits, for any slots and holders. *)
EXTENDS SlotPool, TLAPS

PoolTypeOK == /\ held \in [Holders -> Slots \cup {NoSlot}]
              /\ pool \subseteq Slots

PoolInv == PoolTypeOK /\ PoolConserved

\* No slot is lost and none is leased twice: at any time a slot is either
\* offered to the next start or held by exactly one workspace.
THEOREM Conservation ==
  ASSUME NoSlot \notin Slots
  PROVE  PoolSpec => []PoolConserved
  <1>1. PoolInit => PoolInv
    BY DEF PoolInit, PoolInv, PoolTypeOK, PoolConserved
  <1>2. ASSUME PoolInv, [PoolNext]_poolVars PROVE PoolInv'
    <2>1. ASSUME NEW w \in Holders, NEW s \in Slots, Take(w, s) PROVE PoolInv'
      <3>1. PoolTypeOK'  BY <1>2, <2>1 DEF PoolInv, PoolTypeOK, Take
      <3>2. \A v \in Holders : held'[v] = IF v = w THEN s ELSE held[v]
        BY <1>2, <2>1 DEF PoolInv, PoolTypeOK, Take
      <3>3. \A v \in Holders : held[v] # s
        BY <1>2, <2>1 DEF PoolInv, PoolConserved, Take
      <3> QED BY <1>2, <2>1, <3>1, <3>2, <3>3
              DEF PoolInv, PoolTypeOK, PoolConserved, Take
    <2>2. ASSUME NEW w \in Holders, Return(w) PROVE PoolInv'
      <3>1. held[w] \in Slots
        BY <1>2, <2>2 DEF PoolInv, PoolTypeOK, Return
      <3>2. PoolTypeOK'  BY <1>2, <2>2, <3>1 DEF PoolInv, PoolTypeOK, Return
      <3>3. \A v \in Holders : held'[v] = IF v = w THEN NoSlot ELSE held[v]
        BY <1>2, <2>2 DEF PoolInv, PoolTypeOK, Return
      <3>4. \A v \in Holders : v # w => held[v] # held[w]
        BY <1>2, <3>1 DEF PoolInv, PoolConserved
      <3> QED BY <1>2, <2>2, <3>1, <3>2, <3>3, <3>4
              DEF PoolInv, PoolTypeOK, PoolConserved, Return
    <2>3. CASE UNCHANGED poolVars
      BY <1>2, <2>3 DEF poolVars, PoolInv, PoolTypeOK, PoolConserved
    <2> QED BY <1>2, <2>1, <2>2, <2>3 DEF PoolNext
  <1>3. PoolInv => PoolConserved  BY DEF PoolInv
  <1> QED BY <1>1, <1>2, <1>3, PTL DEF PoolSpec

=============================================================================
