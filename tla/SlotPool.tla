------------------------------- MODULE SlotPool -------------------------------
(***************************************************************************)
(* What the slot table promises: a fixed pool of slots.  A workspace takes *)
(* a free slot when it holds none, keeps it while it is starting, running  *)
(* or stopping, and gives back the slot it holds, no other.                *)
(***************************************************************************)
CONSTANTS
    Slots,
    Holders,
    NoSlot  \* no member of Slots

VARIABLES
    held,   \* held[w]: the slot of workspace w, or NoSlot
    pool    \* the slots offered to the next start

poolVars == <<held, pool>>

PoolInit ==
    /\ held = [w \in Holders |-> NoSlot]
    /\ pool = Slots

Take(w, s) ==
    /\ held[w] = NoSlot /\ s \in pool
    /\ held' = [held EXCEPT ![w] = s]
    /\ pool' = pool \ {s}

Return(w) ==
    /\ held[w] # NoSlot
    /\ held' = [held EXCEPT ![w] = NoSlot]
    /\ pool' = pool \cup {held[w]}

PoolNext == \E w \in Holders : Return(w) \/ \E s \in Slots : Take(w, s)

PoolSpec == PoolInit /\ [][PoolNext]_poolVars

\* No slot is lost and none is held twice, nor held and offered.
PoolConserved ==
    /\ pool \cup {held[w] : w \in Holders} \subseteq Slots \cup {NoSlot}
    /\ \A s \in Slots : s \in pool <=> \A w \in Holders : held[w] # s
    /\ \A v, w \in Holders : v # w /\ held[v] = held[w] => held[v] = NoSlot
=============================================================================
