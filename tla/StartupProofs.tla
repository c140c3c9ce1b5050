----------------------------- MODULE StartupProofs -----------------------------
(***************************************************************************)
(* Startup, for every set of rows, keys and accounts and every MAX_SLOTS:  *)
(* no step is refused, no working runtime is stopped but for a newer one,  *)
(* and what is served from is settled.                                     *)
(*                                                                         *)
(* The invariant follows the two loops: what the reconciliation has passed *)
(* is RUNNING, and what the collapse of duplicates has passed are the      *)
(* newest rows of their projects (Newest), so that none are left for the   *)
(* index to refuse.                                                        *)
(***************************************************************************)
EXTENDS Startup, TLAPS, WellFoundedInduction

Releasing == pc \in {"mark", "remove", "free"}
Reconciling == pc = "reconcile" \/ (Releasing /\ keep = {})
Deduping == pc = "dedupe" \/ (Releasing /\ keep # {})

\* Rows that the loop at work has not left behind.
Ahead(r) == r \in todo \/ r = cur

RuleDropped == pc \notin {"down", "drop"} => ~legacyRule
IndexHolds == activeIndex => \A r, q \in ActiveRows : ~Twins(r, q)
NothingYet == ~tables => ActiveRows = {}

CurOK ==
    /\ todo \subseteq ActiveRows
    /\ cur # None <=> Releasing
    /\ Releasing => cur \in ActiveRows /\ cur \notin todo
    /\ pc \in {"remove", "free"} => status[cur] = "STOPPING"
    /\ pc = "mark" => IF keep = {} THEN ~Usable(cur) ELSE key[cur] \in keep
    /\ pc \in {"down", "drop", "migrate", "create", "seed", "reconcile"} => keep = {}
    /\ pc \in {"index", "up"} => todo = {}

\* A slot that was in order when the database was found still is.
Accounted ==
    /\ \A s \in inUse \ wrong : \E r \in ActiveRows : slot[r] = s
    /\ \A r \in ActiveRows : slot[r] # None /\ slot[r] \notin wrong =>
          /\ slot[r] \in inUse
          /\ \A q \in ActiveRows : slot[q] = slot[r] => q = r

Passed ==
    /\ Reconciling => \A r \in ActiveRows : Ahead(r) \/ status[r] = "RUNNING"
    /\ Deduping => \A r \in ActiveRows : r = cur \/ status[r] = "RUNNING"
    /\ pc \in {"index", "up"} => \A r \in ActiveRows : status[r] = "RUNNING"

Newest ==
    /\ Deduping =>
         /\ \A r \in ActiveRows : Ahead(r) \/ key[r] \in keep
         /\ \A r, q \in ActiveRows : Twins(r, q) => Ahead(r) \/ Ahead(q)
         /\ \A k \in keep : \E q \in ActiveRows :
              /\ key[q] = k /\ ~Ahead(q)
              /\ \A r \in ActiveRows : Ahead(r) /\ key[r] = k => r < q
    /\ pc \in {"index", "up"} => \A r, q \in ActiveRows : ~Twins(r, q)

Migrated ==
    pc \notin {"down", "drop", "migrate"} =>
        /\ \A a \in Accounts : role[a] # "null"
        /\ Present # {} => \E a \in Accounts : role[a] = "admin"

Inv == /\ TypeOK /\ RuleDropped /\ IndexHolds /\ NothingYet /\ CurOK
       /\ Accounted /\ Passed /\ Newest /\ Migrated

-----------------------------------------------------------------------------
(* A set of accounts has an oldest one *)

LEMMA OldestExists == Present # {} => \E a \in Accounts : Oldest(a)
<1> SUFFICES ASSUME Present # {} PROVE \E a \in Accounts : Oldest(a)
  OBVIOUS
<1>1. Present \subseteq Accounts /\ Present \subseteq Nat
  BY StartupAssumption DEF Present
<1> DEFINE Less == {d \in Nat \X Nat : d[1] < d[2]}
<1>2. IsWellFoundedOn(Less, Nat)
  BY NatLessThanWellFounded DEF OpToRel
<1> HIDE DEF Less
<1>3. PICK a \in Present : \A b \in Present : ~(<<b, a>> \in Less)
  BY <1>1, <1>2, WFMin
<1>4. \A b \in Present : a <= b
  <2> SUFFICES ASSUME NEW b \in Present, b < a PROVE FALSE
    BY <1>1, <1>3
  <2>1. <<b, a>> \in Less
    BY <1>1, <1>3 DEF Less
  <2> QED BY <2>1, <1>3
<1> QED BY <1>1, <1>4 DEF Oldest

LEMMA InitInv == Init => Inv
<1> SUFFICES ASSUME Init PROVE Inv
  OBVIOUS
<1> USE StartupAssumption
<1>1. TypeOK
  <2>1. slots \subseteq Nat /\ slots \subseteq Rows  BY DEF Init
  <2>2. /\ slot \in [Rows -> slots \cup {None}] /\ inUse \subseteq slots
        /\ live \subseteq Rows /\ wrong \subseteq slots
    BY DEF Init, Found
  <2> QED BY <2>1, <2>2 DEF Init, TypeOK, PCs
<1>2. RuleDropped /\ CurOK /\ Passed /\ Newest /\ Migrated
  BY DEF Init, RuleDropped, CurOK, Passed, Newest, Migrated, Reconciling, Deduping,
         Releasing, ActiveRows
<1>3. IndexHolds /\ NothingYet
  BY DEF Init, Fresh, Legacy, Current, IndexHolds, NothingYet, ActiveRows, Active,
         ActiveStates
<1>4. Accounted
  <2>1. /\ wrong = {s \in slots : ~InOrder(s)} /\ inUse \subseteq slots
        /\ slot \in [Rows -> slots \cup {None}]
    BY DEF Init, Found
  <2>2. ASSUME NEW r \in ActiveRows, slot[r] # None, slot[r] \notin wrong
        PROVE  InOrder(slot[r])
    BY <2>1, <2>2 DEF ActiveRows
  <2> QED BY <2>1, <2>2 DEF InOrder, Accounted
<1> QED BY <1>1, <1>2, <1>3, <1>4 DEF Inv

-----------------------------------------------------------------------------
(* One lemma for each step *)

\* Boot, DropRule, EnsureIndex leave the rows alone.
LEMMA BootInv == Inv /\ Boot => Inv'
BY DEF Boot, Inv, TypeOK, PCs, RuleDropped, IndexHolds, NothingYet, CurOK, Accounted,
       Passed, Newest, Migrated, Reconciling, Deduping, Releasing, ActiveRows, Active,
       Twins, Ahead, Usable, Present, schemaVars, slotVars, rowVars, hostVars, loopVars

LEMMA DropRuleInv == Inv /\ DropRule => Inv'
<1> SUFFICES ASSUME Inv, DropRule PROVE Inv'
  OBVIOUS
<1> USE DEF DropRule, Inv, slotVars, rowVars, hostVars, loopVars
<1>1. TypeOK' /\ RuleDropped'
  BY DEF TypeOK, PCs, RuleDropped
<1>2. IndexHolds' /\ NothingYet' /\ Accounted'
  BY DEF IndexHolds, NothingYet, Accounted, ActiveRows, Active, Twins
<1>3. CurOK' /\ Passed' /\ Newest'
  BY DEF CurOK, Passed, Newest, Reconciling, Deduping, Releasing, ActiveRows, Active,
         Twins, Ahead, Usable
<1>4. Migrated'
  BY DEF Migrated
<1> QED BY <1>1, <1>2, <1>3, <1>4

LEMMA CreateTablesInv == Inv /\ CreateTables => Inv'
BY DEF CreateTables, Inv, TypeOK, PCs, RuleDropped, IndexHolds, NothingYet, CurOK,
       Accounted, Passed, Newest, Migrated, Reconciling, Deduping, Releasing, ActiveRows,
       Active, Twins, Ahead, Usable, Present, slotVars, rowVars, hostVars, loopVars

LEMMA SeedSlotsInv == Inv /\ SeedSlots => Inv'
BY StartupAssumption
   DEF SeedSlots, Seeded, Inv, TypeOK, PCs, RuleDropped, IndexHolds, NothingYet, CurOK,
       Accounted, Passed, Newest, Migrated, Reconciling, Deduping, Releasing, ActiveRows,
       Active, Twins, Ahead, Usable, Present, schemaVars, rowVars, hostVars

LEMMA KilledInv == Inv /\ Killed => Inv'
BY StartupAssumption
   DEF Killed, Raise, Inv, TypeOK, PCs, RuleDropped, IndexHolds, NothingYet, CurOK,
       Accounted, Passed, Newest, Migrated, Reconciling, Deduping, Releasing, ActiveRows,
       Active, Twins, Ahead, Usable, Present, schemaVars, slotVars, rowVars, hostVars

LEMMA MigrateUsersInv == Inv /\ MigrateUsers => Inv'
<1> SUFFICES ASSUME Inv, MigrateUsers PROVE Inv'
  OBVIOUS
<1> USE DEF MigrateUsers, Inv, schemaVars, slotVars, rowVars, hostVars, loopVars
<1>1. TypeOK' /\ RuleDropped' /\ IndexHolds' /\ NothingYet' /\ Accounted'
  BY DEF TypeOK, PCs, Roles, RuleDropped, IndexHolds, NothingYet, Accounted, ActiveRows,
         Active, Twins
<1>2. CurOK' /\ Passed' /\ Newest'
  BY DEF CurOK, Passed, Newest, Reconciling, Deduping, Releasing, ActiveRows, Active,
         Twins, Ahead, Usable
<1>3. \A a \in Accounts : role'[a] # "null"
  BY DEF TypeOK
<1>4. Present' = Present
  BY DEF TypeOK, Present, Promotes, Oldest
<1>5. Present # {} => \E a \in Accounts : role'[a] = "admin"
  <2>1. CASE \E a \in Accounts : role[a] = "admin"
    BY <2>1 DEF TypeOK, Promotes
  <2>2. CASE \A a \in Accounts : role[a] # "admin"
    <3> SUFFICES ASSUME Present # {} PROVE \E a \in Accounts : role'[a] = "admin"
      OBVIOUS
    <3>1. PICK a \in Accounts : Oldest(a)
      BY OldestExists
    <3>2. Promotes(a)
      BY <2>2, <3>1 DEF Promotes
    <3> QED BY <3>2
  <2> QED BY <2>1, <2>2
<1> QED BY <1>1, <1>2, <1>3, <1>4, <1>5 DEF Migrated

LEMMA ReconcileNextInv == \A r \in Rows : Inv /\ ReconcileNext(r) => Inv'
<1> SUFFICES ASSUME NEW r \in Rows, Inv, ReconcileNext(r) PROVE Inv'
  OBVIOUS
<1> USE StartupAssumption DEF ReconcileNext, Visit, Inv, schemaVars, slotVars, rowVars, hostVars
<1>1. TypeOK' /\ RuleDropped' /\ IndexHolds' /\ NothingYet' /\ Accounted' /\ Migrated'
  BY DEF TypeOK, PCs, RuleDropped, IndexHolds, NothingYet, Accounted, ActiveRows, Active,
         Twins, Migrated, Present
<1>2. CurOK'
  BY DEF CurOK, Releasing, ActiveRows, Active, Usable, TypeOK
<1>3. Passed' /\ Newest'
  BY DEF CurOK, Passed, Newest, Reconciling, Deduping, Releasing, ActiveRows, Active,
         Ahead, Usable, TypeOK
<1> QED BY <1>1, <1>2, <1>3

LEMMA ReconcileEndsInv == Inv /\ ReconcileEnds => Inv'
<1> SUFFICES ASSUME Inv, ReconcileEnds PROVE Inv'
  OBVIOUS
<1> USE StartupAssumption DEF ReconcileEnds, Inv, schemaVars, slotVars, rowVars, hostVars
<1>1. TypeOK' /\ RuleDropped' /\ IndexHolds' /\ NothingYet' /\ Accounted' /\ Migrated'
  BY DEF TypeOK, PCs, RuleDropped, IndexHolds, NothingYet, Accounted, ActiveRows, Active,
         Twins, Migrated, Present
<1>2. CurOK'
  BY DEF CurOK, Releasing, ActiveRows, Active, Usable, TypeOK
<1>3. Passed' /\ Newest'
  BY DEF CurOK, Passed, Newest, Reconciling, Deduping, Releasing, ActiveRows, Active,
         Ahead, Twins, TypeOK
<1> QED BY <1>1, <1>2, <1>3

LEMMA DedupeNextInv == \A r \in Rows : Inv /\ DedupeNext(r) => Inv'
<1> SUFFICES ASSUME NEW r \in Rows, Inv, DedupeNext(r) PROVE Inv'
  OBVIOUS
<1> USE StartupAssumption DEF DedupeNext, Visit, Inv, schemaVars, slotVars, rowVars, hostVars
<1>1. TypeOK' /\ RuleDropped' /\ IndexHolds' /\ NothingYet' /\ Accounted' /\ Migrated'
  BY DEF TypeOK, PCs, RuleDropped, IndexHolds, NothingYet, Accounted, ActiveRows, Active,
         Twins, Migrated, Present
<1>2. CurOK'
  BY DEF CurOK, Releasing, ActiveRows, Active, Usable, TypeOK
<1>3. Passed'
  BY DEF CurOK, Passed, Reconciling, Deduping, Releasing, ActiveRows, Active, Ahead,
         TypeOK
<1>4. Newest'
  <2> USE DEF CurOK, Releasing, Deduping, ActiveRows, Active, Twins, TypeOK
  <2>1. CASE key[r] \in keep
    BY <2>1 DEF Newest, Ahead
  <2>2. CASE key[r] \notin keep
    BY <2>2 DEF Newest, Ahead, NewestFirst
  <2> QED BY <2>1, <2>2
<1> QED BY <1>1, <1>2, <1>3, <1>4

LEMMA DedupeEndsInv == Inv /\ DedupeEnds => Inv'
<1> SUFFICES ASSUME Inv, DedupeEnds PROVE Inv'
  OBVIOUS
<1> USE StartupAssumption DEF DedupeEnds, Inv, schemaVars, slotVars, rowVars, hostVars, loopVars
<1>1. TypeOK' /\ RuleDropped' /\ IndexHolds' /\ NothingYet' /\ Accounted' /\ Migrated'
  BY DEF TypeOK, PCs, RuleDropped, IndexHolds, NothingYet, Accounted, ActiveRows, Active,
         Twins, Migrated, Present
<1>2. CurOK'
  BY DEF CurOK, Releasing, ActiveRows, Active, Usable, TypeOK
<1>3. Passed' /\ Newest'
  BY DEF CurOK, Passed, Newest, Reconciling, Deduping, Releasing, ActiveRows, Active,
         Ahead, Twins, TypeOK
<1> QED BY <1>1, <1>2, <1>3

-----------------------------------------------------------------------------
(* A release, which no unique rule refuses *)

LEMMA MarkAllowed == Inv /\ pc = "mark" => ~(status[cur] # "STOPPING" /\ Refused(cur, "STOPPING"))
BY DEF Inv, Refused, RuleDropped, IndexHolds, CurOK, Releasing

LEMMA MarkInv == Inv /\ Mark => Inv'
<1> SUFFICES ASSUME Inv, Mark PROVE Inv'
  OBVIOUS
<1>1. /\ pc = "mark" /\ pc' = "remove"
      /\ status' = [status EXCEPT ![cur] = "STOPPING"]
      /\ UNCHANGED <<loopVars, schemaVars, role, slotVars, key, slot, hostVars, crashes>>
  BY MarkAllowed DEF Mark
<1>2. cur \in Rows /\ Active(cur) /\ TypeOK
  BY <1>1 DEF Inv, CurOK, Releasing, ActiveRows
<1>3. ActiveRows' = ActiveRows
  BY <1>1, <1>2 DEF TypeOK, ActiveRows, Active, ActiveStates
<1> USE <1>1, <1>2, <1>3 DEF Inv, schemaVars, slotVars, hostVars, loopVars
<1>4. TypeOK' /\ RuleDropped' /\ IndexHolds' /\ NothingYet' /\ Migrated'
  BY DEF TypeOK, PCs, Statuses, ActiveStates, RuleDropped, IndexHolds, NothingYet, Twins,
         Migrated, Present
<1>7. Accounted'
  <2>1. \A r \in Rows : Active(r) => Active(r)'
    BY DEF TypeOK, Active, ActiveStates
  <2> QED BY <2>1 DEF Accounted
<1>5. CurOK'
  BY DEF CurOK, Releasing, TypeOK
<1>6. Passed' /\ Newest'
  BY DEF CurOK, Passed, Newest, Reconciling, Deduping, Releasing, Ahead, Twins, TypeOK
<1> QED BY <1>4, <1>5, <1>6, <1>7

LEMMA RemoveInv == Inv /\ Remove => Inv'
<1> SUFFICES ASSUME Inv, Remove PROVE Inv'
  OBVIOUS
<1> USE DEF Remove, Inv, schemaVars, slotVars, rowVars, hostVars, loopVars
<1>1. TypeOK' /\ RuleDropped' /\ IndexHolds' /\ NothingYet' /\ Accounted' /\ Migrated'
  BY DEF TypeOK, PCs, RuleDropped, IndexHolds, NothingYet, Accounted, ActiveRows, Active,
         Twins, Migrated, Present
<1>2. CurOK'
  BY DEF CurOK, Releasing, ActiveRows, Active, Usable, TypeOK
<1>3. Passed' /\ Newest'
  BY DEF CurOK, Passed, Newest, Reconciling, Deduping, Releasing, ActiveRows, Active,
         Ahead, Twins, TypeOK
<1> QED BY <1>1, <1>2, <1>3

LEMMA FreeAllowed == Inv /\ pc = "free" => ~Refused(cur, "STOPPED")
BY DEF Inv, Refused, RuleDropped, ActiveStates

LEMMA FreeInv == Inv /\ Free => Inv'
<1> SUFFICES ASSUME Inv, Free PROVE Inv'
  OBVIOUS
<1>1. /\ pc = "free" /\ pc' = Caller /\ cur' = None
      /\ status' = [status EXCEPT ![cur] = "STOPPED"]
      /\ inUse' = inUse \ SlotOf(cur)
      /\ slot' = [slot EXCEPT ![cur] = None]
      /\ UNCHANGED <<todo, keep, slots, schemaVars, role, key, hostVars, crashes>>
  BY FreeAllowed DEF Free
<1>2. cur \in Rows /\ TypeOK /\ cur # None
  BY <1>1 DEF Inv, CurOK, Releasing, ActiveRows
<1>3. ActiveRows' = ActiveRows \ {cur}
  BY <1>1, <1>2 DEF TypeOK, ActiveRows, Active, ActiveStates
<1> USE <1>1, <1>2, <1>3 DEF Inv, schemaVars, hostVars
<1>4. TypeOK' /\ RuleDropped' /\ IndexHolds' /\ NothingYet' /\ Migrated'
  BY DEF TypeOK, PCs, Caller, Statuses, RuleDropped, IndexHolds, NothingYet, Twins,
         Migrated, Present
<1>5. Accounted'
  <2>1. \A r \in Rows \ {cur} : slot'[r] = slot[r]
    BY DEF TypeOK
  <2>2. cur \in ActiveRows /\ ActiveRows \subseteq Rows
    BY DEF CurOK, Releasing, ActiveRows
  <2>3. ASSUME NEW s \in inUse' \ wrong PROVE \E r \in ActiveRows' : slot'[r] = s
    <3>1. s \in inUse \ wrong /\ s # None
      BY StartupAssumption DEF TypeOK
    <3>2. slot[cur] # s
      BY <3>1, <2>3 DEF SlotOf
    <3> QED BY <2>1, <2>2, <3>1, <3>2 DEF Accounted
  <2>4. ASSUME NEW r \in ActiveRows', slot'[r] # None, slot'[r] \notin wrong
        PROVE  /\ slot'[r] \in inUse'
               /\ \A q \in ActiveRows' : slot'[q] = slot'[r] => q = r
    <3>1. r \in ActiveRows /\ r # cur /\ slot'[r] = slot[r]
      BY <2>1, <2>2, <2>4
    <3>2. /\ slot[r] \in inUse
          /\ \A q \in ActiveRows : slot[q] = slot[r] => q = r
      BY <2>4, <3>1 DEF Accounted
    <3>3. slot[r] \notin SlotOf(cur)
      BY <2>2, <3>1, <3>2 DEF SlotOf
    <3> QED BY <2>1, <2>2, <3>1, <3>2, <3>3
  <2> QED BY <2>3, <2>4 DEF Accounted
<1>6. CurOK'
  BY DEF CurOK, Releasing, Caller, TypeOK
<1>7. Passed'
  BY DEF CurOK, Passed, Reconciling, Deduping, Releasing, Caller, Ahead, TypeOK, ActiveRows
<1>8. Newest'
  BY StartupAssumption DEF CurOK, Newest, Deduping, Releasing, Caller, Ahead, Twins, TypeOK, ActiveRows
<1> QED BY <1>4, <1>5, <1>6, <1>7, <1>8

LEMMA IndexAllowed == Inv /\ pc = "index" => ~(\E r, q \in ActiveRows : Twins(r, q))
BY DEF Inv, Newest

LEMMA EnsureIndexInv == Inv /\ EnsureIndex => Inv'
<1> SUFFICES ASSUME Inv, EnsureIndex PROVE Inv'
  OBVIOUS
<1>1. /\ pc = "index" /\ pc' = "up" /\ activeIndex' = TRUE
      /\ UNCHANGED <<loopVars, tables, legacyRule, role, slotVars, rowVars, hostVars, crashes>>
  BY IndexAllowed DEF EnsureIndex
<1> USE <1>1 DEF Inv, slotVars, rowVars, hostVars, loopVars
<1>2. TypeOK' /\ RuleDropped' /\ NothingYet' /\ Accounted' /\ Migrated'
  BY DEF TypeOK, PCs, RuleDropped, NothingYet, Accounted, ActiveRows, Active, Migrated,
         Present
<1>3. IndexHolds'
  BY IndexAllowed DEF IndexHolds, ActiveRows, Active, Twins
<1>4. CurOK' /\ Passed' /\ Newest'
  BY DEF CurOK, Passed, Newest, Reconciling, Deduping, Releasing, ActiveRows, Active,
         Ahead, Twins, Usable
<1> QED BY <1>2, <1>3, <1>4

LEMMA ContainerExitInv == \A r \in Rows : Inv /\ ContainerExit(r) => Inv'
<1> SUFFICES ASSUME NEW r \in Rows, Inv, ContainerExit(r) PROVE Inv'
  OBVIOUS
<1> USE DEF ContainerExit, Inv, schemaVars, slotVars, rowVars, hostVars, loopVars
<1>1. TypeOK' /\ RuleDropped' /\ IndexHolds' /\ NothingYet' /\ Accounted' /\ Migrated'
  BY DEF TypeOK, RuleDropped, IndexHolds, NothingYet, Accounted, ActiveRows, Active,
         Twins, Migrated, Present
<1>2. CurOK'
  BY DEF CurOK, Releasing, ActiveRows, Active, Usable, TypeOK
<1>3. Passed' /\ Newest'
  BY DEF Passed, Newest, Reconciling, Deduping, Releasing, ActiveRows, Active, Ahead, Twins
<1> QED BY <1>1, <1>2, <1>3

LEMMA NextInv == Inv /\ [Next]_vars => Inv'
<1> SUFFICES ASSUME Inv, [Next]_vars PROVE Inv'
  OBVIOUS
<1>1. CASE UNCHANGED vars
  BY <1>1 DEF vars, schemaVars, slotVars, rowVars, hostVars, loopVars, Inv, TypeOK, RuleDropped,
              IndexHolds, NothingYet, CurOK, Accounted, Passed, Newest, Migrated,
              Reconciling, Deduping, Releasing, ActiveRows, Active, Twins, Ahead, Usable,
              Present
<1>2. CASE Lifespan
  BY <1>2, BootInv, DropRuleInv, MigrateUsersInv, CreateTablesInv, SeedSlotsInv,
     ReconcileNextInv, ReconcileEndsInv, DedupeNextInv, DedupeEndsInv, MarkInv, RemoveInv,
     FreeInv, EnsureIndexInv DEF Lifespan, Release
<1> QED BY <1>1, <1>2, KilledInv, ContainerExitInv DEF Next

\* A row that the collapse of duplicates releases has a newer one that it keeps.
LEMMA KeptNewer ==
    Inv /\ pc = "mark" /\ keep # {} =>
        \E q \in ActiveRows : key[q] = key[cur] /\ q # cur /\ cur < q
BY DEF Inv, CurOK, Newest, Deduping, Releasing, Ahead

-----------------------------------------------------------------------------
(* The theorems *)

THEOREM Invariance == Spec => []Inv
<1> QED BY InitInv, NextInv, PTL DEF Spec

\* For every database an upgrade may find, the variables keep their types.
THEOREM TypeCorrect == Spec => []TypeOK
<1>1. Inv => TypeOK
  BY DEF Inv
<1> QED BY <1>1, Invariance, PTL

\* Startup is never refused: neither the rule of old versions nor the index of
\* this one ends it, whatever duplicates were found (CHANGELOG.md:199).
THEOREM Unrefused == Spec => NeverRefused
<1>1. Inv /\ [Next]_vars => [pc # "down" /\ pc' = "down" => crashes' > crashes]_vars
  <2> SUFFICES ASSUME Inv, Next, pc # "down", pc' = "down" PROVE crashes' > crashes
    BY DEF vars
  <2>1. ~EnsureIndex /\ ~Mark /\ ~Free
    BY IndexAllowed, MarkAllowed, FreeAllowed DEF EnsureIndex, Mark, Free, Caller
  <2>2. CASE Lifespan
    BY <2>1, <2>2 DEF Lifespan, Release, Boot, DropRule, MigrateUsers, CreateTables,
       SeedSlots, ReconcileNext, ReconcileEnds, DedupeNext, DedupeEnds, Visit, Remove
  <2>3. CASE Killed
    BY <2>3 DEF Killed, Inv, TypeOK
  <2>4. CASE \E r \in Rows : ContainerExit(r)
    BY <2>4 DEF ContainerExit
  <2> QED BY <2>2, <2>3, <2>4 DEF Next
<1> QED BY <1>1, Invariance, PTL DEF Spec, NeverRefused

\* Startup stops a working runtime only for a newer one of its project.
THEOREM WorkingSpared == Spec => SparesWorking
<1> DEFINE Spares == \A r \in Rows : Usable(r) /\ status'[r] # "RUNNING" =>
                       \E q \in Rows : q > r /\ Twins(r, q) /\ status[q] = "RUNNING"
<1>1. Inv /\ [Next]_vars => [Spares]_vars
  <2> SUFFICES ASSUME Inv, Next, NEW r \in Rows, Usable(r), status'[r] # "RUNNING"
               PROVE \E q \in Rows : q > r /\ Twins(r, q) /\ status[q] = "RUNNING"
    BY DEF vars
  <2>1. Mark \/ Free
    BY DEF Usable, Next, Lifespan, Release, Boot, DropRule, MigrateUsers, CreateTables,
       SeedSlots, ReconcileNext, ReconcileEnds, DedupeNext, DedupeEnds, Visit, Remove,
       EnsureIndex, Killed, ContainerExit, rowVars, hostVars
  <2>2. r = cur /\ Releasing
    BY <2>1 DEF Mark, Free, Usable, Releasing, Inv, TypeOK
  <2>3. pc = "mark" /\ keep # {}
    BY <2>1, <2>2 DEF Usable, Mark, Free, Inv, CurOK
  <2>4. Deduping /\ r \in ActiveRows
    BY <2>2, <2>3 DEF Deduping, Releasing, Inv, CurOK
  <2>5. PICK q \in ActiveRows : key[q] = key[r] /\ q # cur /\ r < q
    BY <2>2, <2>3, <2>4, KeptNewer
  <2>6. status[q] = "RUNNING"
    BY <2>4, <2>5 DEF Inv, Passed
  <2> QED BY <2>2, <2>5, <2>6 DEF Twins, ActiveRows
<1> QED BY <1>1, Invariance, PTL DEF Spec, SparesWorking

\* Whatever was out of order when the database was found, startup breaks no slot
\* that was in order: when requests are served it is in use for a row that is left.
THEOREM SlotsSettled == Spec => []SlotsAgree
<1>1. Inv => SlotsAgree
  <2> SUFFICES ASSUME Inv, pc = "up", NEW s \in slots \ wrong
               PROVE s \in inUse <=> \E r \in Rows : status[r] = "RUNNING" /\ slot[r] = s
    BY DEF SlotsAgree
  <2>1. \A r \in Rows : r \in ActiveRows <=> status[r] = "RUNNING"
    BY DEF Inv, Passed, ActiveRows, Active, ActiveStates
  <2>2. s # None
    BY StartupAssumption DEF Inv, TypeOK
  <2> QED BY <2>1, <2>2 DEF Inv, Accounted, ActiveRows
<1> QED BY <1>1, Invariance, PTL

\* When requests are served nobody is without a role and there is an
\* administrator, if there are accounts at all.
THEOREM RolesAreSettled == Spec => []RolesSettled
<1>1. Inv => RolesSettled
  BY DEF Inv, RolesSettled, Migrated
<1> QED BY <1>1, Invariance, PTL

=============================================================================
