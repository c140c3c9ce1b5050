-------------------------------- MODULE Startup --------------------------------
(***************************************************************************)
(* Startup of the control plane on the database of an earlier version, of  *)
(* this one, or on none: the steps of lifespan(), each a transaction or a  *)
(* loop of releases, until requests are served.  A step that raises ends   *)
(* the process and systemd starts it again (Restart=on-failure).           *)
(*                                                                         *)
(* Workspaces starts from an empty database and has no duplicates; here    *)
(* nothing is served, what matters is what may be found: also what races   *)
(* and crashes of the releases before have left, such as a slot that is in *)
(* use for nobody, held by two rows, or free and held.                     *)
(*                                                                         *)
(* Simplifications: PostgreSQL, whose transactions include ALTER TABLE;    *)
(* rows and accounts are numbered in the order of their creation, and a    *)
(* database that is found has a slot for each row; a project of a user is  *)
(* named by its oldest row; legacy route files, OIDC columns and stop      *)
(* reasons are left out, and so are ERROR rows and containers that no row  *)
(* names, which nothing here looks at.                                     *)
(***************************************************************************)
EXTENDS Naturals, FiniteSets

CONSTANTS
    Rows,           \* workspace rows by age
    Accounts,       \* users by age
    MaxSlots,       \* settings.max_slots
    None,
    MaxCrashes,     \* bound: how often the process is killed
    MaxWrong        \* bound: rows and slots found out of order

ASSUME StartupAssumption ==
    /\ Rows \subseteq Nat \ {0} /\ IsFiniteSet(Rows)
    /\ Accounts \subseteq Nat /\ IsFiniteSet(Accounts)
    /\ MaxSlots \in Nat /\ MaxCrashes \in Nat /\ MaxWrong \in Nat
    /\ None \notin Nat

VARIABLES
    pc,             \* the step of lifespan() to be done
    tables,         \* the tables exist
    legacyRule,     \* UNIQUE (user_id, project_slug, status) of old versions
    activeIndex,    \* the unique index over active rows
    role,           \* users.role
    slots, inUse,   \* the rows of `slots`, and those in use
    key, status,    \* the workspaces: whose project, and its state
    slot,           \* workspaces.slot_id of the active rows
    live,           \* rows whose container runs, on the port of their slot
    wrong,          \* history: the slots that were found out of order
    todo,           \* loaded rows that a loop has not come to
    keep,           \* _dedupe_active_workspaces: keys seen
    cur,            \* the row being released
    crashes

schemaVars == <<tables, legacyRule, activeIndex>>
slotVars == <<slots, inUse>>
rowVars == <<key, status, slot>>
loopVars == <<todo, keep, cur>>
hostVars == <<live, wrong>>
vars == <<pc, schemaVars, role, slotVars, rowVars, hostVars, loopVars, crashes>>

ActiveStates == {"STARTING", "RUNNING", "STOPPING"}
Statuses == ActiveStates \cup {"STOPPED"}
Roles == {"absent", "null", "developer", "admin"}
PCs == {"down", "drop", "migrate", "create", "seed", "reconcile", "dedupe",
        "mark", "remove", "free", "index", "up"}

TypeOK ==
    /\ pc \in PCs
    /\ tables \in BOOLEAN /\ legacyRule \in BOOLEAN /\ activeIndex \in BOOLEAN
    /\ role \in [Accounts -> Roles]
    /\ inUse \subseteq slots /\ slots \subseteq Nat
    /\ key \in [Rows -> Rows] /\ status \in [Rows -> Statuses]
    /\ slot \in [Rows -> slots \cup {None}]
    /\ live \subseteq Rows /\ wrong \subseteq Nat
    /\ todo \subseteq Rows /\ keep \subseteq Rows /\ cur \in Rows \cup {None}
    /\ crashes \in 0 .. MaxCrashes

Active(r) == status[r] \in ActiveStates
ActiveRows == {r \in Rows : Active(r)}
Twins(r, q) == r # q /\ key[r] = key[q]

\* What the unique rules make of row r with status st.
Refused(r, st) ==
    \/ legacyRule /\ \E q \in Rows : Twins(r, q) /\ status[q] = st
    \/ activeIndex /\ st \in ActiveStates /\ \E q \in ActiveRows : Twins(r, q)

-----------------------------------------------------------------------------
(* The databases an upgrade may find *)

Fresh ==
    /\ ~tables /\ ~legacyRule /\ ~activeIndex
    /\ \A a \in Accounts : role[a] = "absent"
    /\ slots = {}
    /\ \A r \in Rows : status[r] = "STOPPED"

\* Before roles: at most one row of a status, or (without the rule) any rows.
Legacy ==
    /\ tables /\ ~activeIndex
    /\ \A a \in Accounts : role[a] \in {"absent", "null"}
    /\ slots = Rows
    /\ legacyRule => \A r, q \in Rows : Twins(r, q) => status[r] # status[q]

\* This version: its index keeps duplicates out.
Current ==
    /\ tables /\ activeIndex /\ ~legacyRule
    /\ \A a \in Accounts : role[a] # "null"
    /\ slots = Rows
    /\ \A r, q \in ActiveRows : ~Twins(r, q)

\* One active row holds a slot in use, none a free one.
InOrder(s) ==
    /\ s \in inUse <=> \E r \in ActiveRows : slot[r] = s
    /\ \A r, q \in ActiveRows : slot[r] = s /\ slot[q] = s => r = q

\* However the last process ended: slots and rows need not agree.  As found,
\* a row whose slot nobody else took holds the slot of its own number.
Found ==
    /\ slot \in [Rows -> slots \cup {None}]
    /\ \A r \in Rows : ~Active(r) => slot[r] = None
    /\ Cardinality({r \in ActiveRows : slot[r] # r}) <= MaxWrong
    /\ inUse \in SUBSET slots
    /\ wrong = {s \in slots : ~InOrder(s)}
    /\ Cardinality(wrong) <= MaxWrong
    /\ live \in SUBSET {r \in Rows : status[r] = "RUNNING" /\ slot[r] # None}
    /\ \A r, q \in live : slot[r] = slot[q] => r = q

Init ==
    /\ tables \in BOOLEAN /\ legacyRule \in BOOLEAN /\ activeIndex \in BOOLEAN
    /\ role \in [Accounts -> Roles]
    /\ \A a, b \in Accounts : a < b /\ role[a] = "absent" => role[b] = "absent"
    /\ key \in [Rows -> Rows] /\ status \in [Rows -> Statuses]
    /\ \A r \in Rows : key[r] <= r /\ key[key[r]] = key[r]
    /\ slots \in {{}, Rows}
    /\ Fresh \/ Legacy \/ Current
    /\ Found
    /\ pc = "down" /\ todo = {} /\ keep = {} /\ cur = None /\ crashes = 0

-----------------------------------------------------------------------------
(* The steps *)

\* systemd starts the process.
Boot ==
    /\ pc = "down"
    /\ pc' = "drop"
    /\ UNCHANGED <<schemaVars, role, slotVars, rowVars, hostVars, loopVars, crashes>>

\* Mutant: as on SQLite, where a constraint cannot be dropped.
KeepRule ==
    /\ pc = "drop" /\ pc' = "migrate"
    /\ UNCHANGED <<schemaVars, role, slotVars, rowVars, hostVars, loopVars, crashes>>

DropRule ==
    /\ pc = "drop" /\ pc' = "migrate"
    /\ legacyRule' = FALSE
    /\ UNCHANGED <<tables, activeIndex, role, slotVars, rowVars, hostVars, loopVars, crashes>>

Present == {a \in Accounts : role[a] # "absent"}
Oldest(a) == a \in Present /\ \A b \in Present : a <= b

\* Mutant: it is promoted only when it comes from a version without roles.
PromotesUpgraded(a) ==
    Oldest(a) /\ role[a] = "null" /\ \A b \in Accounts : role[b] # "admin"

\* Accounts without a role become developers, the oldest one administrator
\* unless there is one.
Promotes(a) == Oldest(a) /\ \A b \in Accounts : role[b] # "admin"

MigrateUsers ==
    /\ pc = "migrate" /\ pc' = "create"
    /\ role' = [a \in Accounts |-> IF Promotes(a) THEN "admin"
                                   ELSE IF role[a] = "null" THEN "developer"
                                   ELSE role[a]]
    /\ UNCHANGED <<schemaVars, slotVars, rowVars, hostVars, loopVars, crashes>>

\* create_all: an index is only created with its table.
CreateTables ==
    /\ pc = "create" /\ pc' = "seed"
    /\ tables' = TRUE
    /\ activeIndex' = (activeIndex \/ ~tables)
    /\ UNCHANGED <<legacyRule, role, slotVars, rowVars, hostVars, loopVars, crashes>>

\* Mutant: the rows are made anew.
SeededAnew == 1 .. MaxSlots

\* A lowered MAX_SLOTS removes none.
Seeded == slots \cup 1 .. MaxSlots

\* Both loops load the active rows, with the commit before them over.
SeedSlots ==
    /\ pc = "seed" /\ pc' = "reconcile"
    /\ slots' = Seeded
    /\ todo' = ActiveRows
    /\ UNCHANGED <<inUse, schemaVars, role, rowVars, hostVars, keep, cur, crashes>>

-----------------------------------------------------------------------------
(* The loops *)

\* _workspace_runtime_usable
Usable(r) == status[r] = "RUNNING" /\ slot[r] # None /\ r \in live

Visit(r, released) ==
    /\ todo' = todo \ {r}
    /\ IF released THEN pc' = "mark" /\ cur' = r ELSE UNCHANGED <<pc, cur>>
    /\ UNCHANGED <<schemaVars, role, slotVars, rowVars, hostVars, crashes>>

ReconcileNext(r) ==
    /\ pc = "reconcile" /\ r \in todo
    /\ Visit(r, ~Usable(r))
    /\ UNCHANGED keep

ReconcileEnds ==
    /\ pc = "reconcile" /\ todo = {}
    /\ pc' = "dedupe" /\ todo' = ActiveRows /\ keep' = {}
    /\ UNCHANGED <<schemaVars, role, slotVars, rowVars, hostVars, cur, crashes>>

\* Mutant: ORDER BY ... created_at, oldest first.
OldestFirst(r) == \A q \in todo : Twins(r, q) => r < q

\* ORDER BY user_id, project_slug, created_at DESC
NewestFirst(r) == \A q \in todo : Twins(r, q) => r > q

DedupeNext(r) ==
    /\ pc = "dedupe" /\ r \in todo /\ NewestFirst(r)
    /\ Visit(r, key[r] \in keep)
    /\ keep' = keep \cup {key[r]}

DedupeEnds ==
    /\ pc = "dedupe" /\ todo = {}
    /\ pc' = "index"
    /\ UNCHANGED <<schemaVars, role, slotVars, rowVars, hostVars, loopVars, crashes>>

\* _release_workspace: to the caller's loop again, or down with an exception.
Raise == pc' = "down" /\ todo' = {} /\ keep' = {} /\ cur' = None
Caller == IF keep = {} THEN "reconcile" ELSE "dedupe"

Mark ==
    /\ pc = "mark"
    /\ IF status[cur] # "STOPPING" /\ Refused(cur, "STOPPING")
       THEN Raise /\ UNCHANGED status
       ELSE /\ status' = [status EXCEPT ![cur] = "STOPPING"]
            /\ pc' = "remove" /\ UNCHANGED loopVars
    /\ UNCHANGED <<schemaVars, role, slotVars, key, slot, hostVars, crashes>>

Remove ==
    /\ pc = "remove" /\ pc' = "free"
    /\ live' = live \ {cur}
    /\ UNCHANGED <<wrong, schemaVars, role, slotVars, rowVars, loopVars, crashes>>

\* Mutant: a slot beyond a lowered MAX_SLOTS is left as it is.
FreedSlots(r) == {slot[r]} \cap 1 .. MaxSlots

\* The slot is freed by the row's slot_id, whoever else holds it.
SlotOf(r) == {slot[r]}

Free ==
    /\ pc = "free"
    /\ IF Refused(cur, "STOPPED")
       THEN Raise /\ UNCHANGED <<status, slot, inUse>>
       ELSE /\ status' = [status EXCEPT ![cur] = "STOPPED"]
            /\ slot' = [slot EXCEPT ![cur] = None]
            /\ inUse' = inUse \ SlotOf(cur)
            /\ pc' = Caller /\ cur' = None /\ UNCHANGED <<todo, keep>>
    /\ UNCHANGED <<slots, schemaVars, role, key, hostVars, crashes>>

\* CREATE UNIQUE INDEX IF NOT EXISTS fails on duplicates.
EnsureIndex ==
    /\ pc = "index"
    /\ IF ~activeIndex /\ \E r, q \in ActiveRows : Twins(r, q)
       THEN Raise /\ UNCHANGED activeIndex
       ELSE activeIndex' = TRUE /\ pc' = "up" /\ UNCHANGED loopVars
    /\ UNCHANGED <<tables, legacyRule, role, slotVars, rowVars, hostVars, crashes>>

-----------------------------------------------------------------------------
(* Meanwhile *)

Killed ==
    /\ pc # "down" /\ crashes < MaxCrashes
    /\ Raise
    /\ crashes' = crashes + 1
    /\ UNCHANGED <<schemaVars, role, slotVars, rowVars, hostVars>>

ContainerExit(r) ==
    /\ r \in live
    /\ live' = live \ {r}
    /\ UNCHANGED <<pc, wrong, schemaVars, role, slotVars, rowVars, loopVars, crashes>>

Release == Mark \/ Remove \/ Free
Lifespan ==
    \/ Boot \/ DropRule \/ MigrateUsers \/ CreateTables \/ SeedSlots
    \/ \E r \in Rows : ReconcileNext(r) \/ DedupeNext(r)
    \/ ReconcileEnds \/ DedupeEnds \/ Release \/ EnsureIndex

Next == Lifespan \/ Killed \/ \E r \in Rows : ContainerExit(r)

Spec == Init /\ [][Next]_vars

\* The process goes on and is started again after a failure; podman answers.
FairSpec == Spec /\ WF_vars(Lifespan)

-----------------------------------------------------------------------------
(* Properties *)

\* Requests are served in the end, whatever database is found and wherever an
\* earlier attempt was cut short: no release and no index meets a unique rule.
StartupEnds == <>(pc = "up")

\* No step of startup fails by itself: what the unique rules of an old or of
\* this version would refuse is never tried (CHANGELOG.md:199).
NeverRefused == [][pc # "down" /\ pc' = "down" => crashes' > crashes]_vars

\* A runtime that works is stopped only for a newer one of the same project.
SparesWorking ==
    [][\A r \in Rows : Usable(r) /\ status'[r] # "RUNNING" =>
          \E q \in Rows : q > r /\ Twins(r, q) /\ status[q] = "RUNNING"]_vars

\* A slot that was found in order is in order when requests are served, those
\* beyond a lowered MAX_SLOTS included: it is in use exactly for a row that is
\* left.  What was out of order startup does not look at.
SlotsAgree ==
    pc = "up" => \A s \in slots \ wrong :
        s \in inUse <=> \E r \in Rows : status[r] = "RUNNING" /\ slot[r] = s

\* Nobody is left without a role, and where there are accounts somebody is an
\* administrator: also in an installation that had lost its last one.
RolesSettled ==
    /\ pc = "up" => \A a \in Accounts : role[a] # "null"
    /\ pc = "up" /\ Present # {} => \E a \in Accounts : role[a] = "admin"
=============================================================================
