------------------------------ MODULE Workspaces ------------------------------
(***************************************************************************)
(* The workspace lifecycle of the control plane: the request handlers      *)
(* start, stop (also the portal's stop), delete and "stop all of a user"   *)
(* (logout, administrator stop and disable), the startup reconciliation,   *)
(* the housekeeping loop, the tables `slots` and `workspaces`, and the     *)
(* Podman containers the handlers create and remove.                       *)
(*                                                                         *)
(* Handlers are plain functions that FastAPI runs on pool threads, each    *)
(* with a database session of its own.  One action is one database         *)
(* transaction or one podman command; everything between two of them is    *)
(* local to the thread.  What a handler has read it keeps: the session is  *)
(* built with expire_on_commit=False, so th[t].obj is the ORM object the   *)
(* thread loaded, however old, and a flush writes only the attributes that *)
(* differ from it (Write).                                                 *)
(*                                                                         *)
(* Simplifications: times, images, passwords, file contents and the stop   *)
(* reason are left out (the runtime secret is a set of projects that have  *)
(* the file); the first twelve hex digits of a workspace id are taken to   *)
(* identify it; a uuid is never issued twice, the model may issue again an *)
(* id that nothing refers to any more (Fresh).                             *)
(***************************************************************************)
EXTENDS Naturals, FiniteSets

CONSTANTS
    Projects,       \* (user, project slug) pairs
    Users,
    Owner,          \* Owner[p]: the user of project p
    Ids,            \* workspace ids: bounds the rows that can exist at once
    MaxSlots,       \* settings.max_slots
    Requests,       \* threads that serve requests
    Keeper,         \* the thread of startup and of the housekeeping loop
    None,
    Handlers,       \* the handlers that clients call
    Faults,         \* what can go wrong around the control plane
    IdleTimeout     \* workspace_idle_timeout_minutes > 0

Threads == Requests \cup {Keeper}
Slots == 1 .. MaxSlots
NoSlot == 0
Names == Slots \X Ids           \* container "oc-<slot>-<id>"
AllHandlers == {"start", "stop", "delete", "stopall"}
AllFaults == {"crash", "reboot", "exit", "run", "rm", "hang", "inspect",
              "unready", "disk"}

ActiveStates == {"STARTING", "RUNNING", "STOPPING"}
Statuses == ActiveStates \cup {"STOPPED", "ERROR", "ABSENT"}
Objects == [id: Ids, status: Statuses, slot: Slots \cup {NoSlot},
            ctr: Names \cup {None}]

ASSUME ConstantsAssumption ==
    /\ Owner \in [Projects -> Users]
    /\ MaxSlots \in Nat
    /\ Keeper \notin Requests
    /\ None \notin Projects \cup Ids \cup Names \cup Objects
    /\ Handlers \subseteq AllHandlers
    /\ Faults \subseteq AllFaults
    /\ IdleTimeout \in BOOLEAN

VARIABLES
    project,    \* workspaces.user_id and project_slug, None: no such row
    status,     \* workspaces.status, "ABSENT": no such row
    slotId,     \* workspaces.slot_id
    ctrName,    \* workspaces.container_name
    last,       \* the row of a project with the latest created_at
    inUse,      \* slots.in_use
    leasedTo,   \* slots.workspace_id
    podman,     \* container name -> "none", "dead" or "running"
    secrets,    \* projects whose runtime-secret file exists
    up,         \* startup is over, requests are served
    th          \* the threads: program counter and local state

rowVars == <<project, status, slotId, ctrName, last>>
slotVars == <<inUse, leasedTo>>
hostVars == <<podman, secrets>>
vars == <<rowVars, slotVars, hostVars, up, th>>

Idle == [pc |-> "idle", op |-> "none", proj |-> None, obj |-> None,
         todo |-> {}, slot |-> NoSlot]

PCs == {"idle", "probe", "pick", "lease", "refresh", "prepare", "run", "wait",
        "commit", "confirm", "except", "fail", "mark", "remove", "free",
        "purge", "erase", "next", "reap"}
Ops == AllHandlers \cup {"none", "boot", "reconcile", "reap"}
ThreadStates == [pc: PCs, op: Ops, proj: Projects \cup {None},
                 obj: Objects \cup {None}, todo: SUBSET Objects,
                 slot: Slots \cup {NoSlot}]

TypeOK ==
    /\ project \in [Ids -> Projects \cup {None}]
    /\ status \in [Ids -> Statuses]
    /\ slotId \in [Ids -> Slots \cup {NoSlot}]
    /\ ctrName \in [Ids -> Names \cup {None}]
    /\ last \in [Projects -> Ids \cup {None}]
    /\ inUse \in [Slots -> BOOLEAN]
    /\ leasedTo \in [Slots -> Ids \cup {None}]
    /\ podman \in [Names -> {"none", "dead", "running"}]
    /\ secrets \subseteq Projects
    /\ up \in BOOLEAN
    /\ th \in [Threads -> ThreadStates]

-----------------------------------------------------------------------------
(* The database *)

Exists(w) == status[w] # "ABSENT"
Active(w) == status[w] \in ActiveStates
RowsOf(p) == {w \in Ids : project[w] = p}
Row(w) == [id |-> w, status |-> status[w], slot |-> slotId[w],
           ctr |-> ctrName[w]]

\* ORDER BY created_at DESC; with the latest row gone any other may be next.
Newest(p) == IF last[p] \in RowsOf(p) THEN {last[p]} ELSE RowsOf(p)

\* Ids nothing refers to: no row, slot, container or thread.
Fresh == {w \in Ids :
            /\ ~Exists(w)
            /\ \A s \in Slots : leasedTo[s] # w /\ podman[<<s, w>>] = "none"
            /\ \A t \in Threads : /\ th[t].obj # None => th[t].obj.id # w
                                  /\ \A o \in th[t].todo : o.id # w}

\* The partial unique index over active rows refuses a second one.
ViolatesIndex(w, p, st) ==
    /\ st \in ActiveStates
    /\ \E x \in Ids \ {w} : project[x] = p /\ Active(x)

\* A flush of object o, now n: the row is gone (StaleDataError) or the index
\* refuses it (IntegrityError).  Either leaves the session unusable.
Rejected(o, n, p) ==
    \/ o.status # "ABSENT" /\ ~Exists(o.id)
    \/ ViolatesIndex(o.id, p, IF n.status = o.status THEN status[o.id]
                                                     ELSE n.status)

\* UPDATE (or INSERT) of the attributes in which n differs from the loaded o.
Write(o, n) ==
    /\ status' = [status EXCEPT ![o.id] = IF n.status = o.status THEN @ ELSE n.status]
    /\ slotId' = [slotId EXCEPT ![o.id] = IF n.slot = o.slot THEN @ ELSE n.slot]
    /\ ctrName' = [ctrName EXCEPT ![o.id] = IF n.ctr = o.ctr THEN @ ELSE n.ctr]

SetSlot(s, used, w) ==
    /\ inUse' = [inUse EXCEPT ![s] = used]
    /\ leasedTo' = [leasedTo EXCEPT ![s] = w]

\* Mutant: no row lock, as on the SQLite URL.
NeverLocked(s) == FALSE

\* Mutant: in_use and workspace_id are left as they are.
KeepSlot(s) == UNCHANGED slotVars

ReturnSlot(s) == SetSlot(s, FALSE, None)

\* FOR UPDATE: a slot stays locked from its selection to the commit.
Locked(s) == \E t \in Threads : th[t].pc = "lease" /\ th[t].slot = s

-----------------------------------------------------------------------------
(* Podman *)

Running(n) == n # None /\ podman[n] = "running"
PortBusy(s) == \E w \in Ids : podman[<<s, w>>] = "running"
Removed(n) == IF n = None THEN podman ELSE [podman EXCEPT ![n] = "none"]

\* podman rm -f; its exit code is not looked at.
Rm(n) == \/ podman' = Removed(n)
         \/ "rm" \in Faults /\ UNCHANGED podman

-----------------------------------------------------------------------------
(* Threads *)

At(t, where) == th[t].pc = where
Goto(t, where) == th' = [th EXCEPT ![t].pc = where]
Load(t, where, o) == th' = [th EXCEPT ![t].pc = where, ![t].obj = o]
Finish(t) == th' = [th EXCEPT ![t] = Idle]

\* A request for handler h arrives.
Call(t, h) == t \in Requests /\ up /\ At(t, "idle") /\ h \in Handlers

-----------------------------------------------------------------------------
(* POST /workspaces/start *)

StartSelect(t, p) ==
    /\ Call(t, "start")
    /\ \E w \in IF RowsOf(p) = {} THEN Fresh ELSE Newest(p) :
         th' = [th EXCEPT ![t] =
                 [Idle EXCEPT !.op = "start", !.proj = p, !.obj = Row(w),
                    !.pc = IF status[w] \in {"STARTING", "RUNNING"}
                           THEN "probe" ELSE "pick"]]
    /\ UNCHANGED <<rowVars, slotVars, hostVars, up>>

\* A live runtime is returned as it is, anything else is recycled first.
Reusable(o, p) == o.status = "RUNNING" /\ p \in secrets /\ Running(o.ctr)

StartProbe(t) ==
    /\ At(t, "probe")
    /\ IF Reusable(th[t].obj, th[t].proj) THEN Finish(t) ELSE Goto(t, "mark")
    /\ UNCHANGED <<rowVars, slotVars, hostVars, up>>

\* SELECT ... WHERE NOT in_use ORDER BY id LIMIT 1 FOR UPDATE SKIP LOCKED
FreeSlots == {s \in Slots : ~inUse[s] /\ ~Locked(s)}

Pick(t) ==
    /\ At(t, "pick")
    /\ \E s \in FreeSlots :
         /\ \A r \in FreeSlots : s <= r
         /\ th' = [th EXCEPT ![t].pc = "lease", ![t].slot = s]
    /\ UNCHANGED <<rowVars, slotVars, hostVars, up>>

NoCapacity(t) ==
    /\ At(t, "pick")
    /\ FreeSlots = {}
    /\ Finish(t)
    /\ UNCHANGED <<rowVars, slotVars, hostVars, up>>

\* Mutants: slot_id gets the host port; a reused row keeps its old slot_id.
LeasedPort(o, s) == [o EXCEPT !.status = "STARTING", !.slot = s + MaxSlots, !.ctr = None]
LeasedOldSlot(o, s) == [o EXCEPT !.status = "STARTING", !.ctr = None,
                          !.slot = IF o.status = "ABSENT" THEN s ELSE @]

\* The row as the first transaction of start() leaves it.
Leased(o, s) == [o EXCEPT !.status = "STARTING", !.slot = s, !.ctr = None]

Lease(t) ==
    LET o == th[t].obj
        n == Leased(o, th[t].slot)
        p == th[t].proj
    IN  /\ At(t, "lease")
        /\ IF Rejected(o, n, p)
           THEN Finish(t) /\ UNCHANGED <<rowVars, slotVars>>
           ELSE /\ Write(o, n)
                /\ project' = [project EXCEPT ![o.id] = p]
                /\ last' = [last EXCEPT ![p] = o.id]
                /\ SetSlot(th[t].slot, TRUE, o.id)
                /\ Load(t, "refresh", n)
        /\ UNCHANGED <<hostVars, up>>

\* db.refresh(ws): the row may have changed since, or be gone.
Refresh(t) ==
    LET w == th[t].obj.id
    IN  /\ At(t, "refresh")
        /\ IF Exists(w) THEN Load(t, "prepare", Row(w)) ELSE Finish(t)
        /\ UNCHANGED <<rowVars, slotVars, hostVars, up>>

RuntimeName(t) == <<th[t].slot, th[t].obj.id>>

\* Mutant: clear whatever runs on the slot.
PrepareBySlot(t) ==
    /\ At(t, "prepare")
    /\ podman' = [n \in Names |-> IF n[1] = th[t].slot THEN "none" ELSE podman[n]]
    /\ secrets' = secrets \cup {th[t].proj}
    /\ Goto(t, "run")
    /\ UNCHANGED <<rowVars, slotVars, up>>

\* start_workspace up to podman run: clear the name, write a new secret.
Prepare(t) ==
    /\ At(t, "prepare")
    /\ Rm(RuntimeName(t))
    /\ secrets' = secrets \cup {th[t].proj}
    /\ Goto(t, "run")
    /\ UNCHANGED <<rowVars, slotVars, up>>

\* podman run: the name or the slot's host port may be taken.
CanRun(t) == podman[RuntimeName(t)] = "none" /\ ~PortBusy(th[t].slot)

Run(t) ==
    /\ At(t, "run")
    /\ CanRun(t)
    /\ podman' = [podman EXCEPT ![RuntimeName(t)] = "running"]
    /\ Goto(t, "wait")
    /\ UNCHANGED <<rowVars, slotVars, secrets, up>>

\* A failed run can leave a created container behind; nothing removes it here.
RunFails(t) ==
    /\ At(t, "run")
    /\ ~CanRun(t) \/ "run" \in Faults
    /\ \E left \in {"none", "dead"} :
         podman' = [podman EXCEPT ![RuntimeName(t)] = IF @ = "none" THEN left ELSE @]
    /\ Goto(t, "except")
    /\ UNCHANGED <<rowVars, slotVars, secrets, up>>

Ready(t) ==
    /\ At(t, "wait")
    /\ Running(RuntimeName(t))
    /\ Goto(t, "commit")
    /\ UNCHANGED <<rowVars, slotVars, hostVars, up>>

\* Mutants: the runtime stays; only the deadline ends the wait.
NotReadyKeeps(t) ==
    /\ At(t, "wait")
    /\ ~Running(RuntimeName(t)) \/ "unready" \in Faults
    /\ Goto(t, "except")
    /\ UNCHANGED <<rowVars, slotVars, hostVars, up>>

NotReadyIgnoresExit(t) ==
    /\ At(t, "wait")
    /\ "unready" \in Faults
    /\ Rm(RuntimeName(t))
    /\ Goto(t, "except")
    /\ UNCHANGED <<rowVars, slotVars, secrets, up>>

NotReady(t) ==
    /\ At(t, "wait")
    /\ ~Running(RuntimeName(t)) \/ "unready" \in Faults
    /\ Rm(RuntimeName(t))
    /\ Goto(t, "except")
    /\ UNCHANGED <<rowVars, slotVars, secrets, up>>

\* After a failed flush the except branch of start() fails as well, on its
\* first attribute access: nothing is cleaned up.
Commit(t) ==
    LET o == th[t].obj
        n == [o EXCEPT !.status = "RUNNING", !.ctr = RuntimeName(t)]
    IN  /\ At(t, "commit")
        /\ IF n # o /\ Rejected(o, n, th[t].proj)
           THEN Finish(t) /\ UNCHANGED <<status, slotId, ctrName>>
           ELSE Write(o, n) /\ Load(t, "confirm", n)
        /\ UNCHANGED <<project, last, slotVars, hostVars, up>>

\* The second db.refresh: with the row gone it raises, and so does the except
\* branch when it reads the expired object; nothing is cleaned up either.
Confirm(t) ==
    /\ At(t, "confirm")
    /\ Finish(t)
    /\ UNCHANGED <<rowVars, slotVars, hostVars, up>>

Except(t) ==
    /\ At(t, "except")
    /\ Rm(th[t].obj.ctr)
    /\ Goto(t, "fail")
    /\ UNCHANGED <<rowVars, slotVars, secrets, up>>

\* The slot is freed, the row becomes ERROR and keeps its slot_id.
Fail(t) ==
    LET o == th[t].obj
        n == [o EXCEPT !.status = "ERROR"]
    IN  /\ At(t, "fail")
        /\ IF n # o /\ Rejected(o, n, th[t].proj)
           THEN UNCHANGED <<status, slotId, ctrName, slotVars>>
           ELSE Write(o, n) /\ ReturnSlot(th[t].slot)
        /\ Finish(t)
        /\ UNCHANGED <<project, last, hostVars, up>>

-----------------------------------------------------------------------------
(* _release_workspace, on behalf of any handler *)

Mark(t) ==
    LET o == th[t].obj
        n == [o EXCEPT !.status = IF @ \in {"STOPPED", "ERROR"} THEN @ ELSE "STOPPING"]
    IN  /\ At(t, "mark")
        /\ IF n # o /\ Rejected(o, n, project[o.id])
           THEN Finish(t) /\ UNCHANGED <<status, slotId, ctrName>>
           ELSE Write(o, n) /\ Load(t, "remove", n)
        /\ UNCHANGED <<project, last, slotVars, hostVars, up>>

\* Mutant: remove what runs on the slot of the row.
RemoveBySlot(t) ==
    /\ At(t, "remove")
    /\ podman' = [n \in Names |-> IF n[1] = th[t].obj.slot THEN "none" ELSE podman[n]]
    /\ Goto(t, "free")
    /\ UNCHANGED <<rowVars, slotVars, secrets, up>>

Remove(t) ==
    /\ At(t, "remove")
    /\ Rm(th[t].obj.ctr)
    /\ Goto(t, "free")
    /\ UNCHANGED <<rowVars, slotVars, secrets, up>>

\* Where the caller of _release_workspace goes on.
AfterRelease(t) ==
    CASE th[t].op = "start" -> "pick"
      [] th[t].op = "delete" -> "purge"
      [] OTHER -> "next"

\* The slot is freed by the loaded slot_id, whoever holds it now.
FreeSlotOf(o) == IF o.slot = NoSlot THEN UNCHANGED slotVars
                                    ELSE ReturnSlot(o.slot)

Free(t) ==
    LET o == th[t].obj
        n == [o EXCEPT !.status = "STOPPED", !.slot = NoSlot, !.ctr = None]
    IN  /\ At(t, "free")
        /\ IF Rejected(o, n, project[o.id])
           THEN Finish(t) /\ UNCHANGED <<status, slotId, ctrName, slotVars>>
           ELSE Write(o, n) /\ FreeSlotOf(o) /\ Load(t, AfterRelease(t), n)
        /\ UNCHANGED <<project, last, hostVars, up>>

-----------------------------------------------------------------------------
(* POST .../stop, POST /_portal/stop, DELETE /workspaces/{id} *)

StopSelect(t, w) ==
    /\ Exists(w) /\ status[w] # "STOPPED"
    /\ Call(t, "stop")
    /\ th' = [th EXCEPT ![t] = [Idle EXCEPT !.pc = "mark", !.op = "stop",
                                  !.proj = project[w], !.obj = Row(w)]]
    /\ UNCHANGED <<rowVars, slotVars, hostVars, up>>

DeleteSelect(t, w) ==
    /\ Exists(w)
    /\ Call(t, "delete")
    /\ th' = [th EXCEPT ![t] =
                [Idle EXCEPT !.op = "delete", !.proj = project[w], !.obj = Row(w),
                   !.pc = IF Active(w) THEN "mark" ELSE "purge"]]
    /\ UNCHANGED <<rowVars, slotVars, hostVars, up>>

\* remove_workspace_data: the project's tree, the secret included.
Purge(t) ==
    /\ At(t, "purge")
    /\ secrets' = secrets \ {th[t].proj}
    /\ Goto(t, "erase")
    /\ UNCHANGED <<rowVars, slotVars, podman, up>>

PurgeFails(t) ==
    /\ At(t, "purge") /\ "disk" \in Faults
    /\ secrets' \in {secrets, secrets \ {th[t].proj}}
    /\ Finish(t)
    /\ UNCHANGED <<rowVars, slotVars, podman, up>>

\* DELETE of the row; a row already gone only logs a warning.
Erase(t) ==
    LET w == th[t].obj.id
    IN  /\ At(t, "erase")
        /\ project' = [project EXCEPT ![w] = None]
        /\ status' = [status EXCEPT ![w] = "ABSENT"]
        /\ slotId' = [slotId EXCEPT ![w] = NoSlot]
        /\ ctrName' = [ctrName EXCEPT ![w] = None]
        /\ last' = [p \in Projects |-> IF last[p] = w THEN None ELSE last[p]]
        /\ Finish(t)
        /\ UNCHANGED <<slotVars, hostVars, up>>

-----------------------------------------------------------------------------
(* Loops over loaded rows: logout and administrator stops, reconciliation *)
(* at startup and in the housekeeping loop, the idle reaper               *)

LoadRows(ws) == {Row(w) : w \in ws}
Loop(t, o, ws) == th' = [th EXCEPT ![t] = [Idle EXCEPT !.pc = "next", !.op = o,
                                             !.todo = LoadRows(ws)]]

StopAllSelect(t, u) ==
    LET ws == {w \in Ids : Active(w) /\ Owner[project[w]] = u}
    IN  /\ Call(t, "stopall")
        /\ Loop(t, "stopall", ws)
        /\ UNCHANGED <<rowVars, slotVars, hostVars, up>>

\* Mutant: only RUNNING rows are looked at.
RunningRows == {w \in Ids : status[w] = "RUNNING"}

ActiveRows == {w \in Ids : Active(w)}

Boot ==
    /\ ~up /\ At(Keeper, "idle")
    /\ Loop(Keeper, "boot", ActiveRows)
    /\ UNCHANGED <<rowVars, slotVars, hostVars, up>>

\* The loop that calls it exists only with an idle timeout.
Reconcile ==
    /\ up /\ IdleTimeout /\ At(Keeper, "idle")
    /\ Loop(Keeper, "reconcile", ActiveRows)
    /\ UNCHANGED <<rowVars, slotVars, hostVars, up>>

ReapSelect ==
    LET ws == {w \in Ids : status[w] = "RUNNING"}
    IN  /\ At(Keeper, "reap")
        /\ Loop(Keeper, "reap", ws)
        /\ UNCHANGED <<rowVars, slotVars, hostVars, up>>

\* Mutants: the port is compared with the next slot's; the record is trusted.
UsableNextPort(o) ==
    /\ o.status = "RUNNING" /\ o.slot # NoSlot
    /\ project[o.id] \in secrets
    /\ Running(o.ctr)
    /\ o.ctr[1] = o.slot + 1

UsableIfRecorded(o) ==
    o.status = "RUNNING" /\ o.slot # NoSlot /\ o.ctr # None

Usable(o) ==
    /\ o.status = "RUNNING" /\ o.slot # NoSlot
    /\ project[o.id] \in secrets
    /\ Running(o.ctr)
    /\ o.ctr[1] = o.slot      \* the container publishes the slot's port

Reconciling(t) == th[t].op \in {"boot", "reconcile"}

ReleaseNext(t) ==
    /\ At(t, "next")
    /\ \E o \in th[t].todo :
         /\ Reconciling(t) => ~Usable(o)
         /\ th' = [th EXCEPT ![t].pc = "mark", ![t].obj = o, ![t].todo = @ \ {o},
                             ![t].proj = project[o.id]]
    /\ UNCHANGED <<rowVars, slotVars, hostVars, up>>

\* A usable runtime, or one whose last activity is recent enough.
KeepNext(t) ==
    /\ At(t, "next")
    /\ \E o \in th[t].todo :
         /\ (Reconciling(t) /\ Usable(o)) \/ th[t].op = "reap"
         /\ th' = [th EXCEPT ![t].todo = @ \ {o}]
    /\ UNCHANGED <<rowVars, slotVars, hostVars, up>>

LoopEnd(t) ==
    /\ At(t, "next") /\ th[t].todo = {}
    /\ IF th[t].op = "reconcile"
       THEN th' = [th EXCEPT ![t] = [Idle EXCEPT !.pc = "reap", !.op = "reap"]]
       ELSE Finish(t)
    /\ up' = (up \/ th[t].op = "boot")
    /\ UNCHANGED <<rowVars, slotVars, hostVars>>

-----------------------------------------------------------------------------
(* A podman command that takes more than 90 seconds raises in the handler; *)
(* what it was told to do may be done or not                               *)

\* During a release: the row stays STOPPING and keeps its slot.
RemoveTimesOut(t) ==
    /\ "hang" \in Faults
    /\ th[t].pc \in {"remove", "except"} /\ th[t].obj.ctr # None
    /\ podman' \in {podman, Removed(th[t].obj.ctr)}
    /\ Finish(t)
    /\ UNCHANGED <<rowVars, slotVars, secrets, up>>

\* During start_workspace: rm, run, inspect, or the rm after a failed wait.
LaunchTimesOut(t) ==
    LET n == RuntimeName(t)
    IN  /\ "hang" \in Faults
        /\ th[t].pc \in {"prepare", "run", "wait"}
        /\ podman' \in IF At(t, "run")
                       THEN IF CanRun(t) THEN {podman, [podman EXCEPT ![n] = "dead"],
                                               [podman EXCEPT ![n] = "running"]}
                                         ELSE {podman}
                       ELSE {podman, Removed(n)}
        /\ Goto(t, "except")
        /\ UNCHANGED <<rowVars, slotVars, secrets, up>>

\* While a runtime is inspected.
InspectTimesOut(t) ==
    /\ "inspect" \in Faults
    /\ \/ At(t, "probe") /\ th[t].obj.status = "RUNNING"
       \/ At(t, "next") /\ Reconciling(t) /\ \E o \in th[t].todo : o.status = "RUNNING"
    /\ Finish(t)
    /\ UNCHANGED <<rowVars, slotVars, hostVars, up>>

-----------------------------------------------------------------------------
(* The environment *)

\* The process ends; containers outlive it.
Crash ==
    /\ "crash" \in Faults
    /\ th' = [t \in Threads |-> Idle]
    /\ up' = FALSE
    /\ UNCHANGED <<rowVars, slotVars, hostVars>>

\* The host restarts: no container runs any more, none is removed.
Reboot ==
    /\ "reboot" \in Faults
    /\ podman' = [n \in Names |-> IF podman[n] = "running" THEN "dead" ELSE podman[n]]
    /\ th' = [t \in Threads |-> Idle]
    /\ up' = FALSE
    /\ UNCHANGED <<rowVars, slotVars, secrets>>

ContainerExit(n) ==
    /\ "exit" \in Faults
    /\ Running(n)
    /\ podman' = [podman EXCEPT ![n] = "dead"]
    /\ UNCHANGED <<rowVars, slotVars, secrets, up, th>>

-----------------------------------------------------------------------------
Init ==
    /\ project = [w \in Ids |-> None]
    /\ status = [w \in Ids |-> "ABSENT"]
    /\ slotId = [w \in Ids |-> NoSlot]
    /\ ctrName = [w \in Ids |-> None]
    /\ last = [p \in Projects |-> None]
    /\ inUse = [s \in Slots |-> FALSE]
    /\ leasedTo = [s \in Slots |-> None]
    /\ podman = [n \in Names |-> "none"]
    /\ secrets = {}
    /\ up = FALSE
    /\ th = [t \in Threads |-> Idle]

Arrival(t) ==
    \/ \E p \in Projects : StartSelect(t, p)
    \/ \E w \in Ids : StopSelect(t, w) \/ DeleteSelect(t, w)
    \/ \E u \in Users : StopAllSelect(t, u)

StartStep(t) ==
    \/ StartProbe(t) \/ Pick(t) \/ NoCapacity(t) \/ Lease(t) \/ Refresh(t)
    \/ Prepare(t) \/ Run(t) \/ RunFails(t) \/ Ready(t) \/ NotReady(t)
    \/ Commit(t) \/ Confirm(t) \/ Except(t) \/ Fail(t)

ReleaseStep(t) == Mark(t) \/ Remove(t) \/ Free(t)
DeleteStep(t) == Purge(t) \/ PurgeFails(t) \/ Erase(t)
LoopStep(t) == ReleaseNext(t) \/ KeepNext(t) \/ LoopEnd(t)
TimeoutStep(t) == RemoveTimesOut(t) \/ LaunchTimesOut(t) \/ InspectTimesOut(t)

ThreadStep(t) == \/ StartStep(t) \/ ReleaseStep(t) \/ DeleteStep(t)
                 \/ LoopStep(t) \/ TimeoutStep(t)

Environment == Crash \/ Reboot \/ \E n \in Names : ContainerExit(n)

Next ==
    \/ \E t \in Requests : Arrival(t)
    \/ Boot \/ Reconcile \/ ReapSelect
    \/ \E t \in Threads : ThreadStep(t)
    \/ Environment

Spec == Init /\ [][Next]_vars

\* A thread goes on by itself: every podman call and every wait has a timeout.
\* The housekeeping loop comes round again and again.
Fairness ==
    /\ \A t \in Threads : WF_vars(ThreadStep(t))
    /\ WF_vars(Boot) /\ WF_vars(Reconcile) /\ WF_vars(ReapSelect)

FairSpec == Spec /\ Fairness

-----------------------------------------------------------------------------
(***************************************************************************)
(* Disciplines: behaviours of Spec that the code does nothing to enforce   *)
(* and that some properties below need.  Nobody has rows of one project in *)
(* hand together (Apart): no two requests for a project at once, and no    *)
(* housekeeping round or "stop all" that loads rows of a project a request *)
(* is at work on, or the other way round.  No client starts a workspace    *)
(* that is stopping or stops one that failed (Settled).                    *)
(***************************************************************************)

\* The projects a thread has loaded rows of, or works for.
Touches(t) == {th[t].proj} \cup {project[o.id] : o \in th[t].todo}

Apart == \A t, u \in Threads : t # u => Touches(t) \cap Touches(u) \subseteq {None}
Settled == \A t \in Threads : /\ At(t, "pick") => th[t].obj.status # "STOPPING"
                              /\ At(t, "mark") => th[t].obj.status # "ERROR"
Orderly == Apart /\ Settled

ApartSpec == Init /\ [][Next /\ Apart']_vars

OrderlyNext == Next /\ Orderly'
OrderlySpec == Init /\ [][OrderlyNext]_vars

-----------------------------------------------------------------------------
(* Properties *)

\* The slot table and the workspace rows agree: a slot is in use exactly when
\* one active row holds it, and it names that row.  start leases in one
\* transaction, _release_workspace and start's except branch return in one.
LeaseExact ==
    /\ \A s \in Slots : inUse[s] <=> \E w \in Ids : Active(w) /\ slotId[w] = s
    /\ \A w \in Ids : Active(w) => /\ slotId[w] # NoSlot
                                   /\ leasedTo[slotId[w]] = w

\* The port of a slot is taken only by the workspace that leases the slot, so
\* a start that is given a slot never meets a runtime left behind on its port.
PortOfLeasedSlot == \A n \in Names : Running(n) => leasedTo[n[1]] = n[2]

\* The gateway forwards a RUNNING workspace to the port of its slot: whatever
\* listens there is the workspace's own container.
RoutesToOwnRuntime ==
    \A w \in Ids : status[w] = "RUNNING" =>
        /\ ctrName[w] = <<slotId[w], w>>
        /\ \A x \in Ids : Running(<<slotId[w], x>>) => x = w

\* A runtime is removed only by a thread at work on its project: whatever
\* handlers overlap, one project's operations never stop another's container.
RemovesOwnOnly ==
    \A n \in Names : podman[n] = "running" /\ podman'[n] = "none" =>
        \E t \in Threads : /\ th[t].obj # None /\ th[t].obj.id = n[2]
                           /\ project[n[2]] \in {th[t].proj, None}
RuntimeIsolation == [][RemovesOwnOnly]_vars

\* A slot is never leased away from the workspace that leases it: it changes
\* hands through the pool, however handlers overlap and whatever fails.
LeaseKept ==
    [][\A s \in Slots : inUse[s] /\ inUse'[s] => leasedTo'[s] = leasedTo[s]]_vars

\* When startup is over every active row is RUNNING, with a slot and with a
\* container of its own that publishes that slot's port.
BootLeavesRunning ==
    [][~up /\ up' => \A w \in Ids : Active(w) =>
          /\ status[w] = "RUNNING" /\ slotId[w] # NoSlot
          /\ ctrName[w] = <<slotId[w], w>>]_vars

\* A workspace has at most one container running.
OneRuntimePerWorkspace ==
    \A n, m \in Names : Running(n) /\ Running(m) /\ n[2] = m[2] => n = m

\* A slot is returned by a thread at work on the workspace that leases it.
ReleaseReturnsOwnSlot ==
    [][\A s \in Slots : inUse[s] /\ ~inUse'[s] =>
          \E t \in Threads : th[t].obj # None /\ th[t].obj.id = leasedTo[s]]_vars

\* A leased slot is recorded in the row of the workspace that leases it, where
\* a release will find it.
LeaseRecorded == \A s \in Slots : inUse[s] => slotId[leasedTo[s]] = s

\* Reconciliation leaves a workspace alone while a start is at work on it.
Launching(t) == th[t].pc \in {"refresh", "prepare", "run", "wait", "commit"}
ReconcileSparesStarts ==
    [][\A t \in Threads : Reconciling(t) /\ At(t, "mark") /\ th'[t].pc = "remove" =>
          \A r \in Requests : Launching(r) => th[r].obj.id # th[t].obj.id]_vars

\* With startup over and nobody at work, a running container is the recorded
\* runtime of its workspace.
Quiet == up /\ \A t \in Threads : At(t, "idle")
NoStrayRuntime ==
    Quiet => \A n \in Names : Running(n) => Active(n[2]) /\ ctrName[n[2]] = n

\* With nobody at work, no container runs for a workspace whose record is gone.
NoRuntimeWithoutRecord ==
    Quiet => \A n \in Names : Running(n) => Exists(n[2])

\* Every request is answered.
RequestsFinish ==
    \A r \in Requests : ~At(r, "idle") ~> At(r, "idle")

\* A workspace recorded as RUNNING whose container died does not stay so: the
\* housekeeping loop, a start or a stop releases it.
Dead(w) == status[w] = "RUNNING" /\ ~Running(ctrName[w])
DeadRuntimeReleased == \A w \in Ids : Dead(w) ~> ~Dead(w)

\* The slot table implements the pool: what a workspace holds is its slot_id
\* while it is active, what is offered are the slots not in use.
Held == [w \in Ids |-> IF Active(w) THEN slotId[w] ELSE NoSlot]
Pool == INSTANCE SlotPool WITH Holders <- Ids, held <- Held,
                               pool <- {s \in Slots : ~inUse[s]}
ImplementsPool == Pool!PoolSpec

=============================================================================
