--------------------------- MODULE WorkspacesProofs ---------------------------
(***************************************************************************)
(* Proofs about module Workspaces, for every value of its constants: any   *)
(* number of projects, ids, slots and threads, any handlers and faults,    *)
(* operations overlapping or not.                                          *)
(*                                                                         *)
(* The invariant says three things of every state.  A row has a project    *)
(* and names a container of its own (RowOK).  A thread past its first      *)
(* query holds an object with the same two qualities, and a launch holds a *)
(* slot (ThreadOK).  An object that is not in the database yet is known to *)
(* one thread alone (NewIdOK): without it an INSERT could give an id that  *)
(* another thread works with to a second project.                          *)
(*                                                                         *)
(* A step moves one thread, so most actions are shown to keep it through   *)
(* MoveStep (the thread goes on with its object or a new version of it),   *)
(* IdleStep (it is done) or SelectStep (it has loaded rows that exist).    *)
(*                                                                         *)
(* The second half, from "The leases" on, adds what holds in an orderly    *)
(* behaviour: LInv about the tables, HInv about the host, PInv about       *)
(* ports.  The last section is about all behaviours again.                 *)
(***************************************************************************)
EXTENDS Workspaces, TLAPS

\* A row has a project, and names a container of its own.
RowOK(w) ==
    /\ Exists(w) <=> project[w] # None
    /\ ctrName[w] # None => ctrName[w][2] = w

\* A loaded object names a container of its own.
ObjectOK(o) == o.ctr # None => o.ctr[2] = o.id

Launch == {"lease", "refresh", "prepare", "run", "wait", "commit", "confirm",
           "except", "fail"}
Starting == Launch \cup {"probe", "pick"}
Deleting == {"purge", "erase"}
Waiting == {"idle", "next", "reap"}

ThreadOK(t) ==
    LET r == th[t]
    IN  /\ r.pc \in Starting => r.op = "start"
        /\ r.pc \in Deleting => r.op = "delete"
        /\ r.pc \in Launch => r.slot \in Slots
        /\ r.pc = "next" => r.op \notin {"start", "delete"}
        /\ r.op \in {"start", "delete"} => r.proj \in Projects
        /\ r.pc \notin Waiting => r.obj # None
        /\ r.obj # None => /\ ObjectOK(r.obj)
                           /\ project[r.obj.id] \in {r.proj, None}
                           /\ r.obj.status = "ABSENT" => r.pc \in {"pick", "lease"}
        /\ \A o \in r.todo : ObjectOK(o) /\ o.status # "ABSENT"

Refers(t, w) == \/ th[t].obj # None /\ th[t].obj.id = w
                \/ \E o \in th[t].todo : o.id = w

\* An id that is about to be inserted is known to one thread alone.
Inserting(t, w) == /\ th[t].obj # None
                   /\ th[t].obj.id = w /\ th[t].obj.status = "ABSENT"
NewIdOK(t) ==
    \A w \in Ids : Inserting(t, w) =>
        ~Exists(w) /\ \A u \in Threads \ {t} : ~Refers(u, w)

Inv == /\ TypeOK
       /\ \A w \in Ids : RowOK(w)
       /\ \A t \in Threads : ThreadOK(t) /\ NewIdOK(t)

\* What a step does to the threads: t goes to x with object o, or is idle.
Others(t) == /\ th' \in [Threads -> ThreadStates]
             /\ \A u \in Threads \ {t} : th'[u] = th[u]
Moved(t, x, o) ==
    /\ Others(t)
    /\ th'[t].pc = x /\ th'[t].obj = o
    /\ th'[t].op = th[t].op /\ th'[t].proj = th[t].proj
    /\ th'[t].todo = th[t].todo /\ th'[t].slot = th[t].slot
Idled(t) == Others(t) /\ th'[t] = Idle

LEMMA GotoMoves ==
  ASSUME TypeOK, NEW t \in Threads, NEW x \in PCs, Goto(t, x)
  PROVE  Moved(t, x, th[t].obj)
  BY DEF TypeOK, Goto, ThreadStates, Moved, Others

LEMMA LoadMoves ==
  ASSUME TypeOK, NEW t \in Threads, NEW x \in PCs, NEW o \in Objects, Load(t, x, o)
  PROVE  Moved(t, x, o)
  BY DEF TypeOK, Load, ThreadStates, Moved, Others

LEMMA IdleType == Idle \in ThreadStates
  BY DEF Idle, ThreadStates, PCs, Ops, AllHandlers

LEMMA FinishMoves ==
  ASSUME TypeOK, NEW t \in Threads, Finish(t)
  PROVE  Idled(t)
  BY IdleType DEF TypeOK, Finish, Idled, Others

LEMMA NoneIsNone == None \notin Projects /\ None \notin Ids /\ None \notin Names /\ None \notin Objects
  BY ConstantsAssumption

LEMMA InitInv == Init => Inv
  <1> SUFFICES ASSUME Init PROVE Inv OBVIOUS
  <1>1. TypeOK BY IdleType DEF Init, TypeOK, Exists, Statuses, ActiveStates
  <1>2. ASSUME NEW w \in Ids PROVE RowOK(w) BY DEF Init, RowOK, Exists
  <1>3. ASSUME NEW t \in Threads PROVE ThreadOK(t) /\ NewIdOK(t)
    BY DEF Init, Inserting, ThreadOK, NewIdOK, Idle, Launch, Starting, Deleting, Waiting
  <1> QED BY <1>1, <1>2, <1>3 DEF Inv

\* No thread but t is about to insert an id that t comes to refer to.
Discreet(t) == \A u \in Threads \ {t}, w \in Ids :
                  Refers(t, w)' /\ Inserting(u, w) => Refers(t, w)

LEMMA ObjectTypes ==
  ASSUME TypeOK, NEW t \in Threads
  PROVE  /\ th[t] \in ThreadStates
         /\ th[t].obj # None => th[t].obj \in Objects /\ th[t].obj.id \in Ids
         /\ \A o \in th[t].todo : o \in Objects /\ o.id \in Ids
         /\ \A w : Refers(t, w) => w \in Ids
  BY DEF TypeOK, ThreadStates, Objects, Refers

\* A step of t that gives no row to an id and takes no project from one thread
\* for another keeps the threads' invariants.
LEMMA ThreadsStep ==
  ASSUME Inv, NEW t \in Threads, Others(t), Discreet(t),
         ThreadOK(t)', NewIdOK(t)',
         \A w \in Ids : project'[w] \in {project[w], None},
         \A w \in Ids : Exists(w)' => Exists(w)
  PROVE  \A u \in Threads : ThreadOK(u)' /\ NewIdOK(u)'
  <1> TAKE u \in Threads
  <1> SUFFICES ASSUME u # t PROVE ThreadOK(u)' /\ NewIdOK(u)'  OBVIOUS
  <1>0. th'[u] = th[u]  BY DEF Others
  <1>1. th[u].obj # None => th[u].obj.id \in Ids  BY ObjectTypes DEF Inv
  <1>2. ThreadOK(u)'  BY <1>0, <1>1 DEF Inv, ThreadOK, ObjectOK
  <1>3. NewIdOK(u)'
    <2> SUFFICES ASSUME NEW w \in Ids, Inserting(u, w)'
        PROVE  ~Exists(w)' /\ \A v \in Threads \ {u} : ~Refers(v, w)'
      BY DEF NewIdOK
    <2>0. Inserting(u, w)  BY <1>0 DEF Inserting
    <2>1. ~Exists(w) /\ \A v \in Threads \ {u} : ~Refers(v, w)
      BY <2>0 DEF Inv, NewIdOK
    <2>2. ASSUME NEW v \in Threads \ {u, t} PROVE ~Refers(v, w)'
      BY <2>1 DEF Refers, Others
    <2>3. ~Refers(t, w)'
      BY <2>0, <2>1 DEF Discreet, Refers, Inserting
    <2> QED BY <2>1, <2>2, <2>3
  <1> QED BY <1>2, <1>3

\* The same for the commonest steps: t moves on, with its object or another
\* version of it.
MayMove(t, x, o) ==
    /\ x \in Starting => th[t].op = "start"
    /\ x \in Deleting => th[t].op = "delete"
    /\ x \in Launch => th[t].slot \in Slots
    /\ x = "next" => th[t].op \notin {"start", "delete"}
    /\ o # None
    /\ ObjectOK(o)
    /\ o.id = th[t].obj.id
    /\ o.status = "ABSENT" => x \in {"pick", "lease"} /\ th[t].obj.status = "ABSENT"

LEMMA MoveStep ==
  ASSUME Inv, NEW t \in Threads, NEW x \in PCs, NEW o, th[t].obj # None,
         Moved(t, x, o), MayMove(t, x, o),
         \A w \in Ids : project'[w] \in {project[w], None},
         \A w \in Ids : Exists(w)' => Exists(w)
  PROVE  \A u \in Threads : ThreadOK(u)' /\ NewIdOK(u)'
  <1>0. th[t].obj.id \in Ids  BY ObjectTypes DEF Inv
  <1>1. \A w : Refers(t, w)' <=> Refers(t, w)
    BY DEF Moved, MayMove, Refers
  <1>2. Discreet(t)
    <2> SUFFICES ASSUME NEW u \in Threads \ {t}, NEW w \in Ids, Refers(t, w)'
        PROVE  Refers(t, w)
      BY DEF Discreet
    <2> QED BY <1>1
  <1>3. ThreadOK(t)'
    BY <1>0 DEF Inv, ThreadOK, Moved, MayMove, ObjectOK
  <1>4. NewIdOK(t)'
    <2> SUFFICES ASSUME NEW w \in Ids, Inserting(t, w)'
        PROVE  ~Exists(w)' /\ \A u \in Threads \ {t} : ~Refers(u, w)'
      BY DEF NewIdOK
    <2>1. Inserting(t, w)  BY DEF Inserting, Moved, MayMove
    <2>2. ~Exists(w) /\ \A u \in Threads \ {t} : ~Refers(u, w)
      BY <2>1 DEF Inv, NewIdOK
    <2> QED BY <2>2 DEF Moved, Others, Refers
  <1> QED BY <1>2, <1>3, <1>4, ThreadsStep DEF Moved

LEMMA IdleStep ==
  ASSUME Inv, NEW t \in Threads, Idled(t),
         \A w \in Ids : project'[w] \in {project[w], None},
         \A w \in Ids : Exists(w)' => Exists(w)
  PROVE  \A u \in Threads : ThreadOK(u)' /\ NewIdOK(u)'
  <1>1. ThreadOK(t)'
    BY DEF Idled, Idle, ThreadOK, Launch, Starting, Deleting, Waiting
  <1>2. NewIdOK(t)'  BY DEF Idled, Idle, NewIdOK, Inserting
  <1>3. Discreet(t)  BY DEF Idled, Idle, Discreet, Refers
  <1> QED BY <1>1, <1>2, <1>3, ThreadsStep DEF Idled

LEMMA RowsUnchanged ==
  ASSUME UNCHANGED rowVars
  PROVE  /\ \A w \in Ids : RowOK(w) => RowOK(w)'
         /\ \A w \in Ids : project'[w] \in {project[w], None}
         /\ \A w \in Ids : Exists(w)' => Exists(w)
  BY DEF rowVars, RowOK, Exists

\* What a step must do to the containers, the secrets and `up` for its type.
HostTyped == /\ podman' \in [Names -> {"none", "dead", "running"}]
             /\ secrets' \subseteq Projects
             /\ up' \in BOOLEAN

LEMMA QuietMove ==
  ASSUME Inv, NEW t \in Threads, NEW x \in PCs, NEW o, th[t].obj # None,
         Moved(t, x, o), MayMove(t, x, o), HostTyped,
         UNCHANGED <<rowVars, slotVars>>
  PROVE  Inv'
  <1>1. TypeOK'  BY DEF Inv, TypeOK, Moved, Others, HostTyped, rowVars, slotVars
  <1>2. \A u \in Threads : ThreadOK(u)' /\ NewIdOK(u)'  BY MoveStep, RowsUnchanged
  <1> QED BY <1>1, <1>2, RowsUnchanged DEF Inv

LEMMA QuietIdle ==
  ASSUME Inv, NEW t \in Threads, Idled(t), HostTyped,
         UNCHANGED <<rowVars, slotVars>>
  PROVE  Inv'
  <1>1. TypeOK'  BY DEF Inv, TypeOK, Idled, Others, HostTyped, rowVars, slotVars
  <1>2. \A u \in Threads : ThreadOK(u)' /\ NewIdOK(u)'  BY IdleStep, RowsUnchanged
  <1> QED BY <1>1, <1>2, RowsUnchanged DEF Inv

LEMMA QuietStep ==
  ASSUME Inv, NEW t \in Threads, Others(t), Discreet(t), HostTyped,
         ThreadOK(t)', NewIdOK(t)', UNCHANGED <<rowVars, slotVars>>
  PROVE  Inv'
  <1>1. TypeOK'  BY DEF Inv, TypeOK, Others, HostTyped, rowVars, slotVars
  <1>2. \A u \in Threads : ThreadOK(u)' /\ NewIdOK(u)'  BY ThreadsStep, RowsUnchanged
  <1> QED BY <1>1, <1>2, RowsUnchanged DEF Inv

LEMMA RuntimeNameOK ==
  ASSUME TypeOK, NEW t \in Threads, th[t].obj # None, th[t].slot \in Slots
  PROVE  RuntimeName(t) \in Names /\ RuntimeName(t)[2] = th[t].obj.id
  BY ObjectTypes DEF RuntimeName, Names

LEMMA RemovedTyped ==
  ASSUME TypeOK, NEW n
  PROVE  /\ Removed(n) \in [Names -> {"none", "dead", "running"}]
         /\ Rm(n) => podman' \in {podman, Removed(n)}
  BY DEF TypeOK, Removed, Rm

LEMMA RowIsObject ==
  ASSUME Inv, NEW w \in Ids
  PROVE  /\ Row(w) \in Objects /\ Row(w).id = w
         /\ ObjectOK(Row(w))
         /\ Row(w).status = status[w]
  BY DEF Inv, TypeOK, Row, Objects, ObjectOK, RowOK

LEMMA HostUnchanged ==
  ASSUME Inv, UNCHANGED <<hostVars, up>>
  PROVE  HostTyped
  BY DEF Inv, TypeOK, hostVars, HostTyped

LEMMA AtWork ==
  ASSUME Inv, NEW t \in Threads
  PROVE  /\ th[t].pc \notin Waiting =>
              /\ th[t].obj # None /\ th[t].obj \in Objects /\ ObjectOK(th[t].obj)
              /\ th[t].obj.id \in Ids
              /\ project[th[t].obj.id] \in {th[t].proj, None}
         /\ th[t].pc \notin Waiting \cup {"pick", "lease"} => th[t].obj.status # "ABSENT"
         /\ th[t].pc \in Starting => th[t].op = "start"
         /\ th[t].pc \in Deleting => th[t].op = "delete"
         /\ th[t].op \in {"start", "delete"} => th[t].proj \in Projects
         /\ th[t].pc \in Launch =>
              /\ th[t].slot \in Slots
              /\ RuntimeName(t) \in Names /\ RuntimeName(t)[2] = th[t].obj.id
  <1>1. TypeOK /\ ThreadOK(t)  BY DEF Inv
  <1>2. th[t].pc \in Launch => th[t].pc \notin Waiting  BY DEF Launch, Waiting
  <1> QED BY <1>1, <1>2, ObjectTypes, RuntimeNameOK DEF ThreadOK

\* Steps of the commonest shapes, from the names of the places they lead to.
LEMMA GotoStep ==
  ASSUME Inv, NEW t \in Threads, NEW x \in PCs, Goto(t, x),
         th[t].pc \notin Waiting \cup {"pick", "lease"},
         x \in Starting => th[t].op = "start",
         x \in Deleting => th[t].op = "delete",
         x \in Launch => th[t].slot \in Slots,
         x = "next" => th[t].op \notin {"start", "delete"},
         HostTyped, UNCHANGED <<rowVars, slotVars>>
  PROVE  Inv'
  <1>1. Moved(t, x, th[t].obj)  BY GotoMoves DEF Inv
  <1>2. MayMove(t, x, th[t].obj)  BY AtWork DEF MayMove
  <1> QED BY <1>1, <1>2, QuietMove, AtWork

LEMMA FinishStep ==
  ASSUME Inv, NEW t \in Threads, Finish(t), HostTyped,
         UNCHANGED <<rowVars, slotVars>>
  PROVE  Inv'
  BY FinishMoves, QuietIdle DEF Inv

-----------------------------------------------------------------------------
(* The actions *)

LEMMA StartProbeInv == ASSUME Inv, NEW t \in Threads, StartProbe(t) PROVE Inv'
  BY HostUnchanged, FinishStep, GotoStep
  DEF StartProbe, At, PCs, Starting, Launch, Deleting, Waiting

LEMMA NoCapacityInv == ASSUME Inv, NEW t \in Threads, NoCapacity(t) PROVE Inv'
  BY HostUnchanged, FinishStep DEF NoCapacity

LEMMA PrepareInv == ASSUME Inv, NEW t \in Threads, Prepare(t) PROVE Inv'
  <1>1. HostTyped
    BY AtWork, RemovedTyped DEF Prepare, At, HostTyped, Inv, TypeOK, Starting, Launch
  <1>2. th[t].slot \in Slots /\ th[t].op = "start"
    BY AtWork DEF Prepare, At, Starting, Launch
  <1> QED BY <1>1, <1>2, GotoStep
          DEF Prepare, At, PCs, Starting, Launch, Deleting, Waiting

LEMMA RunInv == ASSUME Inv, NEW t \in Threads, Run(t) \/ RunFails(t) PROVE Inv'
  <1>1. HostTyped  BY DEF Run, RunFails, HostTyped, Inv, TypeOK
  <1>2. th[t].slot \in Slots /\ th[t].op = "start"
    BY AtWork DEF Run, RunFails, At, Starting, Launch
  <1> QED BY <1>1, <1>2, GotoStep
          DEF Run, RunFails, At, PCs, Starting, Launch, Deleting, Waiting

LEMMA WaitInv == ASSUME Inv, NEW t \in Threads, Ready(t) \/ NotReady(t) PROVE Inv'
  <1>1. HostTyped
    BY RemovedTyped, HostUnchanged DEF Ready, NotReady, HostTyped, Inv, TypeOK
  <1>2. th[t].slot \in Slots /\ th[t].op = "start"
    BY AtWork DEF Ready, NotReady, At, Starting, Launch
  <1> QED BY <1>1, <1>2, GotoStep
          DEF Ready, NotReady, At, PCs, Starting, Launch, Deleting, Waiting

LEMMA ConfirmInv == ASSUME Inv, NEW t \in Threads, Confirm(t) PROVE Inv'
  BY HostUnchanged, FinishStep DEF Confirm

LEMMA ExceptInv == ASSUME Inv, NEW t \in Threads, Except(t) PROVE Inv'
  <1>1. HostTyped
    BY RemovedTyped DEF Except, HostTyped, Inv, TypeOK
  <1>2. th[t].slot \in Slots /\ th[t].op = "start"
    BY AtWork DEF Except, At, Starting, Launch
  <1> QED BY <1>1, <1>2, GotoStep
          DEF Except, At, PCs, Starting, Launch, Deleting, Waiting

LEMMA RemoveInv == ASSUME Inv, NEW t \in Threads, Remove(t) PROVE Inv'
  <1>1. HostTyped
    BY RemovedTyped DEF Remove, HostTyped, Inv, TypeOK
  <1> QED BY <1>1, GotoStep
          DEF Remove, At, PCs, Starting, Launch, Deleting, Waiting

LEMMA PurgeInv ==
  ASSUME Inv, NEW t \in Threads, Purge(t) \/ PurgeFails(t) PROVE Inv'
  <1>1. HostTyped
    BY DEF Purge, PurgeFails, HostTyped, Inv, TypeOK
  <1>2. th[t].op = "delete"
    BY AtWork DEF Purge, PurgeFails, At, Deleting
  <1> QED BY <1>1, <1>2, GotoStep, FinishStep
          DEF Purge, PurgeFails, At, PCs, Starting, Launch, Deleting, Waiting

LEMMA TimeoutInv == ASSUME Inv, NEW t \in Threads, TimeoutStep(t) PROVE Inv'
  <1>1. CASE RemoveTimesOut(t)
    <2>1. HostTyped
      BY <1>1, RemovedTyped DEF RemoveTimesOut, HostTyped, Inv, TypeOK
    <2> QED BY <1>1, <2>1, FinishStep DEF RemoveTimesOut
  <1>2. CASE LaunchTimesOut(t)
    <2>1. HostTyped
      BY <1>2, RemovedTyped DEF LaunchTimesOut, HostTyped, Inv, TypeOK
    <2>2. th[t].slot \in Slots /\ th[t].op = "start"
      BY <1>2, AtWork DEF LaunchTimesOut, Starting, Launch
    <2> QED BY <1>2, <2>1, <2>2, GotoStep
            DEF LaunchTimesOut, PCs, Starting, Launch, Deleting, Waiting
  <1>3. CASE InspectTimesOut(t)
    BY <1>3, HostUnchanged, FinishStep DEF InspectTimesOut
  <1> QED BY <1>1, <1>2, <1>3 DEF TimeoutStep

\* An UPDATE of an existing row by the object that t has loaded of it.
MayWrite(o, n) == /\ o \in Objects /\ n \in Objects /\ n.id = o.id
                  /\ o.status # "ABSENT" /\ n.status # "ABSENT"
                  /\ ObjectOK(n)
                  /\ n = o \/ Exists(o.id)

RowsTyped == /\ status' \in [Ids -> Statuses]
             /\ slotId' \in [Ids -> Slots \cup {NoSlot}]
             /\ ctrName' \in [Ids -> Names \cup {None}]

LEMMA WriteKeepsRows ==
  ASSUME Inv, NEW o, NEW n, MayWrite(o, n), Write(o, n), UNCHANGED project
  PROVE  /\ RowsTyped
         /\ \A w \in Ids : RowOK(w)'
         /\ \A w \in Ids : project'[w] \in {project[w], None}
         /\ \A w \in Ids : Exists(w)' => Exists(w)
  <1>1. RowsTyped
    BY DEF Inv, TypeOK, RowsTyped, Write, MayWrite, Objects
  <1>2. ASSUME NEW w \in Ids, w # o.id
        PROVE  status'[w] = status[w] /\ ctrName'[w] = ctrName[w]
    BY <1>2 DEF Inv, TypeOK, Write
  <1>3. o.id \in Ids /\ (Exists(o.id)' <=> Exists(o.id))
    BY DEF Inv, TypeOK, Write, MayWrite, Objects, Exists
  <1>4. ctrName'[o.id] \in {ctrName[o.id], n.ctr}
    BY <1>3 DEF Inv, TypeOK, Write
  <1>5. ASSUME NEW w \in Ids PROVE Exists(w)' <=> Exists(w)
    BY <1>2, <1>3 DEF Exists
  <1>6. ASSUME NEW w \in Ids PROVE RowOK(w)'
    <2>1. RowOK(w)  BY DEF Inv
    <2>2. CASE w = o.id
      BY <1>3, <1>4, <2>1, <2>2 DEF RowOK, MayWrite, ObjectOK
    <2>3. CASE w # o.id  BY <1>2, <1>5, <2>1, <2>3 DEF RowOK
    <2> QED BY <2>2, <2>3
  <1> QED BY <1>1, <1>5, <1>6

SlotsTyped == /\ inUse' \in [Slots -> BOOLEAN]
              /\ leasedTo' \in [Slots -> Ids \cup {None}]

LEMMA ReturnSlotTyped ==
  ASSUME Inv, NEW s, ReturnSlot(s) \/ UNCHANGED slotVars
  PROVE  SlotsTyped
  BY DEF Inv, TypeOK, ReturnSlot, SetSlot, slotVars, SlotsTyped

LEMMA WriteMove ==
  ASSUME Inv, NEW t \in Threads, NEW x \in PCs, NEW n,
         th[t].pc \notin Waiting, MayWrite(th[t].obj, n), Write(th[t].obj, n),
         Load(t, x, n), MayMove(t, x, n), SlotsTyped,
         UNCHANGED <<project, last, hostVars, up>>
  PROVE  Inv'
  <1>1. Moved(t, x, n)  BY LoadMoves DEF Inv, MayWrite
  <1>2. \A u \in Threads : ThreadOK(u)' /\ NewIdOK(u)'
    BY <1>1, MoveStep, WriteKeepsRows, AtWork
  <1>3. TypeOK'
    BY <1>1, WriteKeepsRows
    DEF Inv, TypeOK, Moved, Others, RowsTyped, SlotsTyped, hostVars
  <1> QED BY <1>2, <1>3, WriteKeepsRows DEF Inv

LEMMA WriteIdle ==
  ASSUME Inv, NEW t \in Threads, NEW n,
         MayWrite(th[t].obj, n), Write(th[t].obj, n), Finish(t), SlotsTyped,
         UNCHANGED <<project, last, hostVars, up>>
  PROVE  Inv'
  <1>1. Idled(t)  BY FinishMoves DEF Inv
  <1>2. \A u \in Threads : ThreadOK(u)' /\ NewIdOK(u)'
    BY <1>1, IdleStep, WriteKeepsRows
  <1>3. TypeOK'
    BY <1>1, WriteKeepsRows
    DEF Inv, TypeOK, Idled, Others, RowsTyped, SlotsTyped, hostVars
  <1> QED BY <1>2, <1>3, WriteKeepsRows DEF Inv

LEMMA CommitInv == ASSUME Inv, NEW t \in Threads, Commit(t) PROVE Inv'
  <1> DEFINE o == th[t].obj
             n == [o EXCEPT !.status = "RUNNING", !.ctr = RuntimeName(t)]
  <1>1. /\ o \in Objects /\ o.status # "ABSENT" /\ th[t].op = "start"
        /\ th[t].slot \in Slots /\ RuntimeName(t) \in Names
        /\ RuntimeName(t)[2] = o.id /\ th[t].pc \notin Waiting
    BY AtWork DEF Commit, At, Launch, Starting, Waiting
  <1>2. n \in Objects /\ n.id = o.id /\ ObjectOK(n) /\ n.status = "RUNNING"
    BY <1>1 DEF Objects, ObjectOK, Statuses, ActiveStates
  <1>3. CASE n # o /\ Rejected(o, n, th[t].proj)
    BY <1>3, HostUnchanged, FinishStep DEF Commit, rowVars
  <1>4. CASE ~(n # o /\ Rejected(o, n, th[t].proj))
    <2>1. MayWrite(o, n)  BY <1>1, <1>2, <1>4 DEF MayWrite, Rejected
    <2>2. n # None  BY <1>2, NoneIsNone
    <2>3. MayMove(t, "confirm", n)
      BY <1>1, <1>2, <2>2 DEF MayMove, Launch, Starting, Deleting
    <2>4. Write(o, n) /\ Load(t, "confirm", n) /\ UNCHANGED <<project, last, slotVars, hostVars, up>>
      BY <1>4 DEF Commit
    <2>5. SlotsTyped  BY <2>4, ReturnSlotTyped
    <2> HIDE DEF n
    <2> QED BY <1>1, <2>1, <2>3, <2>4, <2>5, WriteMove DEF PCs
  <1> QED BY <1>3, <1>4

LEMMA FailInv == ASSUME Inv, NEW t \in Threads, Fail(t) PROVE Inv'
  <1> DEFINE o == th[t].obj
             n == [o EXCEPT !.status = "ERROR"]
  <1>1. o \in Objects /\ o.status # "ABSENT" /\ ObjectOK(o)
    BY AtWork DEF Fail, At, Waiting
  <1>2. n \in Objects /\ n.id = o.id /\ ObjectOK(n) /\ n.status = "ERROR"
    BY <1>1 DEF Objects, ObjectOK, Statuses
  <1>3. CASE n # o /\ Rejected(o, n, th[t].proj)
    BY <1>3, HostUnchanged, FinishStep DEF Fail, rowVars
  <1>4. CASE ~(n # o /\ Rejected(o, n, th[t].proj))
    <2>1. MayWrite(o, n)  BY <1>1, <1>2, <1>4 DEF MayWrite, Rejected
    <2>2. /\ Write(o, n) /\ ReturnSlot(th[t].slot) /\ Finish(t)
          /\ UNCHANGED <<project, last, hostVars, up>>
      BY <1>4 DEF Fail
    <2>3. SlotsTyped  BY <2>2, ReturnSlotTyped
    <2> HIDE DEF n
    <2> QED BY <2>1, <2>2, <2>3, WriteIdle
  <1> QED BY <1>3, <1>4

LEMMA MarkInv == ASSUME Inv, NEW t \in Threads, Mark(t) PROVE Inv'
  <1> DEFINE o == th[t].obj
             n == [o EXCEPT !.status =
                     IF @ \in {"STOPPED", "ERROR"} THEN @ ELSE "STOPPING"]
  <1>1. /\ o \in Objects /\ o.status # "ABSENT" /\ ObjectOK(o)
        /\ th[t].pc \notin Waiting
    BY AtWork DEF Mark, At, Waiting
  <1>2. n \in Objects /\ n.id = o.id /\ ObjectOK(n) /\ n.status # "ABSENT"
    BY <1>1 DEF Objects, ObjectOK, Statuses, ActiveStates
  <1>3. CASE n # o /\ Rejected(o, n, project[o.id])
    BY <1>3, HostUnchanged, FinishStep DEF Mark, rowVars
  <1>4. CASE ~(n # o /\ Rejected(o, n, project[o.id]))
    <2>1. MayWrite(o, n)  BY <1>1, <1>2, <1>4 DEF MayWrite, Rejected
    <2>2. n # None  BY <1>2, NoneIsNone
    <2>3. MayMove(t, "remove", n)
      BY <1>1, <1>2, <2>2 DEF MayMove, Launch, Starting, Deleting
    <2>4. /\ Write(o, n) /\ Load(t, "remove", n)
          /\ UNCHANGED <<project, last, slotVars, hostVars, up>>
      BY <1>4 DEF Mark
    <2>5. SlotsTyped  BY <2>4, ReturnSlotTyped
    <2> HIDE DEF n
    <2> QED BY <1>1, <2>1, <2>3, <2>4, <2>5, WriteMove DEF PCs
  <1> QED BY <1>3, <1>4

LEMMA FreeInv == ASSUME Inv, NEW t \in Threads, Free(t) PROVE Inv'
  <1> DEFINE o == th[t].obj
             n == [o EXCEPT !.status = "STOPPED", !.slot = NoSlot, !.ctr = None]
             x == AfterRelease(t)
  <1>1. /\ o \in Objects /\ o.status # "ABSENT" /\ th[t].pc \notin Waiting
    BY AtWork DEF Free, At, Waiting
  <1>2. n \in Objects /\ n.id = o.id /\ ObjectOK(n) /\ n.status = "STOPPED"
    BY <1>1 DEF Objects, ObjectOK, Statuses
  <1>3. /\ x \in PCs /\ x \notin Launch
        /\ x \in Starting => th[t].op = "start"
        /\ x \in Deleting => th[t].op = "delete"
        /\ x = "next" => th[t].op \notin {"start", "delete"}
    BY DEF AfterRelease, PCs, Launch, Starting, Deleting
  <1>4. CASE Rejected(o, n, project[o.id])
    BY <1>4, HostUnchanged, FinishStep DEF Free, rowVars, slotVars
  <1>5. CASE ~Rejected(o, n, project[o.id])
    <2>1. MayWrite(o, n)  BY <1>1, <1>2, <1>5 DEF MayWrite, Rejected
    <2>2. n # None  BY <1>2, NoneIsNone
    <2>3. MayMove(t, x, n)  BY <1>2, <1>3, <2>2 DEF MayMove
    <2>4. /\ Write(o, n) /\ FreeSlotOf(o) /\ Load(t, x, n)
          /\ UNCHANGED <<project, last, hostVars, up>>
      BY <1>5 DEF Free
    <2>5. SlotsTyped  BY <2>4, ReturnSlotTyped DEF FreeSlotOf
    <2> HIDE DEF n, x
    <2> QED BY <1>1, <1>3, <2>1, <2>3, <2>4, <2>5, WriteMove
  <1> QED BY <1>4, <1>5

LEMMA RefreshInv == ASSUME Inv, NEW t \in Threads, Refresh(t) PROVE Inv'
  <1> DEFINE w == th[t].obj.id
  <1>1. /\ w \in Ids /\ th[t].obj # None /\ th[t].pc = "refresh"
        /\ th[t].slot \in Slots /\ th[t].op = "start"
    BY AtWork DEF Refresh, At, Waiting, Launch, Starting
  <1>2. CASE ~Exists(w)
    BY <1>2, HostUnchanged, FinishStep DEF Refresh
  <1>3. CASE Exists(w)
    <2>1. Row(w) \in Objects /\ Row(w).id = w /\ ObjectOK(Row(w))
          /\ Row(w).status # "ABSENT" /\ Row(w) # None
      BY <1>1, <1>3, RowIsObject, NoneIsNone DEF Exists
    <2>2. Moved(t, "prepare", Row(w))
      BY <1>3, <2>1, LoadMoves DEF Refresh, Inv, PCs
    <2>3. MayMove(t, "prepare", Row(w))
      BY <1>1, <2>1 DEF MayMove, Starting, Launch, Deleting
    <2>4. HostTyped /\ UNCHANGED <<rowVars, slotVars>>
      BY HostUnchanged DEF Refresh
    <2> QED BY <1>1, <2>2, <2>3, <2>4, QuietMove DEF PCs
  <1> QED BY <1>2, <1>3

LEMMA EraseInv == ASSUME Inv, NEW t \in Threads, Erase(t) PROVE Inv'
  <1> DEFINE w == th[t].obj.id
  <1>1. Idled(t)  BY FinishMoves DEF Erase, Inv
  <1>2. TypeOK'
    BY <1>1 DEF Inv, TypeOK, Erase, Idled, Others, Statuses, slotVars, hostVars
  <1>3. ASSUME NEW x \in Ids
        PROVE  /\ RowOK(x)' /\ project'[x] \in {project[x], None}
               /\ Exists(x)' => Exists(x)
    BY DEF Inv, TypeOK, RowOK, Exists, Erase
  <1>4. \A u \in Threads : ThreadOK(u)' /\ NewIdOK(u)'
    BY <1>1, <1>3, IdleStep
  <1> QED BY <1>2, <1>3, <1>4 DEF Inv

LEMMA PickInv == ASSUME Inv, NEW t \in Threads, Pick(t) PROVE Inv'
  <1> PICK s \in Slots : th' = [th EXCEPT ![t].pc = "lease", ![t].slot = s]
    BY DEF Pick, FreeSlots
  <1>1. /\ Others(t)
        /\ th'[t].obj = th[t].obj /\ th'[t].todo = th[t].todo
        /\ th'[t].op = th[t].op /\ th'[t].proj = th[t].proj
        /\ th'[t].pc = "lease" /\ th'[t].slot = s
    <2> DEFINE r == [th[t] EXCEPT !.pc = "lease", !.slot = s]
    <2>1. th' = [th EXCEPT ![t] = r]  OBVIOUS
    <2>2. /\ r \in ThreadStates
          /\ r.obj = th[t].obj /\ r.todo = th[t].todo
          /\ r.op = th[t].op /\ r.proj = th[t].proj
          /\ r.pc = "lease" /\ r.slot = s
      BY ObjectTypes DEF Inv, ThreadStates, PCs
    <2> HIDE DEF r
    <2> QED BY <2>1, <2>2 DEF Inv, TypeOK, Others
  <1>2. HostTyped /\ UNCHANGED <<rowVars, slotVars>>
    BY HostUnchanged DEF Pick
  <1>3. \A w : Refers(t, w)' <=> Refers(t, w)  BY <1>1 DEF Refers
  <1>4. Discreet(t)  BY <1>3 DEF Discreet
  <1>5. th[t].op = "start" /\ ThreadOK(t) /\ th[t].obj # None
    BY AtWork DEF Pick, At, Starting, Launch, Waiting, Inv
  <1>6. ThreadOK(t)'
    BY <1>1, <1>2, <1>5
    DEF ThreadOK, rowVars, Starting, Launch, Deleting, Waiting, ObjectOK
  <1>7. NewIdOK(t)'
    <2> SUFFICES ASSUME NEW w \in Ids, Inserting(t, w)'
        PROVE  ~Exists(w)' /\ \A u \in Threads \ {t} : ~Refers(u, w)'
      BY DEF NewIdOK
    <2>1. Inserting(t, w)  BY <1>1 DEF Inserting
    <2>2. ~Exists(w) /\ \A u \in Threads \ {t} : ~Refers(u, w)
      BY <2>1 DEF Inv, NewIdOK
    <2> QED BY <1>1, <1>2, <2>2 DEF Others, Refers, rowVars, Exists
  <1> QED BY <1>1, <1>2, <1>4, <1>6, <1>7, QuietStep

\* A thread begins (or ends) an operation: it becomes r, which refers to no id
\* that another thread is about to insert.
LEMMA BeginStep ==
  ASSUME Inv, NEW t \in Threads, NEW r \in ThreadStates,
         th' = [th EXCEPT ![t] = r], ThreadOK(t)', HostTyped,
         r.obj # None => r.obj.status # "ABSENT",
         r.obj # None => \A u \in Threads \ {t} : ~Inserting(u, r.obj.id),
         \A o \in r.todo, u \in Threads \ {t} : ~Inserting(u, o.id),
         UNCHANGED <<rowVars, slotVars>>
  PROVE  Inv'
  <1>1. Others(t) /\ th'[t] = r  BY DEF Inv, TypeOK, Others
  <1>2. Discreet(t)
    <2> SUFFICES ASSUME NEW u \in Threads \ {t}, NEW w \in Ids, Refers(t, w)', Inserting(u, w)
        PROVE  FALSE
      BY DEF Discreet
    <2> QED BY <1>1 DEF Refers
  <1>3. NewIdOK(t)'  BY <1>1 DEF NewIdOK, Inserting
  <1> QED BY <1>1, <1>2, <1>3, QuietStep

\* The same where it refers to rows that exist.
LEMMA SelectStep ==
  ASSUME Inv, NEW t \in Threads, NEW r \in ThreadStates,
         th' = [th EXCEPT ![t] = r], ThreadOK(t)', HostTyped,
         r.obj # None => Exists(r.obj.id) /\ r.obj.status # "ABSENT",
         \A o \in r.todo : Exists(o.id),
         UNCHANGED <<rowVars, slotVars>>
  PROVE  Inv'
  <1>1. ASSUME NEW u \in Threads, NEW w, Exists(w), Inserting(u, w)
        PROVE  FALSE
    <2>1. w \in Ids  BY <1>1, ObjectTypes DEF Inserting, Inv
    <2> QED BY <1>1, <2>1 DEF Inv, NewIdOK
  <1> QED BY <1>1, BeginStep

LEMMA StopSelectInv ==
  ASSUME Inv, NEW t \in Threads, NEW w \in Ids,
         StopSelect(t, w) \/ DeleteSelect(t, w)
  PROVE  Inv'
  <1>1. PICK x \in {"mark", "purge"}, h \in {"stop", "delete"} :
          /\ x = "purge" => h = "delete"
          /\ Exists(w)
          /\ th' = [th EXCEPT ![t] = [Idle EXCEPT !.pc = x, !.op = h,
                                        !.proj = project[w], !.obj = Row(w)]]
          /\ HostTyped /\ UNCHANGED <<rowVars, slotVars>>
    <2>1. CASE StopSelect(t, w)
      BY <2>1, HostUnchanged DEF StopSelect
    <2>2. CASE DeleteSelect(t, w)
      BY <2>2, HostUnchanged DEF DeleteSelect
    <2> QED BY <2>1, <2>2
  <1> DEFINE r == [Idle EXCEPT !.pc = x, !.op = h,
                     !.proj = project[w], !.obj = Row(w)]
  <1>2. /\ Row(w) \in Objects /\ Row(w).id = w /\ ObjectOK(Row(w))
        /\ Row(w).status # "ABSENT" /\ Row(w) # None
    BY <1>1, RowIsObject, NoneIsNone DEF Exists
  <1>3. project[w] \in Projects  BY <1>1 DEF Inv, TypeOK, RowOK
  <1>4. /\ r \in ThreadStates
        /\ r.pc = x /\ r.op = h /\ r.proj = project[w] /\ r.obj = Row(w)
        /\ r.todo = {}
    BY <1>2, <1>3 DEF Idle, ThreadStates, PCs, Ops, AllHandlers
  <1> HIDE DEF r
  <1>5. th'[t] = r  BY <1>1 DEF Inv, TypeOK, r
  <1>6. project' = project  BY <1>1 DEF rowVars
  <1>7. ThreadOK(t)'
    BY <1>2, <1>3, <1>1, <1>4, <1>5, <1>6
    DEF ThreadOK, Launch, Starting, Deleting, Waiting
  <1>8. th' = [th EXCEPT ![t] = r]  BY <1>1 DEF r
  <1>9. r.obj # None => Exists(r.obj.id) /\ r.obj.status # "ABSENT"
    BY <1>1, <1>2, <1>4
  <1> QED BY <1>1, <1>4, <1>7, <1>8, <1>9, SelectStep

LEMMA StartSelectInv ==
  ASSUME Inv, NEW t \in Threads, NEW p \in Projects, StartSelect(t, p)
  PROVE  Inv'
  <1>1. PICK w \in Ids :
          /\ w \in IF RowsOf(p) = {} THEN Fresh ELSE Newest(p)
          /\ th' = [th EXCEPT ![t] =
                      [Idle EXCEPT !.op = "start", !.proj = p, !.obj = Row(w),
                         !.pc = IF status[w] \in {"STARTING", "RUNNING"}
                                THEN "probe" ELSE "pick"]]
    BY DEF StartSelect, Fresh, Newest, RowsOf
  <1> DEFINE x == IF status[w] \in {"STARTING", "RUNNING"} THEN "probe" ELSE "pick"
             r == [Idle EXCEPT !.op = "start", !.proj = p, !.obj = Row(w), !.pc = x]
  <1>2. Row(w) \in Objects /\ Row(w).id = w /\ ObjectOK(Row(w))
        /\ Row(w).status = status[w] /\ Row(w) # None
    BY RowIsObject, NoneIsNone
  <1>3. HostTyped /\ UNCHANGED <<rowVars, slotVars>>
    BY HostUnchanged DEF StartSelect
  <1>4. /\ r \in ThreadStates
        /\ r.pc = x /\ r.op = "start" /\ r.proj = p /\ r.obj = Row(w)
        /\ r.todo = {}
    BY <1>2 DEF Idle, ThreadStates, PCs, Ops, AllHandlers
  <1>5. th' = [th EXCEPT ![t] = r]  BY <1>1
  <1>6. x \in {"probe", "pick"} /\ (status[w] = "ABSENT" => x = "pick")  OBVIOUS
  <1> HIDE DEF r, x
  <1>7. Others(t) /\ th'[t] = r  BY <1>4, <1>5 DEF Inv, TypeOK, Others
  <1>8. project[w] \in {p, None}
    BY <1>1 DEF RowsOf, Newest, Fresh, Inv, RowOK
  <1>9. ThreadOK(t)'
    BY <1>2, <1>3, <1>4, <1>6, <1>7, <1>8
    DEF ThreadOK, Launch, Starting, Deleting, Waiting, rowVars
  <1>10. CASE Exists(w)
    BY <1>2, <1>3, <1>4, <1>5, <1>9, <1>10, SelectStep DEF Exists
  <1>11. CASE ~Exists(w)
    <2>1. w \in Fresh
      BY <1>1, <1>11, NoneIsNone DEF RowsOf, Newest, Inv, RowOK
    <2>2. \A u \in Threads : ~Refers(u, w)
      BY <2>1 DEF Fresh, Refers
    <2>3. \A v : Refers(t, v)' <=> v = w
      BY <1>2, <1>4, <1>7 DEF Refers
    <2>4. Discreet(t)
      <3> SUFFICES ASSUME NEW u \in Threads \ {t}, NEW v \in Ids,
                          Refers(t, v)', Refers(u, v)
          PROVE  FALSE
        BY DEF Discreet, Inserting, Refers
      <3> QED BY <2>2, <2>3
    <2>5. NewIdOK(t)'
      <3> SUFFICES ASSUME NEW v \in Ids, Inserting(t, v)'
          PROVE  ~Exists(v)' /\ \A u \in Threads \ {t} : ~Refers(u, v)'
        BY DEF NewIdOK
      <3>1. v = w  BY <1>2, <1>4, <1>7 DEF Inserting
      <3> QED BY <3>1, <1>3, <1>7, <1>11, <2>2 DEF Others, Refers, rowVars, Exists
    <2> QED BY <1>3, <1>7, <1>9, <2>4, <2>5, QuietStep
  <1> QED BY <1>10, <1>11

\* A loop over rows that exist begins.
LEMMA LoopStart ==
  ASSUME Inv, NEW t \in Threads, NEW x \in Ops \ {"start", "delete"},
         NEW ws \in SUBSET Ids, \A w \in ws : Exists(w), Loop(t, x, ws),
         UNCHANGED <<rowVars, slotVars, hostVars, up>>
  PROVE  Inv'
  <1> DEFINE r == [Idle EXCEPT !.pc = "next", !.op = x, !.todo = LoadRows(ws)]
  <1>1. \A o \in LoadRows(ws) : /\ o \in Objects /\ ObjectOK(o)
                                /\ o.status # "ABSENT" /\ Exists(o.id)
    BY RowIsObject DEF LoadRows, Exists
  <1>2. LoadRows(ws) \in SUBSET Objects  BY <1>1
  <1>3. /\ r \in ThreadStates /\ r.pc = "next" /\ r.op = x
        /\ r.todo = LoadRows(ws) /\ r.obj = None
    BY <1>2 DEF Idle, ThreadStates, PCs
  <1>4. th' = [th EXCEPT ![t] = r]  BY DEF Loop
  <1> HIDE DEF r
  <1>5. th'[t] = r  BY <1>4 DEF Inv, TypeOK
  <1>6. ThreadOK(t)'
    BY <1>1, <1>3, <1>5 DEF ThreadOK, Launch, Starting, Deleting, Waiting
  <1> QED BY <1>1, <1>3, <1>4, <1>6, HostUnchanged, SelectStep

LEMMA StopAllSelectInv ==
  ASSUME Inv, NEW t \in Threads, NEW u, StopAllSelect(t, u) PROVE Inv'
  <1> DEFINE ws == {w \in Ids : Active(w) /\ Owner[project[w]] = u}
  <1>1. ws \in SUBSET Ids /\ \A w \in ws : Exists(w)
    BY DEF Active, Exists, ActiveStates
  <1>2. "stopall" \in Ops \ {"start", "delete"}  BY DEF Ops, AllHandlers
  <1>3. Loop(t, "stopall", ws) /\ UNCHANGED <<rowVars, slotVars, hostVars, up>>
    BY DEF StopAllSelect
  <1> HIDE DEF ws
  <1> QED BY <1>1, <1>2, <1>3, LoopStart

LEMMA KeeperInv == ASSUME Inv, Boot \/ Reconcile \/ ReapSelect PROVE Inv'
  <1>1. Keeper \in Threads  BY DEF Threads
  <1>2. PICK ws \in SUBSET Ids, x \in {"boot", "reconcile", "reap"} :
          /\ \A w \in ws : Exists(w)
          /\ Loop(Keeper, x, ws)
          /\ UNCHANGED <<rowVars, slotVars, hostVars, up>>
    <2>1. /\ ActiveRows \in SUBSET Ids
          /\ \A w \in ActiveRows : Exists(w)
      BY DEF ActiveRows, Active, ActiveStates, Exists
    <2>2. CASE Boot  BY <2>1, <2>2 DEF Boot
    <2>3. CASE Reconcile  BY <2>1, <2>3 DEF Reconcile
    <2>4. CASE ReapSelect
      <3> DEFINE rs == {w \in Ids : status[w] = "RUNNING"}
      <3>1. rs \in SUBSET Ids /\ \A w \in rs : Exists(w)  BY DEF Exists
      <3> QED BY <2>4, <3>1 DEF ReapSelect
    <2> QED BY <2>2, <2>3, <2>4
  <1>3. x \in Ops \ {"start", "delete"}  BY DEF Ops, AllHandlers
  <1> QED BY <1>1, <1>2, <1>3, LoopStart

LEMMA ReleaseNextInv ==
  ASSUME Inv, NEW t \in Threads, ReleaseNext(t) PROVE Inv'
  <1>1. PICK o \in th[t].todo :
          th' = [th EXCEPT ![t].pc = "mark", ![t].obj = o, ![t].todo = @ \ {o},
                           ![t].proj = project[o.id]]
    BY DEF ReleaseNext
  <1>2. o \in Objects /\ o.id \in Ids /\ th[t] \in ThreadStates
    BY ObjectTypes DEF Inv
  <1>3. project[o.id] \in Projects \cup {None}  BY <1>2 DEF Inv, TypeOK
  <1>4. /\ Others(t)
        /\ th'[t].pc = "mark" /\ th'[t].op = th[t].op /\ th'[t].obj = o
        /\ th'[t].todo = th[t].todo \ {o} /\ th'[t].proj = project[o.id]
    <2> DEFINE r == [th[t] EXCEPT !.pc = "mark", !.obj = o, !.todo = @ \ {o},
                                  !.proj = project[o.id]]
    <2>1. th' = [th EXCEPT ![t] = r]  BY <1>1
    <2>2. /\ r \in ThreadStates
          /\ r.pc = "mark" /\ r.op = th[t].op /\ r.obj = o
          /\ r.todo = th[t].todo \ {o} /\ r.proj = project[o.id]
      BY <1>2, <1>3 DEF ThreadStates, PCs
    <2> HIDE DEF r
    <2> QED BY <2>1, <2>2 DEF Inv, TypeOK, Others
  <1>5. HostTyped /\ UNCHANGED <<rowVars, slotVars>>
    BY HostUnchanged DEF ReleaseNext
  <1>6. ThreadOK(t) /\ th[t].op \notin {"start", "delete"}
    BY DEF ReleaseNext, At, Inv, ThreadOK
  <1>7. /\ \A x \in th'[t].todo : ObjectOK(x) /\ x.status # "ABSENT"
        /\ ObjectOK(o) /\ o.status # "ABSENT" /\ o # None
    BY <1>2, <1>4, <1>6, NoneIsNone DEF ThreadOK
  <1>8. ThreadOK(t)'
    BY <1>4, <1>5, <1>6, <1>7
    DEF ThreadOK, Launch, Starting, Deleting, Waiting, rowVars
  <1>9. \A w : Refers(t, w)' => Refers(t, w)
    BY <1>4, <1>7 DEF Refers
  <1>10. Discreet(t)  BY <1>9 DEF Discreet
  <1>11. NewIdOK(t)'  BY <1>4, <1>7 DEF NewIdOK, Inserting
  <1> QED BY <1>4, <1>5, <1>8, <1>10, <1>11, QuietStep

LEMMA KeepNextInv ==
  ASSUME Inv, NEW t \in Threads, KeepNext(t) PROVE Inv'
  <1>1. PICK o \in th[t].todo : th' = [th EXCEPT ![t].todo = @ \ {o}]
    BY DEF KeepNext
  <1>2. /\ Others(t)
        /\ th'[t].pc = "next" /\ th'[t].op = th[t].op
        /\ th'[t].obj = th[t].obj /\ th'[t].slot = th[t].slot
        /\ th'[t].todo = th[t].todo \ {o} /\ th'[t].proj = th[t].proj
    BY <1>1 DEF KeepNext, At, Inv, TypeOK, ThreadStates, Others
  <1>3. HostTyped /\ UNCHANGED <<rowVars, slotVars>>
    BY HostUnchanged DEF KeepNext
  <1>4. ThreadOK(t) /\ th[t].pc = "next"  BY DEF KeepNext, At, Inv
  <1>5. ThreadOK(t)'
    BY <1>2, <1>3, <1>4
    DEF ThreadOK, Launch, Starting, Deleting, Waiting, rowVars
  <1>6. \A w : Refers(t, w)' => Refers(t, w)
    BY <1>2 DEF Refers
  <1>7. Discreet(t)  BY <1>6 DEF Discreet
  <1>8. NewIdOK(t)'  BY <1>2, <1>4 DEF NewIdOK, Inserting, ThreadOK
  <1> QED BY <1>2, <1>3, <1>5, <1>7, <1>8, QuietStep

LEMMA LoopEndInv ==
  ASSUME Inv, NEW t \in Threads, LoopEnd(t) PROVE Inv'
  <1>1. HostTyped /\ UNCHANGED <<rowVars, slotVars>>
    BY DEF LoopEnd, HostTyped, Inv, TypeOK, hostVars
  <1>2. CASE Finish(t)  BY <1>1, <1>2, FinishStep
  <1>3. CASE ~Finish(t)
    <2> DEFINE r == [Idle EXCEPT !.pc = "reap", !.op = "reap"]
    <2>1. th' = [th EXCEPT ![t] = r]  BY <1>3 DEF LoopEnd
    <2>2. /\ r \in ThreadStates /\ r.pc = "reap" /\ r.op = "reap"
          /\ r.obj = None /\ r.todo = {}
      BY DEF Idle, ThreadStates, PCs, Ops
    <2> HIDE DEF r
    <2>3. th'[t] = r  BY <2>1 DEF Inv, TypeOK
    <2>4. ThreadOK(t)'
      BY <2>2, <2>3 DEF ThreadOK, Launch, Starting, Deleting, Waiting
    <2> QED BY <1>1, <2>1, <2>2, <2>4, SelectStep
  <1> QED BY <1>2, <1>3

LEMMA EnvironmentInv == ASSUME Inv, Environment PROVE Inv'
  <1>1. CASE Crash \/ Reboot
    <2>1. /\ \A t \in Threads : th'[t] = Idle
          /\ th' \in [Threads -> ThreadStates]
      BY <1>1, IdleType DEF Crash, Reboot
    <2>2. UNCHANGED <<rowVars, slotVars>> /\ HostTyped
      BY <1>1 DEF Crash, Reboot, HostTyped, Inv, TypeOK, hostVars
    <2>3. TypeOK'
      BY <2>1, <2>2 DEF Inv, TypeOK, HostTyped, rowVars, slotVars
    <2>4. ASSUME NEW t \in Threads PROVE ThreadOK(t)' /\ NewIdOK(t)'
      BY <2>1 DEF Idle, ThreadOK, NewIdOK, Inserting, Launch, Starting,
                  Deleting, Waiting
    <2> QED BY <2>2, <2>3, <2>4, RowsUnchanged DEF Inv
  <1>2. ASSUME NEW n \in Names, ContainerExit(n) PROVE Inv'
    <2>1. UNCHANGED <<rowVars, slotVars, th>> /\ HostTyped
      BY <1>2 DEF ContainerExit, HostTyped, Inv, TypeOK
    <2>2. TypeOK'
      BY <2>1 DEF Inv, TypeOK, HostTyped, rowVars, slotVars
    <2>3. ASSUME NEW t \in Threads PROVE ThreadOK(t)' /\ NewIdOK(t)'
      BY <2>1 DEF Inv, ThreadOK, NewIdOK, Inserting, Refers, ObjectOK, Exists,
                  rowVars
    <2> QED BY <2>1, <2>2, <2>3, RowsUnchanged DEF Inv
  <1> QED BY <1>1, <1>2 DEF Environment

LEMMA LeaseInv == ASSUME Inv, NEW t \in Threads, Lease(t) PROVE Inv'
  <1> DEFINE o == th[t].obj
             n == Leased(o, th[t].slot)
             p == th[t].proj
             w == o.id
  <1>1. /\ o \in Objects /\ w \in Ids /\ o # None /\ p \in Projects
        /\ th[t].slot \in Slots /\ th[t].op = "start"
        /\ project[w] \in {p, None} /\ th[t].pc = "lease"
    BY AtWork DEF Lease, At, Launch, Starting, Waiting
  <1>2. CASE Rejected(o, n, p)
    BY <1>2, HostUnchanged, FinishStep DEF Lease
  <1>3. CASE ~Rejected(o, n, p)
    <2>1. /\ n \in Objects /\ n.id = w /\ n.status = "STARTING"
          /\ n.ctr = None /\ n # None
      BY <1>1, NoneIsNone DEF Leased, Objects, Statuses, ActiveStates
    <2>2. /\ Write(o, n) /\ project' = [project EXCEPT ![w] = p]
          /\ last' = [last EXCEPT ![p] = w]
          /\ SetSlot(th[t].slot, TRUE, w) /\ Load(t, "refresh", n)
          /\ UNCHANGED <<hostVars, up>>
      BY <1>3 DEF Lease
    <2>3. o.status # "ABSENT" => Exists(w) /\ project' = project
      BY <1>1, <1>3, <2>2 DEF Rejected, Inv, RowOK, TypeOK
    <2> HIDE DEF n
    <2>4. Moved(t, "refresh", n)  BY <2>1, <2>2, LoadMoves DEF Inv, PCs
    <2>5. TypeOK'
      BY <1>1, <2>1, <2>2, <2>4
      DEF Inv, TypeOK, Moved, Others, Write, SetSlot, hostVars, Objects
    <2>6. ASSUME NEW x \in Ids PROVE RowOK(x)'
      <3>1. CASE x # w
        BY <1>1, <2>2, <3>1 DEF Inv, TypeOK, RowOK, Exists, Write
      <3>2. CASE x = w
        <4>1. project'[w] # None
          BY <1>1, <2>2, NoneIsNone DEF Inv, TypeOK
        <4>2. status'[w] # "ABSENT"
          BY <1>1, <2>1, <2>2, <2>3 DEF Inv, TypeOK, Write, Exists
        <4>3. ctrName'[w] \in {ctrName[w], None}
          BY <1>1, <2>1, <2>2 DEF Inv, TypeOK, Write
        <4> QED BY <3>2, <4>1, <4>2, <4>3 DEF Inv, RowOK, Exists
      <3> QED BY <3>1, <3>2
    <2>7. ThreadOK(t)' /\ NewIdOK(t)'
      <3>1. ThreadOK(t)  BY DEF Inv
      <3>2. project'[w] = p  BY <1>1, <2>2 DEF Inv, TypeOK
      <3>3. ThreadOK(t)'
        BY <1>1, <2>1, <2>4, <3>1, <3>2
        DEF ThreadOK, Moved, ObjectOK, Launch, Starting, Deleting, Waiting
      <3> QED BY <2>1, <2>4, <3>3 DEF NewIdOK, Inserting, Moved
    <2>8. ASSUME NEW u \in Threads, u # t PROVE ThreadOK(u)' /\ NewIdOK(u)'
      <3>1. th'[u] = th[u] /\ ThreadOK(u) /\ NewIdOK(u)
        BY <2>4, <2>8 DEF Moved, Others, Inv
      <3>2. \A x : Refers(t, x)' <=> Refers(t, x)
        BY <1>1, <2>1, <2>4 DEF Refers, Moved
      <3>3. ASSUME th[u].obj # None
            PROVE  project'[th[u].obj.id] = project[th[u].obj.id]
        <4>1. th[u].obj.id \in Ids  BY <3>3, ObjectTypes DEF Inv
        <4>2. CASE th[u].obj.id = w
          <5>1. ~Inserting(t, w)
            BY <1>1, <2>8, <3>3, <4>2 DEF Inv, NewIdOK, Refers
          <5> QED BY <1>1, <2>3, <5>1 DEF Inserting
        <4>3. CASE th[u].obj.id # w
          BY <1>1, <2>2, <4>1, <4>3 DEF Inv, TypeOK
        <4> QED BY <4>2, <4>3
      <3>4. ThreadOK(u)'  BY <3>1, <3>3 DEF ThreadOK, ObjectOK
      <3>5. NewIdOK(u)'
        <4> SUFFICES ASSUME NEW x \in Ids, Inserting(u, x)'
            PROVE  ~Exists(x)' /\ \A v \in Threads \ {u} : ~Refers(v, x)'
          BY DEF NewIdOK
        <4>1. ~Exists(x) /\ \A v \in Threads \ {u} : ~Refers(v, x)
          BY <3>1 DEF NewIdOK, Inserting
        <4>2. x # w  BY <1>1, <2>8, <4>1 DEF Refers
        <4>3. ~Exists(x)'
          BY <1>1, <2>2, <4>1, <4>2 DEF Inv, TypeOK, Write, Exists
        <4>4. ASSUME NEW v \in Threads \ {u} PROVE ~Refers(v, x)'
          <5>1. CASE v = t  BY <3>2, <4>1, <5>1
          <5>2. CASE v # t
            BY <2>4, <4>1, <5>2 DEF Moved, Others, Refers
          <5> QED BY <5>1, <5>2
        <4> QED BY <4>3, <4>4
      <3> QED BY <3>4, <3>5
    <2> QED BY <2>5, <2>6, <2>7, <2>8 DEF Inv
  <1> QED BY <1>2, <1>3

LEMMA NextInv == Inv /\ [Next]_vars => Inv'
  <1> SUFFICES ASSUME Inv, [Next]_vars PROVE Inv'  OBVIOUS
  <1>1. ASSUME NEW t \in Requests, Arrival(t) PROVE Inv'
    <2>1. t \in Threads  BY DEF Threads
    <2> QED BY <1>1, <2>1, StartSelectInv, StopSelectInv, StopAllSelectInv
            DEF Arrival
  <1>2. ASSUME NEW t \in Threads, StartStep(t) PROVE Inv'
    BY <1>2, StartProbeInv, PickInv, NoCapacityInv, LeaseInv, RefreshInv,
       PrepareInv, RunInv, WaitInv, CommitInv, ConfirmInv, ExceptInv, FailInv
    DEF StartStep
  <1>3. ASSUME NEW t \in Threads, ReleaseStep(t) \/ DeleteStep(t) PROVE Inv'
    BY <1>3, MarkInv, RemoveInv, FreeInv, PurgeInv, EraseInv
    DEF ReleaseStep, DeleteStep
  <1>4. ASSUME NEW t \in Threads, LoopStep(t) PROVE Inv'
    BY <1>4, ReleaseNextInv, KeepNextInv, LoopEndInv DEF LoopStep
  <1>5. CASE UNCHANGED vars
    <2>1. UNCHANGED <<rowVars, slotVars, hostVars, up, th>>
      BY <1>5 DEF vars
    <2>2. TypeOK'
      BY <2>1 DEF Inv, TypeOK, rowVars, slotVars, hostVars
    <2>3. ASSUME NEW t \in Threads PROVE ThreadOK(t)' /\ NewIdOK(t)'
      BY <2>1 DEF Inv, ThreadOK, NewIdOK, Inserting, Refers, ObjectOK, Exists,
                  rowVars
    <2> QED BY <2>1, <2>2, <2>3, RowsUnchanged DEF Inv
  <1> QED BY <1>1, <1>2, <1>3, <1>4, <1>5, KeeperInv, TimeoutInv, EnvironmentInv
          DEF Next, ThreadStep

-----------------------------------------------------------------------------
(* The theorems *)

\* The variables keep their types: whatever handlers overlap and whatever
\* fails, a thread that is at work has loaded a row, a launch has a slot, and
\* a loaded row names no container of another workspace.
THEOREM Invariance == Spec => []Inv
  BY InitInv, NextInv, PTL DEF Spec

\* The columns of the two tables, the containers and the threads' local state
\* stay within their types, for every set of projects, ids and threads.
THEOREM TypeCorrect == Spec => []TypeOK
  <1>1. Inv => TypeOK  BY DEF Inv
  <1> QED BY <1>1, Invariance, PTL

\* Removing a container that a loaded object names.
LEMMA OwnRemoved ==
  ASSUME Inv, NEW t \in Threads, th[t].obj # None, NEW m,
         m = th[t].obj.ctr \/ m = RuntimeName(t),
         podman' \in {podman, Removed(m)}
  PROVE  RemovesOwnOnly
  <1> SUFFICES ASSUME NEW n \in Names, podman[n] = "running", podman'[n] = "none"
      PROVE  n[2] = th[t].obj.id /\ project[n[2]] \in {th[t].proj, None}
    BY DEF RemovesOwnOnly
  <1>1. m # None /\ n = m  BY DEF Removed, Inv, TypeOK
  <1>2. /\ ObjectOK(th[t].obj)
        /\ project[th[t].obj.id] \in {th[t].proj, None}
    BY DEF Inv, ThreadOK
  <1>3. m[2] = th[t].obj.id  BY <1>1, <1>2 DEF ObjectOK, RuntimeName
  <1> QED BY <1>1, <1>2, <1>3

\* A step that removes no running container.
LEMMA NoneRemoved ==
  ASSUME Inv, \A n \in Names : podman[n] = "running" => podman'[n] # "none"
  PROVE  RemovesOwnOnly
  BY DEF RemovesOwnOnly

LEMMA RemovesOwn == Inv /\ [Next]_vars => RemovesOwnOnly
  <1> SUFFICES ASSUME Inv, [Next]_vars PROVE RemovesOwnOnly  OBVIOUS
  <1>1. CASE UNCHANGED podman  BY <1>1, NoneRemoved
  <1>2. ASSUME NEW t \in Threads, StartStep(t) PROVE RemovesOwnOnly
    <2>1. CASE Prepare(t) \/ NotReady(t) \/ Except(t)
      <3>1. th[t].obj # None
        BY <2>1, AtWork DEF Prepare, NotReady, Except, At, Waiting
      <3> QED BY <2>1, <3>1, OwnRemoved DEF Prepare, NotReady, Except, Rm
    <2>2. CASE Run(t) \/ RunFails(t)
      BY <2>2, NoneRemoved DEF Run, RunFails, Inv, TypeOK
    <2> QED BY <1>1, <1>2, <2>1, <2>2
            DEF StartStep, StartProbe, Pick, NoCapacity, Lease, Refresh, Ready,
                Commit, Confirm, Fail, hostVars
  <1>3. ASSUME NEW t \in Threads, ReleaseStep(t) PROVE RemovesOwnOnly
    <2>1. CASE Remove(t)
      <3>1. th[t].obj # None  BY <2>1, AtWork DEF Remove, At, Waiting
      <3> QED BY <2>1, <3>1, OwnRemoved DEF Remove, Rm
    <2> QED BY <1>1, <1>3, <2>1 DEF ReleaseStep, Mark, Free, hostVars
  <1>4. ASSUME NEW t \in Threads, TimeoutStep(t) PROVE RemovesOwnOnly
    <2>1. CASE RemoveTimesOut(t)
      <3>1. th[t].obj # None  BY <2>1, AtWork DEF RemoveTimesOut, Waiting
      <3> QED BY <2>1, <3>1, OwnRemoved DEF RemoveTimesOut
    <2>2. CASE LaunchTimesOut(t) /\ ~At(t, "run")
      <3>1. th[t].obj # None  BY <2>2, AtWork DEF LaunchTimesOut, Waiting
      <3> QED BY <2>2, <3>1, OwnRemoved DEF LaunchTimesOut
    <2>3. CASE LaunchTimesOut(t) /\ At(t, "run")
      BY <2>3, NoneRemoved DEF LaunchTimesOut, Inv, TypeOK
    <2> QED BY <1>1, <1>4, <2>1, <2>2, <2>3
            DEF TimeoutStep, InspectTimesOut, hostVars
  <1>5. CASE Environment
    BY <1>5, <1>1, NoneRemoved
    DEF Environment, Crash, Reboot, ContainerExit, hostVars, Inv, TypeOK
  <1>6. CASE UNCHANGED vars  BY <1>1, <1>6 DEF vars, hostVars
  <1>7. ASSUME NEW t \in Requests, Arrival(t) PROVE RemovesOwnOnly
    BY <1>1, <1>7
    DEF Arrival, StartSelect, StopSelect, DeleteSelect, StopAllSelect, hostVars
  <1>8. ASSUME NEW t \in Threads, DeleteStep(t) \/ LoopStep(t)
        PROVE  RemovesOwnOnly
    BY <1>1, <1>8
    DEF DeleteStep, LoopStep, Purge, PurgeFails, Erase, ReleaseNext, KeepNext,
        LoopEnd, hostVars
  <1>9. CASE Boot \/ Reconcile \/ ReapSelect
    BY <1>1, <1>9 DEF Boot, Reconcile, ReapSelect, hostVars
  <1> QED BY <1>2, <1>3, <1>4, <1>5, <1>6, <1>7, <1>8, <1>9
          DEF Next, ThreadStep

\* One project's operations never remove another project's running container:
\* start clears the name <slot, id> of its own row, and a release removes the
\* container_name of a row it has loaded, which names a container of that row.
THEOREM Isolation == Spec => RuntimeIsolation
  BY Invariance, RemovesOwn, PTL DEF Spec, RuntimeIsolation

-----------------------------------------------------------------------------
(***************************************************************************)
(* The leases.  In a behaviour that keeps the discipline (OrderlySpec) the *)
(* slot table and the rows agree in every state, whatever fails around the *)
(* control plane.                                                          *)
(*                                                                         *)
(* Three layers, each inductive on top of those before it.  LInv: threads  *)
(* work on disjoint projects (Apart), a thread at work holds its row as it *)
(* is (Task), and the two tables agree (LeaseExact).  HInv adds the host:  *)
(* who listens on a slot's port, which secrets exist, and what is left of  *)
(* the startup reconciliation.  PInv adds, when no podman command fails or *)
(* hangs and the process is not killed, that nothing is left running.      *)
(***************************************************************************)

(* The rows and the threads *)

Working(t) == th[t].pc \notin Waiting

\* Before startup is over there is the startup reconciliation and nothing else.
BootOK ==
    \A t \in Threads :
        /\ At(t, "idle") => th[t] = Idle
        /\ ~up => th[t] = Idle \/ th[t].op = "boot"
        /\ th[t].op = "boot" => t = Keeper /\ ~up
        /\ At(t, "reap") => th[t].op = "reap"

\* A project has one row.
OneRow == \A v, w \in Ids : project[v] = project[w] /\ project[v] # None => v = w

\* A row names no container before its runtime is ready, then the one of its
\* slot.
RowLease(w) ==
    /\ status[w] = "STARTING" => ctrName[w] = None
    /\ status[w] = "RUNNING" => ctrName[w] = <<slotId[w], w>>
    /\ Active(w) => ctrName[w] \in {None, <<slotId[w], w>>}

\* The statuses a row in hand can have at each place.
StatusAt(pc) ==
    CASE pc = "probe" -> {"STARTING", "RUNNING"}
      [] pc \in {"pick", "lease"} -> {"ABSENT", "STOPPED", "ERROR"}
      [] pc \in Launch \ {"lease", "confirm"} -> {"STARTING"}
      [] pc = "confirm" -> {"RUNNING"}
      [] pc = "mark" -> ActiveStates
      [] pc \in {"remove", "free"} -> {"STOPPING"}
      [] OTHER -> {"STOPPED", "ERROR"}

\* The row in hand is as it was loaded or written, and belongs to the project.
Task(t) ==
    LET r == th[t]
        w == r.obj.id
    IN  Working(t) =>
        /\ r.proj # None
        /\ r.obj = Row(w)
        /\ IF r.obj.status = "ABSENT" THEN RowsOf(r.proj) = {}
                                      ELSE project[w] = r.proj
        /\ r.obj.status \in StatusAt(r.pc)
        /\ r.pc \in Launch \ {"lease"} => slotId[w] = r.slot
        /\ r.pc = "lease" => ~inUse[r.slot]

\* The rows to come are as they were loaded, and in use.
TodoOK(t) ==
    \A o \in th[t].todo :
        /\ o = Row(o.id) /\ Active(o.id)
        /\ Working(t) => o.id # th[t].obj.id
        /\ th[t].op \notin {"start", "stop", "delete"}

\* A slot that is being leased is locked.
LocksOK == \A t, u \in Threads :
              At(t, "lease") /\ At(u, "lease") /\ th[t].slot = th[u].slot => t = u

LInv == /\ BootOK /\ Apart /\ OneRow /\ LocksOK /\ LeaseExact
        /\ \A w \in Ids : RowLease(w)
        /\ \A t \in Threads : Task(t) /\ TodoOK(t)

-----------------------------------------------------------------------------
(* The host *)

\* A port is one container's.
OnePort == \A s \in Slots, v, w \in Ids :
              Running(<<s, v>>) /\ Running(<<s, w>>) => v = w

OwnPort(s, w) == \A v \in Ids : Running(<<s, v>>) => v = w

SecretOK ==
    /\ \A w \in Ids : status[w] = "RUNNING" => project[w] \in secrets
    /\ \A t \in Threads : th[t].pc \in {"run", "wait", "commit"} =>
                             th[t].proj \in secrets

PortsOK ==
    /\ \A w \in Ids : status[w] = "RUNNING" => OwnPort(slotId[w], w)
    /\ \A t \in Threads : At(t, "commit") => OwnPort(th[t].slot, th[t].obj.id)

\* What startup has been through is RUNNING or no longer active.
BootLeft ==
    th[Keeper].op = "boot" =>
        \A w \in Ids : Active(w) =>
            \/ status[w] = "RUNNING"
            \/ Working(Keeper) /\ th[Keeper].obj.id = w
            \/ \E o \in th[Keeper].todo : o.id = w

HInv == OnePort /\ SecretOK /\ PortsOK /\ BootLeft

-----------------------------------------------------------------------------
(* What is left running *)

\* Every podman command ends and does what it is told, and the process is not
\* killed while a handler is at work.
Tidy == Faults \cap {"rm", "hang", "crash"} = {}

\* A running container belongs to an active row that leases its slot, and is
\* recorded there or about to be.
Leaseholder(s, w) ==
    /\ leasedTo[s] = w /\ Active(w) /\ slotId[w] = s
    /\ \/ ctrName[w] = <<s, w>>
       \/ \E t \in Threads : th[t].pc \in {"wait", "commit"} /\ th[t].obj.id = w

PInv == /\ \A s \in Slots, w \in Ids : Running(<<s, w>>) => Leaseholder(s, w)
        /\ \A t \in Threads : At(t, "free") => ~Running(th[t].obj.ctr)

-----------------------------------------------------------------------------
(* Rows, slots and threads: the frame of a step *)

\* The row of w alone changes.
RowsBut(w) ==
    \A v \in Ids \ {w} : /\ status'[v] = status[v] /\ slotId'[v] = slotId[v]
                         /\ ctrName'[v] = ctrName[v] /\ project'[v] = project[v]

\* A step of t reaches the row in hand and, from a lease, the slot in hand.
Frame(t) ==
    \/ UNCHANGED <<rowVars, slotVars>>
    \/ /\ Working(t) /\ RowsBut(th[t].obj.id)
       /\ project'[th[t].obj.id] \in {project[th[t].obj.id], th[t].proj, None}
       /\ \A s \in Slots : inUse'[s] => \/ inUse[s]
                                        \/ At(t, "lease") /\ s = th[t].slot

LEMMA InHand ==
  ASSUME Inv, NEW t \in Threads, Task(t), Working(t)
  PROVE  /\ th[t].obj \in Objects /\ th[t].obj.id \in Ids
         /\ th[t].obj = Row(th[t].obj.id)
         /\ th[t].obj.status = status[th[t].obj.id]
         /\ th[t].obj.slot = slotId[th[t].obj.id]
         /\ th[t].obj.ctr = ctrName[th[t].obj.id]
         /\ th[t].proj \in Projects
         /\ th[t].obj.status # "ABSENT" => project[th[t].obj.id] = th[t].proj
         /\ th[t].obj.status = "ABSENT" => Inserting(t, th[t].obj.id)
  <1>1. th[t].obj # None /\ th[t].obj \in Objects /\ th[t].obj.id \in Ids
    BY AtWork DEF Working
  <1>2. th[t].proj \in Projects
    BY ObjectTypes DEF Task, Inv, ThreadStates
  <1>3. th[t].obj = Row(th[t].obj.id)  BY DEF Task
  <1>4. /\ th[t].obj.status = status[th[t].obj.id]
        /\ th[t].obj.slot = slotId[th[t].obj.id]
        /\ th[t].obj.ctr = ctrName[th[t].obj.id]
    BY <1>3 DEF Row
  <1> QED BY <1>1, <1>2, <1>3, <1>4 DEF Task, Inserting

\* The row in hand is nobody else's.
LEMMA Private ==
  ASSUME Inv, LInv, NEW t \in Threads, NEW u \in Threads, t # u, Working(t)
  PROVE  /\ Working(u) => th[u].obj.id # th[t].obj.id
         /\ \A o \in th[u].todo : o.id # th[t].obj.id
  <1> DEFINE w == th[t].obj.id
  <1>1. Task(t) /\ Task(u) /\ TodoOK(u)  BY DEF LInv
  <1>2. w \in Ids /\ th[t].proj \in Projects /\ th[t].proj # None
    BY <1>1, InHand, NoneIsNone
  <1>3. CASE th[t].obj.status = "ABSENT"
    <2>1. ~Refers(u, w)  BY <1>1, <1>2, <1>3, InHand DEF Inv, NewIdOK
    <2> QED BY <2>1, AtWork DEF Refers, Working
  <1>4. CASE th[t].obj.status # "ABSENT"
    <2>1. project[w] = th[t].proj /\ th[t].proj \notin Touches(u)
      BY <1>1, <1>2, <1>4, InHand DEF LInv, Apart, Touches
    <2>2. ASSUME NEW o \in th[u].todo PROVE o.id # w
      BY <2>1 DEF Touches
    <2>3. ASSUME Working(u) PROVE th[u].obj.id # w
      <3>1. CASE th[u].obj.status = "ABSENT"
        <4>1. Inserting(u, th[u].obj.id) /\ th[u].obj.id \in Ids
          BY <1>1, <2>3, <3>1, InHand
        <4>2. ~Refers(t, th[u].obj.id)  BY <4>1 DEF Inv, NewIdOK
        <4> QED BY <4>2, AtWork DEF Refers, Working
      <3>2. CASE th[u].obj.status # "ABSENT"
        BY <1>1, <2>1, <2>3, <3>2, InHand DEF Touches
      <3> QED BY <3>1, <3>2
    <2> QED BY <2>2, <2>3
  <1> QED BY <1>3, <1>4

LEMMA OthersKept ==
  ASSUME Inv, LInv, NEW t \in Threads, Others(t), Frame(t),
         NEW u \in Threads, u # t
  PROVE  Task(u)' /\ TodoOK(u)' /\ Touches(u)' = Touches(u)
  <1>0. th'[u] = th[u] /\ Task(u) /\ TodoOK(u)  BY DEF Others, LInv
  <1>1. CASE UNCHANGED <<rowVars, slotVars>>
    BY <1>0, <1>1
    DEF Task, TodoOK, Touches, Working, Row, RowsOf, Active, rowVars, slotVars
  <1>2. CASE ~UNCHANGED <<rowVars, slotVars>>
    <2> DEFINE w == th[t].obj.id
    <2>1. /\ Working(t) /\ RowsBut(w)
          /\ project'[w] \in {project[w], th[t].proj, None}
          /\ \A s \in Slots : inUse'[s] => \/ inUse[s]
                                           \/ At(t, "lease") /\ s = th[t].slot
      BY <1>2 DEF Frame
    <2>2. /\ Working(u) => th[u].obj.id # w
          /\ \A o \in th[u].todo : o.id # w /\ o.id \in Ids
      BY <2>1, Private, ObjectTypes DEF Inv
    <2>3. TodoOK(u)' /\ Touches(u)' = Touches(u)
      <3>1. \A o \in th[u].todo : /\ project'[o.id] = project[o.id]
                                  /\ status'[o.id] = status[o.id]
                                  /\ slotId'[o.id] = slotId[o.id]
                                  /\ ctrName'[o.id] = ctrName[o.id]
        BY <2>1, <2>2 DEF RowsBut
      <3>2. TodoOK(u)'
        BY <1>0, <3>1 DEF TodoOK, Row, Active, Working
      <3> QED BY <1>0, <3>1, <3>2 DEF Touches
    <2>4. Task(u)'
      <3> SUFFICES ASSUME Working(u) PROVE Task(u)'
        BY <1>0 DEF Task, Working
      <3> DEFINE v == th[u].obj.id
      <3>1. /\ v \in Ids /\ th[u].proj \in Projects /\ v # w
        BY <1>0, <2>2, InHand
      <3>2. /\ project'[v] = project[v] /\ status'[v] = status[v]
            /\ slotId'[v] = slotId[v] /\ ctrName'[v] = ctrName[v]
        BY <2>1, <3>1 DEF RowsBut
      <3>3. Row(v)' = Row(v)  BY <1>0, <3>2 DEF Row
      <3>4. ASSUME RowsOf(th[u].proj) = {} PROVE RowsOf(th[u].proj)' = {}
        <4>1. th[t].proj \in Touches(t) /\ th[u].proj \in Touches(u)
          BY DEF Touches
        <4>2. th[t].proj # th[u].proj /\ th[u].proj # None
          BY <3>1, <4>1, NoneIsNone DEF LInv, Apart
        <4> QED BY <1>0, <2>1, <3>4, <4>2 DEF RowsOf, RowsBut
      <3>5. ASSUME th[u].pc = "lease" PROVE ~inUse'[th[u].slot]
        <4>1. th[u].slot \in Slots  BY <3>5, AtWork DEF Launch
        <4>2. ~inUse[th[u].slot]  BY <1>0, <3>5 DEF Task, Working
        <4> QED BY <2>1, <3>5, <4>1, <4>2 DEF LInv, LocksOK, At
      <3> QED BY <1>0, <3>2, <3>3, <3>4, <3>5 DEF Task
    <2> QED BY <2>3, <2>4
  <1> QED BY <1>1, <1>2

\* A step of one thread, from what it does to the thread and to the tables.
LEMMA StepL ==
  ASSUME Inv, LInv, NEW t \in Threads, Others(t), Frame(t),
         Task(t)', TodoOK(t)', BootOK',
         \A u \in Threads \ {t} : Touches(t)' \cap Touches(u) \subseteq {None},
         At(t, "lease")' => \A u \in Threads \ {t} :
                               At(u, "lease") => th[u].slot # th'[t].slot,
         OneRow', LeaseExact', \A w \in Ids : RowLease(w)'
  PROVE  LInv'
  <1>1. ASSUME NEW u \in Threads PROVE Task(u)' /\ TodoOK(u)'
    BY <1>1, OthersKept
  <1>2. Apart'
    <2>1. ASSUME NEW u \in Threads, NEW v \in Threads, u # v
          PROVE  Touches(u)' \cap Touches(v)' \subseteq {None}
      <3>1. \A x \in Threads \ {t} : Touches(x)' = Touches(x)  BY OthersKept
      <3> QED BY <2>1, <3>1 DEF LInv, Apart
    <2> QED BY <2>1 DEF Apart
  <1>3. LocksOK'
    BY DEF LInv, LocksOK, Others, At
  <1> QED BY <1>1, <1>2, <1>3 DEF LInv

-----------------------------------------------------------------------------
(* What the writes do to the leases *)

\* A row stays active with its slot, or stays inactive.
LEMMA KeepsLeases ==
  ASSUME LeaseExact, NEW w \in Ids, RowsBut(w), UNCHANGED slotVars,
         Active(w)' <=> Active(w), Active(w) => slotId'[w] = slotId[w]
  PROVE  LeaseExact'
  <1>1. \A v \in Ids : /\ Active(v)' <=> Active(v)
                       /\ Active(v) => slotId'[v] = slotId[v]
    BY DEF RowsBut, Active
  <1> QED BY <1>1 DEF LeaseExact, slotVars

\* An active row gives back the slot it holds.
LEMMA ReturnsLease ==
  ASSUME TypeOK, LeaseExact, NEW w \in Ids, RowsBut(w),
         Active(w), ~Active(w)', ReturnSlot(slotId[w])
  PROVE  LeaseExact'
  <1>1. \A v \in Ids \ {w} : /\ Active(v)' <=> Active(v)
                             /\ slotId'[v] = slotId[v]
                             /\ Active(v) => slotId[v] # slotId[w]
    BY DEF RowsBut, Active, LeaseExact
  <1>2. slotId[w] \in Slots /\ inUse \in [Slots -> BOOLEAN]
    BY DEF LeaseExact, TypeOK
  <1>3. /\ \A s \in Slots \ {slotId[w]} : inUse'[s] = inUse[s] /\ leasedTo'[s] = leasedTo[s]
        /\ inUse'[slotId[w]] = FALSE
    BY <1>2 DEF ReturnSlot, SetSlot, TypeOK
  <1>4. ASSUME NEW s \in Slots
        PROVE  inUse'[s] <=> \E v \in Ids : Active(v)' /\ slotId'[v] = s
    <2>1. CASE s = slotId[w]  BY <1>1, <1>3, <2>1
    <2>2. CASE s # slotId[w]
      <3>1. inUse[s] <=> \E v \in Ids : Active(v) /\ slotId[v] = s
        BY DEF LeaseExact
      <3> QED BY <1>1, <1>3, <2>2, <3>1
    <2> QED BY <2>1, <2>2
  <1>5. ASSUME NEW v \in Ids, Active(v)'
        PROVE  slotId'[v] # NoSlot /\ leasedTo'[slotId'[v]] = v
    <2>1. v # w /\ Active(v)  BY <1>1, <1>5
    <2>2. slotId[v] \in Slots /\ leasedTo[slotId[v]] = v /\ slotId[v] # NoSlot
      BY <2>1 DEF LeaseExact, TypeOK
    <2> QED BY <1>1, <1>3, <2>1, <2>2
  <1> QED BY <1>4, <1>5 DEF LeaseExact, Active

\* An inactive row is given a slot that is not in use.
LEMMA TakesLease ==
  ASSUME TypeOK, LeaseExact, NEW w \in Ids, NEW s \in Slots, RowsBut(w),
         ~Active(w), Active(w)', slotId'[w] = s, ~inUse[s], SetSlot(s, TRUE, w)
  PROVE  LeaseExact'
  <1>1. \A v \in Ids \ {w} : /\ Active(v)' <=> Active(v)
                             /\ slotId'[v] = slotId[v]
                             /\ Active(v) => slotId[v] # s
    BY DEF RowsBut, Active, LeaseExact
  <1>2. /\ \A r \in Slots \ {s} : inUse'[r] = inUse[r] /\ leasedTo'[r] = leasedTo[r]
        /\ inUse'[s] = TRUE /\ leasedTo'[s] = w
    BY DEF SetSlot, TypeOK
  <1>3. ASSUME NEW r \in Slots
        PROVE  inUse'[r] <=> \E v \in Ids : Active(v)' /\ slotId'[v] = r
    <2>1. CASE r = s  BY <1>2, <2>1
    <2>2. CASE r # s
      <3>1. inUse[r] <=> \E v \in Ids : Active(v) /\ slotId[v] = r
        BY DEF LeaseExact
      <3> QED BY <1>1, <1>2, <2>2, <3>1
    <2> QED BY <2>1, <2>2
  <1>4. ASSUME NEW v \in Ids, Active(v)'
        PROVE  slotId'[v] # NoSlot /\ leasedTo'[slotId'[v]] = v
    <2>1. CASE v = w  BY <1>2, <2>1 DEF Slots, NoSlot
    <2>2. CASE v # w
      <3>1. slotId[v] \in Slots /\ leasedTo[slotId[v]] = v /\ slotId[v] # NoSlot
        BY <1>1, <1>4, <2>2 DEF LeaseExact, TypeOK
      <3> QED BY <1>1, <1>2, <1>4, <2>2, <3>1
    <2> QED BY <2>1, <2>2
  <1> QED BY <1>3, <1>4 DEF LeaseExact, Active

\* What a row may be written as.
RowIs(w, n) == /\ status'[w] = n.status /\ slotId'[w] = n.slot
               /\ ctrName'[w] = n.ctr
LeaseOf(n) ==
    /\ n.status = "STARTING" => n.ctr = None
    /\ n.status = "RUNNING" => n.ctr = <<n.slot, n.id>>
    /\ n.status \in ActiveStates => n.ctr \in {None, <<n.slot, n.id>>}

LEMMA RowLeases ==
  ASSUME LInv, NEW w \in Ids, RowsBut(w), NEW n, RowIs(w, n), n.id = w, LeaseOf(n)
  PROVE  \A v \in Ids : RowLease(v)'
  <1> TAKE v \in Ids
  <1>1. CASE v = w  BY <1>1 DEF RowLease, RowIs, LeaseOf, Active
  <1>2. CASE v # w  BY <1>2 DEF RowLease, RowsBut, Active, LInv
  <1> QED BY <1>1, <1>2

\* The object in hand is the row, so a flush makes the row what the object is.
LEMMA Written ==
  ASSUME Inv, LInv, NEW t \in Threads, Working(t), NEW n \in Objects,
         n.id = th[t].obj.id, Write(th[t].obj, n)
  PROVE  /\ RowIs(th[t].obj.id, n)
         /\ UNCHANGED project => RowsBut(th[t].obj.id)
         /\ \A v \in Ids \ {th[t].obj.id} : /\ status'[v] = status[v]
                                            /\ slotId'[v] = slotId[v]
                                            /\ ctrName'[v] = ctrName[v]
  <1>1. Task(t) /\ th[t].obj.id \in Ids  BY InHand DEF LInv
  <1>2. /\ th[t].obj.status = status[th[t].obj.id]
        /\ th[t].obj.slot = slotId[th[t].obj.id]
        /\ th[t].obj.ctr = ctrName[th[t].obj.id]
    BY <1>1, InHand
  <1> QED BY <1>1, <1>2 DEF Inv, TypeOK, Write, RowIs, RowsBut

\* No flush is refused: the row exists, and no other row of the project does.
LEMMA Accepted ==
  ASSUME Inv, LInv, NEW t \in Threads, Working(t), NEW n
  PROVE  /\ ~Rejected(th[t].obj, n, th[t].proj)
         /\ th[t].obj.status # "ABSENT" =>
               ~Rejected(th[t].obj, n, project[th[t].obj.id])
  <1> DEFINE w == th[t].obj.id
  <1>1. Task(t)  BY DEF LInv
  <1>2. /\ w \in Ids /\ th[t].proj \in Projects /\ th[t].proj # None
        /\ th[t].obj.status = status[w]
        /\ th[t].obj.status # "ABSENT" => project[w] = th[t].proj
    BY <1>1, InHand, NoneIsNone
  <1>3. \A x \in Ids \ {w} : project[x] # th[t].proj
    BY <1>1, <1>2 DEF Task, RowsOf, LInv, OneRow
  <1> QED BY <1>2, <1>3 DEF Rejected, ViolatesIndex, Exists

-----------------------------------------------------------------------------
(* Steps of a thread at work, by their shape *)

\* What a step leaves of the tables: one row a project, the leases in order.
Tables == OneRow /\ LeaseExact /\ \A w \in Ids : RowLease(w)

LEMMA TablesUnchanged ==
  ASSUME LInv, UNCHANGED <<rowVars, slotVars>>
  PROVE  Tables'
  BY DEF LInv, Tables, OneRow, LeaseExact, RowLease, Active, rowVars, slotVars

\* t goes on with the object n, the row as it is by now.
LEMMA MoveL ==
  ASSUME Inv, LInv, NEW t \in Threads, Working(t), Frame(t), Tables', up' = up,
         NEW x \in PCs \ {"idle", "lease", "reap"}, NEW n, Moved(t, x, n),
         n.id = th[t].obj.id, Task(t)'
  PROVE  LInv'
  <1>1. Task(t) /\ TodoOK(t) /\ BootOK  BY DEF LInv
  <1>2. \A o \in th[t].todo : /\ o.id \in Ids /\ project'[o.id] = project[o.id]
                              /\ Row(o.id)' = Row(o.id)
    <2> TAKE o \in th[t].todo
    <2>1. o.id \in Ids /\ o.id # th[t].obj.id
      BY <1>1, ObjectTypes DEF TodoOK, Inv
    <2> QED BY <2>1 DEF Frame, RowsBut, Row, rowVars
  <1>3. TodoOK(t)'
    <2>1. \A o \in th[t].todo : o = [id |-> o.id, status |-> status'[o.id],
                                     slot |-> slotId'[o.id], ctr |-> ctrName'[o.id]]
      BY <1>1, <1>2 DEF TodoOK, Row
    <2>2. \A o \in th[t].todo : status'[o.id] = status[o.id]
      BY <1>2 DEF Row
    <2> QED BY <1>1, <2>1, <2>2 DEF TodoOK, Moved, Row, Active, Working
  <1>4. Touches(t)' = Touches(t)  BY <1>2 DEF Touches, Moved
  <1>5. BootOK'
    <2>1. th[t] # Idle  BY DEF Working, Waiting, Idle
    <2> QED BY <1>1, <2>1 DEF BootOK, Moved, Others, At
  <1>6. ~At(t, "lease")'  BY DEF Moved, At
  <1>7. Others(t)  BY DEF Moved
  <1> QED BY <1>3, <1>4, <1>5, <1>6, <1>7, StepL DEF Tables, LInv, Apart

\* t is done.
LEMMA IdleL ==
  ASSUME Inv, LInv, NEW t \in Threads, Frame(t), Tables', up' = up, Idled(t)
  PROVE  LInv'
  <1>1. BootOK'
    BY DEF LInv, BootOK, Idled, Others, At, Idle
  <1>2. Task(t)' /\ TodoOK(t)' /\ Touches(t)' = {None} /\ ~At(t, "lease")'
    BY DEF Idled, Idle, Task, TodoOK, Touches, Working, Waiting, At
  <1>3. Others(t)  BY DEF Idled
  <1> QED BY <1>1, <1>2, <1>3, StepL DEF Tables

LEMMA FinishL ==
  ASSUME Inv, LInv, NEW t \in Threads, Finish(t),
         UNCHANGED <<rowVars, slotVars, up>>
  PROVE  LInv'
  BY IdleL, FinishMoves, TablesUnchanged DEF Frame, Inv

LEMMA GotoL ==
  ASSUME Inv, LInv, NEW t \in Threads, Working(t),
         NEW x \in PCs \ ({"lease"} \cup Waiting), Goto(t, x),
         th[t].obj.status # "ABSENT", th[t].obj.status \in StatusAt(x),
         x \in Launch => th[t].slot = th[t].obj.slot,
         UNCHANGED <<rowVars, slotVars, up>>
  PROVE  LInv'
  <1>1. Moved(t, x, th[t].obj)  BY GotoMoves DEF Inv
  <1>2. Task(t)'
    <2>1. Task(t)  BY DEF LInv
    <2>2. th[t].obj.slot = slotId[th[t].obj.id]  BY <2>1, InHand
    <2> QED BY <1>1, <2>1, <2>2 DEF Task, Moved, Working, Row, rowVars, slotVars
  <1>3. x \in PCs \ {"idle", "lease", "reap"}  BY DEF Waiting
  <1> QED BY <1>1, <1>2, <1>3, MoveL, TablesUnchanged DEF Frame

\* A flush of the row in hand that inserts nothing.
LEMMA WriteL ==
  ASSUME Inv, LInv, NEW t \in Threads, Working(t), NEW n \in Objects,
         n.id = th[t].obj.id, Write(th[t].obj, n), LeaseOf(n), LeaseExact',
         \A s \in Slots : inUse'[s] => inUse[s], UNCHANGED <<project, up>>
  PROVE  Frame(t) /\ Tables'
  <1>1. th[t].obj.id \in Ids  BY AtWork DEF Working
  <1>2. RowsBut(th[t].obj.id) /\ RowIs(th[t].obj.id, n)  BY Written
  <1>3. \A v \in Ids : RowLease(v)'  BY <1>1, <1>2, RowLeases
  <1>4. OneRow'  BY DEF OneRow, LInv
  <1> QED BY <1>2, <1>3, <1>4 DEF Frame, Tables

LEMMA WriteMoveL ==
  ASSUME Inv, LInv, NEW t \in Threads, Working(t), NEW n \in Objects,
         n.id = th[t].obj.id, Write(th[t].obj, n), LeaseOf(n), LeaseExact',
         \A s \in Slots : inUse'[s] => inUse[s], UNCHANGED <<project, up>>,
         th[t].obj.status # "ABSENT", n.status # "ABSENT",
         NEW x \in PCs \ {"idle", "lease", "reap"}, Load(t, x, n),
         x \notin Waiting => n.status \in StatusAt(x),
         x \in Launch => n.slot = th[t].slot
  PROVE  LInv'
  <1>1. Moved(t, x, n)  BY LoadMoves DEF Inv
  <1>2. RowIs(th[t].obj.id, n)  BY Written
  <1>3. Task(t)'
    <2>1. Task(t)  BY DEF LInv
    <2>2. project[th[t].obj.id] = th[t].proj /\ th[t].proj # None
      BY <2>1 DEF Task
    <2>3. n = [id |-> n.id, status |-> n.status, slot |-> n.slot, ctr |-> n.ctr]
      BY DEF Objects
    <2> QED BY <1>1, <1>2, <2>2, <2>3 DEF Task, Moved, Working, Row, RowIs
  <1> QED BY <1>1, <1>3, WriteL, MoveL

LEMMA WriteIdleL ==
  ASSUME Inv, LInv, NEW t \in Threads, Working(t), NEW n \in Objects,
         n.id = th[t].obj.id, Write(th[t].obj, n), LeaseOf(n), LeaseExact',
         \A s \in Slots : inUse'[s] => inUse[s], UNCHANGED <<project, up>>,
         Finish(t)
  PROVE  LInv'
  BY WriteL, FinishMoves, IdleL DEF Inv

-----------------------------------------------------------------------------
(* The actions: a start *)

LEMMA StartProbeL ==
  ASSUME Inv, LInv, NEW t \in Threads, StartProbe(t) PROVE LInv'
  <1>1. Working(t) /\ Task(t) /\ th[t].pc = "probe"
    BY DEF StartProbe, At, Working, Waiting, LInv
  <1>2. th[t].obj.status \in {"STARTING", "RUNNING"}
    BY <1>1 DEF Task, StatusAt
  <1> QED BY <1>1, <1>2, FinishL, GotoL
          DEF StartProbe, PCs, Waiting, StatusAt, Launch, ActiveStates

LEMMA PickL == ASSUME Inv, LInv, NEW t \in Threads, Pick(t) PROVE LInv'
  <1> PICK s \in Slots :
          s \in FreeSlots /\ th' = [th EXCEPT ![t].pc = "lease", ![t].slot = s]
    BY DEF Pick, FreeSlots
  <1>1. /\ Others(t)
        /\ th'[t].obj = th[t].obj /\ th'[t].todo = th[t].todo
        /\ th'[t].op = th[t].op /\ th'[t].proj = th[t].proj
        /\ th'[t].pc = "lease" /\ th'[t].slot = s
    <2> DEFINE r == [th[t] EXCEPT !.pc = "lease", !.slot = s]
    <2>1. th' = [th EXCEPT ![t] = r]  OBVIOUS
    <2>2. /\ r \in ThreadStates
          /\ r.obj = th[t].obj /\ r.todo = th[t].todo
          /\ r.op = th[t].op /\ r.proj = th[t].proj
          /\ r.pc = "lease" /\ r.slot = s
      BY ObjectTypes DEF Inv, ThreadStates, PCs, FreeSlots
    <2> HIDE DEF r
    <2> QED BY <2>1, <2>2 DEF Inv, TypeOK, Others
  <1>2. /\ th[t].pc = "pick" /\ Working(t) /\ Task(t) /\ TodoOK(t) /\ BootOK
        /\ UNCHANGED <<rowVars, slotVars, up>>
    <2>1. th[t].pc = "pick" /\ UNCHANGED <<rowVars, slotVars, up>>
      BY DEF Pick, At
    <2> QED BY <2>1 DEF Working, Waiting, LInv
  <1>3. ~inUse[s] /\ \A u \in Threads : At(u, "lease") => th[u].slot # s
    BY DEF FreeSlots, Locked, At
  <1>4. Task(t)'
    <2>1. th[t].obj.status \in StatusAt("lease")
      BY <1>2 DEF Task, StatusAt, Launch
    <2>2. Row(th[t].obj.id)' = Row(th[t].obj.id) /\ RowsOf(th[t].proj)' = RowsOf(th[t].proj)
      BY <1>1, <1>2 DEF Row, RowsOf, rowVars
    <2> QED BY <1>1, <1>2, <1>3, <2>1, <2>2 DEF Task, Working, rowVars, slotVars
  <1>5. TodoOK(t)' /\ Touches(t)' = Touches(t)
    BY <1>1, <1>2 DEF TodoOK, Touches, Row, Active, Working, rowVars
  <1>6. BootOK'
    <2>1. th[t] # Idle  BY <1>2 DEF Idle
    <2> QED BY <1>1, <1>2, <2>1 DEF BootOK, Others, At
  <1>7. Frame(t)  BY <1>2 DEF Frame
  <1> QED BY <1>1, <1>2, <1>3, <1>4, <1>5, <1>6, <1>7, StepL, TablesUnchanged
          DEF Tables, LInv, Apart

\* The row in hand is written as n.
Flushed(t, n) ==
    /\ n \in Objects /\ n.id = th[t].obj.id
    /\ Write(th[t].obj, n) /\ RowIs(th[t].obj.id, n) /\ RowsBut(th[t].obj.id)

\* t has a row of this status in hand.
Holding(t, st) ==
    /\ Working(t) /\ Task(t) /\ th[t].obj \in Objects /\ th[t].obj.id \in Ids
    /\ th[t].obj.status = st /\ status[th[t].obj.id] = st
    /\ th[t].obj.slot = slotId[th[t].obj.id]
    /\ th[t].obj.ctr = ctrName[th[t].obj.id]
    /\ th[t].proj \in Projects /\ th[t].proj # None

LEMMA HoldsRow ==
  ASSUME Inv, LInv, NEW t \in Threads, Working(t)
  PROVE  \E st \in StatusAt(th[t].pc) : Holding(t, st)
  <1>1. Task(t)  BY DEF LInv
  <1>2. th[t].obj.status \in StatusAt(th[t].pc)  BY <1>1 DEF Task
  <1> QED BY <1>1, <1>2, InHand, NoneIsNone DEF Holding

LEMMA LaunchHolds ==
  ASSUME Inv, LInv, NEW t \in Threads, th[t].pc \in Launch \ {"lease", "confirm"}
  PROVE  /\ Holding(t, "STARTING") /\ th[t].slot \in Slots
         /\ slotId[th[t].obj.id] = th[t].slot
         /\ project[th[t].obj.id] = th[t].proj
         /\ RuntimeName(t) \in Names
         /\ RuntimeName(t) = <<th[t].slot, th[t].obj.id>>
  <1>1. Working(t)  BY DEF Working, Waiting, Launch
  <1>2. StatusAt(th[t].pc) = {"STARTING"}  BY DEF StatusAt, Launch
  <1>3. Holding(t, "STARTING")  BY <1>1, <1>2, HoldsRow
  <1> QED BY <1>1, <1>3, AtWork DEF Holding, Task, RuntimeName

LEMMA LeaseDoes ==
  ASSUME Inv, LInv, NEW t \in Threads, Lease(t)
  PROVE  /\ th[t].pc = "lease" /\ th[t].slot \in Slots /\ ~inUse[th[t].slot]
         /\ th[t].op = "start"
         /\ \E st \in {"ABSENT", "STOPPED", "ERROR"} : Holding(t, st)
         /\ Flushed(t, Leased(th[t].obj, th[t].slot))
         /\ Leased(th[t].obj, th[t].slot).status = "STARTING"
         /\ Leased(th[t].obj, th[t].slot).slot = th[t].slot
         /\ Leased(th[t].obj, th[t].slot).ctr = None
         /\ project' = [project EXCEPT ![th[t].obj.id] = th[t].proj]
         /\ SetSlot(th[t].slot, TRUE, th[t].obj.id)
         /\ Moved(t, "refresh", Leased(th[t].obj, th[t].slot))
         /\ UNCHANGED <<hostVars, up>>
  <1> DEFINE o == th[t].obj
             n == Leased(o, th[t].slot)
             w == o.id
  <1>1. /\ th[t].pc = "lease" /\ Working(t) /\ Task(t)
        /\ th[t].slot \in Slots /\ th[t].op = "start"
    BY AtWork DEF Lease, At, Working, Waiting, LInv, Launch, Starting
  <1>2. PICK st \in {"ABSENT", "STOPPED", "ERROR"} : Holding(t, st)
    BY <1>1, HoldsRow DEF StatusAt
  <1>3. /\ n \in Objects /\ n.id = w /\ n.status = "STARTING"
        /\ n.ctr = None /\ n.slot = th[t].slot
    BY <1>1, <1>2, NoneIsNone DEF Leased, Objects, Statuses, ActiveStates, Holding
  <1>4. /\ Write(o, n) /\ project' = [project EXCEPT ![w] = th[t].proj]
        /\ SetSlot(th[t].slot, TRUE, w) /\ Load(t, "refresh", n)
        /\ UNCHANGED <<hostVars, up>>
    BY <1>1, Accepted DEF Lease
  <1>5. ~inUse[th[t].slot]  BY <1>1 DEF Task
  <1> HIDE DEF n
  <1>6. Moved(t, "refresh", n)  BY <1>3, <1>4, LoadMoves DEF Inv, PCs
  <1>7. Flushed(t, n)
    BY <1>1, <1>2, <1>3, <1>4, Written DEF RowsBut, Inv, TypeOK, Flushed
  <1> QED BY <1>1, <1>2, <1>3, <1>4, <1>5, <1>6, <1>7 DEF n

LEMMA LeaseL == ASSUME Inv, LInv, Inv', NEW t \in Threads, Lease(t) PROVE LInv'
  <1> DEFINE n == Leased(th[t].obj, th[t].slot)
             p == th[t].proj
             w == th[t].obj.id
  <1>1. PICK st \in {"ABSENT", "STOPPED", "ERROR"} : Holding(t, st)
    BY LeaseDoes
  <1>2. /\ th[t].pc = "lease" /\ th[t].slot \in Slots /\ ~inUse[th[t].slot]
        /\ Flushed(t, n) /\ n.status = "STARTING" /\ n.slot = th[t].slot
        /\ n.ctr = None /\ project' = [project EXCEPT ![w] = p]
        /\ SetSlot(th[t].slot, TRUE, w) /\ Moved(t, "refresh", n) /\ up' = up
    BY LeaseDoes
  <1>3. /\ w \in Ids /\ p # None /\ status[w] = st /\ Working(t)
        /\ IF st = "ABSENT" THEN RowsOf(p) = {} ELSE project[w] = p
    BY <1>1 DEF Holding, Task
  <1> HIDE DEF n
  <1>4. /\ RowIs(w, n) /\ RowsBut(w) /\ project'[w] = p /\ n.id = w /\ n \in Objects
    BY <1>2, <1>3 DEF Inv, TypeOK, Flushed
  <1>5. Frame(t)
    BY <1>2, <1>3, <1>4 DEF Frame, SetSlot, Inv, TypeOK, At
  <1>6. Tables'
    <2>1. OneRow'
      <3>1. \A x \in Ids \ {w} : project[x] # p
        BY <1>3 DEF RowsOf, LInv, OneRow
      <3> QED BY <1>4, <3>1 DEF OneRow, RowsBut, LInv
    <2>2. LeaseExact'
      BY <1>1, <1>2, <1>3, <1>4, TakesLease
      DEF LInv, Inv, Active, ActiveStates, RowIs
    <2>3. LeaseOf(n)  BY <1>2 DEF LeaseOf
    <2> QED BY <1>3, <1>4, <2>1, <2>2, <2>3, RowLeases DEF Tables
  <1>7. Task(t)'
    <2>1. n = [id |-> n.id, status |-> n.status, slot |-> n.slot, ctr |-> n.ctr]
      BY <1>4 DEF Objects
    <2>2. n.status \in StatusAt("refresh")  BY <1>2 DEF StatusAt, Launch
    <2> QED BY <1>2, <1>3, <1>4, <2>1, <2>2 DEF Task, Moved, Working, Row, RowIs
  <1>8. "refresh" \in PCs \ {"idle", "lease", "reap"}  BY DEF PCs
  <1> QED BY <1>2, <1>3, <1>4, <1>5, <1>6, <1>7, <1>8, MoveL

LEMMA RefreshL == ASSUME Inv, LInv, NEW t \in Threads, Refresh(t) PROVE LInv'
  <1>1. th[t].pc = "refresh" /\ Working(t) /\ Task(t)
    BY DEF Refresh, At, Working, Waiting, LInv
  <1>2. th[t].obj = Row(th[t].obj.id) /\ th[t].obj.status = "STARTING"
        /\ th[t].obj.slot = th[t].slot /\ Exists(th[t].obj.id)
    BY <1>1, InHand DEF Task, StatusAt, Launch, Exists
  <1>3. Goto(t, "prepare")
    <2>1. Load(t, "prepare", th[t].obj)  BY <1>2 DEF Refresh
    <2> QED BY <2>1 DEF Load, Goto, Inv, TypeOK, ThreadStates
  <1> QED BY <1>1, <1>2, <1>3, GotoL
          DEF Refresh, PCs, Waiting, StatusAt, Launch

\* From a row STARTING on the slot in hand to another place where it is.
LEMMA LaunchGoto ==
  ASSUME Inv, LInv, NEW t \in Threads,
         th[t].pc \in Launch \ {"lease", "confirm"},
         NEW x \in Launch \ {"lease", "confirm"}, Goto(t, x),
         UNCHANGED <<rowVars, slotVars, up>>
  PROVE  LInv'
  <1>1. Working(t) /\ Task(t)  BY DEF Working, Waiting, Launch, LInv
  <1>2. th[t].obj.status = "STARTING" /\ th[t].slot = th[t].obj.slot
    BY <1>1, InHand DEF Task, StatusAt, Launch
  <1>3. x \in PCs \ ({"lease"} \cup Waiting) /\ th[t].obj.status \in StatusAt(x)
    BY <1>2 DEF StatusAt, Launch, PCs, Waiting
  <1> QED BY <1>1, <1>2, <1>3, GotoL

LEMMA LaunchL ==
  ASSUME Inv, LInv, NEW t \in Threads,
         \/ Prepare(t) \/ Run(t) \/ RunFails(t) \/ Ready(t) \/ NotReady(t)
         \/ Except(t) \/ LaunchTimesOut(t)
  PROVE  LInv'
  BY LaunchGoto DEF Prepare, Run, RunFails, Ready, NotReady, Except,
                    LaunchTimesOut, At, Launch

Committed(t) == [th[t].obj EXCEPT !.status = "RUNNING", !.ctr = RuntimeName(t)]

LEMMA CommitDoes ==
  ASSUME Inv, LInv, NEW t \in Threads, Commit(t)
  PROVE  /\ th[t].pc = "commit" /\ Flushed(t, Committed(t))
         /\ Committed(t).status = "RUNNING"
         /\ Committed(t).slot = th[t].slot
         /\ Committed(t).ctr = RuntimeName(t)
         /\ Load(t, "confirm", Committed(t)) /\ Moved(t, "confirm", Committed(t))
         /\ UNCHANGED <<project, slotVars, hostVars, up>>
  <1>1. th[t].pc = "commit" /\ Holding(t, "STARTING") /\ slotId[th[t].obj.id] = th[t].slot
        /\ RuntimeName(t) \in Names
    BY LaunchHolds DEF Commit, At, Launch
  <1>2. /\ Committed(t) \in Objects /\ Committed(t).id = th[t].obj.id
        /\ Committed(t).status = "RUNNING" /\ Committed(t).slot = th[t].slot
        /\ Committed(t).ctr = RuntimeName(t)
    BY <1>1 DEF Committed, Holding, Objects, Statuses, ActiveStates
  <1>3. /\ Write(th[t].obj, Committed(t)) /\ Load(t, "confirm", Committed(t))
        /\ UNCHANGED <<project, slotVars, hostVars, up>>
    BY <1>1, Accepted DEF Commit, Committed, Holding
  <1>4. Flushed(t, Committed(t))  BY <1>1, <1>2, <1>3, Written DEF Holding, Flushed
  <1> QED BY <1>1, <1>2, <1>3, <1>4, LoadMoves DEF Inv, PCs

LEMMA CommitL == ASSUME Inv, LInv, NEW t \in Threads, Commit(t) PROVE LInv'
  <1> DEFINE n == Committed(t)
             w == th[t].obj.id
  <1>1. /\ th[t].pc = "commit" /\ Holding(t, "STARTING") /\ slotId[w] = th[t].slot
        /\ RuntimeName(t) = <<th[t].slot, w>>
    BY CommitDoes, LaunchHolds DEF Launch
  <1>2. /\ Flushed(t, n) /\ n.status = "RUNNING" /\ n.slot = th[t].slot
        /\ n.ctr = RuntimeName(t) /\ Load(t, "confirm", n)
        /\ UNCHANGED <<project, slotVars, up>>
    BY CommitDoes
  <1> HIDE DEF n
  <1>3. LeaseExact'
    BY <1>1, <1>2, KeepsLeases
    DEF Active, ActiveStates, RowIs, LInv, Holding, Flushed
  <1>4. LeaseOf(n)  BY <1>1, <1>2 DEF LeaseOf, Flushed
  <1>5. "RUNNING" \in StatusAt("confirm") /\ "confirm" \in PCs \ {"idle", "lease", "reap"}
    BY DEF StatusAt, Launch, PCs
  <1> QED BY <1>1, <1>2, <1>3, <1>4, <1>5, WriteMoveL DEF slotVars, Holding, Flushed

LEMMA ConfirmL == ASSUME Inv, LInv, NEW t \in Threads, Confirm(t) PROVE LInv'
  <1>1. Working(t) /\ Task(t) /\ th[t].pc = "confirm"
    BY DEF Confirm, At, Working, Waiting, LInv
  <1>2. Exists(th[t].obj.id)
    BY <1>1, InHand DEF Task, StatusAt, Launch, Exists
  <1> QED BY <1>2, FinishL DEF Confirm

Failed(t) == [th[t].obj EXCEPT !.status = "ERROR"]

LEMMA FailDoes ==
  ASSUME Inv, LInv, NEW t \in Threads, Fail(t)
  PROVE  /\ th[t].pc = "fail" /\ Flushed(t, Failed(t)) /\ Failed(t).status = "ERROR"
         /\ ReturnSlot(th[t].slot) /\ Finish(t) /\ Idled(t)
         /\ UNCHANGED <<project, hostVars, up>>
  <1>1. th[t].pc = "fail" /\ Holding(t, "STARTING")
    BY LaunchHolds DEF Fail, At, Launch
  <1>2. /\ Failed(t) \in Objects /\ Failed(t).id = th[t].obj.id
        /\ Failed(t).status = "ERROR"
    BY <1>1 DEF Failed, Holding, Objects, Statuses
  <1>3. /\ Write(th[t].obj, Failed(t)) /\ ReturnSlot(th[t].slot) /\ Finish(t)
        /\ UNCHANGED <<project, hostVars, up>>
    BY <1>1, Accepted DEF Fail, Failed, Holding
  <1>4. Flushed(t, Failed(t))  BY <1>1, <1>2, <1>3, Written DEF Holding, Flushed
  <1> QED BY <1>1, <1>2, <1>3, <1>4, FinishMoves DEF Inv

LEMMA FailL == ASSUME Inv, LInv, NEW t \in Threads, Fail(t) PROVE LInv'
  <1> DEFINE n == Failed(t)
             w == th[t].obj.id
  <1>1. Holding(t, "STARTING") /\ slotId[w] = th[t].slot
    BY FailDoes, LaunchHolds DEF Launch
  <1>2. /\ Flushed(t, n) /\ n.status = "ERROR" /\ ReturnSlot(th[t].slot)
        /\ Finish(t) /\ UNCHANGED <<project, up>>
    BY FailDoes
  <1> HIDE DEF n
  <1>3. LeaseExact'
    BY <1>1, <1>2, ReturnsLease
    DEF Active, ActiveStates, RowIs, LInv, Inv, Holding, Flushed
  <1>4. LeaseOf(n)  BY <1>2 DEF LeaseOf, ActiveStates
  <1>5. \A s \in Slots : inUse'[s] => inUse[s]
    BY <1>2 DEF ReturnSlot, SetSlot, Inv, TypeOK
  <1> QED BY <1>1, <1>2, <1>3, <1>4, <1>5, WriteIdleL DEF Holding, Flushed

-----------------------------------------------------------------------------
(* The actions: a release, a delete *)

Marked(t) == [th[t].obj EXCEPT !.status =
                IF @ \in {"STOPPED", "ERROR"} THEN @ ELSE "STOPPING"]

LEMMA MarkDoes ==
  ASSUME Inv, LInv, NEW t \in Threads, Mark(t)
  PROVE  /\ th[t].pc = "mark" /\ \E st \in ActiveStates : Holding(t, st)
         /\ Flushed(t, Marked(t)) /\ Marked(t).status = "STOPPING"
         /\ Marked(t).slot = th[t].obj.slot /\ Marked(t).ctr = th[t].obj.ctr
         /\ Load(t, "remove", Marked(t)) /\ Moved(t, "remove", Marked(t))
         /\ UNCHANGED <<project, slotVars, hostVars, up>>
  <1>1. th[t].pc = "mark" /\ Working(t)  BY DEF Mark, At, Working, Waiting
  <1>2. PICK st \in ActiveStates : Holding(t, st)
    BY <1>1, HoldsRow DEF StatusAt, Launch
  <1>3. /\ Marked(t) \in Objects /\ Marked(t).id = th[t].obj.id
        /\ Marked(t).status = "STOPPING" /\ Marked(t).slot = th[t].obj.slot
        /\ Marked(t).ctr = th[t].obj.ctr
    BY <1>2 DEF Marked, Holding, Objects, Statuses, ActiveStates
  <1>4. /\ Write(th[t].obj, Marked(t)) /\ Load(t, "remove", Marked(t))
        /\ UNCHANGED <<project, slotVars, hostVars, up>>
    BY <1>1, <1>2, Accepted DEF Mark, Marked, Holding, ActiveStates
  <1>5. Flushed(t, Marked(t))  BY <1>1, <1>3, <1>4, Written DEF Flushed
  <1> QED BY <1>1, <1>2, <1>3, <1>4, <1>5, LoadMoves DEF Inv, PCs

LEMMA MarkL == ASSUME Inv, LInv, NEW t \in Threads, Mark(t) PROVE LInv'
  <1> DEFINE n == Marked(t)
             w == th[t].obj.id
  <1>1. PICK st \in ActiveStates : Holding(t, st)  BY MarkDoes
  <1>2. /\ Flushed(t, n) /\ n.status = "STOPPING"
        /\ n.slot = th[t].obj.slot /\ n.ctr = th[t].obj.ctr
        /\ Load(t, "remove", n) /\ UNCHANGED <<project, slotVars, up>>
    BY MarkDoes
  <1> HIDE DEF n
  <1>3. LeaseExact'
    BY <1>1, <1>2, KeepsLeases
    DEF Active, ActiveStates, RowIs, LInv, Holding, Flushed
  <1>4. LeaseOf(n)
    <2>1. RowLease(w) /\ Active(w)  BY <1>1 DEF LInv, Active, Holding
    <2> QED BY <1>1, <1>2, <2>1 DEF RowLease, LeaseOf, Holding, Flushed
  <1>5. "STOPPING" \in StatusAt("remove") /\ "remove" \in PCs \ {"idle", "lease", "reap"}
        /\ "remove" \notin Launch
    BY DEF StatusAt, Launch, PCs
  <1> QED BY <1>1, <1>2, <1>3, <1>4, <1>5, WriteMoveL
          DEF slotVars, ActiveStates, Holding, Flushed

LEMMA RemoveL == ASSUME Inv, LInv, NEW t \in Threads, Remove(t) PROVE LInv'
  <1>1. th[t].pc = "remove" /\ Working(t) /\ Task(t)
    BY DEF Remove, At, Working, Waiting, LInv
  <1>2. th[t].obj.status = "STOPPING"  BY <1>1 DEF Task, StatusAt, Launch
  <1> QED BY <1>1, <1>2, GotoL DEF Remove, PCs, Waiting, StatusAt, Launch

Freed(t) == [th[t].obj EXCEPT !.status = "STOPPED", !.slot = NoSlot, !.ctr = None]

LEMMA FreeDoes ==
  ASSUME Inv, LInv, NEW t \in Threads, Free(t)
  PROVE  /\ th[t].pc = "free" /\ Holding(t, "STOPPING")
         /\ Flushed(t, Freed(t)) /\ Freed(t).status = "STOPPED"
         /\ AfterRelease(t) \in {"pick", "purge", "next"}
         /\ Load(t, AfterRelease(t), Freed(t)) /\ Moved(t, AfterRelease(t), Freed(t))
         /\ ReturnSlot(th[t].obj.slot)
         /\ UNCHANGED <<project, hostVars, up>>
  <1>1. th[t].pc = "free" /\ Working(t)  BY DEF Free, At, Working, Waiting
  <1>2. Holding(t, "STOPPING")
    BY <1>1, HoldsRow DEF StatusAt, Launch
  <1>3. th[t].obj.slot # NoSlot
    BY <1>2 DEF LInv, LeaseExact, Active, ActiveStates, Holding
  <1>4. /\ Freed(t) \in Objects /\ Freed(t).id = th[t].obj.id
        /\ Freed(t).status = "STOPPED"
    BY <1>2 DEF Freed, Holding, Objects, Statuses
  <1>5. /\ Write(th[t].obj, Freed(t)) /\ ReturnSlot(th[t].obj.slot)
        /\ Load(t, AfterRelease(t), Freed(t))
        /\ UNCHANGED <<project, hostVars, up>>
    BY <1>1, <1>2, <1>3, Accepted DEF Free, FreeSlotOf, Freed, Holding
  <1>6. AfterRelease(t) \in {"pick", "purge", "next"}  BY DEF AfterRelease
  <1>7. Flushed(t, Freed(t))  BY <1>1, <1>4, <1>5, Written DEF Flushed
  <1> QED BY <1>1, <1>2, <1>4, <1>5, <1>6, <1>7, LoadMoves DEF Inv, PCs

LEMMA FreeL == ASSUME Inv, LInv, NEW t \in Threads, Free(t) PROVE LInv'
  <1> DEFINE n == Freed(t)
             x == AfterRelease(t)
  <1>1. Holding(t, "STOPPING")  BY FreeDoes
  <1>2. /\ Flushed(t, n) /\ n.status = "STOPPED" /\ x \in {"pick", "purge", "next"}
        /\ Load(t, x, n) /\ ReturnSlot(th[t].obj.slot) /\ UNCHANGED <<project, up>>
    BY FreeDoes
  <1> HIDE DEF n, x
  <1>3. LeaseExact'
    BY <1>1, <1>2, ReturnsLease
    DEF Active, ActiveStates, RowIs, LInv, Inv, Holding, Flushed
  <1>4. LeaseOf(n)  BY <1>2 DEF LeaseOf, ActiveStates
  <1>5. /\ x \in PCs \ {"idle", "lease", "reap"} /\ x \notin Launch
        /\ x \notin Waiting => "STOPPED" \in StatusAt(x)
    BY <1>2 DEF PCs, Launch, Waiting, StatusAt
  <1>6. \A s \in Slots : inUse'[s] => inUse[s]
    BY <1>2 DEF ReturnSlot, SetSlot, Inv, TypeOK
  <1> QED BY <1>1, <1>2, <1>3, <1>4, <1>5, <1>6, WriteMoveL DEF Holding, Flushed

LEMMA PurgeL ==
  ASSUME Inv, LInv, NEW t \in Threads, Purge(t) \/ PurgeFails(t) PROVE LInv'
  <1>1. CASE PurgeFails(t)  BY <1>1, FinishL DEF PurgeFails
  <1>2. CASE Purge(t)
    <2>1. th[t].pc = "purge" /\ Working(t) /\ Task(t)
      BY <1>2 DEF Purge, At, Working, Waiting, LInv
    <2>2. th[t].obj.status \in {"STOPPED", "ERROR"}
      BY <2>1 DEF Task, StatusAt, Launch
    <2> QED BY <1>2, <2>1, <2>2, GotoL DEF Purge, PCs, Waiting, StatusAt, Launch
  <1> QED BY <1>1, <1>2

LEMMA EraseDoes ==
  ASSUME Inv, LInv, NEW t \in Threads, Erase(t)
  PROVE  /\ th[t].pc = "erase" /\ Working(t)
         /\ \E st \in {"STOPPED", "ERROR"} : Holding(t, st)
         /\ Idled(t) /\ UNCHANGED <<slotVars, hostVars, up>>
         /\ RowsBut(th[t].obj.id) /\ status'[th[t].obj.id] = "ABSENT"
         /\ project'[th[t].obj.id] = None
  <1>1. th[t].pc = "erase" /\ Working(t)  BY DEF Erase, At, Working, Waiting
  <1>2. PICK st \in {"STOPPED", "ERROR"} : Holding(t, st)
    BY <1>1, HoldsRow DEF StatusAt, Launch
  <1>3. Idled(t) /\ UNCHANGED <<slotVars, hostVars, up>>
    BY FinishMoves DEF Erase, Inv
  <1>4. /\ RowsBut(th[t].obj.id) /\ status'[th[t].obj.id] = "ABSENT"
        /\ project'[th[t].obj.id] = None
    BY <1>2 DEF Erase, RowsBut, Inv, TypeOK, Holding
  <1> QED BY <1>1, <1>2, <1>3, <1>4

LEMMA EraseL == ASSUME Inv, LInv, NEW t \in Threads, Erase(t) PROVE LInv'
  <1> DEFINE w == th[t].obj.id
  <1>1. PICK st \in {"STOPPED", "ERROR"} : Holding(t, st)  BY EraseDoes
  <1>2. w \in Ids /\ ~Active(w) /\ Working(t)
    BY <1>1 DEF Holding, Active, ActiveStates
  <1>3. /\ Idled(t) /\ up' = up /\ UNCHANGED slotVars
        /\ RowsBut(w) /\ project'[w] = None /\ status'[w] = "ABSENT"
    BY EraseDoes
  <1>4. Frame(t)  BY <1>2, <1>3 DEF Frame, slotVars
  <1>5. Tables'
    <2>1. OneRow'  BY <1>2, <1>3 DEF OneRow, LInv, RowsBut
    <2>2. LeaseExact'
      BY <1>2, <1>3, KeepsLeases DEF LInv, Active, ActiveStates
    <2>3. ASSUME NEW v \in Ids PROVE RowLease(v)'
      <3>1. CASE v = w  BY <1>3, <3>1 DEF RowLease, Active, ActiveStates
      <3>2. CASE v # w  BY <1>3, <3>2 DEF RowLease, RowsBut, Active, LInv
      <3> QED BY <3>1, <3>2
    <2> QED BY <2>1, <2>2, <2>3 DEF Tables
  <1> QED BY <1>3, <1>4, <1>5, IdleL

LEMMA TimeoutL ==
  ASSUME Inv, LInv, NEW t \in Threads, TimeoutStep(t) PROVE LInv'
  BY FinishL, LaunchL DEF TimeoutStep, RemoveTimesOut, InspectTimesOut

-----------------------------------------------------------------------------
(* The actions: selections and loops *)

\* A thread begins with rows that no other thread has in hand.
LEMMA BeginL ==
  ASSUME Inv, LInv, NEW t \in Threads, Others(t),
         UNCHANGED <<rowVars, slotVars, up>>,
         th'[t].pc \notin {"idle", "lease", "reap"}, up \/ th'[t].op = "boot",
         th'[t].op = "boot" => t = Keeper /\ ~up,
         Task(t)', TodoOK(t)',
         \A u \in Threads \ {t} : Touches(t)' \cap Touches(u) \subseteq {None}
  PROVE  LInv'
  <1>1. BootOK'  BY DEF BootOK, LInv, Others, At
  <1>2. Frame(t) /\ ~At(t, "lease")'  BY DEF Frame, At
  <1> QED BY <1>1, <1>2, StepL, TablesUnchanged DEF Tables

\* In an orderly step that is a project that no other thread has in hand.
LEMMA BeginsApart ==
  ASSUME Apart', NEW t \in Threads, Others(t), UNCHANGED rowVars
  PROVE  \A u \in Threads \ {t} : Touches(t)' \cap Touches(u) \subseteq {None}
  <1>1. \A u \in Threads \ {t} : Touches(u)' = Touches(u)
    BY DEF Others, Touches, rowVars
  <1> QED BY <1>1 DEF Apart

\* A request begins with one row, of a project that nobody has in hand.
LEMMA CallL ==
  ASSUME Inv, LInv, Apart', NEW t \in Threads, NEW p \in Projects, NEW w \in Ids,
         NEW x \in {"probe", "pick", "mark", "purge"},
         NEW h \in {"start", "stop", "delete"},
         th' = [th EXCEPT ![t] = [Idle EXCEPT !.pc = x, !.op = h,
                                    !.proj = p, !.obj = Row(w)]],
         up, status[w] \in StatusAt(x),
         IF status[w] = "ABSENT" THEN RowsOf(p) = {} ELSE project[w] = p,
         UNCHANGED <<rowVars, slotVars, hostVars, up>>
  PROVE  LInv'
  <1> DEFINE r == [Idle EXCEPT !.pc = x, !.op = h, !.proj = p, !.obj = Row(w)]
  <1>1. /\ r \in ThreadStates
        /\ r.pc = x /\ r.op = h /\ r.proj = p /\ r.obj = Row(w)
        /\ r.todo = {}
    BY RowIsObject DEF Idle, ThreadStates, PCs, Ops, AllHandlers
  <1>2. th' = [th EXCEPT ![t] = r]  OBVIOUS
  <1> HIDE DEF r
  <1>3. Others(t) /\ th'[t] = r  BY <1>1, <1>2 DEF Inv, TypeOK, Others
  <1>4. Task(t)'
    <2>1. Row(w).id = w /\ Row(w).status = status[w] /\ p # None
      BY NoneIsNone DEF Row
    <2>2. x \notin Launch  BY DEF Launch
    <2> QED BY <1>1, <1>3, <2>1, <2>2
            DEF Task, Working, Row, RowsOf, rowVars, slotVars, Launch
  <1>5. TodoOK(t)'  BY <1>1, <1>3 DEF TodoOK
  <1>6. \A u \in Threads \ {t} : Touches(t)' \cap Touches(u) \subseteq {None}
    BY <1>3, BeginsApart
  <1> QED BY <1>1, <1>3, <1>4, <1>5, <1>6, BeginL DEF At

\* With a row that a client may start or stop.
LEMMA SettledCall ==
  ASSUME Inv, Settled', NEW t \in Threads, NEW p, NEW w, NEW x, NEW h,
         th' = [th EXCEPT ![t] = [Idle EXCEPT !.pc = x, !.op = h,
                                    !.proj = p, !.obj = Row(w)]]
  PROVE  /\ x = "pick" => status[w] # "STOPPING"
         /\ x = "mark" => status[w] # "ERROR"
  <1> DEFINE r == [Idle EXCEPT !.pc = x, !.op = h, !.proj = p, !.obj = Row(w)]
  <1>1. r.pc = x /\ r.obj.status = status[w]  BY DEF Idle, Row
  <1>2. th' = [th EXCEPT ![t] = r]  OBVIOUS
  <1> HIDE DEF r
  <1>3. th'[t] = r  BY <1>2 DEF Inv, TypeOK
  <1> QED BY <1>1, <1>3 DEF Settled, At

LEMMA StartSelectL ==
  ASSUME Inv, LInv, Orderly', NEW t \in Threads, NEW p \in Projects,
         StartSelect(t, p)
  PROVE  LInv'
  <1>1. PICK w \in IF RowsOf(p) = {} THEN Fresh ELSE Newest(p) :
          th' = [th EXCEPT ![t] =
                   [Idle EXCEPT !.op = "start", !.proj = p, !.obj = Row(w),
                      !.pc = IF status[w] \in {"STARTING", "RUNNING"}
                             THEN "probe" ELSE "pick"]]
    BY DEF StartSelect
  <1> DEFINE x == IF status[w] \in {"STARTING", "RUNNING"} THEN "probe" ELSE "pick"
  <1>2. w \in Ids  BY DEF Fresh, Newest, RowsOf
  <1>3. /\ th' = [th EXCEPT ![t] = [Idle EXCEPT !.pc = x, !.op = "start",
                                      !.proj = p, !.obj = Row(w)]]
        /\ x \in {"probe", "pick", "mark", "purge"}
    BY <1>1
  <1>4. status[w] \in StatusAt(x)
    <2>1. x = "pick" => status[w] # "STOPPING"
      BY <1>2, <1>3, SettledCall DEF Orderly
    <2> QED BY <1>2, <2>1 DEF StatusAt, Launch, Inv, TypeOK, Statuses, ActiveStates
  <1>5. IF status[w] = "ABSENT" THEN RowsOf(p) = {} ELSE project[w] = p
    BY <1>1, <1>2, NoneIsNone DEF Fresh, Newest, RowsOf, Exists, Inv, RowOK
  <1>6. up /\ UNCHANGED <<rowVars, slotVars, hostVars, up>> /\ Apart'
    BY DEF StartSelect, Call, Orderly
  <1> HIDE DEF x
  <1> QED BY <1>2, <1>3, <1>4, <1>5, <1>6, CallL

LEMMA StopSelectL ==
  ASSUME Inv, LInv, Orderly', NEW t \in Threads, NEW w \in Ids,
         StopSelect(t, w) \/ DeleteSelect(t, w)
  PROVE  LInv'
  <1>1. Exists(w) /\ project[w] \in Projects
    BY DEF StopSelect, DeleteSelect, Inv, TypeOK, RowOK
  <1>2. PICK x \in {"mark", "purge"}, h \in {"stop", "delete"} :
          /\ th' = [th EXCEPT ![t] = [Idle EXCEPT !.pc = x, !.op = h,
                                        !.proj = project[w], !.obj = Row(w)]]
          /\ IF x = "mark" THEN Active(w) ELSE ~Active(w)
    <2>1. CASE StopSelect(t, w)
      <3>1. Active(w)
        <4>1. status[w] # "ERROR"
          BY <2>1, SettledCall DEF StopSelect, Orderly
        <4> QED BY <2>1, <1>1, <4>1 DEF StopSelect, Active, ActiveStates, Exists,
                                        Inv, TypeOK, Statuses
      <3> QED BY <2>1, <3>1 DEF StopSelect
    <2>2. CASE DeleteSelect(t, w)  BY <2>2 DEF DeleteSelect
    <2> QED BY <2>1, <2>2
  <1>3. status[w] \in StatusAt(x)
    BY <1>1, <1>2
    DEF StatusAt, Launch, Active, ActiveStates, Exists, Inv, TypeOK, Statuses
  <1>4. up /\ UNCHANGED <<rowVars, slotVars, hostVars, up>> /\ Apart'
    BY DEF StopSelect, DeleteSelect, Call, Orderly
  <1>5. PICK p \in Projects : p = project[w]  BY <1>1
  <1>6. IF status[w] = "ABSENT" THEN RowsOf(p) = {} ELSE project[w] = p
    BY <1>1, <1>5 DEF Exists
  <1>7. th' = [th EXCEPT ![t] = [Idle EXCEPT !.pc = x, !.op = h,
                                   !.proj = p, !.obj = Row(w)]]
    BY <1>2, <1>5
  <1> QED BY <1>3, <1>4, <1>6, <1>7, CallL

\* A loop begins over active rows of projects that nobody has in hand.
LEMMA LoopL ==
  ASSUME Inv, LInv, NEW t \in Threads, NEW h \in Ops \ {"start", "stop", "delete"},
         NEW ws \in SUBSET ActiveRows, Loop(t, h, ws),
         up \/ h = "boot", h = "boot" => t = Keeper /\ ~up, Apart',
         UNCHANGED <<rowVars, slotVars, hostVars, up>>
  PROVE  LInv'
  <1> DEFINE r == [Idle EXCEPT !.pc = "next", !.op = h, !.todo = LoadRows(ws)]
  <1>1. \A o \in LoadRows(ws) : /\ o \in Objects /\ o.id \in ws
                                /\ o = Row(o.id) /\ Active(o.id)
    BY RowIsObject DEF LoadRows, ActiveRows
  <1>2. LoadRows(ws) \in SUBSET Objects  BY <1>1
  <1>3. /\ r \in ThreadStates /\ r.pc = "next" /\ r.op = h
        /\ r.todo = LoadRows(ws) /\ r.obj = None /\ r.proj = None
    BY <1>2 DEF Idle, ThreadStates, PCs
  <1>4. th' = [th EXCEPT ![t] = r]  BY DEF Loop
  <1> HIDE DEF r
  <1>5. Others(t) /\ th'[t] = r  BY <1>3, <1>4 DEF Inv, TypeOK, Others
  <1>6. Task(t)'  BY <1>3, <1>5 DEF Task, Working, Waiting
  <1>7. TodoOK(t)'
    BY <1>1, <1>3, <1>5 DEF TodoOK, Working, Waiting, Row, Active, rowVars
  <1>8. \A u \in Threads \ {t} : Touches(t)' \cap Touches(u) \subseteq {None}
    BY <1>5, BeginsApart
  <1> QED BY <1>3, <1>5, <1>6, <1>7, <1>8, BeginL DEF At

LEMMA StopAllSelectL ==
  ASSUME Inv, LInv, Apart', NEW t \in Threads, NEW v, StopAllSelect(t, v)
  PROVE  LInv'
  <1> DEFINE ws == {w \in Ids : Active(w) /\ Owner[project[w]] = v}
  <1>1. ws \in SUBSET ActiveRows  BY DEF ActiveRows
  <1>2. "stopall" \in Ops \ {"start", "stop", "delete"}  BY DEF Ops, AllHandlers
  <1>3. /\ Loop(t, "stopall", ws) /\ up
        /\ UNCHANGED <<rowVars, slotVars, hostVars, up>>
    BY DEF StopAllSelect, Call
  <1> HIDE DEF ws
  <1> QED BY <1>1, <1>2, <1>3, LoopL

LEMMA KeeperL ==
  ASSUME Inv, LInv, Apart', Boot \/ Reconcile \/ ReapSelect PROVE LInv'
  <1>1. Keeper \in Threads /\ BootOK  BY DEF Threads, LInv
  <1>2. {"boot", "reconcile", "reap"} \subseteq Ops \ {"start", "stop", "delete"}
    BY DEF Ops, AllHandlers
  <1>3. CASE Boot
    <2>1. ActiveRows \in SUBSET ActiveRows  OBVIOUS
    <2>2. /\ Loop(Keeper, "boot", ActiveRows) /\ ~up
          /\ UNCHANGED <<rowVars, slotVars, hostVars, up>>
      BY <1>3 DEF Boot
    <2> QED BY <1>1, <1>2, <2>1, <2>2, LoopL
  <1>4. CASE Reconcile
    <2>1. ActiveRows \in SUBSET ActiveRows  OBVIOUS
    <2>2. /\ Loop(Keeper, "reconcile", ActiveRows) /\ up
          /\ UNCHANGED <<rowVars, slotVars, hostVars, up>>
      BY <1>4 DEF Reconcile
    <2> QED BY <1>1, <1>2, <2>1, <2>2, LoopL
  <1>5. CASE ReapSelect
    <2> DEFINE ws == {w \in Ids : status[w] = "RUNNING"}
    <2>1. ws \in SUBSET ActiveRows  BY DEF ActiveRows, Active, ActiveStates
    <2>2. up
      BY <1>1, <1>5 DEF ReapSelect, At, BootOK, Idle, Inv, ThreadOK
    <2>3. /\ Loop(Keeper, "reap", ws)
          /\ UNCHANGED <<rowVars, slotVars, hostVars, up>>
      BY <1>5 DEF ReapSelect
    <2> HIDE DEF ws
    <2> QED BY <1>1, <1>2, <2>1, <2>2, <2>3, LoopL
  <1> QED BY <1>3, <1>4, <1>5

LEMMA ReleaseNextL ==
  ASSUME Inv, LInv, NEW t \in Threads, ReleaseNext(t) PROVE LInv'
  <1>1. PICK o \in th[t].todo :
          th' = [th EXCEPT ![t].pc = "mark", ![t].obj = o, ![t].todo = @ \ {o},
                           ![t].proj = project[o.id]]
    BY DEF ReleaseNext
  <1>2. /\ th[t].pc = "next" /\ TodoOK(t) /\ BootOK
        /\ UNCHANGED <<rowVars, slotVars, hostVars, up>>
    BY DEF ReleaseNext, At, LInv
  <1>3. /\ o \in Objects /\ o.id \in Ids /\ th[t] \in ThreadStates
        /\ o = Row(o.id) /\ Active(o.id) /\ o.status = status[o.id]
        /\ \A x \in th[t].todo : x = Row(x.id)
    BY <1>2, ObjectTypes DEF Inv, TodoOK, Row
  <1>4. project[o.id] \in Projects /\ project[o.id] # None
    BY <1>3 DEF Inv, TypeOK, RowOK, Active, ActiveStates, Exists
  <1>5. /\ Others(t)
        /\ th'[t].pc = "mark" /\ th'[t].op = th[t].op /\ th'[t].obj = o
        /\ th'[t].todo = th[t].todo \ {o} /\ th'[t].proj = project[o.id]
    <2> DEFINE r == [th[t] EXCEPT !.pc = "mark", !.obj = o, !.todo = @ \ {o},
                                  !.proj = project[o.id]]
    <2>1. th' = [th EXCEPT ![t] = r]  BY <1>1
    <2>2. /\ r \in ThreadStates
          /\ r.pc = "mark" /\ r.op = th[t].op /\ r.obj = o
          /\ r.todo = th[t].todo \ {o} /\ r.proj = project[o.id]
      BY <1>3, <1>4 DEF ThreadStates, PCs
    <2> HIDE DEF r
    <2> QED BY <2>1, <2>2 DEF Inv, TypeOK, Others
  <1>6. Task(t)'
    <2>1. o.status \in StatusAt("mark") /\ o.status # "ABSENT"
      BY <1>3 DEF StatusAt, Launch, Active, ActiveStates
    <2> QED BY <1>2, <1>3, <1>4, <1>5, <2>1
            DEF Task, Working, Row, rowVars, Launch
  <1>7. TodoOK(t)'
    <2>1. \A x \in th[t].todo \ {o} : x.id # o.id  BY <1>3
    <2> QED BY <1>2, <1>5, <2>1 DEF TodoOK, Row, Active, rowVars
  <1>8. Touches(t)' \subseteq Touches(t)
    BY <1>2, <1>5 DEF Touches, rowVars
  <1>9. th[t] # Idle  BY <1>2 DEF Idle
  <1> QED BY <1>2, <1>5, <1>6, <1>7, <1>8, <1>9, BeginL
          DEF LInv, Apart, BootOK

LEMMA KeepNextL ==
  ASSUME Inv, LInv, NEW t \in Threads, KeepNext(t) PROVE LInv'
  <1>1. PICK o \in th[t].todo : th' = [th EXCEPT ![t].todo = @ \ {o}]
    BY DEF KeepNext
  <1>2. /\ Others(t)
        /\ th'[t].pc = "next" /\ th'[t].op = th[t].op
        /\ th'[t].todo = th[t].todo \ {o} /\ th'[t].proj = th[t].proj
    BY <1>1 DEF KeepNext, At, Inv, TypeOK, ThreadStates, Others
  <1>3. /\ th[t].pc = "next" /\ TodoOK(t) /\ BootOK
        /\ UNCHANGED <<rowVars, slotVars, hostVars, up>>
    BY DEF KeepNext, At, LInv
  <1>4. Task(t)'  BY <1>2 DEF Task, Working, Waiting
  <1>5. TodoOK(t)'
    BY <1>2, <1>3 DEF TodoOK, Row, Active, Working, Waiting, rowVars
  <1>6. Touches(t)' \subseteq Touches(t)
    BY <1>2, <1>3 DEF Touches, rowVars
  <1>7. th[t] # Idle  BY <1>3 DEF Idle
  <1> QED BY <1>2, <1>3, <1>4, <1>5, <1>6, <1>7, BeginL DEF LInv, Apart, BootOK

LEMMA LoopEndL ==
  ASSUME Inv, LInv, NEW t \in Threads, LoopEnd(t) PROVE LInv'
  <1>1. /\ th[t].pc = "next" /\ BootOK /\ UNCHANGED <<rowVars, slotVars>>
        /\ up' = (up \/ th[t].op = "boot")
    BY DEF LoopEnd, At, LInv
  <1> DEFINE r == [Idle EXCEPT !.pc = "reap", !.op = "reap"]
  <1>2. r \in ThreadStates /\ r.pc = "reap" /\ r.op = "reap" /\ r.proj = None
        /\ r.todo = {} /\ r # Idle
    BY DEF Idle, ThreadStates, PCs, Ops
  <1>3. \/ th[t].op = "reconcile" /\ th' = [th EXCEPT ![t] = r]
        \/ th[t].op # "reconcile" /\ Idled(t)
    BY FinishMoves DEF LoopEnd, Inv
  <1> HIDE DEF r
  <1>4. Others(t) /\ th'[t] \in {r, Idle}
        /\ (th'[t] = r => th[t].op = "reconcile")
    BY <1>2, <1>3 DEF Idled, Others, Inv, TypeOK
  <1>5. BootOK'
    <2>1. Idle.op = "none" /\ Idle.pc = "idle"  BY DEF Idle
    <2>2. th[t] # Idle  BY <1>1, <2>1
    <2> QED BY <1>1, <1>2, <1>4, <2>1, <2>2 DEF BootOK, Others, At
  <1>6. Task(t)' /\ TodoOK(t)' /\ Touches(t)' = {None} /\ ~At(t, "lease")'
    BY <1>2, <1>4 DEF Idle, Task, TodoOK, Touches, Working, Waiting, At
  <1>7. Frame(t)  BY <1>1 DEF Frame
  <1> QED BY <1>1, <1>4, <1>5, <1>6, <1>7, StepL, TablesUnchanged DEF Tables

\* Nothing that LInv looks at changes.
LEMMA StutterL ==
  ASSUME LInv, UNCHANGED <<rowVars, slotVars, up, th>>
  PROVE  LInv'
  <1>1. \A t \in Threads : Touches(t)' = Touches(t)  BY DEF Touches, rowVars
  <1>2. \A t \in Threads : Task(t)' /\ TodoOK(t)'
    BY DEF LInv, Task, TodoOK, Working, Row, RowsOf, Active, rowVars, slotVars
  <1>3. BootOK'  BY DEF LInv, BootOK, At
  <1>4. Apart'  BY <1>1 DEF LInv, Apart
  <1>5. LocksOK'  BY DEF LInv, LocksOK, At
  <1> QED BY <1>2, <1>3, <1>4, <1>5, TablesUnchanged DEF LInv, Tables

LEMMA EnvironmentL == ASSUME Inv, LInv, Environment PROVE LInv'
  <1>1. UNCHANGED <<rowVars, slotVars>>
    BY DEF Environment, Crash, Reboot, ContainerExit
  <1>2. CASE Crash \/ Reboot
    <2>1. \A t \in Threads : th'[t] = Idle  BY <1>2 DEF Crash, Reboot
    <2>2. Idle.pc = "idle" /\ Idle.op = "none" /\ Idle.todo = {} /\ Idle.proj = None
      BY DEF Idle
    <2>3. \A t \in Threads : /\ Task(t)' /\ TodoOK(t)' /\ Touches(t)' = {None}
                             /\ ~At(t, "lease")'
      BY <2>1, <2>2 DEF Task, TodoOK, Touches, Working, Waiting, At
    <2>4. BootOK' /\ Apart' /\ LocksOK'
      BY <2>1, <2>2, <2>3 DEF BootOK, Apart, LocksOK, At
    <2> QED BY <1>1, <2>3, <2>4, TablesUnchanged DEF LInv, Tables
  <1>3. CASE UNCHANGED <<th, up>>  BY <1>1, <1>3, StutterL
  <1> QED BY <1>2, <1>3 DEF Environment, ContainerExit

LEMMA InitL == Init => LInv
  <1> SUFFICES ASSUME Init PROVE LInv  OBVIOUS
  <1>1. Idle.pc = "idle" /\ Idle.op = "none" /\ Idle.todo = {} /\ Idle.proj = None
    BY DEF Idle
  <1>2. BootOK /\ Apart /\ LocksOK
    BY <1>1 DEF Init, BootOK, Apart, LocksOK, At, Touches
  <1>3. OneRow /\ LeaseExact /\ \A w \in Ids : RowLease(w)
    BY DEF Init, OneRow, LeaseExact, RowLease, Active, ActiveStates
  <1>4. \A t \in Threads : Task(t) /\ TodoOK(t)
    BY <1>1 DEF Init, Task, TodoOK, Working, Waiting
  <1> QED BY <1>2, <1>3, <1>4 DEF LInv

LEMMA ThreadStepL ==
  ASSUME Inv, LInv, Inv', NEW t \in Threads, ThreadStep(t) PROVE LInv'
  <1>1. CASE StartStep(t)
    BY <1>1, StartProbeL, PickL, FinishL, LeaseL, RefreshL, LaunchL, CommitL,
       ConfirmL, FailL
    DEF StartStep, NoCapacity
  <1>2. CASE ReleaseStep(t) \/ DeleteStep(t)
    BY <1>2, MarkL, RemoveL, FreeL, PurgeL, EraseL DEF ReleaseStep, DeleteStep
  <1>3. CASE LoopStep(t) \/ TimeoutStep(t)
    BY <1>3, ReleaseNextL, KeepNextL, LoopEndL, TimeoutL DEF LoopStep
  <1> QED BY <1>1, <1>2, <1>3 DEF ThreadStep

LEMMA NextL == Inv /\ LInv /\ [OrderlyNext]_vars => LInv'
  <1> SUFFICES ASSUME Inv, LInv, [OrderlyNext]_vars PROVE LInv'  OBVIOUS
  <1>1. Inv' /\ [Next]_vars  BY NextInv DEF OrderlyNext
  <1>4. UNCHANGED vars \/ Orderly'  BY DEF OrderlyNext
  <1>2. ASSUME NEW t \in Requests, Arrival(t), Orderly' PROVE LInv'
    <2>1. t \in Threads  BY DEF Threads
    <2> QED BY <1>2, <2>1, StartSelectL, StopSelectL, StopAllSelectL
            DEF Arrival, Orderly
  <1>3. CASE UNCHANGED vars
    <2>1. UNCHANGED <<rowVars, slotVars, up, th>>  BY <1>3 DEF vars
    <2> QED BY <2>1, StutterL
  <1>5. CASE Orderly' /\ (Boot \/ Reconcile \/ ReapSelect)
    BY <1>5, KeeperL DEF Orderly
  <1> QED BY <1>1, <1>2, <1>3, <1>4, <1>5, ThreadStepL, EnvironmentL DEF Next

\* In an orderly behaviour the slot table and the rows agree at every moment: a
\* slot is in use exactly when one active row holds it, and it names that row,
\* whatever handlers run side by side and whatever podman, the host or the
\* process does.
THEOREM LeasesAgree == OrderlySpec => []LeaseExact
  <1>1. Init => Inv /\ LInv  BY InitInv, InitL
  <1>2. Inv /\ LInv /\ [OrderlyNext]_vars => Inv' /\ LInv'
    BY NextInv, NextL DEF OrderlyNext
  <1>3. LInv => LeaseExact  BY DEF LInv
  <1> QED BY <1>1, <1>2, <1>3, PTL DEF OrderlySpec

-----------------------------------------------------------------------------
(* The slot table implements the pool *)

LEMMA PoolUnchanged ==
  ASSUME NEW w \in Ids, RowsBut(w), UNCHANGED slotVars,
         Active(w)' <=> Active(w), Active(w) => slotId'[w] = slotId[w]
  PROVE  UNCHANGED Pool!poolVars
  <1>1. \A v \in Ids : /\ Active(v)' <=> Active(v)
                       /\ Active(v) => slotId'[v] = slotId[v]
    BY DEF RowsBut, Active
  <1>2. Held' = Held  BY <1>1 DEF Held
  <1> QED BY <1>2 DEF Pool!poolVars, slotVars

LEMMA PoolReturn ==
  ASSUME TypeOK, LeaseExact, NEW w \in Ids, RowsBut(w),
         Active(w), ~Active(w)', ReturnSlot(slotId[w])
  PROVE  Pool!Return(w)
  <1>1. slotId[w] \in Slots /\ slotId[w] # NoSlot  BY DEF LeaseExact, TypeOK
  <1>2. \A v \in Ids \ {w} : (Active(v)' <=> Active(v)) /\ slotId'[v] = slotId[v]
    BY DEF RowsBut, Active
  <1>3. Held' = [Held EXCEPT ![w] = NoSlot]  BY <1>2 DEF Held
  <1>4. Held[w] = slotId[w]  BY DEF Held
  <1>5. {s \in Slots : ~inUse'[s]} = {s \in Slots : ~inUse[s]} \cup {slotId[w]}
    BY <1>1 DEF ReturnSlot, SetSlot, TypeOK
  <1> QED BY <1>1, <1>3, <1>4, <1>5 DEF Pool!Return

LEMMA PoolTake ==
  ASSUME TypeOK, NEW w \in Ids, NEW s \in Slots, RowsBut(w),
         ~Active(w), Active(w)', slotId'[w] = s, ~inUse[s], SetSlot(s, TRUE, w)
  PROVE  Pool!Take(w, s)
  <1>1. \A v \in Ids \ {w} : (Active(v)' <=> Active(v)) /\ slotId'[v] = slotId[v]
    BY DEF RowsBut, Active
  <1>2. Held' = [Held EXCEPT ![w] = s]  BY <1>1 DEF Held
  <1>3. Held[w] = NoSlot  BY DEF Held
  <1>4. {r \in Slots : ~inUse'[r]} = {r \in Slots : ~inUse[r]} \ {s}
    BY DEF SetSlot, TypeOK
  <1> QED BY <1>2, <1>3, <1>4 DEF Pool!Take

PoolStep == Pool!PoolNext \/ UNCHANGED Pool!poolVars

LEMMA QuietPool ==
  ASSUME UNCHANGED <<rowVars, slotVars>> PROVE PoolStep
  BY DEF PoolStep, Pool!poolVars, Held, Active, rowVars, slotVars

LEMMA PoolSteps ==
  ASSUME Inv, LInv, [Next]_vars PROVE PoolStep
  <1>0. TypeOK /\ LeaseExact  BY DEF Inv, LInv
  <1>1. ASSUME NEW t \in Threads, Lease(t) PROVE PoolStep
    <2> DEFINE n == Leased(th[t].obj, th[t].slot)
    <2>1. PICK st \in {"ABSENT", "STOPPED", "ERROR"} : Holding(t, st)
      BY <1>1, LeaseDoes
    <2>2. PICK w \in Ids, s \in Slots : w = th[t].obj.id /\ s = th[t].slot
      BY <1>1, <2>1, LeaseDoes DEF Holding
    <2>3. /\ ~inUse[s] /\ Flushed(t, n)
          /\ n.status = "STARTING" /\ n.slot = s /\ SetSlot(s, TRUE, w)
      BY <1>1, <2>2, LeaseDoes
    <2> HIDE DEF n
    <2>4. /\ RowsBut(w) /\ ~Active(w) /\ Active(w)' /\ slotId'[w] = s
      BY <2>1, <2>2, <2>3 DEF Holding, Flushed, RowIs, Active, ActiveStates
    <2>5. Pool!Take(w, s)  BY <1>0, <2>3, <2>4, PoolTake
    <2> QED BY <2>5 DEF PoolStep, Pool!PoolNext
  <1>2. ASSUME NEW t \in Threads, Fail(t) PROVE PoolStep
    <2> DEFINE n == Failed(t)
    <2>1. Holding(t, "STARTING") /\ slotId[th[t].obj.id] = th[t].slot
      BY <1>2, FailDoes, LaunchHolds DEF Launch
    <2>2. PICK w \in Ids : w = th[t].obj.id  BY <2>1 DEF Holding
    <2>3. Flushed(t, n) /\ n.status = "ERROR" /\ ReturnSlot(th[t].slot)
      BY <1>2, FailDoes
    <2> HIDE DEF n
    <2>4. RowsBut(w) /\ Active(w) /\ ~Active(w)' /\ ReturnSlot(slotId[w])
      BY <2>1, <2>2, <2>3 DEF Holding, Flushed, RowIs, Active, ActiveStates
    <2>5. Pool!Return(w)  BY <1>0, <2>4, PoolReturn
    <2> QED BY <2>5 DEF PoolStep, Pool!PoolNext
  <1>3. ASSUME NEW t \in Threads, Free(t) PROVE PoolStep
    <2> DEFINE n == Freed(t)
    <2>1. Holding(t, "STOPPING")  BY <1>3, FreeDoes
    <2>2. PICK w \in Ids : w = th[t].obj.id  BY <2>1 DEF Holding
    <2>3. Flushed(t, n) /\ n.status = "STOPPED" /\ ReturnSlot(th[t].obj.slot)
      BY <1>3, FreeDoes
    <2> HIDE DEF n
    <2>4. RowsBut(w) /\ Active(w) /\ ~Active(w)' /\ ReturnSlot(slotId[w])
      BY <2>1, <2>2, <2>3 DEF Holding, Flushed, RowIs, Active, ActiveStates
    <2>5. Pool!Return(w)  BY <1>0, <2>4, PoolReturn
    <2> QED BY <2>5 DEF PoolStep, Pool!PoolNext
  <1>4. ASSUME NEW t \in Threads, Commit(t) PROVE PoolStep
    <2> DEFINE n == Committed(t)
               w == th[t].obj.id
    <2>1. Holding(t, "STARTING") /\ slotId[w] = th[t].slot
      BY <1>4, CommitDoes, LaunchHolds DEF Launch
    <2>2. Flushed(t, n) /\ n.status = "RUNNING" /\ n.slot = th[t].slot
          /\ UNCHANGED slotVars
      BY <1>4, CommitDoes
    <2> HIDE DEF n
    <2> QED BY <2>1, <2>2, PoolUnchanged
            DEF PoolStep, Holding, Flushed, RowIs, Active, ActiveStates
  <1>5. ASSUME NEW t \in Threads, Mark(t) PROVE PoolStep
    <2> DEFINE n == Marked(t)
               w == th[t].obj.id
    <2>1. PICK st \in ActiveStates : Holding(t, st)  BY <1>5, MarkDoes
    <2>2. Flushed(t, n) /\ n.status = "STOPPING" /\ n.slot = th[t].obj.slot
          /\ UNCHANGED slotVars
      BY <1>5, MarkDoes
    <2> HIDE DEF n
    <2> QED BY <2>1, <2>2, PoolUnchanged
            DEF PoolStep, Holding, Flushed, RowIs, Active, ActiveStates
  <1>6. ASSUME NEW t \in Threads, Erase(t) PROVE PoolStep
    <2> DEFINE w == th[t].obj.id
    <2>1. PICK st \in {"STOPPED", "ERROR"} : Holding(t, st)  BY <1>6, EraseDoes
    <2>2. RowsBut(w) /\ status'[w] = "ABSENT" /\ UNCHANGED slotVars
      BY <1>6, EraseDoes
    <2> QED BY <2>1, <2>2, PoolUnchanged
            DEF PoolStep, Holding, Active, ActiveStates
  <1>7. CASE UNCHANGED <<rowVars, slotVars>>  BY <1>7, QuietPool
  <1>8. ASSUME NEW t \in Threads, ThreadStep(t) PROVE PoolStep
    BY <1>1, <1>2, <1>3, <1>4, <1>5, <1>6, <1>7, <1>8
    DEF ThreadStep, StartStep, ReleaseStep, DeleteStep, LoopStep, TimeoutStep,
        StartProbe, Pick, NoCapacity, Refresh, Prepare, Run, RunFails, Ready,
        NotReady, Confirm, Except, Remove, Purge, PurgeFails, ReleaseNext,
        KeepNext, LoopEnd, RemoveTimesOut, LaunchTimesOut, InspectTimesOut
  <1>9. CASE \/ UNCHANGED vars \/ Environment
             \/ Boot \/ Reconcile \/ ReapSelect
             \/ \E t \in Requests : Arrival(t)
    BY <1>7, <1>9
    DEF vars, Environment, Crash, Reboot, ContainerExit, Boot, Reconcile,
        ReapSelect, Arrival, StartSelect, StopSelect, DeleteSelect, StopAllSelect
  <1> QED BY <1>8, <1>9 DEF Next

\* In an orderly behaviour every step of the control plane is a step of the pool
\* or none: a start takes a slot the pool offers, a failed start or a release
\* gives back the slot its workspace holds, and nothing else moves a slot.
THEOREM PoolImplemented == OrderlySpec => ImplementsPool
  <1>1. Init => Pool!PoolInit
    <2> SUFFICES ASSUME Init PROVE Pool!PoolInit  OBVIOUS
    <2>1. Held = [w \in Ids |-> NoSlot]
      BY DEF Init, Held, Active, ActiveStates
    <2>2. {s \in Slots : ~inUse[s]} = Slots  BY DEF Init
    <2> QED BY <2>1, <2>2 DEF Pool!PoolInit
  <1>2. Init => Inv /\ LInv  BY InitInv, InitL
  <1>3. Inv /\ LInv /\ [OrderlyNext]_vars => Inv' /\ LInv'
    BY NextInv, NextL DEF OrderlyNext
  <1>4. Inv /\ LInv /\ [OrderlyNext]_vars => [Pool!PoolNext]_(Pool!poolVars)
    BY PoolSteps DEF PoolStep, OrderlyNext
  <1> QED BY <1>1, <1>2, <1>3, <1>4, PTL
          DEF OrderlySpec, ImplementsPool, Pool!PoolSpec

-----------------------------------------------------------------------------
(* The host: what a step starts, deletes and moves *)

\* The transactions that write a row; no podman command runs in them.
RowStep(t) == Lease(t) \/ Commit(t) \/ Fail(t) \/ Mark(t) \/ Free(t) \/ Erase(t)

LEMMA RowStepDoes ==
  ASSUME Inv, LInv, NEW t \in Threads, RowStep(t)
  PROVE  /\ Working(t) /\ th[t].obj.id \in Ids /\ RowsBut(th[t].obj.id)
         /\ Others(t) /\ UNCHANGED <<podman, secrets>>
  <1>1. CASE Lease(t)
    BY <1>1, LeaseDoes DEF Holding, Flushed, Moved, hostVars
  <1>2. CASE Commit(t)
    BY <1>2, CommitDoes, LaunchHolds DEF Holding, Flushed, Moved, hostVars, Launch
  <1>3. CASE Fail(t)
    BY <1>3, FailDoes, LaunchHolds DEF Holding, Flushed, Idled, hostVars, Launch
  <1>4. CASE Mark(t)  BY <1>4, MarkDoes DEF Holding, Flushed, Moved, hostVars
  <1>5. CASE Free(t)  BY <1>5, FreeDoes DEF Holding, Flushed, Moved, hostVars
  <1>6. CASE Erase(t)  BY <1>6, EraseDoes DEF Holding, Idled, hostVars
  <1> QED BY <1>1, <1>2, <1>3, <1>4, <1>5, <1>6 DEF RowStep

LEMMA KindOfStep ==
  ASSUME [Next]_vars
  PROVE  (\E t \in Threads : RowStep(t)) \/ UNCHANGED <<rowVars, slotVars>>
  <1>1. ASSUME NEW t \in Threads, ThreadStep(t)
        PROVE  RowStep(t) \/ UNCHANGED <<rowVars, slotVars>>
    BY <1>1
    DEF ThreadStep, StartStep, ReleaseStep, DeleteStep, LoopStep, TimeoutStep,
        StartProbe, Pick, NoCapacity, Refresh, Prepare, Run, RunFails, Ready,
        NotReady, Confirm, Except, Remove, Purge, PurgeFails, ReleaseNext,
        KeepNext, LoopEnd, RemoveTimesOut, LaunchTimesOut, InspectTimesOut, RowStep
  <1>2. CASE \/ UNCHANGED vars \/ Environment
             \/ Boot \/ Reconcile \/ ReapSelect
             \/ \E t \in Requests : Arrival(t)
    BY <1>2
    DEF vars, Environment, Crash, Reboot, ContainerExit, Boot, Reconcile,
        ReapSelect, Arrival, StartSelect, StopSelect, DeleteSelect, StopAllSelect
  <1> QED BY <1>1, <1>2 DEF Next

\* Only a launch starts a container, the one it names, on a port nobody uses.
Launches(t, n) == At(t, "run") /\ n = RuntimeName(t) /\ ~PortBusy(th[t].slot)
Starts == \A n \in Names : Running(n)' => \/ Running(n)
                                          \/ \E t \in Threads : Launches(t, n)

\* Only a delete takes a secret away, that of its own project.
Burns == \A p \in secrets : p \in secrets' \/ \E t \in Threads :
                                At(t, "purge") /\ th[t].proj = p

LEMMA NotStarted ==
  ASSUME \A n \in Names : podman'[n] = "running" => podman[n] = "running"
  PROVE  \A n \in Names : Running(n)' => Running(n)
  BY DEF Running

LEMMA RemovedStarts ==
  ASSUME Inv, NEW n, podman' \in {podman, Removed(n)}
  PROVE  \A m \in Names : Running(m)' => Running(m)
  <1>1. \A m \in Names : podman'[m] = "running" => podman[m] = "running"
    BY DEF Removed, Inv, TypeOK
  <1> QED BY <1>1, NotStarted

LEMMA ThreadStarts ==
  ASSUME Inv, NEW t \in Threads, ThreadStep(t)
  PROVE  \A n \in Names : Running(n)' => Running(n) \/ Launches(t, n)
  <1>1. CASE UNCHANGED podman  BY <1>1, NotStarted
  <1>2. CASE Prepare(t) \/ NotReady(t) \/ Except(t) \/ Remove(t)
    BY <1>2, RemovedStarts DEF Prepare, NotReady, Except, Remove, Rm
  <1>3. CASE Run(t)
    BY <1>3 DEF Run, Launches, Running, CanRun, Inv, TypeOK
  <1>4. CASE RunFails(t)
    BY <1>4, NotStarted DEF RunFails, Inv, TypeOK
  <1>5. CASE RemoveTimesOut(t)  BY <1>5, RemovedStarts DEF RemoveTimesOut
  <1>6. CASE LaunchTimesOut(t)
    <2>1. CASE At(t, "run")
      <3>1. CASE CanRun(t)
        BY <1>6, <2>1, <3>1
        DEF LaunchTimesOut, Launches, Running, CanRun, Inv, TypeOK
      <3>2. CASE ~CanRun(t)  BY <1>1, <1>6, <2>1, <3>2 DEF LaunchTimesOut
      <3> QED BY <3>1, <3>2
    <2>2. CASE ~At(t, "run")  BY <1>6, <2>2, RemovedStarts DEF LaunchTimesOut
    <2> QED BY <2>1, <2>2
  <1> QED BY <1>1, <1>2, <1>3, <1>4, <1>5, <1>6
          DEF ThreadStep, StartStep, ReleaseStep, DeleteStep, LoopStep,
              TimeoutStep, StartProbe, Pick, NoCapacity, Lease, Refresh, Ready,
              Commit, Confirm, Fail, Mark, Free, Purge, PurgeFails, Erase,
              ReleaseNext, KeepNext, LoopEnd, InspectTimesOut, hostVars

LEMMA NextStarts ==
  ASSUME Inv, [Next]_vars PROVE Starts /\ Burns
  <1>1. Starts
    <2>1. CASE \/ UNCHANGED vars \/ Environment
               \/ Boot \/ Reconcile \/ ReapSelect
               \/ \E t \in Requests : Arrival(t)
      <3>1. \A n \in Names : podman'[n] = "running" => podman[n] = "running"
        BY <2>1
        DEF vars, hostVars, Environment, Crash, Reboot, ContainerExit, Boot,
            Reconcile, ReapSelect, Arrival, StartSelect, StopSelect,
            DeleteSelect, StopAllSelect, Inv, TypeOK
      <3> QED BY <3>1, NotStarted DEF Starts
    <2> QED BY <2>1, ThreadStarts DEF Next, Starts
  <1>2. Burns
    <2>1. ASSUME NEW t \in Threads, Purge(t) \/ PurgeFails(t) PROVE Burns
      BY <2>1 DEF Purge, PurgeFails, Burns
    <2>2. CASE secrets \subseteq secrets'  BY <2>2 DEF Burns
    <2>3. ASSUME NEW t \in Threads, ThreadStep(t) PROVE Burns
      BY <2>1, <2>2, <2>3
      DEF ThreadStep, StartStep, ReleaseStep, DeleteStep, LoopStep, TimeoutStep,
          StartProbe, Pick, NoCapacity, Lease, Refresh, Prepare, Run, RunFails,
          Ready, NotReady, Commit, Confirm, Except, Fail, Mark, Remove, Free,
          Erase, ReleaseNext, KeepNext, LoopEnd, RemoveTimesOut, LaunchTimesOut,
          InspectTimesOut, hostVars
    <2>4. CASE \/ UNCHANGED vars \/ Environment
               \/ Boot \/ Reconcile \/ ReapSelect
               \/ \E t \in Requests : Arrival(t)
      BY <2>2, <2>4
      DEF vars, hostVars, Environment, Crash, Reboot, ContainerExit, Boot,
          Reconcile, ReapSelect, Arrival, StartSelect, StopSelect, DeleteSelect,
          StopAllSelect
    <2> QED BY <2>3, <2>4 DEF Next
  <1> QED BY <1>1, <1>2

\* A step moves the thread that takes it, and a thread that comes to a place
\* that matters below comes there by the action named.
LEMMA Alone ==
  ASSUME Inv, NEW t \in Threads, ThreadStep(t)
  PROVE  \A u \in Threads \ {t} : th'[u] = th[u]
  <1>1. \E r : th' = [th EXCEPT ![t] = r]
    <2>1. CASE StartStep(t)
      BY <2>1 DEF StartStep, StartProbe, Pick, NoCapacity, Lease, Refresh,
                  Prepare, Run, RunFails, Ready, NotReady, Commit, Confirm,
                  Except, Fail, Goto, Load, Finish
    <2>2. CASE ReleaseStep(t) \/ DeleteStep(t) \/ TimeoutStep(t)
      BY <2>2 DEF ReleaseStep, DeleteStep, TimeoutStep, Mark, Remove, Free,
                  Purge, PurgeFails, Erase, RemoveTimesOut, LaunchTimesOut,
                  InspectTimesOut, Goto, Load, Finish
    <2>3. CASE LoopStep(t)
      BY <2>3 DEF LoopStep, ReleaseNext, KeepNext, LoopEnd, Finish
    <2> QED BY <2>1, <2>2, <2>3 DEF ThreadStep
  <1> QED BY <1>1 DEF Inv, TypeOK

Places == {"run", "wait", "commit", "mark", "free"}

LEMMA OwnProgress ==
  ASSUME Inv, LInv, NEW t \in Threads, ThreadStep(t)
  PROVE  \/ Prepare(t) \/ Run(t) \/ Ready(t) \/ ReleaseNext(t) \/ Remove(t)
         \/ th'[t].pc \notin Places
         \/ StartProbe(t) /\ th'[t].pc = "mark" /\ ~Reconciling(t)'
  <1>1. CASE StartProbe(t)
    <2>1. th[t].op = "start"
      BY <1>1, AtWork DEF StartProbe, At, Starting
    <2>2. Idled(t) \/ Moved(t, "mark", th[t].obj)
      BY <1>1, FinishMoves, GotoMoves DEF StartProbe, Inv, PCs
    <2> QED BY <1>1, <2>1, <2>2 DEF Idled, Moved, Idle, Reconciling, Places
  <1>2. CASE \/ RunFails(t) \/ NotReady(t) \/ Confirm(t) \/ Except(t)
             \/ Purge(t) \/ LaunchTimesOut(t)
    BY <1>2, GotoMoves, FinishMoves
    DEF RunFails, NotReady, Confirm, Except, Purge, LaunchTimesOut, Moved,
        Idled, Idle, Inv, PCs, Places
  <1>3. CASE NoCapacity(t) \/ PurgeFails(t) \/ RemoveTimesOut(t) \/ InspectTimesOut(t)
    BY <1>3, FinishMoves
    DEF NoCapacity, PurgeFails, RemoveTimesOut, InspectTimesOut, Idled, Idle,
        Inv, Places
  <1>4. CASE Pick(t) \/ KeepNext(t)
    BY <1>4 DEF Pick, KeepNext, At, Inv, TypeOK, ThreadStates, Places
  <1>5. CASE Refresh(t)
    <2>1. th' = [th EXCEPT ![t].pc = "prepare", ![t].obj = Row(th[t].obj.id)]
          \/ Idled(t)
      BY <1>5, FinishMoves DEF Refresh, Load, Inv
    <2> QED BY <2>1 DEF Inv, TypeOK, ThreadStates, Idled, Idle, Places
  <1>6. CASE RowStep(t)
    <2>1. CASE Lease(t) \/ Commit(t) \/ Mark(t)
      BY <2>1, LeaseDoes, CommitDoes, MarkDoes DEF Moved, Places
    <2>2. CASE Fail(t) \/ Erase(t)
      BY <2>2, FailDoes, EraseDoes DEF Idled, Idle, Places
    <2>3. CASE Free(t)  BY <2>3, FreeDoes DEF Moved, Places
    <2> QED BY <1>6, <2>1, <2>2, <2>3 DEF RowStep
  <1>7. CASE LoopEnd(t)
    <2> DEFINE r == IF th[t].op = "reconcile"
                    THEN [Idle EXCEPT !.pc = "reap", !.op = "reap"] ELSE Idle
    <2>1. r.pc \in {"idle", "reap"}  BY DEF Idle
    <2>2. th' = [th EXCEPT ![t] = r]  BY <1>7 DEF LoopEnd, Finish
    <2> HIDE DEF r
    <2> QED BY <2>1, <2>2 DEF Inv, TypeOK, Places
  <1> QED BY <1>1, <1>2, <1>3, <1>4, <1>5, <1>6, <1>7
          DEF ThreadStep, StartStep, ReleaseStep, DeleteStep, LoopStep,
              TimeoutStep, RowStep

\* The step that brings t to one of the places.
Arrives(t) == Prepare(t) \/ Run(t) \/ Ready(t) \/ ReleaseNext(t) \/ Remove(t)

LEMMA ArrivalPlaces ==
  ASSUME Inv, NEW t \in Threads, Arrival(t)
  PROVE  /\ th'[t].pc \notin Places \/ (th'[t].pc = "mark" /\ ~Reconciling(t)')
         /\ th'[t].pc # "lease"
         /\ \A u \in Threads \ {t} : th'[u] = th[u]
  <1>1. \E r : /\ th' = [th EXCEPT ![t] = r]
               /\ r.pc \notin Places \/ (r.pc = "mark" /\ r.op \in {"stop", "delete"})
               /\ r.pc # "lease"
    <2>1. CASE \E p \in Projects : StartSelect(t, p)
      <3> PICK w, p, x : /\ x \in {"probe", "pick"}
                         /\ th' = [th EXCEPT ![t] = [Idle EXCEPT !.op = "start",
                                     !.proj = p, !.obj = Row(w), !.pc = x]]
        BY <2>1 DEF StartSelect
      <3> DEFINE r == [Idle EXCEPT !.op = "start", !.proj = p, !.obj = Row(w), !.pc = x]
      <3>1. th' = [th EXCEPT ![t] = r]  OBVIOUS
      <3>2. r.pc \notin Places \cup {"lease"}  BY DEF Idle, Places
      <3> QED BY <3>1, <3>2
    <2>2. CASE \E w \in Ids : StopSelect(t, w) \/ DeleteSelect(t, w)
      <3> PICK w \in Ids, x \in {"mark", "purge"}, h \in {"stop", "delete"} :
              th' = [th EXCEPT ![t] = [Idle EXCEPT !.pc = x, !.op = h,
                                         !.proj = project[w], !.obj = Row(w)]]
        <4> PICK w \in Ids : StopSelect(t, w) \/ DeleteSelect(t, w)  BY <2>2
        <4>1. CASE StopSelect(t, w)  BY <4>1 DEF StopSelect
        <4>2. CASE DeleteSelect(t, w)  BY <4>2 DEF DeleteSelect
        <4> QED BY <4>1, <4>2
      <3> DEFINE r == [Idle EXCEPT !.pc = x, !.op = h, !.proj = project[w], !.obj = Row(w)]
      <3>1. th' = [th EXCEPT ![t] = r]  OBVIOUS
      <3>2. /\ r.pc \notin Places \/ (r.pc = "mark" /\ r.op \in {"stop", "delete"})
            /\ r.pc # "lease"
        BY DEF Idle, Places
      <3> QED BY <3>1, <3>2
    <2>3. CASE \E u \in Users : StopAllSelect(t, u)
      <3> PICK ws : Loop(t, "stopall", ws)  BY <2>3 DEF StopAllSelect
      <3> DEFINE r == [Idle EXCEPT !.pc = "next", !.op = "stopall", !.todo = LoadRows(ws)]
      <3>1. th' = [th EXCEPT ![t] = r]  BY DEF Loop
      <3>2. r.pc \notin Places \cup {"lease"}  BY DEF Idle, Places
      <3> QED BY <3>1, <3>2
    <2> QED BY <2>1, <2>2, <2>3 DEF Arrival
  <1> QED BY <1>1 DEF Inv, TypeOK, Reconciling

LEMMA Progress ==
  ASSUME Inv, LInv, [Next]_vars, NEW t \in Threads
  PROVE  \/ th'[t] = th[t] \/ Arrives(t) \/ th'[t].pc \notin Places
         \/ th'[t].pc = "mark" /\ ~Reconciling(t)'
  <1>1. ASSUME NEW u \in Threads, ThreadStep(u)
        PROVE  \/ th'[t] = th[t] \/ Arrives(t) \/ th'[t].pc \notin Places
               \/ th'[t].pc = "mark" /\ ~Reconciling(t)'
    BY <1>1, Alone, OwnProgress DEF Arrives
  <1>2. ASSUME NEW u \in Requests, Arrival(u)
        PROVE  \/ th'[t] = th[t] \/ th'[t].pc \notin Places
               \/ th'[t].pc = "mark" /\ ~Reconciling(t)'
    BY <1>2, ArrivalPlaces DEF Threads
  <1>3. CASE Boot \/ Reconcile \/ ReapSelect
    BY <1>3 DEF Boot, Reconcile, ReapSelect, Loop, Idle, Inv, TypeOK, Places
  <1>4. CASE UNCHANGED vars \/ Environment
    BY <1>4 DEF vars, Environment, Crash, Reboot, ContainerExit, Idle, Places
  <1> QED BY <1>1, <1>2, <1>3, <1>4 DEF Next

\* A row that is RUNNING after a step was so before, or has just become so.
LEMMA BecomesRunning ==
  ASSUME Inv, LInv, [Next]_vars, NEW w \in Ids, status'[w] = "RUNNING"
  PROVE  \/ /\ status[w] = "RUNNING" /\ slotId'[w] = slotId[w]
            /\ ctrName'[w] = ctrName[w] /\ project'[w] = project[w]
         \/ \E t \in Threads : Commit(t) /\ th[t].obj.id = w
  <1>1. CASE UNCHANGED <<rowVars, slotVars>>  BY <1>1 DEF rowVars
  <1>2. ASSUME NEW t \in Threads, RowStep(t)
        PROVE  \/ /\ status[w] = "RUNNING" /\ slotId'[w] = slotId[w]
                  /\ ctrName'[w] = ctrName[w] /\ project'[w] = project[w]
               \/ Commit(t) /\ th[t].obj.id = w
    <2>1. CASE w # th[t].obj.id  BY <1>2, <2>1, RowStepDoes DEF RowsBut
    <2>2. CASE w = th[t].obj.id
      <3>1. CASE Lease(t)  BY <2>2, <3>1, LeaseDoes DEF Flushed, RowIs
      <3>2. CASE Fail(t)  BY <2>2, <3>2, FailDoes DEF Flushed, RowIs
      <3>3. CASE Mark(t)  BY <2>2, <3>3, MarkDoes DEF Flushed, RowIs
      <3>4. CASE Free(t)  BY <2>2, <3>4, FreeDoes DEF Flushed, RowIs
      <3>5. CASE Erase(t)  BY <2>2, <3>5, EraseDoes
      <3> QED BY <1>2, <2>2, <3>1, <3>2, <3>3, <3>4, <3>5 DEF RowStep
    <2> QED BY <2>1, <2>2
  <1> QED BY <1>1, <1>2, KindOfStep

\* A slot is one active row's.
LEMMA SlotOwner ==
  ASSUME LInv, NEW v \in Ids, NEW w \in Ids, Active(v), Active(w),
         slotId[v] = slotId[w]
  PROVE  v = w
  BY DEF LInv, LeaseExact

\* The container that a launch names is that of an active row of its slot.
LEMMA LaunchClaims ==
  ASSUME Inv, LInv, NEW t \in Threads, NEW s \in Slots, NEW w \in Ids,
         Launches(t, <<s, w>>)
  PROVE  /\ th[t].obj.id = w /\ th[t].slot = s /\ th[t].pc = "run"
         /\ status[w] = "STARTING" /\ slotId[w] = s /\ Active(w)
         /\ Working(t) /\ ~PortBusy(s)
  <1>1. th[t].pc = "run"  BY DEF Launches, At
  <1>2. /\ Holding(t, "STARTING") /\ slotId[th[t].obj.id] = th[t].slot
        /\ RuntimeName(t) = <<th[t].slot, th[t].obj.id>>
    BY <1>1, LaunchHolds DEF Launch
  <1>3. th[t].slot = s /\ th[t].obj.id = w  BY <1>2 DEF Launches
  <1> QED BY <1>1, <1>2, <1>3 DEF Holding, Active, ActiveStates, Launches

LEMMA OwnPortKept ==
  ASSUME Inv, LInv, Starts, NEW s \in Slots, NEW w \in Ids, OwnPort(s, w),
         Active(w), slotId[w] = s
  PROVE  OwnPort(s, w)'
  <1> SUFFICES ASSUME NEW v \in Ids, Running(<<s, v>>)' PROVE v = w
    BY DEF OwnPort
  <1>1. <<s, v>> \in Names  BY DEF Names
  <1>2. CASE Running(<<s, v>>)  BY <1>2 DEF OwnPort
  <1>3. ASSUME NEW t \in Threads, Launches(t, <<s, v>>) PROVE v = w
    BY <1>3, LaunchClaims, SlotOwner
  <1> QED BY <1>1, <1>2, <1>3 DEF Starts

LEMMA OnePortH ==
  ASSUME Inv, LInv, HInv, Starts PROVE OnePort'
  <1> SUFFICES ASSUME NEW s \in Slots, NEW v \in Ids, NEW w \in Ids,
                      Running(<<s, v>>)', Running(<<s, w>>)'
      PROVE  v = w
    BY DEF OnePort
  <1>1. <<s, v>> \in Names /\ <<s, w>> \in Names  BY DEF Names
  <1>2. CASE Running(<<s, v>>) /\ Running(<<s, w>>)  BY <1>2 DEF HInv, OnePort
  <1>3. ASSUME NEW t \in Threads, NEW x \in Ids, NEW y \in Ids,
               Launches(t, <<s, x>>), Running(<<s, y>>)
        PROVE  FALSE
    BY <1>3, LaunchClaims DEF PortBusy, Running
  <1>4. ASSUME NEW t \in Threads, NEW u \in Threads,
               Launches(t, <<s, v>>), Launches(u, <<s, w>>)
        PROVE  v = w
    BY <1>4, LaunchClaims, SlotOwner
  <1> QED BY <1>1, <1>2, <1>3, <1>4 DEF Starts

LEMMA CommitHolds ==
  ASSUME Inv, LInv, NEW t \in Threads, th[t].pc \in {"run", "wait", "commit"}
  PROVE  /\ Working(t) /\ th[t].obj.id \in Ids /\ th[t].slot \in Slots
         /\ Active(th[t].obj.id) /\ status[th[t].obj.id] = "STARTING"
         /\ slotId[th[t].obj.id] = th[t].slot
         /\ project[th[t].obj.id] = th[t].proj
         /\ th[t].proj \in Projects /\ th[t].proj # None
         /\ RuntimeName(t) = <<th[t].slot, th[t].obj.id>>
  BY LaunchHolds DEF Launch, Holding, Active, ActiveStates

\* Nobody deletes the secret of a project that another thread works for, nor of
\* one with a running workspace.
LEMMA SecretKept ==
  ASSUME Inv, LInv, Burns, NEW p \in secrets, p # None,
         \/ \E w \in Ids : status[w] = "RUNNING" /\ project[w] = p
         \/ \E t \in Threads : th[t].proj = p /\ ~At(t, "purge")
  PROVE  p \in secrets'
  <1> SUFFICES ASSUME NEW u \in Threads, At(u, "purge"), th[u].proj = p
      PROVE  FALSE
    BY DEF Burns
  <1>1. Working(u) /\ th[u].pc = "purge"  BY DEF At, Working, Waiting
  <1>2. PICK st \in {"STOPPED", "ERROR"} : Holding(u, st)
    BY <1>1, HoldsRow DEF StatusAt, Launch
  <1>3. /\ th[u].obj.id \in Ids /\ project[th[u].obj.id] = p
        /\ status[th[u].obj.id] = st
    BY <1>2 DEF Holding, Task
  <1>4. ASSUME NEW w \in Ids, status[w] = "RUNNING", project[w] = p PROVE FALSE
    BY <1>3, <1>4 DEF LInv, OneRow
  <1>5. ASSUME NEW t \in Threads, th[t].proj = p, ~At(t, "purge") PROVE FALSE
    <2>1. t # u  BY <1>5
    <2>2. p \in Touches(t) /\ p \in Touches(u)  BY <1>5 DEF Touches
    <2> QED BY <2>1, <2>2 DEF LInv, Apart
  <1> QED BY <1>4, <1>5

LEMMA CommitRow ==
  ASSUME Inv, LInv, NEW t \in Threads, Commit(t)
  PROVE  LET w == th[t].obj.id
         IN  /\ th[t].pc = "commit" /\ w \in Ids
             /\ slotId'[w] = th[t].slot /\ ctrName'[w] = <<th[t].slot, w>>
             /\ project'[w] = th[t].proj
             /\ UNCHANGED <<podman, secrets>>
  <1>1. th[t].pc = "commit"  BY CommitDoes
  <1>2. /\ th[t].obj.id \in Ids /\ project[th[t].obj.id] = th[t].proj
        /\ RuntimeName(t) = <<th[t].slot, th[t].obj.id>>
    BY <1>1, CommitHolds
  <1>3. /\ RowIs(th[t].obj.id, Committed(t)) /\ Committed(t).slot = th[t].slot
        /\ Committed(t).ctr = RuntimeName(t)
        /\ UNCHANGED <<project, podman, secrets>>
    BY CommitDoes DEF Flushed, hostVars
  <1> QED BY <1>1, <1>2, <1>3 DEF RowIs

LEMMA GoesOn ==
  ASSUME Inv, NEW t \in Threads, Prepare(t) \/ Run(t) \/ Ready(t)
  PROVE  /\ th'[t].obj = th[t].obj /\ th'[t].proj = th[t].proj
         /\ th'[t].slot = th[t].slot /\ th'[t].op = th[t].op
         /\ Prepare(t) => th'[t].pc = "run" /\ secrets' = secrets \cup {th[t].proj}
         /\ Run(t) => th[t].pc = "run" /\ th'[t].pc = "wait" /\ secrets' = secrets
         /\ Ready(t) => /\ th[t].pc = "wait" /\ th'[t].pc = "commit"
                        /\ Running(RuntimeName(t)) /\ UNCHANGED <<podman, secrets>>
  <1>1. /\ Prepare(t) => Moved(t, "run", th[t].obj)
        /\ Run(t) => Moved(t, "wait", th[t].obj)
        /\ Ready(t) => Moved(t, "commit", th[t].obj)
    BY GotoMoves DEF Prepare, Run, Ready, Inv, PCs
  <1> QED BY <1>1 DEF Prepare, Run, Ready, Moved, At, hostVars

LEMMA ReleaseNextDoes ==
  ASSUME Inv, NEW t \in Threads, ReleaseNext(t)
  PROVE  /\ th[t].pc = "next" /\ th'[t].pc = "mark" /\ th'[t].op = th[t].op
         /\ UNCHANGED <<rowVars, slotVars, hostVars, up>>
         /\ \E o \in th[t].todo : /\ Reconciling(t) => ~Usable(o)
                                 /\ th'[t].obj = o
                                 /\ th'[t].todo = th[t].todo \ {o}
  <1>1. PICK o \in th[t].todo :
          /\ Reconciling(t) => ~Usable(o)
          /\ th' = [th EXCEPT ![t].pc = "mark", ![t].obj = o, ![t].todo = @ \ {o},
                              ![t].proj = project[o.id]]
    BY DEF ReleaseNext
  <1> DEFINE r == [th[t] EXCEPT !.pc = "mark", !.obj = o, !.todo = @ \ {o},
                                !.proj = project[o.id]]
  <1>2. th' = [th EXCEPT ![t] = r]  BY <1>1
  <1>3. /\ r.pc = "mark" /\ r.op = th[t].op /\ r.obj = o
        /\ r.todo = th[t].todo \ {o}
    BY ObjectTypes DEF Inv, ThreadStates
  <1> HIDE DEF r
  <1>4. th'[t] = r  BY <1>2 DEF Inv, TypeOK
  <1> QED BY <1>1, <1>3, <1>4 DEF ReleaseNext, At

LEMMA RemoveDoes ==
  ASSUME Inv, NEW t \in Threads, Remove(t)
  PROVE  /\ th[t].pc = "remove" /\ th'[t].pc = "free"
         /\ Moved(t, "free", th[t].obj) /\ Rm(th[t].obj.ctr)
         /\ UNCHANGED <<rowVars, slotVars, secrets, up>>
  BY GotoMoves DEF Remove, At, Moved, Inv, PCs

LEMMA SecretH ==
  ASSUME Inv, LInv, HInv, [Next]_vars PROVE SecretOK'
  <1>0. Burns /\ SecretOK  BY NextStarts DEF HInv
  <1>1. ASSUME NEW w \in Ids, status'[w] = "RUNNING"
        PROVE  project'[w] \in secrets'
    <2>1. CASE status[w] = "RUNNING" /\ project'[w] = project[w]
      <3>1. project[w] \in secrets /\ project[w] # None
        BY <1>0, <2>1 DEF SecretOK, Inv, RowOK, Exists
      <3> QED BY <1>0, <2>1, <3>1, SecretKept
    <2>2. ASSUME NEW t \in Threads, Commit(t), th[t].obj.id = w
          PROVE  project'[w] \in secrets'
      BY <1>0, <2>2, CommitRow DEF SecretOK
    <2> QED BY <1>1, <2>1, <2>2, BecomesRunning
  <1>2. ASSUME NEW t \in Threads, th'[t].pc \in {"run", "wait", "commit"}
        PROVE  th'[t].proj \in secrets'
    <2>1. CASE th'[t] = th[t]
      <3>1. th[t].proj \in secrets /\ th[t].proj # None /\ ~At(t, "purge")
        BY <1>0, <1>2, <2>1, CommitHolds DEF SecretOK, At
      <3> QED BY <1>0, <2>1, <3>1, SecretKept
    <2>2. CASE Prepare(t) \/ Run(t) \/ Ready(t)
      BY <1>0, <2>2, GoesOn DEF SecretOK
    <2>3. CASE ReleaseNext(t) \/ Remove(t)
      BY <1>2, <2>3, ReleaseNextDoes, RemoveDoes
    <2> QED BY <1>2, <2>1, <2>2, <2>3, Progress DEF Arrives, Places
  <1> QED BY <1>1, <1>2 DEF SecretOK

LEMMA PortsH ==
  ASSUME Inv, LInv, HInv, [Next]_vars PROVE PortsOK'
  <1>0. Starts /\ PortsOK /\ OnePort  BY NextStarts DEF HInv
  <1>1. ASSUME NEW w \in Ids, status'[w] = "RUNNING"
        PROVE  OwnPort(slotId[w], w)' 
    <2>1. CASE status[w] = "RUNNING" /\ slotId'[w] = slotId[w]
      <3>1. Active(w) /\ slotId[w] \in Slots /\ OwnPort(slotId[w], w)
        BY <1>0, <2>1 DEF PortsOK, Active, ActiveStates, LInv, LeaseExact, Inv, TypeOK
      <3>2. PICK s \in Slots : s = slotId[w]  BY <3>1
      <3>3. OwnPort(s, w)'  BY <1>0, <3>1, <3>2, OwnPortKept
      <3> QED BY <2>1, <3>2, <3>3 DEF OwnPort
    <2>2. ASSUME NEW t \in Threads, Commit(t), th[t].obj.id = w
          PROVE  OwnPort(slotId[w], w)'
      BY <1>0, <2>2, CommitRow DEF PortsOK, OwnPort, At, Running
    <2> QED BY <1>1, <2>1, <2>2, BecomesRunning
  <1>2. ASSUME NEW t \in Threads, th'[t].pc = "commit"
        PROVE  OwnPort(th[t].slot, th[t].obj.id)'
    <2>1. CASE th'[t] = th[t]
      <3>1. PICK s \in Slots, w \in Ids : s = th[t].slot /\ w = th[t].obj.id
        BY <1>2, <2>1, CommitHolds
      <3>2. Active(w) /\ slotId[w] = s /\ OwnPort(s, w)
        BY <1>0, <1>2, <2>1, <3>1, CommitHolds DEF PortsOK, At
      <3>3. OwnPort(s, w)'  BY <1>0, <3>2, OwnPortKept
      <3> QED BY <2>1, <3>1, <3>3 DEF OwnPort
    <2>2. CASE Prepare(t) \/ Run(t) \/ Ready(t)
      <3>1. Ready(t)  BY <1>2, <2>2, GoesOn
      <3>2. th[t].pc = "wait" /\ Running(RuntimeName(t)) /\ UNCHANGED podman
            /\ th'[t].slot = th[t].slot /\ th'[t].obj = th[t].obj
        BY <3>1, GoesOn
      <3>3. Running(<<th[t].slot, th[t].obj.id>>) /\ th[t].slot \in Slots
            /\ th[t].obj.id \in Ids
        BY <3>2, CommitHolds
      <3> QED BY <1>0, <3>2, <3>3 DEF OnePort, OwnPort, Running
    <2>3. CASE ReleaseNext(t) \/ Remove(t)
      BY <1>2, <2>3, ReleaseNextDoes, RemoveDoes
    <2> QED BY <1>2, <2>1, <2>2, <2>3, Progress DEF Arrives, Places
  <1> QED BY <1>1, <1>2 DEF PortsOK, At

\* Before startup is over its reconciliation is all there is.
LEMMA BootAlone ==
  ASSUME Inv, LInv, [Next]_vars, th[Keeper].op = "boot"
  PROVE  ThreadStep(Keeper) \/ UNCHANGED vars \/ Environment
  <1>1. Keeper \in Threads /\ BootOK  BY DEF Threads, LInv
  <1>2. ~up /\ th[Keeper] # Idle  BY <1>1 DEF BootOK, Idle
  <1>3. ASSUME NEW t \in Threads, t # Keeper PROVE th[t].pc = "idle"
    BY <1>1, <1>2, <1>3 DEF BootOK, Idle
  <1>4. ASSUME NEW t \in Threads, ThreadStep(t) PROVE th[t].pc # "idle"
    BY <1>4
    DEF ThreadStep, StartStep, ReleaseStep, DeleteStep, LoopStep, TimeoutStep,
        StartProbe, Pick, NoCapacity, Lease, Refresh, Prepare, Run, RunFails,
        Ready, NotReady, Commit, Confirm, Except, Fail, Mark, Remove, Free,
        Purge, PurgeFails, Erase, ReleaseNext, KeepNext, LoopEnd,
        RemoveTimesOut, LaunchTimesOut, InspectTimesOut, At
  <1>5. ~Boot /\ ~Reconcile /\ ~ReapSelect
    BY <1>1, <1>2 DEF Boot, Reconcile, ReapSelect, BootOK, At
  <1>6. ASSUME NEW t \in Requests PROVE ~Arrival(t)
    BY <1>2 DEF Arrival, StartSelect, StopSelect, DeleteSelect, StopAllSelect, Call
  <1> QED BY <1>3, <1>4, <1>5, <1>6 DEF Next

\* A thread keeps to its operation, and takes rows from its list only.
LEMMA KeepsOp ==
  ASSUME Inv, NEW t \in Threads, ThreadStep(t)
  PROVE  /\ th'[t].op \in {th[t].op, "none", "reap"}
         /\ th'[t].op = "reap" =>
               th[t].op = "reap" \/ (th[t].op = "reconcile" /\ th'[t].todo = {})
         /\ th'[t].todo \subseteq th[t].todo
  <1> DEFINE Keeps == /\ th'[t].op \in {th[t].op, "none", "reap"}
                      /\ th'[t].op = "reap" =>
                            th[t].op = "reap" \/ (th[t].op = "reconcile" /\ th'[t].todo = {})
                      /\ th'[t].todo \subseteq th[t].todo
  <1>1. ASSUME Idled(t) \/ \E x, o : Moved(t, x, o) PROVE Keeps
    BY <1>1 DEF Idled, Moved, Idle
  <1>2. ASSUME NEW x, NEW o, Load(t, x, o) PROVE Keeps
    BY <1>2 DEF Load, Inv, TypeOK, ThreadStates
  <1>3. CASE Finish(t)  BY <1>1, <1>3, FinishMoves DEF Inv
  <1>4. ASSUME NEW x \in PCs, Goto(t, x) PROVE Keeps
    BY <1>1, <1>4, GotoMoves DEF Inv
  <1>5. CASE \/ Lease(t) \/ Refresh(t) \/ Commit(t) \/ Mark(t) \/ Free(t)
             \/ Fail(t) \/ Erase(t)
    <2>1. Finish(t) \/ \E x, o : Load(t, x, o)
      BY <1>5 DEF Lease, Refresh, Commit, Mark, Free, Fail, Erase
    <2> QED BY <1>2, <1>3, <2>1
  <1>6. CASE Pick(t) \/ KeepNext(t)
    BY <1>6 DEF Pick, KeepNext, Inv, TypeOK, ThreadStates
  <1>7. CASE ReleaseNext(t)  BY <1>7, ReleaseNextDoes
  <1>8. CASE LoopEnd(t)
    <2> DEFINE r == [Idle EXCEPT !.pc = "reap", !.op = "reap"]
    <2>1. r.op = "reap" /\ r.todo = {}  BY DEF Idle
    <2>2. Finish(t) \/ (th[t].op = "reconcile" /\ th' = [th EXCEPT ![t] = r])
      BY <1>8 DEF LoopEnd
    <2> HIDE DEF r
    <2> QED BY <1>3, <2>1, <2>2 DEF Inv, TypeOK
  <1>9. CASE \/ StartProbe(t) \/ NoCapacity(t) \/ Prepare(t) \/ Run(t)
             \/ RunFails(t) \/ Ready(t) \/ NotReady(t) \/ Confirm(t) \/ Except(t)
             \/ Remove(t) \/ Purge(t) \/ PurgeFails(t) \/ TimeoutStep(t)
    BY <1>3, <1>4, <1>9
    DEF StartProbe, NoCapacity, Prepare, Run, RunFails, Ready, NotReady, Confirm,
        Except, Remove, Purge, PurgeFails, TimeoutStep, RemoveTimesOut,
        LaunchTimesOut, InspectTimesOut, PCs
  <1> QED BY <1>5, <1>6, <1>7, <1>8, <1>9
          DEF ThreadStep, StartStep, ReleaseStep, DeleteStep, LoopStep

Left(w) == \/ status[w] = "RUNNING"
           \/ Working(Keeper) /\ th[Keeper].obj.id = w
           \/ \E o \in th[Keeper].todo : o.id = w

\* Only Boot begins it, with every active row on its list.
LEMMA BootBegins ==
  ASSUME Inv, LInv, [Next]_vars, th[Keeper].op # "boot", th'[Keeper].op = "boot",
         NEW w \in Ids, Active(w)'
  PROVE  Left(w)'
  <1>0. Keeper \in Threads /\ Keeper \notin Requests
    BY ConstantsAssumption DEF Threads
  <1>1. ASSUME NEW t \in Threads, ThreadStep(t) PROVE FALSE
    BY <1>0, <1>1, Alone, KeepsOp
  <1>2. ASSUME NEW t \in Requests, Arrival(t) PROVE FALSE
    BY <1>0, <1>2, ArrivalPlaces DEF Threads
  <1>3. CASE Reconcile \/ ReapSelect \/ UNCHANGED vars \/ Environment
    <2>1. CASE Reconcile \/ ReapSelect
      BY <1>0, <2>1 DEF Reconcile, ReapSelect, Loop, Idle, Inv, TypeOK
    <2>2. CASE UNCHANGED vars \/ Environment
      BY <1>0, <2>2 DEF Idle, vars, Environment, Crash, Reboot, ContainerExit
    <2> QED BY <1>3, <2>1, <2>2
  <1>4. CASE Boot
    <2>1. th'[Keeper].todo = LoadRows(ActiveRows)
      BY <1>0, <1>4 DEF Boot, Loop, Idle, Inv, TypeOK
    <2>2. w \in ActiveRows  BY <1>4 DEF Boot, ActiveRows, Active, rowVars
    <2>3. Row(w) \in LoadRows(ActiveRows) /\ Row(w).id = w
      BY <2>2 DEF LoadRows, Row
    <2>4. \E o \in th'[Keeper].todo : o.id = w  BY <2>1, <2>3
    <2> QED BY <2>4 DEF Left
  <1> QED BY <1>1, <1>2, <1>3, <1>4 DEF Next

\* A row is dealt with when it is found usable or has been released.
LEMMA BootGoesOn ==
  ASSUME Inv, LInv, HInv, [Next]_vars, th[Keeper].op = "boot",
         th'[Keeper].op = "boot", NEW w \in Ids, Active(w)'
  PROVE  Left(w)'
  <1>0. Keeper \in Threads  BY DEF Threads
  <1>1. Active(w) => Left(w)  BY DEF HInv, BootLeft, Left
  <1>2. th[Keeper].pc \in PCs \ (Starting \cup Deleting)
    BY <1>0, AtWork DEF Inv, TypeOK, ThreadStates
  <1>3. CASE UNCHANGED <<rowVars, th>>
    BY <1>1, <1>3 DEF Left, Active, Working, rowVars
  <1>4. CASE Crash \/ Reboot  BY <1>0, <1>4 DEF Crash, Reboot, Idle
  <1>5. CASE Mark(Keeper)
    <2>1. /\ RowsBut(th[Keeper].obj.id) /\ Working(Keeper)'
          /\ th'[Keeper].obj.id = th[Keeper].obj.id
          /\ th'[Keeper].todo = th[Keeper].todo
      BY <1>0, <1>5, MarkDoes DEF Flushed, Moved, Working, Waiting
    <2> QED BY <1>1, <2>1 DEF Left, RowsBut, Active
  <1>6. CASE Free(Keeper)
    <2>1. /\ RowsBut(th[Keeper].obj.id)
          /\ status'[th[Keeper].obj.id] = "STOPPED"
          /\ th'[Keeper].todo = th[Keeper].todo
      BY <1>0, <1>6, FreeDoes DEF Flushed, RowIs, Moved
    <2>2. w # th[Keeper].obj.id  BY <2>1 DEF Active, ActiveStates
    <2> QED BY <1>1, <2>1, <2>2 DEF Left, RowsBut, Active
  <1>7. CASE Remove(Keeper)
    <2>1. /\ Working(Keeper)' /\ th'[Keeper].obj = th[Keeper].obj
          /\ th'[Keeper].todo = th[Keeper].todo /\ UNCHANGED status
      BY <1>0, <1>7, RemoveDoes DEF Moved, Working, Waiting, rowVars
    <2> QED BY <1>1, <2>1 DEF Left, Active
  <1>8. CASE ReleaseNext(Keeper)
    <2>1. PICK o \in th[Keeper].todo : /\ th'[Keeper].obj = o
                                       /\ th'[Keeper].todo = th[Keeper].todo \ {o}
      BY <1>0, <1>8, ReleaseNextDoes
    <2>2. /\ ~Working(Keeper) /\ Working(Keeper)' /\ UNCHANGED status
      BY <1>0, <1>8, ReleaseNextDoes DEF Working, Waiting, rowVars
    <2> QED BY <1>1, <2>1, <2>2 DEF Left, Active
  <1>9. CASE KeepNext(Keeper)
    <2>1. PICK o \in th[Keeper].todo : /\ Usable(o)
                                       /\ th' = [th EXCEPT ![Keeper].todo = @ \ {o}]
      BY <1>9 DEF KeepNext
    <2>2. /\ ~Working(Keeper) /\ UNCHANGED status
          /\ th'[Keeper].todo = th[Keeper].todo \ {o}
      BY <1>0, <1>9, <2>1
      DEF KeepNext, At, Working, Waiting, rowVars, Inv, TypeOK, ThreadStates
    <2>3. status[o.id] = "RUNNING"
      BY <1>0, <2>1 DEF LInv, TodoOK, Row, Usable
    <2> QED BY <1>1, <2>1, <2>2, <2>3 DEF Left, Active
  <1>10. CASE LoopEnd(Keeper) \/ TimeoutStep(Keeper)
    <2>1. CASE Finish(Keeper)
      BY <1>0, <2>1, FinishMoves DEF Idled, Idle, Inv
    <2>2. ~LaunchTimesOut(Keeper)
      BY <1>2 DEF LaunchTimesOut, At, Starting, Launch
    <2> QED BY <1>10, <2>1, <2>2
            DEF LoopEnd, TimeoutStep, RemoveTimesOut, InspectTimesOut
  <1>11. CASE StartStep(Keeper) \/ DeleteStep(Keeper)
    BY <1>2, <1>11
    DEF StartStep, DeleteStep, StartProbe, Pick, NoCapacity, Lease, Refresh,
        Prepare, Run, RunFails, Ready, NotReady, Commit, Confirm, Except, Fail,
        Purge, PurgeFails, Erase, At, Starting, Launch, Deleting
  <1>12. CASE ThreadStep(Keeper)
    BY <1>5, <1>6, <1>7, <1>8, <1>9, <1>10, <1>11, <1>12
    DEF ThreadStep, ReleaseStep, LoopStep
  <1>13. CASE UNCHANGED vars \/ Environment
    BY <1>3, <1>4, <1>13 DEF vars, Environment, ContainerExit
  <1> QED BY <1>12, <1>13, BootAlone

LEMMA BootLeftH ==
  ASSUME Inv, LInv, HInv, [Next]_vars PROVE BootLeft'
  <1>1. ASSUME th'[Keeper].op = "boot", NEW w \in Ids, Active(w)' PROVE Left(w)'
    BY <1>1, BootBegins, BootGoesOn
  <1> QED BY <1>1 DEF BootLeft, Left

LEMMA InitH == Init => HInv
  <1> SUFFICES ASSUME Init PROVE HInv  OBVIOUS
  <1>1. /\ Idle.pc = "idle" /\ Idle.op = "none" /\ Idle.todo = {}
        /\ Idle.proj = None /\ Keeper \in Threads
    BY DEF Idle, Threads
  <1>2. \A s \in Slots, w \in Ids : ~Running(<<s, w>>)
    BY DEF Init, Running, Names
  <1>3. OnePort /\ PortsOK  BY <1>1, <1>2 DEF Init, OnePort, PortsOK, At
  <1>4. SecretOK  BY <1>1 DEF Init, SecretOK, At
  <1>5. BootLeft  BY <1>1 DEF Init, BootLeft
  <1> QED BY <1>3, <1>4, <1>5 DEF HInv

LEMMA NextH == Inv /\ LInv /\ HInv /\ [Next]_vars => HInv'
  BY NextStarts, OnePortH, SecretH, PortsH, BootLeftH DEF HInv

LEMMA HostInvariant == OrderlySpec => [](Inv /\ LInv /\ HInv)
  <1>1. Init => Inv /\ LInv /\ HInv  BY InitInv, InitL, InitH
  <1>2. Inv /\ LInv /\ HInv /\ [OrderlyNext]_vars => (Inv /\ LInv /\ HInv)'
    BY NextInv, NextL, NextH DEF OrderlyNext
  <1> QED BY <1>1, <1>2, PTL DEF OrderlySpec

\* In an orderly behaviour the gateway's port is the workspace's own: whatever was
\* left running by failed removals and killed starts, no other container listens
\* on the port of a RUNNING workspace's slot.
THEOREM OwnRuntimeListens == OrderlySpec => []RoutesToOwnRuntime
  <1>1. LInv /\ HInv => RoutesToOwnRuntime
    BY DEF LInv, RowLease, HInv, PortsOK, OwnPort, RoutesToOwnRuntime
  <1> QED BY <1>1, HostInvariant, PTL

\* In an orderly behaviour startup ends with every active workspace RUNNING on its
\* slot with a container of its own: whatever a crash left STARTING, STOPPING or
\* without a container has been released by then.
THEOREM BootComplete == OrderlySpec => BootLeavesRunning
  <1> DEFINE Done ==
        ~up /\ up' => \A w \in Ids : Active(w) =>
          /\ status[w] = "RUNNING" /\ slotId[w] # NoSlot
          /\ ctrName[w] = <<slotId[w], w>>
  <1>1. ASSUME Inv, LInv, HInv, [Next]_vars PROVE Done
    <2> SUFFICES ASSUME ~up, up', NEW w \in Ids, Active(w)
        PROVE  /\ status[w] = "RUNNING" /\ slotId[w] # NoSlot
               /\ ctrName[w] = <<slotId[w], w>>
      OBVIOUS
    <2>1. PICK t \in Threads : LoopEnd(t)
      BY <1>1
      DEF Next, vars, Arrival, StartSelect, StopSelect, DeleteSelect,
          StopAllSelect, Boot, Reconcile, ReapSelect, Environment, Crash, Reboot,
          ContainerExit, ThreadStep, StartStep, ReleaseStep, DeleteStep,
          LoopStep, TimeoutStep, StartProbe, Pick, NoCapacity, Lease, Refresh,
          Prepare, Run, RunFails, Ready, NotReady, Commit, Confirm, Except,
          Fail, Mark, Remove, Free, Purge, PurgeFails, Erase, ReleaseNext,
          KeepNext, RemoveTimesOut, LaunchTimesOut, InspectTimesOut
    <2>2. th[t].op = "boot" /\ th[t].pc = "next" /\ th[t].todo = {}
      BY <2>1 DEF LoopEnd, At
    <2>3. t = Keeper  BY <1>1, <2>2 DEF LInv, BootOK
    <2>4. status[w] = "RUNNING"
      BY <1>1, <2>2, <2>3 DEF HInv, BootLeft, Working, Waiting
    <2> QED BY <1>1, <2>4 DEF LInv, LeaseExact, RowLease
  <1>2. Inv /\ LInv /\ HInv /\ [OrderlyNext]_vars => [Done]_vars
    BY <1>1 DEF OrderlyNext
  <1> HIDE DEF Done
  <1>3. [][Done]_vars => BootLeavesRunning  BY DEF BootLeavesRunning, Done
  <1> QED BY <1>2, <1>3, HostInvariant, PTL DEF OrderlySpec

-----------------------------------------------------------------------------
(* What is left running *)

\* The transaction of another row: the container is as it was, and so are the
\* row and the thread that vouch for it.
LEMMA OtherRowP ==
  ASSUME Inv, LInv, LInv', NEW t \in Threads, RowStep(t), NEW s \in Slots,
         NEW w \in Ids, w # th[t].obj.id, Leaseholder(s, w)
  PROVE  Leaseholder(s, w)'
  <1>1. /\ th[t].obj.id \in Ids /\ RowsBut(th[t].obj.id) /\ Others(t) /\ Working(t)
    BY RowStepDoes
  <1>2. /\ status'[w] = status[w] /\ slotId'[w] = s /\ ctrName'[w] = ctrName[w]
    BY <1>1 DEF RowsBut, Leaseholder
  <1>3. Active(w)'  BY <1>2 DEF Active, Leaseholder
  <1>4. leasedTo'[s] = w  BY <1>2, <1>3 DEF LInv, LeaseExact
  <1>5. ASSUME NEW u \in Threads, th[u].pc \in {"wait", "commit"}, th[u].obj.id = w
        PROVE  th'[u] = th[u]
    BY <1>1, <1>5 DEF Others
  <1> QED BY <1>2, <1>3, <1>4, <1>5 DEF Leaseholder

\* A thread at work on the row of a running container: the row names it.
LEMMA Named ==
  ASSUME Inv, LInv, NEW t \in Threads, Working(t), NEW s \in Slots, NEW w \in Ids,
         w = th[t].obj.id, th[t].pc \notin {"wait", "commit"}, Leaseholder(s, w)
  PROVE  ctrName[w] = <<s, w>> /\ slotId[w] = s /\ leasedTo[s] = w /\ Active(w)
  BY Private DEF Leaseholder, Working, Waiting

LEMMA RowP ==
  ASSUME Inv, LInv, LInv', PInv, NEW t \in Threads, RowStep(t) PROVE PInv'
  <1>0. /\ Working(t) /\ th[t].obj.id \in Ids /\ Others(t) /\ UNCHANGED podman
    BY RowStepDoes
  <1>1. ASSUME NEW s \in Slots, NEW w \in Ids, Running(<<s, w>>)'
        PROVE  Leaseholder(s, w)'
    <2>1. Running(<<s, w>>) /\ Leaseholder(s, w)
      BY <1>0, <1>1 DEF PInv, Running
    <2>2. CASE w # th[t].obj.id  BY <2>1, <2>2, OtherRowP
    <2>3. CASE w = th[t].obj.id
      <3>0. /\ leasedTo[s] = w /\ Active(w) /\ slotId[w] = s
            /\ th[t].pc \notin {"wait", "commit"} => ctrName[w] = <<s, w>>
        BY <1>0, <2>1, <2>3, Named DEF Leaseholder
      <3>1. CASE Lease(t)
        BY <2>3, <3>0, <3>1, LeaseDoes DEF Holding, Active, ActiveStates
      <3>2. CASE Erase(t)
        BY <2>3, <3>0, <3>2, EraseDoes DEF Holding, Active, ActiveStates
      <3>3. CASE Fail(t)
        <4>1. th[t].pc = "fail" /\ status[w] = "STARTING"
          BY <2>3, <3>3, FailDoes, LaunchHolds DEF Holding, Launch
        <4>2. ctrName[w] = None  BY <4>1 DEF LInv, RowLease
        <4>3. <<s, w>> \in Names  BY DEF Names
        <4> QED BY <3>0, <4>1, <4>2, <4>3, NoneIsNone
      <3>4. CASE Free(t)
        <4>1. th[t].pc = "free" /\ th[t].obj.ctr = ctrName[w]
          BY <2>3, <3>4, FreeDoes DEF Holding
        <4> QED BY <2>1, <3>0, <4>1 DEF PInv, At
      <3>5. CASE Commit(t)
        <4>1. /\ th[t].pc = "commit" /\ slotId'[w] = th[t].slot
              /\ ctrName'[w] = <<th[t].slot, w>>
          BY <2>3, <3>5, CommitRow
        <4>2. slotId[w] = th[t].slot  BY <2>3, <4>1, CommitHolds
        <4>3. status'[w] = "RUNNING" /\ UNCHANGED leasedTo
          BY <2>3, <3>5, CommitDoes DEF Flushed, RowIs, slotVars
        <4> QED BY <3>0, <4>1, <4>2, <4>3 DEF Leaseholder, Active, ActiveStates
      <3>6. CASE Mark(t)
        <4>1. /\ th[t].pc = "mark" /\ status'[w] = "STOPPING"
              /\ slotId'[w] = th[t].obj.slot /\ ctrName'[w] = th[t].obj.ctr
              /\ UNCHANGED leasedTo
          BY <2>3, <3>6, MarkDoes DEF Flushed, RowIs, slotVars
        <4>2. th[t].obj.slot = slotId[w] /\ th[t].obj.ctr = ctrName[w]
          BY <2>3, <3>6, MarkDoes DEF Holding
        <4> QED BY <3>0, <4>1, <4>2 DEF Leaseholder, Active, ActiveStates
      <3> QED BY <3>1, <3>2, <3>3, <3>4, <3>5, <3>6 DEF RowStep
    <2> QED BY <2>2, <2>3
  <1>2. ASSUME NEW u \in Threads, th'[u].pc = "free"
        PROVE  ~Running(th[u].obj.ctr)'
    <2>1. u # t
      <3>1. CASE Lease(t) \/ Commit(t) \/ Mark(t)
        BY <1>2, <3>1, LeaseDoes, CommitDoes, MarkDoes DEF Moved
      <3>2. CASE Fail(t) \/ Erase(t)
        BY <1>2, <3>2, FailDoes, EraseDoes DEF Idled, Idle
      <3>3. CASE Free(t)  BY <1>2, <3>3, FreeDoes DEF Moved
      <3> QED BY <3>1, <3>2, <3>3 DEF RowStep
    <2>2. th'[u] = th[u]  BY <1>0, <2>1 DEF Others
    <2> QED BY <1>0, <1>2, <2>2 DEF PInv, At, Running
  <1> QED BY <1>1, <1>2 DEF PInv, At

\* A step that changes no row.  What runs after it ran before or has just been
\* launched; a launch that gives up takes its container down; and a release
\* comes to "free" when the container is down.
LEMMA HostP ==
  ASSUME Inv, LInv, LInv', PInv, UNCHANGED <<rowVars, slotVars>>,
         \A n \in Names : podman'[n] = "running" =>
            \/ podman[n] = "running"
            \/ \E t \in Threads : Launches(t, n) /\ th'[t].pc = "wait"
                                  /\ th'[t].obj = th[t].obj,
         \A t \in Threads : th[t].pc \in {"wait", "commit"} =>
            \/ th'[t].pc \in {"wait", "commit"} /\ th'[t].obj = th[t].obj
            \/ podman'[RuntimeName(t)] # "running",
         \A t \in Threads : th'[t].pc = "free" =>
            th'[t] = th[t] \/ ~Running(th[t].obj.ctr)'
  PROVE  PInv'
  <1>1. ASSUME NEW s \in Slots, NEW w \in Ids, Running(<<s, w>>)'
        PROVE  Leaseholder(s, w)'
    <2>0. <<s, w>> \in Names /\ podman'[<<s, w>>] = "running"
      BY <1>1 DEF Names, Running
    <2>1. CASE podman[<<s, w>>] = "running"
      <3>1. Leaseholder(s, w)
        BY <2>0, <2>1, NoneIsNone DEF PInv, Running
      <3>2. CASE ctrName[w] = <<s, w>>
        BY <3>1, <3>2 DEF Leaseholder, Active, rowVars, slotVars
      <3>3. CASE ctrName[w] # <<s, w>>
        <4>1. PICK t \in Threads : th[t].pc \in {"wait", "commit"} /\ th[t].obj.id = w
          BY <3>1, <3>3 DEF Leaseholder
        <4>2. RuntimeName(t) = <<s, w>>
          BY <3>1, <4>1, CommitHolds DEF Leaseholder
        <4>3. th'[t].pc \in {"wait", "commit"} /\ th'[t].obj.id = w
          BY <2>0, <4>1, <4>2
        <4> QED BY <3>1, <4>3 DEF Leaseholder, Active, rowVars, slotVars
      <3> QED BY <3>2, <3>3
    <2>2. CASE podman[<<s, w>>] # "running"
      <3>1. PICK t \in Threads : Launches(t, <<s, w>>) /\ th'[t].pc = "wait"
                                 /\ th'[t].obj = th[t].obj
        BY <2>0, <2>2
      <3>2. th[t].obj.id = w /\ slotId[w] = s /\ Active(w)
        BY <3>1, LaunchClaims
      <3>3. leasedTo[s] = w  BY <3>2 DEF LInv, LeaseExact
      <3> QED BY <3>1, <3>2, <3>3 DEF Leaseholder, Active, rowVars, slotVars
    <2> QED BY <2>1, <2>2
  <1>2. ASSUME NEW u \in Threads, th'[u].pc = "free", th'[u] = th[u],
               Running(th[u].obj.ctr)'
        PROVE  FALSE
    <2> DEFINE n == th[u].obj.ctr
    <2>1. Working(u) /\ th[u].pc = "free"
      BY <1>2 DEF Working, Waiting
    <2>2. /\ th[u].obj.id \in Ids /\ n = ctrName[th[u].obj.id]
          /\ status[th[u].obj.id] = "STOPPING"
      BY <2>1, InHand DEF LInv, Task, StatusAt, Launch
    <2>3. n # None /\ n = <<slotId[th[u].obj.id], th[u].obj.id>>
      BY <1>2, <2>2 DEF LInv, RowLease, Active, ActiveStates, Running
    <2>4. slotId[th[u].obj.id] \in Slots
      BY <2>2, <2>3 DEF LInv, LeaseExact, Active, ActiveStates, Inv, TypeOK
    <2>5. n \in Names /\ podman'[n] = "running" /\ podman[n] # "running"
      BY <1>2, <2>1, <2>2, <2>3, <2>4 DEF PInv, At, Running, Names
    <2>6. PICK t \in Threads : Launches(t, n)  BY <2>5
    <2>7. th[t].pc = "run" /\ th[t].obj.id = th[u].obj.id /\ Working(t)
      BY <2>2, <2>3, <2>4, <2>6, LaunchClaims
    <2> QED BY <2>1, <2>7, Private
  <1>3. \A u \in Threads : th'[u].pc = "free" => ~Running(th[u].obj.ctr)'
    BY <1>2
  <1> QED BY <1>1, <1>3 DEF PInv, At

\* In a tidy system only "podman run" starts a container, and the launch waits
\* for it.
LEMMA TidyStarts ==
  ASSUME Tidy, Inv, NEW t \in Threads, ThreadStep(t), NEW n \in Names,
         podman'[n] = "running", podman[n] # "running"
  PROVE  Launches(t, n) /\ th'[t].pc = "wait" /\ th'[t].obj = th[t].obj
  <1>1. CASE Run(t)
    <2>1. Moved(t, "wait", th[t].obj)  BY <1>1, GotoMoves DEF Run, Inv, PCs
    <2> QED BY <1>1, <2>1 DEF Run, Launches, CanRun, Moved, Inv, TypeOK
  <1>2. CASE Prepare(t) \/ NotReady(t) \/ Except(t) \/ Remove(t)
    <2>1. PICK m : podman' \in {podman, Removed(m)}
      BY <1>2 DEF Prepare, NotReady, Except, Remove, Rm
    <2> QED BY <2>1 DEF Removed, Inv, TypeOK
  <1>3. CASE RunFails(t)  BY <1>3 DEF RunFails, Inv, TypeOK
  <1>4. CASE RemoveTimesOut(t) \/ LaunchTimesOut(t)
    BY <1>4 DEF RemoveTimesOut, LaunchTimesOut, Tidy
  <1>5. \/ Run(t) \/ Prepare(t) \/ NotReady(t) \/ Except(t) \/ Remove(t)
        \/ RunFails(t) \/ RemoveTimesOut(t) \/ LaunchTimesOut(t)
        \/ UNCHANGED podman
      BY DEF ThreadStep, StartStep, ReleaseStep, DeleteStep, LoopStep,
             TimeoutStep, StartProbe, Pick, NoCapacity, Lease, Refresh, Ready,
             Commit, Confirm, Fail, Mark, Free, Purge, PurgeFails, Erase,
             ReleaseNext, KeepNext, LoopEnd, InspectTimesOut, hostVars
  <1> QED BY <1>1, <1>2, <1>3, <1>4, <1>5

\* In a tidy system a launch that gives up leaves nothing running.
LEMMA TidyLaunch ==
  ASSUME Tidy, Inv, LInv, NEW t \in Threads, ThreadStep(t), ~RowStep(t),
         th[t].pc \in {"wait", "commit"}
  PROVE  \/ th'[t].pc \in {"wait", "commit"} /\ th'[t].obj = th[t].obj
         \/ podman'[RuntimeName(t)] # "running"
  <1>1. CASE Ready(t)
    BY <1>1, GotoMoves DEF Ready, Moved, Inv, PCs
  <1>2. CASE NotReady(t)
    <2>1. RuntimeName(t) \in Names /\ RuntimeName(t) # None
      BY CommitHolds, NoneIsNone DEF Names
    <2>2. podman' = Removed(RuntimeName(t))
      BY <1>2 DEF NotReady, Rm, Tidy
    <2> QED BY <2>1, <2>2 DEF Removed, Inv, TypeOK
  <1>3. ~Except(t) /\ ~TimeoutStep(t)
    BY DEF Except, TimeoutStep, RemoveTimesOut, LaunchTimesOut, InspectTimesOut,
           At, Tidy
  <1>4. ~LoopStep(t) /\ ~DeleteStep(t) /\ ~ReleaseStep(t)
    <2>1. ~At(t, "next")  BY DEF At
    <2>4. ~LoopStep(t)  BY <2>1 DEF LoopStep, ReleaseNext, KeepNext, LoopEnd
    <2>2. ~DeleteStep(t)  BY DEF DeleteStep, Purge, PurgeFails, Erase, At
    <2>3. ~ReleaseStep(t)  BY DEF ReleaseStep, Mark, Remove, Free, At
    <2> QED BY <2>2, <2>3, <2>4
  <1>5. CASE StartStep(t)
    BY <1>1, <1>2, <1>3, <1>5
    DEF StartStep, RowStep, StartProbe, Pick, NoCapacity, Refresh, Prepare, Run,
        RunFails, Confirm, At
  <1> QED BY <1>3, <1>4, <1>5 DEF ThreadStep

\* A release comes to "free" when it has removed the container.
LEMMA TidyFree ==
  ASSUME Tidy, Inv, LInv, [Next]_vars, NEW t \in Threads, th'[t].pc = "free"
  PROVE  th'[t] = th[t] \/ ~Running(th[t].obj.ctr)'
  <1> SUFFICES ASSUME th'[t] # th[t] PROVE ~Running(th[t].obj.ctr)'
    OBVIOUS
  <1>1. Arrives(t)  BY Progress DEF Places
  <1>2. CASE Remove(t)
    <2>1. /\ th'[t].obj = th[t].obj /\ podman' = Removed(th[t].obj.ctr)
      BY <1>2, RemoveDoes DEF Moved, Rm, Tidy
    <2>2. th[t].obj \in Objects
      BY <1>2, AtWork DEF Remove, At, Waiting
    <2> QED BY <2>1, <2>2 DEF Removed, Running, Objects, Inv, TypeOK
  <1>3. ~Prepare(t) /\ ~Run(t) /\ ~Ready(t)
    BY GotoMoves DEF Prepare, Run, Ready, Moved, Inv, PCs
  <1>4. ~ReleaseNext(t)  BY ReleaseNextDoes
  <1> QED BY <1>1, <1>2, <1>3, <1>4 DEF Arrives

LEMMA NextP ==
  ASSUME Tidy, Inv, LInv, LInv', PInv, [Next]_vars PROVE PInv'
  <1> SUFFICES ASSUME \A t \in Threads : ~RowStep(t),
                      UNCHANGED <<rowVars, slotVars>>
               PROVE  PInv'
    BY KindOfStep, RowP
  <1>0. \A t \in Threads : th'[t].pc = "free" =>
           th'[t] = th[t] \/ ~Running(th[t].obj.ctr)'
    BY TidyFree
  <1>1. ASSUME NEW t \in Threads, ThreadStep(t) PROVE PInv'
    <2>1. \A u \in Threads \ {t} : th'[u] = th[u]  BY <1>1, Alone
    <2>2. \A u \in Threads : th[u].pc \in {"wait", "commit"} =>
             \/ th'[u].pc \in {"wait", "commit"} /\ th'[u].obj = th[u].obj
             \/ podman'[RuntimeName(u)] # "running"
      BY <1>1, <2>1, TidyLaunch
    <2>3. \A n \in Names : podman'[n] = "running" =>
             \/ podman[n] = "running"
             \/ \E u \in Threads : Launches(u, n) /\ th'[u].pc = "wait"
                                   /\ th'[u].obj = th[u].obj
      BY <1>1, TidyStarts
    <2> QED BY <1>0, <1>1, <2>2, <2>3, HostP
  <1>2. ASSUME \A n \in Names : podman'[n] = "running" => podman[n] = "running",
               \A u \in Threads : th[u].pc \in {"wait", "commit"} =>
                   \/ th'[u] = th[u]
                   \/ \A n \in Names : podman'[n] # "running"
        PROVE  PInv'
    <2>1. \A u \in Threads : th[u].pc \in {"wait", "commit"} =>
             \/ th'[u].pc \in {"wait", "commit"} /\ th'[u].obj = th[u].obj
             \/ podman'[RuntimeName(u)] # "running"
      BY <1>2, CommitHolds DEF Names
    <2> QED BY <1>0, <1>2, <2>1, HostP
  <1>3. ASSUME NEW t \in Requests, Arrival(t) PROVE PInv'
    <2>1. t \in Threads /\ UNCHANGED hostVars /\ At(t, "idle")
      <3>1. CASE \E p \in Projects : StartSelect(t, p)
        BY <3>1 DEF StartSelect, Call, Threads
      <3>2. CASE \E w \in Ids : StopSelect(t, w) \/ DeleteSelect(t, w)
        BY <3>2 DEF StopSelect, DeleteSelect, Call, Threads
      <3>3. CASE \E u \in Users : StopAllSelect(t, u)
        BY <3>3 DEF StopAllSelect, Call, Threads
      <3> QED BY <1>3, <3>1, <3>2, <3>3 DEF Arrival
    <2>2. \A u \in Threads \ {t} : th'[u] = th[u]
      BY <1>3, <2>1, ArrivalPlaces
    <2> QED BY <1>2, <2>1, <2>2 DEF At, hostVars
  <1>4. CASE Boot \/ Reconcile \/ ReapSelect
    BY <1>2, <1>4
    DEF Boot, Reconcile, ReapSelect, Loop, At, hostVars, Inv, TypeOK
  <1>5. CASE UNCHANGED vars \/ Environment
    <2>1. ~Crash  BY DEF Crash, Tidy
    <2>2. CASE Reboot
      BY <1>2, <2>2 DEF Reboot, Inv, TypeOK
    <2>3. CASE UNCHANGED vars  BY <1>2, <2>3 DEF vars, hostVars
    <2>4. CASE \E n \in Names : ContainerExit(n)
      BY <1>2, <2>4 DEF ContainerExit, Inv, TypeOK
    <2> QED BY <1>5, <2>1, <2>2, <2>3, <2>4 DEF Environment
  <1> QED BY <1>1, <1>3, <1>4, <1>5 DEF Next

LEMMA InitP == Init => PInv
  BY DEF Init, PInv, Running, Names, At, Idle

LEMMA TidyInvariant ==
  ASSUME Tidy
  PROVE  OrderlySpec => [](Inv /\ LInv /\ PInv)
  <1>1. Init => Inv /\ LInv /\ PInv  BY InitInv, InitL, InitP
  <1>2. Inv /\ LInv /\ PInv /\ [OrderlyNext]_vars => (Inv /\ LInv /\ PInv)'
    BY NextInv, NextL, NextP DEF OrderlyNext
  <1> QED BY <1>1, <1>2, PTL DEF OrderlySpec

\* In an orderly behaviour of a tidy system a slot's port is taken only by the
\* workspace that leases the slot: a start that is given a slot never meets a
\* runtime left behind on its port.
THEOREM PortsOfLeases ==
  ASSUME Tidy
  PROVE  OrderlySpec => []PortOfLeasedSlot
  <1>1. PInv => PortOfLeasedSlot
    BY DEF PInv, Leaseholder, PortOfLeasedSlot, Names
  <1> QED BY <1>1, TidyInvariant, PTL

-----------------------------------------------------------------------------
(* Leases are kept, however operations overlap *)

\* The slot that a thread has selected is free, and nobody else selected it.
Selected(t) == At(t, "lease") => ~inUse[th[t].slot]
Single(t, u) == At(t, "lease") /\ At(u, "lease") /\ th[t].slot = th[u].slot => t = u
LockInv == \A t \in Threads : Selected(t) /\ \A u \in Threads : Single(t, u)

\* A lease takes the selected slot, other steps give a slot back or move none.
LEMMA SlotMoves ==
  ASSUME NEW t \in Threads, ThreadStep(t)
  PROVE  \/ UNCHANGED slotVars
         \/ At(t, "lease") /\ SetSlot(th[t].slot, TRUE, th[t].obj.id)
         \/ \E s : ReturnSlot(s)
  <1>1. CASE Lease(t)  BY <1>1 DEF Lease, slotVars
  <1>2. CASE Fail(t) \/ Free(t)  BY <1>2 DEF Fail, Free, FreeSlotOf, slotVars
  <1> QED BY <1>1, <1>2
          DEF ThreadStep, StartStep, ReleaseStep, DeleteStep, LoopStep, TimeoutStep,
              StartProbe, Pick, NoCapacity, Refresh, Prepare, Run, RunFails, Ready,
              NotReady, Commit, Confirm, Except, Mark, Remove, Purge, PurgeFails,
              Erase, ReleaseNext, KeepNext, LoopEnd, RemoveTimesOut,
              LaunchTimesOut, InspectTimesOut

\* A thread comes to its lease only from the selection of a free slot.
LEMMA ToLease ==
  ASSUME Inv, NEW t \in Threads, ThreadStep(t)
  PROVE  th'[t].pc = "lease" => Pick(t)
  <1>1. CASE \/ StartProbe(t) \/ Prepare(t) \/ Run(t) \/ RunFails(t) \/ Ready(t)
             \/ NotReady(t) \/ Confirm(t) \/ Except(t) \/ NoCapacity(t)
             \/ Remove(t) \/ Purge(t) \/ PurgeFails(t) \/ TimeoutStep(t)
    <2>1. Finish(t) \/ \E x \in PCs \ {"lease"} : Goto(t, x)
      BY <1>1
      DEF StartProbe, Prepare, Run, RunFails, Ready, NotReady, Confirm, Except,
          NoCapacity, Remove, Purge, PurgeFails, TimeoutStep, RemoveTimesOut,
          LaunchTimesOut, InspectTimesOut, PCs
    <2> QED BY <2>1, GotoMoves, FinishMoves DEF Moved, Idled, Idle, Inv
  <1>2. CASE Lease(t) \/ Refresh(t) \/ Commit(t) \/ Mark(t) \/ Free(t)
    <2>1. \/ Finish(t)
          \/ \E x, o : x # "lease" /\ Load(t, x, o)
      <3>1. CASE Lease(t)  BY <3>1 DEF Lease
      <3>2. CASE Refresh(t)  BY <3>2 DEF Refresh
      <3>3. CASE Commit(t)  BY <3>3 DEF Commit
      <3>4. CASE Mark(t)  BY <3>4 DEF Mark
      <3>5. CASE Free(t)
        <4>1. AfterRelease(t) # "lease"  BY DEF AfterRelease
        <4> QED BY <3>5, <4>1 DEF Free
      <3> QED BY <1>2, <3>1, <3>2, <3>3, <3>4, <3>5
    <2>2. CASE Finish(t)  BY <2>2, FinishMoves DEF Inv, Idled, Idle
    <2>3. ASSUME NEW x, NEW o, x # "lease", Load(t, x, o)
          PROVE  th'[t].pc # "lease"
      BY <2>3 DEF Load, Inv, TypeOK, ThreadStates
    <2> QED BY <2>1, <2>2, <2>3
  <1>3. CASE Fail(t) \/ Erase(t)
    BY <1>3, FinishMoves DEF Fail, Erase, Idled, Idle, Inv
  <1>4. CASE ReleaseNext(t) \/ KeepNext(t)
    <2>1. CASE ReleaseNext(t)
      BY <2>1 DEF ReleaseNext, Inv, TypeOK, ThreadStates
    <2>2. CASE KeepNext(t)
      <3>1. /\ th[t].pc = "next"
            /\ \E S : th' = [th EXCEPT ![t].todo = S]
        BY <2>2 DEF KeepNext, At
      <3> QED BY <3>1 DEF Inv, TypeOK, ThreadStates
    <2> QED BY <1>4, <2>1, <2>2
  <1>5. CASE LoopEnd(t)
    <2> DEFINE r == IF th[t].op = "reconcile"
                    THEN [Idle EXCEPT !.pc = "reap", !.op = "reap"] ELSE Idle
    <2>1. r.pc # "lease"  BY DEF Idle
    <2>2. th' = [th EXCEPT ![t] = r]  BY <1>5 DEF LoopEnd, Finish
    <2> HIDE DEF r
    <2> QED BY <2>1, <2>2 DEF Inv, TypeOK
  <1> QED BY <1>1, <1>2, <1>3, <1>4, <1>5
          DEF ThreadStep, StartStep, ReleaseStep, DeleteStep, LoopStep

LeasesStay == \A s \in Slots : inUse[s] /\ inUse'[s] => leasedTo'[s] = leasedTo[s]

LEMMA LockStep ==
  ASSUME Inv, LockInv, NEW t \in Threads, ThreadStep(t)
  PROVE  LockInv' /\ LeasesStay
  <1>0. /\ \A u \in Threads \ {t} : th'[u] = th[u]
        /\ th'[t].pc = "lease" => Pick(t)
    BY Alone, ToLease
  <1>1. ASSUME At(t, "lease") PROVE th[t].slot \in Slots
    BY <1>1 DEF At, Inv, ThreadOK, Launch
  <1>2. LeasesStay
    BY SlotMoves
    DEF LeasesStay, LockInv, Selected, SetSlot, ReturnSlot, slotVars, Inv, TypeOK
  <1>3. CASE Pick(t)
    <2>1. PICK s \in FreeSlots : th' = [th EXCEPT ![t].pc = "lease", ![t].slot = s]
      BY <1>3 DEF Pick
    <2>2. th'[t].slot = s /\ UNCHANGED inUse
      BY <1>3, <2>1 DEF Pick, slotVars, Inv, TypeOK, ThreadStates
    <2>3. ~inUse[s] /\ \A u \in Threads : At(u, "lease") => th[u].slot # s
      BY DEF FreeSlots, Locked, At
    <2> QED BY <1>0, <1>2, <2>2, <2>3 DEF LockInv, Selected, Single, At
  <1>4. CASE ~Pick(t)
    <2>1. ASSUME NEW u \in Threads, th'[u].pc = "lease"
          PROVE  u # t /\ th'[u] = th[u]
      BY <1>0, <1>4, <2>1
    <2>2. ASSUME NEW u \in Threads, th'[u].pc = "lease" PROVE ~inUse'[th'[u].slot]
      <3>1. /\ u # t /\ th'[u] = th[u] /\ At(u, "lease")
            /\ ~inUse[th[u].slot] /\ th[u].slot \in Slots
        BY <2>1, <2>2 DEF At, LockInv, Selected, Inv, ThreadOK, Launch
      <3>2. At(t, "lease") => th[t].slot # th[u].slot
        BY <3>1 DEF LockInv, Single
      <3> QED BY <3>1, <3>2, SlotMoves
              DEF SetSlot, ReturnSlot, slotVars, Inv, TypeOK
    <2> QED BY <1>2, <2>1, <2>2 DEF LockInv, Selected, Single, At
  <1> QED BY <1>3, <1>4

LEMMA LockNext ==
  ASSUME Inv, LockInv, [Next]_vars PROVE LockInv' /\ LeasesStay
  <1>1. CASE \E t \in Threads : ThreadStep(t)  BY <1>1, LockStep
  <1>2. ASSUME UNCHANGED slotVars,
               \A t \in Threads : th'[t].pc = "lease" => th'[t] = th[t]
        PROVE  LockInv' /\ LeasesStay
    BY <1>2 DEF LockInv, Selected, Single, At, slotVars, LeasesStay
  <1>3. ASSUME NEW t \in Requests, Arrival(t) PROVE LockInv' /\ LeasesStay
    <2>1. t \in Threads /\ UNCHANGED slotVars
      BY <1>3 DEF Threads, Arrival, StartSelect, StopSelect, DeleteSelect, StopAllSelect
    <2> QED BY <1>2, <1>3, <2>1, ArrivalPlaces
  <1>4. CASE Boot \/ Reconcile \/ ReapSelect
    <2> PICK o, ws : Loop(Keeper, o, ws)  BY <1>4 DEF Boot, Reconcile, ReapSelect
    <2> DEFINE r == [Idle EXCEPT !.pc = "next", !.op = o, !.todo = LoadRows(ws)]
    <2>1. th' = [th EXCEPT ![Keeper] = r] /\ r.pc # "lease"  BY DEF Loop, Idle
    <2> HIDE DEF r
    <2>2. UNCHANGED slotVars  BY <1>4 DEF Boot, Reconcile, ReapSelect
    <2> QED BY <1>2, <2>1, <2>2 DEF Inv, TypeOK
  <1>5. CASE Environment \/ UNCHANGED vars
    BY <1>2, <1>5 DEF Environment, Crash, Reboot, ContainerExit, vars, Idle
  <1> QED BY <1>1, <1>3, <1>4, <1>5 DEF Next

\* No slot is ever leased away from the workspace that leases it, also when
\* operations on a project overlap: the row lock on the slot that a start selects
\* lasts until it is leased, and everybody else can only give slots back.
THEOREM LeasesKept == Spec => LeaseKept
  <1>1. Init => Inv /\ LockInv
    <2>1. Init => LockInv
      BY DEF Init, LockInv, Selected, Single, At, Idle
    <2> QED BY <2>1, InitInv
  <1>2. Inv /\ LockInv /\ [Next]_vars => (Inv /\ LockInv)' /\ [LeasesStay]_vars
    BY NextInv, LockNext
  <1>3. [][LeasesStay]_vars => LeaseKept  BY DEF LeasesStay, LeaseKept
  <1> QED BY <1>1, <1>2, <1>3, PTL DEF Spec

=============================================================================
