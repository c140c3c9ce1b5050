----------------------------- MODULE GatewayProofs -----------------------------
(***************************************************************************)
(* Nobody is served by another user's runtime: for any number of users,    *)
(* projects, threads and connections, and operations that overlap in any   *)
(* way.                                                                    *)
(*                                                                         *)
(* The heart of the invariant is Agree: every password belongs to one      *)
(* project, wherever it is held - in a secret file, by a thread that       *)
(* launches, by a container or by a request on its way.  It needs the      *)
(* invariant of Workspaces, which a request that recycles a dead runtime   *)
(* must keep although its row may be deleted by then (KnownOK): hence no   *)
(* thread inserts an id that a connection knows.                           *)
(*                                                                         *)
(* The second half is about orderly behaviours, in which operations on one *)
(* project do not overlap and a recycled row is as it was loaded: then the *)
(* gateway's recycles keep the leases in order (LeasesInv), and the secret *)
(* file of a project opens its runtime (SecretInv).                        *)
(***************************************************************************)
EXTENDS Gateway, WorkspacesProofs

\* The password k is held for project p.
Holds(k, p) ==
    \/ file[p] = k
    \/ \E t \in Threads : pass[t] = k /\ th[t].proj = p
    \/ \E n \in Names : runs[n].key = k /\ runs[n].proj = p
    \/ \E c \in Clients : call[c].key = k /\ call[c].proj = p

Agree == \A k \in Keys, p, q \in Projects : Holds(k, p) /\ Holds(k, q) => p = q

PassOK == \A t \in Threads : pass[t] \in Keys <=> th[t].pc \in {"run", "wait"}
FileOK == \A p \in secrets : file[p] \in Keys
RunsOK == \A n \in Names : Running(n) => runs[n].key \in Keys /\ runs[n].proj \in Projects

\* No thread is about to insert the row that a connection knows.
KnownOK(c) ==
    LET r == call[c]
    IN  /\ r.obj \in Objects /\ ObjectOK(r.obj) /\ r.obj.status # "ABSENT"
        /\ project[r.obj.id] \in {r.proj, None}
        /\ \A t \in Threads : ~Inserting(t, r.obj.id)

CallOK(c) ==
    LET r == call[c]
    IN  IF r.pc = "idle" THEN r = NoCall
        ELSE /\ At(c, "idle")
             /\ r.proj \in Projects /\ Owner[r.proj] = r.user
             /\ KnownOK(c)
             /\ IF r.pc = "send" THEN r.key \in Keys ELSE r.key = None
             /\ r.pc = "relay" => r.served = r.proj

GatewayInv ==
    /\ Inv
    /\ GatewayTypeOK
    /\ PassOK /\ FileOK /\ RunsOK /\ Agree
    /\ \A c \in Clients : CallOK(c)

-----------------------------------------------------------------------------
(* What a thread's step does *)

\* The effects of a step of thread t that matter to the gateway.
Effects(t) ==
    /\ th[t].pc # "idle"
    /\ \A u \in Threads \ {t} : th'[u] = th[u]
    /\ th'[t].pc \in {"run", "wait"} =>
          th'[t].proj = th[t].proj /\ (Launched(t) \/ th[t].pc = "run")
    /\ \A n \in Names : podman'[n] = "running" /\ podman[n] # "running" => th[t].pc = "run"
    /\ \/ secrets' \subseteq secrets
       \/ Launched(t) /\ secrets' = secrets \cup {th[t].proj}
    /\ \A w \in Ids : Inserting(t, w)' => Inserting(t, w)
    /\ \A w \in Ids : project'[w] \in {project[w], None} \/ Inserting(t, w)

LEMMA ProbeEffects ==
  ASSUME Inv, NEW t \in Threads, StartProbe(t) \/ Pick(t) \/ NoCapacity(t) \/ Refresh(t)
  PROVE  Effects(t)
  BY DEF Inv, TypeOK, ThreadStates, StartProbe, Pick, NoCapacity, Refresh, At, Goto, Finish, Load,
         Row, Exists, Idle, Effects, Inserting, Launched, rowVars, hostVars

LEMMA LaunchEffects ==
  ASSUME Inv, NEW t \in Threads,
         Prepare(t) \/ Run(t) \/ RunFails(t) \/ Ready(t) \/ NotReady(t)
  PROVE  Effects(t)
  BY RemovedTyped DEF Inv, TypeOK, ThreadStates, Prepare, Run, RunFails, Ready, NotReady, At, Goto, Rm,
         Removed, RuntimeName, Effects, Inserting, Launched, rowVars, hostVars

LEMMA LeaseEffects ==
  ASSUME Inv, NEW t \in Threads, Lease(t)
  PROVE  Effects(t)
  <1>1. ThreadOK(t) /\ th[t].obj # None /\ th[t].op = "start" /\ th[t].proj \in Projects
    BY AtWork DEF Lease, At, Starting, Launch, Waiting, Inv, ThreadOK
  <1>2. th[t].obj \in Objects /\ th[t].obj.id \in Ids
    BY <1>1, ObjectTypes DEF Inv
  <1>3. th[t].obj.status = "ABSENT" <=> Inserting(t, th[t].obj.id)
    BY <1>1 DEF Inserting
  <1>4. CASE Rejected(th[t].obj, Leased(th[t].obj, th[t].slot), th[t].proj)
    BY <1>4, <1>2 DEF Lease, At, Finish, Idle, Inv, TypeOK, Effects, Inserting, Launched, rowVars, hostVars
  <1>5. CASE ~Rejected(th[t].obj, Leased(th[t].obj, th[t].slot), th[t].proj)
    <2>1. /\ project' = [project EXCEPT ![th[t].obj.id] = th[t].proj]
          /\ Load(t, "refresh", Leased(th[t].obj, th[t].slot))
          /\ UNCHANGED hostVars /\ th[t].pc = "lease"
      BY <1>5 DEF Lease, At
    <2>2. Inserting(t, th[t].obj.id) \/ project[th[t].obj.id] = th[t].proj
      <3>1. Exists(th[t].obj.id) \/ Inserting(t, th[t].obj.id)
        BY <1>3, <1>5 DEF Rejected
      <3>2. RowOK(th[t].obj.id)
        BY <1>2 DEF Inv
      <3> QED BY <1>1, <3>1, <3>2 DEF RowOK, ThreadOK
    <2>3. ASSUME NEW w \in Ids PROVE project'[w] \in {project[w], None} \/ Inserting(t, w)
      BY <2>1, <2>2, <1>2 DEF Inv, TypeOK
    <2>4. /\ \A u \in Threads \ {t} : th'[u] = th[u]
          /\ th'[t].pc = "refresh" /\ th'[t].obj = Leased(th[t].obj, th[t].slot)
      BY <2>1 DEF Load, Inv, TypeOK, ThreadStates
    <2>5. Leased(th[t].obj, th[t].slot).status = "STARTING"
      BY <1>2 DEF Leased, Objects
    <2> QED BY <2>1, <2>3, <2>4, <2>5 DEF Effects, Inserting, hostVars
  <1> QED BY <1>4, <1>5

LEMMA EndEffects ==
  ASSUME Inv, NEW t \in Threads,
         Confirm(t) \/ Except(t) \/ Remove(t) \/ Purge(t) \/ PurgeFails(t)
  PROVE  Effects(t)
  BY DEF Inv, TypeOK, ThreadStates, Confirm, Except, Remove, Purge, PurgeFails, At, Goto, Finish,
         Rm, Removed, Idle, Effects, Inserting, Launched, rowVars, hostVars

\* A flush leaves an object that is in the database.
LEMMA FlushEffects ==
  ASSUME Inv, NEW t \in Threads, Commit(t) \/ Fail(t) \/ Mark(t) \/ Free(t)
  PROVE  Effects(t)
  <1>1. /\ th[t].obj # None /\ th[t].obj \in Objects
        /\ th[t].obj.status = "ABSENT" => th[t].pc \in {"pick", "lease"}
    BY ObjectTypes DEF Inv, ThreadOK, Commit, Fail, Mark, Free, At, Waiting
  <1>2. PICK x \in PCs \ {"idle", "run", "wait"}, o \in Objects :
          /\ o.status # "ABSENT"
          /\ Finish(t) \/ Load(t, x, o)
    <2>1. CASE Commit(t)
      <3> DEFINE n == [th[t].obj EXCEPT !.status = "RUNNING", !.ctr = RuntimeName(t)]
      <3>1. RuntimeName(t) \in Names
        BY <2>1, AtWork DEF Commit, At, Launch, Starting, Waiting
      <3>2. n \in Objects /\ n.status # "ABSENT"
        BY <1>1, <3>1 DEF Objects, Statuses, ActiveStates
      <3>3. Finish(t) \/ Load(t, "confirm", n)
        BY <2>1 DEF Commit
      <3> HIDE DEF n
      <3> QED BY <3>2, <3>3 DEF PCs
    <2>2. CASE Fail(t)
      BY <1>1, <2>2 DEF Fail, PCs, At
    <2>3. CASE Mark(t)
      <3> DEFINE n == [th[t].obj EXCEPT !.status = IF @ \in {"STOPPED", "ERROR"} THEN @ ELSE "STOPPING"]
      <3>1. n \in Objects /\ n.status # "ABSENT"
        BY <1>1 DEF Objects, Statuses, ActiveStates
      <3> HIDE DEF n
      <3> QED BY <2>3, <3>1, <1>1 DEF Mark, PCs, n, At
    <2>4. CASE Free(t)
      <3> DEFINE n == [th[t].obj EXCEPT !.status = "STOPPED", !.slot = NoSlot, !.ctr = None]
      <3>1. n \in Objects /\ n.status # "ABSENT"
        BY <1>1 DEF Objects, Statuses, ActiveStates
      <3>2. AfterRelease(t) \in PCs \ {"idle", "run", "wait"}
        BY DEF AfterRelease, PCs
      <3> HIDE DEF n
      <3> QED BY <2>4, <3>1, <3>2, <1>1 DEF Free, n, At, PCs
    <2> QED BY <2>1, <2>2, <2>3, <2>4
  <1>3. th[t].pc # "idle" /\ UNCHANGED <<project, hostVars>>
    BY DEF Commit, Fail, Mark, Free, At, rowVars
  <1>4. /\ \A u \in Threads \ {t} : th'[u] = th[u]
        /\ th'[t].pc \in {"idle", x}
        /\ th'[t].obj \in {None, o}
    BY <1>2 DEF Inv, TypeOK, ThreadStates, Finish, Idle, Load
  <1> QED BY <1>2, <1>3, <1>4 DEF Effects, Inserting, hostVars

LEMMA EraseEffects ==
  ASSUME Inv, NEW t \in Threads, Erase(t)
  PROVE  Effects(t)
  BY DEF Inv, TypeOK, ThreadStates, Erase, At, Finish, Idle, Effects, Inserting, Launched, hostVars

LEMMA LoopEffects ==
  ASSUME Inv, NEW t \in Threads, LoopStep(t)
  PROVE  Effects(t)
  <1>1. ThreadOK(t) /\ th[t] \in ThreadStates /\ th[t].pc = "next"
    BY DEF Inv, TypeOK, LoopStep, ReleaseNext, KeepNext, LoopEnd, At
  <1>2. /\ \A u \in Threads \ {t} : th'[u] = th[u]
        /\ th'[t].pc \notin {"run", "wait"}
        /\ \/ th'[t].obj \in {th[t].obj, None}
           \/ th'[t].obj \in th[t].todo
        /\ UNCHANGED <<rowVars, hostVars>>
    <2>1. th \in [Threads -> ThreadStates] /\ UNCHANGED <<rowVars, hostVars>>
      BY DEF Inv, TypeOK, LoopStep, ReleaseNext, KeepNext, LoopEnd
    <2>2. CASE ReleaseNext(t)
      BY <2>1, <2>2 DEF ReleaseNext, ThreadStates
    <2>3. CASE KeepNext(t)
      BY <1>1, <2>1, <2>3 DEF KeepNext, ThreadStates
    <2>4. CASE LoopEnd(t)
      <3> DEFINE r == IF th[t].op = "reconcile" THEN [Idle EXCEPT !.pc = "reap", !.op = "reap"]
                                                 ELSE Idle
      <3>1. r.pc \in {"idle", "reap"} /\ r.obj = None
        BY DEF Idle
      <3>2. th' = [th EXCEPT ![t] = r]
        BY <2>4 DEF LoopEnd, Finish
      <3> HIDE DEF r
      <3> QED BY <2>1, <3>1, <3>2
    <2> QED BY <2>1, <2>2, <2>3, <2>4 DEF LoopStep
  <1> QED BY <1>1, <1>2 DEF Effects, Inserting, ThreadOK, rowVars, hostVars

LEMMA TimeoutEffects ==
  ASSUME Inv, NEW t \in Threads, TimeoutStep(t)
  PROVE  Effects(t)
  BY DEF Inv, TypeOK, ThreadStates, TimeoutStep, RemoveTimesOut, LaunchTimesOut, InspectTimesOut,
         At, Goto, Finish, Idle, Removed, RuntimeName, Effects, Inserting, Launched, rowVars, hostVars

LEMMA ThreadEffects ==
  ASSUME Inv, NEW t \in Threads, ThreadStep(t)
  PROVE  Effects(t)
  BY ProbeEffects, LaunchEffects, LeaseEffects, EndEffects, FlushEffects, EraseEffects,
     LoopEffects, TimeoutEffects
  DEF ThreadStep, StartStep, ReleaseStep, DeleteStep

-----------------------------------------------------------------------------
(* Steps of the control plane *)

LEMMA KeysAreNotNone == None \notin Keys /\ Clients \subseteq Threads /\ None \notin Projects
  BY GatewayAssumption, ConstantsAssumption DEF Threads

\* A connection's workspace stays as it is known, whatever thread t does.
LEMMA CallsKept ==
  ASSUME GatewayInv, NEW t \in Threads, Effects(t), UNCHANGED call
  PROVE  \A c \in Clients : CallOK(c)'
  <1> SUFFICES ASSUME NEW c \in Clients PROVE CallOK(c)'  OBVIOUS
  <1>1. CASE call[c].pc = "idle"
    BY <1>1 DEF GatewayInv, CallOK
  <1>2. CASE call[c].pc # "idle"
    <2>1. At(c, "idle") /\ KnownOK(c) /\ call[c].obj.id \in Ids
      BY <1>2 DEF GatewayInv, CallOK, KnownOK, Objects
    <2>2. At(c, "idle")'
      BY <2>1, KeysAreNotNone DEF Effects, At
    <2>3. ASSUME NEW u \in Threads PROVE ~Inserting(u, call[c].obj.id)'
      BY <2>1 DEF KnownOK, Effects, Inserting
    <2>4. project'[call[c].obj.id] \in {call[c].proj, None}
      BY <2>1 DEF KnownOK, Effects
    <2>5. KnownOK(c)'
      BY <2>1, <2>3, <2>4 DEF KnownOK, ObjectOK
    <2> QED BY <1>2, <2>2, <2>5 DEF GatewayInv, CallOK
  <1> QED BY <1>1, <1>2

LEMMA StepContents ==
  ASSUME GatewayInv, NEW t \in Threads, ThreadStep(t), Contents(t), UNCHANGED call
  PROVE  GatewayInv'
  <1> USE KeysAreNotNone
  <1>1. Inv' /\ Effects(t)
    BY NextInv, ThreadEffects DEF GatewayInv, Next
  <1>2. /\ th[t] \in ThreadStates /\ pass[t] \in Keys \cup {None}
        /\ th[t].proj \in Projects \cup {None}
        /\ th[t].pc = "run" => pass[t] \in Keys /\ th[t].proj \in Projects
        /\ Launched(t) => th[t].proj \in Projects
    BY DEF GatewayInv, GatewayTypeOK, PassOK, Inv, TypeOK, ThreadStates, ThreadOK, Launched, At,
           Starting, Launch
  <1>3. runs' = [n \in Names |->
                   IF podman'[n] # "running" THEN NotRunning
                   ELSE IF podman[n] = "running" THEN runs[n]
                   ELSE [key |-> pass[t], proj |-> th[t].proj]]
    BY DEF Contents
  <1>4. runs' \in [Names -> [key : Keys \cup {None}, proj : Projects \cup {None}]]
    BY <1>2, <1>3 DEF GatewayInv, GatewayTypeOK, NotRunning
  <1>5. RunsOK'
    BY <1>1, <1>2, <1>3 DEF GatewayInv, RunsOK, Running, Effects
  <1>6. \A u \in Threads \ {t} : th'[u] = th[u] /\ pass'[u] = pass[u]
    BY <1>1 DEF Effects, Contents, GatewayInv, GatewayTypeOK
  <1>7. ASSUME NEW n \in Names, NEW k \in Keys, runs'[n].key = k
        PROVE  runs'[n] = runs[n] \/ (pass[t] = k /\ runs'[n].proj = th[t].proj)
    BY <1>3, <1>7 DEF NotRunning
  <1>8. CASE Launched(t)
    <2>1. PICK k \in FreshKeys :
            /\ file' = [file EXCEPT ![th[t].proj] = k]
            /\ pass' = [pass EXCEPT ![t] = k]
      BY <1>8 DEF Contents
    <2>2. k \in Keys
      BY <2>1 DEF FreshKeys
    <2>3. /\ file' \in [Projects -> Keys \cup {None}]
          /\ pass' \in [Threads -> Keys \cup {None}]
          /\ pass'[t] = k /\ file'[th[t].proj] = k
          /\ \A p \in Projects : p # th[t].proj => file'[p] = file[p]
      BY <1>2, <1>8, <2>1, <2>2 DEF GatewayInv, GatewayTypeOK
    <2>4. th'[t].pc = "run" /\ th'[t].proj = th[t].proj
      BY <1>1, <1>8 DEF Launched, Effects
    <2>5. PassOK'
      BY <1>6, <2>2, <2>3, <2>4 DEF GatewayInv, PassOK
    <2>6. FileOK'
      <3> SUFFICES ASSUME NEW p \in secrets' PROVE file'[p] \in Keys
        BY DEF FileOK
      <3>1. p \in secrets \/ p = th[t].proj
        BY <1>1 DEF Effects
      <3>2. p \in Projects
        BY <1>1 DEF Inv, TypeOK
      <3> QED BY <2>2, <2>3, <3>1, <3>2 DEF GatewayInv, FileOK
    <2>7. \A p \in Projects : ~Holds(k, p)
      BY <2>1 DEF FreshKeys, Holds
    <2>8. ASSUME NEW j \in Keys, NEW p \in Projects, Holds(j, p)'
          PROVE  Holds(j, p) \/ (j = k /\ p = th[t].proj)
      <3>1. CASE file'[p] = j
        BY <2>3, <3>1 DEF Holds
      <3>2. ASSUME NEW u \in Threads, pass'[u] = j, th'[u].proj = p
            PROVE  Holds(j, p) \/ (j = k /\ p = th[t].proj)
        BY <1>6, <2>3, <2>4, <3>2 DEF Holds
      <3>3. ASSUME NEW n \in Names, runs'[n].key = j, runs'[n].proj = p
            PROVE  Holds(j, p)
        BY <1>7, <3>3 DEF Holds
      <3>4. ASSUME NEW c \in Clients, call'[c].key = j, call'[c].proj = p
            PROVE  Holds(j, p)
        BY <3>4 DEF Holds
      <3> QED BY <2>8, <3>1, <3>2, <3>3, <3>4 DEF Holds
    <2>9. Agree'
      BY <2>7, <2>8 DEF GatewayInv, Agree
    <2>10. GatewayTypeOK'
      BY <1>4, <2>3 DEF GatewayInv, GatewayTypeOK
    <2> QED BY <1>1, <1>5, <2>5, <2>6, <2>9, <2>10, CallsKept DEF GatewayInv
  <1>9. CASE ~Launched(t)
    <2>1. /\ file' = [p \in Projects |-> IF p \in secrets' THEN file[p] ELSE None]
          /\ pass' = [pass EXCEPT ![t] = IF th'[t].pc \in {"run", "wait"} THEN @ ELSE None]
      BY <1>9 DEF Contents
    <2>2. /\ file' \in [Projects -> Keys \cup {None}]
          /\ pass' \in [Threads -> Keys \cup {None}]
      BY <1>2, <2>1 DEF GatewayInv, GatewayTypeOK
    <2>3. IF th'[t].pc \in {"run", "wait"}
          THEN pass'[t] = pass[t] /\ th'[t].proj = th[t].proj /\ th[t].pc = "run"
          ELSE pass'[t] = None
      BY <1>1, <1>9, <2>1 DEF Effects, GatewayInv, GatewayTypeOK
    <2>4. PassOK'
      BY <1>2, <1>6, <2>3 DEF GatewayInv, PassOK
    <2>5. FileOK'
      BY <1>1, <1>9, <2>1 DEF GatewayInv, FileOK, Effects, Inv, TypeOK
    <2>6. ASSUME NEW j \in Keys, NEW p \in Projects, Holds(j, p)'
          PROVE  Holds(j, p)
      <3>1. CASE file'[p] = j
        BY <2>1, <3>1 DEF Holds
      <3>2. ASSUME NEW u \in Threads, pass'[u] = j, th'[u].proj = p
            PROVE  Holds(j, p)
        BY <1>6, <2>3, <3>2 DEF Holds
      <3>3. ASSUME NEW n \in Names, runs'[n].key = j, runs'[n].proj = p
            PROVE  Holds(j, p)
        BY <1>7, <3>3 DEF Holds
      <3>4. ASSUME NEW c \in Clients, call'[c].key = j, call'[c].proj = p
            PROVE  Holds(j, p)
        BY <3>4 DEF Holds
      <3> QED BY <2>6, <3>1, <3>2, <3>3, <3>4 DEF Holds
    <2>7. Agree'
      BY <2>6 DEF GatewayInv, Agree
    <2>8. GatewayTypeOK'
      BY <1>4, <2>2 DEF GatewayInv, GatewayTypeOK
    <2> QED BY <1>1, <1>5, <2>4, <2>5, <2>7, <2>8, CallsKept DEF GatewayInv
  <1> QED BY <1>8, <1>9

\* What is left alone by everything but a thread's step, a crash and an exit.
Steady == UNCHANGED <<rowVars, hostVars, file, pass, runs>>

\* The threads' part of the invariant when thread t becomes another one that
\* does not launch.
LEMMA SteadyKept ==
  ASSUME GatewayInv, Inv', Steady, NEW t \in Threads,
         \A u \in Threads \ {t} : th'[u] = th[u],
         th[t].pc \notin {"run", "wait"}, th'[t].pc \notin {"run", "wait"},
         call' \in [Clients -> Calls],
         \A k \in Keys, p \in Projects, c \in Clients :
             call'[c].key = k /\ call'[c].proj = p => Holds(k, p)
  PROVE  GatewayTypeOK' /\ PassOK' /\ FileOK' /\ RunsOK' /\ Agree'
  <1>1. /\ UNCHANGED file /\ UNCHANGED pass /\ UNCHANGED runs
        /\ UNCHANGED podman /\ UNCHANGED secrets
    BY DEF Steady, hostVars
  <1>2. GatewayTypeOK'
    BY <1>1 DEF GatewayInv, GatewayTypeOK
  <1>3. PassOK'
    BY <1>1 DEF GatewayInv, PassOK
  <1>4. FileOK' /\ RunsOK'
    BY <1>1 DEF GatewayInv, FileOK, RunsOK, Running
  <1>5. ASSUME NEW k \in Keys, NEW p \in Projects, Holds(k, p)'
        PROVE  Holds(k, p)
    <2>1. CASE file'[p] = k
      BY <1>1, <2>1 DEF Holds
    <2>2. ASSUME NEW u \in Threads, pass'[u] = k, th'[u].proj = p
          PROVE  Holds(k, p)
      <3>1. pass[u] = k /\ u # t
        BY <1>1, <2>2 DEF GatewayInv, PassOK
      <3> QED BY <3>1, <2>2 DEF Holds
    <2>3. ASSUME NEW n \in Names, runs'[n].key = k, runs'[n].proj = p
          PROVE  Holds(k, p)
      BY <1>1, <2>3 DEF Holds
    <2> QED BY <1>5, <2>1, <2>2, <2>3 DEF Holds
  <1>6. Agree'
    BY <1>5 DEF GatewayInv, Agree
  <1> QED BY <1>2, <1>3, <1>4, <1>6

\* A handler or a loop begins: it may be about to insert a new id, but none that
\* a connection knows.
LEMMA ArrivalEffects ==
  ASSUME Inv, NEW t \in Requests, Arrival(t)
  PROVE  /\ \A u \in Threads \ {t} : th'[u] = th[u]
         /\ th[t].pc = "idle" /\ th'[t].pc \notin {"run", "wait"}
         /\ UNCHANGED <<rowVars, slotVars, hostVars, up>>
  <1>1. t \in Threads /\ th \in [Threads -> ThreadStates]
    BY DEF Threads, Inv, TypeOK
  <1>2. ASSUME NEW p \in Projects, StartSelect(t, p)
        PROVE  /\ \A u \in Threads \ {t} : th'[u] = th[u]
               /\ th'[t].pc \notin {"run", "wait"}
    BY <1>1, <1>2 DEF StartSelect, Idle
  <1>3. ASSUME NEW w \in Ids, StopSelect(t, w) \/ DeleteSelect(t, w)
        PROVE  /\ \A u \in Threads \ {t} : th'[u] = th[u]
               /\ th'[t].pc \notin {"run", "wait"}
    BY <1>1, <1>3 DEF StopSelect, DeleteSelect, Idle
  <1>4. ASSUME NEW u \in Users, StopAllSelect(t, u)
        PROVE  /\ \A v \in Threads \ {t} : th'[v] = th[v]
               /\ th'[t].pc \notin {"run", "wait"}
    BY <1>1, <1>4 DEF StopAllSelect, Loop, Idle
  <1> QED BY <1>2, <1>3, <1>4
          DEF Arrival, StartSelect, StopSelect, DeleteSelect, StopAllSelect, Call, At

LEMMA KeeperEffects ==
  ASSUME Inv, Boot \/ Reconcile \/ ReapSelect
  PROVE  /\ Keeper \in Threads /\ Keeper \notin Clients
         /\ \A u \in Threads \ {Keeper} : th'[u] = th[u]
         /\ th[Keeper].pc \notin {"run", "wait"} /\ th'[Keeper].pc \notin {"run", "wait"}
         /\ th'[Keeper].obj = None
         /\ UNCHANGED <<rowVars, slotVars, hostVars, up>>
  <1>1. /\ Keeper \in Threads /\ Keeper \notin Clients
        /\ th \in [Threads -> ThreadStates]
    BY ConstantsAssumption, GatewayAssumption DEF Threads, Inv, TypeOK
  <1>2. \E o \in {"boot", "reconcile", "reap"}, ws \in SUBSET Ids : Loop(Keeper, o, ws)
    <2>1. ActiveRows \subseteq Ids /\ {w \in Ids : status[w] = "RUNNING"} \subseteq Ids
      BY DEF ActiveRows
    <2> QED BY <2>1 DEF Boot, Reconcile, ReapSelect
  <1> QED BY <1>1, <1>2 DEF Boot, Reconcile, ReapSelect, Loop, Idle, At

LEMMA SelectionInv ==
  ASSUME GatewayInv, Selection, UNCHANGED gatewayVars
  PROVE  GatewayInv'
  <1>1. Inv'
    BY NextInv DEF GatewayInv, Selection, Next
  <1>2. UNCHANGED file /\ UNCHANGED pass /\ UNCHANGED runs /\ UNCHANGED call
    BY DEF gatewayVars
  <1>3. PICK t \in Threads \ Clients :
          /\ \A u \in Threads \ {t} : th'[u] = th[u]
          /\ th[t].pc \notin {"run", "wait"} /\ th'[t].pc \notin {"run", "wait"}
          /\ UNCHANGED <<rowVars, slotVars, hostVars, up>>
          /\ \A w \in KnownIds : ~Inserting(t, w)'
    <2>1. ASSUME NEW t \in Requests \ Clients, Arrival(t), NewIds \cap KnownIds = {}
          PROVE  /\ t \in Threads
                 /\ \A u \in Threads \ {t} : th'[u] = th[u]
                 /\ th[t].pc \notin {"run", "wait"} /\ th'[t].pc \notin {"run", "wait"}
                 /\ UNCHANGED <<rowVars, slotVars, hostVars, up>>
                 /\ \A w \in KnownIds : ~Inserting(t, w)'
      <3>1. /\ t \in Threads
            /\ \A u \in Threads \ {t} : th'[u] = th[u]
            /\ th[t].pc = "idle" /\ th'[t].pc \notin {"run", "wait"}
            /\ UNCHANGED <<rowVars, slotVars, hostVars, up>>
        BY <2>1, ArrivalEffects DEF Threads, GatewayInv
      <3>2. ASSUME NEW w \in KnownIds, Inserting(t, w)' PROVE FALSE
        BY <2>1, <3>1, <3>2 DEF NewIds, Inserting, At
      <3> QED BY <3>1, <3>2
    <2>2. CASE Boot \/ Reconcile \/ ReapSelect
      BY <2>2, KeeperEffects DEF Inserting, GatewayInv
    <2> QED BY <2>1, <2>2 DEF Selection
  <1>4. Steady
    BY <1>2, <1>3 DEF Steady
  <1>5. \A k \in Keys, p \in Projects, c \in Clients :
           call'[c].key = k /\ call'[c].proj = p => Holds(k, p)
    BY <1>2 DEF Holds
  <1>6. call' \in [Clients -> Calls]
    BY <1>2 DEF GatewayInv, GatewayTypeOK
  <1>7. GatewayTypeOK' /\ PassOK' /\ FileOK' /\ RunsOK' /\ Agree'
    BY <1>1, <1>3, <1>4, <1>5, <1>6, SteadyKept
  <1>8. ASSUME NEW c \in Clients PROVE CallOK(c)'
    <2>1. CASE call[c].pc = "idle"
      BY <1>2, <2>1 DEF GatewayInv, CallOK
    <2>2. CASE call[c].pc # "idle"
      <3>1. At(c, "idle") /\ KnownOK(c) /\ call[c].obj.id \in KnownIds
        BY <2>2, NoneIsNone DEF GatewayInv, CallOK, KnownOK, KnownIds
      <3>2. At(c, "idle")'
        BY <1>3, <3>1, KeysAreNotNone DEF At
      <3>3. ASSUME NEW u \in Threads PROVE ~Inserting(u, call[c].obj.id)'
        BY <1>2, <1>3, <3>1 DEF KnownOK, Inserting
      <3>4. KnownOK(c)'
        BY <1>2, <1>3, <3>1, <3>3 DEF KnownOK, ObjectOK, rowVars
      <3> QED BY <1>2, <2>2, <3>2, <3>4 DEF GatewayInv, CallOK
    <2> QED BY <2>1, <2>2
  <1> QED BY <1>1, <1>7, <1>8 DEF GatewayInv

-----------------------------------------------------------------------------
(* Steps of the clients *)

\* A client's call becomes r, the threads stay as they are.
LEMMA CallStep ==
  ASSUME GatewayInv, NEW c \in Clients, NEW r \in Calls,
         call' = [call EXCEPT ![c] = r], UNCHANGED th, Elsewhere, At(c, "idle"),
         CallOK(c)', r.key \in Keys => Holds(r.key, r.proj)
  PROVE  GatewayInv'
  <1> USE KeysAreNotNone
  <1>1. Steady /\ UNCHANGED vars
    BY DEF Elsewhere, Steady, vars, rowVars, slotVars, hostVars
  <1>2. Inv'
    BY <1>1, NextInv DEF GatewayInv
  <1>3. /\ call' \in [Clients -> Calls] /\ call'[c] = r
        /\ \A d \in Clients \ {c} : call'[d] = call[d]
    BY DEF GatewayInv, GatewayTypeOK
  <1>4. ASSUME NEW k \in Keys, NEW p \in Projects, NEW d \in Clients,
               call'[d].key = k, call'[d].proj = p
        PROVE  Holds(k, p)
    <2>1. CASE d = c
      BY <1>3, <1>4, <2>1
    <2>2. CASE d # c
      BY <1>3, <1>4, <2>2 DEF Holds
    <2> QED BY <2>1, <2>2
  <1>5. GatewayTypeOK' /\ PassOK' /\ FileOK' /\ RunsOK' /\ Agree'
    BY <1>1, <1>2, <1>3, <1>4, SteadyKept DEF At
  <1>6. ASSUME NEW d \in Clients \ {c} PROVE CallOK(d)'
    BY <1>1, <1>3 DEF GatewayInv, CallOK, KnownOK, At, Inserting, ObjectOK, vars, rowVars
  <1> QED BY <1>2, <1>5, <1>6 DEF GatewayInv

LEMMA NoCallType == NoCall \in Calls /\ NoCall.pc = "idle" /\ NoCall.key = None
  BY DEF NoCall, Calls, CallPCs

\* A call that is under way.
LEMMA CallUnderWay ==
  ASSUME GatewayInv, NEW c \in Clients, call[c].pc # "idle"
  PROVE  /\ At(c, "idle") /\ KnownOK(c) /\ CallOK(c)
         /\ call[c] \in Calls /\ call[c].proj \in Projects
         /\ call[c].pc = "send" => call[c].key \in Keys
         /\ call[c].pc # "send" => call[c].key = None
  BY DEF GatewayInv, GatewayTypeOK, CallOK

\* What the gateway selects is a row of the user's, and nobody inserts it.
LEMMA CandidateOK ==
  ASSUME GatewayInv, NEW u \in Users, NEW sel \in Ids \cup {None}, NEW w \in Candidates(u, sel)
  PROVE  /\ w \in Ids /\ project[w] \in Projects /\ Owner[project[w]] = u
         /\ Row(w) \in Objects /\ ObjectOK(Row(w)) /\ Row(w).status # "ABSENT" /\ Row(w).id = w
         /\ \A t \in Threads : ~Inserting(t, w)
  <1>1. w \in Ids /\ status[w] = "RUNNING" /\ Owner[project[w]] = u
    BY DEF Candidates
  <1>2. Exists(w) /\ RowOK(w) /\ \A t \in Threads : NewIdOK(t)
    BY <1>1 DEF Exists, GatewayInv, Inv
  <1>3. project[w] \in Projects
    BY <1>1, <1>2 DEF RowOK, GatewayInv, Inv, TypeOK
  <1>4. Row(w) \in Objects /\ Row(w).id = w /\ ObjectOK(Row(w))
    BY <1>1, RowIsObject DEF GatewayInv
  <1>5. Row(w).status # "ABSENT"
    BY <1>1 DEF Row
  <1> QED BY <1>1, <1>2, <1>3, <1>4, <1>5 DEF NewIdOK

LEMMA SelectInv ==
  ASSUME GatewayInv, NEW c \in Clients, NEW u \in Users, NEW sel \in Ids \cup {None},
         NEW where \in {"check", "secret"}, Select(c, u, sel, where)
  PROVE  GatewayInv'
  <1>1. PICK w \in Candidates(u, sel) :
          call' = [call EXCEPT ![c] = [NoCall EXCEPT !.pc = where, !.user = u, !.sel = sel,
                                         !.obj = Row(w), !.proj = project[w]]]
    BY DEF Select
  <1> DEFINE r == [NoCall EXCEPT !.pc = where, !.user = u, !.sel = sel,
                     !.obj = Row(w), !.proj = project[w]]
  <1>2. /\ w \in Ids /\ project[w] \in Projects /\ Owner[project[w]] = u
        /\ Row(w) \in Objects /\ ObjectOK(Row(w)) /\ Row(w).status # "ABSENT" /\ Row(w).id = w
        /\ \A t \in Threads : ~Inserting(t, w)
    BY CandidateOK
  <1>3. /\ r \in Calls /\ r.pc = where /\ r.user = u /\ r.obj = Row(w) /\ r.proj = project[w]
        /\ r.key = None
    BY <1>2 DEF NoCall, Calls, CallPCs
  <1>4. call' = [call EXCEPT ![c] = r] /\ UNCHANGED th /\ Elsewhere /\ At(c, "idle")
    BY <1>1 DEF Select
  <1> HIDE DEF r
  <1>5. call'[c] = r /\ UNCHANGED project
    BY <1>4 DEF GatewayInv, GatewayTypeOK, Elsewhere, rowVars
  <1>6. KnownOK(c)'
    BY <1>2, <1>3, <1>4, <1>5 DEF KnownOK, ObjectOK, Inserting
  <1>7. CallOK(c)'
    BY <1>2, <1>3, <1>4, <1>5, <1>6 DEF CallOK, At
  <1> QED BY <1>3, <1>4, <1>7, CallStep, KeysAreNotNone

LEMMA AnswerInv ==
  ASSUME GatewayInv, NEW c \in Clients, call[c].pc # "idle", Answer(c), UNCHANGED th, Elsewhere
  PROVE  GatewayInv'
  <1>1. call'[c] = NoCall
    BY DEF Answer, GatewayInv, GatewayTypeOK
  <1>2. CallOK(c)'
    BY <1>1, NoCallType DEF CallOK
  <1> QED BY <1>2, NoCallType, CallStep, CallUnderWay, KeysAreNotNone DEF Answer

LEMMA CheckInv ==
  ASSUME GatewayInv, NEW c \in Clients, Check(c)
  PROVE  GatewayInv'
  <1> DEFINE r == [call[c] EXCEPT !.pc = "again"]
  <1>1. call[c].pc = "check"
    BY DEF Check, InCall
  <1>2. /\ r \in Calls /\ r.pc = "again" /\ r.user = call[c].user /\ r.obj = call[c].obj
        /\ r.proj = call[c].proj /\ r.key = None
    BY <1>1, CallUnderWay DEF Calls, CallPCs
  <1>3. call' = [call EXCEPT ![c] = r] /\ UNCHANGED th /\ Elsewhere
    BY DEF Check, Proceed, GatewayInv, GatewayTypeOK
  <1> HIDE DEF r
  <1>4. call'[c] = r /\ UNCHANGED project
    BY <1>3 DEF GatewayInv, GatewayTypeOK, Elsewhere, rowVars
  <1>5. CallOK(c)'
    BY <1>1, <1>2, <1>3, <1>4, CallUnderWay DEF CallOK, KnownOK, ObjectOK, Inserting, At
  <1> QED BY <1>1, <1>2, <1>3, <1>5, CallStep, CallUnderWay, KeysAreNotNone

LEMMA AgainInv ==
  ASSUME GatewayInv, NEW c \in Clients, Again(c)
  PROVE  GatewayInv'
  <1>1. call[c].pc = "again" /\ UNCHANGED th /\ Elsewhere
    BY DEF Again, InCall
  <1>2. CASE Answer(c)
    BY <1>1, <1>2, AnswerInv
  <1>3. ASSUME NEW w \in Candidates(call[c].user, call[c].sel),
               call' = [call EXCEPT ![c].pc = "secret",
                          ![c].obj = IF w = @.id THEN @ ELSE Row(w),
                          ![c].proj = project[w]]
        PROVE  GatewayInv'
    <2> DEFINE o == IF w = call[c].obj.id THEN call[c].obj ELSE Row(w)
               r == [call[c] EXCEPT !.pc = "secret", !.obj = o, !.proj = project[w]]
    <2>1. call[c].user \in Users /\ call[c].sel \in Ids \cup {None} /\ call[c].key = None
      BY <1>1, CallUnderWay, ConstantsAssumption DEF CallOK, Calls
    <2>2. /\ w \in Ids /\ project[w] \in Projects /\ Owner[project[w]] = call[c].user
          /\ Row(w) \in Objects /\ ObjectOK(Row(w)) /\ Row(w).status # "ABSENT" /\ Row(w).id = w
          /\ \A t \in Threads : ~Inserting(t, w)
      BY <2>1, CandidateOK
    <2>3. /\ o \in Objects /\ ObjectOK(o) /\ o.status # "ABSENT" /\ o.id = w
      BY <1>1, <2>2, CallUnderWay DEF KnownOK
    <2> HIDE DEF o
    <2>4. /\ r \in Calls /\ r.pc = "secret" /\ r.user = call[c].user /\ r.obj = o
          /\ r.proj = project[w] /\ r.key = None
      BY <1>1, <2>1, <2>2, <2>3, CallUnderWay DEF Calls, CallPCs
    <2>5. call' = [call EXCEPT ![c] = r]
      BY <1>3 DEF GatewayInv, GatewayTypeOK, o
    <2> HIDE DEF r
    <2>6. call'[c] = r /\ UNCHANGED project
      BY <1>1, <2>5 DEF GatewayInv, GatewayTypeOK, Elsewhere, rowVars
    <2>7. KnownOK(c)'
      BY <1>1, <2>2, <2>3, <2>4, <2>6 DEF KnownOK, ObjectOK, Inserting
    <2>8. CallOK(c)'
      BY <1>1, <2>2, <2>4, <2>6, <2>7, CallUnderWay DEF CallOK, At
    <2> QED BY <1>1, <2>4, <2>5, <2>8, CallStep, CallUnderWay, KeysAreNotNone
  <1> QED BY <1>2, <1>3 DEF Again

LEMMA ReadSecretInv ==
  ASSUME GatewayInv, NEW c \in Clients, ReadSecret(c)
  PROVE  GatewayInv'
  <1>1. call[c].pc = "secret" /\ UNCHANGED th /\ Elsewhere
    BY DEF ReadSecret, InCall
  <1>2. CASE Answer(c)
    BY <1>1, <1>2, AnswerInv
  <1>3. CASE /\ call[c].proj \in secrets
             /\ call' = [call EXCEPT ![c].pc = "send", ![c].key = file[call[c].proj]]
    <2> DEFINE r == [call[c] EXCEPT !.pc = "send", !.key = file[call[c].proj]]
    <2>1. file[call[c].proj] \in Keys
      BY <1>3 DEF GatewayInv, FileOK
    <2>2. /\ r \in Calls /\ r.pc = "send" /\ r.user = call[c].user /\ r.obj = call[c].obj
          /\ r.proj = call[c].proj /\ r.key = file[call[c].proj]
      BY <1>1, <2>1, CallUnderWay DEF Calls, CallPCs
    <2>3. call' = [call EXCEPT ![c] = r]
      BY <1>3 DEF GatewayInv, GatewayTypeOK
    <2> HIDE DEF r
    <2>4. call'[c] = r /\ UNCHANGED project
      BY <1>1, <2>3 DEF GatewayInv, GatewayTypeOK, Elsewhere, rowVars
    <2>5. CallOK(c)'
      BY <1>1, <2>1, <2>2, <2>4, CallUnderWay DEF CallOK, KnownOK, ObjectOK, Inserting, At
    <2>6. Holds(r.key, r.proj)
      BY <2>2 DEF Holds
    <2> QED BY <1>1, <2>2, <2>3, <2>5, <2>6, CallStep, CallUnderWay
  <1> QED BY <1>2, <1>3 DEF ReadSecret

\* The container that accepts the password was started for the same project.
LEMMA ForwardInv ==
  ASSUME GatewayInv, NEW c \in Clients, Forward(c)
  PROVE  GatewayInv'
  <1>1. call[c].pc = "send" /\ UNCHANGED th /\ Elsewhere
    BY DEF Forward, InCall
  <1>2. PICK n \in Names :
          /\ Serves(n, c)
          /\ call' = [call EXCEPT ![c].pc = "relay", ![c].key = None,
                                  ![c].served = runs[n].proj]
    BY DEF Forward
  <1>3. call[c].key \in Keys /\ call[c].proj \in Projects /\ CallOK(c)
    BY <1>1, CallUnderWay
  <1>4. runs[n].key = call[c].key /\ runs[n].proj \in Projects
    BY <1>2 DEF Serves, GatewayInv, RunsOK
  <1>5. Holds(call[c].key, runs[n].proj) /\ Holds(call[c].key, call[c].proj)
    BY <1>4 DEF Holds
  <1>6. runs[n].proj = call[c].proj
    BY <1>3, <1>4, <1>5 DEF GatewayInv, Agree
  <1> DEFINE r == [call[c] EXCEPT !.pc = "relay", !.key = None, !.served = runs[n].proj]
  <1>7. /\ r \in Calls /\ r.pc = "relay" /\ r.user = call[c].user /\ r.obj = call[c].obj
        /\ r.proj = call[c].proj /\ r.key = None /\ r.served = call[c].proj
    BY <1>1, <1>3, <1>6, CallUnderWay DEF Calls, CallPCs
  <1>8. call' = [call EXCEPT ![c] = r]
    BY <1>2 DEF GatewayInv, GatewayTypeOK
  <1> HIDE DEF r
  <1>9. call'[c] = r /\ UNCHANGED project
    BY <1>1, <1>8 DEF GatewayInv, GatewayTypeOK, Elsewhere, rowVars
  <1>10. CallOK(c)'
    BY <1>1, <1>7, <1>9, CallUnderWay DEF CallOK, KnownOK, ObjectOK, Inserting, At
  <1> QED BY <1>1, <1>7, <1>8, <1>10, CallStep, CallUnderWay, KeysAreNotNone

\* The connection's thread turns to the release of the workspace it knows.
LEMMA RecycleInv ==
  ASSUME GatewayInv, NEW c \in Clients, Recycle(c)
  PROVE  GatewayInv'
  <1> DEFINE r == [Idle EXCEPT !.pc = "mark", !.op = "stop", !.proj = call[c].proj,
                     !.obj = call[c].obj]
  <1>1. /\ call[c].pc = "check" /\ Elsewhere /\ Answer(c)
        /\ th' = [th EXCEPT ![c] = r]
    BY DEF Recycle, InCall
  <1>2. /\ At(c, "idle") /\ KnownOK(c) /\ call[c].proj \in Projects /\ c \in Threads
    BY <1>1, CallUnderWay, KeysAreNotNone
  <1>3. r \in ThreadStates /\ r.pc = "mark" /\ r.op = "stop" /\ r.proj = call[c].proj
        /\ r.obj = call[c].obj /\ r.todo = {}
    BY <1>2 DEF KnownOK, Idle, ThreadStates, PCs, Ops, AllHandlers
  <1> HIDE DEF r
  <1>4. /\ UNCHANGED <<rowVars, slotVars, hostVars, file, pass, runs, up>> /\ Steady
        /\ th'[c] = r /\ \A u \in Threads \ {c} : th'[u] = th[u]
    BY <1>1, <1>2 DEF Elsewhere, Steady, GatewayInv, Inv, TypeOK
  <1>5. r.obj # None /\ r.obj.status # "ABSENT"
    BY <1>2, <1>3, NoneIsNone DEF KnownOK
  <1>6. ThreadOK(c)'
    BY <1>2, <1>3, <1>4, <1>5
    DEF ThreadOK, KnownOK, ObjectOK, Starting, Launch, Deleting, Waiting, rowVars
  <1>7. Inv'
    <2>1. HostTyped
      BY <1>4, HostUnchanged DEF GatewayInv
    <2>2. \A u \in Threads \ {c} : ~Inserting(u, r.obj.id)
      BY <1>2, <1>3 DEF KnownOK
    <2> QED BY <1>1, <1>2, <1>3, <1>4, <1>5, <1>6, <2>1, <2>2, BeginStep DEF GatewayInv
  <1>8. /\ call' \in [Clients -> Calls] /\ call'[c] = NoCall
        /\ \A d \in Clients \ {c} : call'[d] = call[d]
    BY <1>1, NoCallType DEF Answer, GatewayInv, GatewayTypeOK
  <1>9. \A k \in Keys, p \in Projects, d \in Clients :
           call'[d].key = k /\ call'[d].proj = p => Holds(k, p)
    BY <1>8, NoCallType, KeysAreNotNone DEF Holds
  <1>10. GatewayTypeOK' /\ PassOK' /\ FileOK' /\ RunsOK' /\ Agree'
    BY <1>2, <1>3, <1>4, <1>7, <1>8, <1>9, SteadyKept DEF At
  <1>11. ASSUME NEW d \in Clients \ {c}, call[d].pc # "idle" PROVE CallOK(d)'
    <2>1. KnownOK(d) /\ At(d, "idle") /\ CallOK(d)
      BY <1>11, CallUnderWay
    <2>2. At(d, "idle")'
      BY <1>4, <2>1, KeysAreNotNone DEF At
    <2>3. ASSUME NEW u \in Threads PROVE ~Inserting(u, call[d].obj.id)'
      BY <1>3, <1>4, <1>5, <1>8, <2>1 DEF KnownOK, Inserting
    <2>4. KnownOK(d)'
      BY <1>4, <1>8, <2>1, <2>3 DEF KnownOK, ObjectOK, rowVars
    <2> QED BY <1>8, <1>11, <2>1, <2>2, <2>4 DEF CallOK
  <1>12. ASSUME NEW d \in Clients PROVE CallOK(d)'
    BY <1>8, <1>11, NoCallType DEF GatewayInv, CallOK
  <1> QED BY <1>7, <1>10, <1>12 DEF GatewayInv

LEMMA ClientStepInv ==
  ASSUME GatewayInv, NEW c \in Clients, ClientStep(c)
  PROVE  GatewayInv'
  <1>1. CASE HttpRequest(c) \/ WebSocket(c)
    BY <1>1, SelectInv DEF HttpRequest, WebSocket
  <1>2. CASE Refused(c) \/ RelayEnds(c)
    BY <1>2, AnswerInv DEF Refused, RelayEnds, InCall
  <1> QED BY <1>1, <1>2, CheckInv, RecycleInv, AgainInv, ReadSecretInv, ForwardInv
          DEF ClientStep

-----------------------------------------------------------------------------
(* The process stops, a container exits *)

LEMMA StopsInv ==
  ASSUME GatewayInv, Stops
  PROVE  GatewayInv'
  <1>1. Inv'
    BY NextInv DEF GatewayInv, Stops, Next, Environment
  <1>2. /\ runs' = [n \in Names |-> IF podman'[n] = "running" THEN runs[n] ELSE NotRunning]
        /\ pass' = [t \in Threads |-> None] /\ UNCHANGED file
        /\ call' = [c \in Clients |-> NoCall]
    BY DEF Stops
  <1>3. /\ \A t \in Threads : th'[t] = Idle
        /\ UNCHANGED secrets
        /\ \A n \in Names : podman'[n] = "running" => podman[n] = "running"
    BY DEF Stops, Crash, Reboot, hostVars, GatewayInv, Inv, TypeOK
  <1>4. GatewayTypeOK'
    BY <1>2, NoCallType DEF GatewayInv, GatewayTypeOK, NotRunning
  <1>5. PassOK' /\ FileOK' /\ RunsOK'
    BY <1>2, <1>3, KeysAreNotNone DEF GatewayInv, PassOK, FileOK, RunsOK, Running, Idle
  <1>6. ASSUME NEW k \in Keys, NEW p \in Projects, Holds(k, p)' PROVE Holds(k, p)
    BY <1>2, <1>6, KeysAreNotNone, NoCallType DEF Holds, NotRunning
  <1>7. Agree'
    BY <1>6 DEF GatewayInv, Agree
  <1>8. ASSUME NEW c \in Clients PROVE CallOK(c)'
    BY <1>2, NoCallType DEF CallOK
  <1> QED BY <1>1, <1>4, <1>5, <1>7, <1>8 DEF GatewayInv

LEMMA ExitsInv ==
  ASSUME GatewayInv, NEW n \in Names, Exits(n)
  PROVE  GatewayInv'
  <1>1. Inv'
    BY NextInv DEF GatewayInv, Exits, Next, Environment
  <1>2. /\ runs' = [runs EXCEPT ![n] = NotRunning]
        /\ UNCHANGED file /\ UNCHANGED pass /\ UNCHANGED call
        /\ UNCHANGED rowVars /\ UNCHANGED secrets /\ UNCHANGED th
        /\ \A m \in Names : podman'[m] = "running" => podman[m] = "running" /\ m # n
    BY DEF Exits, ContainerExit, GatewayInv, Inv, TypeOK
  <1>3. GatewayTypeOK'
    BY <1>2 DEF GatewayInv, GatewayTypeOK, NotRunning
  <1>4. PassOK' /\ FileOK' /\ RunsOK'
    BY <1>2 DEF GatewayInv, GatewayTypeOK, PassOK, FileOK, RunsOK, Running
  <1>5. ASSUME NEW k \in Keys, NEW p \in Projects, Holds(k, p)' PROVE Holds(k, p)
    BY <1>2, <1>5, KeysAreNotNone DEF Holds, NotRunning, GatewayInv, GatewayTypeOK
  <1>6. Agree'
    BY <1>5 DEF GatewayInv, Agree
  <1>7. ASSUME NEW c \in Clients PROVE CallOK(c)'
    BY <1>2 DEF GatewayInv, CallOK, KnownOK, ObjectOK, At, Inserting, rowVars
  <1> QED BY <1>1, <1>3, <1>4, <1>6, <1>7 DEF GatewayInv

-----------------------------------------------------------------------------
(* The theorems *)

LEMMA GatewayInitInv == GatewayInit => GatewayInv
  <1> SUFFICES ASSUME GatewayInit PROVE GatewayInv  OBVIOUS
  <1>1. Inv
    BY InitInv DEF GatewayInit
  <1>2. GatewayTypeOK
    BY NoCallType DEF GatewayInit, GatewayTypeOK, NotRunning
  <1>3. PassOK /\ FileOK /\ RunsOK
    BY KeysAreNotNone DEF GatewayInit, Init, PassOK, FileOK, RunsOK, Running, Idle
  <1>4. Agree
    BY KeysAreNotNone, NoCallType DEF GatewayInit, Agree, Holds, NotRunning
  <1>5. ASSUME NEW c \in Clients PROVE CallOK(c)
    BY NoCallType DEF GatewayInit, CallOK
  <1> QED BY <1>1, <1>2, <1>3, <1>4, <1>5 DEF GatewayInv

LEMMA GatewayNextInv == GatewayInv /\ [GatewayNext]_allVars => GatewayInv'
  <1> SUFFICES ASSUME GatewayInv, [GatewayNext]_allVars PROVE GatewayInv'  OBVIOUS
  <1>1. CASE Selection /\ UNCHANGED gatewayVars
    BY <1>1, SelectionInv
  <1>2. ASSUME NEW t \in Threads, ThreadStep(t), Contents(t), UNCHANGED call
        PROVE  GatewayInv'
    BY <1>2, StepContents
  <1>3. CASE \E c \in Clients : ClientStep(c)
    BY <1>3, ClientStepInv
  <1>4. CASE Stops \/ \E n \in Names : Exits(n)
    BY <1>4, StopsInv, ExitsInv
  <1>5. CASE UNCHANGED allVars
    <2>1. Inv'
      BY <1>5, NextInv DEF GatewayInv, allVars
    <2>2. UNCHANGED <<project, podman, secrets, th, file, pass, runs, call>>
      BY <1>5 DEF allVars, vars, rowVars, hostVars, gatewayVars
    <2> QED BY <2>1, <2>2
        DEF GatewayInv, GatewayTypeOK, PassOK, FileOK, RunsOK, Running, Agree, Holds, CallOK,
            KnownOK, ObjectOK, At, Inserting
  <1> QED BY <1>1, <1>2, <1>3, <1>4, <1>5 DEF GatewayNext

\* Every password belongs to one project wherever it is held, and a connection
\* knows a row of its user that no thread is about to give to another project.
THEOREM GatewayInvariance == GatewaySpec => []GatewayInv
  BY GatewayInitInv, GatewayNextInv, PTL DEF GatewaySpec

\* The files, passwords, containers and connections keep their types.
THEOREM GatewayTypeCorrect == GatewaySpec => []GatewayTypeOK
  <1>1. GatewayInv => GatewayTypeOK
    BY DEF GatewayInv
  <1> QED BY <1>1, GatewayInvariance, PTL

\* A client is served by a runtime of the project it selected, which is its
\* user's own, however often the slot changed hands while the gateway forwarded.
THEOREM OwnRuntimeServes == GatewaySpec => []ServedByOwn
  <1>1. GatewayInv => ServedByOwn
    BY DEF GatewayInv, CallOK, ServedByOwn, InCall
  <1> QED BY <1>1, GatewayInvariance, PTL

-----------------------------------------------------------------------------
(* The leases and the secrets, when operations on a project do not overlap *)

\* A connection's workspace was RUNNING when it was selected, and its thread
\* does nothing but release it.
ClientOK(c) ==
    /\ call[c].pc # "idle" => up /\ call[c].obj.status = "RUNNING"
    /\ th[c].op # "start" /\ th[c].todo = {}

LeasesInv == LInv /\ HInv /\ \A c \in Clients : ClientOK(c)

\* The container n, if it runs, is opened by the secret of p and was started
\* for it.
Opens(n, p) == Running(n) => runs[n].key = file[p] /\ runs[n].proj = p

SecretInv ==
    /\ \A t \in Threads : th[t].pc \in {"run", "wait"} => pass[t] = file[th[t].proj]
    /\ \A t \in Threads : th[t].pc \in {"wait", "commit"} =>
                             Opens(RuntimeName(t), th[t].proj)
    /\ \A w \in Ids : status[w] = "RUNNING" => Opens(ctrName[w], project[w])

\* Whatever the gateway does, the lifecycle sees one of its own steps or a
\* connection's thread that turns to a release.
LEMMA GatewaySteps ==
  ASSUME [GatewayNext]_allVars
  PROVE  [Next]_vars \/ \E c \in Clients : Recycle(c)
  <1>1. CASE Selection  BY <1>1 DEF Selection, Next
  <1>2. CASE \E t \in Threads : ThreadStep(t)  BY <1>2 DEF Next
  <1>3. CASE Stops \/ \E n \in Names : Exits(n)
    BY <1>3 DEF Stops, Exits, Next, Environment
  <1>4. ASSUME NEW c \in Clients, ClientStep(c), ~Recycle(c) PROVE UNCHANGED vars
    BY <1>4 DEF ClientStep, HttpRequest, WebSocket, Select, Check, Again,
                ReadSecret, Forward, Refused, RelayEnds, Elsewhere, vars
  <1>5. CASE UNCHANGED allVars  BY <1>5 DEF allVars
  <1> QED BY <1>1, <1>2, <1>3, <1>4, <1>5 DEF GatewayNext

LEMMA OrderlySteps ==
  ASSUME [GatewayOrderlyNext]_allVars
  PROVE  [OrderlyNext]_vars \/ \E c \in Clients : Recycle(c) /\ GatewayOrderly'
  <1>1. CASE UNCHANGED allVars  BY <1>1 DEF allVars
  <1>2. CASE GatewayOrderlyNext
    BY <1>2, GatewaySteps DEF GatewayOrderlyNext, GatewayOrderly, OrderlyNext
  <1> QED BY <1>1, <1>2

\* A thread that is to release row w of project p for a connection.
Releasing(p, w) == [Idle EXCEPT !.pc = "mark", !.op = "stop", !.proj = p, !.obj = Row(w)]

\* What a recycle does: the connection's thread has the row in hand, as it is.
LEMMA RecycleDoes ==
  ASSUME GatewayOrderly', GatewayInv, LeasesInv, NEW c \in Clients, Recycle(c)
  PROVE  \E w \in Ids, p \in Projects :
           /\ w = call[c].obj.id /\ p = call[c].proj
           /\ status[w] = "RUNNING" /\ project[w] = p /\ up
           /\ c \in Threads /\ c # Keeper /\ At(c, "idle")
           /\ th' = [th EXCEPT ![c] = Releasing(p, w)]
           /\ UNCHANGED <<rowVars, slotVars, hostVars, up, file, pass, runs>>
           /\ call'[c] = NoCall /\ \A d \in Clients \ {c} : call'[d] = call[d]
  <1>1. /\ call[c].pc = "check" /\ Elsewhere /\ Answer(c)
        /\ th' = [th EXCEPT ![c] = [Idle EXCEPT !.pc = "mark", !.op = "stop",
                                      !.proj = call[c].proj, !.obj = call[c].obj]]
    BY DEF Recycle, InCall
  <1>2. /\ At(c, "idle") /\ KnownOK(c) /\ call[c].proj \in Projects /\ c \in Threads
    BY <1>1, CallUnderWay, KeysAreNotNone
  <1>3. call[c].obj.id \in Ids  BY <1>2 DEF KnownOK, Objects
  <1>8. call[c].obj = Row(call[c].obj.id)
    <2> DEFINE r == [Idle EXCEPT !.pc = "mark", !.op = "stop",
                       !.proj = call[c].proj, !.obj = call[c].obj]
    <2>1. r.pc = "mark" /\ r.obj = call[c].obj /\ th' = [th EXCEPT ![c] = r]
      BY <1>1 DEF Idle
    <2> HIDE DEF r
    <2>2. th'[c].pc = "mark" /\ th'[c].obj = call[c].obj
      BY <1>2, <2>1 DEF GatewayInv, Inv, TypeOK
    <2>3. UNCHANGED <<status, slotId, ctrName>>  BY <1>1 DEF Elsewhere, rowVars
    <2>4. th'[c].obj = Row(th[c].obj.id)'  BY <2>2 DEF GatewayOrderly, At
    <2> QED BY <2>2, <2>3, <2>4 DEF Row
  <1>4. up /\ status[call[c].obj.id] = "RUNNING"
    BY <1>1, <1>8 DEF LeasesInv, ClientOK, Row
  <1>5. project[call[c].obj.id] = call[c].proj
    BY <1>2, <1>3, <1>4 DEF KnownOK, GatewayInv, Inv, RowOK, Exists
  <1>6. c # Keeper  BY ConstantsAssumption, GatewayAssumption
  <1>7. call'[c] = NoCall /\ \A d \in Clients \ {c} : call'[d] = call[d]
    BY <1>1 DEF Answer, GatewayInv, GatewayTypeOK
  <1>9. th' = [th EXCEPT ![c] = Releasing(call[c].proj, call[c].obj.id)]
    BY <1>1, <1>8 DEF Releasing
  <1> QED BY <1>1, <1>2, <1>3, <1>4, <1>5, <1>6, <1>7, <1>9 DEF Elsewhere

\* A recycle keeps the leases in order, and what is known of the host.
LEMMA RecycleLeases ==
  ASSUME GatewayOrderly', GatewayInv, LeasesInv, NEW c \in Clients, Recycle(c)
  PROVE  LInv' /\ HInv' /\ (PInv => PInv')
  <1>1. PICK w \in Ids, p \in Projects :
           /\ status[w] = "RUNNING" /\ project[w] = p /\ up
           /\ c \in Threads /\ c # Keeper /\ At(c, "idle")
           /\ th' = [th EXCEPT ![c] = Releasing(p, w)]
           /\ UNCHANGED <<rowVars, slotVars, hostVars, up>>
    BY RecycleDoes
  <1> DEFINE r == Releasing(p, w)
  <1>2. r.pc = "mark" /\ r.op = "stop" /\ th' = [th EXCEPT ![c] = r]
    BY <1>1 DEF Idle, Releasing
  <1> HIDE DEF r
  <1>3. /\ th'[c] = r /\ \A u \in Threads \ {c} : th'[u] = th[u]
        /\ \A u \in Threads : th'[u].pc \in {"run", "wait", "commit", "free"} =>
                                 th'[u] = th[u]
    BY <1>1, <1>2 DEF GatewayInv, Inv, TypeOK
  <1>4. status[w] \in StatusAt("mark")  BY <1>1 DEF StatusAt, Launch, ActiveStates
  <1>5. LInv'
    <2>1. PICK x \in {"probe", "pick", "mark", "purge"},
               h \in {"start", "stop", "delete"} : x = "mark" /\ h = "stop"
      OBVIOUS
    <2>2. th' = [th EXCEPT ![c] = [Idle EXCEPT !.pc = x, !.op = h,
                                     !.proj = p, !.obj = Row(w)]]
      BY <1>1, <2>1 DEF Releasing
    <2>3. status[w] \in StatusAt(x)  BY <1>4, <2>1
    <2>4. Inv /\ LInv /\ Apart' /\ up
      BY <1>1 DEF GatewayInv, LeasesInv, GatewayOrderly, Orderly
    <2>5. IF status[w] = "ABSENT" THEN RowsOf(p) = {} ELSE project[w] = p
      BY <1>1
    <2>6. c \in Threads /\ UNCHANGED <<rowVars, slotVars, hostVars, up>>
      BY <1>1
    <2> QED BY <2>2, <2>3, <2>4, <2>5, <2>6, CallL
  <1>6. UNCHANGED <<status, slotId, ctrName, project, podman, secrets, leasedTo>>
    BY <1>1 DEF rowVars, slotVars, hostVars
  <1>7. OnePort' /\ SecretOK'
    BY <1>3, <1>6 DEF LeasesInv, HInv, OnePort, SecretOK, Running
  <1>8. PortsOK'
    BY <1>3, <1>6 DEF LeasesInv, HInv, PortsOK, OwnPort, Running, At
  <1>10. BootLeft'
    <2>1. th'[Keeper] = th[Keeper]  BY <1>1, <1>3 DEF Threads
    <2> QED BY <1>6, <2>1 DEF LeasesInv, HInv, BootLeft, Active, Working
  <1>11. ASSUME PInv PROVE PInv'
    <2>1. \A u \in Threads : th[u].pc \in {"wait", "commit"} => th'[u] = th[u]
      BY <1>1, <1>3 DEF At
    <2> QED BY <1>3, <1>6, <1>11, <2>1
            DEF PInv, Leaseholder, Active, Running, At
  <1> QED BY <1>5, <1>7, <1>8, <1>10, <1>11 DEF HInv

\* A connection's thread moves by steps of its own, or with a recycle.
LEMMA ClientThreads ==
  ASSUME GatewayInv, LeasesInv, [GatewayNext]_allVars, NEW c \in Clients
  PROVE  \/ th'[c] = th[c] \/ ThreadStep(c) \/ Recycle(c) \/ th'[c] = Idle
  <1>0. c \in Threads /\ Inv  BY KeysAreNotNone DEF GatewayInv
  <1>1. ASSUME NEW t \in Requests \ Clients, Arrival(t) PROVE th'[c] = th[c]
    BY <1>0, <1>1, ArrivalEffects
  <1>2. CASE Boot \/ Reconcile \/ ReapSelect
    BY <1>0, <1>2, KeeperEffects
  <1>3. ASSUME NEW t \in Threads, ThreadStep(t) PROVE th'[c] = th[c] \/ ThreadStep(c)
    BY <1>0, <1>3, Alone
  <1>4. ASSUME NEW d \in Clients, ClientStep(d) PROVE th'[c] = th[c] \/ Recycle(c)
    <2>1. CASE Recycle(d)
      BY <1>0, <2>1 DEF Recycle, Inv, TypeOK
    <2>2. CASE ~Recycle(d)
      BY <1>4, <2>2 DEF ClientStep, HttpRequest, WebSocket, Select, Check, Again,
                        ReadSecret, Forward, Refused, RelayEnds
    <2> QED BY <2>1, <2>2
  <1>5. CASE Stops  BY <1>0, <1>5 DEF Stops, Crash, Reboot
  <1>6. CASE UNCHANGED allVars \/ \E n \in Names : Exits(n)
    BY <1>6 DEF allVars, vars, Exits, ContainerExit
  <1> QED BY <1>1, <1>2, <1>3, <1>4, <1>5, <1>6 DEF GatewayNext, Selection

\* What a connection knows was RUNNING: only a selection loads it.
LEMMA CallLoads ==
  ASSUME GatewayInv, LeasesInv, NEW d \in Clients, ClientStep(d), NEW c \in Clients,
         call'[c].pc # "idle"
  PROVE  up' /\ call'[c].obj.status = "RUNNING"
  <1>0. call \in [Clients -> Calls]  BY DEF GatewayInv, GatewayTypeOK
  <1>1. UNCHANGED up
    BY DEF ClientStep, HttpRequest, WebSocket, Select, Check, Recycle, Again,
           ReadSecret, Forward, Refused, RelayEnds, Elsewhere
  <1>2. CASE c # d
    <2>1. call'[c] = call[c]
      BY <1>0, <1>2
      DEF ClientStep, HttpRequest, WebSocket, Select, Check, Proceed, Recycle, Again,
          ReadSecret, Forward, Refused, RelayEnds, Answer
    <2> QED BY <1>1, <2>1 DEF LeasesInv, ClientOK
  <1>3. CASE c = d
    <2>1. CASE Answer(c)  BY <1>0, <2>1, NoCallType DEF Answer
    <2>2. ASSUME NEW u \in Users, NEW sel \in Ids \cup {None},
                 NEW where \in {"check", "secret"}, Select(c, u, sel, where)
          PROVE  up' /\ call'[c].obj.status = "RUNNING"
      <3>1. PICK w \in Candidates(u, sel) :
              call' = [call EXCEPT ![c] = [NoCall EXCEPT !.pc = where, !.user = u,
                                             !.sel = sel, !.obj = Row(w), !.proj = project[w]]]
        BY <2>2 DEF Select
      <3>2. Row(w).status = "RUNNING"  BY <3>1 DEF Candidates, Row
      <3>3. call'[c].obj = Row(w)  BY <1>0, <3>1 DEF NoCall
      <3> QED BY <1>1, <2>2, <3>2, <3>3 DEF Select
    <2>3. CASE call[c].pc # "idle" /\ call'[c].obj = call[c].obj
      BY <1>1, <2>3 DEF LeasesInv, ClientOK
    <2>4. CASE Check(c) \/ ReadSecret(c) \/ Forward(c)
      <3>1. call[c].pc # "idle"
        BY <2>4 DEF Check, ReadSecret, Forward, InCall
      <3>2. Answer(c) \/ call'[c].obj = call[c].obj
        BY <1>0, <2>4 DEF Check, Proceed, ReadSecret, Forward, Calls
      <3> QED BY <2>1, <2>3, <3>1, <3>2
    <2>5. CASE Again(c)
      <3>1. CASE ~Answer(c)
        <4>1. PICK w \in Candidates(call[c].user, call[c].sel) :
                call' = [call EXCEPT ![c].pc = "secret",
                           ![c].obj = IF w = @.id THEN @ ELSE Row(w),
                           ![c].proj = project[w]]
          BY <2>5, <3>1 DEF Again
        <4>2. Row(w).status = "RUNNING"  BY <4>1 DEF Candidates, Row
        <4>3. call[c].pc # "idle"  BY <2>5 DEF Again, InCall
        <4>4. call'[c].obj \in {call[c].obj, Row(w)}
          BY <1>0, <4>1 DEF Calls
        <4> QED BY <1>1, <4>2, <4>3, <4>4 DEF LeasesInv, ClientOK
      <3> QED BY <2>1, <3>1
    <2> QED BY <1>3, <2>1, <2>2, <2>4, <2>5
            DEF ClientStep, HttpRequest, WebSocket, Refused, RelayEnds, Recycle
  <1> QED BY <1>2, <1>3

\* What a connection knows, and what its thread is there for.
LEMMA ClientsKept ==
  ASSUME GatewayInv, LeasesInv, [GatewayNext]_allVars, NEW c \in Clients
  PROVE  ClientOK(c)'
  <1>0. c \in Threads /\ Inv /\ LInv /\ HInv /\ ClientOK(c)
    BY KeysAreNotNone DEF GatewayInv, LeasesInv
  <1>1. call'[c].pc # "idle" => up' /\ call'[c].obj.status = "RUNNING"
    <2>1. CASE \E d \in Clients : ClientStep(d)  BY <2>1, CallLoads
    <2>2. CASE Stops  BY <2>2, NoCallType DEF Stops
    <2>3. CASE UNCHANGED call /\ (up => up')
      BY <1>0, <2>3 DEF ClientOK
    <2>4. ASSUME NEW t \in Threads, ThreadStep(t) PROVE up => up'
      BY <2>4
      DEF ThreadStep, StartStep, ReleaseStep, DeleteStep, LoopStep, TimeoutStep,
          StartProbe, Pick, NoCapacity, Lease, Refresh, Prepare, Run, RunFails,
          Ready, NotReady, Commit, Confirm, Except, Fail, Mark, Remove, Free,
          Purge, PurgeFails, Erase, ReleaseNext, KeepNext, LoopEnd,
          RemoveTimesOut, LaunchTimesOut, InspectTimesOut
    <2>5. ASSUME Selection PROVE UNCHANGED up
      BY <2>5, KeeperEffects, ArrivalEffects, <1>0 DEF Selection
    <2>6. CASE UNCHANGED allVars \/ \E n \in Names : Exits(n)
      BY <2>3, <2>6 DEF allVars, gatewayVars, vars, Exits, ContainerExit
    <2> QED BY <2>1, <2>2, <2>3, <2>4, <2>5, <2>6 DEF GatewayNext, gatewayVars
  <1>2. th'[c].op # "start" /\ th'[c].todo = {}
    <2>1. CASE ThreadStep(c)  BY <1>0, <2>1, KeepsOp DEF ClientOK
    <2>2. CASE Recycle(c)
      <3> DEFINE r == [Idle EXCEPT !.pc = "mark", !.op = "stop",
                         !.proj = call[c].proj, !.obj = call[c].obj]
      <3>1. th' = [th EXCEPT ![c] = r]  BY <2>2 DEF Recycle
      <3>2. r.op = "stop" /\ r.todo = {}  BY DEF Idle
      <3> HIDE DEF r
      <3> QED BY <1>0, <3>1, <3>2 DEF Inv, TypeOK
    <2>3. CASE th'[c] = th[c] \/ th'[c] = Idle
      BY <1>0, <2>3 DEF ClientOK, Idle
    <2> QED BY <2>1, <2>2, <2>3, ClientThreads
  <1> QED BY <1>1, <1>2 DEF ClientOK

LEMMA LeaseStep ==
  ASSUME GatewayInv, LeasesInv, [GatewayOrderlyNext]_allVars PROVE LeasesInv'
  <1>1. ASSUME [OrderlyNext]_vars PROVE LInv' /\ HInv'
    <2>1. [Next]_vars  BY <1>1 DEF OrderlyNext
    <2> QED BY <1>1, <2>1, NextL, NextH DEF GatewayInv, LeasesInv
  <1>2. ASSUME NEW c \in Clients, Recycle(c), GatewayOrderly' PROVE LInv' /\ HInv'
    BY <1>2, RecycleLeases
  <1>3. [GatewayNext]_allVars  BY DEF GatewayOrderlyNext
  <1>4. \A c \in Clients : ClientOK(c)'  BY <1>3, ClientsKept
  <1> QED BY <1>1, <1>2, <1>4, OrderlySteps DEF LeasesInv

LEMMA LeaseInit == GatewayInit => LeasesInv
  <1> SUFFICES ASSUME GatewayInit PROVE LeasesInv  OBVIOUS
  <1>1. LInv /\ HInv  BY InitL, InitH DEF GatewayInit
  <1>2. ASSUME NEW c \in Clients PROVE ClientOK(c)
    <2>1. call[c] = NoCall /\ th[c] = Idle
      BY KeysAreNotNone DEF GatewayInit, Init
    <2> QED BY <2>1, NoCallType DEF ClientOK, Idle, At
  <1> QED BY <1>1, <1>2 DEF LeasesInv

\* Nothing is launched, and what still runs runs as it did.
LEMMA QuietSecrets ==
  ASSUME SecretInv, UNCHANGED <<rowVars, file>>,
         \A n \in Names : podman'[n] = "running" =>
                             podman[n] = "running" /\ runs'[n] = runs[n],
         \A t \in Threads : th'[t].pc \in {"run", "wait", "commit"} => th'[t] = th[t],
         \A t \in Threads : th'[t].pc \in {"run", "wait"} => pass'[t] = pass[t],
         Inv, LInv, Inv', LInv'
  PROVE  SecretInv'
  <1>1. ASSUME NEW n \in Names, NEW p, Opens(n, p), podman'[n] = "running"
        PROVE  runs'[n].key = file'[p] /\ runs'[n].proj = p
    BY <1>1, NoneIsNone DEF Opens, Running
  <1>2. ASSUME NEW t \in Threads, th'[t].pc \in {"run", "wait"}
        PROVE  pass'[t] = file'[th'[t].proj]
    BY <1>2 DEF SecretInv
  <1>3. ASSUME NEW t \in Threads, th'[t].pc \in {"wait", "commit"}
        PROVE  Opens(RuntimeName(t), th[t].proj)'
    <2>1. th'[t] = th[t] /\ Opens(RuntimeName(t), th[t].proj)
      BY <1>3 DEF SecretInv
    <2>2. RuntimeName(t) = <<th[t].slot, th[t].obj.id>> /\ RuntimeName(t) \in Names
      BY <1>3, <2>1, CommitHolds DEF Names
    <2>3. RuntimeName(t)' = RuntimeName(t)  BY <2>1 DEF RuntimeName
    <2> QED BY <1>1, <2>1, <2>2, <2>3 DEF Opens, Running
  <1>4. ASSUME NEW w \in Ids, status'[w] = "RUNNING"
        PROVE  Opens(ctrName[w], project[w])'
    <2>1. /\ status[w] = "RUNNING" /\ ctrName'[w] = ctrName[w]
          /\ project'[w] = project[w]
      BY <1>4 DEF rowVars
    <2>2. Opens(ctrName[w], project[w])  BY <2>1 DEF SecretInv
    <2>3. ctrName[w] \in Names \cup {None}  BY DEF Inv, TypeOK
    <2> QED BY <1>1, <2>1, <2>2, <2>3 DEF Opens, Running
  <1> QED BY <1>2, <1>3, <1>4 DEF SecretInv

\* A thread's step gives a secret only to the project it launches for, and a
\* password only to the container it starts.
LEMMA ContentsDoes ==
  ASSUME GatewayInv, LInv, NEW t \in Threads, ThreadStep(t), Contents(t)
  PROVE  /\ \A p \in secrets' : \/ file'[p] = file[p]
                                \/ Launched(t) /\ th[t].proj = p
         /\ \A n \in Names : Running(n)' =>
               \/ Running(n) /\ runs'[n] = runs[n]
               \/ /\ Launches(t, n)
                  /\ runs'[n] = [key |-> pass[t], proj |-> th[t].proj]
         /\ \A u \in Threads \ {t} : th'[u] = th[u] /\ pass'[u] = pass[u]
         /\ th'[t].pc \in {"run", "wait"} =>
               /\ th'[t].proj = th[t].proj
               /\ \/ pass'[t] = pass[t] /\ th[t].pc = "run"
                  \/ pass'[t] = file'[th[t].proj]
  <1>0. Inv /\ Inv' /\ Effects(t)
    BY ThreadEffects, NextInv DEF GatewayInv, Next
  <1>1. /\ secrets' \subseteq Projects
        /\ Launched(t) => th[t].proj \in Projects
    BY <1>0 DEF Inv, TypeOK, Launched, At, ThreadOK, Starting, Launch
  <1>2. ASSUME NEW p \in secrets'
        PROVE  file'[p] = file[p] \/ (Launched(t) /\ th[t].proj = p)
    BY <1>1, <1>2 DEF Contents, GatewayInv, GatewayTypeOK
  <1>3. ASSUME NEW n \in Names, Running(n)'
        PROVE  \/ Running(n) /\ runs'[n] = runs[n]
               \/ /\ Launches(t, n)
                  /\ runs'[n] = [key |-> pass[t], proj |-> th[t].proj]
    <2>1. runs'[n] = IF podman[n] = "running" THEN runs[n]
                     ELSE [key |-> pass[t], proj |-> th[t].proj]
      BY <1>3 DEF Contents, Running
    <2>2. Running(n) \/ (podman[n] # "running" /\ Launches(t, n))
      BY <1>0, <1>3, ThreadStarts DEF Running
    <2> QED BY <2>1, <2>2 DEF Running
  <1>4. \A u \in Threads \ {t} : th'[u] = th[u] /\ pass'[u] = pass[u]
    BY <1>0 DEF Effects, Contents, GatewayInv, GatewayTypeOK
  <1>5. ASSUME th'[t].pc \in {"run", "wait"}
        PROVE  /\ th'[t].proj = th[t].proj
               /\ \/ pass'[t] = pass[t] /\ th[t].pc = "run"
                  \/ pass'[t] = file'[th[t].proj]
    <2>1. CASE Launched(t)
      <3>1. PICK k \in FreshKeys :
              /\ file' = [file EXCEPT ![th[t].proj] = k]
              /\ pass' = [pass EXCEPT ![t] = k]
        BY <2>1 DEF Contents
      <3> QED BY <1>0, <1>1, <1>5, <2>1, <3>1
              DEF Effects, GatewayInv, GatewayTypeOK
    <2>2. CASE ~Launched(t)
      BY <1>0, <1>5, <2>2 DEF Effects, Contents, GatewayInv, GatewayTypeOK
    <2> QED BY <2>1, <2>2
  <1> QED BY <1>2, <1>3, <1>4, <1>5

\* The secret of a project that another thread works for, or that has a RUNNING
\* workspace, is not written.
LEMMA FileKept ==
  ASSUME GatewayInv, LInv, NEW t \in Threads, ThreadStep(t), Contents(t),
         NEW p \in secrets', p # None,
         \/ \E u \in Threads \ {t} : th[u].proj = p
         \/ \E w \in Ids : status[w] = "RUNNING" /\ project[w] = p
         \/ th[t].pc # "prepare"
  PROVE  file'[p] = file[p]
  <1> SUFFICES ASSUME Launched(t), th[t].proj = p PROVE FALSE
    BY ContentsDoes
  <1>1. th[t].pc = "prepare" /\ th[t].pc \in Launch \ {"lease", "confirm"}
    BY DEF Launched, At, Launch
  <1>2. /\ status[th[t].obj.id] = "STARTING" /\ project[th[t].obj.id] = p
        /\ th[t].obj.id \in Ids
    BY <1>1, LaunchHolds DEF Holding, GatewayInv
  <1>3. ASSUME NEW u \in Threads \ {t}, th[u].proj = p PROVE FALSE
    <2>1. p \in Touches(t) /\ p \in Touches(u)  BY <1>3 DEF Touches
    <2> QED BY <2>1 DEF LInv, Apart
  <1>4. ASSUME NEW w \in Ids, status[w] = "RUNNING", project[w] = p PROVE FALSE
    BY <1>2, <1>4 DEF LInv, OneRow
  <1> QED BY <1>1, <1>3, <1>4

LEMMA StepSecrets ==
  ASSUME GatewayInv, GatewayInv', LeasesInv, LeasesInv', SecretInv,
         NEW t \in Threads, ThreadStep(t), Contents(t)
  PROVE  SecretInv'
  <1>0. /\ Inv /\ Inv' /\ LInv /\ LInv' /\ HInv /\ SecretOK' /\ [Next]_vars
        /\ None \notin Projects
    BY NoneIsNone DEF GatewayInv, LeasesInv, HInv, Next
  <1>1. \A n \in Names : Running(n)' =>
           \/ Running(n) /\ runs'[n] = runs[n]
           \/ /\ Launches(t, n)
              /\ runs'[n] = [key |-> pass[t], proj |-> th[t].proj]
    BY <1>0, ContentsDoes
  <1>2. \A u \in Threads : th'[u].pc \in {"run", "wait", "commit"} =>
           th'[u].proj \in secrets' /\ th'[u].proj # None
    BY <1>0 DEF SecretOK, Inv, TypeOK
  <1>3. ASSUME NEW u \in Threads, th'[u].pc \in {"run", "wait"}
        PROVE  pass'[u] = file'[th'[u].proj]
    <2>1. CASE u # t
      <3>1. th'[u] = th[u] /\ pass'[u] = pass[u]  BY <1>0, <2>1, ContentsDoes
      <3>2. file'[th[u].proj] = file[th[u].proj]
        BY <1>0, <1>2, <1>3, <2>1, <3>1, FileKept
      <3> QED BY <1>3, <3>1, <3>2 DEF SecretInv
    <2>2. CASE u = t
      <3>1. /\ th'[t].proj = th[t].proj
            /\ \/ pass'[t] = pass[t] /\ th[t].pc = "run"
               \/ pass'[t] = file'[th[t].proj]
        BY <1>0, <1>3, <2>2, ContentsDoes
      <3>2. ASSUME th[t].pc = "run" PROVE file'[th[t].proj] = file[th[t].proj]
        BY <1>0, <1>2, <1>3, <2>2, <3>1, <3>2, FileKept
      <3> QED BY <2>2, <3>1, <3>2 DEF SecretInv
    <2> QED BY <2>1, <2>2
  <1>4. ASSUME NEW u \in Threads, th'[u].pc \in {"wait", "commit"}
        PROVE  Opens(RuntimeName(u), th[u].proj)'
    <2>1. CASE u # t
      <3>1. th'[u] = th[u]  BY <1>0, <2>1, ContentsDoes
      <3>2. PICK n \in Names : n = RuntimeName(u)
        BY <1>0, <1>4, <3>1, CommitHolds DEF Names
      <3>3. file'[th[u].proj] = file[th[u].proj]
        BY <1>0, <1>2, <1>4, <2>1, <3>1, FileKept
      <3>4. ~Launches(t, n)
        BY <1>0, <1>4, <2>1, <3>1, <3>2, CommitHolds, LaunchClaims, Private
      <3>5. Opens(n, th[u].proj)  BY <1>4, <3>1, <3>2 DEF SecretInv
      <3>6. RuntimeName(u)' = n  BY <3>1, <3>2 DEF RuntimeName
      <3> QED BY <1>1, <3>1, <3>3, <3>4, <3>5, <3>6 DEF Opens, Running
    <2>2. CASE u = t
      <3>1. Run(t) \/ Ready(t)
        BY <1>0, <1>4, <2>2, OwnProgress, GoesOn, RemoveDoes, ReleaseNextDoes
        DEF Places
      <3>2. /\ th'[t].obj = th[t].obj /\ th'[t].proj = th[t].proj
            /\ th'[t].slot = th[t].slot /\ th[t].pc \in {"run", "wait"}
        BY <1>0, <3>1, GoesOn
      <3>3. PICK n \in Names : n = RuntimeName(t)
        BY <1>0, <3>2, CommitHolds DEF Names
      <3>4. RuntimeName(t)' = n  BY <3>2, <3>3 DEF RuntimeName
      <3>5. file'[th[t].proj] = file[th[t].proj]
        BY <1>0, <1>2, <1>4, <2>2, <3>2, FileKept
      <3>6. CASE Run(t)
        <4>1. ~Running(n) /\ th[t].pc = "run"
          BY <3>3, <3>6 DEF Run, CanRun, Running, At
        <4>2. pass[t] = file[th[t].proj]  BY <4>1 DEF SecretInv
        <4> QED BY <1>1, <2>2, <3>2, <3>4, <3>5, <4>1, <4>2 DEF Opens, Running
      <3>7. CASE Ready(t)
        <4>1. th[t].pc = "wait" /\ ~Launches(t, n)
          BY <3>7 DEF Ready, At, Launches
        <4>2. Opens(n, th[t].proj)  BY <3>3, <4>1 DEF SecretInv
        <4> QED BY <1>1, <2>2, <3>2, <3>4, <3>5, <4>1, <4>2 DEF Opens, Running
      <3> QED BY <3>1, <3>6, <3>7
    <2> QED BY <2>1, <2>2
  <1>5. ASSUME NEW w \in Ids, status'[w] = "RUNNING"
        PROVE  Opens(ctrName[w], project[w])'
    <2>0. project'[w] \in secrets' /\ project'[w] # None
      BY <1>0, <1>5 DEF SecretOK, Inv, TypeOK
    <2>1. CASE /\ status[w] = "RUNNING" /\ slotId'[w] = slotId[w]
               /\ ctrName'[w] = ctrName[w] /\ project'[w] = project[w]
      <3>1. PICK s \in Slots : s = slotId[w] /\ ctrName[w] = <<s, w>>
        BY <1>0, <2>1
        DEF LInv, LeaseExact, RowLease, Active, ActiveStates, Inv, TypeOK
      <3>2. <<s, w>> \in Names  BY DEF Names
      <3>3. ~Launches(t, <<s, w>>)  BY <1>0, <2>1, LaunchClaims
      <3>4. file'[project[w]] = file[project[w]]
        BY <1>0, <2>0, <2>1, FileKept
      <3>5. Opens(<<s, w>>, project[w])  BY <2>1, <3>1 DEF SecretInv
      <3> QED BY <1>1, <2>1, <3>1, <3>2, <3>3, <3>4, <3>5 DEF Opens, Running
    <2>2. ASSUME NEW u \in Threads, Commit(u), th[u].obj.id = w
          PROVE  Opens(ctrName[w], project[w])'
      <3>1. th[u].pc = "commit" /\ th'[u].pc = "confirm"
        BY <1>0, <2>2, CommitDoes DEF Commit, At, Moved
      <3>2. u = t  BY <1>0, <3>1, Alone
      <3>3. /\ RuntimeName(u) = <<th[u].slot, w>> /\ th[u].slot \in Slots
            /\ project[w] = th[u].proj
        BY <1>0, <2>2, <3>1, CommitHolds
      <3>4. ctrName'[w] = <<th[u].slot, w>>  BY <1>0, <2>2, CommitRow
      <3>5. project'[w] = project[w]  BY <2>2 DEF Commit
      <3>6. <<th[u].slot, w>> \in Names  BY <3>3 DEF Names
      <3>7. ~Launches(t, <<th[u].slot, w>>)  BY <3>1, <3>2 DEF Launches, At
      <3>8. file'[project[w]] = file[project[w]]
        BY <1>0, <2>0, <3>1, <3>2, <3>5, FileKept
      <3>9. Opens(<<th[u].slot, w>>, project[w])
        BY <3>1, <3>3 DEF SecretInv
      <3> QED BY <1>1, <3>4, <3>5, <3>6, <3>7, <3>8, <3>9 DEF Opens, Running
    <2> QED BY <1>0, <1>5, <2>1, <2>2, BecomesRunning
  <1> QED BY <1>3, <1>4, <1>5 DEF SecretInv

LEMMA SecretStep ==
  ASSUME GatewayInv, GatewayInv', LeasesInv, LeasesInv', SecretInv,
         [GatewayNext]_allVars
  PROVE  SecretInv'
  <1>0. Inv /\ Inv' /\ LInv /\ LInv' /\ th \in [Threads -> ThreadStates]
    BY DEF GatewayInv, LeasesInv, Inv, TypeOK
  <1>1. ASSUME NEW t \in Threads, ThreadStep(t), Contents(t) PROVE SecretInv'
    BY <1>1, StepSecrets
  <1>2. ASSUME UNCHANGED <<rowVars, podman, file, pass, runs>>,
               \A t \in Threads : th'[t].pc \in {"run", "wait", "commit"} => th'[t] = th[t]
        PROVE  SecretInv'
    BY <1>0, <1>2, QuietSecrets
  <1>3. CASE Selection /\ UNCHANGED gatewayVars
    <2>1. UNCHANGED <<file, pass, runs>>  BY <1>3 DEF gatewayVars
    <2>2. ASSUME NEW t \in Requests, Arrival(t) PROVE SecretInv'
      <3>1. /\ t \in Threads /\ UNCHANGED <<rowVars, podman>>
            /\ \A u \in Threads \ {t} : th'[u] = th[u]
            /\ th'[t].pc \notin {"run", "wait", "commit"}
        BY <1>0, <2>2, ArrivalEffects, ArrivalPlaces DEF Threads, hostVars, Places
      <3> QED BY <1>2, <2>1, <3>1
    <2>3. CASE Boot \/ Reconcile \/ ReapSelect
      <3>1. /\ UNCHANGED <<rowVars, podman>>
            /\ \A u \in Threads \ {Keeper} : th'[u] = th[u]
        BY <1>0, <2>3, KeeperEffects DEF hostVars
      <3>2. th'[Keeper].pc = "next"
        BY <1>0, <2>3, KeeperEffects DEF Boot, Reconcile, ReapSelect, Loop, Idle
      <3> QED BY <1>2, <2>1, <3>1, <3>2
    <2> QED BY <1>3, <2>2, <2>3 DEF Selection
  <1>4. ASSUME NEW c \in Clients, ClientStep(c) PROVE SecretInv'
    <2>1. UNCHANGED <<rowVars, podman, file, pass, runs>>
      BY <1>4 DEF ClientStep, HttpRequest, WebSocket, Select, Check, Recycle, Again,
                  ReadSecret, Forward, Refused, RelayEnds, Elsewhere, hostVars
    <2>2. CASE Recycle(c)
      <3> DEFINE r == [Idle EXCEPT !.pc = "mark", !.op = "stop",
                         !.proj = call[c].proj, !.obj = call[c].obj]
      <3>1. th' = [th EXCEPT ![c] = r]  BY <2>2 DEF Recycle
      <3>2. r.pc = "mark"  BY DEF Idle
      <3> HIDE DEF r
      <3>3. \A t \in Threads : th'[t].pc \in {"run", "wait", "commit"} => th'[t] = th[t]
        BY <1>0, <3>1, <3>2
      <3> QED BY <1>2, <2>1, <3>3
    <2>3. CASE ~Recycle(c)
      <3>1. UNCHANGED th
        BY <1>4, <2>3 DEF ClientStep, HttpRequest, WebSocket, Select, Check, Again,
                          ReadSecret, Forward, Refused, RelayEnds
      <3> QED BY <1>2, <2>1, <3>1
    <2> QED BY <2>2, <2>3
  <1>5. CASE Stops
    <2>1. UNCHANGED <<rowVars, file>>  BY <1>5 DEF Stops, Crash, Reboot
    <2>2. \A n \in Names : podman'[n] = "running" =>
                              podman[n] = "running" /\ runs'[n] = runs[n]
      BY <1>0, <1>5 DEF Stops, Crash, Reboot, hostVars, Inv, TypeOK
    <2>3. \A t \in Threads : th'[t].pc = "idle"
      BY <1>5 DEF Stops, Crash, Reboot, Idle
    <2> QED BY <1>0, <2>1, <2>2, <2>3, QuietSecrets
  <1>6. ASSUME NEW n \in Names, Exits(n) PROVE SecretInv'
    <2>1. UNCHANGED <<rowVars, file, th, pass>>  BY <1>6 DEF Exits, ContainerExit
    <2>2. \A m \in Names : podman'[m] = "running" =>
                              podman[m] = "running" /\ runs'[m] = runs[m]
      BY <1>0, <1>6 DEF Exits, ContainerExit, Inv, TypeOK, GatewayInv, GatewayTypeOK
    <2> QED BY <1>0, <2>1, <2>2, QuietSecrets
  <1>7. CASE UNCHANGED allVars
    BY <1>2, <1>7 DEF allVars, vars, hostVars, gatewayVars
  <1> QED BY <1>1, <1>3, <1>4, <1>5, <1>6, <1>7 DEF GatewayNext

LEMMA SecretInit == GatewayInit => SecretInv
  <1> SUFFICES ASSUME GatewayInit PROVE SecretInv  OBVIOUS
  <1>1. \A t \in Threads : th[t].pc = "idle"  BY DEF GatewayInit, Init, Idle
  <1>2. \A w \in Ids : status[w] # "RUNNING"  BY DEF GatewayInit, Init
  <1> QED BY <1>1, <1>2 DEF SecretInv

LEMMA GatewayLeases ==
  GatewayOrderlySpec => [](GatewayInv /\ LeasesInv /\ SecretInv)
  <1>1. GatewayInit => GatewayInv /\ LeasesInv /\ SecretInv
    BY GatewayInitInv, LeaseInit, SecretInit
  <1>2. GatewayInv /\ LeasesInv /\ SecretInv /\ [GatewayOrderlyNext]_allVars =>
           (GatewayInv /\ LeasesInv /\ SecretInv)'
    BY GatewayNextInv, LeaseStep, SecretStep DEF GatewayOrderlyNext
  <1> QED BY <1>1, <1>2, PTL DEF GatewayOrderlySpec

\* The gateway is never locked out of a live runtime: in an orderly behaviour the
\* secret file of a project opens the container of its RUNNING workspace,
\* whatever starts, failures, crashes and recycles came before.
THEOREM SecretOpens == GatewayOrderlySpec => []SecretOpensRuntime
  <1>1. SecretInv => SecretOpensRuntime
    BY DEF SecretInv, Opens, SecretOpensRuntime
  <1> QED BY <1>1, GatewayLeases, PTL

\* The gateway's recycles, of rows that are as they were loaded, leave the slots
\* in agreement with the rows, and every RUNNING workspace with a port on which
\* nobody else's container listens.
THEOREM GatewayLeasesAgree ==
  GatewayOrderlySpec => []LeaseExact /\ []RoutesToOwnRuntime
  <1>1. LeasesInv => LeaseExact /\ RoutesToOwnRuntime
    BY DEF LeasesInv, LInv, RowLease, HInv, PortsOK, OwnPort, RoutesToOwnRuntime
  <1> QED BY <1>1, GatewayLeases, PTL

\* With the gateway's recycles too, an orderly behaviour of a tidy system leaves
\* no runtime behind on the port of a slot.
THEOREM GatewayPorts ==
  ASSUME Tidy
  PROVE  GatewayOrderlySpec => []PortOfLeasedSlot
  <1>1. PInv => PortOfLeasedSlot
    BY DEF PInv, Leaseholder, PortOfLeasedSlot, Names
  <1>2. GatewayInit => PInv  BY InitP DEF GatewayInit
  <1>3. GatewayInv /\ LeasesInv /\ SecretInv /\ PInv /\ [GatewayOrderlyNext]_allVars
           => PInv'
    <2> SUFFICES ASSUME GatewayInv, LeasesInv, PInv, [GatewayOrderlyNext]_allVars
                 PROVE  PInv'
      OBVIOUS
    <2>1. Inv /\ LInv  BY DEF GatewayInv, LeasesInv
    <2>2. CASE [OrderlyNext]_vars
      <3>1. LInv' /\ [Next]_vars  BY <2>1, <2>2, NextL DEF OrderlyNext
      <3> QED BY <2>1, <3>1, NextP
    <2>3. CASE \E c \in Clients : Recycle(c) /\ GatewayOrderly'
      BY <2>3, RecycleLeases
    <2> QED BY <2>2, <2>3, OrderlySteps
  <1> QED BY <1>1, <1>2, <1>3, GatewayLeases, PTL DEF GatewayOrderlySpec

=============================================================================
