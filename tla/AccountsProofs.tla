---------------------------- MODULE AccountsProofs ----------------------------
(***************************************************************************)
(* Proofs about module Accounts, for any accounts, identities and threads. *)
(*                                                                         *)
(* The argument is the table lock: from Lock to the end of its request, or *)
(* to the commit in the middle of a disable request, no other thread       *)
(* changes a row, so what the thread decided from the table still holds    *)
(* when it writes.                                                         *)
(***************************************************************************)
EXTENDS Accounts, TLAPS

\* Where a thread holds the table lock whatever it is doing.
Locking == {"count", "decide", "admit", "stop"}

ThreadOK(t) ==
    /\ th[t].pc \in Locking => lock = t
    /\ th[t].pc \notin {"idle"} => th[t].target \in Users
    /\ th[t].pc = "admit" => th[t].grant = RoleForNewUser(t)
    /\ th[t].pc \in {"count", "admit"} => th[t].op \in {"register", "provision"}

\* An account with a workspace has a row.
OwnerOK(u) == /\ busy[u] => history[u]
              /\ history[u] => Exists(u)

Inv == /\ TypeOK
       /\ \A t \in Threads : ThreadOK(t)
       /\ \A u \in Users : OwnerOK(u)

ThreadStates == [pc: PCs, op: Ops, actor: Users \cup {None},
                 target: Users \cup {None}, grant: Roles \cup {None}]

LEMMA IdleType == Idle \in ThreadStates
  BY DEF Idle, ThreadStates, PCs, Ops

LEMMA InitInv == Init => Inv
  <1> SUFFICES ASSUME Init PROVE Inv  OBVIOUS
  <1>1. TypeOK  BY IdleType DEF Init, TypeOK, ThreadStates
  <1>2. ASSUME NEW t \in Threads PROVE ThreadOK(t)
    BY DEF Init, ThreadOK, Idle, Locking
  <1>3. ASSUME NEW u \in Users PROVE OwnerOK(u)  BY DEF Init, OwnerOK
  <1> QED BY <1>1, <1>2, <1>3 DEF Inv

\* What the step of one thread leaves of the others.
Others(t) == /\ th' \in [Threads -> ThreadStates]
             /\ \A v \in Threads \ {t} : th'[v] = th[v]

LEMMA GotoMoves ==
  ASSUME TypeOK, NEW t \in Threads, NEW x \in PCs, Goto(t, x)
  PROVE  /\ Others(t)
         /\ th'[t].pc = x /\ th'[t].op = th[t].op
         /\ th'[t].actor = th[t].actor /\ th'[t].target = th[t].target
         /\ th'[t].grant = th[t].grant
  BY DEF TypeOK, Goto, Others, ThreadStates

LEMMA FinishMoves ==
  ASSUME TypeOK, NEW t \in Threads, Finish(t)
  PROVE  Others(t) /\ th'[t] = Idle
  BY IdleType DEF TypeOK, Finish, Others, ThreadStates

LEMMA IdleOK == ASSUME NEW t \in Threads, th'[t] = Idle PROVE ThreadOK(t)'
  BY DEF ThreadOK, Idle, Locking

\* Another thread keeps what it knows: it has the lock, or knows nothing yet.
LEMMA OthersStep ==
  ASSUME Inv, NEW t \in Threads, Others(t), ThreadOK(t)',
         lock' = lock \/ lock = t \/ lock = None,
         role' = role \/ lock \in {None, t}
  PROVE  \A v \in Threads : ThreadOK(v)'
  <1> TAKE v \in Threads
  <1> SUFFICES ASSUME v # t PROVE ThreadOK(v)'  OBVIOUS
  <1>1. th'[v] = th[v] /\ ThreadOK(v)  BY DEF Others, Inv
  <1>2. v # None  BY AccountsAssumption
  <1>3. CASE th[v].pc \in Locking
    <2>1. lock' = lock /\ role' = role  BY <1>1, <1>2, <1>3 DEF ThreadOK
    <2> QED BY <1>1, <2>1 DEF ThreadOK, RoleForNewUser, Exists
  <1>4. CASE th[v].pc \notin Locking
    BY <1>1, <1>4 DEF ThreadOK, Locking
  <1> QED BY <1>3, <1>4

\* A step of t that changes no row.
LEMMA QuietStep ==
  ASSUME Inv, NEW t \in Threads, Others(t), ThreadOK(t)',
         lock' \in {lock, t, None}, lock' = lock \/ lock = t \/ lock = None,
         UNCHANGED <<role, enabled, busy, history>>
  PROVE  Inv'
  <1>1. TypeOK'  BY DEF Inv, TypeOK, Others, ThreadStates
  <1>2. \A v \in Threads : ThreadOK(v)'  BY OthersStep
  <1>3. \A u \in Users : OwnerOK(u)'  BY DEF Inv, OwnerOK, Exists
  <1> QED BY <1>1, <1>2, <1>3 DEF Inv

LEMMA RequestInv == ASSUME Inv, NEW t \in Threads, Request(t) PROVE Inv'
  <1>1. PICK o \in Ops, a \in Users \cup {None}, u \in Users : Begin(t, o, a, u, "lock")
    BY DEF Request, Register, OidcCallback, AdminRequest, EnabledAdmins, Ops
  <1> DEFINE r == [Idle EXCEPT !.pc = "lock", !.op = o, !.actor = a, !.target = u]
  <1>2. r \in ThreadStates /\ r.pc = "lock" /\ r.target = u
    BY DEF Idle, ThreadStates, PCs
  <1>3. th' = [th EXCEPT ![t] = r]  BY <1>1 DEF Begin
  <1> HIDE DEF r
  <1>4. Others(t) /\ th'[t] = r
    BY <1>2, <1>3 DEF Inv, TypeOK, Others, ThreadStates
  <1>5. ThreadOK(t)'  BY <1>2, <1>4 DEF ThreadOK, Locking
  <1> QED BY <1>1, <1>4, <1>5, QuietStep DEF Begin

LEMMA LockInv == ASSUME Inv, NEW t \in Threads, Lock(t) PROVE Inv'
  <1>1. AfterLock(t) \in {"count", "decide"}
        /\ (AfterLock(t) = "count" => th[t].op \in {"register", "provision"})
    BY DEF AfterLock
  <1>2. Others(t) /\ th'[t].pc = AfterLock(t) /\ th'[t].target = th[t].target
        /\ th'[t].op = th[t].op
    BY <1>1, GotoMoves DEF Lock, Inv, PCs
  <1>3. ThreadOK(t)'
    BY <1>1, <1>2 DEF Lock, At, Inv, ThreadOK, Locking
  <1> QED BY <1>2, <1>3, QuietStep DEF Lock

LEMMA CountInv == ASSUME Inv, NEW t \in Threads, Count(t) PROVE Inv'
  <1>1. RoleForNewUser(t) \in Roles
    BY AccountsAssumption DEF RoleForNewUser, Roles
  <1>2. /\ Others(t)
        /\ th'[t].pc = "admit" /\ th'[t].grant = RoleForNewUser(t)
        /\ th'[t].target = th[t].target /\ th'[t].op = th[t].op
    BY <1>1 DEF Count, Inv, TypeOK, Others, ThreadStates, PCs
  <1>3. RoleForNewUser(t)' = RoleForNewUser(t)
    BY <1>2 DEF Count, RoleForNewUser, Exists
  <1>4. ThreadOK(t)'
    BY <1>2, <1>3 DEF Count, At, Inv, ThreadOK, Locking
  <1> QED BY <1>2, <1>4, QuietStep DEF Count

LEMMA AdmitInv == ASSUME Inv, NEW t \in Threads, Admit(t) PROVE Inv'
  <1> DEFINE u == th[t].target
  <1>1. Others(t) /\ th'[t] = Idle  BY FinishMoves DEF Admit, Inv
  <1>2. u \in Users /\ th[t].grant \in Roles /\ lock = t
    BY AccountsAssumption
    DEF Admit, At, Inv, ThreadOK, Locking, RoleForNewUser, Roles
  <1>3. TypeOK'
    BY <1>1, <1>2 DEF Admit, Inv, TypeOK, Others, ThreadStates, Unlock
  <1>4. \A v \in Threads : ThreadOK(v)'
    BY <1>1, <1>2, IdleOK, OthersStep DEF Admit
  <1>5. ASSUME NEW v \in Users PROVE OwnerOK(v)'
    <2>1. Exists(v) => Exists(v)'
      BY <1>2 DEF Admit, Inv, TypeOK, Exists, Roles
    <2> QED BY <2>1 DEF Admit, Inv, OwnerOK
  <1> QED BY <1>3, <1>4, <1>5 DEF Inv

LEMMA DecideInv ==
  ASSUME Inv, NEW t \in Threads, Refuse(t) \/ Decide(t) PROVE Inv'
  <1>1. CASE Refuse(t)
    <2>1. Others(t) /\ th'[t] = Idle
      BY <1>1, FinishMoves DEF Refuse, Reject, Inv
    <2> QED BY <1>1, <2>1, IdleOK, QuietStep DEF Refuse, Reject, Unlock
  <1>2. CASE Decide(t)
    <2> DEFINE x == IF th[t].op = "disable" /\ enabled[th[t].target]
                    THEN "stop" ELSE "write"
    <2>1. x \in PCs /\ x \in {"stop", "write"}  BY DEF PCs
    <2>2. Goto(t, x)  BY <1>2 DEF Decide
    <2> HIDE DEF x
    <2>3. Others(t) /\ th'[t].pc = x /\ th'[t].target = th[t].target
      BY <2>1, <2>2, GotoMoves DEF Inv
    <2>4. ThreadOK(t)'
      BY <1>2, <2>1, <2>3 DEF Decide, At, Inv, ThreadOK, Locking
    <2> QED BY <1>2, <2>3, <2>4, QuietStep DEF Decide
  <1> QED BY <1>1, <1>2

LEMMA StopInv == ASSUME Inv, NEW t \in Threads, Stop(t) \/ Stopped(t) PROVE Inv'
  <1>1. PICK x \in {"stopping", "write"} : Goto(t, x)
    BY DEF Stop, Stopped
  <1>2. Others(t) /\ th'[t].pc = x /\ th'[t].target = th[t].target
    BY <1>1, GotoMoves DEF Inv, PCs
  <1>3. th[t].target \in Users
    BY DEF Stop, Stopped, At, Inv, ThreadOK
  <1>4. ThreadOK(t)'
    BY <1>2, <1>3 DEF ThreadOK, Locking
  <1>5. CASE Stop(t)
    BY <1>2, <1>4, <1>5, QuietStep DEF Stop, Unlock
  <1>6. CASE Stopped(t)
    <2>1. TypeOK'  BY <1>2, <1>6 DEF Stopped, Inv, TypeOK, Others, ThreadStates
    <2>2. \A v \in Threads : ThreadOK(v)'  BY <1>2, <1>4, <1>6, OthersStep DEF Stopped
    <2>3. \A u \in Users : OwnerOK(u)'
      BY <1>6 DEF Stopped, Inv, TypeOK, OwnerOK, Exists
    <2> QED BY <2>1, <2>2, <2>3 DEF Inv
  <1> QED BY <1>5, <1>6

LEMMA StopFailsInv == ASSUME Inv, NEW t \in Threads, StopFails(t) PROVE Inv'
  <1>1. Others(t) /\ th'[t] = Idle  BY FinishMoves DEF StopFails, Inv
  <1> QED BY <1>1, IdleOK, QuietStep DEF StopFails

LEMMA WriteInv == ASSUME Inv, NEW t \in Threads, Write(t) PROVE Inv'
  <1> DEFINE u == th[t].target
  <1>1. Others(t) /\ th'[t] = Idle  BY FinishMoves DEF Write, Inv
  <1>2. u \in Users /\ lock \in {None, t}
    BY DEF Write, At, Inv, ThreadOK, MayWrite
  <1>3. TypeOK'
    BY <1>1, <1>2 DEF Write, Inv, TypeOK, Others, ThreadStates, Unlock, Roles
  <1>4. \A v \in Threads : ThreadOK(v)'
    BY <1>1, <1>2, IdleOK, OthersStep DEF Write, Unlock
  <1>5. ASSUME NEW v \in Users PROVE OwnerOK(v)'
    <2>1. Exists(v) /\ history[v] => Exists(v)'
      BY <1>2 DEF Write, Inv, TypeOK, Exists, Deletable
    <2> QED BY <2>1 DEF Write, Inv, OwnerOK
  <1> QED BY <1>3, <1>4, <1>5 DEF Inv

LEMMA RestInv ==
  ASSUME Inv,
         Crash \/ \E u \in Users : StartWorkspace(u) \/ StopWorkspace(u) \/ DeleteWorkspace(u)
  PROVE  Inv'
  <1>1. CASE Crash
    <2>1. /\ \A t \in Threads : th'[t] = Idle
          /\ th' \in [Threads -> ThreadStates]
      BY <1>1, IdleType DEF Crash
    <2>2. TypeOK'  BY <1>1, <2>1 DEF Crash, Inv, TypeOK, ThreadStates
    <2>3. \A u \in Users : OwnerOK(u)'  BY <1>1 DEF Crash, Inv, OwnerOK, Exists
    <2> QED BY <2>1, <2>2, <2>3, IdleOK DEF Inv
  <1>2. ASSUME NEW u \in Users, StartWorkspace(u) \/ StopWorkspace(u) \/ DeleteWorkspace(u) PROVE Inv'
    <2>1. TypeOK'
      BY <1>2 DEF StartWorkspace, StopWorkspace, DeleteWorkspace, Inv, TypeOK
    <2>2. \A t \in Threads : ThreadOK(t)'
      BY <1>2 DEF StartWorkspace, StopWorkspace, DeleteWorkspace, Inv, ThreadOK, RoleForNewUser, Exists
    <2>3. \A v \in Users : OwnerOK(v)'
      BY <1>2 DEF StartWorkspace, StopWorkspace, DeleteWorkspace, Inv, TypeOK, OwnerOK, Exists
    <2> QED BY <2>1, <2>2, <2>3 DEF Inv
  <1> QED BY <1>1, <1>2

LEMMA NextInv == Inv /\ [Next]_vars => Inv'
  <1> SUFFICES ASSUME Inv, [Next]_vars PROVE Inv'  OBVIOUS
  <1>1. CASE UNCHANGED vars
    <2>1. TypeOK'  BY <1>1 DEF vars, Inv, TypeOK
    <2>2. \A t \in Threads : ThreadOK(t)'
      BY <1>1 DEF vars, Inv, ThreadOK, RoleForNewUser, Exists
    <2>3. \A u \in Users : OwnerOK(u)'
      BY <1>1 DEF vars, Inv, OwnerOK, Exists
    <2> QED BY <2>1, <2>2, <2>3 DEF Inv
  <1>2. ASSUME NEW t \in Threads, Step(t) PROVE Inv'
    BY <1>2, LockInv, CountInv, AdmitInv, DecideInv, StopInv, StopFailsInv,
       WriteInv
    DEF Step
  <1> QED BY <1>1, <1>2, RequestInv, RestInv DEF Next

-----------------------------------------------------------------------------
\* What a thread decided from the table still holds when it acts on it.
THEOREM AccountsInvariance == Spec => []Inv
  BY InitInv, NextInv, PTL DEF Spec

\* Accounts, lock and threads keep their types, for any accounts and threads.
THEOREM AccountsTypeCorrect == Spec => []TypeOK
  <1>1. Inv => TypeOK  BY DEF Inv
  <1> QED BY <1>1, AccountsInvariance, PTL

\* An account with a workspace is never deleted, even by a request that looked
\* before its first workspace was started: the foreign key refuses.
THEOREM OwnersRemain == Spec => []OwnerRemains
  <1>1. Inv => OwnerRemains  BY DEF Inv, OwnerOK, OwnerRemains
  <1> QED BY <1>1, AccountsInvariance, PTL

BootstrapStep ==
    \A u \in Users : ~Exists(u) /\ role'[u] = "admin" =>
        \A v \in Users \ {u} : ~Exists(v)

\* Only the first account of the table becomes an administrator by itself, any
\* number of registrations and first logins at once, unless the configured
\* default role of OIDC accounts is itself "admin".
THEOREM Bootstrap ==
  ASSUME OidcRole # "admin"
  PROVE  Spec => BootstrapOnce
  <1>1. ASSUME Inv, [Next]_vars PROVE BootstrapStep
    <2> SUFFICES ASSUME NEW u \in Users, role[u] = "absent", role'[u] = "admin"
        PROVE  \A v \in Users \ {u} : ~Exists(v)
      BY DEF BootstrapStep, Exists
    <2>1. CASE role' = role  BY <2>1
    <2>2. ASSUME NEW t \in Threads, Admit(t)
          PROVE  \A v \in Users \ {u} : ~Exists(v)
      <3>1. th[t].grant = RoleForNewUser(t) /\ role'[u] = th[t].grant
        BY <1>1, <2>2 DEF Inv, TypeOK, ThreadOK, Admit, At
      <3> QED BY <1>1, <3>1 DEF RoleForNewUser
    <2>3. ASSUME NEW t \in Threads, Write(t) PROVE FALSE
      <3>1. role'[u] = "absent"  BY <1>1, <2>3 DEF Write, Inv, TypeOK, Exists
      <3> QED BY <3>1
    <2>4. CASE UNCHANGED vars  BY <2>1, <2>4 DEF vars
    <2>5. ASSUME NEW t \in Threads, Step(t)
          PROVE  \A v \in Users \ {u} : ~Exists(v)
      BY <2>1, <2>2, <2>3, <2>5
      DEF Step, Lock, Count, Refuse, Reject, Decide, Stop, Stopped, StopFails
    <2>6. ASSUME NEW t \in Threads, Request(t) PROVE role' = role
      BY <2>6 DEF Request, Register, OidcCallback, AdminRequest, Begin
    <2> QED BY <1>1, <2>1, <2>4, <2>5, <2>6
            DEF Next, StartWorkspace, StopWorkspace, DeleteWorkspace, Crash
  <1>2. BootstrapStep => \A u \in Users : ~Exists(u) /\ role'[u] = "admin" =>
                            \A v \in Users \ {u} : ~Exists(v)
    BY DEF BootstrapStep
  <1> QED BY <1>1, <1>2, AccountsInvariance, PTL DEF Spec, BootstrapOnce

-----------------------------------------------------------------------------
(* A request that takes away a role or an account holds the lock from its    *)
(* decision to its end; one that disables an account may have lost it.       *)

GuardOK(t) ==
    /\ th[t].pc \in {"stop", "stopping"} => th[t].op = "disable"
    /\ th[t].pc = "stopping" => lock # t /\ Working # {}
    /\ th[t].pc = "write" /\ lock # t => th[t].op = "disable" /\ Working # {}
    /\ th[t].pc \in {"stop", "write"} /\ lock = t =>
          ~(Removing(t) /\ LastAdmin(th[t].target))

GuardInv == /\ Inv
            /\ \A t \in Threads : GuardOK(t)
            /\ \A u \in Users : busy[u] => u \in Working

\* A step of t: whoever else holds the lock sees the table as it was.
LEMMA GuardStep ==
  ASSUME GuardInv, NEW t \in Threads, Others(t), GuardOK(t)',
         lock' = lock \/ (lock \in {t, None} /\ lock' \in {t, None}),
         UNCHANGED <<role, enabled>> \/ lock \in {t, None}
  PROVE  \A v \in Threads : GuardOK(v)'
  <1> TAKE v \in Threads
  <1> SUFFICES ASSUME v # t PROVE GuardOK(v)'  OBVIOUS
  <1>1. th'[v] = th[v] /\ GuardOK(v)  BY DEF Others, GuardInv
  <1>2. v # None  BY AccountsAssumption
  <1>3. CASE lock = v
    <2>1. UNCHANGED <<lock, role, enabled>>  BY <1>2, <1>3
    <2> QED BY <1>1, <2>1 DEF GuardOK, Removing, LastAdmin, EnabledAdmins
  <1>4. CASE lock # v
    <2>1. lock' # v  BY <1>2, <1>4
    <2> QED BY <1>1, <1>4, <2>1 DEF GuardOK
  <1> QED BY <1>3, <1>4

LEMMA IdleGuard == ASSUME NEW t \in Threads, th'[t] = Idle PROVE GuardOK(t)'
  BY DEF GuardOK, Idle

LEMMA GuardInit == Init => GuardInv
  <1> SUFFICES ASSUME Init PROVE GuardInv  OBVIOUS
  <1>1. \A t \in Threads : GuardOK(t)  BY DEF Init, GuardOK, Idle
  <1> QED BY <1>1, InitInv DEF GuardInv, Init

\* Deciding looks at the table under the lock, and so does what follows.
LEMMA DecideGuard ==
  ASSUME GuardInv, NEW t \in Threads, Decide(t)
  PROVE  \A v \in Threads : GuardOK(v)'
  <1> DEFINE x == IF th[t].op = "disable" /\ enabled[th[t].target]
                  THEN "stop" ELSE "write"
  <1>1. x \in PCs /\ x \in {"stop", "write"} /\ (x = "stop" => th[t].op = "disable")
    BY DEF PCs
  <1>2. Goto(t, x)  BY DEF Decide
  <1>3. lock = t  BY DEF Decide, At, GuardInv, Inv, ThreadOK, Locking
  <1> HIDE DEF x
  <1>4. /\ Others(t) /\ th'[t].pc = x /\ th'[t].target = th[t].target
        /\ th'[t].op = th[t].op
    BY <1>1, <1>2, GotoMoves DEF GuardInv, Inv
  <1>5. ~(Removing(t) /\ LastAdmin(th[t].target))  BY DEF Decide, Forbidden
  <1>6. GuardOK(t)'
    BY <1>1, <1>3, <1>4, <1>5
    DEF Decide, GuardOK, Removing, LastAdmin, EnabledAdmins
  <1> QED BY <1>4, <1>6, GuardStep DEF Decide

LEMMA StopGuard ==
  ASSUME GuardInv, NEW t \in Threads, Stop(t) \/ Stopped(t)
  PROVE  \A v \in Threads : GuardOK(v)'
  <1>1. /\ GuardOK(t) /\ th[t].pc \in {"stop", "stopping"}
        /\ th[t].op = "disable" /\ t # None
    BY AccountsAssumption DEF GuardInv, GuardOK, Stop, Stopped, At
  <1>2. PICK x \in {"stopping", "write"} :
          /\ Goto(t, x)
          /\ x = "stopping" => Stop(t) /\ busy[th[t].target] /\ lock' # t
          /\ x = "write" => lock' = lock
    BY <1>1 DEF Stop, Stopped, Unlock
  <1>3. /\ Others(t) /\ th'[t].pc = x /\ th'[t].op = th[t].op
        /\ th'[t].target = th[t].target
    BY <1>2, GotoMoves DEF GuardInv, Inv, PCs
  <1>4. x = "stopping" => Working # {}
    BY <1>1, <1>2 DEF GuardInv, Inv, ThreadOK
  <1>5. Stop(t) => lock = t
    BY DEF Stop, At, GuardInv, Inv, ThreadOK, Locking
  <1>6. Stopped(t) => lock # t /\ lock' = lock /\ Working # {}
    BY <1>1 DEF Stopped, At, GuardOK
  <1>7. UNCHANGED <<role, enabled>>  BY DEF Stop, Stopped
  <1>8. GuardOK(t)'
    <2>1. CASE x = "stopping"
      BY <1>1, <1>2, <1>3, <1>4, <2>1 DEF GuardOK
    <2>2. CASE x = "write" /\ Stop(t)
      BY <1>1, <1>2, <1>3, <1>5, <1>7, <2>2
      DEF GuardOK, Removing, LastAdmin, EnabledAdmins, Stop, At
    <2>3. CASE x = "write" /\ Stopped(t)
      BY <1>1, <1>3, <1>6, <2>3 DEF GuardOK
    <2> QED BY <2>1, <2>2, <2>3
  <1>9. lock' = lock \/ (lock \in {t, None} /\ lock' \in {t, None})
    BY DEF Stop, Stopped, Unlock
  <1> QED BY <1>3, <1>7, <1>8, <1>9, GuardStep

LEMMA GuardNext == GuardInv /\ [Next]_vars => GuardInv'
  <1> SUFFICES ASSUME GuardInv, [Next]_vars PROVE GuardInv'  OBVIOUS
  <1>1. Inv'  BY NextInv DEF GuardInv
  <1>2. ASSUME NEW t \in Threads, Request(t) PROVE \A v \in Threads : GuardOK(v)'
    <2>1. PICK o \in Ops, a \in Users \cup {None}, u \in Users :
            Begin(t, o, a, u, "lock")
      BY <1>2 DEF Request, Register, OidcCallback, AdminRequest, EnabledAdmins, Ops
    <2> DEFINE r == [Idle EXCEPT !.pc = "lock", !.op = o, !.actor = a, !.target = u]
    <2>2. r \in ThreadStates /\ r.pc = "lock"  BY DEF Idle, ThreadStates, PCs
    <2>3. th' = [th EXCEPT ![t] = r]  BY <2>1 DEF Begin
    <2> HIDE DEF r
    <2>4. Others(t) /\ th'[t] = r
      BY <2>2, <2>3 DEF GuardInv, Inv, TypeOK, Others, ThreadStates
    <2>5. GuardOK(t)'  BY <2>2, <2>4 DEF GuardOK
    <2> QED BY <2>1, <2>4, <2>5, GuardStep DEF Begin
  <1>3. ASSUME NEW t \in Threads, Lock(t) PROVE \A v \in Threads : GuardOK(v)'
    <2>1. AfterLock(t) \in {"count", "decide"}  BY DEF AfterLock
    <2>2. Others(t) /\ th'[t].pc = AfterLock(t)
      BY <1>3, <2>1, GotoMoves DEF Lock, GuardInv, Inv, PCs
    <2>3. GuardOK(t)'  BY <2>1, <2>2 DEF GuardOK
    <2> QED BY <1>3, <2>2, <2>3, GuardStep DEF Lock
  <1>4. ASSUME NEW t \in Threads, Count(t) PROVE \A v \in Threads : GuardOK(v)'
    <2>1. RoleForNewUser(t) \in Roles
      BY AccountsAssumption DEF RoleForNewUser, Roles
    <2>2. Others(t) /\ th'[t].pc = "admit"
      BY <1>4, <2>1 DEF Count, GuardInv, Inv, TypeOK, Others, ThreadStates, PCs
    <2>3. GuardOK(t)'  BY <2>2 DEF GuardOK
    <2> QED BY <1>4, <2>2, <2>3, GuardStep DEF Count
  <1>5. ASSUME NEW t \in Threads, Finish(t),
               UNCHANGED <<role, enabled>> \/ lock \in {t, None},
               lock' = lock \/ Unlock(t)
        PROVE  \A v \in Threads : GuardOK(v)'
    <2>1. Others(t) /\ th'[t] = Idle
      BY <1>5, FinishMoves DEF GuardInv, Inv
    <2> QED BY <1>5, <2>1, IdleGuard, GuardStep DEF Unlock
  <1>6. ASSUME NEW t \in Threads, Admit(t) \/ Write(t) \/ Refuse(t) \/ StopFails(t)
        PROVE  \A v \in Threads : GuardOK(v)'
    BY <1>5, <1>6 DEF Admit, Write, MayWrite, Refuse, Reject, StopFails
  <1>7. ASSUME Crash PROVE \A v \in Threads : GuardOK(v)'
    BY <1>7, IdleGuard DEF Crash
  <1>8. ASSUME UNCHANGED <<role, enabled, lock, th>>
        PROVE  \A v \in Threads : GuardOK(v)'
    BY <1>8 DEF GuardInv, GuardOK, Removing, LastAdmin, EnabledAdmins
  <1>9. \A v \in Threads : GuardOK(v)'
    BY <1>2, <1>3, <1>4, <1>6, <1>7, <1>8, DecideGuard, StopGuard
    DEF Next, Step, vars, StartWorkspace, StopWorkspace, DeleteWorkspace
  <1>10. \A u \in Users : busy'[u] => u \in Working
    <2>1. ASSUME NEW u \in Users, busy'[u] PROVE busy[u] \/ u \in Working
      BY <2>1
      DEF Next, vars, Request, Register, OidcCallback, AdminRequest, Begin, Step,
          Lock, Count, Admit, Refuse, Reject, Decide, Stop, Stopped, StopFails,
          Write, StartWorkspace, StopWorkspace, DeleteWorkspace, Crash,
          GuardInv, Inv, TypeOK
    <2> QED BY <2>1 DEF GuardInv
  <1> QED BY <1>1, <1>9, <1>10 DEF GuardInv

\* A change made under the lock leaves an enabled administrator.
LEMMA WriteEnds ==
  ASSUME GuardInv, NEW t \in Threads, Write(t),
         EnabledAdmins # {}, EnabledAdmins' = {}
  PROVE  At(t, "write") /\ th[t].op = "disable" /\ lock # t
  <1> DEFINE u == th[t].target
  <1>1. /\ At(t, "write") /\ GuardOK(t) /\ u \in Users /\ th[t].op \in Ops
        /\ \A x \in Users : x # u => role'[x] = role[x] /\ enabled'[x] = enabled[x]
    <2>1. u \in Users /\ th[t].op \in Ops
      BY DEF Write, At, GuardInv, Inv, TypeOK, ThreadOK
    <2> QED BY <2>1 DEF Write, GuardInv, Inv, TypeOK
  <1>2. EnabledAdmins = {u}
    <2>1. \A x \in EnabledAdmins : x = u  BY <1>1 DEF EnabledAdmins
    <2> QED BY <2>1
  <1>3. LastAdmin(u)  BY <1>2 DEF LastAdmin
  <1>4. role[u] = "admin" /\ enabled[u] /\ ~(role'[u] = "admin" /\ enabled'[u])
    BY <1>1, <1>2 DEF EnabledAdmins
  <1>5. Removing(t)
    BY <1>1, <1>4 DEF Removing, Ops, Write, GuardInv, Inv, TypeOK, Exists
  <1> QED BY <1>1, <1>3, <1>5 DEF GuardOK, At

LEMMA AdmitKeeps ==
  ASSUME GuardInv, NEW t \in Threads, Admit(t), EnabledAdmins # {}
  PROVE  EnabledAdmins' # {}
  <1>1. PICK x \in EnabledAdmins : TRUE  OBVIOUS
  <1>2. x \in Users /\ role[x] = "admin" /\ enabled[x]  BY DEF EnabledAdmins
  <1>3. th[t].target \in Users  BY DEF Admit, At, GuardInv, Inv, ThreadOK
  <1>4. role'[x] = "admin" /\ enabled'[x]
    BY <1>2, <1>3 DEF Admit, GuardInv, Inv, TypeOK, Exists
  <1> QED BY <1>2, <1>4 DEF EnabledAdmins

EndsStep ==
    EnabledAdmins # {} /\ EnabledAdmins' = {} =>
        \E t \in Threads : At(t, "write") /\ th[t].op = "disable" /\ lock # t

LEMMA AdminsStep == GuardInv /\ [Next]_vars => EndsStep
  <1> SUFFICES ASSUME GuardInv, [Next]_vars, EnabledAdmins # {},
                      EnabledAdmins' = {}
      PROVE  \E t \in Threads : At(t, "write") /\ th[t].op = "disable" /\ lock # t
    BY DEF EndsStep
  <1>1. ~UNCHANGED <<role, enabled>>  BY DEF EnabledAdmins
  <1>2. \E t \in Threads : Admit(t) \/ Write(t)
    BY <1>1
    DEF Next, vars, Request, Register, OidcCallback, AdminRequest, Begin, Step,
        Lock, Count, Refuse, Reject, Decide, Stop, Stopped, StopFails,
        StartWorkspace, StopWorkspace, DeleteWorkspace, Crash
  <1> QED BY <1>2, AdmitKeeps, WriteEnds

\* However many administrators change roles, states and accounts at once, the
\* last enabled one is only lost to a disable request whose table lock went
\* with the commit of a stopped workspace.
THEOREM AdminsEnd == Spec => OnlyUnlockedDisableEndsAdmins
  <1>1. GuardInv /\ [Next]_vars =>
          (EnabledAdmins # {} /\ EnabledAdmins' = {} =>
             \E t \in Threads : /\ At(t, "write") /\ th[t].op = "disable"
                                /\ lock # t)
    BY AdminsStep DEF EndsStep
  <1> QED BY <1>1, GuardInit, GuardNext, PTL DEF Spec, OnlyUnlockedDisableEndsAdmins

-----------------------------------------------------------------------------
(* With no workspace to stop, no request loses its lock.                     *)

AdminInv == GuardInv /\ AdminRemains

\* Accounts appear in Admit only, the first one as an administrator.
LEMMA FirstIsAdmin ==
  ASSUME AdminInv, [Next]_vars, EnabledAdmins = {}
  PROVE  AdminRemains'
  <1>1. \A x \in Users : ~Exists(x)  BY DEF AdminInv, AdminRemains
  <1>2. ASSUME NEW t \in Threads, Admit(t) PROVE AdminRemains'
    <2>1. th[t].target \in Users /\ th[t].grant = "admin"
      BY <1>1, <1>2 DEF Admit, At, AdminInv, GuardInv, Inv, ThreadOK, RoleForNewUser
    <2> QED BY <1>1, <1>2, <2>1
            DEF Admit, AdminInv, GuardInv, Inv, TypeOK, EnabledAdmins, AdminRemains
  <1>3. ASSUME NEW t \in Threads, Write(t) PROVE role' = role
    BY <1>1, <1>3 DEF Write, At, AdminInv, GuardInv, Inv, TypeOK, ThreadOK, Exists
  <1>4. CASE role' = role  BY <1>1, <1>4 DEF AdminRemains, Exists
  <1> QED BY <1>2, <1>3, <1>4
          DEF Next, vars, Request, Register, OidcCallback, AdminRequest, Begin, Step,
              Lock, Count, Refuse, Reject, Decide, Stop, Stopped, StopFails,
              StartWorkspace, StopWorkspace, DeleteWorkspace, Crash

\* As long as no account has a workspace to stop, there is always an enabled
\* administrator, whatever the administrators request at the same time.  With
\* workspaces it is false: run DisabledBusy.
THEOREM AdminsRemain ==
  ASSUME Working = {}
  PROVE  Spec => []AdminRemains
  <1>1. Init => AdminInv
    BY GuardInit DEF AdminInv, Init, AdminRemains, Exists
  <1>2. AdminInv /\ [Next]_vars => AdminInv'
    <2> SUFFICES ASSUME AdminInv, [Next]_vars PROVE AdminInv'  OBVIOUS
    <2>1. GuardInv'  BY GuardNext DEF AdminInv
    <2>2. CASE EnabledAdmins # {}
      <3>1. EnabledAdmins' # {}
        BY <2>2, AdminsStep DEF AdminInv, GuardInv, GuardOK, EndsStep, At
      <3> QED BY <2>1, <3>1 DEF AdminInv, AdminRemains
    <2>3. CASE EnabledAdmins = {}
      BY <2>1, <2>3, FirstIsAdmin DEF AdminInv
    <2> QED BY <2>2, <2>3
  <1>3. AdminInv => AdminRemains  BY DEF AdminInv
  <1> QED BY <1>1, <1>2, <1>3, PTL DEF Spec

=============================================================================
