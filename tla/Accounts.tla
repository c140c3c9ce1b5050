------------------------------- MODULE Accounts -------------------------------
(***************************************************************************)
(* User accounts: local registration, OIDC provisioning, and the           *)
(* administrator handlers that change a role, enable or disable an account *)
(* or delete it.  Handlers run concurrently; the ones that decide from the *)
(* whole table take a PostgreSQL lock on `users` (SHARE ROW EXCLUSIVE),    *)
(* which the end of the transaction releases - and so does the commit that *)
(* _release_workspace makes in the middle of a disable request.            *)
(*                                                                         *)
(* Simplifications: an account is its user name or OIDC identity; profile  *)
(* fields, passwords and tokens are left out; of a user's workspaces only  *)
(* whether one is active and whether any is recorded is kept, and a start, *)
(* stop or deletion of a workspace is one step.                            *)
(***************************************************************************)
CONSTANTS
    LocalUsers,     \* accounts that register with a password
    OidcUsers,      \* identities of the OIDC provider
    OidcRole,       \* settings.oidc_default_role
    Threads,
    None,
    Working         \* the users who run workspaces

Users == LocalUsers \cup OidcUsers
Roles == {"admin", "developer"}

ASSUME AccountsAssumption ==
    /\ OidcRole \in Roles
    /\ None \notin Users \cup Threads \cup Roles
    /\ Working \subseteq Users

VARIABLES
    role,       \* users.role, "absent": no such row
    enabled,    \* users.is_active
    busy,       \* the user has an active workspace
    history,    \* the user has a row in workspaces
    lock,       \* the thread that holds the table lock
    th          \* the threads

vars == <<role, enabled, busy, history, lock, th>>

Idle == [pc |-> "idle", op |-> "none", actor |-> None, target |-> None,
         grant |-> None]
Ops == {"none", "register", "provision", "promote", "demote", "enable",
        "disable", "delete"}
PCs == {"idle", "lock", "count", "decide", "admit", "stop", "stopping", "write"}

TypeOK ==
    /\ role \in [Users -> Roles \cup {"absent"}]
    /\ enabled \in [Users -> BOOLEAN]
    /\ busy \in [Users -> BOOLEAN]
    /\ history \in [Users -> BOOLEAN]
    /\ lock \in Threads \cup {None}
    /\ th \in [Threads -> [pc: PCs, op: Ops, actor: Users \cup {None},
                           target: Users \cup {None},
                           grant: Roles \cup {None}]]

-----------------------------------------------------------------------------
Exists(u) == role[u] # "absent"
EnabledAdmins == {u \in Users : role[u] = "admin" /\ enabled[u]}

At(t, where) == th[t].pc = where
Goto(t, where) == th' = [th EXCEPT ![t].pc = where]
Finish(t) == th' = [th EXCEPT ![t] = Idle]
Unlock(t) == lock' = IF lock = t THEN None ELSE lock

\* INSERT, UPDATE and DELETE wait for a table lock that another one holds.
MayWrite(t) == lock \in {None, t}

\* The end of a request that changes nothing: the session is closed.
Reject(t) == /\ Finish(t) /\ Unlock(t)
             /\ UNCHANGED <<role, enabled, busy, history>>

Begin(t, o, a, u, where) ==
    /\ At(t, "idle")
    /\ th' = [th EXCEPT ![t] = [Idle EXCEPT !.pc = where, !.op = o,
                                  !.actor = a, !.target = u]]
    /\ UNCHANGED <<role, enabled, busy, history, lock>>

AfterLock(t) == IF th[t].op \in {"register", "provision"} THEN "count" ELSE "decide"

\* Mutant: not PostgreSQL, no table lock.
NoLock(t) ==
    /\ At(t, "lock")
    /\ Goto(t, AfterLock(t))
    /\ UNCHANGED <<role, enabled, busy, history, lock>>

\* LOCK TABLE users IN SHARE ROW EXCLUSIVE MODE
Lock(t) ==
    /\ At(t, "lock") /\ lock = None
    /\ lock' = t
    /\ Goto(t, AfterLock(t))
    /\ UNCHANGED <<role, enabled, busy, history>>

-----------------------------------------------------------------------------
(* New accounts *)

Register(t, u) == u \in LocalUsers /\ Begin(t, "register", None, u, "lock")

\* The callback looks the identity up without a lock; a known one logs in.
OidcCallback(t, u) ==
    /\ u \in OidcUsers /\ ~Exists(u)
    /\ Begin(t, "provision", None, u, "lock")

\* Mutant: a role outside the enumeration.
RoleUser(t) == IF \A u \in Users : ~Exists(u) THEN "admin" ELSE "user"

\* role_for_new_user: the first account of the table is an administrator.
RoleForNewUser(t) ==
    IF \A u \in Users : ~Exists(u) THEN "admin"
    ELSE IF th[t].op = "provision" THEN OidcRole ELSE "developer"

Count(t) ==
    /\ At(t, "count")
    /\ th' = [th EXCEPT ![t].pc = "admit", ![t].grant = RoleForNewUser(t)]
    /\ UNCHANGED <<role, enabled, busy, history, lock>>

\* Insert and commit; a name or identity taken meanwhile is refused.
Admit(t) ==
    LET u == th[t].target
    IN  /\ At(t, "admit") /\ MayWrite(t)
        /\ IF Exists(u)
           THEN UNCHANGED <<role, enabled>>
           ELSE /\ role' = [role EXCEPT ![u] = th[t].grant]
                /\ enabled' = [enabled EXCEPT ![u] = TRUE]
        /\ Finish(t) /\ Unlock(t)
        /\ UNCHANGED <<busy, history>>

-----------------------------------------------------------------------------
(* Administration *)

\* require_admin looks at the caller's row once, before the lock is taken.
AdminRequest(t, o, a, u) ==
    /\ a \in EnabledAdmins
    /\ o \in {"promote", "demote", "enable", "disable", "delete"}
    /\ Begin(t, o, a, u, "lock")

Removing(t) == th[t].op \in {"demote", "disable", "delete"}

\* Mutant: the guard is left out.
NeverLast(u) == FALSE

\* _protect_last_admin
LastAdmin(u) == u \in EnabledAdmins /\ \A v \in EnabledAdmins : v = u

Forbidden(t) ==
    LET u == th[t].target
    IN  \/ ~Exists(u)
        \/ Removing(t) /\ u = th[t].actor
        \/ Removing(t) /\ LastAdmin(u)
        \/ th[t].op = "delete" /\ (u \notin LocalUsers \/ history[u])

Refuse(t) == At(t, "decide") /\ Forbidden(t) /\ Reject(t)

Decide(t) ==
    /\ At(t, "decide") /\ ~Forbidden(t)
    /\ Goto(t, IF th[t].op = "disable" /\ enabled[th[t].target]
               THEN "stop" ELSE "write")
    /\ UNCHANGED <<role, enabled, busy, history, lock>>

\* _stop_user_workspaces: nothing to stop, or a first commit, which ends the
\* transaction and with it the table lock.
Stop(t) ==
    /\ At(t, "stop")
    /\ IF busy[th[t].target]
       THEN Goto(t, "stopping") /\ Unlock(t)
       ELSE Goto(t, "write") /\ UNCHANGED lock
    /\ UNCHANGED <<role, enabled, busy, history>>

Stopped(t) ==
    /\ At(t, "stopping")
    /\ busy' = [busy EXCEPT ![th[t].target] = FALSE]
    /\ Goto(t, "write")
    /\ UNCHANGED <<role, enabled, history, lock>>

\* A podman command times out, or the row is gone: the request ends there, the
\* account is not disabled.
StopFails(t) ==
    /\ At(t, "stopping")
    /\ Finish(t)
    /\ UNCHANGED <<role, enabled, busy, history, lock>>

\* Mutant: no foreign key from workspaces to users.
AlwaysDeletable(u) == TRUE

\* The foreign key keeps an account that workspaces refer to.
Deletable(u) == ~history[u]

\* The change itself.  The caller's own row was loaded before the lock, where
\* it was an enabled administrator: promoting or enabling it writes nothing.
Write(t) ==
    LET u == th[t].target
        o == th[t].op
    IN  /\ At(t, "write") /\ MayWrite(t)
        /\ role' = [role EXCEPT ![u] =
                      IF ~Exists(u) \/ u = th[t].actor THEN @
                      ELSE CASE o = "promote" -> "admin"
                             [] o = "demote" -> "developer"
                             [] o = "delete" /\ Deletable(u) -> "absent"
                             [] OTHER -> @]
        /\ enabled' = [enabled EXCEPT ![u] =
                         IF ~Exists(u) \/ u = th[t].actor THEN @
                         ELSE CASE o = "enable" -> TRUE
                                [] o = "disable" -> FALSE
                                [] o = "delete" /\ Deletable(u) -> FALSE
                                [] OTHER -> @]
        /\ Finish(t) /\ Unlock(t)
        /\ UNCHANGED <<busy, history>>

-----------------------------------------------------------------------------
(* The rest of the control plane *)

\* An enabled user starts a workspace, or stops the one that runs.
StartWorkspace(u) ==
    /\ u \in Working /\ Exists(u) /\ enabled[u]
    /\ busy' = [busy EXCEPT ![u] = TRUE]
    /\ history' = [history EXCEPT ![u] = TRUE]
    /\ UNCHANGED <<role, enabled, lock, th>>

StopWorkspace(u) ==
    /\ busy[u]
    /\ busy' = [busy EXCEPT ![u] = FALSE]
    /\ UNCHANGED <<role, enabled, history, lock, th>>

\* The user deletes the last workspace, an active one is released first.
DeleteWorkspace(u) ==
    /\ history[u]
    /\ busy' = [busy EXCEPT ![u] = FALSE]
    /\ history' = [history EXCEPT ![u] = FALSE]
    /\ UNCHANGED <<role, enabled, lock, th>>

\* The process ends: sessions are gone, and their locks.
Crash ==
    /\ th' = [t \in Threads |-> Idle]
    /\ lock' = None
    /\ UNCHANGED <<role, enabled, busy, history>>

-----------------------------------------------------------------------------
Init ==
    /\ role = [u \in Users |-> "absent"]
    /\ enabled = [u \in Users |-> FALSE]
    /\ busy = [u \in Users |-> FALSE]
    /\ history = [u \in Users |-> FALSE]
    /\ lock = None
    /\ th = [t \in Threads |-> Idle]

Request(t) ==
    \/ \E u \in Users : Register(t, u) \/ OidcCallback(t, u)
    \/ \E a, u \in Users, o \in Ops : AdminRequest(t, o, a, u)

Step(t) == \/ Lock(t) \/ Count(t) \/ Admit(t)
           \/ Refuse(t) \/ Decide(t) \/ Write(t)
           \/ Stop(t) \/ Stopped(t) \/ StopFails(t)

Next ==
    \/ \E t \in Threads : Request(t) \/ Step(t)
    \/ \E u \in Users : StartWorkspace(u) \/ StopWorkspace(u) \/ DeleteWorkspace(u)
    \/ Crash

Spec == Init /\ [][Next]_vars

-----------------------------------------------------------------------------
(* Properties *)

\* Once there is an account there is an enabled administrator: whatever the
\* administrators change at the same time, the platform can be administered.
AdminRemains == (\E u \in Users : Exists(u)) => EnabledAdmins # {}

\* The last enabled administrator is lost in one way only: by disabling an
\* account after its workspaces were stopped, when the table lock is gone.
\* Role changes and deletions are checked and written under one lock.
OnlyUnlockedDisableEndsAdmins ==
    [][EnabledAdmins # {} /\ EnabledAdmins' = {} =>
          \E t \in Threads : /\ At(t, "write") /\ th[t].op = "disable"
                             /\ lock # t]_vars

\* Only the very first account becomes an administrator by itself, even when
\* several people register or log in for the first time at once.
BootstrapOnce ==
    [][\A u \in Users : ~Exists(u) /\ role'[u] = "admin" =>
          \A v \in Users \ {u} : ~Exists(v)]_vars

\* A workspace in use has an owner, also when the account is being deleted
\* while its user starts a first workspace.
OwnerRemains == \A u \in Users : busy[u] => Exists(u)

\* A disabled account that no request is at work on has no active workspace.
DisabledHoldsNoWorkspace ==
    \A u \in Users : busy[u] /\ Exists(u) /\ ~enabled[u] =>
        \E t \in Threads : th[t].target = u
=============================================================================
