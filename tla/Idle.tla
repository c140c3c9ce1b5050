--------------------------------- MODULE Idle ---------------------------------
(***************************************************************************)
(* Idle reclamation, composed with the workspace lifecycle: the activity   *)
(* files, what touches them, and the reaper's cutoff.                      *)
(*                                                                         *)
(* Simplifications: time is the age of each activity file in ticks, and a  *)
(* Timeout of them; a reaping round lasts at most MaxRound ticks; ages are *)
(* not told apart beyond what the reaper can.  Nothing is deleted here, so *)
(* a RUNNING workspace has an activity file and created_at is not needed.  *)
(***************************************************************************)
EXTENDS Workspaces

CONSTANTS
    Timeout,        \* workspace_idle_timeout_minutes
    MaxRound        \* bound: ticks in one round of the reaper

ASSUME IdleAssumption ==
    /\ Timeout \in Nat \ {0} /\ MaxRound \in Nat
    /\ IdleTimeout /\ "delete" \notin Handlers

VARIABLES
    age,        \* time since the activity file was touched
    round       \* time since the reaper took its cutoff

idleVars == <<age, round>>
timedVars == <<vars, idleVars>>

\* Bound on the ages: the reaper cannot tell older ones apart.
Oldest == Timeout + MaxRound

-----------------------------------------------------------------------------
(* The reaper *)

\* Mutant: no timeout is ever over.
NeverInactive(p) == FALSE

\* last <= cutoff, where the cutoff is Timeout before the round began.
Inactive(p) == age[p] >= Timeout + round

Reaping(t) == th[t].op = "reap" /\ At(t, "next")

\* The reaper looks at the activity of one loaded row after the other.
ReapDecision(t) ==
    Reaping(t) => \A o \in th[t].todo \ th'[t].todo :
                     (th'[t].pc = "mark") <=> Inactive(project[o.id])

-----------------------------------------------------------------------------
(* Activity and time *)

\* A runtime is ready, or a live one is returned by start.
Touched(t) == \/ At(t, "wait") /\ th'[t].pc = "commit"
              \/ /\ At(t, "probe") /\ th'[t].pc = "idle"
                 /\ Reusable(th[t].obj, th[t].proj)

Work(t) ==
    /\ ThreadStep(t) /\ ReapDecision(t)
    /\ age' = [p \in Projects |-> IF Touched(t) /\ p = th[t].proj THEN 0 ELSE age[p]]
    /\ round' = IF th'[Keeper].op = "reap" THEN round ELSE 0

\* A workspace is opened, or the gateway forwards a request, a chunk of a
\* response or a message of a WebSocket.
Traffic(p) ==
    /\ up /\ p \in secrets
    /\ \E w \in RowsOf(p) : status[w] = "RUNNING"
    /\ age' = [age EXCEPT ![p] = 0]
    /\ UNCHANGED <<vars, round>>

Tick ==
    /\ age' = [p \in Projects |-> IF age[p] < Oldest THEN age[p] + 1 ELSE age[p]]
    /\ IF th[Keeper].op = "reap" /\ ~At(Keeper, "reap")
       THEN round < MaxRound /\ round' = round + 1
       ELSE UNCHANGED round
    /\ UNCHANGED vars

-----------------------------------------------------------------------------
IdleInit ==
    /\ Init
    /\ age = [p \in Projects |-> 0]
    /\ round = 0

Rounds == ReapSelect /\ round' = 0 /\ UNCHANGED age

IdleNext ==
    \/ \E t \in Requests : Arrival(t) /\ UNCHANGED idleVars
    \/ Boot /\ UNCHANGED idleVars
    \/ Reconcile /\ UNCHANGED idleVars
    \/ Rounds
    \/ \E t \in Threads : Work(t)
    \/ \E p \in Projects : Traffic(p)
    \/ Tick
    \/ Environment /\ UNCHANGED idleVars

IdleSpec == IdleInit /\ [][IdleNext]_timedVars

\* As in Workspaces; nobody has to use a workspace, and time may stand still.
IdleFairness ==
    /\ \A t \in Threads : WF_timedVars(Work(t))
    /\ WF_timedVars(Boot /\ UNCHANGED idleVars)
    /\ WF_timedVars(Reconcile /\ UNCHANGED idleVars)
    /\ WF_timedVars(Rounds)

IdleFairSpec == IdleSpec /\ IdleFairness

-----------------------------------------------------------------------------
(* Properties *)

\* An idle workspace is reclaimed: the reaper comes to it, however many other
\* releases, reconciliations and racing requests come in between.
Neglected(w) == status[w] = "RUNNING" /\ age[project[w]] >= Timeout
IdleReclaimed == \A w \in Ids : Neglected(w) ~> ~Neglected(w)

\* The least of it: once nobody calls the control plane any more, every
\* workspace left running is reclaimed.
AbandonedReclaimed ==
    <>[](\A r \in Requests : At(r, "idle")) => IdleReclaimed

\* The reaper stops RUNNING workspaces, not one that is being started anew.
ReapsRunning ==
    [][\A t \in Threads : Reaping(t) /\ th'[t].pc = "mark" =>
          status[th'[t].obj.id] = "RUNNING"]_timedVars
=============================================================================
