------------------------------- MODULE Gateway -------------------------------
(***************************************************************************)
(* The gateway, composed with the workspace lifecycle: a client's request  *)
(* or WebSocket is forwarded to the loopback port of the slot that its     *)
(* selected workspace had when the gateway loaded the row.  What keeps a   *)
(* user away from another one's runtime is the runtime password: a start   *)
(* generates it, writes it to the project's runtime-secret file and hands  *)
(* it to the container; the gateway reads it from the file.                *)
(*                                                                         *)
(* Clients are request threads of Workspaces that no other handler uses.   *)
(* HTTP handlers run on the event loop, so nothing but the pool threads    *)
(* interleaves between two awaits of theirs (LoopFree).                    *)
(*                                                                         *)
(* Simplifications: a selector is a workspace id (a container name selects *)
(* the same row) from a header or a cookie, so any id at all; a password   *)
(* is never issued twice, the model may issue again one that nothing holds *)
(* any more; what a request carries and what is answered to one that is    *)
(* not forwarded is left out.                                              *)
(***************************************************************************)
EXTENDS Workspaces

CONSTANTS
    Clients,        \* connections to the gateway
    Keys            \* runtime passwords

ASSUME GatewayAssumption ==
    /\ Clients \subseteq Requests
    /\ None \notin Keys

VARIABLES
    file,       \* contents of the runtime-secret files
    pass,       \* the password a launching thread has generated
    runs,       \* what a running container was given: password and project
    call        \* the clients' requests

gatewayVars == <<file, pass, runs, call>>
allVars == <<vars, gatewayVars>>

NoCall == [pc |-> "idle", user |-> None, sel |-> None, obj |-> None,
           proj |-> None, key |-> None, served |-> None]
NotRunning == [key |-> None, proj |-> None]

CallPCs == {"idle", "check", "again", "secret", "send", "relay"}
Calls == [pc : CallPCs, user : Users \cup {None}, sel : Ids \cup {None},
          obj : Objects \cup {None}, proj : Projects \cup {None},
          key : Keys \cup {None}, served : Projects \cup {None}]
GatewayTypeOK ==
    /\ file \in [Projects -> Keys \cup {None}]
    /\ pass \in [Threads -> Keys \cup {None}]
    /\ runs \in [Names -> [key : Keys \cup {None}, proj : Projects \cup {None}]]
    /\ call \in [Clients -> Calls]

-----------------------------------------------------------------------------
(* Passwords *)

\* secrets.token_urlsafe(32): held by nothing yet.
FreshKeys == Keys \ (   {file[p] : p \in Projects}
                   \cup {pass[t] : t \in Threads}
                   \cup {runs[n].key : n \in Names}
                   \cup {call[c].key : c \in Clients})

Launched(t) == At(t, "prepare") /\ th'[t].pc = "run"

\* Mutant: a password that is there is kept, as if a restart were to reuse it.
ContentsKept(t) ==
    /\ runs' = [n \in Names |->
                  IF podman'[n] # "running" THEN NotRunning
                  ELSE IF podman[n] = "running" THEN runs[n]
                  ELSE [key |-> pass[t], proj |-> th[t].proj]]
    /\ IF Launched(t)
       THEN \E k \in FreshKeys :
              /\ file' = [file EXCEPT ![th[t].proj] = IF @ = None THEN k ELSE @]
              /\ pass' = [pass EXCEPT ![t] = k]
       ELSE /\ file' = [p \in Projects |-> IF p \in secrets' THEN file[p] ELSE None]
            /\ pass' = [pass EXCEPT ![t] = IF th'[t].pc \in {"run", "wait"}
                                           THEN @ ELSE None]

\* What a step of thread t does to files, to its password and to containers.
Contents(t) ==
    /\ runs' = [n \in Names |->
                  IF podman'[n] # "running" THEN NotRunning
                  ELSE IF podman[n] = "running" THEN runs[n]
                  ELSE [key |-> pass[t], proj |-> th[t].proj]]
    /\ IF Launched(t)
       THEN \E k \in FreshKeys :
              /\ file' = [file EXCEPT ![th[t].proj] = k]
              /\ pass' = [pass EXCEPT ![t] = k]
       ELSE /\ file' = [p \in Projects |-> IF p \in secrets' THEN file[p] ELSE None]
            /\ pass' = [pass EXCEPT ![t] = IF th'[t].pc \in {"run", "wait"}
                                           THEN @ ELSE None]

-----------------------------------------------------------------------------
(* Clients *)

InCall(c, where) == call[c].pc = where
Proceed(c, where) == call' = [call EXCEPT ![c].pc = where]

\* Mutant: the answered call stays.
AnswerDone(c) == call' = [call EXCEPT ![c] = [NoCall EXCEPT !.pc = "done"]]

Answer(c) == call' = [call EXCEPT ![c] = NoCall]
Elsewhere == UNCHANGED <<rowVars, slotVars, hostVars, up, file, pass, runs>>

\* Until the request body is awaited an HTTP handler holds the event loop.
LoopFree(c) == \A d \in Clients \ {c} :
                  /\ call[d].pc \notin {"check", "again"}
                  /\ At(d, "idle")

\* _find_selected_workspace
Candidates(u, sel) ==
    LET rows == {w \in Ids : status[w] = "RUNNING" /\ Owner[project[w]] = u}
    IN  IF sel # None THEN rows \cap {sel}
        ELSE IF Cardinality(rows) = 1 THEN rows ELSE {}

\* A request without a workspace is answered at once: 404, 409, a redirect to
\* the dashboard, 4409 or 1011.  An HTTP request checks the runtime first.
Select(c, u, sel, where) ==
    /\ up /\ InCall(c, "idle") /\ At(c, "idle") /\ LoopFree(c)
    /\ \E w \in Candidates(u, sel) :
         call' = [call EXCEPT ![c] =
                    [NoCall EXCEPT !.pc = where, !.user = u, !.sel = sel,
                       !.obj = Row(w), !.proj = project[w]]]
    /\ UNCHANGED th /\ Elsewhere

HttpRequest(c) == \E u \in Users, sel \in Ids \cup {None} : Select(c, u, sel, "check")
WebSocket(c) == \E u \in Users, sel \in Ids \cup {None} : Select(c, u, sel, "secret")

Check(c) ==
    /\ InCall(c, "check") /\ Usable(call[c].obj)
    /\ Proceed(c, "again")
    /\ UNCHANGED th /\ Elsewhere

\* Not reachable any more: recycled on the spot, then answered.
Recycle(c) ==
    LET o == call[c].obj
    IN  /\ InCall(c, "check") /\ ~Usable(o)
        /\ th' = [th EXCEPT ![c] = [Idle EXCEPT !.pc = "mark", !.op = "stop",
                                      !.proj = call[c].proj, !.obj = o]]
        /\ Answer(c)
        /\ Elsewhere

\* proxy_http selects once more; a row the session knows keeps its attributes.
Again(c) ==
    /\ InCall(c, "again")
    /\ \/ /\ Candidates(call[c].user, call[c].sel) = {}
          /\ Answer(c)
       \/ \E w \in Candidates(call[c].user, call[c].sel) :
            call' = [call EXCEPT ![c].pc = "secret",
                       ![c].obj = IF w = @.id THEN @ ELSE Row(w),
                       ![c].proj = project[w]]
    /\ UNCHANGED th /\ Elsewhere

\* Mutant: passwords kept by slot instead of by project.
ReadFromPort(c) ==
    /\ InCall(c, "secret")
    /\ \E n \in Names : /\ Running(n) /\ n[1] = call[c].obj.slot
                        /\ call' = [call EXCEPT ![c].pc = "send",
                                                ![c].key = runs[n].key]
    /\ UNCHANGED th /\ Elsewhere

\* read_workspace_secret and the backend URL; both may fail the request.
ReadSecret(c) ==
    /\ InCall(c, "secret")
    /\ IF call[c].proj \in secrets /\ call[c].obj.slot # NoSlot
       THEN call' = [call EXCEPT ![c].pc = "send", ![c].key = file[call[c].proj]]
       ELSE Answer(c)
    /\ UNCHANGED th /\ Elsewhere

\* After the body was awaited: whoever listens on the port by now is asked, and
\* serves the request if the password is its own.
Serves(n, c) == /\ Running(n) /\ n[1] = call[c].obj.slot
                /\ runs[n].key = call[c].key

Forward(c) ==
    /\ InCall(c, "send")
    /\ \E n \in Names :
         /\ Serves(n, c)
         /\ call' = [call EXCEPT ![c].pc = "relay", ![c].key = None,
                                 ![c].served = runs[n].proj]
    /\ UNCHANGED th /\ Elsewhere

\* 502: nobody listens, or not yet; 401: another one's runtime.
Refused(c) ==
    /\ InCall(c, "send")
    /\ \A n \in Names : Serves(n, c) =>
          \E t \in Threads : At(t, "wait") /\ RuntimeName(t) = n
    /\ Answer(c)
    /\ UNCHANGED th /\ Elsewhere

\* The response is complete, or a side of the connection is gone.
RelayEnds(c) ==
    /\ InCall(c, "relay")
    /\ Answer(c)
    /\ UNCHANGED th /\ Elsewhere

-----------------------------------------------------------------------------
GatewayInit ==
    /\ Init
    /\ file = [p \in Projects |-> None]
    /\ pass = [t \in Threads |-> None]
    /\ runs = [n \in Names |-> NotRunning]
    /\ call = [c \in Clients |-> NoCall]

ClientStep(c) ==
    \/ HttpRequest(c) \/ WebSocket(c) \/ Check(c) \/ Recycle(c) \/ Again(c)
    \/ ReadSecret(c) \/ Forward(c) \/ Refused(c) \/ RelayEnds(c)

\* A workspace that a connection still knows does not lend its id to a new one.
KnownIds == {call[c].obj.id : c \in {d \in Clients : call[d].obj # None}}
NewIds == {th'[t].obj.id : t \in {r \in Requests : /\ th'[r].obj # None
                                                  /\ th'[r].obj.status = "ABSENT"
                                                  /\ At(r, "idle")}}

\* The control plane's own steps, and what they mean for files and containers.
Selection ==
    \/ \E t \in Requests \ Clients : Arrival(t) /\ NewIds \cap KnownIds = {}
    \/ Boot \/ Reconcile \/ ReapSelect

\* With the process its connections end.
Stops ==
    /\ Crash \/ Reboot
    /\ runs' = [n \in Names |-> IF podman'[n] = "running" THEN runs[n] ELSE NotRunning]
    /\ pass' = [t \in Threads |-> None]
    /\ call' = [c \in Clients |-> NoCall]
    /\ UNCHANGED file

Exits(n) ==
    /\ ContainerExit(n)
    /\ runs' = [runs EXCEPT ![n] = NotRunning]
    /\ UNCHANGED <<file, pass, call>>

GatewayNext ==
    \/ Selection /\ UNCHANGED gatewayVars
    \/ \E t \in Threads : ThreadStep(t) /\ Contents(t) /\ UNCHANGED call
    \/ \E c \in Clients : ClientStep(c)
    \/ Stops \/ \E n \in Names : Exits(n)

GatewaySpec == GatewayInit /\ [][GatewayNext]_allVars

\* The discipline of Workspaces, and: a row that a connection recycles is still
\* as the connection loaded it.  The gateway does not check that.
GatewayOrderly ==
    /\ Orderly
    /\ \A c \in Clients : At(c, "mark") => th[c].obj = Row(th[c].obj.id)

GatewayOrderlyNext == GatewayNext /\ GatewayOrderly'
GatewayOrderlySpec == GatewayInit /\ [][GatewayOrderlyNext]_allVars

-----------------------------------------------------------------------------
(* Properties *)

\* A client is served by a runtime of the project it selected, which is its
\* user's own: also when the workspace was stopped after it was selected and
\* another user's runtime listens on the port by the time of the forward.
ServedByOwn ==
    \A c \in Clients : InCall(c, "relay") =>
        /\ call[c].served = call[c].proj
        /\ Owner[call[c].served] = call[c].user

\* The secret file opens the runtime of every RUNNING workspace: whatever starts
\* and failures came before, the gateway is never locked out of a live one.
SecretOpensRuntime ==
    \A w \in Ids : status[w] = "RUNNING" /\ Running(ctrName[w]) =>
        /\ runs[ctrName[w]].key = file[project[w]]
        /\ runs[ctrName[w]].proj = project[w]

\* A request that finds its runtime dead releases no live one.  The gateway does
\* not see to that: between its look and the release a start may come in.
RecycleSparesLive ==
    [][\A c \in Clients : At(c, "mark") /\ th'[c].pc = "remove" =>
          LET w == th[c].obj.id
          IN  ~(status[w] = "RUNNING" /\ Running(ctrName[w]))]_allVars
=============================================================================
