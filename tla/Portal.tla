--------------------------------- MODULE Portal ---------------------------------
(***************************************************************************)
(* A user's browser and the portal: the workspace cookie that all its tabs *)
(* share, the widget's poll, stop and logout, and the stop reason by which *)
(* a user learns that a workspace was reclaimed as idle.                   *)
(*                                                                         *)
(* A release commits STOPPING, removes the container, writes the reason to *)
(* a file and commits STOPPED, while the browser goes on asking.           *)
(*                                                                         *)
(* Simplifications: the user's workspaces have a project each, and every   *)
(* RUNNING one is reachable (Gateway has the others); slots, containers    *)
(* and overlapping starts are in Workspaces; requests and their answers    *)
(* are one step but for stop and logout, which take as long as a release.  *)
(***************************************************************************)
EXTENDS Naturals, FiniteSets

CONSTANTS
    Mine,       \* the user's workspaces
    Tabs,       \* the browser's tabs
    None

Reasons == {"idle", "manual", "logout"}

ASSUME PortalAssumption == None \notin Mine \cup Tabs \cup Reasons

VARIABLES
    status,     \* workspaces.status
    reason,     \* contents of the stop-reason files
    release,    \* releases under way, by whom
    reclaimed,  \* workspaces the reaper has had a hand in stopping
    session,    \* the browser holds a valid session cookie
    cookie,     \* the workspace cookie
    tab         \* the pages the tabs are on

serverVars == <<status, reason, release, reclaimed>>
browserVars == <<session, cookie, tab>>
vars == <<serverVars, browserVars>>

\* The reaper and the pool thread of a request: one release at a time each.
Actors == {"reaper", "request"}
Statuses == {"STARTING", "RUNNING", "STOPPING", "STOPPED", "ERROR"}
Rows == [ws : Mine, status : Statuses]
Release == [pc : {"none", "next", "write", "commit"}, why : Reasons \cup {None},
            ws : Mine \cup {None}, todo : SUBSET Rows, tab : Tabs \cup {None}]
Pages == [at : {"login", "dashboard", "open", "app", "busy"}, ws : Mine \cup {None},
          notice : {None, "idle"}]
NoRelease == [pc |-> "none", why |-> None, ws |-> None, todo |-> {}, tab |-> None]
Page(where, ws, notice) == [at |-> where, ws |-> ws, notice |-> notice]

TypeOK ==
    /\ status \in [Mine -> Statuses]
    /\ reason \in [Mine -> Reasons \cup {None}]
    /\ release \in [Actors -> Release]
    /\ reclaimed \subseteq Mine
    /\ session \in BOOLEAN
    /\ cookie \in Mine \cup {None}
    /\ tab \in [Tabs -> Pages]

Show(t, page) == tab' = [tab EXCEPT ![t] = page]
Dashboard(t) == Show(t, Page("dashboard", None, None))
RunningOnes == {w \in Mine : status[w] = "RUNNING"}
ActiveOnes == {w \in Mine : status[w] \in {"STARTING", "RUNNING", "STOPPING"}}

-----------------------------------------------------------------------------
(* Starts and releases *)

Start(w) ==
    /\ status[w] \in {"STOPPED", "ERROR"}
    /\ session
    /\ status' = [status EXCEPT ![w] = "STARTING"]
    /\ UNCHANGED <<reason, release, reclaimed, browserVars>>

\* Mutant: the reason of the last stop stays.
StartedKeepsReason(w) ==
    /\ status[w] = "STARTING"
    /\ \E st \in {"RUNNING", "ERROR"} : status' = [status EXCEPT ![w] = st]
    /\ reclaimed' = reclaimed \ {w}
    /\ UNCHANGED <<reason, release, browserVars>>

\* start_workspace clears the reason on its way.
Started(w) ==
    /\ status[w] = "STARTING"
    /\ \E st \in {"RUNNING", "ERROR"} : status' = [status EXCEPT ![w] = st]
    /\ reason' = [reason EXCEPT ![w] = None]
    /\ reclaimed' = reclaimed \ {w}
    /\ UNCHANGED <<release, browserVars>>

\* The rows as the session loads them, which is what _release_workspace goes by.
Loaded(ws) == {[ws |-> w, status |-> status[w]] : w \in ws}

Begin(a, why, ws, t) ==
    /\ release[a].pc = "none"
    /\ release' = [release EXCEPT ![a] = [NoRelease EXCEPT !.pc = "next", !.why = why,
                                            !.todo = Loaded(ws), !.tab = t]]

Reap ==
    /\ \E w \in RunningOnes : Begin("reaper", "idle", {w}, None)
    /\ UNCHANGED <<status, reason, reclaimed, browserVars>>

ByReaper(a, w) == IF a = "reaper" THEN reclaimed \cup {w} ELSE reclaimed

Mark(a) ==
    /\ release[a].pc = "next"
    /\ \E o \in release[a].todo :
         /\ status' = [status EXCEPT ![o.ws] = IF o.status \in {"STARTING", "RUNNING"}
                                                THEN "STOPPING" ELSE @]
         /\ release' = [release EXCEPT ![a].pc = "write", ![a].ws = o.ws,
                                       ![a].todo = @ \ {o}]
         /\ reclaimed' = ByReaper(a, o.ws)
    /\ UNCHANGED <<reason, browserVars>>

\* The container is gone: write_workspace_stop_reason, then the commit.
WriteReason(a) ==
    /\ release[a].pc = "write"
    /\ reason' = [reason EXCEPT ![release[a].ws] = release[a].why]
    /\ release' = [release EXCEPT ![a].pc = "commit"]
    /\ reclaimed' = ByReaper(a, release[a].ws)
    /\ UNCHANGED <<status, browserVars>>

Commit(a) ==
    /\ release[a].pc = "commit"
    /\ status' = [status EXCEPT ![release[a].ws] = "STOPPED"]
    /\ release' = [release EXCEPT ![a].pc = "next", ![a].ws = None]
    /\ reclaimed' = ByReaper(a, release[a].ws)
    /\ UNCHANGED <<reason, browserVars>>

\* Stop and logout answer now; a tab that has moved on drops the answer.
Answer(a) ==
    LET t == release[a].tab
        page == IF release[a].why = "logout" THEN "login" ELSE "dashboard"
    IN  /\ release[a].pc = "next" /\ release[a].todo = {}
        /\ release' = [release EXCEPT ![a] = NoRelease]
        /\ IF t # None /\ tab[t].at = "busy"
           THEN /\ cookie' = None
                /\ session' = (session /\ release[a].why # "logout")
                /\ Show(t, Page(page, None, None))
           ELSE UNCHANGED browserVars
        /\ UNCHANGED <<status, reason, reclaimed>>

-----------------------------------------------------------------------------
(* The browser *)

Login(t) ==
    /\ tab[t].at = "login"
    /\ session' = TRUE
    /\ Dashboard(t)
    /\ UNCHANGED <<serverVars, cookie>>

ToDashboard(t) ==
    /\ tab[t].at = "app"
    /\ IF session THEN Dashboard(t) ELSE Show(t, Page("login", None, None))
    /\ UNCHANGED <<serverVars, session, cookie>>

\* GET /open/{id} sets the cookie and redirects to "/".
Open(t, w) ==
    /\ tab[t].at = "dashboard" /\ session /\ status[w] = "RUNNING"
    /\ cookie' = w
    /\ Show(t, Page("open", w, None))
    /\ UNCHANGED <<serverVars, session>>

\* selected_workspace_for_request, the cookie being the selector.
Selected == IF cookie # None THEN RunningOnes \cap {cookie}
            ELSE IF Cardinality(RunningOnes) = 1 THEN RunningOnes ELSE {}

\* _idle_workspace_for_request, and the same question in portal_status and for
\* a WebSocket.
IdleStopped(w) == w # None /\ status[w] = "STOPPED" /\ reason[w] = "idle"

Explained(t) == Show(t, Page("dashboard", cookie, "idle"))

\* GET / in any tab, after Open by itself: the application, or back.
GatewayRoot(t) ==
    /\ tab[t].at \in {"open", "app", "dashboard", "login"}
    /\ IF ~session
       THEN Show(t, Page("login", None, None)) /\ UNCHANGED cookie
       ELSE \/ \E w \in Selected : Show(t, Page("app", w, None)) /\ UNCHANGED cookie
            \/ /\ Selected = {}
               /\ IF IdleStopped(cookie) THEN Explained(t) ELSE Dashboard(t)
               /\ cookie' = None
    /\ UNCHANGED <<serverVars, session>>

\* The dashboard that tells of an idle stop takes the cookie away.
ToExplained(t) == Explained(t) /\ cookie' = None

\* Mutant: only an idle stop sends a tab away.
PollForIdle(t) ==
    /\ tab[t].at \in {"app", "busy"}
    /\ \/ ~session /\ Show(t, Page("login", None, None)) /\ UNCHANGED cookie
       \/ session /\ IdleStopped(cookie) /\ ToExplained(t)
       \/ session /\ ~IdleStopped(cookie) /\ UNCHANGED <<tab, cookie>>
    /\ UNCHANGED <<serverVars, session>>

\* The widget asks every 30 seconds, also while a stop is under way.
Poll(t) ==
    /\ tab[t].at \in {"app", "busy"}
    /\ \/ ~session /\ Show(t, Page("login", None, None)) /\ UNCHANGED cookie
       \/ session /\ IdleStopped(cookie) /\ ToExplained(t)
       \/ /\ session /\ ~IdleStopped(cookie)
          /\ IF cookie \notin RunningOnes THEN Dashboard(t) ELSE UNCHANGED tab
          /\ UNCHANGED cookie
    /\ UNCHANGED <<serverVars, session>>

\* A request or a WebSocket of the application that finds no running workspace
\* is told why: 409 workspace_idle_timeout or 4409.
Told(t) ==
    /\ tab[t].at = "app" /\ session /\ Selected = {}
    /\ IdleStopped(cookie)
    /\ tab' = [tab EXCEPT ![t].notice = "idle", ![t].ws = cookie]
    /\ UNCHANGED <<serverVars, session, cookie>>

\* Mutant: a reason of its own, which no reader of the file knows.
PortalStopOwnReason(t) ==
    /\ tab[t].at = "app" /\ session
    /\ Begin("request", "portal", {cookie} \cap Mine, t)
    /\ tab' = [tab EXCEPT ![t].at = "busy"]
    /\ UNCHANGED <<status, reason, reclaimed, session, cookie>>

\* Stops the workspace of the cookie, unless it is stopped.
PortalStop(t) ==
    /\ tab[t].at = "app" /\ session
    /\ Begin("request", "manual", {w \in {cookie} \cap Mine : status[w] # "STOPPED"}, t)
    /\ tab' = [tab EXCEPT ![t].at = "busy"]
    /\ UNCHANGED <<status, reason, reclaimed, session, cookie>>

PortalLogout(t) ==
    /\ tab[t].at = "app"
    /\ Begin("request", "logout", IF session THEN ActiveOnes ELSE {}, t)
    /\ tab' = [tab EXCEPT ![t].at = "busy"]
    /\ UNCHANGED <<status, reason, reclaimed, session, cookie>>

\* The session token ends.
Expire ==
    /\ session
    /\ session' = FALSE
    /\ UNCHANGED <<serverVars, cookie, tab>>

-----------------------------------------------------------------------------
Init ==
    /\ status = [w \in Mine |-> "STOPPED"]
    /\ reason = [w \in Mine |-> None]
    /\ release = [a \in Actors |-> NoRelease]
    /\ reclaimed = {}
    /\ session = FALSE /\ cookie = None
    /\ tab = [t \in Tabs |-> Page("login", None, None)]

Releases == \E a \in Actors : Mark(a) \/ WriteReason(a) \/ Commit(a) \/ Answer(a)
Server == \/ Reap \/ Releases
          \/ \E w \in Mine : Start(w) \/ Started(w)
Browser ==
    \/ Expire
    \/ \E t \in Tabs : \/ Login(t) \/ ToDashboard(t) \/ GatewayRoot(t) \/ Poll(t)
                       \/ Told(t) \/ PortalStop(t) \/ PortalLogout(t)
                       \/ \E w \in Mine : Open(t, w)

Next == Server \/ Browser

Spec == Init /\ [][Next]_vars

\* The widget's interval timer runs as long as its page is shown.
FairSpec == Spec /\ \A t \in Tabs : WF_vars(Poll(t))

-----------------------------------------------------------------------------
(* Properties *)

\* Who is told that a workspace was reclaimed as idle is told so of one that
\* the reaper had a hand in stopping since it last ran.
NoticeTrue ==
    [][\A t \in Tabs :
          (/\ tab'[t].notice = "idle"
           /\ tab[t].notice # "idle" \/ tab[t].ws # tab'[t].ws)
          => tab'[t].ws \in reclaimed]_vars

\* Nobody is left on a workspace that has stopped.
TabLeaves ==
    \A t \in Tabs, w \in Mine :
        (tab[t].at = "app" /\ tab[t].ws = w /\ status[w] # "RUNNING")
            ~> (tab[t].at # "app" \/ tab[t].ws # w \/ status[w] = "RUNNING")

\* "Stop this workspace" stops the one that the tab shows, or none.  Another
\* tab that has opened a workspace has changed the cookie: it does not hold.
StopsShown ==
    [][\A t \in Tabs :
          (/\ tab[t].at = "app" /\ tab'[t].at = "busy"
           /\ release'["request"].why = "manual")
          => {o.ws : o \in release'["request"].todo} \subseteq {tab[t].ws}]_vars

\* The widget leaves a workspace that is running alone.
PollKeepsLive ==
    [][\A t \in Tabs : (/\ Poll(t) /\ session /\ tab[t].at = "app"
                         /\ status[tab[t].ws] = "RUNNING")
                        => tab'[t].at = "app"]_vars

\* A tab that is taken off a workspace which the reaper stops says so.
IdleExplained ==
    [][\A t \in Tabs :
          (/\ tab[t].at = "app" /\ tab'[t].at = "dashboard"
           /\ Poll(t) \/ GatewayRoot(t)
           /\ tab[t].ws \in reclaimed /\ tab[t].ws = cookie)
          => tab'[t].notice = "idle"]_vars
=============================================================================
