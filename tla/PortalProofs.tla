------------------------------ MODULE PortalProofs ------------------------------
(***************************************************************************)
(* The portal, for any number of workspaces and tabs: what a user is told  *)
(* of an idle stop is true.                                                *)
(***************************************************************************)
EXTENDS Portal, TLAPS

\* The reason "idle" is the reaper's, and only a start that clears it makes one
\* forget that the reaper was there; a release under way has its workspace.
ReasonTrue ==
    /\ \A w \in Mine : reason[w] = "idle" => w \in reclaimed
    /\ \A a \in Actors : release[a].why = "idle" => a = "reaper"
    /\ \A a \in Actors : release[a].pc \in {"write", "commit"} => release[a].ws \in Mine

Inv == TypeOK /\ ReasonTrue

LEMMA InitInv == Init => Inv
<1> SUFFICES ASSUME Init PROVE Inv
  OBVIOUS
<1>1. NoRelease \in Release /\ \A t \in Tabs : Page("login", None, None) \in Pages
  BY DEF NoRelease, Release, Page, Pages
<1>2. TypeOK
  BY <1>1 DEF Init, TypeOK, Statuses
<1>3. ReasonTrue
  BY PortalAssumption DEF Init, ReasonTrue, NoRelease, Reasons
<1> QED BY <1>2, <1>3 DEF Inv

-----------------------------------------------------------------------------
(* Starts and releases *)

LEMMA StartInv ==
    ASSUME Inv, NEW w \in Mine, Start(w) \/ Started(w)
    PROVE  Inv'
<1>1. TypeOK'
  BY DEF Inv, Start, Started, TypeOK, Statuses, browserVars
<1>2. ReasonTrue'
  BY PortalAssumption DEF Inv, Start, Started, TypeOK, ReasonTrue, Reasons, browserVars
<1> QED BY <1>1, <1>2 DEF Inv

\* What a release that begins looks like.
LEMMA BeginType ==
    ASSUME Inv, NEW a \in Actors, NEW why \in Reasons, why = "idle" => a = "reaper",
           NEW ws \in SUBSET Mine, NEW t \in Tabs \cup {None}, Begin(a, why, ws, t)
    PROVE  /\ release' \in [Actors -> Release]
           /\ \A b \in Actors : release'[b].why = "idle" => b = "reaper"
           /\ \A b \in Actors : release'[b].pc \in {"write", "commit"} => release'[b].ws \in Mine
<1> DEFINE new == [NoRelease EXCEPT !.pc = "next", !.why = why, !.todo = Loaded(ws), !.tab = t]
<1>1. Loaded(ws) \subseteq Rows
  BY DEF Loaded, Rows, Inv, TypeOK
<1>2. new \in Release /\ new.why = why /\ new.pc = "next"
  BY <1>1 DEF NoRelease, Release
<1>3. release' = [release EXCEPT ![a] = new]
  BY DEF Begin
<1> HIDE DEF new
<1> QED BY <1>2, <1>3 DEF Inv, TypeOK, ReasonTrue

LEMMA ReapInv == Inv /\ Reap => Inv'
<1> SUFFICES ASSUME Inv, Reap PROVE Inv'
  OBVIOUS
<1>1. PICK w \in RunningOnes : Begin("reaper", "idle", {w}, None)
  BY DEF Reap
<1>2. /\ release' \in [Actors -> Release]
      /\ \A b \in Actors : release'[b].why = "idle" => b = "reaper"
      /\ \A b \in Actors : release'[b].pc \in {"write", "commit"} => release'[b].ws \in Mine
  BY <1>1, BeginType DEF Actors, Reasons, RunningOnes
<1> QED BY <1>2 DEF Inv, Reap, TypeOK, ReasonTrue, browserVars

LEMMA MarkInv == ASSUME Inv, NEW a \in Actors, Mark(a) PROVE Inv'
<1>1. PICK o \in release[a].todo :
        /\ status' = [status EXCEPT ![o.ws] = IF o.status \in {"STARTING", "RUNNING"}
                                              THEN "STOPPING" ELSE @]
        /\ release' = [release EXCEPT ![a].pc = "write", ![a].ws = o.ws,
                                     ![a].todo = @ \ {o}]
        /\ reclaimed' = ByReaper(a, o.ws)
  BY DEF Mark
<1>2. release[a] \in Release
  BY DEF Inv, TypeOK
<1>3. o.ws \in Mine
  BY <1>2 DEF Release, Rows
<1> DEFINE new == [release[a] EXCEPT !.pc = "write", !.ws = o.ws, !.todo = @ \ {o}]
<1>4. /\ new \in Release /\ new.why = release[a].why /\ new.ws \in Mine
  BY <1>2, <1>3 DEF Release
<1>5. release' = [release EXCEPT ![a] = new]
  BY <1>1, <1>2 DEF Inv, TypeOK
<1> HIDE DEF new
<1>6. status' \in [Mine -> Statuses]
  BY <1>1, <1>3 DEF Inv, TypeOK, Statuses
<1>7. reclaimed' \subseteq Mine /\ reclaimed \subseteq reclaimed'
  BY <1>1, <1>3 DEF ByReaper, Inv, TypeOK
<1>8. TypeOK'
  BY <1>4, <1>5, <1>6, <1>7 DEF Inv, Mark, TypeOK, browserVars
<1>9. ReasonTrue'
  BY <1>4, <1>5, <1>7 DEF Inv, Mark, TypeOK, ReasonTrue, browserVars
<1> QED BY <1>8, <1>9 DEF Inv

LEMMA WriteInv == ASSUME Inv, NEW a \in Actors, WriteReason(a) PROVE Inv'
<1>1. release[a] \in Release /\ release[a].ws \in Mine
  BY DEF Inv, TypeOK, ReasonTrue, WriteReason
<1> DEFINE new == [release[a] EXCEPT !.pc = "commit"]
<1>2. new \in Release /\ new.why = release[a].why /\ new.ws \in Mine
  BY <1>1 DEF Release
<1>3. release' = [release EXCEPT ![a] = new]
  BY DEF Inv, TypeOK, WriteReason
<1> HIDE DEF new
<1>4. /\ reclaimed' \subseteq Mine /\ reclaimed \subseteq reclaimed'
      /\ a = "reaper" => release[a].ws \in reclaimed'
  BY <1>1 DEF WriteReason, ByReaper, Inv, TypeOK
<1>5. release[a].why \in Reasons \cup {None}
  BY <1>1 DEF Release
<1>6. TypeOK'
  BY <1>1, <1>2, <1>3, <1>4, <1>5 DEF Inv, WriteReason, TypeOK, browserVars
<1>7. ReasonTrue'
  BY <1>1, <1>2, <1>3, <1>4 DEF Inv, WriteReason, TypeOK, ReasonTrue, browserVars
<1> QED BY <1>6, <1>7 DEF Inv

LEMMA CommitInv == ASSUME Inv, NEW a \in Actors, Commit(a) PROVE Inv'
<1>1. release[a] \in Release /\ release[a].ws \in Mine
  BY DEF Inv, TypeOK, ReasonTrue, Commit
<1> DEFINE new == [release[a] EXCEPT !.pc = "next", !.ws = None]
<1>2. new \in Release /\ new.why = release[a].why /\ new.pc = "next"
  BY <1>1 DEF Release
<1>3. release' = [release EXCEPT ![a] = new]
  BY DEF Inv, TypeOK, Commit
<1> HIDE DEF new
<1>4. reclaimed' \subseteq Mine /\ reclaimed \subseteq reclaimed'
  BY <1>1 DEF Commit, ByReaper, Inv, TypeOK
<1>5. TypeOK'
  BY <1>1, <1>2, <1>3, <1>4 DEF Inv, Commit, TypeOK, Statuses, browserVars
<1>6. ReasonTrue'
  BY <1>2, <1>3, <1>4 DEF Inv, Commit, TypeOK, ReasonTrue, browserVars
<1> QED BY <1>5, <1>6 DEF Inv

LEMMA AnswerInv == ASSUME Inv, NEW a \in Actors, Answer(a) PROVE Inv'
<1>1. NoRelease \in Release /\ NoRelease.why = None /\ NoRelease.pc = "none"
  BY DEF NoRelease, Release
<1>2. release' = [release EXCEPT ![a] = NoRelease] /\ UNCHANGED <<status, reason, reclaimed>>
  BY DEF Answer
<1>3. cookie' \in Mine \cup {None} /\ session' \in BOOLEAN
  BY DEF Answer, Inv, TypeOK, browserVars
<1>4. tab' \in [Tabs -> Pages]
  BY DEF Answer, Show, Page, Pages, Inv, TypeOK, browserVars
<1>5. TypeOK'
  BY <1>1, <1>2, <1>3, <1>4 DEF Inv, TypeOK
<1>6. ReasonTrue'
  BY <1>1, <1>2, PortalAssumption DEF Inv, TypeOK, ReasonTrue, Reasons
<1> QED BY <1>5, <1>6 DEF Inv

LEMMA ServerInv == Inv /\ Server => Inv'
BY StartInv, ReapInv, MarkInv, WriteInv, CommitInv, AnswerInv DEF Server, Releases

-----------------------------------------------------------------------------
(* The browser *)

\* What every page that can be shown next is like.
LEMMA PageType ==
    ASSUME NEW where \in {"login", "dashboard", "open", "app", "busy"},
           NEW w \in Mine \cup {None}, NEW notice \in {None, "idle"}
    PROVE  /\ Page(where, w, notice) \in Pages
           /\ Page(where, w, notice) = [at |-> where, ws |-> w, notice |-> notice]
BY DEF Page, Pages

\* Whoever is told of an idle stop is told of the reaper's.
LEMMA IdleIsReclaimed ==
    ASSUME Inv, IdleStopped(cookie)
    PROVE  cookie \in Mine /\ cookie \in reclaimed
BY DEF Inv, TypeOK, ReasonTrue, IdleStopped

\* What a step of the browser does to the tabs.
TabsStep ==
    /\ tab' \in [Tabs -> Pages]
    /\ cookie' \in Mine \cup {None}
    /\ \A t \in Tabs : (/\ tab'[t].notice = "idle"
                        /\ tab[t].notice # "idle" \/ tab[t].ws # tab'[t].ws)
                        => tab'[t].ws \in reclaimed

LEMMA ShowTabs ==
    ASSUME Inv, NEW t \in Tabs, NEW page \in Pages, Show(t, page),
           cookie' \in Mine \cup {None}, page.notice = "idle" => page.ws \in reclaimed
    PROVE  TabsStep
<1>1. tab \in [Tabs -> Pages]
  BY DEF Inv, TypeOK
<1>2. tab' \in [Tabs -> Pages] /\ tab'[t] = page /\ \A u \in Tabs \ {t} : tab'[u] = tab[u]
  BY <1>1 DEF Show
<1>3. ASSUME NEW u \in Tabs, tab'[u].notice = "idle",
             tab[u].notice # "idle" \/ tab[u].ws # tab'[u].ws
      PROVE  tab'[u].ws \in reclaimed
  <2>1. CASE u = t
    BY <1>2, <1>3, <2>1
  <2>2. CASE u # t
    BY <1>2, <1>3, <2>2
  <2> QED BY <2>1, <2>2
<1> QED BY <1>2, <1>3 DEF TabsStep

\* The pages without a notice, and the one with.
LEMMA NoticePages ==
    ASSUME Inv
    PROVE  /\ Page("login", None, None) \in Pages /\ Page("dashboard", None, None) \in Pages
           /\ Page("login", None, None).notice # "idle"
           /\ Page("dashboard", None, None).notice # "idle"
           /\ IdleStopped(cookie) => /\ Page("dashboard", cookie, "idle") \in Pages
                                     /\ Page("dashboard", cookie, "idle").ws \in reclaimed
<1>1. None # "idle"
  BY PortalAssumption DEF Reasons
<1>2. None \in Mine \cup {None} /\ None \in {None, "idle"}
  OBVIOUS
<1>3. /\ Page("login", None, None) \in Pages /\ Page("dashboard", None, None) \in Pages
      /\ Page("login", None, None).notice = None
      /\ Page("dashboard", None, None).notice = None
  BY <1>2, PageType DEF Page
<1>4. ASSUME IdleStopped(cookie)
      PROVE  /\ Page("dashboard", cookie, "idle") \in Pages
             /\ Page("dashboard", cookie, "idle").ws \in reclaimed
  BY <1>4, PageType, IdleIsReclaimed DEF Page
<1> QED BY <1>1, <1>3, <1>4

LEMMA ShownPage ==
    ASSUME Inv, NEW where \in {"open", "app"}, NEW w \in Mine
    PROVE  Page(where, w, None) \in Pages /\ Page(where, w, None).notice # "idle"
BY PageType, PortalAssumption DEF Reasons

LEMMA ExplainedTabs ==
    ASSUME Inv, NEW t \in Tabs, IdleStopped(cookie), Explained(t), cookie' \in Mine \cup {None}
    PROVE  TabsStep
BY ShowTabs, NoticePages DEF Explained

LEMMA PlainTabs ==
    ASSUME Inv, NEW t \in Tabs, Show(t, Page("login", None, None)) \/ Dashboard(t),
           cookie' \in Mine \cup {None}
    PROVE  TabsStep
BY ShowTabs, NoticePages DEF Dashboard

LEMMA SameTabs ==
    ASSUME Inv, UNCHANGED <<tab, cookie>>
    PROVE  TabsStep
BY DEF Inv, TypeOK, TabsStep

LEMMA NavigationTabs ==
    ASSUME Inv, NEW t \in Tabs, Login(t) \/ ToDashboard(t)
    PROVE  TabsStep
BY PlainTabs DEF Inv, TypeOK, Login, ToDashboard

LEMMA OpenTabs ==
    ASSUME Inv, NEW t \in Tabs, NEW w \in Mine, Open(t, w)
    PROVE  TabsStep
BY ShowTabs, ShownPage DEF Open

LEMMA RootTabs ==
    ASSUME Inv, NEW t \in Tabs, GatewayRoot(t)
    PROVE  TabsStep
<1>1. Selected \subseteq Mine
  BY DEF Selected, RunningOnes
<1>2. cookie' \in Mine \cup {None}
  BY DEF GatewayRoot, Inv, TypeOK
<1>3. CASE Show(t, Page("login", None, None)) \/ Dashboard(t)
  BY <1>2, <1>3, PlainTabs
<1>4. CASE IdleStopped(cookie) /\ Explained(t)
  BY <1>2, <1>4, ExplainedTabs
<1>5. CASE \E w \in Selected : Show(t, Page("app", w, None))
  BY <1>1, <1>2, <1>5, ShowTabs, ShownPage
<1> QED BY <1>3, <1>4, <1>5 DEF GatewayRoot

LEMMA PollTabs ==
    ASSUME Inv, NEW t \in Tabs, Poll(t)
    PROVE  TabsStep
<1>1. cookie' \in Mine \cup {None}
  BY DEF Poll, ToExplained, Inv, TypeOK
<1> QED BY <1>1, PlainTabs, ExplainedTabs, SameTabs DEF Poll, ToExplained

LEMMA ToldTabs ==
    ASSUME Inv, NEW t \in Tabs, Told(t)
    PROVE  TabsStep
<1>1. cookie \in Mine /\ cookie \in reclaimed
  BY IdleIsReclaimed DEF Told
<1> DEFINE page == [tab[t] EXCEPT !.notice = "idle", !.ws = cookie]
<1>2. page \in Pages /\ page.ws = cookie
  BY <1>1 DEF Inv, TypeOK, Pages
<1>3. tab' = [tab EXCEPT ![t] = page] /\ cookie' = cookie
  BY DEF Told, Inv, TypeOK
<1> HIDE DEF page
<1> QED BY <1>1, <1>2, <1>3 DEF Inv, TypeOK, TabsStep

\* A tab that stops or logs out keeps what it shows.
LEMMA BusyTabs ==
    ASSUME Inv, NEW t \in Tabs, PortalStop(t) \/ PortalLogout(t)
    PROVE  TabsStep
<1> DEFINE page == [tab[t] EXCEPT !.at = "busy"]
<1>1. page \in Pages /\ page.ws = tab[t].ws /\ page.notice = tab[t].notice
  BY DEF Inv, TypeOK, Pages
<1>2. tab' = [tab EXCEPT ![t] = page] /\ cookie' = cookie
  BY DEF PortalStop, PortalLogout, Inv, TypeOK
<1> HIDE DEF page
<1> QED BY <1>1, <1>2 DEF Inv, TypeOK, TabsStep

LEMMA ExpireTabs == Inv /\ Expire => TabsStep
BY DEF Inv, TypeOK, Expire, TabsStep

LEMMA BrowserTabs == Inv /\ Browser => TabsStep
BY NavigationTabs, OpenTabs, RootTabs, PollTabs, ToldTabs, BusyTabs, ExpireTabs DEF Browser

\* The releases a step of the browser may begin.
LEMMA StopBegins ==
    ASSUME Inv, NEW t \in Tabs, PortalStop(t)
    PROVE  /\ release' \in [Actors -> Release]
           /\ \A b \in Actors : release'[b].why = "idle" => b = "reaper"
           /\ \A b \in Actors : release'[b].pc \in {"write", "commit"} => release'[b].ws \in Mine
<1> DEFINE ws == {w \in {cookie} \cap Mine : status[w] # "STOPPED"}
<1>1. Begin("request", "manual", ws, t)
  BY DEF PortalStop
<1>2. ws \subseteq Mine
  OBVIOUS
<1> HIDE DEF ws
<1> QED BY <1>1, <1>2, BeginType DEF Actors, Reasons

LEMMA LogoutBegins ==
    ASSUME Inv, NEW t \in Tabs, PortalLogout(t)
    PROVE  /\ release' \in [Actors -> Release]
           /\ \A b \in Actors : release'[b].why = "idle" => b = "reaper"
           /\ \A b \in Actors : release'[b].pc \in {"write", "commit"} => release'[b].ws \in Mine
<1> DEFINE ws == IF session THEN ActiveOnes ELSE {}
<1>1. Begin("request", "logout", ws, t)
  BY DEF PortalLogout
<1>2. ws \subseteq Mine
  BY DEF ActiveOnes
<1> HIDE DEF ws
<1> QED BY <1>1, <1>2, BeginType DEF Actors, Reasons

LEMMA BrowserInv == Inv /\ Browser => Inv'
<1> SUFFICES ASSUME Inv, Browser PROVE Inv'
  OBVIOUS
<1>1. tab' \in [Tabs -> Pages] /\ cookie' \in Mine \cup {None}
  BY BrowserTabs DEF TabsStep
<1>2. /\ release' \in [Actors -> Release]
      /\ \A b \in Actors : release'[b].why = "idle" => b = "reaper"
      /\ \A b \in Actors : release'[b].pc \in {"write", "commit"} => release'[b].ws \in Mine
  <2>1. CASE \E t \in Tabs : PortalStop(t)
    BY <2>1, StopBegins
  <2>2. CASE \E t \in Tabs : PortalLogout(t)
    BY <2>2, LogoutBegins
  <2>3. CASE UNCHANGED release
    BY <2>3 DEF Inv, TypeOK, ReasonTrue
  <2> QED BY <2>1, <2>2, <2>3 DEF Browser, Expire, Login, ToDashboard, GatewayRoot, Poll, Told,
                                  Open, serverVars
<1>3. UNCHANGED <<status, reason, reclaimed>> /\ session' \in BOOLEAN
  BY DEF Browser, Expire, Login, ToDashboard, GatewayRoot, Poll, Told, Open, PortalStop,
         PortalLogout, serverVars, Inv, TypeOK
<1> QED BY <1>1, <1>2, <1>3 DEF Inv, TypeOK, ReasonTrue

LEMMA NextInv == Inv /\ [Next]_vars => Inv'
<1>1. Inv /\ UNCHANGED vars => Inv'
  BY DEF Inv, TypeOK, ReasonTrue, vars, serverVars, browserVars
<1> QED BY <1>1, ServerInv, BrowserInv DEF Next

-----------------------------------------------------------------------------
(* Theorems *)

\* The inductive invariant: types, and a stop reason "idle" is the reaper's.
THEOREM Invariance == Spec => []Inv
BY InitInv, NextInv, PTL DEF Spec

\* Statuses, reasons, releases and pages keep their types.
THEOREM TypeCorrect == Spec => []TypeOK
<1>1. Inv => TypeOK
  BY DEF Inv
<1> QED BY <1>1, Invariance, PTL

\* What a user is told of an idle stop is true: the reaper had a hand in it.
THEOREM ToldTruly == Spec => NoticeTrue
<1>1. Inv /\ [Next]_vars =>
        [\A t \in Tabs : (/\ tab'[t].notice = "idle"
                          /\ tab[t].notice # "idle" \/ tab[t].ws # tab'[t].ws)
                         => tab'[t].ws \in reclaimed]_vars
  <2> SUFFICES ASSUME Inv, Next, NEW t \in Tabs, tab'[t].notice = "idle",
                      tab[t].notice # "idle" \/ tab[t].ws # tab'[t].ws
               PROVE  tab'[t].ws \in reclaimed
    OBVIOUS
  <2>1. CASE Browser
    BY <2>1, BrowserTabs DEF TabsStep
  <2>2. CASE UNCHANGED tab
    BY <2>2
  <2>3. CASE \E a \in Actors : Answer(a)
    BY <2>3, PortalAssumption DEF Answer, Show, Page, Inv, TypeOK, Pages, Reasons, browserVars
  <2> QED BY <2>1, <2>2, <2>3 DEF Next, Server, Reap, Releases, Start, Started, Mark, WriteReason,
                                  Commit, browserVars
<1> QED BY <1>1, Invariance, PTL DEF Spec, NoticeTrue
=============================================================================
