# A TLA+ verification project for opencode-multiuser

opencode-multiuser is a FastAPI control plane (`app/`) that gives every user
OpenCode workspaces: one Podman container per active workspace, on one of
`MAX_SLOTS` slots, reached through a gateway on the loopback port of its slot.
State is kept in PostgreSQL (users, slots, workspaces), in the file system
(runtime secret, activity and stop-reason files), in Podman and in the user's
browser (session and workspace cookie); no transaction spans any two of them.
Most request handlers are plain functions that FastAPI runs on pool threads, so
they interleave at every database commit and at every podman command; the
gateway's handlers are coroutines and interleave at every `await`. That is what
these modules model.

## Inventory

| Component | State it keeps | Operations | Modelled in |
|---|---|---|---|
| Workspace lifecycle (`app/main.py`) | `workspaces` rows: status, `slot_id`, `container_name`, `created_at`; the handler's own ORM objects | start, stop, portal stop, delete, stop-all (logout, administrator stop and disable), `_release_workspace` | `Workspaces` |
| Slot pool (`app/main.py`, `app/models.py`) | `slots`: `in_use`, `workspace_id` | pick (`FOR UPDATE SKIP LOCKED`), lease, return | `Workspaces`, abstractly `SlotPool` |
| Container runtime (`app/runtime.py`) | containers by name `oc-<slot>-<id>`, host ports, secret files and passwords | `podman rm`, `run`, `inspect`, the readiness wait | `Workspaces`, passwords in `Gateway` |
| Reconciliation and housekeeping loop (`app/main.py`) | loaded rows | startup, `_reconcile_workspace_runtimes`, `_reap_idle_workspaces` | `Workspaces`, `Idle` |
| Idle timing (`app/runtime.py`, `app/main.py`) | activity files, the cutoff of a round | touch, read, compare | `Idle` |
| Gateway (`app/gateway.py`, `app/main.py`) | requests and relays under way | selection, runtime check, recycling, forward, relay | `Gateway` |
| Startup (`app/main.py`, `app/migrations.py`) | schema, unique rules, roles, slots, legacy duplicates | the steps of `lifespan()` | `Startup` |
| Portal and stop reasons (`app/portal.py`, `app/main.py`) | cookies, the pages of the tabs, stop-reason files | open, poll, stop, logout, redirects, explanations | `Portal` |
| Accounts (`app/main.py`, `app/security.py`, `app/oidc.py`) | `users`: role, `is_active`; table lock | register, OIDC provisioning, role / status / delete | `Accounts` |
| OpenCode image update (`app/opencode_update.py`) | `_STATE`, `settings.opencode_version`, the environment file, image tags | `start_update`, the background thread | `OpenCodeUpdate` |
| Authentication | signed cookies | | partly: `Accounts`, `Portal` |
| User interface, configuration and provider policy, scripts, unit files | text, files read once | | not modelled |

How they interact: a start leases a slot and commits, calls Podman with no
transaction open, and commits the outcome; a stop marks the row STOPPING and
commits, removes the container, and returns the slot in a second commit. The
housekeeping loop and the handlers of administrators and logout run the same
`_release_workspace` on rows they have loaded earlier, and so does the gateway
when it finds a runtime dead. The gateway trusts `slot_id` of a RUNNING row for
the port it forwards to and reads the password from a file that every start
overwrites; what it forwards touches the activity file that the reaper reads.
The stop-reason file a release leaves is what the portal, the gateway and the
WebSocket close tell the user later. The account handlers call into the
lifecycle (disable stops workspaces), and its commits end their transactions.
Startup runs migrations and the same reconciliation before anything is served.

What is hard, and therefore modelled: handlers that overlap on one project;
ORM objects that are stale (`expire_on_commit=False`) and are written attribute
by attribute; a crash or a 90 s timeout between two commits; podman commands
that fail, or whose effect happens although they are reported failed; host
reboots; a slot table that must agree with rows and with containers; a slot that
changes hands between a request's selection and its forward; a cutoff that is
older than the rows it is compared with; an upgrade that is cut short and
repeated; a cookie that several tabs share. The full list of hazards, with the
source line where each bites and the property that covers it, is `hazards` in
`PROJECT.json`.

What makes each component correct:

- *Slots and rows*: a slot is in use exactly when one active row holds it.
- *Runtimes*: what listens on the port of a RUNNING row is its own container;
  no operation removes another project's container; no container is left over.
- *Reconciliation*: releases stale leases, all of them at startup; a dead
  runtime does not keep its slot. That it releases none that is alive, or being
  started, is not so when requests overlap with it.
- *Idle reclamation*: a workspace that is not used is reclaimed, however releases,
  reconciliations and requests come in between.
- *Gateway*: a client is served by a runtime of its own user's project and of no
  other; the secret file opens every live runtime.
- *Startup*: ends with requests being served, whatever database it finds and
  however often it was interrupted; keeps what works; settles roles, and disturbs
  no slot that was in order.
- *Portal*: no page stays on a stopped workspace; nothing but an idle stop is
  explained as one. That "Stop" stops what is shown, and that every idle stop is
  explained, is not so.
- *Accounts*: there is always an enabled administrator; only the first account
  becomes one by itself; a workspace in use has an owner.
- *Update*: only a tested image is tagged `latest`; a reported success is one; a
  reported failure left everything as it was; every update ends.

## Modules

**`Workspaces`** - the core. Variables `project`, `status`, `slotId`, `ctrName`,
`last` are the columns of `workspaces` (`last[p]` stands for
`ORDER BY created_at DESC`), `inUse` and `leasedTo` those of `slots`; `podman`
maps container names to none / dead / running, `secrets` is the set of projects
with a runtime-secret file, `up` says that startup is over. `th[t]` is a thread:
where it is, for which handler, the project, the ORM object `obj` it has loaded,
the rows `todo` it loops over and the slot it picked. One action is one database
transaction or one podman command:

- `StartSelect`, `StartProbe`, `Pick` / `NoCapacity`, `Lease`, `Refresh`,
  `Prepare`, `Run` / `RunFails`, `Ready` / `NotReady`, `Commit`, `Confirm`, and
  the except branch `Except`, `Fail`, are `start()` with `start_workspace()` and
  `wait_workspace_ready()`;
- `Mark`, `Remove`, `Free` are `_release_workspace()`, for whatever caller;
  `AfterRelease` says where the caller goes on;
- `StopSelect`, `DeleteSelect`, `Purge` / `PurgeFails`, `Erase`, `StopAllSelect`
  are the other handlers; `Boot`, `Reconcile`, `ReapSelect` with `ReleaseNext`,
  `KeepNext`, `LoopEnd` are startup and the housekeeping loop;
- `RemoveTimesOut`, `LaunchTimesOut`, `InspectTimesOut` are the 90 s limit of
  `_run()`; `Crash`, `Reboot`, `ContainerExit` the environment.

A flush (`Write`) writes the attributes in which the object differs from what
was loaded, and is refused (`Rejected`) when the row is gone or the partial
unique index over active rows would be violated; the handler then ends with a
session it can no longer use.

The actions carry the guards of the code and no others: `Spec` has every overlap
of requests, housekeeping and startup. What the code does not see to and some
properties need is a *discipline*, a condition on behaviours stated apart from
the actions: `OrderlySpec` is `Init /\ [][Next /\ Orderly']_vars`. `Orderly` is
`Apart`, no two threads - requests or the keeper - have rows of one project in
hand at once, and `Settled`, no client stops a workspace in ERROR or starts one
left STOPPING. Main.py:267-273 ticks whatever requests do, so a result about
`OrderlySpec` is one about the behaviours in which no such meeting happens, and
nothing is claimed of the others.

**`SlotPool`** is what the slot table promises: a workspace takes a free slot
when it holds none, and returns the one it holds. `Workspaces!ImplementsPool`
instantiates it with `held` = the `slot_id` of active rows and `pool` = the slots
not in use.

**`Gateway`** composes the gateway with the lifecycle. It EXTENDS `Workspaces`
and adds `file` (the contents of the runtime-secret files), `pass` (the password
a launching thread has generated), `runs` (what each container was given) and
`call` (the clients' requests). `Contents` says what a step of the lifecycle
does to files, passwords and containers. `HttpRequest` and `WebSocket` select a
row and keep the ORM object; `Check` / `Recycle` are the look at the runtime
that only HTTP requests take (`gateway_http`); `Again` is the second selection
of `proxy_http`; `ReadSecret`, `Forward` / `Refused` and `RelayEnds` follow.
Between selection and forward the row may change and the slot may change hands;
`Forward` therefore looks at whoever listens on the port by then. `Recycle`
hands the client's thread over to `Mark`, `Remove`, `Free` of the lifecycle, with
the row as the connection loaded it; the code does not look whether it still is
so, and neither does the action. `GatewayOrderlySpec` is the discipline of
`Workspaces` and the condition that it is.

**`Idle`** composes the lifecycle with time: `age[p]` is the age of a project's
activity file, `round` the time since the reaper took its cutoff. `Work` is a
step of a lifecycle thread, in which the reaper's choice is no longer free
(`ReapDecision`), and which touches the file where the code does (`Touched`);
`Traffic` is what the gateway forwards, `Tick` the clock.

**`Startup`** is `lifespan()`, a step or a loop iteration per action, from the
database of this version, of one before it, or from none: `DropRule`,
`MigrateUsers`, `CreateTables`, `SeedSlots`, the reconciliation
(`ReconcileNext`), the collapse of duplicates (`DedupeNext`), both with the
release `Mark`, `Remove`, `Free`, and `EnsureIndex`. `legacyRule` and
`activeIndex` are the unique rules of the old and of this version; a write or an
index they refuse ends the process (`Raise`), and systemd starts it again
(`Boot`). The database it finds (`Found`) is what crashes and races may have
left: a slot in use for nobody, held by two rows, free and held, a row without
its slot; `wrong` remembers the slots that were out of order. It is a module of
its own because `Workspaces` begins with a database that has no duplicates.

**`Portal`** is a user's browser against the releases of its workspaces: the
session, the workspace cookie, the page of each tab, the stop-reason files and
the two commits of a release between which the reason is written. `Poll` is the
widget's timer, `ToExplained` the dashboard it goes to after an idle stop, which
deletes the cookie; `Told`, `Explained` are what a request, a WebSocket or a
redirect says of an idle stop. `reclaimed` is a history variable: the workspaces
the reaper has had a hand in stopping since they last started.

**`Accounts`** - registration, OIDC provisioning and the administrator handlers,
with PostgreSQL's table lock as a variable that `Unlock` gives up at the end of
the transaction *or at the first commit inside* `_stop_user_workspaces`. Its
workspaces are two flags per user; the lifecycle itself is `Workspaces`.

**`OpenCodeUpdate`** - the update thread, one action per critical section or
podman command, over the state of the update, the image tags and the two places
the version is recorded in. The claim of an update (`StartUpdate`) and the start
of its thread (`ThreadStarts` / `ThreadFails`) are apart, and so are emptying the
environment file and writing it (`TruncateFile`, `WriteFile`): a restart in
between finds no version and takes the default one.

`MCWorkspaces`, `MCGateway`, `MCIdle`, `MCAccounts` and `MCOpenCodeUpdate` name
small instances and their symmetry sets; `Startup` and `Portal` need no such
names and are run as they are. `WorkspacesProofs`, `GatewayProofs`,
`AccountsProofs`, `StartupProofs`, `PortalProofs`, `OpenCodeUpdateProofs` and
`SlotPoolProofs` hold the theorems.

Operators marked *Mutant* in the modules are plausible bugs, one for every
property of every passing run; substituted for the definition they stand beside,
they make that run report a violation of that property.

## Runs

Passing runs:

| Run | Shows | Instance |
|---|---|---|
| `Leases` | `LeaseExact`, `RoutesToOwnRuntime`, `RuntimeIsolation`, the refinement `ImplementsPool`, `LeaseKept`, `BootLeavesRunning` through exits, failing and hanging podman commands, failing deletions, crashes, reboots | `OrderlySpec`: 3 projects on 1 slot, 3 ids, 2 request threads and the keeper, all handlers |
| `Gateway` | `ServedByOwn`, `SecretOpensRuntime`, `PortOfLeasedSlot`, `LeaseExact`, `RoutesToOwnRuntime` through failing runs, unready runtimes, exits and reboots | `GatewayOrderlySpec`: two users with a project each, 2 slots, one request thread, one client, four passwords |
| `Idle` | `IdleReclaimed`, `RequestsFinish`, `DeadRuntimeReleased` | one project, one request thread and the keeper, overlapping freely; a timeout of one tick and rounds of up to one tick; weak fairness |
| `Startup` | `StartupEnds`, `NeverRefused`, `SparesWorking`, `SlotsAgree`, `RolesSettled` | every database of three rows and two accounts with at most one row or slot out of order, `MAX_SLOTS` = 2, killed once at any step |
| `Portal` | `NoticeTrue`, `TabLeaves` | two workspaces, one tab, the reaper and a request |
| `Accounts` | `OwnerRemains`, `BootstrapOnce`, `OnlyUnlockedDisableEndsAdmins` | two local accounts of which one runs workspaces, one OIDC identity, two threads, crashes |
| `Update` | `LatestIsTested`, `SuccessAgrees`, `PartOnlyActivating`, `UpdateEnds` | three versions (one with build metadata), two background threads, every step failing, threads that do not start, hanging builds, images that report another version, restarts |

Runs with an expected violation, each a disagreement of the code with its own
documentation or comments (`findings` in `PROJECT.json`):

| Run | Property | What happens |
|---|---|---|
| `DoubleStart` | `OneRuntimePerWorkspace` | a second start while the first waits for readiness recycles a row that names no container yet; two containers of one workspace run |
| `RacingStops` | `ReleaseReturnsOwnSlot` | a stale `slot_id` or slot object frees the slot another workspace has leased meanwhile |
| `CrashedStart` | `NoStrayRuntime` | a crash after `podman run` and before the commit leaves a container no reconciliation finds |
| `DisabledBusy` | `AdminRemains` | the table lock ends inside `_stop_user_workspaces`; two administrators disable each other |
| `StuckRemoval` | `AbandonedReclaimed` | a container whose removal keeps exceeding 90 s ends every round in the reconciliation; the reaper behind it in the same `try` is never reached, and another workspace is idle for ever |

Further configurations are kept to be run by hand. Those that find no error:
`Ports` (`PortOfLeasedSlot` with two request threads, the keeper and all
handlers, stop-all included), `Overlapping` (`RuntimeIsolation`, `LeaseKept` with requests
overlapping freely on one slot for two projects). Those that show a weakness,
each by violating the one property it checks, under `Spec` but for
`StopAfterError` and `StartAfterTimeout` (`ApartSpec`, without `Settled`) and
`LaunchTimeout` (`OrderlySpec`: no overlap is needed; nor is one for
`CrashedStart` above). Of a behaviour under a discipline TLC names the steps
only as `OrderlyNext`:

| Configuration | Module | What it shows |
|---|---|---|
| `StopAfterError` | `MCWorkspaces` | a failed start keeps `slot_id`, a later stop returns the slot again |
| `StartAfterTimeout` | `MCWorkspaces` | a slot lost when a start meets a row left STOPPING by a timed-out `rm` |
| `LaunchTimeout` | `MCWorkspaces` | a stray container after a timed-out `run` |
| `ReconcileInFlight` | `MCWorkspaces` | the housekeeping loop releases a start in flight |
| `DeleteInFlight` | `MCWorkspaces` | a delete during a start leaves the container |
| `GatewayRecycles` | `MCGateway` | a request that found a runtime dead recycles a restarted one |
| `RestartReaped` | `MCIdle` | the reaper's stale row stops a workspace that is being started anew |
| `TwoTabs` | `Portal` | a tab's stop button stops the workspace another tab has opened since |
| `NoCookie` | `Portal` | a tab is sent away from a running workspace by its poll when the cookie is gone |
| `Unexplained` | `Portal` | a tab is sent to the dashboard without the explanation that README.md:544 promises, because the poll falls between the two commits of the release |
| `DisabledStarts` | `MCAccounts` | a start that races the disabling of its user |
| `UpdatePersistFails` | `MCOpenCodeUpdate` | a failure after the tag is reported as "previous image unchanged" |
| `UpdateHangs` | `MCOpenCodeUpdate` | a silent build blocks every later update |
| `UpdateMetadata` | `MCOpenCodeUpdate` | a version with build metadata never passes its own smoke test |

### Bounds and switches

Every bound is a constant. `Ids` bounds the rows that exist at once: an id is
used again only when nothing refers to it (`Fresh`), so runs of any length fit
in as many as there are projects; `Keys` in the same way bounds the passwords
held at once. `Leases` has one slot, so that every lease follows another
project's release of the same slot, with a third project finding no capacity;
`Gateway` checks the slot table on two slots, with fewer faults.
Two request threads and the keeper are the three-way races the handlers can
have; a race of four handlers is not explored by TLC, but every safety property
of `Leases` and `Gateway` is proved for any number of threads.

In `Gateway` the client is one of the request threads, because a request that
recycles a runtime runs a release; one other thread and container exits are
enough for the slot to change hands during its request. `Idle` tells ages apart
up to `Timeout + MaxRound`, beyond which the reaper's decision cannot change;
one tick each suffices for a use before and after the cutoff. `Idle` has one
project, so that the state graph stays small enough for liveness; that rounds
with several rows may starve is what `StuckRemoval` shows with two. `Startup`
ranges over all databases that the earlier code could leave; three rows allow
two duplicates of one project beside another one, and row 3 is on a slot beyond
the lowered `MAX_SLOTS`. `MaxWrong` = 1 allows one slot and one row out of order
- a leaked slot, or two rows on one - and `MaxCrashes` = 1 one kill at any step;
the theorems have no such bounds. `Portal` has one tab: with another one, which
changes the cookie, `TabLeaves` would not hold either, a page follows the
workspace of the cookie.

`Handlers`, `Faults` and `IdleTimeout` select what an instance of `Workspaces`
contains; which behaviours are looked at is the specification a configuration
names. The discipline `Apart` is what `LeaseExact`, `RoutesToOwnRuntime`,
`ImplementsPool` and `BootLeavesRunning` need, and `SecretOpensRuntime` in
`Gateway`; without it the code violates them (`DoubleStart`, `RacingStops`,
`ReconcileInFlight`, `GatewayRecycles` show how). `Settled` leaves out what breaks
the same properties without any overlap (`StopAfterError`, `StartAfterTimeout`).
`RuntimeIsolation`, `LeaseKept` and `ServedByOwn` need no discipline, which is
proved; `Idle` and `StuckRemoval` have none. `PortOfLeasedSlot` is checked
without crashes, failing `rm` and timeouts for the reason `CrashedStart` and
`LaunchTimeout` show. `Working` is the set of users with workspaces:
`AdminRemains` holds when it is empty, which is proved, and is violated
otherwise (`DisabledBusy`); `OnlyUnlockedDisableEndsAdmins` holds either way.

Symmetry (requests, ids, projects, accounts, threads, passwords) is used for
safety only; the runs with liveness properties have none. Deadlock is checked
except where the system may really have nothing left to do in a bounded
instance: `Startup` ends with requests being served, and in `DoubleStart` and
other overlapping instances the containers that overlapping or deleted starts
left behind refer to every id, so no row can be created and, without an idle
timeout, nothing else runs.

### Fairness

`IdleFairSpec` (and `Workspaces!FairSpec`) assume weak fairness of each thread's
step and of the keeper's rounds. The code justifies it: a thread never waits for
another one - a slot locked by another transaction is skipped - and every podman
command and the readiness wait have timeouts; the housekeeping loop sleeps and
comes round, also after an exception. A request is never assumed to arrive,
nobody has to use a workspace, and the clock may stand still.
`DeadRuntimeReleased` therefore rests on the housekeeping loop alone, and on
`IdleTimeout`: with a timeout of 0 the program has no loop, and a dead runtime
keeps its slot until somebody acts or the process restarts. `Idle` excludes the
90 s timeouts, because with them `IdleReclaimed` fails (`StuckRemoval`, which
even assumes that no request ever interferes again).

`Startup!FairSpec` assumes that the process goes on and is started again after a
failure: `Restart=on-failure` in the unit. `Portal!FairSpec` assumes that the
interval timer of each page fires; it says nothing about the server. In
`OpenCodeUpdate` the request goes on until its thread is started, and the thread
is scheduled until it ends; a thread that could not be started, and a build that
hangs silently, whose output is read to the end before the time limit is looked
at, have no successor, and `UpdateEnds` excepts them.

## Proofs

Checked by TLAPS for every value of the constants - any number of projects,
ids, slots, accounts, tabs, connections and threads, every combination of
faults, every legacy database. Where a theorem is about `Spec`, `GatewaySpec` or
`FairSpec`, operations overlap freely and everything may fail; otherwise one of
two restrictions is part of its statement:

- `OrderlySpec`, `GatewayOrderlySpec`: the discipline described above, the same
  that the runs `Leases` and `Gateway` are under. `DoubleStart`, `RacingStops`,
  `ReconcileInFlight`, `StopAfterError` and `StartAfterTimeout` violate the
  properties, or what they rest on, without it. Crashes, reboots, failing and
  hanging commands stay in.
- `Tidy`: `rm` does not fail, no podman command exceeds its 90 s, the process is
  not killed. Runtimes may still exit, fail to start or not become ready, and the
  host may restart. `CrashedStart` and `LaunchTimeout` show why it is needed.

In all behaviours:

- `WorkspacesProofs!TypeCorrect` and `!Isolation`: `Spec => []TypeOK` and
  `Spec => RuntimeIsolation`, with overlapping operations and all faults. From
  the type alone neither follows. The inductive invariant `Inv` adds: a row has
  a project and its `container_name` names a container of that row (`RowOK`);
  the object of a thread at work names a container of its own row, its row still
  belongs to the thread's project or is gone, and a launch holds a slot
  (`ThreadOK`); an id not yet inserted is known to one thread alone (`NewIdOK`).
  The last one is what makes the others inductive: an INSERT changes the project
  of an id, and must not do so under another thread that works with the id. Most
  actions are shown to preserve `Inv` through three lemmas about the shape of
  their step (`MoveStep`, `IdleStep`, `SelectStep`); `Lease` and `Erase`, which
  create and delete rows, have proofs of their own. `Isolation` then looks at
  the six actions that remove containers.
- `WorkspacesProofs!LeasesKept`: `Spec => LeaseKept`. However starts, releases and
  failures overlap on one project, a slot in use stays with its workspace until
  it is returned. The invariant is the row lock's: a slot that a thread has
  selected is not in use, and no other thread has selected it, until it is leased
  (`LockInv`); the stale releases of `RacingStops` return slots too early, but
  can give none away directly.
- `GatewayProofs!OwnRuntimeServes`: `GatewaySpec => []ServedByOwn`, also when
  operations overlap. The heart of `GatewayInv` is `Agree`: wherever a password
  is held - in a secret file, by a launching thread, by a container, by a
  request on its way - it belongs to one project. It rests on the invariant of
  `Workspaces` (a launching thread keeps its project) and in turn has to keep
  it: a request that recycles a runtime enters the lifecycle with a row it
  loaded long ago, so no thread may insert an id that a connection knows
  (`KnownOK`; uuids are not issued twice). The port plays no part in the proof:
  it is the password alone that keeps users apart once a slot changes hands.
- `StartupProofs`: `Unrefused`, `WorkingSpared`, `SlotsSettled`,
  `RolesAreSettled`. The invariant says that the old rule is gone
  before anything is released (`RuleDropped`), that active twins exist only while
  the index does not (`IndexHolds`), which rows the two loops have passed and
  what they left of them (`Passed`, `Newest`), and that a slot found in order is
  in use exactly for an active row or the one being released (`Accounted`):
  releases of rows whose slots were out of order, freed by `slot_id` whoever else
  held them, do not reach it. It must hold in every state a kill can leave, since
  startup begins anew from it.
- `PortalProofs`: `ToldTruly` for any number of tabs, from the invariant that a
  reason "idle" in a file, or about to be written, is of a workspace the reaper
  has a hand in (`ReasonTrue`).
- `OpenCodeUpdateProofs`: `TestedOnly`, `SuccessMeans`, `PartOnly`. At most one
  thread is past `start_update` and the state shows it (`OneAtWork`); what that
  thread has established at each step (`Achieved`) then cannot be undone by
  another one.
- `AccountsProofs!Bootstrap`, `!OwnersRemain`, `!AdminsEnd`, `!AdminsRemain`: the
  invariant says that a thread in its critical section holds the table lock and
  that what it computed from the table (`grant`, the guard `Forbidden`) still
  holds. `AdminsEnd` shows that the only step that loses the last administrator
  is a disable whose lock is gone. `Bootstrap` assumes that the configured
  default role of OIDC accounts is not `admin`; `AdminsRemain` assumes
  `Working = {}`.
- `SlotPoolProofs!Conservation`: what implements the pool loses no slot and
  leases none twice.

In orderly behaviours, from three invariants, each inductive on top of those
before it (`WorkspacesProofs`, second half):

- `LInv`, what the one thread at work on a project knows. No two threads have
  rows of one project in hand (`Apart`); a project has one row; the object in
  hand is the row as it is in the database, with a status that fits the place of
  the thread (`Task`), and so are the rows still to come in a loop (`TodoOK`); a
  slot about to be leased is locked and free; a row names no container before its
  runtime is ready, then the one of its slot (`RowLease`). Together with
  `LeaseExact` itself this is inductive, since no flush is refused and every
  release returns the slot that its row really holds. `LeasesAgree` is
  `OrderlySpec => []LeaseExact`; `PoolImplemented` is the refinement, a lease
  being `Take`, the commit of a release or of a failed start `Return`, all other
  steps a stutter.
- `HInv`, the host. A port has one listener (`OnePort`), and on the port of a
  RUNNING row's slot it is its own container (`PortsOK`); the secrets of running
  and launching workspaces exist (`SecretOK`); what startup has been through is
  RUNNING or no longer active (`BootLeft`). `OwnRuntimeListens` and
  `BootComplete` follow.
- `PInv`, in a tidy system: a running container belongs to an active row that
  leases its slot, and is recorded there or about to be. `PortsOfLeases` follows.
- `GatewayProofs`, second half. A recycle enters a release from outside the
  lifecycle, so the invariants are shown to survive it when the row is as the
  connection loaded it (`ClientOK`); that it is, is part of `GatewayOrderly` and
  nothing the code ensures. `GatewayLeasesAgree` and `GatewayPorts` follow.
  `SecretInv` adds that the password a launch holds is the one in the file and
  that the container it starts keeps it until the next launch of the project;
  `SecretOpens` is `GatewayOrderlySpec => []SecretOpensRuntime`.

`LInv`, `HInv`, `PInv`, `ClientOK` and `SecretInv` were first checked by TLC on the
instances of `Leases`, `Ports` and `Gateway`.

Only model-checked: the liveness properties `IdleReclaimed`, `RequestsFinish`,
`DeadRuntimeReleased`, `StartupEnds`, `TabLeaves` and `UpdateEnds`, since they
need fairness and ENABLED, which the prover does not handle. Every invariant and
every other action property of the passing runs is proved.

Assumptions: `ConstantsAssumption`, `GatewayAssumption`, `IdleAssumption`,
`StartupAssumption`, `PortalAssumption`, `AccountsAssumption` and
`UpdateAssumption`, evaluated by TLC in every run of their modules. Taken from
the environment: PostgreSQL's row and table locks, constraints and transactional
DDL, SQLAlchemy's flush, podman's exclusive names and host ports, OpenCode's
check of its password, uuids and generated passwords that do not repeat, and
asyncio's rule that a coroutine runs until it awaits.

## Not modelled

- Text and layout of the pages (`app/ui.py`), header rewriting, cookie filtering
  and the injection of the widget into responses: functions of one message,
  without state.
- Configuration, the provider policy file and container arguments: read once, or
  written for readers outside the program.
- Tokens, password hashes and the OIDC exchange: signed values checked by
  libraries; what the program decides from them is in `Accounts` and `Portal`.
- `scripts/` and most unit files: run by hand or by systemd.
- The SQLite path of the migrations and of the locks; OIDC columns.
- `last_login_at`, profile fields, the log of an update, the registry query.
- The database connection a WebSocket holds for its whole life (main.py:988) and
  the size of the connection pool.
- A race of two PostgreSQL transactions on one `workspaces` row is resolved as
  last writer wins on the attributes written. File-system errors are modelled
  where a deletion meets them (`PurgeFails`); in a launch they would take the
  path of `LaunchTimesOut`, in a release that of `RemoveTimesOut`.

## Plan

1. The hazards without a property of a run, each with a configuration that shows
   it: a start that overwrites the slot of a row left STOPPING, a start that races
   the disabling of its user, reconciliation and reaper against starts in flight,
   a recycle against a restart, the cookie that tabs share. What the code still
   guarantees in each case, as `LeaseKept` does of racing leases, is the next
   thing to state.
2. A discipline weaker than `Orderly` for some of the theorems: which handlers may
   overlap on one project without breaking `RoutesToOwnRuntime` or
   `SecretOpensRuntime`, found with TLC before it is proved.
3. Lemmas shared by the proofs that still take a step of the lifecycle apart by
   its actions, so that a change of one action is felt in one place.

The passing runs are kept to one per question: a new module's run replaces or
merges one that is subsumed.
