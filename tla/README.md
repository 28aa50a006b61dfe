# VoltPanel: TLA+ models, model checks and proofs

VoltPanel (`src/`) is a daemon that manages processes, packages, extensions,
local domains, deployments and servers for a developer's machine. It is one Go
binary: an HTTP API on 127.0.0.1, a SQLite database, and a set of components
that start goroutines and operating-system processes. This directory holds TLA+
modules of it, TLC configurations, and TLAPS proofs. Every definition that models
code is listed in `PROJECT.json` ("map") with the lines it stands for.

Contents:

1. Inventory of the system
2. Modules, and how they correspond to the code
3. Runs: questions, bounds, results
4. Fairness
5. Proofs
6. Disagreements between code and documentation
7. What is not modelled
8. Plan

---

## 1. Inventory

`cmd/voltpanel` opens the database, builds the server (`server.New`), runs the
autostart pass and serves. Requests run in one goroutine each; `internal/api/v1`
handlers call the domain packages directly. There is no global lock: each
component protects its own maps with a mutex and talks to SQLite through single
statements. Components meet in three places: the rows of the database, the
`providers.Registry` (name to provider), and goroutines one component leaves
running after its API call has returned.

| Component | State it keeps | Operations | What is hard | What makes it correct |
|---|---|---|---|---|
| Service Manager (`domain/service/manager.go`) | `m.procs` (ID to `runningProc`), rows of `services`, one `awaitExit` goroutine per process | Start, Stop, Restart, Get, exit handling with restart policy and budget | look-up, spawn and insertion are separate critical sections; exits race with Stop and with the grace timer; rows are written outside the lock | Stop wins over the policy; Stop that returned nil is complete; the table and the rows never show a dead process as supervised; everyone returns |
| Restart budget (same file) | `restartTimes`, handed from process to process | append, prune, compare, restart | off-by-one at the budget and at the edge of the window; the clock is read twice; a restart that fails | no window holds more restarts than allowed; no give-up without cause |
| Autostart (`topo.go`, `StartAutostart`) | in-degrees, queue, order | sort, start loop, health delay | duplicate, absent and self dependencies; services that exit while the pass runs | dependencies first; cycle reported exactly when there is one and nothing started; the pass ends |
| Package jobs (`pkgmanager/brew`, `domain/job`) | `active`, `targets`, rows of `jobs`, one completion goroutine per job | install, upgrade, uninstall, Cancel, ReconcileStale | gap between the look at `targets` and its insertion; failing writes; cancel against exit; daemon death | settled rows are final and true; running rows have an owner; keys are freed; cancelled jobs are settled |
| Plugin host (`pluginhost`) | `closed`, `e.mu`, scanner and its reader goroutine, subprocess | LoadExtension, call, Close | untrusted subprocess; timeouts leave a reader behind; Close against call | one reader; calls return |
| Extensions (`domain/extension`, `providers/registry.go`) | rows, `r.loaded`, `r.mu`, Registry | Install, Enable, Disable, Remove, LoadEnabled, CloseAll | `r.mu` held across Close; failing start or statement between two steps; overlapping requests; daemon death | no leaked subprocess; loaded = registered; removed = stopped; no deadlock |
| Daemon and CLI (`cmd/voltpanel`, `server/server.go`) | `daemon.pid`, `config.json`, listener, `s.http` | start, stop, restart, Run, Shutdown, Close | signal before Run; main returning before Close; torn files; writes whose failure is ignored | a serving daemon can be found and stopped; shutdown is complete |
| Projects, domains, proxy, hosts file (`api/v1/projects.go`, `domains.go`, `services.go`, `hosts`, `proxy`) | rows, hosts file, route map, the projects' services | create, start, stop, delete, bind; start, stop, restart of the service | four stores, no transaction; exits and edits in between; a file rewritten in place; names compared in three ways | a line in the hosts file has a domain; foreign lines stay; a route is where the rows and services say |
| Local CA (`ssl/localca`) | key, certificate and meta files, trust store, rows | ensure, issue, renew, revoke, trust | death or full disk between two files | one root; revoked means no key; a row has its files |
| Deployments (`domain/deployment`) | rows, targets, remote checkout | deploy, roll back | commands that outlive their request; failing updates | a success tells the commit; the rollback references form a chain |
| Pipelines (`pipeline`) | pipelines, rows of runs | create, run, webhook | a step is a deployment with its own row | a successful run has only successful deployments |
| Secrets (`security/secrets.go`) and owners | key file, keychain, rows of secrets and owners | put, get, delete; create, use and delete an owner | secret and owner in several statements; the key file | a row that refers to a secret has it and can read it; no secret without owner |
| Database admin (`dbadmin`) | pool table | six operations, Evict, CloseAll | look and store in two critical sections; Evict in between | a pool of the table is open; none without connection |
| Runtime versions (`domain/runtime`, `runtime/node`) | directories, default file, rows | detect, install, remove, set default | staging and renaming; a version that vanishes and returns; a version spelled with a v | rows tell the disk; one default; no half-installed version |
| WebSocket hub (`ws`) | clients, queue, mutex | Emit, Run, join, leave | full queue; a peer that does not read | each client gets a run of the messages without a gap |
| Storage, files API, sessions, SSH, Docker, GitHub, detection, platform, metrics, UI | | | | see section 7 |

`PROJECT.json` lists every component with its sources and status, and the
hazards with the line at which each bites and the properties that cover it.

---

## 2. Modules

In all modules an action is one critical section, one system call, one database
statement or one remote command, that is: it ends where the code can be
interleaved. A handler that consists of several such steps is a small program
with a `pc` and copies of its local variables (`req`, `loc`, `rtLoc`, `job`); what
the code reads before such a point and uses after it is therefore a stale copy in
the model too.

Several modules have a constant with sets of *faults* (`FaultSets`,
`RtFaultSets`, `BootFaultSets`). The faults of a behaviour are chosen in its
first state and never change. A property names the faults under which the code
keeps it; the run contains behaviours with other faults as well, so that every
step is reached and the properties that need nothing are checked under all of
them.

### ServiceManager

One daemon lifetime of `service.Manager`. `Client` are API goroutines, `Proc`
are `runningProc`s together with the process and the `awaitExit` goroutine each
one owns.

| State | Code |
|---|---|
| `procs` | `m.procs` |
| `rec` | status and pid columns of the `services` row |
| `svcOf`, `stopRequested`, `restarts`, `done` | fields of `runningProc` (`restarts` is `len(restartTimes)`) |
| `life`, `crashed`, `killed` | the process as the kernel sees it; *reaped* means `cmd.Wait` has returned, after which signals fail |
| `pc`, `op`, `arg`, `held`, `new`, `times`, `res` | program counters and locals of the goroutines |

| Actions | Code |
|---|---|
| `Spawn`, `SpawnFails`, `Install`, `PersistRunning` | `startProcess`, called by a client or by `awaitExit` |
| `Wait`, `AwaitLock`, `AwaitPersist`, `AwaitClose` | `awaitExit`; `AwaitLock` is the critical section and the decision made from it |
| `Start`, `Stop`/`StopLookup`, `Restart`, `RestartStop` | the API calls up to their first unlock |
| `Terminate`, `StopSeesDone`, `StopTimeout`, `Kill`, `StopDrained` | the rest of `Stop` |
| `Exit` | the operating system |

The clock is abstracted: after an exit any number of earlier restart times may
have left the window (`Pruned`). `TermKills` distinguishes `signal_windows.go`
from `signal_unix.go`; `StoreMayFail` lets `UpsertServiceRecord` fail. Log
pumping is left out.

### RestartBudget

The budget with the clock: `now`, the list `restartTimes` of the running
process, and two histories since the last fresh start that the properties speak
about: the exits, and for each exit that was answered by a restart the instant at
which that was decided. `awaitExit` reads the clock when it appends the exit
(`manager.go:153`) and `pruneRestartWindow` reads it again (`manager.go:205`):
`Exit(d, lag)` has both instants, `lag` apart. A restart may fail (`RestartFails`),
which marks the service failed with the budget unspent. Two exits of one service are
two spawns apart, so a list of times is a set. The service here is the abstraction
of ServiceManager to one service whose policy asks for a restart.

### TopoSort and Autostart

`TopoSort` is Kahn's algorithm as `topoSortNodes` writes it, one action per turn
of the loop, over lists in which a name may occur twice, be absent or be the
service itself. `Listed` is the order of the input, in which the code seeds the queue
and goes through `dependents`. `Autostart` EXTENDS it with the loop of `StartAutostart`: cycle,
cancelled context, already running, start or failure, health delay. The exits
and restarts that `awaitExit` handles meanwhile appear as `Down` and `Up`. The
reference definition of a cycle (`Knot`: a set of services each depending on a
member) is independent of the algorithm.

### RowLifecycle: the abstract specification

What a table of work promises its readers: a row appears as *running*, is settled
at most once with a terminal status, and that status never changes. `Settle` may
settle several rows in one step, which is what a reconciliation does. Three
detailed modules are shown to implement it: `JobRunner` (statuses success,
failed, cancelled), `Deployments` and `Pipelines`, each with
`INSTANCE RowLifecycle WITH` its IDs and the status column as `status`. The
mapping is not the identity of the state: all the goroutines, processes, remote
checkouts and tables of the detailed modules are hidden, and their steps must be
stutters of the abstract specification unless they begin or settle a row.

### JobRunner

`runJob`, `finish` and `Cancel` of the brew provider, the rows of `jobs`, and
the daemon's death (`Crash`) and `ReconcileStale` at the next boot (`Boot`).
`proc`, `outcome` and `pipes` are the brew process; `pipes` stays TRUE while a
descendant holds its output, which keeps `cmd.Wait` from returning. Faults:
`write` (UPDATE fails), `log` (the log file cannot be opened), `crash`.

### PluginHost and Extensions

`PluginHost` models one `ExternalProvider` per `Instance`: `closed`, the holder
of `e.mu`, the number of goroutines inside `scanner.Scan` and the subprocess.
What the subprocess writes is not data of the model: a wait ends with the line
that was expected (`Accept`), with anything else (`Reject`: end of file, an
oversized or malformed line, another version, another ID) or with `Timeout`,
which leaves its reader behind (`StrayRead`).

`Extensions` EXTENDS it with `extension.Repository` and the Registry. `r.mu` is
atomic with the action except in `Evict` .. `Evicted`, where the code holds it
across `Close`; only there it is a variable (`repoMu`). Any number of goroutines
manage extensions at the same time, as requests do; the history `met` keeps the
extensions two of them were busy with at once, which is what the code does not
exclude and the properties have to name. `Enable`, `Disable` and
`Delete` are the database statements at the end of each request, which may fail
(`dbFails`). `Crash`, `Boot` and `LoadNext` are the daemon's death and
`LoadEnabled`. A subprocess whose daemon has died is an `orphan`: nothing in the
code refers to it any more, and the model only keeps its identity from being
used again.

### DomainBinding

The handlers of `projects.go` and `domains.go` and the row side of `ssl.go`, over
the four places a host name lives in.

| State | Code |
|---|---|
| `proj`, `dom`, `cert`, `ssl`, `svcRow` | the tables, with `UNIQUE (hostname)` and the foreign keys as guards |
| `hosts` | per line: none, one of ours, ours with another IP, a foreign one |
| `copy` | the lines `Add` or `Remove` has read and is about to write back |
| `route` | `Router.targets` |
| `live`, `anon`, `exiting` | the Service Manager, reduced to the PORT of a project's process, to whether it was started without naming the project, and to the PORT of one that is about to be restarted |
| `req` | where each handler is, and its copies |
| `saved`, `torn` | histories: the lines the owner of the file has saved; whether a rewrite was cut short by a death or an error |

`Label` names the steps by handler (`dp` deleteProject, `sp` startProject, `st`
stopProject, `sv` the handlers of `/services`, `cd` createDomain, `dd` deleteDomain,
`ic` issueCertificate, `sync` syncProjectProxyRoutes). Deletion of a project ignores
errors where the code does and is refused by the foreign keys where the database
does.

* *The hosts file.* `Provider.mu` is held from `HostsAdd` or `HostsRemove` (the
  read and the decision) over `HostsTruncate` to `HostsFill`, which writes the lines
  as they were read. The mutex does not keep the owner of the machine out: `EditHosts`
  may come between any two of the three. She saves in place, so what she adds to the
  empty file is in the file; an editor that works on an older copy of its own could
  undo anything, and no program can promise a thing about that. A death leaves the
  file truncated (or whole), a failing write any part of its lines (`torn`).
* *Names.* A row has the name as it was typed, and `UNIQUE` compares it so
  (`Taken`); the proxy lower-cases it (`Lower`), the hosts file ignores case and the
  blanks around it (`Fold`). The two maps are constants, of which the one assumption
  is that equal keys of the proxy are equal names in the hosts file.
* *Services.* The service of a project, `project:<id>`, can also be started, stopped
  and restarted through `/services` (`ServiceRequest`, `RestartLooks`), with any
  PORT, with none, or with one that is no number (`NoPort`, `Odd`). These handlers
  know nothing of routes.

Faults: overlapping requests, processes that exit by themselves and are restarted,
statements or the hosts file that cannot be written, edits by the owner of the
machine, death of the daemon (which empties `route` and the service table), requests
to `/services`, names not spelled as the proxy and the hosts file keep them.

### LocalCA

`Provider.mu` is held over a whole operation; an operation is therefore the list
`todo` of the files it writes, in order, each in the two steps of `os.WriteFile`
(truncate, fill). A certificate is the key it carries, `signer` the key that
signed it. `Die` and `WriteFails` may come between any two steps. `Install` is the
trust command, which runs after the lock is released. DomainBinding and LocalCA
each have their view of the certificate rows: the first asks what a row does to
the deletion of a domain, the second what it says of the files.

### Deployments and Pipelines

`head` is the commit checked out at each place, `origin` the newest commit,
`late` the remote commands nobody waits for any more. `Deploy` is `CreateRow`,
`Connect`, `PrevRef`, `Checkout`, `Sha`, `Afterwards` (install, restart, health
check), `Finish`; `Rollback` shares the frame with `Restore` in its middle and,
like the code, uses the project's oldest target. `GivenUp` is a cancelled
`Session.Exec`: the caller returns, the command stays in `late`. `Pipelines`
EXTENDS it: a run executes the steps of its definition, and a deploy step is a
Deploy that returns to the step (`Return`). `deps` records, for the properties
only, which deployments a run caused.

### Secrets and DbPools

`Secrets` follows a secret from the request to the keychain or, where that fails,
through `loadOrCreateKey` (read, truncate, write) into an encrypted blob, then
into the table, then into the owner's row; and back in the delete handlers, where
the row goes first. An ID is used once, as the code's random IDs are. `DbPools`
EXTENDS it with the table of pools: `open` of the code is `GetConn`, `Look`, the
reading of the password, `Dial`, `Store`; `ListColumns` and `BrowseTable` go
through it twice because they check the table's name first.

### RuntimeVersions

A directory is the set of its files (the binary and the rest). `Install` clears
the staging directory, extracts file by file, removes what is there and renames;
detection reads the directories, the default file and then the default file
again, and replaces the rows in one transaction. The pattern for a version is not
anchored in the code, so `<version>.tmp` is a name detection may list. A change of the
default may be spelled with a leading `v`: the installer drops it, and the rows are
looked up with it (`SetDefaultVersion`); `refused` remembers such an answer until the
next detection.

### Daemon

`boot` is where `main` is, `handler` where the signal goroutine is; `http` is
`s.http` and its listener. `config.json` and `daemon.pid` are shared with the
commands `start`, `stop`, `restart` (`cli`), which run in other processes.
`migrateLegacyDir`, `LoadOrInitConfig` and `SaveConfig` are modelled as far as the
token and the port are concerned; a kill may tear any file that is being written, and
every write or removal may fail. Where the code ignores that or only logs it
(`SaveConfig` and `writePIDFile` in `main`, the import of an older directory, the
removal of the pid file) the daemon goes on; `unsaved` and `unnamed` remember whose
write it was.
`held` stands for everything `Close` releases (extensions, pools).

### Hub

The queue, the goroutine that writes to every client under the mutex, and the
connections. A message is its number among the accepted ones, so that a gap, a
repetition or a change of order can be seen in what a client got.

### MC modules

`MCServiceManager`, `MCAutostart`, `MCJobRunner`, `MCExtensions`, `MCPipelines`
give the constants their values. `MCDomains` and `MCParts` put modules that share
no variable into one run: a variable `part` chooses which of them moves, the
others stay in an initial state, so the states are the sum and not the product.
`MCDomains` has DomainBinding twice: with a project and one request at a time
(*bindings*), and without projects and with requests that overlap (*hosts*).

The definitions marked "mutant of" in the modules are plausible wrong versions of
the definition that follows them; with any of them in its place TLC finds the
property named in `PROJECT.json` ("mutants") violated. They show that no property
holds for the wrong reason.

---

## 3. Runs

| Run | Instance | What it shows |
|---|---|---|
| `service_safety` | 2 API goroutines, one of which only stops; 1 service, policy *always*, 3 processes, budget 1 | `StopWins`, `StopIsComplete`, `RunningRowIsPending` |
| `service_live` | the same goroutines, 2 processes, policy *on-failure* | every Stop and Restart returns; every exit is handled to the end |
| `service_doublestart` | 2 starts of one service | violation: two live processes |
| `autostart` | every graph of 3 services with lists of up to 2 names, one of them absent | `ResultIsRight`, `DependenciesFirst`, `NothingStartsOnCycle`, the pass ends |
| `jobs` | 2 API goroutines, 2 jobs, 2 keys, crashes; with failing database and log directory 1 key | JobRunner implements RowLifecycle; rows are true and have owners; keys are freed; cancelled jobs are settled |
| `extensions` | 2 managing goroutines, 2 extensions, 2 subprocesses, failing database, daemon death | `NothingLeaks`, `LoadedIsRegistered`, `RemovedIsStopped` |
| `extension_calls` | 2 managing and 1 calling goroutine, 1 extension, 1 subprocess | `ReaderIsAlone`, `AllReturn` |
| `domains` | *bindings*: 1 request at a time, 1 project, 2 domains, 4 spellings of 2 names, 2 ports; *hosts*: 2 API goroutines, 2 domains, the same spellings, no project; *ca*: 2 API goroutines, 2 certificates, 1 domain, 4 keys | `EntryHasRow`, `ForeignIsKept`, `RoutesAreExact`, `PortTellsRoute`; `OneRoot`, `RevokedHasNoKey`, `RowHasFiles` |
| `pipelines` | 2 API goroutines, 2 targets, up to 3 deployments, 2 commits, 1 run with a local and a deploy step (where requests overlap, 1 target) | `SuccessIsDeployed`, `HistoryIsChained`, `RunTellsDeployments`; both tables implement RowLifecycle |
| `parts` | budget: 10 instants, window 4, budget 2; secrets and pools: 2 API goroutines, 2 owners (1 where requests fail), 2 keys, 2 pools; runtimes: 2 workers, 2 versions; daemon: 3 daemons, 1 terminal; hub: queue 2, 2 connections, 4 messages | `BudgetHolds`, `GivesUpForCause`; `RefIsStored`, `BlobsStayReadable`, `NothingOrphaned`, `PoolsAreOwned`; `RowsTellDisk`, `VersionsAreComplete`; `DaemonIsReachable`; `StreamHasNoGaps` |
| `runtime_partial` | 1 interrupted install | violation: `<version>.tmp` is listed as installed |
| `daemon_stop` | 1 daemon, started and stopped | violation: gone without Close |

Why the bounds are enough.

* *Services.* A scenario needs a process, the one that replaces it and one
  started by an overlapping call: three processes, two callers. Of the callers one
  does everything and the other only stops (`OnlyStops`): what the properties fear
  is a Stop against a start, a restart or an exit. Two overlapping starts are the
  run `service_doublestart`, and the proofs have any number of callers of any kind.
  Services do not share state except the mutex, so one service is enough. A budget of one lets a
  service both restart and be given up. Policies *always* and *on-failure* are
  used in the two passing runs. Processes are interchangeable, so the safety run
  uses symmetry (never a liveness run).
* *Budget.* Ten instants hold two disjoint windows and the exits before and after
  them; a budget of two lets one, two and three exits fall into a window, and either
  reading of the clock may be the one that is past its edge. The proofs remove the
  bound.
* *Autostart.* Cycles of length 1, 2 and 3, diamonds short of the fourth node,
  duplicates and absent names all occur with three services.
* *Jobs.* Two jobs can have the same key or different ones, and either can
  belong to the daemon before a crash. Where writes and log files fail both jobs are
  about one key (`OneKey`), which is the case in which one can hurt the other.
* *Extensions.* Two goroutines with two extensions overlap on one of them or on
  both. Two subprocesses are a provider and the one that replaces it, or the providers
  of two extensions. In `extension_calls` one subprocess is enough because its
  properties are about the users of one provider: a caller, and two requests that
  close it.
* *Domains.* Two domains let a name be deleted and taken again, a project have two,
  and one name have two spellings. One name can be typed plainly, in capitals, which
  the proxy and the hosts file undo, or with a blank, which only the hosts file
  undoes; the other name is plain. Each fault is a set of its own in *bindings*; where
  statements fail there, one domain is created (`OneDomain`), since a failure leaves
  others alone. In *hosts* the other name is somebody else's line and overlap comes with death of
  the daemon and one of: failing writes, edits, spellings. Two handlers are every pair
  of requests that can meet in the file; what a third would do is left to the proofs.
  Four keys are a
  root that is made twice and two leaves, or one root and three signatures (issue,
  issue again, renew).
* *Pipelines.* Three deployments are two and a rollback, in any order, on two
  places; where requests overlap, are cut off or die two are enough
  (`MaxUnruly`), and where they overlap one target is (`OneTarget`). Where updates
  fail, the third is not made by the pipeline (`FewRows`). Two commits are a checkout
  before and after a push.
* *Secrets and pools.* Two owners of any two kinds, of which IDs are never used
  again; where statements fail or the key cannot be read, one owner of any kind
  (`OneOwner`), since a failure leaves other owners alone; two goroutines are a
  create, a use or a delete against another; one
  replacement of the key. Two pools are the two that overlapping first uses open.
* *Runtimes.* Two versions, one of them also `node` on PATH: the default can be
  either, neither or the one that was removed. Deaths and failures of the disk hit
  the other version (`OffPath`), whose files are all that can tell it is there;
  overlapping requests, deaths with a failing disk, and a failing database are sets of
  their own. Only where nothing of that happens is a change of the default refused for
  its spelling (`Refusals`), as the rows are looked at only there.
* *Daemon.* A daemon, its successor and the successor's successor, and the commands
  of one terminal; two daemons where a command may meet a booting one or give up
  waiting (`FewDaemons`). Where files cannot be written there is no request in flight
  and the first port is free (`NoRequest`). The proof has any number of both and no
  such bound.
* *Hub.* A queue of two with four messages is full, drops and runs again.

Limits that matter when reading the results.

* `NothingLeaks`, `LoadedIsRegistered` and `RemovedIsStopped` hold with any number of
  requests at once, except about an extension two of them were busy with at the same
  time (`met`). The code does not serialise those: two overlapping Enables of one
  extension both find nothing to evict, both start a subprocess, and the second store
  hides the first (`extension.go:199`). `RemovedIsStopped` also needs a database that
  does not fail, and `LoadedIsRegistered` a name no other extension has: the Registry
  keeps the last of two with one name.
* `BudgetHolds` counts a restart as inside a window when the exit and the decision
  both are, since the two readings of the clock may be on either side of its edge. A
  claim about exits alone would be false by the delay between the two readings.
  `GivesUpForCause` has the second way to be marked failed, a restart that did not
  come up, in its text.
* `RunningRowIsPending` and `CancelIsRecorded` need a store that does not fail,
  as their definitions say: the code logs such a failure and goes on.
  `RunningRowHasOwner` needs in addition a log file that can be opened: `runJob`
  returns and leaves the row as it is when it cannot.
* `RoutesAreExact` is about requests one at a time, without exits, without failing
  statements, without requests to `/services` for the service of a project and with
  names in one spelling. The code keeps it under none of these: `POST
  /services/project:<id>/stop` ends the process and leaves the route
  (`services.go:84`); of two spellings of one name each deletion takes the route of the
  other (`router.go:43`). `PortTellsRoute`, the weaker property, is checked and proved
  under requests to `/services`, spellings, exits and restarts as well. With overlapping
  requests neither holds, since nothing orders the last `Set` of one handler and the
  `Remove` of another.
* `EntryHasRow` holds under every fault but one: a rewrite of the hosts file that
  reports an error when it has written the line makes createDomain take its row back
  and leave the line.
* `ForeignIsKept` is about a file nobody is rewriting, and about lines saved while
  nobody did. What its owner saves between the read and the write is overwritten
  (`hosts.go:180`), which the property excepts (`saved` is "late" then), and a death or
  a failing write in the middle leaves the file short (`torn`).
* `SuccessIsDeployed` and `HistoryIsChained` are about requests one at a time that
  run to their end: nothing in the code serialises two deployments into one path,
  and a cut-off request leaves its command running. `RunTellsDeployments` and the
  refinement hold under every fault.
* `BlobsStayReadable` excludes a first use that overlaps with another or dies, and
  a key file that cannot be read: in each of these the code makes a new key.
  `NothingOrphaned` excludes failures and death; `RefIsStored` excludes nothing.
* The second half of `PoolsAreOwned` is about requests one at a time: a pool
  opened before an eviction may be cached after it.
* `VersionsAreComplete` is about requests that change different versions; two
  installs of one version share the staging directory.
* `RowsTellDisk` is about requests one at a time that meet no failure. Its part about
  the default excepts the time between a change that was refused for its leading `v`,
  after default.txt had been switched (`runtimes.go:163`), and the next detection.
* `DaemonIsReachable` says in its text under which circumstances the daemon is the
  one the files name. A daemon whose own `writePIDFile` failed is not named by the
  file (`unnamed`), and one whose own `SaveConfig` failed is not described by
  config.json (`unsaved`): it serves all the same, and the stop command does not find
  it, or its token is not the one on disk.
* `AtMostOneLive` and the job properties are about processes of the current
  daemon; those of an earlier one are not looked for by the code.
* `AllReturn` assumes requests that fit in the pipe: the write of a request has
  no timeout in the code.
* `Autostart.cfg`, `Extensions_calls.cfg`, `Parts.cfg` and `Daemon_stop.cfg` switch
  the deadlock check off: a finished pass has nothing left to do, neither have
  goroutines once the last extension has been removed (IDs are fresh), and the
  parts stop when the last instant, message, owner or daemon of the bound is used.

---

## 4. Fairness

* Goroutines that can run do run: weak fairness on `startProcess`, `awaitExit`,
  the rest of `Stop`, `runJob`, the completion goroutine and the boot pass.
* Timers fire: `StopTimeout`, `Timeout` and the health delay are part of those
  goroutines' steps.
* A process that was sent SIGKILL exits (`killed[p] /\ Exit(p)`). Nothing makes
  any other process exit, and brew need not end.
* What brew started eventually lets go of its pipes (`PipesClose`). Without it a
  cancelled job would stay unsettled, as the code waits for both pipes.
* Mutexes are strongly fair: a goroutine that waits for one which is free again
  and again gets it (Go's mutex has a starvation mode). Therefore the steps of
  the extension goroutines have strong fairness.
* A daemon that died is started again (`Boot`): part of the fairness of JobRunner, for
  `CancelIsRecorded`.
* Clients need not call and a subprocess owes nothing.
* The modules without liveness properties state no fairness. In the hub it would
  promise nothing: a peer that neither reads nor closes keeps a write, and with it
  the mutex, as long as the kernel lets it.

---

## 5. Proofs

Checked with TLAPS for every value of the constants that satisfies the named
assumptions of the modules.

**ServiceManagerProofs** (any services, clients, processes, policies, budget;
both signal variants; a store that may fail).

* `TypeCorrect`: `Spec => []TypeOK`. The interesting conjunct is that a restart
  history never exceeds `MaxRestarts`, since a longer one is given up.
* `Supervision`: `Spec => []SupervisionInv`, the inductive invariant:
  * `PcFits`: a goroutine is at a place its code has;
  * `SpawnedIsPrivate`: a process that was spawned and not announced is held by
    exactly one goroutine and has no `awaitExit`;
  * `UnbornIsUnknown`: an identity that was never spawned has no `awaitExit` and
    no stop mark;
  * `ProgressOrder`: `awaitExit` is past Wait only for a reaped process, and
    `done` is closed last;
  * `TableEntry`: an entry was started for that service and its `awaitExit` has
    not taken its critical section;
  * `HeldIsMarked`: Stop works on a process it has marked;
  * `StopWins`.

  `StopWins` alone is not inductive: a Stop could mark a process whose
  `awaitExit` is already starting its replacement. `TableEntry` excludes that,
  and needs `SpawnedIsPrivate` for the insertion of a new process. The argument
  is one lemma for goroutines of clients (`ClientMove`), one for `awaitExit`
  goroutines (`AwaiterMove`) and one for each step that changes the table, a
  process or a mark.
* `StopWinsTheorem`, `TableIsSupervisedTheorem`: consequences.
* `StopIsCompleteTheorem`: from `NextStopOutcome`, which adds what a Stop that
  has returned nil knows of the process it held.
* `RunningRowIsPendingTheorem`: under the extra assumption `~StoreMayFail`, from
  `NextRunningRow`: a row that says running names a started process of that
  service whose `awaitExit` still has a write to come.

**PartsProofs** holds the theorems about four parts that share no state:
RestartBudget, Daemon, RuntimeVersions and Hub.

Restart budget (every budget, window and horizon):

* `BudgetTheorem`, `GivesUpTheorem` from `BudgetInv`: exits lie in the past,
  the carried list equals the exits inside the window (`ListIsExact`), a restart is
  decided on at or after its exit, and no window *anywhere on the time axis* holds
  more than `MaxRestarts` restarts, exit and decision (`RestartsInside`). The last
  conjunct has to speak of all windows, not only those up to now: an exit falls into
  every window that ends within `Window` of it. A window that holds both readings of
  the clock ends at the second one or later, so every restart in it was among what
  `pruneRestartWindow` kept, however long the goroutine was delayed between the two.

Daemon (any number of daemon processes and terminals; every set of faults the property
speaks of):

* `DaemonIsReachableTheorem`: unless a command can meet a daemon that boots, a daemon
  that serves has a signal goroutine that will handle a stop; where in addition
  commands come one at a time and wait, the files name the serving daemon.
  `DaemonInv` says how far the signal goroutine can be at each place of `main`
  (`BootsUnmet`), that at most one daemon is on its way or serving and that a waiting
  command waits for it (`OneDaemon`), and when the pid file and config.json name it
  (`FilesTellIt`): from which line of the boot on, and, after a kill or a failing write
  of its own, no longer. A daemon that could not write its pid file is never signalled
  and so serves on for good (`Unnamed`, `NeverNamed`): a second one beside it finds the
  files as if it were alone.

Runtime versions (any workers and versions):

* `VersionsAreCompleteTheorem`: a version nobody is changing is there with all its
  files or not at all. `VersionsInv` says for each step of an install which files of
  the staging directory and of the version's are there (`AsExpected`), and that one
  request is at work on a version (`OneAtWork`).
* `RowsTellDiskTheorem`: between requests the rows are what is on disk. While a request
  is at work they need not be: `RowsInv` says up to which step the statuses and the
  mark of the default are still true (`StatusTells`, `MarkTells`), that the copies
  a detection will write are the disk's, and that a change which was refused has
  spoilt nothing but the mark (`refused`), which any later detection writes anew.

WebSocket hub (any queue length, number of connections and of messages):

* `StreamHasNoGapsTheorem`: the queue is the newest accepted messages in order
  (`QueueIsNewest`), Run holds the mutex while it goes through the clients
  (`RunHasLock`), who is a client is a reader (`ClientsAreReaders`), and a client
  that can be written to has everything up to the last message taken out of the
  queue, or up to the one before while that one is on its way (`UpToDate`).

**AutostartProofs** (any services in any order, any lists: duplicate, absent and self
dependencies; with or without cancellation).

* `ResultIsRightTheorem`: the sort succeeds exactly on the graphs without a cycle.
  Nothing is computed by recursion here (the loop's turns are steps of the model), so
  an invariant of the loop takes the place of an induction over the graph. `TopoInv`
  says that `inDegree` counts the edges from nodes that are not in order yet,
  duplicates included (`DegreeCounts`); that who has none is in the order or in the
  queue, in one place and once (`ZeroIsListed`, `ListedOnce`); that a node comes after
  those it depends on (`DepsBefore`); and that no member of a knot gets into the order
  (`KnotsWait`). At the end the queue is empty: who is not in order has an edge from
  another that is not, so they form a knot, and by `KnotsWait` every knot is among
  them. The lemmas count: a duplicate adds as many edges as taking its node off
  removes (`EdgesTakenOff`), and the order has as many places as there are services
  exactly when it has all of them (`OrderIsWhole`).
* `DependenciesFirstTheorem`, `NothingStartsOnCycleTheorem` from `PassInv`: nothing is
  visited before the sort has succeeded (`SortComesFirst`), and the loop has dealt
  with the services up to the one at hand (`DealtWith`) and no other (`Untouched`),
  whatever goes down and comes up meanwhile.

**DomainsProofs** holds the theorems about DomainBinding and LocalCA.

DomainBinding (any requests, projects, domains, names and ports; every set of faults):

* `ForeignIsKeptTheorem`: what the owner has saved survives the rewrites. It follows
  from `FileInv`: one handler is between the read and the write (`OneRewrites`, the
  mutex), the copy has what it found of its own line, and nobody else holds one
  (`CopyFits`), and a saved line is in the file or, while that is truncated, in the
  copy (`SavedSomewhere`). Edits come between any two of the steps.
* `EntryHasRowTheorem`: a line volt wrote into the hosts file belongs to a
  registered domain. It is not inductive: the row is inserted some steps before the
  line and deleted some steps after it is gone, the line is in the file or in a copy
  that is about to be written back, and, names being compared in different ways,
  several rows can stand behind one line, each of which may be on its way out.
  `EntryInv` adds to `FileInv`
  * `Shape`: what the tables, the file and the handlers' copies range over;
  * `NameGiven`, `NamePlain`, `OneRow`, `RowKnown`: a row has a name, a typed name
    has one row, and a handler at work on a domain has the row it thinks it has;
  * `Enough`, a counting argument: for each line, what *claims* a row (the line itself
    in file or copy, and each handler about to add it) maps one to one into the
    *spare* rows of that line, which no handler is about to delete. A handler that
    removes the line and then deletes its row gives up a claim with the row; one that
    takes its row back gives up its own.

  `Harmless` states once that a step leaving rows, names and lines alone preserves all
  of it; `Fewer`, `OneLess`, `OneMore` and `OneElse` are the four ways in which claims
  and rows change. There is a lemma for each step that changes either.
* `PortTellsRouteTheorem`, `RoutesAreExactTheorem`: where the routes lead between two
  requests that come one at a time (`Serial`; `Calm` is what the second theorem asks
  for). In the middle of a request neither property holds: a port is reported a step
  after the route was set, the rows of a deleted project disappear before or after
  their routes. `RoutesInv` therefore speaks of the request under way (`Alone`): what
  its copies still say of the rows (`Fits`) and of the process and the hosts file
  (`Serves`), that each route is the one a row reports or the request will report
  (`Reported`, `Reports`, `WillReport`), and, where all is calm, that each domain's route
  is right, or the request has yet to come to it (`Routed`: `Right`, `Awaits`), or the
  deletion of the domain was cut short by its certificate (`Cut`), and that nothing is
  about to come up that no request knows of (`Settled`). `Ready` and `Keeps` are
  what one step starts from and what it keeps; there is a lemma for each step that
  moves a route, a row or a process, those of `/services` included.

LocalCA (any goroutines, certificates, domains and keys; death and full disks
anywhere):

* `OneRootTheorem`: what the system trusts and what signed every certificate is
  the authority on disk. `RevokedHasNoKeyTheorem`: a certificate whose meta file
  says revoked has no key file. `RowHasFilesTheorem`: a certificate row has its
  files, a domain with SSL its row.

  All three follow from `CAInv`, which says for each kind of operation which
  *suffix* of its writes is still in `todo` and what the disk says of the part
  already written (`RootWrites`, `LeafWrites`, `RevokeWrites`), for the holder of
  the lock only (`LockInv`). A daemon that dies drops the suffix; what keeps the
  files consistent then is the order of the writes: `RootIsWhole` (the root's key
  before its certificate) and `MetaIsLast`. `IdIsNew` and `RowIsReady` follow an
  ID from its making to its row, after the lock is released.

**JobRunnerProofs** (any goroutines, jobs and keys; every set of faults, any
number of crashes).

* `TargetIsOwnedTheorem`: a key that refuses new jobs will be freed.
  `RowTellsOutcomeTheorem`: a settled row says how its process ended.
* `RunningRowHasOwnerTheorem`: a running row has a goroutine of the current daemon
  that will settle it. The condition on the faults is part of the property.
* `JobsFollowLifecycleTheorem`: the refinement of RowLifecycle. The first state maps
  to its first state, and `RowStep` shows that a step of JobRunner leaves the rows
  alone, begins one, settles one, or is the sweep at boot, which settles all running
  ones at once.

  The invariant `JobInv` adds: `HeldIsPrivate` (until its completion goroutine
  starts, a job belongs to the goroutine that inserted its row), `StartedOnce`,
  `OutcomeIsSeen` (a brew somebody waits for, or is about to, has open pipes until
  it has an outcome), `CompletionSettles` (a completion past its wait has a reaped
  process and a row that nobody else has settled), `KillKnows`, and `DeadIsEmpty`
  (a daemon's death takes every goroutine with it). Without `HeldIsPrivate` and
  `CompletionSettles` two goroutines could settle one row, and neither
  `RowTellsOutcome` nor the refinement would be preserved.

**SecretsProofs** (any goroutines, owning rows, keys and pools; every set of
faults), about Secrets as DbPools composes it.

* `RefIsStoredTheorem`: a row that refers to a secret has it, in the table and in
  the keychain. By itself not inductive: the secret is stored steps before the row
  refers to it, and deleted steps after the row is gone. `PutIsPrivate` and
  `PutStores` describe the creation (its ID is its own, and what it has stored so
  far), `DeleteIsLate` the deletion (what it forgets has no row), `PcFits` and
  `OneAtATime` who can be where.
* `BlobsStayReadableTheorem`: every blob is encrypted under the key in the key file,
  by `KeyIsSettled`: while there is no key file nobody has encrypted anything,
  and afterwards nobody is on the way to write one.
* `NothingOrphanedTheorem`: without a failing step no secret is left without its row,
  by `SecretIsOwned`: each secret, and each keychain item, belongs to a row or to a
  request still under way.
* `PoolsAreOwnedTheorem`: a pool of the table is open, and with one request at a time an
  open pool is in the table under a connection that is there. A pool is open and in no
  table between `Dial` and `Store`: `PoolsAreApart` says that it is held by one request
  then and not in the table, so that closing another never closes it; `PoolsAreKept`
  that, one request at a time, its place in the table stays free and its row stays
  meanwhile, and that a row which goes takes its pools with it in `Evict`.

**PipelinesProofs** (any goroutines, targets, places, definitions and numbers of pushes;
every set of faults; `DeployAssumption` asks for a first commit, since something must
have been pushed before anything can be checked out).

* `TypeTheorem`: type correctness of Deployments and Pipelines together.
* `RowsFollowLifecycleTheorem`: both refinements of RowLifecycle. First states map to
  first states; `DepStep` and `RunStep` show that a step of Pipelines leaves the
  statuses alone, begins one row or settles one. That a row is settled once needs
  `HeldRow` and `HeldRun`: what is under way has one goroutine, and its row says running.
* `RunTellsDeploymentsTheorem`: a run recorded as a success has done its steps and its
  deployments have succeeded. By `RunInv`: `CausesAreKept` (what a run has caused
  includes the deployment its goroutine is at) and `RunFits` (the steps passed so far
  have succeeded, except the one whose failure is about to end the run).
* `SuccessIsDeployedTheorem`, `HistoryIsChainedTheorem`, for one request after the other,
  by `OrderInv`: IDs are given in order and the one under way is the latest (`InOrder`,
  `Latest`), a goroutine's copies agree with the checkout from the step on at which
  it has touched it (`Copies`), the last deployment that touched a place tells what
  lies there (`Tells`), what lies there was brought by one (`HeadIsDeployed`), and
  `Chain`, also for the row under way. Targets may share a place, which is why
  the invariant follows places and not targets.

**ExtensionsProofs** (any managing and calling goroutines, extensions and
subprocesses; with or without failing database and death).

* `ReaderIsAloneTheorem`: the output of a subprocess has one reader. A reader that
  was given up on outlives the wait, so the argument is about who may start the
  next one: `ReaderOwned` says that a provider with a reader is closed, or the
  holder of `e.mu` is the goroutine that waits for that reader or is about to close
  the provider; with `LockHeld` nobody else can then be in `call`. `WaiterReads`
  says that who waits has the one reader. The steps of the repository are shown by
  one lemma (`Outside`) to leave all this alone.
* `NothingLeaksTheorem`, `LoadedIsRegisteredTheorem`, `RemovedIsStoppedTheorem`, for any
  number of requests at the same time and without assumptions on the constants. The
  invariant `AdminInv` says of each managing goroutine where it is in its request
  (`Path`), which provider it must not forget and that it has closed any other (`Work`),
  and, as long as nobody else is busy with its extension, whether that has a loaded
  provider at this place (`Own`); of each extension that what is loaded was started
  for it (`Loaded`), and is registered and its row enabled or somebody is about to do so
  (`Tells`); of each subprocess that somebody cares for it (`Cared`). `Alone` says that
  two goroutines busy with one extension have put it into `met`, `BootFits` that the
  boot has the repository to itself. `Store` overwrites an entry of `r.loaded`, and only
  `Own` says that there is none; `Mine` and `Frame` state once that a step about one
  extension leaves what is said of the others alone.

The runs `service_safety`, `jobs`, `autostart`, `extensions`, `extension_calls`, `domains`,
`pipelines` and `parts` check the same properties on small instances, each of which has
a theorem. The behaviours with `StoreMayFail = TRUE` or `TermKills = TRUE` are covered
by the proofs alone.

Only model-checked: the liveness properties (`StopReturnsEventually`, `ExitIsHandled`,
`PassEnds`, `CancelIsRecorded`, `AllReturn`), since fairness and ENABLED are out of
reach of the prover. The expected violations are behaviours, which TLC gives; there is
nothing to prove about them.

---

## 6. Disagreements between code and documentation

Three have a run with expected result *violation*; the property is the documented
behaviour and TLC gives the behaviour of the code that breaks it.

1. `service_doublestart`: Start "returns an error if a service with this ID is
   already running", but the look-up and the insertion are two critical
   sections. Two overlapping Starts leave two processes, one of them untracked.
2. `runtime_partial`: the installer's comment says an interrupted install "never
   leaves a half-extracted directory that ManagedVersions would mistake for a
   real one". The staging directory `<version>.tmp` matches the unanchored version
   pattern and counts once it has the binary.
3. `daemon_stop`: Close "releases resources that outlive a single request but must
   stop when the daemon does". `ListenAndServe` returns when Shutdown begins, so
   main returns, and the process ends, before the signal goroutine has come to
   Close.

Others that the models show (drop the restriction named in section 3, or read the
action) and that need no run of their own:

* Restart of a service whose process exits between look-up and signal returns the
  error of the failed signal and leaves the service stopped (`manager.go:249`).
* A second install of a formula is documented as refused, but `targets` is set only
  after the command has started (`brew.go:285`).
* A log file that cannot be opened ends `runJob` with the row left running
  (`brew.go:303`).
* Enabling an enabled extension whose new subprocess does not come up leaves the
  closed provider registered, and Disable finds nothing to unregister
  (`extension.go:202`). Two overlapping Enables of one extension leave a subprocess that
  nothing refers to (`extension.go:199`), where the comment promises that the previous
  one "is closed first rather than leaking a duplicate" (`extension.go:215`).
* A line its owner saves while the hosts file is being rewritten is overwritten
  (`hosts.go:180`), where the comment says that unmanaged lines pass through unchanged
  (`hosts.go:79`); a death or a full disk then leaves the file empty or short.
* Two spellings of one name become two domains with one hosts line and one route, of
  which deleting either takes both away (`0001_init.sql:58` against `hosts.go:95` and
  `router.go:43`); the comment calls the constraint the "authoritative duplicate check"
  (`domains.go:35`).
* Stopping the service of a project through `/services` leaves its routes, which lead to
  a port nobody listens on (`services.go:84`).
* A default set with a leading `v` switches default.txt and is then refused by the
  table, whose rows keep the former default (`runtimes.go:163`, `installer.go:254`).
* A daemon that could not write its pid file serves and cannot be found by `stop`
  (`main.go:55`).
* Rollback runs on the server of the project's first target, whichever target the
  deployment was for, and does without the health check its comment mentions
  (`deployment/engine.go:160`).
* A first use of the secrets that overlaps with another or dies makes a second key file,
  and so does one that cannot read it (`secrets.go:167`).
* Evict is there so that a pool does not outlive its connection's row; one whose
  `open` began before is stored after it (`dbadmin.go:368`).
* The restart command waits five seconds for a shutdown that may take ten; the new
  daemon's pid file may then be removed by the old one (`cli.go:123`).
* A kill between making `~/.volt` and copying the older directory into it leaves
  the older configuration behind for good; a kill while config.json is written
  keeps every later daemon from booting (`store.go:82`, `store.go:186`).

---

## 7. Not modelled

* *Schema migrations, import of the JSON files of an earlier release*: sequential,
  before anything else runs. (The import runs at every start and so brings back
  services that were deleted while the file is still there.)
* *Files API, sandbox, sessions, middleware*: path arithmetic and checks of one
  request; no state between two requests.
* *Docker and GitHub clients, platform integration, metrics, audit*: requests
  passed on, counters and rows nothing reads back.
* *SSH file transfer, PHP provider, project detection*: single remote or local
  operations without a protocol.
* *User interface*: a browser client that shows what the API returns; it keeps no
  state the daemon depends on.
* Within modelled components: the contents of logs, events, queries and
  certificates; the syntax of definitions, of host names (except case and blanks)
  and of versions (except the leading `v`); expiry of a certificate by time; a port a
  client asks for when it creates a domain; editors that write an old copy of the
  hosts file back.

---

## 8. Plan

The modelling is complete as far as the system has protocols, and every invariant,
action property and refinement a run checks has a theorem. What is left:

1. Consequences of the proved invariants that are worth a name of their own: type
   correctness of the modules whose type invariant is so far only a conjunct of the
   inductive invariant, and what the invariants say between requests.
2. The liveness properties stay with TLC. What a proof can add is the safety half of
   each argument, for instance that a stopped process always has a goroutine which
   will close `done`.
3. The six hazards without a property (`PROJECT.json`) name behaviours the code does
   not exclude; they become properties when the code starts to exclude them.
