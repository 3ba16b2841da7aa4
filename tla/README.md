# opslabs: specifications, model checking and proofs

opslabs lets a user open a lab *scenario* in the browser. An *attempt* is one
user's run through one scenario. Some scenarios run in a Docker container on the
server (`sandbox` mode), the others in the page itself (static bundle, wasm,
web container). This directory holds TLA+ models of the parts of the Go backend
that keep attempts, containers, ports, accounts and the log file, of the page that
shows an attempt with its runners, and of the Linux machine it may show, TLC configurations that check them on
small instances, and TLAPS proofs that hold for instances of any size.

Paths below are relative to `src/backend/internal/` unless they start with `src/`.

## 1. The system

| component | state it keeps | operations | talks to |
|---|---|---|---|
| **attempt use case** `biz/attempt/usecase.go` | none of its own; each handler holds a copy of a record between round trips | `Start`, `Get`, `GetWithPing`, `Heartbeat`, `Check`, `Terminate`, `CleanupPassed` | store, repository, runner |
| **attempt store** `store/attempt_store.go` | three kinds of Redis key: the JSON record, the active set, the owner index | `Put`, `Get`, `Delete`, `UpdateLastActive`, `UpdateStatus`, `Snapshot`, `FindActiveBy…` | Redis; a pipeline is one round trip, most operations are several |
| **attempt repository** `data/attempt.go` | one row per attempt | `Create`, `Update` (gorm `Save`: the whole row), `FindByID` | database |
| **garbage collector** `server/gcserver.go` | none; one goroutine with a ticker | `Start` (startup `Reconcile`), `tick`, `cleanupStale` | store, use case, runner |
| **container runner** `runtime/docker.go` | `containers`: container → port | `Run`, `Stop`, `Ping`, `Exec`, `Reconcile` | docker command line, port pool |
| **port pool** `runtime/portpool.go` | `free` slice, `used` and `bad` maps under one mutex | `Acquire`, `Release`, `MarkBad` | – |
| **attempt service** `service/opslabs/attempt.go` | none | one HTTP handler per use case call | use case |
| **scenario page** `src/frontend/src/pages/Scenario.tsx`, `api/attempt.ts` | the persisted `useAttemptStore`, phase, modal, mutations and a poll in flight | open, switch, leave, start, check, give up, restart, review | the HTTP API, in any order of answers |
| **editor runner** `src/frontend/src/components/runners/WebContainerRunner.tsx` | drafts, dirty marks, one engine per tab | start, edit, save, revert, `triggerCheck` | the WebContainer engine |
| **bundle runner** `…/runners/StaticRunner.tsx` | `pendingRef`, the check that waits | `triggerCheck`, messages | the bundle in its iframe |
| **Linux bundle** `scenario/bundles/wasm-linux-hello/index.html` | the serial buffer, flags of the login, `pendingCheck` | load the emulator, log in, say ready, check, type | the machine's serial line, the page (messages) |
| **login providers** `biz/base/loginprovider`, `biz/base/sys_user.go` | users and their credentials | login by phone, QQ or password, `Register` | database |
| **rotating log** `src/backend/pkg/logger/lumberjack.go` | the log file, the files moved aside | `Write`, `Rotate` | file system |
| ttyd proxy, web sockets, tokens, snowflake identifiers, menus, AI adapters | see section 7 | | |

`PROJECT.json` lists every component with its sources and whether it is modelled.

What is hard here, and hardly reached by a unit test:

* **Four places, no transaction.** The state of one attempt is spread over Redis,
  a row, the Docker daemon and the runner's own table. Each operation updates
  them one after the other; any call may fail, or do its work and lose the
  answer; the process may be killed between any two.
* **No lock per attempt.** Handlers and the collector work on the same
  attempt at the same time, each with a copy it read some round trips ago, and
  write back all of it (`Save`, `Put`).
* **Read, then write, in the store.** `Delete`, `UpdateLastActive`, `UpdateStatus`,
  `Snapshot` and `FindActive` read first and act on what they read.
* **A ticker and a TTL race** each other, with constants kept in two packages.
* **A dead container is inferred** from a ping that fails, for whatever reason.
* **Ports** live in a table in memory, while the containers that bind them
  outlive the process; docker commands fail after having had their effect.
* **Answers after the page has moved on.** Mutations, a poll and the query cache
  write one store that all pages share and that survives them.
* **Checks without an end.** The user's code may loop and a bundle may never
  answer, while the user edits, saves and leaves.
* **Look up, then insert** for users, with unique indexes on credentials only.
* **A shell that is read like a stream.** The Linux bundle types commands and looks for
  marks in whatever the machine says, in time or late, echoes included.
* **Rename, then truncate.** A full log file is moved aside and a new one opened empty over
  whatever has its name, and each of these may fail.

What makes each component correct:

* use case and collector: no container runs that nobody will stop; what is over
  is stopped; everything idle is freed in the end; a pass is not lost
  (section 4 shows where it is);
* store: a record that is gone does not come back, unless by a call that had read it
  before; a record in the store can be seen by the collector;
* runner and pool: each port is free, put aside, or owned once; a free port
  is never one that a container still binds; every call ends;
* page: it works on an attempt of its own scenario, says passed only of a solved
  one, and its waiting ends; its runners check what the user wrote and settle
  every promise;
* Linux bundle: it comes up or says why not; a check is answered by its own run;
* accounts: one identity is one user, however it logs in; log: no line is lost.

## 2. Modules

    PortPool ── DockerRunner ── DockerProperties ── MCDocker ── MCBackend
                                       │  └ INSTANCE PortLoans
                                       └── DockerProofs
    ReaperClock ── MCBackend                    ReaperClock ── ClockProofs
    AttemptCache ── AttemptLifecycle ── AttemptProperties ── AttemptClaims ── MCAttempts
                                          │  └ INSTANCE BoxCustody
                                          └── AttemptProofs ── AttemptCustodyProofs
    SessionPage, LinuxBundle ── MCPage ── PageProofs
    EditRunner, BundleRunner, LoginAccounts, RotatingLog ── MCParts
    EditRunner, BundleRunner ── RunnerProofs    LoginAccounts ── AccountProofs
    MCParts, RunnerProofs, AccountProofs ── PartsProofs

(`A ── B`: B extends A.)

| module | what it is |
|---|---|
| `AttemptCache` | the keys of the store and the effect of each pipeline |
| `AttemptLifecycle` | the handlers and the collector, one action per round trip |
| `AttemptProperties` | what the lifecycle keeps |
| `AttemptClaims` | a sentence of the repository that a behaviour of the code contradicts |
| `BoxCustody` | abstract specification: who answers for a container, and what a crash leaves to `Reconcile` |
| `PortPool` | the pool; each method is one operator, as each holds the mutex |
| `DockerRunner` | `Run` with its retries, `Stop`, `Reconcile`, one action per docker command or critical section |
| `DockerProperties` | what runner and pool keep together |
| `PortLoans` | abstract specification: who has a port |
| `AttemptProofs`, `AttemptCustodyProofs`, `DockerProofs`, `ClockProofs`, `PageProofs`, `RunnerProofs`, `AccountProofs`, `PartsProofs` | theorems |
| `ReaperClock` | the ticker of the collector, its cutoffs and the TTL of a record, in time |
| `SessionPage` | the page of a tab with its mutations, poll and store, composed with a service that answers each request in one step |
| `EditRunner` | the runner of web-container scenarios: start, drafts, saves, check |
| `BundleRunner` | the runner of static and wasm scenarios: one check waits for a message |
| `LinuxBundle` | the bundle of a Linux in the browser, on the serial line of its machine |
| `LoginAccounts` | how a phone, a QQ identity or an account name becomes a user |
| `RotatingLog` | the writer of the log file and its rotations |
| `MCAttempts`, `MCDocker`, `MCBackend`, `MCPage`, `MCParts` | constants, symmetry and compositions for TLC |

### AttemptLifecycle

| state | in the code |
|---|---|
| `main`, `active`, `owner` | the three kinds of Redis key (`store/attempt_store.go:28-40`) |
| `db[id]` | the status column of the row |
| `box[id]` | the container: never run, running, gone |
| `held` | the attempts whose container the runner's table knows |
| `pc[p]`, `cur[p]`, `snap[p]`, `fresh[p]` | where a handler (or the collector) is between two round trips, the attempt and the record it holds, and the identifier a `Start` is going to use |
| `batch` | what the collector's `Snapshot` has collected and `tick` has not dealt with |
| `booting` | the startup `Reconcile` has not run yet |
| `faults` | faults so far; `MaxFaults` bounds them |

A request begins with its first round trip (`Start`, `Heartbeat`, `Check`,
`Probe`, `GiveUp`), and goes on with one action per round trip. `Start` reads the
owner index, then (`Find`) the record it names; from there it reuses the attempt
(`ReusePing`, `Touch`, `TouchPut`), replaces it (`RecDelete` … `RecMark`), or runs a
new one (`Run`, `Create`, `Put` and the rollbacks `UndoRun`, `UndoPut`, `UndoMark`).
`Terminate` is shared by the handlers and the collector, as in the code. A tick is
`Tick` (SMEMBERS), `ReadListed` (MGET), `Prune` (the SREM of each member whose key
is gone), then `Visit` record by record.

A kind of fault is switched on by `FaultKinds`: `store`, `db` (a call on Redis or
the database that fails, with, without, or, a pipeline, with part of its effect), `inspect` (ping times out),
`rm` (docker rm fails), `run`, `orphan` (docker run fails before or after the
container exists), `kill` (a container dies), `ttl` (a record the collector sees
expires), `crash` (the process is killed and restarts).

What is abstracted, and why it is sound:

* **Time.** The code compares `LastActiveAt` or `FinishedAt` with a cutoff. The model
  keeps one flag, `old`, which `Age` may set at any time. A copy of a record in flight
  keeps the flag it had, so the model also has behaviours in which the flag comes
  late. All ages the code can see are covered; that a cutoff is *not* reached is
  never assumed.
* **TTL.** `Expire` removes a record. One that the collector does not see may
  expire whenever it likes; one it sees is dealt with, or written anew, long before
  its hour ends unless the collector is down: that is the fault `ttl`. `ReaperClock` is
  where this is shown.
* `Get` reads the store and on a miss the row: two round trips in one action, since
  only the answer is used. A `Get` that fails on both has no effect and is left out
  where the handler only returns the error.
* A pipeline is one step: its commands go out in one write. It is no transaction,
  though, so one that fails may have been carried out up to any of its commands
  (`PutBroken`, `EraseBroken`).
* A broken JSON record, an index that is no number, and empty arguments are left
  out: nothing the program writes leads there.
* `Extend` has no caller. `CheckCount` and the mock runner do not matter to
  the properties and are left out.
* In the lifecycle `docker rm` and the return of the port are one step (`StopBox`);
  `DockerRunner` has them apart.
* `Reconcile` is one step here: it is `docker ps`, then `docker rm` of what that listed
  (`runtime/docker.go:267-290`). `DockerRunner` has the two commands apart, with requests in
  between.

### DockerRunner

| state | in the code |
|---|---|
| `free`, `used`, `bad` | the pool (`runtime/portpool.go:17-22`) |
| `containers` | the runner's map from container to port |
| `box`, `published`, `foreign` | the daemon: containers, their ports, and ports of other processes of the host |
| `known` | containers whose `Run` returned, the only ones `Stop` is called with |
| `pc`, `port`, `name`, `tries`, `failed` | a call in progress |
| `boot`, `leftover` | the startup `Reconcile` between `docker ps` and `docker rm` |

`Run` is `Acquire`, `DockerRun`, then `Record`, or `GiveBack` (an error), or `MarkBad` (a port
conflict) and again `Acquire`. `Stop` is `RmBox`, `Unmap`, `Settle`. The docker rm of a name
that never ran, after a conflict, has no effect and no action. `Forget` lets TLC use a
container name again once its attempt is over; `Spare` starts a `Run` only while a name is
left. Both are bounds of the model, not behaviour of the code.

`PortLoans` is what `free`, `used`, the map and the calls are for, without them: a port is in
the pool, aside, in one call's hand or entered for one container, and each step moves one
port from one of these places to another. `KeepsLoans` is the refinement. `Unmap` before
`Settle` is one `TakeOut` and one `GiveBack`: a `Stop` that released first would show there.

### ReaperClock

| state | in the code |
|---|---|
| `container`, `record` | whether the container runs, and the status of its record in the store |
| `stamp` | the age of `LastActiveAt`, of a passed record of `FinishedAt` |
| `life` | what is left of the TTL that `Put` sets |
| `fireIn`, `queued` | the ticker, and the firing its channel holds |
| `phase`, `late`, `left`, `seen` | the loop of `GCServer.Start`: the age of the `now` it was given, what is left of the longest tick, the status in its snapshot |
| `missed` | rounds in a row that failed before they reached the attempt |

Time passes unit by unit (`Pass`), but never past the ticker, the end of a TTL, a firing
that waits for an idle loop, or the longest tick. A channel holds one firing, a ticker
drops what it has no room for, and `tick` compares with the time of the firing, so a slow
round makes the next one look at the past. One attempt at a time; containers do not die
and `Stop` works; a handler that reads and writes a record is one step (`AttemptLifecycle`
has all of that, and no time). `WriteTime` is the longest from the time stamp a handler
takes to its `Put`; a `Start` takes it before `docker run`.

`ClockAssumption` is what the constants of the code must satisfy: handlers faster than
the cutoffs, and both cutoffs plus `Slack == Interval + 3 TickTime + MaxMissed (Interval +
TickTime)` within the TTL. With the constants of the code (30, 30, 60 and 1 minutes) that
leaves about 29 minutes for slow ticks and failed rounds. Nothing in the code checks it:

* `default_idle_timeout` and `reaper_interval` are configured (`gcserver.go:82-92`), the TTL
  is not (`attempt_store.go:50`; `WithTTL` has no caller). With a timeout of an hour, records
  expire before the collector may take them, and their containers stay;
* a tick is as long as its attempts make it: a ping has 3 s, a stop 15 s, and the `Update` of
  `Terminate` (`usecase.go:676`) has no limit of its own;
* `Extend` (`usecase.go:611`, no caller) would put `LastActiveAt` up to 30 minutes ahead, and
  the cutoff with it to the TTL. It would not move `FinishedAt`, which is what counts for a
  passed attempt, although its comment says it extends a review (606);
* "a scenario may override the grace" (`gcserver.go:39`): the collector reads neither
  `passed_grace_minutes` nor `idle_timeout_minutes` of a scenario, while the expiry the
  service shows does (`service/opslabs/attempt.go:282`).

### SessionPage

| state | in the code |
|---|---|
| `rows` | the service: of every attempt its scenario, status, whether its container lives and the store has it |
| `page`, `phase`, `starting`, `modal` | the route, `startPhase`, `startingRef`, the judgement `PassModal` shows (`pages/Scenario.tsx`) |
| `cur` | `useAttemptStore.current`, kept in `localStorage` |
| `net` | the mutations in flight; `heard` while the callbacks given to `mutate` will run |
| `poll`, `seen` | the fetch of `['attempt', id]` in flight, and the data the query cache has |
| `stray` | history: a late answer was applied where it does not belong |

A step of the page is an event handler together with the effects React runs after it;
a step of the service answers one request as `AttemptLifecycle` does it in many.
The mutation observer and the query cache of react-query are modelled from how the page
uses them: the hook's own `onSuccess` always runs, the ones given to `mutate` only
for the last call of a mounted page, a failed query is tried once more, equal data are no
new data.

The code writes a late answer into the store whatever page is open then. The model
records that in `stray` and stops: everything after it is a consequence of the wrong
attempt on the page, and the properties are about all behaviours up to there.

### LinuxBundle

| state | in the code |
|---|---|
| `source`, `lib` | where `bootLib` is in `V86_SOURCES`, and what became of it |
| `serialBuf`, `firstSerial`, `readyFired`, `autoLoginSent`, `passwordSent` | the same names in the code |
| `cdTimer` | the 700 ms after the login |
| `asks`, `verdict` | the `opslabs:check` messages and the promises of `runCheck` |
| `pendingCheck`, `startIdx` | whose `onChunk` is called, and where its window begins |
| `typed` | lines the user typed |
| `echo`, `vm`, `flag`, `input`, `output` | external: whether the terminal echoes, who reads the line, `/tmp/ready.flag`, lines not read yet, items not delivered yet |
| `found` | history: what the shell saw when it ran a check's line |

The bundle reads bytes. The model takes what matters of them as items: a login or
password prompt, a prompt with `/ # ` or another, the echo of a check's line, a mark,
other text. A step of `SerialByte` takes one item through the buffer, the prompts, the
login and the waiting check, in the order of the listener. The machine is external: a login
that may ask for a password or refuse, a shell that may hang in a loop until Ctrl-C, a
terminal that echoes or not. It says all of one thing before it goes on, and puts its marks
into nothing but the answers to checks.

### The runners, the accounts and the log

`EditRunner`: `bundle`, `status` and `flow` are the mounted runner and its start;
`engine` is `bootPromise`; `drafts`, `dirty` and `saving` the editor; `disk` the engine's
files, with the bundle they belong to; `job` the checks under way and `pending` those whose
caller waits. `BundleRunner`: `waiting` is `pendingRef`, `outcome` the promises, `inbox` the window's
messages. `LoginAccounts`: `users` and `credentials` are the tables, `serving` the requests
between two calls; `DrawId` is the draw of the new user's identifier, which comes after the
look-ups and decides whom `GetByAccount` finds first. `Miss` is a call that fails, or a process
that ends, with or without its effect. Nobody registers a phone number as an account: the
sets `Phone` and `Account` are disjoint, and a phone user is found by its phone as a name too.

`RotatingLog`: `file` and `backups` are the files, `open` whether the process has the file open.
Every way to `openNew` is there: a full file, one that cannot be opened to append, and
`Rotate`, which the ticker of `NewProdLoggger` calls when the day changes
(`src/backend/pkg/logger/logger.go:110`; nothing in the repository calls `NewLogger`, the writers of
`zap.go` rotate by size only). The rename and each step after it may fail, the process may die
in between, and the next `Write` opens what it finds. The mill is left out: it works on the
directory of the log (`lumberjack.go:406`) and both Loggers of the program move their files
to `backup/` (`zap.go:73`, `logger.go:28`), so there is nothing in its list. A line has one size.
The name of a file moved aside has milliseconds; two rotations in one are left out, since
a file holds 10 MB.

What is abstracted in the runners: the timer of a check (`TimerFires`) kills the process only if
`spawn` has answered (`WebContainerRunner.tsx:546`); before that the command runs on, so
the action may leave the job running.

## 3. What the runs check

| run | instance | faults | what it shows |
|---|---|---|---|
| `attempts_faults` | 2 attempts of one owner, 1 handler, collector | 2 × store, db | `NoOrphanBox`, `PortsReturn`: no rollback, replacement or collection loses a container or a port |
| `attempts_races` | 1 attempt, 2 handlers, collector | 2 × store, db, kill, crash | `NoOrphanBox`, `TerminatedIsStopped` through overlapping calls and restarts. `KeepsHandover`: each step is one of `BoxCustody`, a crash and the `Reconcile` after it included. `GoneStaysGone`: a record that is gone comes back only by a call that had read it before it went |
| `attempts_all_faults` | 1 sandbox and 1 bundle attempt, 1 handler | 2 of any kind | `TypeOK` whatever fails |
| `attempts_live` | 2 attempts, 1 handler, fair | 1 × store, db, kill, crash | `Reclaimed`: when requests stop, all is freed. `KeepsCustody`: the lifecycle implements `BoxCustody`, its fairness included: no `Start` keeps a container in hand for ever, and what a crash left is removed |
| `attempts_overlap` | 1 attempt, 2 handlers, fair | 1 × kill | `DeadRecordLeaves`, `Reclaimed` although late writes bring a record back |
| `docker_ports` | 2 ports, 3 names, 2 callers | 2 of any kind | `TypeOK`, `PortsAccounted`, `OneOwner`; `KeepsLoans`: pool, calls and map implement `PortLoans`; `CallsAreShort`: each step of a call, its retries included, leaves less to do |
| `docker_stop` | the same, fair | 2 × run, rm, bind, exit | `FreeIsUnbound`, `CallsReturn` |
| `docker_stop`: clock | cutoffs 3 and 2, TTL 13, interval 1, tick 2, writes 1 | 1 failed round in a row; deletes that fail | `NoneExpires`, `CollectedInTime` |
| `session_page` | 2 scenarios, 2 attempts, 2 mutations in flight, 3 clicks, fair | 1 lost request or answer; containers die and are collected at any time | `OwnAttemptShown`; `PassShownIsReal`, with the one exception it names; `StartSettles`; `StatusConverges`: a pass or an end the page does not show yet comes to be shown |
| `session_page`: bundle | 2 sources, a buffer of 4 items cut to 2, 2 checks, 1 typed line, fair timers | sources that fail, a login that is refused, a shell that hangs | `JudgedRight`, `AllAnswered`, `ComesUp` |
| `parts`: editor | 2 bundles, 1 file, 2 texts, 2 checks at once, fair timers | boot, fetch, check write and command fail | `OwnFiles`, `FlushedIsChecked`, `CheckSettles` |
| `parts`: bundle | 3 checks, 2 mounts, fair timer | a bundle that never answers, or late | `NoneForgotten`, `LastCheckSettles` |
| `parts`: accounts | 2 handlers, 1 phone, 1 QQ identity, 1 account, 3 users | 1 failed call or crash | `SameUser`, `OneUserPerPhone`, `RegisteredLogsIn` |
| `parts`: log | 8 lines, 3 to a file, 4 files aside when a midnight may still move one | 2 failures or crashes | `LinesKept` |
| `session_page`, `parts`: all sides | as above | as above | `SidesTypeOK`, `PartsTypeOK` |

Why these sizes. Two attempts of one owner are what it takes for a `Start` to replace
one with the other, and for a late `Delete` to hit the index of the newer. Two
handlers and the collector are the three writers a record can have at once. Two faults
are needed for a failure in a rollback of a failure. Two ports and a limit of two
tries are a pool that runs dry in the middle of a retry. A third attempt is used
by `claim_one_box`, where it is needed. Two scenarios are what a late answer can
confuse; two attempts are an attempt and the one that replaces it; two mutations in
flight are a request overtaken by another; three clicks open a page, act on it and leave
it. Two bundles share one engine; a second file behaves as
the first. Three checks are one that waits, one that replaces it, and one after a late
result. Two handlers are two first logins at once, and three users are one more than
they can make. Eight lines in files of three fill two files and begin a third. The theorems of section 5 lift the bounds.

Two checks are a check that waits, or timed out, and the one that comes after it. A buffer
of 4 items is cut while a check waits, so its window moves away under it. One typed
line makes the flag or hangs the shell.

`parts` puts together four models that share nothing (`MCParts`), `session_page` the page
and the bundle (`MCPage`), `docker_stop` the runner and the clock (`MCBackend`): the
first state chooses which of them moves.

A tick twice as long as the interval is what makes the ticker drop firings and the loop
serve old ones; the TTL is the least that `ClockAssumption` admits. A record may reach its
TTL there: one whose container was stopped while its `Delete` failed.

Symmetry (handlers; attempts of one owner; callers; names) is used in runs that
check no liveness property; the action properties they check are symmetric, too.

`DeadRecordLeaves` and `attempts_overlap` rest on one thing worth knowing:
`Snapshot` removes the members whose record it did not find, also when the record has
been written back meanwhile (a heartbeat between its read and its `Put`). From then on
the collector does not see the record. The container is not lost, because the only
`Put`s that can do so are of attempts whose container is gone or about to be stopped
(`PruneInv`, section 5), but the record only leaves with its TTL: without that
fairness `Reclaimed` fails.

**Fairness.** A handler goes on, since every round trip and docker command has a time
limit or ends by itself; the collector goes on, since its ticker never stops and `tick`
survives a failed call; time passes (`Age`); a record the collector does not see
reaches its TTL (`Expire`); `Reconcile` runs after a start. All of it is weak fairness. No
request, fault or crash need ever happen. The number of faults is bounded, so liveness
says what happens once the calls answer again. On the page the service and the network
answer and the poll's timer goes on while the page is open; nobody has to click. Of the
runners and the Linux bundle only the timers are fair (`CHECK_TIMEOUT_MS`, 8 s for a
source, 25 s for the prompt): no command, write, bundle or machine need ever answer.

Every property has a mutant in `PROJECT.json`: an operator next to the one it
mutates (`UndoRunSkipped`, `StopBoxKeepsPort`, `VisitRunningOnly` …) with a plausible bug,
with which the run finds the property violated.

## 4. Where the code does not do what a comment says

Each of these runs checks one sentence of the repository, and TLC finds a behaviour
that contradicts it.

* `claim_one_box`: "one container per user and slug" (`biz/attempt/usecase.go:107`). A user
  gives an attempt up while the collector, which finds its container stopped, is
  deleting the same record: its `Delete` has read the record. The user starts
  again, and `Put` writes the owner index of the new attempt. The collector's pipeline
  removes that index, so the next `Start` finds none and runs a second container. One
  handler and the collector are enough.
* `claim_auto_restart`: a poll that gets the 409 of a dead container empties the store
  and starts again, and the user does not notice (`Scenario.tsx:64` and `:214`). The query
  client retries a failed query once, whatever failed (`main.tsx:12`); the service has
  ended the attempt with its first answer (`usecase.go:435-452`), so the retry gets
  `terminated` with status 200 and the effect on the error never runs. The user is left
  on an attempt that is over. It restarts only when the first 409 is lost.
* `claim_linux_pass`: "the judge looks whether the file exists"
  (`scenario/bundles/wasm-linux-hello/index.html:5`). The command line of a check contains
  both marks (618), and the check passes as soon as the pass mark is in what the machine
  says (626-627). The terminal echoes the line before the shell runs it, as the display of
  the bundle relies on (566), so every check passes. `JudgedRight` is what is left: a check
  is never judged by the answers to another, and without an echo it is right.

Other divergences, read while modelling and visible in the actions, without a run:

* the collector "keeps the row of a passed attempt" (`usecase.go:15`); its idle `Terminate`
  may have read the attempt as running before a `Check` marked it passed, and saves the
  whole row as `terminated`;
* self-healing does not stop the container "since there is none" (`usecase.go:20`); a ping
  that times out takes that path with a live one;
* a pass that could not be written "is written by the next `Check` or the collector"
  (`usecase.go:533`): `Check` refuses a passed attempt and the collector never writes the row
  of one;
* a container that could not be stopped "is left to the reaper" (`usecase.go:667`);
  `Terminate` removes the record the reaper would find it by;
* the check runs on "the user's latest edits" (`WebContainerRunner.tsx:560`). It runs on
  the files marked at the click. A file loses its mark when a save ends, though the user
  typed meanwhile (467), and when a saved edit is reverted (494), though the file
  still has the edit;
* `Register` "creates a new local account and password credential" (`biz/base/sys_user.go:87`).
  Look-up (95), draw of the identifier (112) and insert (113) are three steps, and `sys_user`
  has no unique index. `GetByAccount` finds the lower identifier, so another `Register` of that
  account, or a QQ login with that nickname, takes the account over in two cases: it had drawn
  its identifier, and not inserted its user, when this `Register` draws; or it drew and
  inserted between the look-up and the draw of this `Register`. `RegisteredLogsIn` is about
  every other case;
* "passed" is written into whatever attempt the store holds when the answer comes
  (`Scenario.tsx:374`): a check answered after the page has a new attempt marks that one as
  passed, until its next poll. It is the exception in `PassShownIsReal`;
* the new log file is opened with truncate "because this should only get called when we've
  moved the file ourselves" (`lumberjack.go:235-236`): a `stat` that fails for another reason
  than a missing file skips the move (219), and the file is emptied with its lines in it. The model leaves this failure out;
* the record of an attempt may say `running` while its row says `terminated`: between the save and
  the delete of `Terminate`, after a delete that failed, or when a heartbeat or a check that read
  it before writes it back. `Get` then answers from the record. `GoneStaysGone` says who may
  bring a record back, `TerminatedIsStopped` that its container is gone, `DeadRecordLeaves` and
  `Reclaimed` that it leaves;
* the window of a check in the Linux bundle begins at an index of the buffer (617), which
  is cut from 32K to 16K (303-305): a check that begins with more than 16K in it and sees the
  cut looks beyond the end, and times out although the shell answers;
* a second check in the Linux bundle takes the listener of the first (654), which is
  answered by its timer only, as failed, also when the shell found the file;
* the heartbeat "stops until the attempt changes" (`src/frontend/src/hooks/useHeartbeat.ts:32`).
  `stopped` is one for all attempts: a late 4xx for the old attempt stops the heartbeat of
  the new one (70), and the collector takes its container after 30 minutes of work;
* the flexbox bundle judges its preview, which follows the editor with 150 ms delay: a check
  at once after an edit judges the style before it;
* the log keeps 200 old files for 30 days, compressed (`zap.go:70-72`); it moves them to
  `backup/` (73), while the mill lists the directory of the log (`lumberjack.go:406`), so
  nothing is ever deleted or compressed;
* identifiers are "unique" (`src/backend/tools/snowflake.go:43`). The number has 9 bits (23)
  and the worker is shifted by 8 (20), so for an odd worker the numbers from 256 on repeat
  those below; after an overflow (55-58) the time of the last identifier is not renewed.
  `GetSnowID` makes a new generator per call, so two in one millisecond are equal;
* giving up a passed attempt does nothing (`usecase.go:660`); the list of
  destruction paths counts it as one (`usecase.go:10-11`). The container waits for the
  passed grace, which keeps `Reclaimed` true;
* the list of the only callers of `runner.Stop` (`usecase.go:8`) leaves out the replacement in
  `Start` and the rollback after a failed `Put`;
* `Reconcile` is said to run before the server serves (`runtime/docker.go:254`); it runs in
  one server's `Start`, next to the HTTP server's. The model lets requests come first;
* `cleanupStale` logs that a failed row is retried by the next tick
  (`server/gcserver.go:252`); the record is already out of the store;
* `OpslabsAttempt.go:24` says a port returns with `Stop`; the self-healing paths never
  call `Stop`, so a container that dies costs its port until the next restart.
  `PortsReturn` is therefore checked without the fault `kill`;
* with more leftover containers on the port range than `dockerRunPortRetryLimit`, a
  failed `Reconcile` is not covered by the retries (`docker.go:266`);
* the passed grace is 10 minutes in the introduction and the page
  (`Scenario.tsx:45-47`), 30 in `server/gcserver.go:40`;
* `portpool.go:16` names a `Reset` that does not exist.

## 5. What is proved

All constants are arbitrary: any sets of attempts, owners, handlers, ports and
names, any `FaultKinds` and `MaxFaults`, under the named `ASSUME`s of the modules.

| theorem | says | assumes |
|---|---|---|
| `TypeCorrect` | `Spec => []TypeOK` | – |
| `GoneIsForGood` | `Spec => GoneStaysGone` | – |
| `NoBoxIsLost` | `[]NoOrphanBox` | `TrueAnswers` |
| `TerminatedMeansStopped` | `[]TerminatedIsStopped` | `TrueAnswers` |
| `NoPortIsLost` | `[]PortsAccounted` | – |
| `NoPortIsShared` | `[]OneOwner` | – |
| `FreePortsAreUnbound` | `[]FreeIsUnbound` | `RunsAreClean` |
| `RetriesAreLimited` | `[]DockerRunner!TypeOK` | – |
| `PortsAreLent` | `Spec => KeepsLoans`: the runner implements `PortLoans` | – |
| `NoCallGoesRound` | `Spec => CallsAreShort` | – |
| `NoPortIsForgotten` | `[]PortsReturn` | `TrueAnswers`, `NoDeaths` |
| `BoxesAreHandedOver` | `Spec => KeepsHandover`: the lifecycle implements `BoxCustody` without its fairness | `TrueAnswers` |
| `RecordsOutliveTheCollector`, `TheCollectorComesInTime` | `ClockSpec => []NoneExpires`, `[]CollectedInTime` | `ClockAssumption` |
| `OwnScenarioShown`, `PassIsTrue` | `PageSpec => []OwnAttemptShown`, `[]PassShownIsReal` | – |
| `ReadyRunnerHasItsFiles`, `CheckSeesTheEdits` | `EditSpec => []OwnFiles`, `[]FlushedIsChecked` | – |
| `NoPromiseIsForgotten` | `FrameSpec => []NoneForgotten` | – |
| `OwnRunIsJudged` | `LinuxSpec => []JudgedRight` | – |
| `OneUserPerIdentity`, `LoginsOfOnePhone` | `AccountsSpec => []SameUser`, `[]OneUserPerPhone` | – |
| `RegisteredAloneLogsIn` | `AccountsSpec => []RegisteredLogsIn` | – |
| `NoLineIsLost` | `LogSpec => []LinesKept` | – |
| `SidesHaveTheirTypes` | `MCSpec => []SidesTypeOK`, of the page next to the bundle | – |
| `PartsHaveTheirTypes` | `PartsSpec => []PartsTypeOK`, of the four parts next to each other | – |

`TrueAnswers` excludes the faults `inspect`, `rm`, `orphan` and `ttl`: the daemon tells the
truth and the collector comes by within the TTL. Failing calls, lost answers,
containers that die and crashes stay in. The assumption cannot be dropped: a ping that
times out and a stop that fails (section 4) are the counterexamples. `RunsAreClean` excludes `orphan` and
`crash`: a docker run that fails after its effect releases a port that is bound, and a new
process starts with a full pool over old containers. `NoDeaths` excludes `kill` and `crash`:
a container that dies is forgotten without a `Stop` (section 4). `ClockAssumption` is what `ReaperClock` says of its constants;
under it a record with a live container does not expire, which is why the fault `ttl` may be
left out of `TrueAnswers`. The accounts' assumption
says that the value `NoOne` is no user number.

**The argument.**

* `TypeInv` adds to the types that a process between two round trips has an attempt
  in hand, and a replacing `Start` an identifier for the next one.
* `OpenInv`: the row exists for everything the store, the batch or a process
  past `Create` names (`RecordsHaveRows` is its part about the store), and a copy that will be
  written back is one the store may hold.
* `GoneIsForGood`: a record comes into the store with the `Put` of a process that has the attempt
  in hand (`OwnWrites`), and a process comes to a `Put` only from a record it found or from
  the row it has just made (`FairPut`). A `Start` makes the row of an attempt that had
  none, so its `Put` is never of one that has been and gone; for this `NewInv` says that a
  new identifier has no row and is in one process's hands. `Alone` puts these together for
  a step of one process, and each action is a case of it.
* `CustodyInv` is inductive next to these. `NoOrphanBox` is not, alone: it needs
  - `HandsInv`: a `Start` that has no row yet is alone with its attempt; at every label
    after a stop or a failed ping the container does not run. So whoever
    deletes a record does it over a dead container;
  - `UnputInv`: until its `Start` has put an attempt in the store, nothing there
    names it and nobody is about to write it;
  - `PruneInv`: when a `Snapshot` is about to prune a member whose container still runs,
    somebody is about to stop that container. This is the step that could lose a
    container, and it holds because only `RecErase` and a half failed `Put` leave a
    live container without a record.

  A step changes one process, so one lemma (`CustodyStep`) takes what a step of `p`
  does to its own attempt and concludes for all of them; each action is then a
  short case.
* `BoxesAreHandedOver`: `RanInv` says that a sandbox attempt with a row has had its container
  and that no container of another kind is ever about to be stopped. With it and `CustodyInv`
  a step of `p` changes the custody of the attempt in its hand only (`HandsOver`), and does so in
  one of the ways `BoxCustody` has (`CustodyMoves`). Between a crash and `Reconcile`,
  `NoOrphanBox` allows a container nobody answers for; that no step but the crash leaves one
  needs more, that a container somebody answers for finds nobody gone (`KeepsListed`, which each
  step lemma of `CustodyInv` proves as well). A crash empties every hand (`CrashImplements`);
  `Reconcile` ends every container, those of requests that came before it too
  (`ReconcileImplements`).
* `ClockInv`: how far an attempt is past its cutoff (`Past`) plus how long the collector may
  still need (`Soonest`) stays below `Slack`. `Soonest` counts the firing that will be
  late enough, the tick before it, and the rounds that may fail; each step of the loop either
  uses up as much of it as time passes or finds the attempt. The other half is that the age
  of the stamp and what is left of the TTL add up to the whole TTL at least, so a record
  that expires is past its cutoff by `Slack`.
* `RunnerInv` (`DockerProofs`): a port is in `used` exactly when one caller or the map has
  it, and never in two collections. `Tracked` adds that the port of a live container is in
  the map or in hand, for `FreePortsAreUnbound`. `PortsAreLent` follows from it step by step: a
  port handed out was in the pool once, so it leaves the pool, and one that is released or
  put aside was in one hand only.
* `NoCallGoesRound`: `StepsLeft` counts what a call may have left, three steps per try; it goes
  down with each step of the call (`ForwardOnly`) and no step of another call touches it
  (`OthersLeaveIt`). This is the bound `CallsReturn` rests on; the theorem needs no fairness,
  the run's property does.
* `HeldInv`: what the runner tracks runs, so `NoOrphanBox` says who will stop it.
* `PageInv` (`PageProofs`): every answer in flight, every fetch and everything in the query
  cache that says passed is of a solved attempt, and solved is for ever (`RowsGrow`). So a
  late word may be put into the wrong attempt (`stray`), and then the attempt it was said of
  is solved (`Misplaced`); it is never made up.
* `RunnerProofs`: a promise is made by the check that waits for it, and the slot is never
  cleared without settling it (`NoneForgotten` is inductive with this). For the editor,
  `Phases` ties the state of the runner to the step of its start, `Files` says whose the
  files are while it mounts them, `Checks` what a check has still to write. For the Linux
  bundle, a mark or an echo anywhere, still to be said or in the buffer, is of a line the
  shell was sent, and agrees with what the shell found; so it does not matter when it is
  read.
* `AccountProofs`: there is one credential per identity (the unique index), a request past
  its look-up carries the user that credential has or none yet, and a user without a credential
  is found again by its phone (`Continued`). Until a `Register` draws its identifier nobody has
  its name (`Nobody`), or it is excepted; from then on no user with that name has a lower
  number, nor is about to get one (`Clear`): numbers are drawn upwards.
* `NoLineIsLost` (`PartsProofs`): with the types, `LinesKept` is inductive. A file is emptied
  only by a step that appended its lines to `backups` (`MovedAside`), and a rotation that
  fails before that leaves it as it was.
* `SidesHaveTheirTypes`, `PartsHaveTheirTypes`: a composition lets one of its components move
  and leaves the others alone, so each component's inductive invariant, proved of its own
  specification, holds in the composition, and the types are in it. For the page they
  need `StageInv` too: the route, the phases, and which requests may be in flight, and how many.

**Only model-checked:** liveness (`Reclaimed`, `DeadRecordLeaves`, `CallsReturn`,
`StartSettles`, `StatusConverges`, `AllAnswered`, `ComesUp`, `CheckSettles`,
`LastCheckSettles`) and the fairness of the refinement `KeepsCustody`, which
are beyond the prover or rest on `ENABLED`. Every other property the runs check is the subject
of a theorem.

## 6. Plan

Done: the attempt lifecycle, its store, the runner and the pool; the collector's clock; the
page, the two runners with a state of their own, the Linux bundle, the accounts and the
log; a theorem for every invariant and action property a run checks, and for both
refinements, the one with fairness as far as its steps go.

What could follow: the clock with several attempts, so that `TickTime` is derived from
their number instead of assumed; and the page of `SessionPage` over `AttemptLifecycle`, whose
service now answers in one step.

## 7. Not modelled

* ttyd proxy: its only state is a cache of reverse proxies whose key is all its entries
  depend on.
* Web sockets: the library handles the events of a connection one by one; the room map
  is written and never read, and no handler sends anything another client waits for.
* Tokens: a signature is checked on its own; nothing is kept that two requests could
  disagree about. Identifiers: arithmetic on one word under a lock (section 4).
* Users, menus, dictionaries, feedback, tracker and scenario queries: one insert, one
  look-up or one list per request.
* On the page: hints, the heartbeat's own timer, the countdown's display, layout.
* The registry of scenarios is a static table; the flexbox bundle answers a check in one
  step. The terminal panel (`src/frontend/src/components/Terminal.tsx`) is unmounted whenever
  its attempt changes by way of a new start, so its probe and its retries run one by one
  (in development, strict mode starts two, which share one timer).
* AI agents and chat adapters: the server does not start them. Generated code (about half
  of the Go lines: protobuf, gorm queries), configuration, static tables, the mock
  runner.

The map therefore covers the small part of the repository that keeps state over
several steps; the rest is generated, display, or one step long.
