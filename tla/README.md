# A TLA+ model of MockVision

MockVision simulates IP cameras. A main service (`mockvision serve`) keeps the
cameras in SQLite, supervises one process per camera, each in its own network
namespace, encodes the media the cameras stream, runs background jobs, and
offers a REST API and a WebSocket to a panel. A privileged network helper
creates the namespaces and the processes.

This directory holds the TLA+ modules that model the service, the TLC
configurations that check them on small instances, and proofs of their safety
properties for every instance. `PROJECT.json` says which definition stands for
which lines of the source, and lists the hazards the properties are for, line
by line.

## Inventory

| Component | State | Operations | What is hard about it | What makes it correct | Module |
|---|---|---|---|---|---|
| Camera supervisor (`app/supervisor.go`, `service.go`, `cameras.go`) | `sessions`, `retries`, `opLocks`; rows `cameras.desired_state`, `camera_status` | start, stop, restart, delete, a session's `run`, `afterFailure`, `retryStart`, `Reconcile`, `bootCameras`, `shutdown` | five kinds of goroutine act on one camera; locks are held across waits; the store, the memory and the runtime can disagree | one session per camera; no start against a stored stop; a stop leaves nothing; orphans are removed; what is wanted is reached; requests and shutdown end | `CameraSupervisor` |
| Job runner (`worker/`) | the `jobs` table; `Runner.running`, answer channels, waiters | `Submit`, `Cancel`, `Resume`, `Answer`, `Wait`, `dispatch`, `execute`, `Ask`, `Save`, `Prune`, `Recover`, `Run` | handlers run outside the lock; a restart loses memory and keeps the table; questions time out while they are answered | one open job per key; the table agrees with memory; answers fit their question; waiters wake; the queue moves | `JobRunner` |
| Media library (`app/assets.go`, `prepare.go`, `media/`) | rows of images, renditions and streams; files and directories; counted encode locks; regenerations | upload, delete, edit, regenerate, encode, prepare, collect, sweep | encoding races collection, the sweep, deletion and edits, and no lock covers a row and its files; jobs go on after a crash from what is left | one encoder per rendition; what a stream points to exists and is of its image; an encoding that ends well is whole; images keep their files | `MediaLibrary` |
| Live updates (`api/hub.go`, `ws.go`, `frontend/src/api/live.ts`) | topics with a sequence number and a buffer; connections with a bounded queue; the browser's last sequence | publish, subscribe, push, reconnect, fetch, revoke | slow and broken connections; a page fetched before its subscription; a revocation during an upgrade | nothing is missed; a revoked credential has no connection | `LiveUpdates` |
| Sign-in and setup (`app/auth.go`) | users, setup code and its file, `loginGuard` | setup, login, lock, evict | requests hash for long between a check and its use; the guard is bounded | one administrator; locks survive a flood | `Accounts` |
| Hash limiter (`app/auth.go`) | slots, pending | `do` | requests leave in five ways | the counters are those inside | `HashLimiter` |
| Sessions and tokens (`app/auth.go`, `tokens.go`) | rows with an expiry | create, authenticate, extend, log out, revoke, retention | a row is read, removed and then written | what was removed stays removed | `Credentials` |
| Audit log and other paged lists (`app/audit.go`) | rows ordered by ULID | insert, retention, list | rows come and go between two pages | a reading is complete and without repeats | `Paging` |
| Imports (`app/profiles.go`, `jobs.go`) | upload and result files, package files, rows | submit, validate, install, clean up, resume, sweep old files | restarts at any step; two imports of one content or one version; a sweep by an old list of jobs | an import that can run has its upload; a package has its file | `Imports` |
| Network helper (`netctl/*_linux.go`) | `cams`, namespaces, links, processes | create, delete, reap, list, shutdown, start over what is left | creates and deletes of one camera overlap and fail half-way; a namespace may have no name | it implements `Runtime`; it answers | `NetHelper` |
| Local runtime (`netctl/local.go`) | `procs` | launch, destroy, reap | a process ends while it is destroyed | it implements `Runtime` | `LocalRuntime` |
| Address probe (`netctl/arp_linux.go`, `link_linux.go`) | none but the network | probe, assign | two hosts at the same moment | one owner | `ArpProbe` |
| IPC connection (`ipc/conn.go`) | pending requests, inbox, socket | `Request`, `Notify`, `Run`, `Close` | both queues are bounded; close races replies | every request ends | `IpcConn` |
| Camera process (`camera/runtime.go`) | engines, sockets, channels | configure, stop, bye | messages while starting; one engine of several fails | ready means serving, failed means not | `CameraProcess` |
| Events and deliveries (`camera/events.go`, `engines/httppush`, `app/events.go`, `targets.go`) | targets on both sides, goroutines per delivery, rows | emit, deliver, retry, report, store, toggle, link, unlink | reports cross edits and stops | no report without its event; deliveries settle | `EventDelivery` |
| Settings of a camera (`app/cameras.go`, `camera_edit.go`, `camera/state.go`) | two copies, in the database and in the process | edit, reload, client change, report, start | neither copy is locked while the other changes | the copies agree | `CameraSettings` |
| Camera catalogue, bulk actions (`app/cameras.go`, `camera_edit.go`, `bulk.go`, `settings.go`) | rows of cameras, protocols, networks, links, targets | create, clone, update, protocols, reset, delete | requests check first and write later | identities are unique, links exist, ports differ | `Catalogue` |
| REST API, engines for HTTP and RTSP, profiles, packages, templates, store, telemetry, sandbox, panel | documents, the operating system | parsing, validation, encoding | little concurrency of their own | not modelled, see below | |

How they meet. The API calls the supervisor and the runner directly, on one
goroutine per request. A session's `run` waits for jobs (`Wait`) that prepare its
streams, asks the runtime (helper or local) to launch the camera and then talks
to it over an IPC connection. Status changes go to the store and through the
hub to the panel. `Service.Run` starts the runner, the reconciler and the
maintenance loop; `serve` runs the HTTP server beside it, so requests are
answered while the node still boots. Imports and renditions are jobs of the
runner. Events and client changes come back over the IPC connection, one at a
time, in the worker of the service's end.

## Modules

In every module a step is one critical section, one call to the store (a
statement or a transaction) or one call to the operating system. SQLite, the
kernel and ffmpeg are external and are modelled by what the code sees of them.
Timeouts and tickers may happen at any moment, unless a module has a clock.
A definition named like "X..." under the comment "A bug:" is a variant of X that
breaks a property; no specification uses it.

### CameraSupervisor

Stands for `app/supervisor.go`, the boot, shutdown and locks of
`app/service.go`, and the lifecycle part of `app/cameras.go`.

* `row`, `desired`, `status` are the store. `SaveStatus` on a deleted camera does
  nothing, as the foreign key error is ignored.
* `sessions` is `Service.sessions`; `phase`, `owner`, `stop` are the session
  objects. `phase` is the program counter of `run` together with its deferred
  function: `provisioning → launching → starting → configuring → ready →
  running`, then `stopping` or `failing → failed → retrying`, then `ending`
  (leave the map), `unmapped`, `done`. Session identities are reused once nobody
  refers to the session.
* `retries` and `due` are the retry entries and their timers: `armed` will fire,
  `spent` fired or was stopped by `shutdown`. A timer whose entry was replaced
  or dropped still runs; `due` counts those `retryStart` calls.
* `opLocks` is the key set of the map, `lock` the holder of each lock.
* `pc`, `cam`, `wait` are the API requests. `RestartCamera` is a stop followed
  by a start. `StartCamera` has a branch in which admission refuses.
* `rec` is a pass of `Reconcile`: the list it read (`todo`, with the desired
  states of that moment), the camera it is at, and what `Live` returned.
* `node`, `toBoot`, `awaited` are `Run`, `bootCameras` and `shutdown`.
* `proc` is what the runtime has for a camera; `faults` counts failed `Destroy`
  calls, refused starts, and stops of the process.

Two pieces are joined in one step when only the holder of the camera's opLock
could tell them apart. `Fail(s)` may happen at any time before a session ends.

### JobRunner

Stands for `worker/runner.go`, `run.go`, `job.go` and their statements. `status`,
`key`, `checkpoint` are the table; `exec`, `cause`, `question`, `answer`, `got`,
`outcome` the executions; `cleanup` whether `Kind.Cleanup` is pending, running
detached or done; `stale` the list `Prune` read; `waiter` the `Wait` calls. Every
method is one critical section under `Runner.mu`, except `Ask` (two, with a
select between), `Wait` (register, read, block) and `Prune` (list, cancel each,
delete). Job IDs grow like ULIDs, so the oldest queued job is the least.
`Unknown` are jobs found in the store whose type has no handler any more;
`Askers` and `Savers` are the jobs whose kind asks questions or saves
checkpoints.

### MediaLibrary

Stands for `app/assets.go`, `prepare.go`, the stream edits of `camera_edit.go` and
`cameras.go`, the files of `media/media.go` and the statements of
`store/db/media.sql.go`. An image and the encoder settings name a rendition: a
row (`rends`), a directory (`dirs`, with a stream, a snapshot and "tmp", what an
unfinished encoding left) and an encode lock (`locks` with the references, `held`).

* The rendition job of each key and the prepare job (`enc`) take the lock,
  encode what is missing and let go; either part may fail.
* The prepare job first plans (`planner`): for one camera after the other it loads
  the bundle, makes the row of the rendition and points the stream at it, with
  the asset of the bundle it loaded. `plan` is what is left to encode.
* `regens` and `regen` are the coalesced regenerations after an edit, with the
  same three steps. The last look at `again` (`RegenAgain`) and the removal of the
  entry (`RegenEnd`) are two critical sections, as in the code.
* A deletion (`del`) removes the row, then the file, then the directories.
* The collector (`col`) tries the lock. `sweepRenditionDirs` takes none: it reads the
  rows, then the directories, then looks at the age of each (`aged`) and removes
  it, each in a step of its own.
* `Restart` is a crash: what is in memory is gone, jobs are interrupted, an
  encoding may leave "tmp" behind; `ResumeJob` and `CancelJob` are what a client
  does with an interrupted job.
* `overlap` and `robbed` are history: images uploaded while the file of their
  deleted row was removed, and directories removed under the holder of their lock.

### The panel's service: LiveUpdates, Accounts, HashLimiter, Credentials, Paging, Imports

* `LiveUpdates` joins `api/hub.go`, `api/ws.go` and the browser's
  `frontend/src/api/live.ts` over one topic: `seq` and `buf` are the topic, `conn` a
  connection with its bounded queue, `last` and `have` the browser, `valid` and
  `revoking` the credentials. `load` is a fetch of the page itself, at any moment; a
  "subscribed" makes the browser fetch again only when it remembered another
  sequence number, as in `live.ts:111`. `joined` is the publication at which the browser
  joined the topic. `crossed` marks a browser that outlived a restart of
  the node or of the topic.
* `Accounts` is the setup code and its file, the wizard, `Login` and `loginGuard`
  with ticks for time.
* `HashLimiter` has one step per atomic operation of `hashLimiter.do`.
* `Credentials` has one table for sessions and tokens; a request reads a row and
  writes it later, and logouts, revocations and retention come between.
* `Paging` draws IDs before it writes rows, so rows appear out of order.
* `Imports` is the import job over the files it needs. It knows of the job
  runner only the status of a job, and interrupts it at any step. All its
  contents claim one version, since versions share nothing. `sweepJobFiles` lists
  the active jobs and the files that are a day old, and `sweepFile` removes the
  others one by one while jobs come and go.

### The network: Runtime, NetHelper, LocalRuntime, ArpProbe

`Runtime` is the abstract specification, from the `Runtime` interface of
`netctl/spec.go`: a camera has one process at a time, which runs only in a place
made for its own launch (`net`), and the place is given back once the process is
gone. Of the places with the camera's name (`held`) there is one; a place without a
name may stand beside it. This is the `proc` that `CameraSupervisor` relies on.

* `NetHelper` handles each request on a thread of its own, bounded by
  `maxHelperRequests`: a create registers its `camProc`, makes the namespace and the
  interface and starts the process, and undoes all of it when a step fails; a
  delete marks, takes the namespace (`cp.ns = nil`), kills, waits, removes. Whether a
  namespace can be mounted by name is chosen at each creation (`named`): where it
  cannot, it has no name, no second one is refused, and it goes with its
  process and the helper. It implements `Runtime` with `net` the namespaces that
  exist, `held` the named ones and `proc` the processes that run.
* `LocalRuntime` implements `Runtime` with `net` the launches whose process is not
  reaped.
* `ArpProbe` has a clock whose tick is the interval between two probes.

### The camera: IpcConn, CameraProcess, EventDelivery, CameraSettings, Catalogue

* `IpcConn` has two ends, each with a read loop, a bounded inbox and a worker;
  the socket between them is bounded too.
* `CameraProcess` has the goroutine of `Run` and the worker that configures.
* `EventDelivery` goes from `Emit` over the http-push goroutines to the rows and to
  `deliveryStatus`, with the targets of both sides: `enabled` and `linked` in the
  database, `camTargets` in the process. `recordDelivery` refuses the report of an
  unknown event (`dropped`) and of a target that is not linked any more (`unlinked`);
  `DispatchEvent` may report failures at once, or give the event up without a report
  (`silent`) when its transport or template is invalid.
* `CameraSettings` has one parameter, the accounts as a version number and the
  set of targets, in the database (`db`) and in the process (`held`), with the
  requests and reports under way between them. `raced` records that a change
  overlapped another one or a start.
* `Catalogue` has the rows of all cameras. A request reads and checks, and one
  transaction writes, failing as a whole on a UNIQUE index or a foreign key.

### MC modules

`MCCameraSupervisor` adds the symmetry of sessions and requests, `SafetySpec` (two
requests at once, or faults beside one) and `OneFaultSpec`. `MCMediaLibrary` keeps a
behaviour within one of three scopes.
`MCPanel`, `MCNet` and `MCCamera` put components that share no state side by side:
`part` chooses the component a behaviour belongs to and the others stay in their
initial states, so one run has the union of their state spaces, not the
product. Every property is about one component, and a component that does not
run enables none of the actions its fairness asks for, so a property of one
component is checked on exactly its behaviours. `JobRunner` is run as it is, and so are
`MediaLibrary` and `CameraSettings` in the runs that expect a violation.

## Runs

| Run | Checks | Bounds |
|---|---|---|
| `supervisor_safety` | `TypeOK`, `OneSession`, `NoOrphan`, `StatusSettles`, `StartsOnlyWhenDesired`, `StopLeavesNothing` | one camera, two sessions, one retry; two requests at once, or one request beside a failed Destroy, a refused start and a stop or crash |
| `supervisor_liveness` | `OrphansRemoved`, `DesiredIsReachedUnlessStuck`, `RequestsReturn`, `ShutdownEnds` | one session, one request, one retry; a failed Destroy, or a stop or crash |
| `retry_stuck` | `DesiredIsReached` is violated | one refused start |
| `shutdown_restart` | `RunStopsEveryCamera` is violated | no request |
| `jobs` | `OneOpenJobPerKey`, `TableMatchesMemory`, `AnswerFitsQuestion`, `HistoryIsKept`, `WaitReturnsOnceRecovered`, `QueueMoves` | a job of an unknown type, one with a checkpoint, one that asks twice; one slot, a queue of one, one waiter, one stop or crash |
| `media_library` | `OneEncoder`, `StreamRenditionMatches`, `ImageFileKept`, `EncodedIsWhole` | two images, one of them built in, one camera, two uploads, two users of a lock, in three scopes: one set of settings, one edit and two activities at once; two sets of settings, two edits and one activity beside the camera's regenerations and jobs, without deletion, collector and sweep; one set, one edit, a crash and one activity beside the jobs |
| `image_reverted` | `LastImageWins` is violated | two settings |
| `image_lost` | `UsedImageKept` is violated | two edits, two uploads |
| `panel` | `NothingMissed`, `RevokedIsCut`, `OneAdministrator`, `LockSurvivesFlood`, `HashesBounded`, `RemovedStaysRemoved`, `PagesComplete`, `ImportFilesKept` | one browser, four publications, one restart, buffers of two; two callers, one name from three addresses, a guard of two entries; four hashers; two visitors, two credentials; five rows, pages of two; two uploads, three contents, one restart |
| `net` | `RequestsAnswered`, `ImplementsRuntime`, `LocalImplementsRuntime`, `OneOwner` | one camera, three requests of which two are handled at once, one failure, one restart; two launches and two destroys; three hosts |
| `camera` | `RequestsReturn`, `ReadyMeansServing`, `NoReportOrphaned`, `DeliveriesSettle`, `AgreeUnlessRaced`, `RowsConsistent`, `PortsDistinct`, `LimitPassedOnlyByRaces` | one request beside three notices, an inbox of two and a socket of one; two engines, three messages; two targets, one event, one retry; two editors, one client, two sessions; two requests at once over three cameras, three requests in all |
| `targets_kept` | `DisabledTargetsReachCamera` is violated | two editors |

Why the bounds are enough. In the supervisor cameras share nothing but the
node, so one camera shows every interleaving; the theorems hold for any number.
Two session identities let an old session meet the next one of the same camera:
a third could only appear once the first is done. One request beside timers and
the reconciler gives three competitors for an opLock; the safety run has two
requests, and so a fourth. `MaxAutoRetries = 1` gives a first failure that arms a
timer and a second that gives up; the code's value only lengthens that
sequence. One slot and a queue of one let one job wait for the other, share a
key or be listed by `Prune` while the other runs; two questions let an answer be
left over. One stop is enough for a state that a crash leaves behind, since a
second crash starts from the same table states. In the media library two
activities at once are enough for a race, and the interesting ones (an edit
against a regeneration, a job against the collector, a deletion against an
upload) are pairs; one set of settings makes them meet at the same directory, and
the scope of edits adds a second one, so that a late reader has other settings than the
stream. One crash leaves every combination of files in a directory that a second
crash would find.
A guard of two entries is full as soon as one lock and one failure are in it. Three
requests to the helper are a create, a delete and another of either, with one
that has to wait for a place. Buffers of two overflow after three messages. Two
requests at once are enough for a check to be overtaken; the limit on cameras
is one, so that both are at it.

Deadlock is checked for the supervisor and the job runner. The other modules
bound the number of calls, and a behaviour may end when all of them were made.

### What the violations show

* **retry_stuck.** `retryPending` looks at whether an entry has a timer, not at
  whether the timer still runs. A retry whose start is refused by admission
  leaves such an entry, and the reconciler skips the camera for good.
* **shutdown_restart.** `shutdown` snapshots the sessions and cancels the
  reconciler only after they ended, and `retryStart` does not look at `closing`. A
  pass under way starts a session nobody stops before `Run` returns.
* **image_reverted.** `streamRendition` writes the picture of the bundle it loaded
  along with the rendition (`assets.go:499`), so a regeneration that an edit
  overtakes puts the old picture back; `cameras.go:972` promises that the last
  change wins.
* **image_lost.** A deletion removes the row and later the file. The same image,
  uploaded again in between and given to a camera, loses its file, though
  `DeleteAsset` "removes an unused asset" (`assets.go:165`).
* **targets_kept.** `Reload.Targets` is left out of the message when it is empty,
  and the camera keeps the targets it has when they are left out. Disabling the
  last target does not reach a running camera (`targets.go:122`).

### Differences without a run

Met while modelling, each a disagreement of the code with a comment or a
document, or an effect a reader should know of.

Supervisor and jobs:

* `bootCameras` resets stored states without the opLock while the API is served:
  a camera started meanwhile runs with both stored states at stopped
  (`service.go:232`; the comment at 214 says none is running yet).
* `opLock` adds an entry for any ID before the camera is looked up, so a request
  that names a deleted camera puts back what `forgetCamera` dropped
  (`service.go:276`, `cameras.go:900`).
* Only inserts are compared with `MaxQueued`; resumed jobs are not
  (`runner.go:363`, `README.md:258`).
* `Prune` cancels by ID what it listed before, also a job resumed since
  (`runner.go:560`, comment at 549).
* A reconciler pass can stop a session that a start made after the pass listed
  the camera as unwanted; the next pass brings it back.
* `StartCamera` can start a camera without asking admission when the session it
  saw ends in between.
* An answer accepted between a question's timeout and `Ask`'s second critical
  section is dropped. A `Wait` made before `Recover` on a row left running is not
  woken by it, which is why `WaitReturnsOnceRecovered` starts where it does.

Media and imports:

* `collectRenditions` leaves the reference it took on an encode lock when
  `TryLock` fails (`assets.go:602`), and the entry stays in the map.
* The sweep looks at the age of a directory and removes it afterwards, without the
  encode lock (`assets.go:637`, 640). An encoder that goes on in an old directory in
  between loses it, though line 619 says that an encoding that just started is spared.
  `EncodedIsWhole` says that nothing but this and a deletion can. It can also remove
  an old directory whose row was just made again; the next start encodes it anew.
* A change between a regeneration's last look at `again` (`assets.go:570`) and the removal of
  its entry (556) sets a flag nobody reads; the comment at 535 promises a further run
  with the latest values.
* A crash between the write of an upload and its job leaves the file, and a restart
  forgets the clean-ups that were due; the hourly sweep removes both after a day. The loser of two contents of one
  version leaves its package file.

Panel:

* The setup-code file may outlive the setup after a crash (`auth.go:89`); the next
  start removes it.
* A page fetches over REST and subscribes on another connection. What is published
  between the two is in neither, and the first "subscribed" does not fetch again
  (`live.ts:111`; the comment at 26 says that reopening the browser shows the right
  state). `NothingMissed` counts from the publication at which the browser joined.
* A browser that outlives a restart of the node can miss messages once the new
  sequence has passed the number it remembers (`crossed`).

Network:

* The second of two overlapping deletes forgets the camera and returns while the
  first still removes the namespace (`helper_linux.go:326`), though `spec.go:133` says
  that `Destroy` removes it and is idempotent. A launch right after it may fail on the
  name, or run beside the old namespace when it has none.
* `Shutdown`'s deletes may return before one that was under way.
* A delete handled before the create it follows was registered leaves the
  camera until the next reconciliation.
* `LocalRuntime.Destroy` returns before the entry is removed, so the next launch
  may be refused once.
* `ArpProbe` finds one owner because the time between the end of a probe and the
  address being assigned is shorter than the probes of another host
  (`MaxDelay < probeCount`).

Camera:

* More requests outstanding than the inbox holds can block both ends
  (`conn.go:70` says so, and 146 is where). A reply to a camera that is gone shuts
  down the service's end with reports still unread.
* A bundle is loaded before the streams are prepared: an edit during a start
  reaches the camera at its next start. Accounts of two editors can be applied
  in another order than they were stored. Reports of two changes can be sent
  in another order than they were applied. `AgreeUnlessRaced` says what is left.
* An event whose delivery row could not be stored, whose engine stopped, whose
  transport is invalid, or whose target was unlinked before the report (which
  `app/events.go:174` refuses) stays pending, as "not reported yet" (300); the deliveries expected are counted when the event is stored,
  not when it was emitted. `DeliveriesSettle` names these cases.
* Requests at once may pass the limit on cameras together (`settings.go:154`).
* `UpdateCamera` writes name, autostart and tags from a bundle loaded before its
  transaction, so that a change made meanwhile is lost, though "nil fields stay as they are"
  (`cameras.go:70`). A profile may be archived between the check and the insert.

### Fairness

* `CameraSupervisor!Fairness`: every session takes its steps, because each wait of
  `run` has a timeout, except in the supervision loop of a healthy camera, where
  `Fail` is not forced; requests that hold their lock go on; timers fire; the
  reconciler's ticker ticks and its pass goes on; boot and shutdown go on. Taking
  an opLock is strongly fair for those who already wait for it (`DeleteSignal`,
  `TimerLock`, `RecLock`): `sync.Mutex` hands over to a waiter after 1 ms in its
  starvation mode. No client is forced to call or to abandon a call.
  `OneFaultSpec` adds a bound on faults; a Destroy that may not fail succeeds, so
  the bound stops no fair action.
* `JobRunner!Fairness`: handlers return (their steps have timeouts, and a question
  expires), the dispatcher's ticker ticks, cleanups and waiters run, the node
  boots. No answer, cancel or resume is assumed.
* `HelperFairness`: the threads of the helper run, and `RunMain` returns when it is
  told to.
* `ConnFairness`: read loops and workers run and handlers return; a timeout is
  never forced, so `RequestsReturn` does not lean on it.
* `DeliveryFairness`: HTTP requests end by their timeout, backoffs by their timer,
  and the worker of the service stores reports.

## Proofs

Every safety invariant the runs check, every action property and both refinements of
`Runtime` are theorems of the component's specification, for every value of its
constants that satisfies the module's assumption. Seven modules hold them:

| Module | Theorems | Specification |
|---|---|---|
| `CameraSupervisor_proofs` | `TypeCorrect`, `OneSessionAlways`, `NoOrphanAlways`, `StartsOnlyWhenDesiredAlways`, `StatusSettlesAlways`, `StopLeavesNothingAlways` | `CameraSupervisor!Spec` |
| `JobRunner_proofs` | `OneOpenJobPerKeyAlways`, `TableMatchesMemoryAlways`, `AnswerFitsQuestionAlways`, `HistoryIsKeptAlways` | `JobRunner!Spec` |
| `MediaLibrary_proofs` | `StreamRenditionMatchesAlways`, `ImageFileKeptAlways`, `OneEncoderAlways`, `EncodedIsWholeAlways` | `MediaLibrary!Spec` |
| `Panel_proofs` | `NothingMissedAlways`, `RevokedIsCutAlways`, `OneAdministratorAlways`, `LockSurvivesFloodAlways`, `HashesBoundedAlways`, `RemovedStaysRemovedAlways`, `PagesCompleteAlways`, `ImportFilesKeptAlways` | `LiveSpec`, `AccountsSpec`, `HashSpec`, `CredentialsSpec`, `PagingSpec`, `ImportsSpec` |
| `Net_proofs` | `ImplementsRuntimeAlways`, `LocalImplementsRuntimeAlways`, `OneOwnerAlways` | `HelperSpec`, `LocalSpec`, `ArpSpec` |
| `Camera_proofs` | `ReadyMeansServingAlways`, `NoReportOrphanedAlways`, `AgreeUnlessRacedAlways` | `ProcessSpec`, `DeliverySpec`, `SettingsSpec` |
| `Catalogue_proofs` | `RowsConsistentAlways`, `PortsDistinctAlways`, `LimitPassedOnlyByRacesAlways`, `CloneOffersFree` | `CatalogueSpec` |

A theorem named `PAlways` says `Spec => []P`, or `Spec => P` when `P` is an action
property or a refinement. The theorems are about each component's own
specification; the runs `panel`, `net` and `camera` check the same components put
side by side, where each behaves as in its own specification.

### From which assumptions

The assumptions are named in the modules that declare the constants. Besides
bounds that are naturals and absent values that are not members of the sets
they are absent from, they say:

* sets of goroutines that a counter counts are finite (`Hashers`, the `Workers` of
  the catalogue, and the `Images` and `Settings` whose renditions share encode
  locks), and so are the `Targets` an event expects reports of;
* launches and destroys of the local runtime are different calls;
* `MaxDelay < probeCount` in `ArpProbe`: the kernel assigns an address before
  another host is done probing. `OneOwner` is false without it;
* limits of the code that are positive constants (cameras per node, workers, hash
  slots, pages, buffers, socket and queue sizes) are positive, and a parameter has
  at least one value;
* the values `none`, `keep` and `prepare` are not names of settings.

No theorem limits the number of cameras, requests, jobs, uploads, restarts or faults.

### The inductive invariants

Hardly any of the properties is inductive. What each needed besides:

* **Supervisor.** `Typed` is `TypeOK` with `Targets`: a session whose `run` has not
  ended, a request that has not returned and a pass that starts or destroys
  are each about a member of `Cameras`. `Safe` is `LockHeld` (a request between
  taking and releasing an opLock is the holder of its camera's lock, and so
  are the timer and the reconciler between `RetryLock` and `RetryFinish`, during
  which the camera has no session), `OneSession`, `MapAgrees` (a session in the
  map is one whose `run` has not ended, for that camera) and `NoOrphan`. `LockHeld`
  is what excludes a second session: whoever calls `StartSession` holds the
  opLock, found no session under it, and everybody else who could have added
  one needs the same lock. `Wanted` adds that an automatic start that holds the
  lock read `running` under it; every API request that writes `desired` needs
  the lock, and `bootCameras`, which does not, writes `running` for the cameras
  with autostart that the property is about. `Settled` adds that a session whose
  run is over has saved its outcome before it leaves the map, which
  `OneSession` protects from any other session; `Waiting` that the session a
  StopCamera waits for, or none, is the one in the map.
* **Jobs.** `RunnerInv`: an execution has a row that says running or waiting and
  the reverse (`MemoryMatches`), rows with numbers to come do not exist
  (`RowsAreOld`), and a buffered answer is to the last question (`AnswersFit`).
* **Media library.** `StreamInv` follows the asset and the rendition that an edit, a
  regeneration or the planner carries from one transaction to the next: they belong
  together, and the two foreign keys decide whether they still exist. `PlannerInv` says so of
  the planner, which carries them past edits of the camera. `FileInv` orders file and row: written
  before the row, removed after it; the exception is `overlap`, for an upload and a late
  removal at once. `LockInv` relates the references of an encode lock to its users: the
  count is never below the number of jobs and collector passes between taking and
  dropping it (the collector may leave a reference behind), so that the object a user
  waits for is the one in the map and only one user of it holds it. It is the
  longest proof, by cardinalities of the sets of users. `WholeInv` is built on it: while an
  encoder holds the lock nobody else adds to its directory and the collector keeps
  off, so the stream it found or made is there until it is done, unless the
  directory is in `robbed`; a crash releases every lock, and what it leaves is what the
  next holder looks at.
* **Live updates.** `HubInv`: the buffer holds the last publications without a gap.
  `Served`: what is queued for a browser is in order, and what the browser has
  and the queue together leave no gap behind the sequence number it remembers,
  unless it was told to load everything anew. The property counts from the
  publication at which it joined, which is what a browser that fetched too early misses.
* **Accounts.** `AccountsInv`: the request that created the administrator is the
  only one that did, and there is no other account. `LockSurvivesFlood` is proved for a
  guard of any size: it evicts a locked entry only when every entry is locked. A flood
  that locks every entry does lift a lock; the property leaves that case out.
* **Paging.** What was read is newest first and has every row that stayed down to
  the cursor (`PagingInv`). `RowsNewestFirst` proves what a page holds, from the
  ranks of the rows: a page is defined by the number of rows above each.
* **Credentials.** Identities are given once: `issued` is a natural that only grows.
* **Imports.** Uploads and packages are followed through the steps of the import
  (`UploadsKept`, `PackagesKept`), and so is the sweep: an old file it has yet to remove
  belongs to a job it listed or to one that was over by then, and no job comes back.
* **Network.** `HelperInv`: a process runs only in the namespace its own create made,
  a request that has not begun has made nothing, a delete that stops a process
  works on a create that is over, and at most one namespace has a camera's name. `ArpInv` compares the ages of the probes of two
  hosts (`ArpPair`).
* **Camera.** `ProcessInv`: until it is configured a camera serves exactly the
  engines that the attempt under way has started. `DeliveryInv`: in the queue of
  reports an event comes before its deliveries. `AgreementInv`: while nothing has
  raced at most one change is under way, and it carries the whole difference
  between the two copies.
* **Catalogue.** `RowsInv`, `PortsInv` and `LimitInv`: a request at its insert was
  counted when it read the number of cameras. `CloneOffersFree` is a theorem
  about the numbers `BulkClone` draws, by well-founded induction over the
  numbers below the one offered.

### The refinements

`ImplementsRuntimeAlways` maps the helper's namespaces to `net` and its processes to
`proc`; `LocalImplementsRuntimeAlways` maps the launches. Each has the initial
states, and one step per action: a create's namespace, interface and start are
two steps of `Runtime` and a stutter, a failed create undoes them, a delete is
the end of the process and then the release of the place. When the helper dies
its unnamed places go with it (`Die`).

### How the proofs are laid out

A preservation proof has one step per action; actions that leave the variables
of a part alone share a lemma. Facts that several steps need (what a lookup
returns, what a queue holds after a push, how a count changes with one user)
are lemmas of their own. Temporal reasoning is confined to the last step of a
theorem.

### Only model-checked

* Every liveness property (`OrphansRemoved`, `DesiredIsReachedUnlessStuck`,
  `RequestsReturn` of the supervisor and of the connection, `ShutdownEnds`,
  `WaitReturnsOnceRecovered`, `QueueMoves`, `RequestsAnswered`, `DeliveriesSettle`):
  fairness and `ENABLED` are out of the prover's reach.
* The properties of the runs that expect a violation, which are false.
* That the side-by-side modules behave as their components.

Worth proving next: that the specifications of `MCPanel`, `MCNet` and `MCCamera`
imply those of their components; type invariants of the modules that have none
of their own; bounds that liveness leans on, such as the inbox of a connection
never holding more than it may.

## Not modelled

* What a running camera sends besides events and client changes (telemetry,
  notices, clients), the reasons shown for an exit, the announcements after an address
  is taken, and the service's own reservation of namespace names (`releaseNetns`).
* The job runner's event log, live progress and the contents of results.
* Failures of single SQL statements and file writes, other than those named
  above; concurrent launches of one camera, which the supervisor excludes
  (`OneSession`).
* In the media library, two deletions or two prepare jobs at once; `os.RemoveAll` of a
  directory is one step, and all that unfinished encodings leave in one is one "tmp".
* In `LiveUpdates`, how a message is merged into the pages of a list; a fetch takes the
  state of the node in one step, when its answer arrives.
* In `IpcConn`, several requests outstanding on one end: `conn.go:70` warns of them.
* In `CameraSupervisor`, what a failed Destroy leaves is only said to be removed in
  the end: `NoOrphan` and `StopLeavesNothing` speak of behaviours without one.
* Wall-clock times, except in `Accounts`, `Credentials` and `ArpProbe`, which count
  ticks.
* Parsing, formatting and validation (profiles, packages, templates, HTTP,
  RTSP), the panel but for its live client, the sandbox's system calls,
  telemetry sampling: they keep no state that two actors share.
