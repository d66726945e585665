# Piston in TLA+

Piston is a code-execution engine: an HTTP and WebSocket API accepts
submissions, runs each in an Isolate sandbox under a bounded number of job
slots, and installs the language packages the submissions run on. This
directory models the API server of `src/api/src`, with the client that
provisions it, in TLA+, model-checks it with TLC on small instances and proves
its safety properties with TLAPS for every instance.

## Inventory

| Component | Source (`src/`) | State it keeps | Operations | Hard part |
|---|---|---|---|---|
| Job slots | `api/src/job_slots.ts` | free counter, FIFO of parked callers | acquire, release | the counter is decremented by the woken caller, a microtask after release |
| Job | `api/src/job.ts` | job state, dirty boxes, box id counter | prime, execute (compile, second box, run), cleanup | every path must release the slot once; kill signals arrive at any moment; box ids wrap; a cleanup that fails is only logged |
| Stage result | `api/src/job.ts` `safe_call` | captured output, limit status, signal, metadata | output chunks, limits, signals, exit, metadata | four sources decide code, signal and status; the metadata may be missing, empty or cut short |
| HTTP transport | `api/src/api/v2.ts`, `index.ts` | none beyond the job | execute, runtimes, packages, operations | cleanup on every path; a failed cleanup replaces the answer |
| WebSocket transport | `api/src/api/v2.ts`, `typed_emitter.ts`, `protocol.ts` | job, event bus, init timer per connection | open, message (init, data, signal), close, timer | messages, timer, close and job race each other |
| Operations | `api/src/operations.ts` | operations by id, one in flight per package | start, log, settle, prune, list | one in flight per package, settle once, bounded history |
| Operation watchers | `api/src/api/v2.ts` | listeners per socket | open (replay, follow), close | replay and live events must join without gap or repeat |
| Packages | `api/src/package.ts` | package directories, install marker | install, uninstall | partial failure, races, crash between steps |
| Runtimes | `api/src/runtime.ts` | registered runtimes; what each has read of its directory | load_package, unregister, resolve, compiled, env_vars | duplicates, stale entries and caches, crash and boot, the order versions are tried in |
| Package sources and index | `api/src/package.ts`, `package_index.ts` | archives and contents in a package directory | fetch, check, extract, build, fetch_index | a download is on disk before its digest is known; retries; what a failure leaves |
| Submission validation | `api/src/api/v2.ts` `get_job`, `job.ts` | none | constraint checks, limits, encodings | zero, negative and unlimited limits; two checks of one thing by different rules |
| HTTP routing and body gate | `api/src/index.ts` | none | routes, read_json_body, fallback | one gate in two places |
| Boot | `api/src/index.ts` | runtimes from disk | configuration, manifests, scan, serve | what a crash left behind; one bad manifest or option keeps the server down |
| Configuration | `api/src/config.ts` | the options | parse, validate, resolve | three levels of overrides, NaN, wildcards |
| Manifests | `api/src/manifest.ts` | the catalogue | parse_manifest, load_manifests | a dozen forms a document may take |
| Manifest validation | `api/tools/validate-manifests.ts` | none | aliases of engines across manifests | it judges all versions of a package together |
| ppman | `cli/commands/ppman.ts` | rules, listing, operations of one run | spec, install, uninstall, list | a fold with negation over a listing that others change meanwhile |
| Execute client | `cli/commands/execute.ts`, `cli/api.ts` | a terminal | execute | I/O only |
| Globals, errors, logging; migration, images and build scripts | `api/src/globals.ts`, `error.ts`, `logger.ts`, `api/tools`, `images` | none | | constants and batch scripts |

Interaction: a request or a socket's `init` makes a `Job`; the job takes a slot,
boxes and runtimes (by reference) and reports to the HTTP response or to the
socket's event bus. `POST`/`DELETE /api/v2/packages` and the operations both
drive `Package.install`/`uninstall`, which change the package directories and
the list of runtimes that `get_job` resolves against; only operations ask whether
another call is at work on the package. `ppman spec` is a client of
the synchronous ones. What limits a job runs under is decided in three places:
the options of the environment, the overrides of the package, and the request.
Everything runs on one
JavaScript event loop; isolate, the file system, curl and the clients are the
other actors.

## Modules

| Module | Models | Extended or used by |
|---|---|---|
| `SlotPool` | what a pool of slots promises: callers queue, the first in the queue is granted a slot while fewer than `Capacity` are held, holders return theirs | `JobSlots` refines it |
| `JobSlots` | class `JobSlots` | `Sessions` instantiates it for the slots of its jobs |
| `Sessions` | jobs, the HTTP and WebSocket transports, the event bus | `MCSessions` |
| `Boxes` | isolate boxes, their ids and their cleanup | `MCBoxes` |
| `Stage` | a stage of a job as the rest of the job sees it: handlers on the bus, a process, its metadata, at most one kill that counts, one verdict | `StageResult` refines it, and so do the stages of each job of `Sessions` |
| `StageResult` | `Job.safe_call`: one stage and its verdict | `MCStageResult` |
| `Operations` | `operations.ts` and the sockets that watch operations | `MCOperations` |
| `Packages` | package directories, the registry of runtimes, boot | `MCPackages`; `Install` refines it |
| `Config` | what `config.ts` makes of an environment | `Runtimes` extends it |
| `Runtimes` | `load_package`, the limits of a runtime, matching, the latest of those that match | `Submissions` extends it |
| `Gate` | routes, the body gate and the fallback of `index.ts` | `Submissions` extends it |
| `Submissions` | from the environment through the registry and a request to a job's limits | `MCSubmissions` |
| `Manifests` | `parse_manifest`, `load_manifests`, the validation of a catalogue | `Install` extends it |
| `Install` | the three ways a package is installed, step by step, and uninstall | `Provision` extends it |
| `Provision` | `ppman spec` on a server, beside other clients | `MCProvision` |
| `JobSlots_proofs`, `Sessions_proofs`, `Boxes_proofs`, `StageResult_proofs`, `Operations_proofs`, `Packages_proofs`, `Submissions_proofs`, `Provision_proofs` | the theorems about the module of that name | `Sessions_proofs` instantiates `JobSlots_proofs` |
| `MC*` | the model values of the instances TLC checks | |

`Config`, `Runtimes`, `Gate` and `Manifests` are operators over data, without
variables; the modules that extend them put them to use.

`PROJECT.json` names, for every definition, the lines it stands for.

### One step of the event loop

The server is single-threaded JavaScript. A step of a model is what the program
does between two waits: an event handler with the promise continuations it
leads to, since the microtask queue is drained before the next event. This
decides where interleavings exist.

- `JobSlots` and `Sessions` keep one microtask apart. `release()` increments the
  counter and resolves the promise of a parked caller; the caller decrements the
  counter in a continuation that runs later. `woken` is the queue of these
  continuations. A new `acquire()` starts from an event and so finds that queue
  empty (`MicrotasksDrained`); `release()` may run in a microtask.
- `Operations`: the `then`/`catch`/`finally` chain of `start()` runs through
  before the next event, so settling, leaving `in_flight` and pruning are one
  step, as is everything a socket's `open` handler does.
- `Packages` and `Install`: a call is cut at every `await` on the file system or
  the network, and other calls run there, on the same package as well. `Install` cuts the downloads, the
  unpacking and the scripts, which `Packages` takes for one step.
- `Submissions`: `get_job` has no await, so a request is validated against one
  state of the registry; the runtime is read again when the stage starts.
- Closing a socket from the server is split in two, the call of `ws.close` and
  the `close` event. uWebSockets calls the handler synchronously; delivering it
  later as well covers both, and no message is delivered after the call.

### State and actions

**`JobSlots`**. `available` is `#available`, `waiting` is `#waiting`, `held` the
callers between `acquire` and `release`. `Acquire` is the synchronous part of
`acquire()` (`AcquireNow`, `AcquirePark`), `Resume` the continuation, `Release`
is `release()`, which asks nothing of its caller. `SlotsSpec` is the class with
callers who pair their calls; that the jobs are such callers is a property of
`Sessions` (`SlotsPaired`).

**`Sessions`**. A job's `pc` is the await it is at: parked in `acquire`, in
`isolate --init`, writing files, in a stage, reading metadata, making the second
box, moving files, cleaning up. `Execute`, `Open`, `InitMessage`, `DataMessage`,
`SignalMessage`, `BadMessage`, `BadSignal`, `InitTimer` and `CloseEvent` are the
handlers; `BoxReady`, `FilesWritten`, `ExitEvent`, `StageFinished`,
`SecondBoxReady`, `FilesMoved`, `CleanupDone` and their failing counterparts are
the continuations. `listening` holds the stages whose handlers are on the event
bus, `frames` what the client was sent, `closeCode` what its socket was closed
with. `ProcEnds` is isolate. `Unlimited` has the stages without a wall-time
limit, which a request gets by asking for a timeout of zero; `Endless` is such a
stage whose program runs.

**`Boxes`**. A *lease* is a value of the counter behind `get_next_box_id`, so
`Id(lease)` is the box id and two leases may share one. `sandbox` and `metadata`
say whose lease last made what is on disk under an id; `dirty` is
`#dirty_boxes`; `cleaning` and `removing` are the `isolate --cleanup` and
`fs.rm` commands still running. Each of them either removes what it was to
remove, or fails and is never tried again (`CleanupFails`, `RemovalFails`);
`uncleaned` and `unremoved` are history, the leases the log names. A runner is a
job slot and whatever job holds it.

**`StageResult`**. `kept` is the length of the captured strings, `limit` the
local `status` as `abort_for_output_limit` left it, `killed` is
`killed_by_signal`. `Keep`, `AbortForOutputLimit` and `Signal` are the handlers
during the stage, `Exit` the `exit` event, `Return` and `Throw` what follows the
reading of the metadata; `Report` is the object returned, composed in the code's
order: `Status`, then `Signalled`, then `Killed`. When isolate is taken out, or
cannot write, the file is missing, does not parse (`NoVerdict`), or has been
opened and says part of a verdict or nothing (`CutShort`), which the code reads
without complaint.

**`Stage`** keeps of a stage what its job goes on: the handlers are on the bus
from `Begin` on, the process `Starts` or never does, `Signal` is a SIGKILL for
whoever listens, `Ends` leaves an exit code in the metadata or takes the metadata
with it, and the stage comes to `Finish` with one of three verdicts (passed,
failed, no exit code) or to `Throw`. `StageResult` has the detail of one stage
and not the job; `Sessions` has the job and of the stage only this much. Both
implement `Stage`, which is what makes the three verdicts of `Sessions` the
verdicts of `safe_call`.

**`Operations`**. A log line is its number, so the log that is kept is an
interval and a gap or a repeat in what a watcher receives shows as a difference
other than one. `Start`, `Work`, `Settle` are `start()`, its log callback, and
its promise chain; `Connect`, `Open`, `CloseEvent` the sockets.

**`Packages`**. `exists`, `info` and `marker` are the package directories, their
`pkg-info.json` and the marker `Package.installed` looks for; `runtimes` counts
a package's entries in the registry (one for all the languages it provides);
`step` is the await a call is at. An operation asks `in_flight` (`Admit`), a call
of the synchronous endpoints asks nobody. `RemoveSome` lets a recursive removal
take files in any order; `DirectoryFails`, `InstallFails` and `UninstallFails`
are what rejects on the way, with everything left as it is by then. At first the
server is down and may find packages and residue on disk. Three variables are
history: `deleted`, removals begun and not completed; `halfway`, installs that
failed with their runtimes registered; `raced`, packages on which a call was
started beside another, until a removal that is alone, with nothing listed,
leaves no trace of that. A property that excepts `raced` says nothing of such a
package, as the code keeps nothing of it: two installs register twice and remove
each other's files.

**`Submissions`**. `env` is the environment, `config` the options it resolves to
(`Boot`). A call on a package removes, fetches, writes, registers, marks or
deletes, which is as much of `Packages` as a submission can see: `exists`, `disk`
and `marked` are the directory, its package files, which come and go together,
and the marker. `disk` numbers the writings of the files, so that what `compiled`
and `env_vars` remember can be told from what is there now. `Fails` leaves what
was done, so an install that fails after `Register` leaves its runtimes listed,
and the next `Install` removes the directory under them; `disturbed` has the
packages where that, or a race, has happened. `Handle` is a request on any
route: `Refuse` and `Miss` are the gate and the fallback, `Lookup` the routes
that read, `Reject` and `Submit` `get_job` with `Job`'s constructor, the rest the
routes that manage packages. `StartStage` and `StageFails` are the first stage
as far as it reads the runtime. One job is followed at a time.

**`Install`**. `tree` is what a package directory holds: itself, archives by the
digest of what arrived, contents by source and digest, what scripts made,
`pkg-info.json`, the other package files, marker. A URL serves one of several
contents, a different one each time perhaps. `Plan` chooses between the engine's
sources, a build and the prebuilt archive of the index, as `install()` does;
`AskIndex` and `AskAgain` are `fetch_index` with its attempts; `FetchSource`
overwrites whatever archive lies there and checks the digest of its own stream,
`Extract` unpacks whatever lies there by then; `InstallFails` is whatever rejects
on the way; `Close` is the end of either path with the removal of the archives,
`CloseFails` one in which some cannot be removed (`littered`). The calls are those
of the synchronous endpoints and race for a package as they do there. `Crash`
leaves `tree` and forgets the rest. `Manifests` holds every check on a document;
a value of the wrong type is `Junk`, and a document is the function from its keys
to its values.

**`Provision`**. `ReadSpec` reads a spec file and the listing and computes the
operations by `EnsurePackages`, the fold of `Apply` over the rules, or fails when
the server is not up (`ReadFails`); `Send` and `Receive` are the loop over them,
and `OtherRequest` another client, at any moment and on any package. Whether a
line is a comment or a negation is decided on its first character, so an
indented mark is part of the selector, as in the code.

## Checks

| Run | Bounds | Shows |
|---|---|---|
| `job_slots` | 5 callers, 2 slots | order, no lost wakeup, progress, refinement of `SlotPool` |
| `sessions` | 1 request and 1 socket, both compiled, each with one stage that has a wall-time limit and one that has none, 1 slot | the conversation on a socket and its close codes, slots held by live jobs and paired, a killed compilation is the end, kill on close, every job settles and every socket closes unless a program without a limit runs for good |
| `sessions_abandoned` | the same, only the socket's job compiled | divergence 1 |
| `boxes` | 2 slots, 2 ids, 3 leases, every command may fail, restarts | isolation while no id in use is reissued, nothing left behind that the log does not name, everything else cleaned up once its job's stages end |
| `stage` | limit 4; chunks of 1, 4, 5 bytes and one of 2 bytes and 1 character; one signal of each sort; metadata whole, cut short, empty, unparseable or missing | capture is bounded and the verdict is the right one; refinement of `Stage` |
| `operations` | 3 operations, 2 packages, 1 watcher, 1 retained, 1 line kept of up to 2, two ends at one time | one in flight per package, retention, replay, release of watchers |
| `packages` | 2 packages, 2 calls through either endpoint, 2 registrations of a package at a time; every step may fail; crashes | registry, disk and boot agree; residue is never taken for a package |
| `packages_boot` | 1 package | divergence 2 |
| `submissions` | 9 environments, one of which is valid, 2 limits, 2 packages (one with two languages, one of them the other's), 2 calls at once, 2 writings of package files, requests each right or wrong in one respect | limits, choice of the runtime, caches, entrypoints, gate |
| `submissions_zero` | the same | divergence 3 |
| `provision` | 3 packages, 22 manifest directories with one file amiss, 3 good ones, an index of 4 lines, 2 attempts, 3 spec files, 1 request of others, 1 crash, 3 registrations of a package at a time | what is unpacked, what an install leaves, what `spec` reaches and that it ends; refinement of `Packages` |
| `catalogue_aliases` | the same | divergence 4 |

Why the bounds are enough. Two holders and three parked callers give a queue
that is passed to, overtaken in the altered models, and drained; two slots the
states with two wakeups in flight. One slot shared by an HTTP job and a socket
makes each park behind the other; two compiled stages are the most a job has.
Three leases of two ids wrap the counter once, which is all that matters: what
is at risk is decided by whether an id in use is issued again. An output chunk
of each relation to the limit, twice, reaches every branch. One finished
operation retained and three started reach every pruning, and two lines reach a
log of one before and past its cut. Two calls suffice for `Packages`: the second
is what makes a package one that is raced for, of which nothing more is said. The
environments that keep the server down have an option that does not parse, is
out of range, or fails on one of the three levels of overrides; the one that does
not has a limit as an option, one overridden for a language and one overridden
by a package, and a limit that is not limited; a request is wrong in one respect
because `get_job` returns at the first. Two versions of a language and a second engine
that provides it are what the rules of a spec file, the choice of the latest and
the aliases tell apart; two attempts give a first and a last. The index has a
line without a digest, one of another version, and two of the same, of which the
first counts. The named bounds are `MaxLeases`, `MaxBoxId`, `MaxAppended`,
`MaxClock`, `Calls`, `MaxRegistered`, `MaxInstalls`, `MaxOthers`, `MaxCrashes` and
`Attempts`; the box ids are 999 in the code, the retained operations 50, the lines 5000, the
attempts 5. The proofs are for every value of all of them.

Deadlock is checked for `JobSlots` only. In the other modules the system may
stop for good: clients go home, box leases and operations of the instance are
used up.

### Fairness

- `JobSlots`: queued continuations run (`Resume`), and a holder gives its slot
  back. The second is a contract on the holders. `JobsSettle` of `Sessions`
  discharges it for the jobs whose programs end; a slot whose job runs in a stage
  without a wall-time limit is held for as long as its program runs.
- `Sessions`: the event loop takes every continuation that is ready and fires
  timers and close events; isolate ends every stage that has a wall-time limit.
  Not every stage has: a request may ask for a timeout of zero, which `get_job`
  lets pass and isolate takes for none (`v2.ts:140`, `161-174`, `job.ts:288`). The
  constant `Unlimited` has such stages, and nobody is assumed to end them, so
  `JobsSettle` and `SocketsClose` promise the end of a job unless it, or every
  holder of a slot it waits for, is in such a stage for good. Clients owe
  nothing: none ever has to send a message or leave.
- `Boxes`: isolate's and the file system's commands return, perhaps with an
  error, but for `isolate --run`, whose program nobody promises to end;
  `DiskIsCleaned` excepts the boxes of a job with a stage that runs for good.
- `Operations`: the event loop delivers the `open` and `close` events of a
  socket. Nobody promises that an operation ends.
- `Provision`: the client takes its next step, and what a call waits for, the
  network, an archiver, a script or the disk, answers or fails. The server need
  not come up, nor again after a crash: the client's requests fail then. A
  download that hangs is not covered; the code sets no timeout on one.
- `Packages`, `StageResult` and `Submissions` state no liveness.

### Where the code and its documentation part

Each of these is a run TLC ends with a counterexample.

1. `sessions_abandoned` / `AbandonedSandboxReleased`. The readme promises that
   closing the WebSocket releases the sandbox at once (`readme.md:382`). The
   close handler emits one SIGKILL to whoever listens; a job that is parked,
   priming or between its stages has no listener, and later runs its stage for a
   client that has left.
2. `packages_boot` / `BootSucceeds`. `operations.ts:10` relies on boot to derive
   the state from the directories. A removal cut short may leave the marker
   without `pkg-info.json`; boot then throws and the server does not come up.
3. `submissions_zero` / `ZeroIsAbsent`. The contract test says that a limit of
   zero is ignored like one that is absent (`contract.test.ts:271`). Validation
   does skip it; `limit()` then takes the number as it is, and the job runs under
   a limit of zero.
4. `catalogue_aliases` / `EngineHasAnAlias`. `docs/api-v2.md:70` guarantees every
   engine of a shared language an alias of its own, as the validation of the
   manifests enforces. The validation takes the aliases of all versions of a
   package together; with a version installed that declares none, the engine has
   none.

Seen while modelling, without a run of their own:

- Box ids are issued without a look at those in use: a job that is alive when the
  counter comes round shares its box. `AloneInTheBox` states what does hold.
- A program that exceeds its output limit and exits before the SIGABRT reaches it
  is reported with its exit code and SIGKILL, while `docs/api-v2.md:104-105` has
  `code` null if there is a signal and `signal` null if there is a code.
  `CodeOrSignal` says of both documented rules where they fail: code and signal
  stand together exactly after an exit code and an exceeded output limit.
- A metadata file that was opened and not written to is read without a complaint
  (`job.ts:447`), and the stage is reported with neither code, signal nor status.
  `LostVerdictIsNoSuccess` and `CodeOrSignal` say exactly when.
- A sandbox whose `isolate --cleanup` fails, or a metadata file whose `fs.rm`
  fails, is logged and stays (`job.ts:616-632`), against `readme.md:491`, until
  its id comes round.
- `operations.ts:111` rules out two installs racing for a directory; the
  synchronous endpoints install without asking `in_flight` (`v2.ts:309-318`). Two
  of their installs register a package twice, remove each other's files, and one
  may unpack an archive the other has replaced since its digest was checked.
- A removal that fails half-way may leave the marker: the package is neither
  listed nor installable until the next boot, which may throw on it. An install
  that fails after registering leaves its runtimes listed, and the retry removes
  their directory.
- A watcher that attaches after 5000 lines is replayed the last 5000 and a
  count, while `docs/api-v2.md:347` says that it "still sees everything".
- `runtime` is given for every package with a `provides` list, of whatever
  length, while `docs/api-v2.md:23,99` speaks of languages several engines serve.
- A submission in the language `file` with no files is accepted and then fails
  with a 500.

## Proofs

All are checked by TLAPS, for every value of the constants that satisfies the
named `ASSUME`s of the module. No theorem rests on another module's by trust:
`Sessions_proofs` cites `JobSlots_proofs` through `INSTANCE`, with the slots of
its own jobs put in for the callers.

| Theorem | Argument |
|---|---|
| `SlotsInvariant`, `SlotAccountingHolds`, `NoIdleSlotHolds` | `SlotsInv`: none of its parts is preserved alone. That a woken caller finds a slot needs that wakeups never outnumber free slots (`WokenHaveSlots`); that needs every free slot to be promised while callers wait (`NoIdleSlot`); and the count of `held` needs every caller to be in one place (`OnePlaceEach`). |
| `FirstComeFirstServedHolds` | the line `woken \o waiting` only loses its head, and a caller admitted at once finds it empty, by `NoIdleSlot` and the drained microtasks |
| `PoolRefinedHolds` | with that line as the abstract queue: `acquire` is an arrival, served at once or queued, a continuation that resumes is a grant, and waking leaves the queue as it is. That `acquire` looks at the counter and the abstract pool at the holders and the queue is bridged by `SlotsInv`. |
| `SlotsPairedHolds` | `PairingInv` ties each job's `pc` to its place in the pool: not yet asking, parked, or holding. Then a job's every `acquire` and `release` is a step of `SlotsSpec`, and everything else leaves the slots alone. |
| `SlotsHeldByJobsHolds` | `HeldInv` gives the other direction, who holds a slot is past `prime` and not yet cleaned up; `SlotsInvariant` and `SlotsPairedHolds` give the count |
| `KilledCompileIsTheEndHolds` | `RunInv`: for each job, which process is running, whose handlers are on the bus and what metadata there is at each `pc`; a compiler taken down before it recorded anything leaves no exit code, and only a zero goes on |
| `CloseKillsRunningStageHolds`, `CloseCodesTellTheTruthHolds` | `SockInv` adds why a connection is closed: each code is tied to what has been sent before it and to what the job had reached, so that a later close handler cannot replace it by another |
| `LegalConversationHolds` | `SpeechInv`: while the connection is open, what was sent is the conversation up to where the job is among its awaits (`Reached`); each step that sends takes both on by the same frames, and what is closed is sent nothing more |
| `TypeOKHolds` (`Sessions`) | the parts of `RunInv`, `SockInv` and `SpeechInv`, with `AnswerInv` for answers, timers and close codes, and the type of the slots from `JobSlots_proofs` |
| `NothingLeftBehindHolds` | `HomeInv`: every lease of this process that is not cleaned up, nor logged to have failed to be, is exactly one job's or its cleanup's, and what is on disk under an id was put there for a lease of that id. The second half is what makes the cleanup of an id that has been issued again harmless to the account. |
| `AloneInTheBoxHolds` | `AloneInv`, over `HomeInv`: as long as no id in use was issued, no two outstanding leases share an id, so whoever touches a sandbox under an id is the job in it; a metadata file found there that is not the job's is an ended process's or one the log names |
| `StagesAreSeenHolds` | `SeenInv`: for each job, its `pc` says which phase of `Stage` its present stage is in. Every step of the module is a step of that `Stage` or leaves it alone, so `Stage` is implemented by each of the jobs at once |
| `BoundedCaptureHolds`, `LimitVerdictStandsHolds`, `LostVerdictIsNoSuccessHolds`, `CodeOrSignalHolds`, `TypeOKHolds` (`StageResult`) | `StageInv`: an output limit is recorded exactly while output was dropped, and a result is `Report` of the rest of the state; the facts about `Report` are lemmas by cases on its three layers |
| `SeenAsStageHolds` | a stage is `killed` for `Stage` only once isolate has ended without an exit code: a signal that isolate survives has not decided anything. With `StageInv`, each step is then a step of `Stage` or unseen |
| `InFlightHolds` | `FlightInv`, which adds that `in_flight` and the state of an operation change together |
| `WatcherIsUpToDateHolds`, `ListenersLeaveWithTheirSocketHolds` | `WatchInv`: a socket is only open with its listeners attached and its operation running, an operation that was watched has been started, and the lines dropped from a log never include its last. Lemmas about `Stretch` say that the end of one stretch meets the start of the next. |
| `TypeOKHolds` (`Operations`) | `TypesInv`, over `WatchInv`: only what an operation that exists can emit is sent, and a log is cut to its limit in the step that passes it |
| `LatestAreRetainedHolds` | `RetainInv`: what is listed is finite and nothing has ended later than now, so the operation that settles is among the latest and pruning takes exactly the excess from the other end |
| `HalfInstallIsResidueHolds` | `ResidueInv`: a package has one call at a time or is `raced`; for every step of the one call, what of the directory exists by then, or may |
| `TypeOKHolds` (`Packages`) | inductive as it stands |
| `ListedRuntimesAreWholeHolds`, `RegistryIsWhatBootDerivesHolds`, `InstalledIsListedHolds` | `RegistryInv` adds what the registry says of a package that is not `raced`, at each step and between calls; through both endpoints and with every failure and crash. What ends a race is `Cleared`, so nothing has to be known of it while it lasts |
| `LatestIsServedHolds` | the order by version and then by registration is total, so of finitely many runtimes one precedes the others (`OneComesFirst`, by well-founded induction on finite sets); the registry stays finite and numbered |
| `JobsKeepTheLimitsHolds` | `ConfigInv`: a server that is up has the configuration of its environment, so no option and no override is NaN; `RegistryInv`: a runtime's limits are `ComputeAllLimits` of its package; `JobInv`: an accepted job was validated against its own runtime's limits |
| `ListedCachesAreFreshHolds`, `FailsOnlyIfUninstalledHolds`, `AcceptedHaveAnEntrypointHolds`, `GateComesFirstHolds` | `SubmissionInv`: with the former, `CallsInv`: a package that is not `disturbed` has one call at a time, and once it is listed its files are there and that call no longer touches them. `CacheInv` (`Aged`): a registration is numbered once, so what an unregistered runtime remembers cannot be taken for a listed one's |
| `OnlyPinnedIsUnpackedHolds`, `InstalledIsCompleteHolds` | `CallInv`: what a call knows of its own way whoever else is at work (`Knows`). `TreeInv`: of each package that is not `raced`, exactly what the directory holds at every step of each kind of install (`Holds`); a failing one holds at least nothing unpinned and no marker, and the next removes it all. A crash leaves what some step had left |
| `SpecConvergesHolds`, `UpgradeLeavesNoGapHolds` | `ClientInv`. What `EnsurePackages` computes has a closed form (`Asked`): a package is wanted if some rule gives it and no later rule takes it back. The fold over the rules agrees with it for every number of rules, by the least number for which it would not. Of each package `spec` decided about, the operation is still to come, in hand, has failed, or has had its effect; installs come before uninstalls, so a version goes only when its replacement was seen to succeed or to fail |
| `SpecGetsNearerItsEnd` | the part of `SpecEnds` that needs no fairness. `Effort` of a call falls with each of its steps and `Left` with each of the client's, the two are natural numbers, and as long as `spec` has not ended one of those steps is due (`Due`). `AttemptInv`: the index is asked at most `Attempts` times; `Underway`: a client that waits has a call that is running |
| `ParkedGetNearerTheirSlot` | from `SlotsInv`: while anybody is parked, a woken caller's continuation is due or a slot is held, for an empty pool has `available = Capacity`, and then nobody waits (`NoIdleSlot`). The line only loses its head, to a slot |
| `JobsGetNearerTheirEnd` | with or without wall-time limits; that a program without one may never end is the fairness's affair. `WayInv`: a parked job is in one of the queues, a stage has a process until its exit event, and an open connection has its timer or a job to close it. `StepsLeft` bounds the steps a job has before it and none takes it back. A job under way waits for an event of its own or for a slot or microtask another job's event leads to (`Owed`): by `NoIdleSlot` jobs are parked only while slots are held, and by `HeldInv` jobs past the queue hold them |
| `DiskGetsCleaner` | over `HomeInv`: what is on disk belongs to a lease in hand, a job's or a cleanup's, or to one the log names; a lease once given up never comes back to hand or to disk, a command that ends has taken all that lies there for its lease or is logged to have failed, and no step takes a job back, except that the process ends |
| `WatchersGetNearerTheirRelease` | `TargetInv` ties a socket to its operation; an operation that has ended stays ended, after it an event of the socket is due until it is closed (`ReleaseDue`), and no step takes a socket back |
| `InstallsAsPackagesHolds` | every step, of one call or of several on one package, maps to a step of `Packages` or a stutter, by cases on the step, with `CallInv`. Nothing is known of a directory that calls race for but that it is there if anything is in it, and nothing more is needed, since `Packages` lets a racing step meet or miss its files alike. The theorems of `Packages_proofs` so hold of the installs in all their steps |

Assumptions worth a reader's notice. No theorem assumes anything of which endpoints
are used, or that calls keep out of each other's way.
`PackagesAssumption` has finitely many packages; what the
steps of a client run down to is their number. `InfoAssumption` (a `pkg-info.json` holds numbers for limits, since it was written from a parsed
manifest), `RequestsAssumption` (the forms a request has), `SourcesAssumption`
(a list of sources is a sequence) and `SpecFilesAssumption` (a spec file is a
sequence of lines) say of the data what its origin guarantees;
TLC evaluates them on the instances.

Model-checked only: liveness (`ParkedEventuallyServed`, `JobsSettle`,
`SocketsClose`, `DiskIsCleaned`, `WatchersAreReleased`, `SpecEnds`). Each rests on
fairness and `ENABLED`, out of the prover's reach, and on a part that needs
neither: that something is due as long as the end is not reached, and that no
step leads away from it. That part is proved for each
(`ParkedGetNearerTheirSlot`, `JobsGetNearerTheirEnd` for two of them,
`DiskGetsCleaner`, `WatchersGetNearerTheirRelease`, `SpecGetsNearerItsEnd`); that
what is due also comes, and that only finitely many others come before it, is
left to TLC.

## What is not modelled

- isolate, Bun, the file system and the network are external: each answers in
  any way it can. isolate leaves no metadata, or part of it, when a signal it
  cannot catch takes it out, and after a SIGABRT may end in any way.
- Data: the content of submission files, stdin, the text of output and logs,
  times and memory. Data frames and signals that change no state the properties
  tell apart are left out of `Sessions` (stdin, stop signals, signals isolate
  survives). What is written to stdin, or which signal is sent, between two
  stages is emitted to no listener and lost (`v2.ts:584`).
- A metadata file that is cut short is cut between its lines; cut within one, it
  would end in a line that does not parse, after which the code keeps what the
  lines before it said if the client had sent a signal, or in a shorter value.
  Left out too is output that is still in the pipe when the `exit` event has come (`job.ts:431`), and a
  SIGABRT sent to a process id that has been given to another (`job.ts:353`).
- A listener of an operation that throws while it is told of a success, which
  would turn the operation to a failure (`operations.ts:173`): none does.
- Of an install: `fs.rm` takes the marker, `pkg-info.json` and all the rest as three
  things, in any order; a step under way when the process is killed has left all
  or nothing of what it makes, but a failing one part of it; downloads that race
  for one file replace each other whole and do not mix in it.
- Of `Submissions`: the package files are written and removed as one, and the
  server is not killed. A crash leaves no job and no cache; those of `Packages`
  cover the rest.
- How tar and unzip lay out an archive, and the stripping of leading directories:
  contents are known by their source. A download that hangs. The text of the
  scripts and environment files rendered from a manifest.
- Options whose validators accept anything (flags, addresses, URLs), uid ranges
  and the log level; the comparison of the catalogue with the readme, and
  `--fetch`, in the validation of manifests.
- The execute client, in HTTP form one request and its printing, in its
  interactive form a terminal copied to a socket and back, with the server's side
  in `Sessions`; `ppman list`, which prints; migration, images and build scripts;
  globals, errors and logging.

## Plan

Done: the slots, the jobs on both transports, the boxes, the verdict of a stage,
operations and their watchers, packages with crashes and boot, configuration and
the resolution of runtimes and limits, the gate and the routes, manifests and
their validation, the three kinds of install, and `ppman spec`.

What would come next:

1. `Boxes` and `Sessions` composed, so that `Outstanding` leases are bounded by
   the slots and the cleanups under way. No `MAX_BOX_ID` follows from it: while
   one lease stays in use the counter may wrap as often as it likes, so
   `AloneInTheBox` would still need that no id in use is issued.
2. `Sessions` over `StageResult` itself, so that the limits and the messages of
   a verdict show in what a client is sent; the phases of a stage they already
   share, through `Stage`.
