# Wizard's Brush in TLA+

A specification of the concurrent, stale-prone and crash-prone parts of the
Wizard's Brush backend, model-checked with TLC and, for eight components,
proved with TLAPS for every value of their constants. Paths are relative to
the repository (`src/` is its root).

## 1. The system

Wizard's Brush is a local image and video generation server. A FastAPI process
accepts requests, keeps every one as a job row in SQLite, and runs the jobs in
two lanes: a local one on the machine's own GPU and a remote one on a worker
process elsewhere. Around the lanes stand the parts that lead to a job (the
studio's resolver, keyed submission, saved generators, variant sets, agents and
the OpenAI routes), those that show what became of it (the hub, the hooks), and
those that hold what it needs or leaves (the gallery, model files, documents,
the rented machine, the schema).

| Part | Source (`backend/app/` unless said) | State | Operations |
|---|---|---|---|
| Job lanes and ledger | `queue.py`, `db.py`, `main.py` | job and asset rows; `_pending`, `_wake`, `_inflight`, `_current`, `_device_job`, flags | submit, rerun, cancel, skip, dispatch, progress, commit, release, retry, settle, crash, startup |
| Order of a lane | `queue.py` (`_affinity_pick`), `db.py`, `routers/jobs.py` | priority, age, resident model | arrive, pick, run-next, move |
| Submission | `routers/common.py`, `job_api.py`, `studio/submission.py` | jobs under keys, plans, what they were planned for | resolve, submit once, fan out, replay, admit again |
| Planning | `studio/resolver.py`, `targets.py`, `variant_sets/presets.py` | routing policy, slots, catalogue | resolve a request, a stage, a direct kind |
| Presets, generators | `presets.py`, `studio/catalogue.py`, `recipes.py` | heads and revisions; saved setups | install, edit, duplicate, import, archive; save, rename, run |
| Variant sets | `variant_sets/*` | set and item rows, their jobs; recipes | create, submit, judge, release, block, retry, rerun, cancel, delete, read, startup |
| Image handlers | `routers/images.py`, `videos.py`, `tools.py`, `finishing.py` | the items of a batch and what was done to each | render, finish, skip, cancel, save |
| Local accelerator | `generators/local_image.py`, `base.py`, `vram.py` | `GPU_LOCK`, `_STATE`, `_CONTROLNET`, adapters, model files | generate, control, tool, RIFE, warm-up, free_all |
| Remote client and worker | `remote_gpu_client.py`, `worker/api.py` | the call's locals, the row's remote identity; `_JOBS`, `_CLIENT_TOKENS`, `_TASKQ` | submit, poll, cancel, acknowledge, prune, run, restart of either |
| Worker pipelines | `worker/pipelines.py` | the loaded pipeline and its adapter | load, evict, speed on and off |
| Worker store | `resources/remote.py`, `worker/resources.py` | partial and final files, the row | ensure, chunk, complete, delete, record |
| Uploads, imports | `resources/intake.py`, `imports.py`, `providers.py`, `catalogue.py` | sessions, part files, installed files, rows | chunk, complete, import, scan; create, cancel, retry, download, place, record |
| Library, enrichment | `db.py`, `enrichment.py`, `routers/assets.py` | assets, files, the ladder | save, edit, trash, restore, delete, clear, enrich, backfill |
| Documents | `canvas.py`, `references.py` | heads and revisions | save, restore, flatten, rename |
| Files on disk | `artifacts.py`, `exports.py`, `spritesheet.py`, `main.py` | uploads, exports, sheets | keep, sweep, publish, lay out |
| Agents, OpenAI routes | `agent/*` | the calls in progress | submit, edit, wait, look, cancel |
| Hooks, hub | `notify.py`, `queue.py` (`ProgressHub`), `routers/jobs.py` | `_busy`, `_timer`; one bounded queue per socket | started, finished, idle; emit, subscribe, snapshot |
| Runpod rental | `provisioners/*`, `main.py` | the session, the worker URL, the pods | start, stop, forget, look, exit, adopt |
| Migrations | `migrations/*`, `db.py` | schema, ledger, backups, lock | start, back up, migrate, die |

How they interact: routes, tools and variant sets submit to the lanes through
`routers/common.py`; a lane calls its handler in a thread, which reports back
through `progress_cb`, `add_asset` and `release_device`; the end of a job is
told to listeners (`advance_after_job` of the variant sets), the hub and the
hooks. A local handler computes under `GPU_LOCK`, a remote one is one call of
`run_remote`. Startup (`main.py: lifespan`) migrates, reads the remote orphans,
reconciles the job rows, requeues, reconciles variant sets and imports, adopts
a rented pod and sweeps.

What is hard: the asyncio loop, handler threads, request threads and the
background threads interleave at every call back into the queue, at every
transaction and between a read and the write that follows it; a network message
may be lost after it took effect, or arrive late; a process may die between two
writes; and several operations look at something first and act on it later.
PROJECT.json lists the hazards, line by line, and the properties over each.

## 2. The modules

An operator `Mutant_X` stands before X and is X as a plausible bug would have
it; no specification uses it. A property holds of X and is violated by
`Mutant_X`.

**JobLanes** - one action is one step of the event loop from suspension to
suspension, or one call of a handler thread. `Submit`, `Retry`,
`CancelRunning`, `CancelWaiting`, `Skip` are the requests; `Wakeup`,
`PickLocal`, `PickRemote`, `Rest` the lane worker (`_run`); `StartTask`,
`BackOff`, `NextAttempt`, `Settle` the task (`_execute`); `ProgressCancels`,
`ProgressSkips`, `CommitAsset`, `ReleaseDevice`, `HandlerStops` the handler;
`Crash` and `Restart` the process. **JobLifecycle** is the abstract
specification, the life of a row and of its outputs; JobLanes implements it
(`INSTANCE JobLifecycle`, same variable names). **LaneOrder** says which job a
lane takes, which JobLanes leaves open.

**RemoteJob** - calls of `run_remote` against the worker: a POST is handled in
three steps (look up, register, put on the queue), `_job_worker` runs one job at
a time. A token is `<<r, k>>`, after the POST that made it. Any request or
response may be lost; at most MaxStrays abandoned POSTs are still with the
worker. History `hasty`: the calls two of whose POST handlers overlapped.

**GpuResidency** - who holds `GPU_LOCK`, which pipeline and ControlNet are
resident, which adapters (a file is its version) sit on the shared transformer,
and what is on disk, between the steps of `_model_locked`, `_get`, the
adapters, the inference, `free_all` and the warm-up. History `found` of a call:
told to take the base, it found its model resident and fetched nothing.

**VariantSets** - one set of any tree of items. Attempt n of item i is the job
`<<i, n>>`. The loop's segments between two awaits exclude each other
(`loop.at # "free"`), `process_job_terminal` is a thread per ended job.
**SetRecipe** - what each variant asks for and is called, and the path an export
files it under; a name is a sequence of letters, and two names that one path
folds together, or of which one is the folder of another, collide.

**Submission** - every way in (upload routes, job API, refine, plans, replay,
OpenAI, MCP edit) up to the keyed write, and a planned job admitted again when
its turn comes, while slots, files and the worker change. **Planning** - what
the resolver decides. **Presets**, **Generators** - the catalogue of presets and
the saved generators. **OpenAIImages**, **AgentTools** - the two faces for
programs. **ImageJobs** - a handler of every kind, item by item.

**Library** - assets, files, trash, ids that SQLite gives again, and the
enrichment thread's reads and writes as separate steps. **ResourceImports** -
imports on a pool of threads; files are inodes of `Whole` chunks, so that two
names of one inode, truncation and append are what they are on disk. Histories
`doubled`: imports submitted again while a run of theirs was still there, and
`clashed`: imports of different files that aimed at one location at once.

**QueueWatcher** - three executing slots drive the watcher. Each of its methods
is one step under its lock; what it has to send is `decided` there and handed
over (`HandOver`) after the lock is released, by the event loop before it does
anything else, by a callback at any time. So the order of `decided` is that of
the lock, and the model promises no order of delivery. History `early`:
queue_idle was decided while a job executed.

**WorkerStore** - the transfer thread, the calls on the wire and the worker's
store. Any call the application gave up on, an ensure and a DELETE too, may still
be carried out later; `complete` hashes the file it has open and then moves by
name. History `pulled`: a partial file was deleted under a complete that reads
it.

**Uploads**, **WorkerPipelines**, **Housekeeping**, **SpriteSheet**,
**Revisions**, **RunpodRental** (history `lost`: pods made without ever being
recorded), **Migrations** and **ProgressHub** (history `overrun`) model the parts
their names say; each module's opening comment tells what is one step and what
is left out.

**MCJobs**, **MCStores**, **MCOwed** and **MCSettling** give several components
to one run: the variable `scene` picks one. Each extends one component, whose
variables keep their names, and instantiates the others; `x1`, `x2`, ... are the
variables of those, so that states add up and are not multiplied. **MCRecords**
holds the scenes of MCStores that are about rows. **MCJobLanes** and
**MCGpuLock** give one component its constants and bounds.

The `...Proofs` modules are section 5.

## 3. What the runs check

| Run | Instance | Distinct states | Shows |
|---|---|---|---|
| `lanes` | a job of each lane, 2 attempts, 1 crash; or two remote jobs that overlap, 2 attempts, no crash; fair | 156 k | `IInv`: rows are never stranded, no batch twice, settled rows list all output and rest, the lanes implement JobLifecycle, every row settles unless the process dies |
| `settling` | 2 calls, 1 POST, both processes restart, cancels lost; 3 slots, 5 jobs | 187 k | `RemoteSettles`; `ReportsAddUp`, `DrainReported` |
| `owed` | 2 pods, 2 crashes; 2 stages, 1 attempt, 1 request, 1 crash, a page that keeps looking | 114 k | `Accounted`, `HandleKept`, `StopStaysOwed`; `SetSettles` |
| `jobs` | 18 scenes; on the card the shipped configuration, turbo planned for SVDQuant and loaded by the warm-up too | 3.00 M | `StyleIsRequested`, `DeviceRight`, `OrderKept`, `ShownAsItIs`, `AssetsTellTheTruth`, `DoneAsAsked`, `PlansStand`, `AsAskedOrTold`, `ToolsTellTheTruth`, `FiledAsItself`, `RevisionsStand`, `RunsAsSaved`, `LadderOnlyRises` |
| `stores` | 13 scenes; a set of 2 stages, 2 attempts; 2 calls of `run_remote`, 2 POSTs and 1, 1 fault, 1 stray; imports of two files under one name, 2 requests, 1 crash; the transfer with 4 tasks and 3 calls that arrive late | 2.90 M | `ItemsAccounted`, `StagesInOrder`, `EnqueuedOnce`, `NothingLost`, `NoEditLost`, `WholeSchema`, `UploadsArrive`, `LedgerTrue`, `KnownGoodKept`, `HeldIsVerified`, `RunsAsRequested`, `FilesKept`, `LayoutSound` |
| `lanes_dispatch_gap`, `gpu_lock`, `base_not_cached`, `rerun_parent`, `overwritten`, `lands_unverified`, `drain_unreported` | the smallest that shows it | violated | the findings of section 6 |

Deadlock is not checked: requests, jobs, crashes and changes are bounded, so
every model may come to a stop, as the idle system does.

Why the bounds are enough. Two remote jobs overlap, and the third actor of an
overlap behaves like the second; the proofs are for any number. Four queued jobs
fill a window of two with a head before it and a job behind it. Two stages have
every relation between an item and its source. Two POSTs make a duplicate, one
stray beside the live one an overlap of two handlers; a queue of one is full at
the second job. Five jobs in three slots make two busy periods around an
overlap, an early report and a late timer. A queue of two events overflows with
the transitions of one job. Two chunks make a file partial or whole; two imports
of different files under one name, on two threads, meet at every step, and an
import that is retried meets its own file. Two calls for the card with the
warm-up are each of the relations a call, a tool and a load ahead can have, a
third (scene `more`) leaves something behind for them. Two savers from one base,
two editors, two keyed requests are the conflicts a compare-and-set or a unique
index decides. Three builds of a migration and two processes meet with an older,
an equal and a newer ledger. With two pods one is lost or forgotten and another
recorded. For the eight components of section 5 nothing depends on the bounds:
their theorems are for every value.

## 4. Fairness

* JobLanes: weak fairness of each lane worker and each task (the event loop
  runs what is ready) and of `HandlerStops` (a handler ends, one way or
  another). Nothing of requests, commits, skips or restarts.
* VariantSets: weak fairness of threads and loop, strong fairness of resumed
  coroutines (an await returns even when others run in between), of jobs, and of
  reads, because the page looks at a set again and again: `SetSettles` needs the
  reader where a verdict was lost to a race. Nothing once the set is deleted.
* RemoteJob: weak fairness of the client's thread, the POST handlers, the
  worker's thread (`fn(token)` ends) and the restart of a dead backend. Nothing
  of the network, nor of new calls.
* QueueWatcher: weak fairness of the timer, its callback and `HandOver` (a
  thread that is ready runs), and of the ends of jobs. Nothing of their starts.
* GpuResidency: weak fairness of every thread's next step and of the loop's
  `free_all`; `NextHasAChance` is violated all the same (section 6).

## 5. Proofs

Each proof module EXTENDS its component and proves, from the assumption the
component states about its constants, that an inductive invariant holds
(`Invariant` or `Inductive`), and from it the properties of the runs. Every
inductive invariant was checked by TLC on small instances before it was proved,
and several were found too weak or false there. Each action has a lemma, with a
step for each conjunct it can disturb; an action that only moves its own thread
goes through a lemma about all of them.

**JobLanesProofs** (any jobs, attempts, crashes; `Attempts \in Nat \ {0}`,
`MaxCrashes \in Nat`, `LocalJobs \subseteq Jobs`, `NoJob \notin Jobs`). That a
queued row is in memory or in its task's hands survives a crash only because
nothing is in memory while the process is down (`DownIsEmpty`), a pick only
because a pending job has no task and no output (`PendingWaits`), a start only
because a created task has none either (`CreatedWaits`); a batch stays unique
because the output of a running job is of its present attempt and a job backs
off without output (`OutputOfThisAttempt`); the device of the serial lane is
exclusive because the lane is busy while one of its jobs executes
(`BusyIsLocal`). Theorems: `TypeCorrect`, `NoRowStranded`, `DevicesExclusive`,
`BatchesUnique`, `ResultsComplete`, `FlagsTracked`, the action property
`RowsRest`, and `Refinement`: every step of JobLanes is a step of JobLifecycle
or leaves its variables alone.

**RemoteJobProofs** (any calls, posts, misses, faults, strays, length of the
queue). The invariant follows a token from the POST that makes it to the row of
the job that polls it. Its centre is `Reachable(x)`: no handler holds x any more
and, while its call lives or died with the process, either the worker's table
knows x or nothing of the call is left there. `Answers` says so of the answer
under way, `Stored` of the token in the row, `Deduplicated` that the table's
entry of the client id is the one job of the call, `Reclaimed` that the startup
cancel reached the calls of a dead process. The calls in `hasty` are left out.
Theorems: `SubmittedOnce` (`EnqueuedOnce`), `ResultWaits`, and `NothingIsLost`
(`NothingLost`) under `~CancelLost`: that startup stops what the dead process
asked for needs a cancel that arrives.

**GpuResidencyProofs** (any threads, models, adapters, calls, edits;
`ResidencyAssumption`, and that `None` is no thread, model, adapter or set of
them). Two invariants. Of the lock: only the holder of `GPU_LOCK` is between
`_get` and the end of its computation, so what it relies on there can be
disturbed by that thread alone (`Holds`, `Others`), and the record of what sits
on the shared transformer is true (`RecordTrue`). Of the disk: who is about to
load has fetched what the load will read (`LInv`). Theorems: `RequestedStyle`
(`StyleIsRequested`), `BorrowedPipeline`, and `RightDevice` (`DeviceRight`),
for any plan of models for SVDQuant, the shipped one included. The one load that
may find its file missing is `found`: that of `base_not_cached` (section 6).

**LibraryProofs** (any savers, images, threads, edits, restarts;
`LibraryAssumption`: at least one thread to start and room for the first
image). The enrichment thread could lower a level, since it writes next to
what it read some steps before. It does not because it is one thread
(`started`), nobody else raises a level, and so the row is never above what it
knows of it (`Knows`), not even when its id was given to another image.
Theorem `OnlyRises` (`LadderOnlyRises`).

**VariantSetsProofs** (any tree of items, attempts, requests, crashes;
`SetsAssumption`: `Parent` gives each item an item or `NoItem`, which is none of
them, and an attempt is allowed). A job belongs to the attempt its item points at, or to the next
one, which only the loop that is creating it, or a crash, can have left without
its item (`Own`). What was released for submission hangs from a parent that has
its image or is made again from the start, and no job of that parent ends
meanwhile (`Unspoiled`, `InLoop`). The status is owed a count by every thread
that has moved an item (`CountOwed`). Theorems `Accounted` (`ItemsAccounted`)
and `InOrder` (`StagesInOrder`).

**ResourceImportsProofs** (any imports, threads, chunks, requests, restarts;
`ImportsAssumption`). `Control`: each row that says it waits or runs is watched
by a run or by the answer being written (`Watched`), a cancel holds until the
run it is for can download no more (`Stops`), and an import that was never
submitted while a run of it was left has one run (`Solo`). `Files`, as long as
that is so of all of them: a part file is one import's and no installed file
(`PartOK`), and a location holds the content its name has the digest of, and
what it is recorded for unless that content is in `clashed` (`InstallOK`). A run
that aims at a location finds there nothing, its own content, or one that is in
`clashed` beside its own, because the location was free when it was chosen and
whoever moved a file there since aimed at it at the same time (`Fits`, `Rival`
in `KnownOK`). Theorems `Truth` (`LedgerTrue`) and `KnownGood`
(`KnownGoodKept`), for any names and contents.

**RunpodRentalProofs** (any pods and crashes; `None` is neither a pod nor a
session). `IInv` adds to `Accounted` what each place of the process holds: a pod
is pending exactly while it is created and not recorded
(`PendingWhileCreated`), a step of start or stop still has the session it began
with (`SessionHeld`), and a session is struck off only when its pod is gone
(`DeletedIsGone`). Theorems `RentalsAccounted`, `RentalsSingle`, `HandleIsKept`,
`StopRemainsOwed`.

**QueueWatcherProofs** (any lanes and jobs; `WatcherAssumption`: a finite set of
lanes that is not empty). `ReportsAddUp` speaks of places in the record of
decisions, for every overlap of jobs. That announcements and reports alternate
needs that `_busy` is TRUE exactly while the last announcement has no report;
that a report counts the jobs of its period, that `_completed` is at every moment
the number of ends since the last announcement (`Counted`); that a queue which
is not busy executes nothing and owes no report, that no report was `early`.
Theorem `Reports`.

Only model-checked, and why:

* liveness (`EveryJobSettles`, `SetSettles`, `RemoteSettles`, `DrainReported`,
  `NextHasAChance`): the prover treats neither fairness nor ENABLED;
* `ShownAsItIs`: it is about selections of sequences, which need induction over
  data; `LayoutSound` the same;
* `HeldIsVerified`, `OrderKept` and the other scenes of `jobs` and `stores`: not
  yet attempted.

## 6. Where the code and its promises differ

Seven disagreements are runs, each with the line that promises otherwise in
PROJECT.json:

* `lanes_dispatch_gap` - a remote job canceled after the lane took it from
  memory and before its task began is resolved as canceled, and then runs
  (`queue.py:424`); `TerminalRowsRest` states the exception exactly.
* `gpu_lock` - a load that fails with anything but `_BasePrefetchRequired`
  leaves `GPU_LOCK` with its thread for ever (`generators/local_image.py:331`),
  and `free_all` then blocks the event loop.
* `rerun_parent` - a variant run again after its parent was run again uses the
  old image and records the new one (`variant_sets/service.py:321`).
* `overwritten` - of two provider imports of different files that find one name
  free, the second is moved over the first, which is installed and recorded by
  then (`resources/intake.py:418`, against `imports.py:13`). `KnownGoodKept` and
  `LedgerTrue` except exactly these (`clashed`), and imports that run twice at a
  time (`doubled`), which can overwrite too. Uploads are imported by the same
  function: there too a verified row may stand for other bytes.
* `lands_unverified` - a DELETE that arrives late unlinks the file a `complete`
  is hashing, the next `ensure` begins an empty one, and that is moved under the
  hash (`worker/resources.py`, against its line 6). `HeldIsVerified` excepts
  that (`pulled`).
* `base_not_cached` - `quant.py:30` plans turbo for SVDQuant, and the warm-up
  loads it as well. Told to take the plain base, its prefetch finds the pipeline
  of a job resident and fetches nothing (`local_image.py:278`); that job drops
  the base; the `local_files_only` load then fails, and with it goes the lock
  (docstring at 269). `DeviceRight` excepts that load (`found`).
* `drain_unreported` - a job that ends while another lane executes arms the drain
  timer, and queue_idle is fired in the middle of a job (`notify.py:33`); after
  that the jobs that were executing end while `_busy` is FALSE, and the real drain
  is never reported (`notify.py:17`).

The rest were met while modelling. Where a property would be broken by one of
them its premise says so, mostly by a history variable or an assumption.

Lanes and submission

* `queue.py:709`: `cancel()` answers True for a handler past its last progress
  call, and the job ends done.
* `queue.py:303`: the affinity window is anew at each pick, so a cold head can
  wait as long as warm jobs arrive (docstring at 287).
* `queue.py:544`: a transient retry leaves the first remote job running.
* `queue.py:154`: a queue that overflows with transitions loses the oldest
  (`overrun`).
* `notify.py:57`-`88`: hooks are sent after the lock is released, each on a
  thread of its own, so a queue_start may be delivered before the queue_idle that
  was decided first.
* `routers/images.py:399`: a skip seen by the opening or the finishing progress
  call cancels the whole batch; `images.py:829`: a retried inpaint records the
  seed of its first try.
* `studio/submission.py:274`: a planned job is admitted on the last health poll
  (`docs/api.md:673`); `submission.py:394`: a replay under a used key answers
  another request's job; two equal calls of the kind form at once both answer
  `duplicate=False`; a preset retried without a seed conflicts with itself, its
  digest having a random seed; a fan-out cut short by a crash returns a partial
  group to its retry.
* `targets.py:32`: the policy "off" is read by the resolver only; queued plans
  and stages are not judged again.

Variant sets

* `service.py:352`: a variant whose input is gone fails and what derives from it
  stays pending until the set is read; `302`: a rerun of a source between the
  listing of its children and their submission fails a child; `494`: a retry
  between the end of an item and the blocking of its descendants leaves these
  blocked; `722`: `reconcile_set` tests a `canceled_at` read before an await;
  `750`: after a crash inside a retry, startup skips the set; `675`: `delete`
  trusts a status a slow thread may have made stale.
* An export with intermediate images may collide on `stage-1/`, for which
  `FiledAsItself` claims the export of the last stage only.

Devices and the worker

* `generate_control` inherits the active adapters of the generation before;
  `loras.adapter_name` gives `a/b` and `a_b` one key; a refused adapter drops
  what was skipped before it (`local_image.py:833`); components stripped for an
  offload stay cached when the job is canceled before denoising
  (`local_image.py:1026`).
* `worker/api.py:217`: two POSTs of one submission handled at once are both
  enqueued; at 227 a registration is taken back although a duplicate was
  answered with its token (`hasty`). `remote_gpu_client.py:481`: a cancel during
  the submit retries raises without cancelling on the worker.
* An unconfigured "hidream" is given to HiDream's loader; `/health` keeps
  `speed_loaded` of an evicted pipeline; the video loader evicts before its disk
  check (`worker/pipelines.py:764`).
* Preparing a resource: an install is recorded under the identity read at the
  end.

Files, records, documents

* `canvas.py:457`: a canvas whose layer has a live row and no readable file is
  flattened without that layer, unasked, against the docstring of `flatten`; the
  new image says what it lacks (`FlatTells`).
* `imports.py:279`: an import canceled as its run begins and retried at once
  runs on two threads (`doubled`); `236`: a cancel that read "running" may write
  "canceling" after the run has ended, until the next start; `277`: a canceled
  import may still open its download.
* Uploads: a chunk retried after `complete` writes "receiving"; two imports of
  one receipt at once; a scan marks missing what was registered after its
  listing; a re-pointed location leaves the old resource "installed";
  `catalogue.py:359` counts remote installs as local.
* `db.py:454`: clearing or purging assets leaves rows of collections that a
  reused id inherits; enrichment of a reused id writes the old image's caption;
  `enrichment.py:135` skips the caption rung; an asset with its hash and an
  unfinished ladder is not enqueued again after a restart; `db.py:582`: a merge
  of tags reads and writes in two statements; `is_missing` is never reset; a
  trashed asset's job can be pruned and the asset then restored;
  `prune_orphan_content` has no caller.
* Canvas: a delete racing a save leaves an orphan revision, a save racing a
  delete is a 500. References: `name_taken` after a rollback names the old name.
* Presets: the race path ignores `on_conflict="copy"`; a curated preset archived
  by one bad start stays so when shipped again; a refused r1 with r2 installed
  is never installed. Generators: a control the live worker no longer offers
  makes a saved run fail although `recipes.py` says the stored schema decides;
  an accented name is not found by name (`db.py:1336`).
* Exports: `exports.py:81` skips a file purged between plan and zip; a published
  directory whose row was never written is not swept. Migrations: two starts
  within a second share a backup's name (assumed not to happen), and `create_all`
  runs before the ledger is judged.
* `provisioners/runpod.py:260`, `276`: a pod whose creation was not answered, or
  not saved before a crash, bills unknown to the application (`lost`); `209`: a
  start after a refused stop is answered with the old session;
  `routers/remote_gpu.py:133`: a failed settings write leaves a session without
  URL.
* Agents: an edit imports its images before it is judged, and concurrent edits
  of one key import twice; only the first job of a fan-out is waited for;
  "removed_from_queue (it never ran)" is false in the dispatch gap. OpenAI: a
  repeated keyed call loses its warnings.

## 7. Abstractions worth knowing

* Time is absent but where it bounds a race. RemoteJob assumes that a live call
  polls within the time a finished job is kept, and that no POST is under way for
  as long; Housekeeping that no request holds an upload for the half hour after
  which it counts as old.
* RemoteJob: the worker writes a status before an error text, here in one step;
  a skipped item ends a call as a cancel does.
* VariantSets: an ended job's notice comes after its item names the job; the job
  row of an attempt never vanishes.
* ProgressHub: the snapshot of the 20 latest jobs is one of all jobs.
* GpuResidency: memory figures are choices; an out-of-memory failure may happen
  at any load or inference.
* ResourceImports: every import has a published digest; a crash and the startup
  that follows are one step.
* ImageJobs: an image is the seed and size it was rendered with and the
  operations applied since. Migrations: six of nineteen, one of each form.
* RunpodRental: the provider tells the truth when it answers; an exit with
  `remote_gpu_stop_on_exit` off is a crash.

## 8. Not modelled

The manual provisioner keeps no state. Prompt and grid expansion, validators and
scoring are functions whose result is a choice in the models. Configuration,
security and logging, the frontend, scripts and packaging have no protocol of
their own. Of the modelled parts, PROJECT.json says what each leaves out.

## 9. Plan

Next proofs: `DoneAsAsked` (Submission), `NoEditLost` (Revisions),
`RevisionsStand` (Presets), `UploadsArrive` (Uploads), `PlansStand` (Planning).
`RunsAsRequested` and `FilesKept` after them.
