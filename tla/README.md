# Dataset Audit Studio in TLA+

Specifications of the backend under `src/backend/dataset_audit_studio` (below: `B/`) and of the parts of its
web client that keep state, TLC runs that check them on small instances, and TLAPS proofs of what holds on all.

- [The system](#the-system): components, state, operations, how they interact, what is hard
- [The modules](#the-modules) and how they correspond to the code
- [The runs](#the-runs): what each checks, its bounds, the fairness assumed
- [The proofs](#the-proofs)
- [What the runs show about the code](#what-the-runs-show-about-the-code)
- [Not modelled](#not-modelled), and [the plan](#the-plan)

Running it:

    tlc -workers 2 -config LifecycleQueue.cfg MCTaskLifecycle
    tlapm TaskLifecycleProofs.tla

## The system

A local web application audits image data sets. A *task* walks through a fixed pipeline
(scanning, cpu_metrics, model_scoring, style_analysis, semantic_clustering), waits for a
human at the gate `evidence_review`, and ends by exporting: a *rewrite* config runs one more
phase (`exporting`) that moves excluded files out of the source tree, a *copy* config
completes the task and creates an *export run* that publishes a copy of the selection.

There is one SQLite file. Every write goes through `Database.write_session`
(`B/database/session.py:53`), one `BEGIN IMMEDIATE` transaction that commits or rolls back as
a whole, so writers are serialised and **one service method is one atomic step**; reads are
separate transactions and may be stale by the time they are used. The actors are

- HTTP threads, which call any service method at any time;
- one `LocalWorker` thread per backend process, which polls `claim_next`;
- isolated child processes, one per heavy phase component, which use the *same token* as the
  thread that started them;
- workers of a process that was killed, of which only a lease row is left, and workers
  that were slow, not dead, and wake up after their task went to someone else.

| component | state | operations | correct when |
|---|---|---|---|
| task service (`B/jobs/service.py`, `state_machine.py`) | tasks (status, resume_state, execution_epoch, config revision, progress), `worker_leases` row of slot 1, `phase_checkpoints` | create, update config, queue, pause, resume, terminate, delete, claim, heartbeat, commit batch and its replay, complete phase, fail, the three ways to stop before or without a checkpoint, recover stale leases, release gate | the slot has one owner; a worker that lost it changes nothing; requests and verdicts stand; resuming continues the committed work; nobody waits for ever |
| local worker, phase processes (`B/jobs/runner.py`, `phase_process.py`, `B/app/registry_task_runner.py`) | active token, the child process, per-phase component order | claim loop, stop, start/poll/kill a child, run components in order, finalize a phase | every claimed task is given back in the status its user asked for |
| phase runners (`B/scanner`, `B/app/modular_*.py`, `style_analysis.py`, with their repositories) | cursor in the last checkpoint, result rows (samples, evidence, model results, clusters) | resume, work batch with its writer, control batch, finalize | result rows and checkpoints agree; results are those of the config shown |
| export runs (`B/export_runs`, `B/export/tree_publisher.py`) | `export_runs` row with its checkpoint, staging tree, output tree | create, claim, plan, copy, verify, publish, complete, fail, requeue, recover | the output is absent or whole; foreign files survive; runs settle |
| rewrite export (`B/export/service.py`, `rewrite.py`) | source tree, backup directory with manifest, preview confirmation | confirm, move files, commit, restore | no file lost; a move happens only for a confirmed preview |
| reviews (`B/reviews`, `B/database/review_overlay.py`) | decisions over samples, one active overlay per sample | decide, revert, batch decisions | at most one active overlay; decisions only at the gate |
| model downloads (`B/model_adapters`) | operations by model, threads, semaphore, `.part` files | start, cancel, verify, shutdown, resume a file | a file under its final name is verified; shutdown ends every thread |
| transcode cache (`B/export_runs/transcode_cache.py`) | LRU map, byte count | get, put, encode | accounted bytes are the stored ones and below the limit |
| component runs and registry (`B/core/component_*.py`, `B/adapters/component_run_repository.py`) | plan of component runs per task and config | resolve, sync plan, record result or failure, reconcile with checkpoints | the plan is the config's; runs follow the checkpoints |
| media decoding, scoring, clustering, style, latent inference | none of their own | numeric functions of files | out of reach of these methods |
| workspace, presets, artifact stores, HTTP API, migrations | rows and files written by one call each | queries and single-row changes | tests reach it |
| web client, audit pages (`src/frontend/src/pages`) | the list asked for, its answer, ticks, an open dialog, the page offset | load, tick, decide, page, switch tab | the page shows the answer to what it asks for now; its decisions land |
| web client, task state (`App.tsx` and its hooks) | the task list, the selected task and its five reads, the event stream, a fallback timer | load, select, control, delete, follow the stream | details never go back; it catches up with the server |
| benchmarks, scripts, other pages of the client | - | - | not part of the running backend, or one answer shown |

The hard behaviours: a token fenced off by an epoch after its lease expired; a pause or
termination that arrives in every gap of a worker's call sequence; a commit whose answer was
lost and that is sent again; checkpoints of several configs under one task; result rows that
must change together with the checkpoint; export runs that compete with tasks for the slot;
file-system changes that no transaction covers; threads that download, verify, cancel and wait over the same files;
answers that reach the web client in another order than they were asked for. `PROJECT.json` lists each with its line.

## The modules

| module | what it is | code |
|---|---|---|
| `TaskStates` | the statuses, the pipeline and the gate | `B/jobs/state_machine.py`, `B/database/enums.py` |
| `FencedSlot` | abstract: one slot, granted under ever newer generations, and a ledger only the slot's holder adds to | what the rest of the system relies on |
| `TaskLifecycle` | the task service, export runs as rows, the result rows of each unit, and workers as its clients | `B/jobs/service.py`, `B/database/models.py`, the batch writers in `B/scanner`, `B/app`, `B/adapters` |
| `ExportPublication` | abstract: until a failed verdict the output holds nothing of a run or all of it; verdicts are final | what `B/export/tree_publisher.py` is for |
| `ExportExecutor` | one export run: its row, the lease, the staging and output directories, every worker's place in `run()` | `B/export_runs/executor.py`, `B/export/tree_publisher.py` |
| `PhaseRun` (on `TaskLifecycle`) | the worker thread, the component loop, parent and child of a phase process, the component rows | `B/jobs/runner.py`, `B/jobs/phase_process.py`, `B/app/registry_task_runner.py`, `B/adapters/component_run_repository.py` |
| `ExportSelection` | pure: what an export takes of the samples, evidence and decisions | `B/export_runs/eligibility.py`, `planner.py`, `B/workspace/curated.py`, `B/adapters/dataset_workspace.py` |
| `ReviewOverlay` (on `TaskLifecycle`, `ExportSelection`) | human decisions, previews and creation of copy runs | `B/reviews/service.py`, `B/workspace/service.py`, `B/database/review_overlay.py`, `B/export_runs/service.py` |
| `RewriteExport` (on `PhaseRun`, `ReviewOverlay`) | the files a rewrite moves, its backups and manifests, undo and restore | `B/export/service.py`, `rewrite.py`, `B/api/tasks.py` |
| `ModelDownloads` | operations, threads and files of the model assets, the worker that waits for them | `B/model_adapters/downloads.py`, `storage.py`, `service.py`, `B/scoring/coordinator.py` |
| `AnalysisTask`, `ScanRows`, `ScoringRows`, `StyleRows`, `ClusterRows`, `AnalysisPipeline` | what the components of each phase read, check, write to disk and commit; the last composes the others | `B/scanner/service.py`, `B/app/modular_scoring.py`, `style_analysis.py`, `modular_clustering.py` and their repositories |
| `AuditPages` | one audit page of the web client over lists and decisions served at any moment | `src/frontend/src/pages`, `B/reviews/service.py` |
| `WebClient` | the task state of the web client | `src/frontend/src/App.tsx` and its hooks |
| `TaskLifecycleProofs`, `PhaseRunProofs`, `ExportExecutorProofs`, `DownloadProofs`, `RewriteProofs` (and reviews), `AnalysisProofs`, `AuditPagesProofs`, `WebClientProofs` | inductive invariants and theorems | |
| `MC...` | instances for TLC | |

Each detailed module carries a section of deliberately faulty definitions (`UnfencedToken`,
`ControlOverlooked`, `PreparesEveryRun`, `OneFileAhead`, ...). No specification uses them; `PROJECT.json` pairs
each with the property that fails when it replaces its original, which shows that the
property depends on what the code does.

### TaskLifecycle

State: `task`, `run`, `lease`, `ckpt` are the tables, column for column where a property can
tell (`TaskRow`, `RunRow`, `LeaseRow`, `CheckpointRow`); `evidence[t][p][u]` is the config whose results the rows
of unit `u` hold, or none; `worker` is the memory of each worker
process: the token it holds, the phase and config it read, its next batch index and position.
One action is one method; a call the method refuses changes nothing and has no action.
Time is `LeaseExpires`, which turns the live lease into an expired one: a lease that can be
renewed may expire all the same, because a heartbeat may come late.

`claim_next` recovers an expired lease and grants the slot in one transaction, so `ClaimNext`
does too, for any of its outcomes (nothing to run, a task, an export run). A recovery bumps
the epoch of the row and so does every later claim. `commit_batch` writes the checkpoint,
runs the batch writer, stamps the progress and, when a pause or termination is pending, carries it out and
releases the slot (`CommitBatch`, with a work or a control-only batch); `delivered = FALSE`
is a reply that never arrives, after which the same call is sent again and meets its own row
(`ReplayBatch`). Batch index and position are read once per claim (`ReadResumePoint`) from the
last checkpoint of task, phase and *current config hash*. In the first work batch of a config the writers
*prepare*: they delete (style, clusters) or mark missing (samples) what any config left before, then
store the units of the batch. `cpu_metrics` finalizes rows of scanning and exporting writes
files: neither has evidence here.

The workers are the most general clients: any call with any token in memory, in any order,
however stale, plus crashes. What the real callers do in sequence is a subset of that for safety; it is the
subject of `PhaseRun`. `RUN_NEXT` is the chain of statuses of an export run; what happens to its files is in
`ExportExecutor`.

### PhaseRun

`parent` is the worker thread of the running backend with its place between claim and release, `child` the process of
each owner that a component runs in, `crun` the status of each component row. The service calls are `TaskLifecycle`'s
actions, in the order the callers make them. Parent and child hold the same token: the child commits
while the parent watches it, kills it on a control request and then settles the task itself. A crash of the backend
leaves children behind, which end by themselves (`OrphanEnds`). Between a claim and the start of a child there is a gap in
which a request can arrive; so is between two components of a phase.

### ExportExecutor

`run()` is written out step by step: `pc` is the worker's place in it, and its other fields are what it
has read (the token, the view `_prepare` returned, the next file). Each database transaction is one step
and each file operation is one step, so that a crash, an expiry or another worker comes between any
two. The transactions call `_require_lease` and are fenced; the file operations are not, and a
worker that lost its lease goes on with them until its next transaction. An exception leads to
`failing`, where `_fail` records the verdict, requeues the run if the lease has expired, or raises if the
slot is lost; `_cleanup_owned_staging` follows as a step of its own.

A directory is described by what the code asks of it: whether it is there, which planned files it holds
under their names, which `.part` files, and whether anything else. Files are numbered in the order
of the plan; the last one is the manifest. `os.replace` refuses an existing target directory, as on
Windows, the platform the application is made for. `rmtree` is one step. While another task or run holds
the slot nobody claims this run, which is why only its own lease is here; `TaskLifecycle` has the queue.

`Faults` says how the surroundings interfere: a file operation or the planner raises (`io`), the user saves
a file into the output directory or the staging path existed before (`foreign`), staging is deleted
while no process works on it (`staging`). `lost` is a history variable: staging was deleted by others.

### ExportSelection, ReviewOverlay

Samples are numbers in the order of their paths, scores are steps of a small scale. `ExportSelection` translates
eligibility, duplicate groups, the balancing of folders by repeats and the naming of destinations as functions of the
facts and the decisions. A name stands for all names that differ only in case, which is how the planner compares
destinations; that it lets two files of equal bytes share a destination is modelled as a collision.

A decision of a review page looks at the task in a first transaction and writes in a second (`review` holds the call between the two); a batch
writes its rows one after another, each superseding the active row of its sample. Manual exclusions do all in one. A
client's preview and `create` refuse settings that do not fit together (`SettingValid`: balancing without
repeats in folder names, a target that is not manual or a manual one without a number). `create` plans in one transaction, hashes files outside any, and inserts the run in another, where it compares
the decisions once more. New rows are numbered by counting, which is what the identity of "the newest" rests on.

### RewriteExport

`place[s]` is where the file of a sample is, `manifest[b]` what the manifest of backup `b` lists, `rewriter` the
memory of each moving child, `restorer` a restore request on its way. A move and the manifest write after it are two
steps, and a kill by a pause, a crash or a lost lease can come between them. The decisions are `ReviewOverlay`'s,
parent and child are `PhaseRun`'s. Reductions: preview and confirmation are one step; decisions arrive as
`LateDecision` only; manual exclusions come to the same as a decision; the deletion of a task and a graceful stop of the backend
(to the child the same as a pause) are left out; the undo of a failed restore is one step; latents and annotations move with
their image.

The child of a backend that was killed may go on while its successor's works: when it finds its token gone it puts its own
files back. So two children can be moving files, each to a backup of its own, and what a completed rewrite left behind is only
certain once no earlier child is at it (`NoneUnderWay`) and nobody asked for a restore meanwhile (`recalled`).

### ModelDownloads

`final`, `part` and `listed` are the files (`final[m][f]` by content: `good`, `bad`, `edited`, `cut`), `op[m]` the last
operation of a model with the place of its thread, `waiter` the worker that waits and loads. Steps are the file
operations, the places where the thread asks whether it is canceled, and the changes of status. Reductions: custom models
are left out; others change a file only while no operation on its model is alive; the list of starts in `start_download`
and the verification of one model by `require_ready` are one step each; after an operation has ended only its status matters.

### AnalysisPipeline

`rows` are the sample rows, `found` what the tables hold about them, `disk` the files the components write (manifests,
shards), each stamped with its writer, `ckpt` the last checkpoint of each component and config, `mem` the memory of a worker in a component. Slot and status
are reduced to what a phase sees: a fenced-off worker's commits are refused, its file writes are not. Reductions: one
file per batch, shard and scope; a file is verified and read in one step; a manifest is replaced and hashed in one step; one
scorer stands for four. `Settings` has the scope mode: clusters are made per artist from the core that style analysis found, per
concept folder from all samples, or of all samples at once (`ClusterScopes`); role evidence, which only the profile `character_concept` has, comes
with concept folders, a folder per commit, as `B/core/profile_contracts.py:35` forces it. Beside samples, scores, styles and clusters the rows are the scan's metrics, the manifest artifact, the sparse
autoencoder, the semantic duplicates and the roles of a character set. Exact and visual duplicates, moved files that keep the identity of
their sample and files the scan rejects are left out; the scan looks only at the status when it begins.

### AuditPages, WebClient

Both follow one tab. A call is asked, served at some moment after, and answered at some moment after that, or fails; other tabs
and clients appear as what they leave at the server (`DecideElsewhere`, the task's moves). In `AuditPages` every filter but the
decision filter is left out, since they all act alike, and a change of route, which mounts a new page. In
`WebClient` one number per task stands for `row_version` and the sequence of the last event; a read may be
served at any moment since it was asked. Loads that a newer one supersedes are dropped at once; health and
component lists, notices and a client with nothing remembered are left out.

### FencedSlot, ExportPublication

`FencedSlot` has a holder, a generation per client and a ledger of entries
stamped with client and generation. A grant always comes under a generation newer
than any the client had, and nothing enters the ledger but from the holder under its current
generation. `ImplementsFencedSlot` maps the holder to `lease.target`, the
generations to the execution epochs of tasks and runs, and the ledger to the checkpoints.

`ExportPublication` has the verdict (open, completed, failed) and the output (none, whole, partial). The output becomes whole in
one step; a run is completed only after it. A failed verdict says nothing about the
output: a worker that was fenced off before the verdict may still rename what is left of the staging tree into place
(`MoveLeftovers`).

## The runs

| run | instance | checks |
|---|---|---|
| `queue` | 2 tasks, 1 export run, 2 workers, no units, fairness | `TypeOK`, `SlotConsistent`, `ResumeStateSound`, `ControlHonored`, `QueueServed`, `RunSettles` |
| `evidence_kept` | 1 task, 1 export run, 2 workers, 2 configs, 2 units, resumes into three phases | `HolderNeverConflicts`, `CheckpointChain`, `PhasesCovered`, `EvidenceBacked`, `ImplementsFencedSlot` |
| `export` | 1 export of 3 files, 2 workers, all faults, fairness | `TypeOK`, `CursorBehindDisk`, `ForeignKept`, `StagingKept`, `ImplementsPublication`, `Settles` |
| `export_crash_fails` | 1 export of 2 files, 1 worker, crashes | `CrashNeverFails` is violated |
| `phase` | 1 task, 2 backends, 2 configs, 2 units, all faults, fairness | `RunnerHandsBack`, `PhasePassedWhole`, `StopEnds` |
| `selection` | 5 samples in 2 folders, 1 reviewer, 1 client, 2 runs, 3 settings | `DecisionChain`, `RunsAsConfirmed`, `DuplicatesKeepOne`, `BalanceTight` |
| `rewrite` | 3 samples, 2 backends, a rewrite and a copy config, 2 backups | `FilesAccounted`, `OnlyConfirmedLeave`, `CompletedAsConfirmed`, `CompletedRestorable` |
| `rewrite_fails` | the same without faults | `FailedRewriteUndone` is violated |
| `downloads` | 2 models, the second of 2 files and with need of the first, all faults, fairness | `InstalledWhole`, `DownloadedKept`, `RunsOnWhole`, `WaitEnds` |
| `analysis` | 1 task of 2 files, 2 workers, 4 configs of 3 profiles | `ErrorsExplained`, `EvidenceWhole` |
| `audit_pages` | 2 samples, pages of 1, 2 loads, 2 decisions | `ShownIsCurrent`, `KeepsOne`, `SubmissionsLand` |
| `client` | 2 tasks, 2 events, 2 clicks, 1 fault, fairness | `AnnouncedOnce`, `DetailsAdvance`, `CatchesUp` |

What they say, in words:

- *The slot* (`SlotConsistent`, `ImplementsFencedSlot`): a task or run has an active status
  exactly while the only lease names it, under its own epoch; a fenced-off worker never adds
  a checkpoint.
- *Resuming* (`HolderNeverConflicts`, `CheckpointChain`, `ResumeStateSound`): whatever pauses, recoveries,
  lost replies and config changes came before, a worker with a valid token works for the phase
  and config of the row, `commit_batch` never raises `CheckpointConflict` on it, and the checkpoints of
  a config are one gapless chain. `resume_state` is a worker phase in the statuses that lead back to one;
  so the code that looks for a paused task whose resume state is `evidence_review`
  (`B/jobs/service.py:884,984`, `B/reviews/service.py:1331`) is never reached.
- *Progress of the pipeline* (`PhasesCovered`): no phase is left with uncommitted units. It asks for the
  units of each earlier phase under *one* config, not under the current one: the code keeps
  the finished phases when the config of a paused task changes.
- *Results* (`EvidenceBacked`): no results without a checkpoint of their config.
- *Carrying a phase* (`RunnerHandsBack`, `PhasePassedWhole`, `StopEnds`): the worker thread goes back to its loop with the slot given back or a request pending, never with a task still
  at work, a phase is passed only after every component of it, and a stopped worker ends.
- *Export* (`ImplementsPublication`, `CursorBehindDisk`, `ForeignKept`, `StagingKept`): the output is
  published as a whole or not at all, also when a fenced-off worker renames what its successor
  prepared; until then the stored cursor never claims a file that is not in staging (afterwards a fenced-off worker
  may leave a staging of its own beside the output, see below); nothing of others is deleted;
  copied work is kept until a verdict.
- *Reviews and selection* (`DecisionChain`, `RunsAsConfirmed`, `DuplicatesKeepOne`, `BalanceTight`): one active decision per
  sample at the end of one chain; a run is inserted only for the plan its client previewed; a duplicate set keeps a member;
  repeats are as even as whole numbers allow.
- *Rewrite* (`FilesAccounted`, `OnlyConfirmedLeave`, `CompletedAsConfirmed`, `CompletedRestorable`): every image is in the source
  folder or in a backup whose manifest lists it, in every run in which no restore of a backup was asked for while it was being
  written (`raced`); nothing leaves without a confirmed preview; a rewrite that completes moved what was confirmed and can be restored, unless a restore was asked for or
  the child of an earlier backend has still to put its own moves back.
- *Models* (`InstalledWhole`, `DownloadedKept`, `RunsOnWhole`, `WaitEnds`): no wrong bytes under a final name, no good bytes
  given up, inference on verified files only, and the wait of a worker ends.
- *Analysis* (`ErrorsExplained`, `EvidenceWhole`): a task fails only for a cause its user can see or one of the listed ones,
  and a finished phase leaves the rows of one config, also where role evidence is written one concept folder at a time.
- *Web client* (`ShownIsCurrent`, `KeepsOne`, `SubmissionsLand`, `AnnouncedOnce`, `DetailsAdvance`, `CatchesUp`): the page shows the
  answer to its latest question and what it offers the server takes; details never go back
  (`docs/superpowers/specs/2026-08-13-reliability-and-100k-performance-design.md:76` asks for it: no late answer may set the
  state), a completion is announced once, and but for the gaps named in `CatchesUp` the client shows what the server has.
- *Liveness*: a control request takes effect, a queued task is claimed or withdrawn, a queued
  export run completes or fails (`Settles` says the same of the executor's own steps).

### Bounds

- `Worker`: two, the worker presumed dead and its successor; the slot admits one at a time,
  so that a third adds only another stale token. Where only safety is checked and workers are alike they are
  symmetric; they are not in `phase` and `rewrite`, where they are backends in the order of their starts.
- `Config`: two, the old and the new one of a change; changing back and forth needs no third. Four in
  `analysis`: two that cluster by artist (so that one replaces the other's style evidence), one that clusters by concept folder
  with role evidence, as every `character_concept` task does, and one that clusters all samples together. The last two have no
  scoring; with it the run holds as well, but takes twice the time.
- `NItems`: two units where resuming is the point (before, between and after), none where the slot is.
- `ResumeBound[p]`: how often a task may be resumed into phase p. It is what makes the state space
  finite, together with `MaxControl` (control-only batches per phase and config) and `MaxRunEpoch` (how
  often an export run may be taken from its worker). Epochs need no bound of their own. In `evidence_kept` they are
  three in scanning and two in model scoring and exporting, and its export run is never requeued (`MaxRunEpoch` 0).
- `NFiles` of an export: three, so that a crash can come before, between and after the stored cursors; `MaxEpoch`: a worker
  may be lost while the epoch is below it (5), so that both workers can be lost twice over.
  Larger instances were tried: with three workers (two files, `MaxEpoch` 7, no
  faults) the publication still holds. With *four processes alive in one run at once*
  one worker can rename a partial tree that a third began after a second moved the verified one away, since
  neither the verification nor the rename is fenced. By then the run has failed, which is why the
  abstract specification has `MoveLeftovers`. `StagingLost` needs all workers idle.
- `selection`: two decision rows, one selection of two samples by hand, three settings of which one is refused; enough for a decision between any
  two transactions of a client and for one that supersedes another.
- `rewrite`: three samples of which two can be excluded, so that a kill can fall before, between and after the moves; two
  backups and one more resume after the first rewrite.
- `downloads`: a file is two chunks, so that it can be cut in the middle; two requests and one restart; others change one file once.
- `analysis`: two files, each its own folder, batch, shard and scope (of the three configs that cluster by folder), so that role evidence of two files is
  written in two commits with anything in between; two upsets (`MaxUpsets`: pauses, crashes, lost leases,
  edits), 1.45 million states. The third upset was out of reach of TLC.
- `audit_pages`, `client`: the fewest loads, decisions, clicks and faults at which each excuse and each mutant shows.

`CHECK_DEADLOCK FALSE`: with all tasks in a final status (or at the review gate), the page left alone and the bounds used up the system
really has nothing more to do.

### Fairness

- `TaskLifecycle`: weak fairness of each worker's claims, of its steps with a token it holds, and of
  the expiry of a lease *whose holder is gone* (`~HolderAlive /\ LeaseExpires`). The worker loop polls every few
  seconds (`B/jobs/runner.py:126`), a runner with a token makes its next call or crashes, and a lease without
  heartbeats expires after 300 s. No API call is fair: nobody has to resume a task. `RunSettles` holds
  for runs lost finitely often: `Crash` and `RequeueExportRun` stop at `MaxRunEpoch`.
- `ExportExecutor`: the same of its workers and lease. A run whose every
  attempt outlives its lease (hashing renews none) would be requeued for ever; that loop is a hazard of the
  executor, not excluded by the code but by `MaxEpoch`.
- `PhaseRun`: the worker thread, each child and each orphan goes on, the pause that a stop asks for is made, a stopped backend is
  started again, a lease without a live holder expires.
- `ModelDownloads`: each operation's thread goes on, the waiting worker polls, loads or runs, and a backend that is shutting down
  is started again.
- `WebClient`: calls are served and answered (or fail), the stream delivers, the timer fires. The user does nothing by fairness.

## The proofs

| module | theorem | says |
|---|---|---|
| `TaskLifecycleProofs` | `TypeCorrect` | `Spec => []TypeOK` of `TaskLifecycle` |
| `TaskLifecycleProofs` | `SlotAgrees` | `Spec => []SlotConsistent` |
| `TaskLifecycleProofs` | `ResumeStateHolds` | `Spec => []ResumeStateSound` |
| `TaskLifecycleProofs` | `ResultsAreBacked` | `Spec => []EvidenceBacked` |
| `TaskLifecycleProofs` | `HolderIsWelcome` | `Spec => []HolderNeverConflicts` |
| `TaskLifecycleProofs` | `CheckpointsChain` | `Spec => []CheckpointChain` |
| `TaskLifecycleProofs` | `NoPhaseSkipped` | `Spec => []PhasesCovered` |
| `TaskLifecycleProofs` | `SlotImplemented` | `Spec => ImplementsFencedSlot` |
| `PhaseRunProofs` | `TaskHandedBack`, `PassedAsWhole` | `PhaseRunSpec => []RunnerHandsBack`, `PhasePassedWhole` |
| `ExportExecutorProofs` | `ExportTypeCorrect`, `CursorIsBehind` | `Spec => []TypeOK`, `[]CursorBehindDisk` |
| `ExportExecutorProofs` | `OthersFilesStay`, `WorkStays` | `Spec => ForeignKept`, `StagingKept` |
| `ExportExecutorProofs` | `CompletedIsWhole`, `PublicationImplemented` | a completed run has its whole output; `Spec => ImplementsPublication` |
| `DownloadProofs` | `DownloadsTypeCorrect`, `NothingElseInstalled`, `InferenceRunsOnWhole`, `GoodBytesKept` | types; `[]InstalledWhole`, `[]RunsOnWhole`, `DownloadedKept` |
| `RewriteProofs` | `DecisionsChain`, `ConfirmedRuns` | `ReviewSpec => []DecisionChain`, `RunsAsConfirmed` |
| `RewriteProofs` | `DuplicatesLeaveOne`, `SnapshotsBalanced` | `DuplicatesKeepOne`, `[]BalanceTight` |
| `RewriteProofs` | `NoImageLost`, `LeavingIsConfirmed` | `[]FilesAccounted`, `OnlyConfirmedLeave` |
| `RewriteProofs` | `OneRestoreUndoes`, `DoneIsConfirmed` | `[]CompletedRestorable`, `CompletedAsConfirmed` |
| `AnalysisProofs` | `FailuresExplained`, `RowsAreWhole` | `Spec => []ErrorsExplained`, `[]EvidenceWhole` of `AnalysisPipeline` |
| `AuditPagesProofs` | `PageShowsItsDecisions`, `GroupsKeepOne`, `TickedRowsLand` | `AuditSpec => []ShownIsCurrent`, `[]KeepsOne`, `[]SubmissionsLand` |
| `WebClientProofs` | `CompletionAnnouncedOnce`, `NoDetailsGoBack` | `[]AnnouncedOnce`, `DetailsAdvance` |

They hold for every value of the constants that satisfies the named assumptions of the modules: any number of tasks, runs,
workers, configs, components, units, files, models, samples, decisions and faults. The assumptions ask that ids are numbers and told apart (their order is
the order of creation), `PhaseRun` has its one task, copy configs are configs, a plan has at least its manifest, each model comes last in its own
download order, the semantic duplicate groups of the audit page are disjoint and their members candidates, duplicate evidence is about samples, sizes and repeats are numbers, a completed task goes on only to be deleted,
a config has the components its profile needs (clustering by artist needs style analysis, role evidence goes with concept folders) and `None` is no value of a cursor or manifest, sets of constants
are what their comments say, and bounds are numbers.

**The slot and the tasks.** None of types, `SlotConsistent` and `ResumeStateSound` is inductive alone: a claim copies `resume_state` into the
status, which is a status only because `ResumeStateSound` makes it a phase; a recovery puts the status of an expired
lease's task into `resume_state`, which is a phase only because `SlotConsistent` makes the task active. The
invariant `IInv` is the conjunction of the three with `Configured` (a task that exists has a config) and
`MemorySound` (a token names a task or run of its kind, a task's with phase and config). `TaskStep`, `ApiTaskStep` and
their kin say once what a step that writes one row and keeps or releases the lease must
show; each action has a lemma that shows it for its row, and `Invariance` puts them together.

**Results.** `RInv` adds that result rows are typed and that a unit with results of config `c` is covered by a
checkpoint of `c`. Checkpoints are only ever added for a task that lives, so that old rows stay
covered; a batch stores the units up to the position its own checkpoint records.

**Checkpoints.** `CInv` adds six parts. A checkpoint belongs to a row that was born (`RowsBorn`). The chain is gapless and its
epochs rise with the batch (`CheckpointChain`, `ChainMonotone`). The worker whose token is in force stands exactly at
the end of its chain, or on its last entry when a reply was lost (`HolderPosition`); this is what makes the next commit fit, and it
survives a second worker because a claim raises the epoch, so that no other token is in force. Progress shown is backed by a
checkpoint (`ProgressBacked`), and every phase before the task's own is covered (`PhasesCovered`). TLC checked `CInv` on the
instance of `evidence_kept` first.

**The fenced slot.** Under `CInv` every action maps to one abstract step or a stutter: claims to a grant, releases and recoveries to a
release, commits to a new ledger entry, deletion to the removal of a client. `SInv` adds `LeaseWhole`: a lease has all of its
columns or none of them.

**The worker thread.** `RunnerHandsBack` is a fact about the moment of the return; that it holds rests on all the thread knew before. `PhaseInv` says
it: while the thread carries a task and the slot is its backend's, its token is in force and the task is in the claimed
phase or has a request pending, and what it last read of the task still tells it that (`Hand`); a child works in the phase of its
token, there is none unless the thread watches it or its backend is gone, and a component of a modular phase never comes to
complete the phase (`Children`); the slot's only users are the one task and the backends up to the running one (`SlotInv`, with `IInv` in
it). Every call of the task service is shown once to be `Steady`: it takes the slot away or leaves it to its holder, with
the task as it was or with a request. A step of thread, child, clock or API then only has to say which kind of step it is. `PhasePassedWhole` follows as only
`LeavePhase` takes a task to the next phase, and the finalizer, an empty phase and the self-completing components are
the only ones to call it. TLC checked `PhaseInv` on the instance of `phase` first.

**Copy exports.** The inductive invariant `IInv` of `ExportExecutorProofs` says beside the types: a worker in the copying loop has a
file left to copy; a foreign staging path is not marked as owned, in the row or in a view, and every worker is then before the
checkpoint's reset or on its way out; a verdict frees the slot; and a worker cleans up only after a
failed verdict. `StagingChanges` and `OutputChanges` list the steps that touch the directories. `PInv`
adds what each worker may rely on at its place in `run()`: no worker, fenced off or not, relies on a file that is neither staged nor
published. That is not so after others deleted staging (`lost`) or the run failed; both are conditions of
the invariant, and are reachable. From it follow the cursor, the wholeness of a completed output and the refinement.

**Model downloads.** The invariant has four parts: what a file under either name may hold (`FilesSound`), what the
thread of an operation knows at each place (`OperationSound`), what a model verified in this process has on disk (`VerifiedSound`), and where the waiting
worker is (`WaiterSound`).

**Reviews.** `ReviewInv` says that the rows of a sample are numbered from 1 without a gap, that the last is the active one or none is, that
each supersedes the one before and that no two in a row decide the same. The first is needed because a new row is numbered by counting. For `RunsAsConfirmed` it
also has the shapes of runs, clients and snapshots; the comparison at the insertion does the rest. Two properties are about what a selection
computes, and their lemmas about the operators of `ExportSelection`: two sets of duplicates that share a sample are one (`SameSet`), so that what one drops
is in no other (`SetsAreApart`); of the members that pass one is better than all others, by the least number of better ones (`BestExists`,
`RepresentativeIsOne`); the repeat taken is the largest within the target, from the bounds of a division (`ClosestIsTight`), and the heaviest folder,
which sets the target, reaches it with its own repeat (`HeaviestExists`, `PlanIsBalanced`).

**Rewrite.** `RewriteInv`: a child's backup is its own and no one else's; a file is listed in the manifest before anyone relies on the
move; a backup holds nothing its child does not remember having moved while that child lives; a restore's list is still in its manifest;
and whatever a child has listed, read or moved was excluded by a confirmed preview. Of the slot the argument uses nothing, so that
it holds as well while the child of a killed backend and its successor's both move files, each to a backup of its own; a backend's own child
starts when it has none under way (`ThreadInv`).

**What a rewrite leaves.** Whether a task that shows completed is what was confirmed is decided far from the moves: a child commits,
its parent reads the result, the thread records it and the finalizer writes the status, while an orphan of an earlier
backend still moves files and clients decide, restore and edit. `OutcomeInv` joins `PhaseInv` (the thread's token, its child and the
task agree) and `RewriteInv` (each child keeps to its own backup) with three links: the thread takes no other child's result for that
of its own and keeps the config of its claim (`ThreadKnows`); what a child has moved and has still to move is together what its
preview excluded (`RowKnows`); and, while no restore met a running rewrite, each backup holds what its child remembers
(`Holding`), backups are numbered in the order of their making (`InOrder`), and a child finds everything in place when it begins and
leaves all of it in the source folder or in its own backup (`Outcome`, of `Around`, `Settled` and `Taken`). TLC checked `OutcomeInv` on the instance
of `rewrite` first.

**Analysis.** Both theorems rest on one invariant, `AnalysisInv`, with a part for each place where a component keeps something: its memory, its cursor,
its files and its rows. Neither property is inductive: that a resumed component does not mistrust what it finds is a fact about what an earlier worker,
perhaps killed between a file and its commit, left in the other places. `CursorsSound`: a cursor is for just the units that the rows give now, counts them, is
complete only at the last, and the components before its own are complete. It stays so because the rows that units are taken from
belong to earlier phases (`UnitsStay`) and nothing has been done of later ones (`NothingAhead`). `Vouched`: unless somebody without the slot replaced a file, each hash that a cursor or a
table registers is that of the file on disk; it is why `Positioned`, `Sighted` and `Backed` follow the holder between reading, writing and committing: what it
is about to register is there, and what it is about to write nobody has registered. `VersionsSound`: no list has seen a version of a file still to come, so that a file which differs from its row was changed
after it was listed. `EvidenceSound`: while no config returned to a phase another had worked in, the rows are those of the units up to the cursor and no others (`ScanDone`, `ScoresDone`,
`StyleDone`, `GroupsDone`); the first commit of a config deletes the rest once, which the flag `prepared` in its cursor remembers. `RowsAreWhole` is the case of a complete cursor. `Hand` says what
the holder of the slot may rely on at each place; of all other workers nothing is assumed, so a worker that lost the slot is free to write until it notices. That
the units up to a position are what lies before it (`DoneSound`) rests on the order of a finite set being a bijection (`RankSound`, `NthSound`). TLC checked the parts of `AnalysisInv` on the instance of `analysis` first.

**Audit pages.** `AuditInv` rests on the server's clock: whatever a list does not know was decided after it was read. `Spared` says that each exclusion by
this page on a duplicate left a member of its group out which the list did not show as excluded; `KeepsOne` is what remains of it when the whole group is
excluded. `ListSound` says of a list, on its way or on display, that a row which differs from the server was decided after the list was read, and that every row it lets a
reader tick is one the server takes (`Lands`) or was decided since. `Fresh`: with no decision done and unanswered, a list knows the page's own decisions. It is what
`ShownIsCurrent` needs and holds because each decision ends with a reload that supersedes every older answer (`RequestsSound`: an answer to the newest load was asked
with the present query, before any list is on display, and there is only one). `SubmissionSound` carries `Lands` and the spared member from the list to the moment the
call is served. That `Matching`, a recursive function, returns entries of `Items` is shown by `Induct`: induction over the naturals as the existence of a least
counterexample.

**Task state of the client.** `ClientInv`: the history of a task ends soon after it completed (`HistorySound`), each row
in the client, in an answer or in a call is a state its task once had (`RowsSound`), a sound was made only after the key of the task's one completed state
was put among those seen (`Announced`), and what a load or the stream will show was read no earlier than what it replaces (`LoadsSound`, `WatchSound`). `NoDetailsGoBack`
follows because a load applies only while it is the newest of its task.

**Only model-checked.** The liveness properties (`ControlHonored`, `QueueServed`, `RunSettles`, `Settles`, `StopEnds`, `WaitEnds`,
`CatchesUp`) need fairness and `ENABLED`, which the prover does not handle.
Every invariant and every other action property that the passing runs check is stated by a theorem.

## What the runs show about the code

`export_crash_fails`: *a crash at one point costs the export, not only time.* `publish_tree` removes the empty output
directory (`B/export/tree_publisher.py:190`) and then renames staging onto it. After a crash between the
two the output directory is missing, and the worker that takes the run over fails it in `_output_root`
(`B/export_runs/executor.py:180-184`) before it looks at its checkpoint, then deletes the verified staging tree.
`docs/superpowers/specs/2026-08-13-reliability-and-100k-performance-design.md:111` relies on the checkpoint
for recovery from a crash.

`rewrite_fails`: *a pause between two moves costs the rewrite.* `B/export/rewrite.py:91` promises that a failed publish leaves the
source tree exactly as it was, and its `except` clause undoes the moves (line 83 on). But a pause or termination kills the child
process (`B/jobs/phase_process.py:86-107`): nothing is undone, the resumed child misses the moved file
(`B/adapters/dataset_workspace.py:75`) and the task fails with the file in the backup.

Other disagreements met while modelling. The models contain each of them; no run is devoted to it, and properties name it as an
exception where it would break them.

*Tasks and phases*
- A pause between the claim and the start of the scan, or in a phase without components, fails the task
  (`B/scanner/service.py:112,305-310`, `B/app/registry_task_runner.py:64`); `tests/test_scanner_integration.py:620` expects PAUSED.
- A forced stop in a modular phase marks the component failed ("wrong component") though the task is paused.
  `_record_result` marks a component completed although the task was already resumed by someone else, and
  `mark_before_order_completed` marks components of a config that was switched to.
- A config that is taken back (A, B, A) in semantic clustering shows candidates of the other config
  (`B/app/modular_clustering.py:560`); `docs/superpowers/specs/2026-08-10-semantic-duplicate-review-design.md:116`
  asks that they be generated again. In other phases the return leaves rows missing or mixed, or fails the task.

*Analysis*
- A worker that lost its lease can still replace a manifest or a shard that its successor registered; the task then fails.
- An artist config after style analysis was passed without it fails in clustering.
- Any config's resolution verdict decides eligibility (`B/scoring/repository.py:47-50`); thresholds are those of whatever config
  wrote the score evidence; a config without style leaves another's style evidence in place.

*Exports*
- After staging was deleted by others, `run()` resets the stored cursor and goes on from the old view's
  (`B/export_runs/executor.py:86`); verification then fails the run. `_fail` compares the lease but not the run's epoch.
- `write_file` makes the parents of its file (`B/export/tree_publisher.py:110`) after it looked for it. A worker that was fenced off in
  between makes a new staging directory after its successor's rename, writes a file into it, and nobody removes it. The output and the verdict are not
  touched by it, but the stored cursor of the published run is then ahead of that directory, which is why `CursorBehindDisk` ends at the publication.
- A kill between a move and its manifest write makes a restore skip the file and mark the backup restored. A kill during
  the undo leaves a manifest that still says active. A pause at the commit of a rewrite makes the resumed one run again and fail; a
  pause before the child starts fails it too. A config switched to copy while paused in exporting fails, or
  completes without an export if that export is disabled. A restore racing a running rewrite can lose sight of files (`raced`).
  Manual exclusions made while paused in exporting cannot be confirmed again, so that the task fails.
- `README.md:11` of the repository says source images are never deleted or rewritten; a rewrite moves them.

*Models*
- `ModelDownloadCanceled` is a `ModelRegistryError` (`B/model_adapters/errors.py:21`), so that a cancel or a shutdown that meets a
  verification quarantines a good file (`downloads.py:294-295,316-317,428-433`) against what
  `tests/test_model_downloads.py:181` expects of a cancel.
- The worker can wait for ever if a dependency failed or was canceled, or if a start was refused and suppressed
  (`B/scoring/coordinator.py:61`). A start while a canceled thread is alive returns the old operation.

*Web client*
- The event stream opens with the version the list had, so that a change before it opens may be missed until the next one
  (`useSelectedTaskData.ts:36`; the 2026-08-13 design, line 78, wants no missed refresh). A failed or overtaken refresh is
  not tried again while the stream is open, and an older `listTasks` answer can replace a newer row. These are the exceptions of `CatchesUp`.
- A control request refused because the row shown was stale shows a message and nothing else; a selected task that was
  deleted elsewhere stays selected; events beyond the first 200 are not shown.
- The audit dialog can be dismissed while its call runs; a second decision from the older list can take a duplicate group's
  last member. The risk page lets samples be ticked that the server ignores, and lists them in two orders. Paging skips rows after a
  decision under a filter.

## Not modelled

- Tasks without a component profile (refused by `require_builtin_profile`), `row_version` checks, and the event
  log: none of them changes what a step may do here, the version check only refuses more.
- `heartbeat` is not an action: renewing a live lease leaves the model's lease as it is.
- `reclassify_watermark_evidence` changes no status, lease or checkpoint.
- Contents of files and their digests, annotation files, latents as files of their own, and where between two files the
  export's cursor is stored (any choice is allowed).
- Custom models, redirects of a download, special files.
- Two workers in the one `.part` file of an embedding shard (a shard is written in one step), a call of a page that is
  reported as failed and commits later, and an event stream that is closed for good (the fallback timer polls then).
- Redundant views: list and count queries, thumbnails, the SAE feature view, legacy review and clusters pages, forms of the client.
- The transcode cache, whose every method is one critical section, and presets, single-row changes.
- Numeric code (inference, fusion, clustering, metrics), media decoding, scripts, benchmarks, migrations.

## The plan

1. *Done*: all modules above, their runs, and the theorems listed.
2. With every safety property of the runs proved, what could come next is breadth: exact and visual duplicates and moved files in `AnalysisPipeline`,
the transcode cache, and the remaining pages of the client.
