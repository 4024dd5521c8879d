---------------------------- MODULE TaskLifecycle ----------------------------
(***************************************************************************)
(* The task state machine of jobs/service.py (TaskService) with the single *)
(* worker slot it hands out, the checkpoints and result rows workers commit*)
(* and the export runs that compete for the same slot.                     *)
(*                                                                         *)
(* Every TaskService method runs in one Database.write_session, i.e. one   *)
(* BEGIN IMMEDIATE transaction of a single SQLite file, so each method is  *)
(* one action here.  API threads, worker threads, isolated phase processes *)
(* and workers that were presumed dead interleave freely between them.     *)
(* A method that refuses its call (any of the jobs/errors.py exceptions)   *)
(* rolls its transaction back and changes nothing: it has no action.       *)
(*                                                                         *)
(* Clients are the most general ones the code allows: an API client may    *)
(* call any operation at any time, and a worker that holds a token may     *)
(* make any call with it, in any order, however stale the token is.  What  *)
(* the callers really do in sequence is left to the modules above this one.*)
(***************************************************************************)
EXTENDS TaskStates, Naturals, FiniteSets

CONSTANTS
  Task,        \* task ids; the numeric order is the created_at order
  Run,         \* export run ids, in created_at order
  Worker,      \* worker owners: threads, isolated processes, restarted ones
  Config,      \* config revisions of a task, one per config hash
  CopyConfig,  \* the configs whose export.dataset mode is "copy"
  NItems,      \* units of work (committed one per batch) in every phase
  ResumeBound, \* bound: per phase, how often a task may be resumed into it
  MaxRunEpoch, \* bound: an export run is taken from its worker below it
  MaxControl,  \* bound: control-only batches per phase and config
  None         \* SQL NULL

ASSUME IdAssumption == Task \subseteq Nat /\ Run \subseteq Nat /\ Task \cap Run = {}
ASSUME ConfigAssumption == CopyConfig \subseteq Config
ASSUME CountAssumption ==
  /\ NItems \in Nat /\ MaxControl \in Nat /\ MaxRunEpoch \in Nat
  /\ ResumeBound \in [WORKER_PHASES -> Nat]
ASSUME NoneAssumption ==
  /\ None \notin Task \cup Run \cup Worker \cup Config
  /\ None \notin WORKER_PHASES

VARIABLES
  task,     \* the tasks table
  run,      \* the export_runs table: status and execution_epoch
  lease,    \* the worker_leases row of slot 1, NoLease when there is none
  ckpt,     \* the phase_checkpoints table, a set of rows
  evidence, \* per task, phase and unit: the config its result rows come from
  worker    \* what each worker process keeps in memory

db   == <<task, run, lease, ckpt, evidence>>
vars == <<task, run, lease, ckpt, evidence, worker>>

TaskRow == [status   : TaskStatus \cup {"absent", "deleted"},
            resume   : WORKER_PHASES \cup {None},
            epoch    : Nat,
            config   : Config \cup {None},
            progress : Nat]

RunRow == [status : RunStatus, epoch : Nat]

(* live is "expires_at is still in the future"; the clock is LeaseExpires. *)
LeaseRow == [target : Task \cup Run \cup {None},
             owner  : Worker \cup {None},
             epoch  : Nat,
             live   : BOOLEAN]

CheckpointRow == [task : Task, phase : WORKER_PHASES, config : Config,
                  batch : Nat, items : Nat, epoch : Nat]

(* stage "claimed": token in hand, resume point not read yet; "running":   *)
(* next batch index and item position known; "export": holds a run token.  *)
WorkerMemory == [stage  : {"idle", "claimed", "running", "export"},
                 target : Task \cup Run \cup {None},
                 epoch  : Nat,
                 phase  : WORKER_PHASES \cup {None},
                 config : Config \cup {None},
                 batch  : Nat,
                 items  : Nat]

NoLease == [target |-> None, owner |-> None, epoch |-> 0, live |-> FALSE]

Idle == [stage |-> "idle", target |-> None, epoch |-> 0, phase |-> None,
         config |-> None, batch |-> 0, items |-> 0]

NoRow == [status |-> "absent", resume |-> None, epoch |-> 0, config |-> None,
          progress |-> 0]

(* The phases that store results (samples, evidence, model results, cluster*)
(* candidates); cpu_metrics only finalizes what scanning stored, exporting *)
(* writes files.                                                           *)
EVIDENCE_PHASES == {"scanning", "model_scoring", "style_analysis",
                    "semantic_clustering"}

Unit == 1..NItems

NoEvidence == [u \in Unit |-> None]

RowsTypeOK ==
  /\ task \in [Task -> TaskRow]
  /\ run \in [Run -> RunRow]
  /\ lease \in LeaseRow
  /\ ckpt \subseteq CheckpointRow
  /\ worker \in [Worker -> WorkerMemory]

ResultsTypeOK ==
  evidence \in [Task -> [EVIDENCE_PHASES -> [Unit -> Config \cup {None}]]]

TypeOK == RowsTypeOK /\ ResultsTypeOK

Init ==
  /\ task = [t \in Task |-> NoRow]
  /\ run = [r \in Run |-> [status |-> "absent", epoch |-> 0]]
  /\ lease = NoLease
  /\ ckpt = {}
  /\ evidence = [t \in Task |-> [p \in EVIDENCE_PHASES |-> NoEvidence]]
  /\ worker = [w \in Worker |-> Idle]

-----------------------------------------------------------------------------
(* Helpers the methods share.                                              *)

(* TaskService._task_lease: whatever its expiry.                           *)
HasLease(x) == lease.target = x

(* The phase a row works for, looking through a pending control request.   *)
EffectivePhase(row) ==
  IF row.status \in CONTROL_STATES THEN row.resume ELSE row.status

Rows(t, p, c) == {k \in ckpt : k.task = t /\ k.phase = p /\ k.config = c}

(* Faulty versions of the definitions below, each a bug this code could    *)
(* have.  No specification uses them: a run with one of them in place of   *)
(* its original shows which property notices.                              *)

LeaseForgotten(x) == lease

OnlySlotEmpty == lease = NoLease

UnfencedToken(w) ==
  /\ worker[w].stage \in {"claimed", "running"}
  /\ lease.target = worker[w].target
  /\ lease.live

OneUnitShort(w) == worker[w].items + 1 >= NItems

NextWhateverItIs(phase) == PIPELINE_NEXT[phase]

ResumePhaseDropped(row) ==
  [row EXCEPT !.status = "paused", !.epoch = row.epoch + 1]

ControlLeftPending(row) ==
  [row EXCEPT
     !.status = IF row.status \in CONTROL_STATES THEN row.status ELSE "paused",
     !.resume = IF row.status \in WORKER_PHASES THEN row.status ELSE row.resume,
     !.epoch  = row.epoch + 1]

RunLeftActive(row) == row

ResumesOnAnyConfig(t, p, c, batch, items) ==
  LET rows == {k \in ckpt : k.task = t /\ k.phase = p} IN
    \/ rows = {} /\ batch = 0 /\ items = 0
    \/ \E k \in rows : /\ \A other \in rows : other.batch <= k.batch
                       /\ batch = k.batch + 1 /\ items = k.items

ConfigKeepsProgress(t, c) ==
  /\ task[t].status \in {"draft", "paused"}
  /\ task[t].config # c
  /\ task' = [task EXCEPT ![t].config = c]
  /\ UNCHANGED <<run, lease, ckpt, evidence, worker>>

StoresLookahead(u, from, to) == u > from /\ u <= to + 1

(* The originals.                                                          *)

(* TaskService._release_lease, the lease row after releasing x.            *)
Released(x) == IF HasLease(x) THEN NoLease ELSE lease

(* The epoch claim_next hands out with the slot.                           *)
NextEpoch(row) == row.epoch + 1

(* claim_next refuses while a lease is in force.                           *)
SlotFree == ~lease.live

(* TaskService._require_worker: the token in w's memory is the one in force.*)
TokenValid(w) ==
  /\ worker[w].stage \in {"claimed", "running"}
  /\ lease.target = worker[w].target
  /\ lease.owner = w
  /\ lease.epoch = worker[w].epoch
  /\ task[worker[w].target].epoch = worker[w].epoch
  /\ lease.live

(* The status check of complete_phase and of a replayed commit: a pending  *)
(* control request refuses them.                                           *)
StillInPhase(row, phase) == row.status = phase

(* The runner's loop over the units of a phase has ended.                  *)
UnitsDone(w) == worker[w].items = NItems

(* resume_state after complete_phase.                                      *)
ResumeAfter(phase) ==
  IF PIPELINE_NEXT[phase] \in WORKER_PHASES THEN PIPELINE_NEXT[phase] ELSE None

(* request_terminate refuses a task that has nothing left to stop.         *)
Terminable(status) ==
  status \notin {"absent", "deleted", "completed", "terminated"}

(* ExportRunExecutor._require_lease, the same for an export run's token.    *)
RunLeaseMatches(w) ==
  /\ worker[w].stage = "export"
  /\ lease.target = worker[w].target
  /\ lease.owner = w
  /\ lease.epoch = worker[w].epoch

RunTokenValid(w) ==
  /\ RunLeaseMatches(w)
  /\ run[worker[w].target].epoch = worker[w].epoch
  /\ lease.live

(* Some process still acts under the lease in force and renews it.         *)
HolderAlive == \E w \in Worker : TokenValid(w) \/ RunTokenValid(w)

(* The row after the control request pending on it has been carried out.   *)
ControlApplied(row) ==
  IF row.status = "pausing"
    THEN [row EXCEPT !.status = "paused"]
    ELSE [row EXCEPT !.status = "terminated", !.resume = None,
                     !.epoch = row.epoch + 1]

(* TaskService._recover_lease on the task holding an expired lease.        *)
RecoveredTask(row) ==
  IF row.status = "terminating"
    THEN [row EXCEPT !.status = "terminated", !.resume = None,
                     !.epoch = row.epoch + 1]
    ELSE [row EXCEPT
            !.status = "paused",
            !.resume = IF row.status \in WORKER_PHASES THEN row.status
                       ELSE IF row.status = "pausing" /\ row.resume = None
                            THEN "scanning" ELSE row.resume,
            !.epoch = row.epoch + 1]

(* TaskService._recover_lease on the export run holding an expired lease.  *)
RecoveredRun(row) ==
  IF row.status \in RUN_ACTIVE
    THEN [status |-> "queued", epoch |-> row.epoch + 1]
    ELSE row

TasksRecovered ==
  IF lease.target \in Task
    THEN [task EXCEPT ![lease.target] = RecoveredTask(@)] ELSE task

RunsRecovered ==
  IF lease.target \in Run
    THEN [run EXCEPT ![lease.target] = RecoveredRun(@)] ELSE run

(* list_checkpoints filtered by phase and active config, last row by index:*)
(* where a fresh worker resumes (next batch index, items already covered). *)
IsResumePoint(t, p, c, batch, items) ==
  LET rows == Rows(t, p, c) IN
    \/ rows = {} /\ batch = 0 /\ items = 0
    \/ \E k \in rows : /\ \A other \in rows : other.batch <= k.batch
                       /\ batch = k.batch + 1
                       /\ items = k.items

(* first_config_batch, and results_prepared or clusters_prepared read from *)
(* the cursor: no work batch of this config is committed yet.  Checkpoints *)
(* are per config, results per task: the first batch retires what any other*)
(* config left for the phase.                                              *)
Prepares(from, to) == from = 0 /\ to > 0

(* The units whose results the writer of this batch holds in memory.       *)
Stores(u, from, to) == u > from /\ u <= to

(* batch_writer: prepare_scan and upsert_scanned_batch, persist_batch,     *)
(* persist_scope, persist_cluster_scope, between two positions.            *)
BatchWritten(old, c, from, to) ==
  [u \in Unit |-> IF Stores(u, from, to) THEN c
                  ELSE IF Prepares(from, to) THEN None ELSE old[u]]

EvidenceAfter(t, p, c, from, to) ==
  IF p \in EVIDENCE_PHASES
    THEN [evidence EXCEPT ![t][p] = BatchWritten(@, c, from, to)]
    ELSE evidence

-----------------------------------------------------------------------------
(* Operations of the HTTP API.                                             *)

(* Ids are handed out in creation order, so that "oldest" is "smallest".   *)
CreateTask(t, c) ==
  /\ task[t].status = "absent"
  /\ \A u \in Task : u < t => task[u].status # "absent"
  /\ task' = [task EXCEPT ![t] = [NoRow EXCEPT !.status = "draft", !.config = c]]
  /\ UNCHANGED <<run, lease, ckpt, evidence, worker>>

(* Selecting a config reuses its revision when the hash is known, so the   *)
(* config value stands for both; the progress of the phase is forgotten,   *)
(* its resume_state and its checkpoints are not.                           *)
UpdateConfig(t, c) ==
  /\ task[t].status \in {"draft", "paused"}
  /\ task[t].config # c
  /\ task' = [task EXCEPT ![t].config = c, ![t].progress = 0]
  /\ UNCHANGED <<run, lease, ckpt, evidence, worker>>

QueueTask(t) ==
  /\ task[t].status = "draft"
  /\ task' = [task EXCEPT ![t].status = "queued", ![t].resume = "scanning"]
  /\ UNCHANGED <<run, lease, ckpt, evidence, worker>>

RequestPause(t) ==
  /\ \/ /\ task[t].status = "queued"
        /\ task' = [task EXCEPT ![t].status = "paused"]
     \/ /\ task[t].status \in WORKER_PHASES
        /\ task' = [task EXCEPT ![t].resume = task[t].status,
                                ![t].status = IF HasLease(t) THEN "pausing"
                                                             ELSE "paused"]
  /\ UNCHANGED <<run, lease, ckpt, evidence, worker>>

(* ResumeBound caps the claims beyond the one each completed phase needed. *)
ResumeTask(t) ==
  LET phase == IF task[t].resume = None THEN "scanning" ELSE task[t].resume IN
    /\ task[t].status = "paused"
    /\ task[t].epoch < Cardinality(PhasesBefore(phase)) + ResumeBound[phase]
    /\ task' = [task EXCEPT ![t].status = "queued", ![t].resume = phase]
    /\ UNCHANGED <<run, lease, ckpt, evidence, worker>>

RequestTerminate(t, force) ==
  LET status    == task[t].status
      immediate == \/ force
                   \/ ~HasLease(t)
                   \/ status \notin WORKER_PHASES \cup {"pausing"}
  IN /\ Terminable(status)
     /\ status = "terminating" => force
     /\ \/ /\ immediate
           /\ lease' = Released(t)
           /\ task' = [task EXCEPT ![t].status = "terminated",
                                   ![t].resume = None,
                                   ![t].epoch  = task[t].epoch + 1]
        \/ /\ ~immediate
           /\ task' = [task EXCEPT
                         ![t].status = "terminating",
                         ![t].resume = IF status \in WORKER_PHASES THEN status
                                                     ELSE task[t].resume]
           /\ UNCHANGED lease
     /\ UNCHANGED <<run, ckpt, evidence, worker>>

(* The database cascades the delete to the task's checkpoints and results. *)
DeleteTask(t) ==
  /\ task[t].status \in TERMINAL_STATES \ {"completed"}
  /\ task' = [task EXCEPT ![t] = [NoRow EXCEPT !.status = "deleted",
                                              !.epoch = task[t].epoch]]
  /\ ckpt' = {k \in ckpt : k.task # t}
  /\ evidence' = [evidence EXCEPT ![t] = [p \in EVIDENCE_PHASES |-> NoEvidence]]
  /\ UNCHANGED <<run, lease, worker>>

(* A rewrite export leaves review through the exporting phase.             *)
ReleaseReviewGate(t) ==
  /\ task[t].config \notin CopyConfig
  /\ task[t].status = "evidence_review"
  /\ task' = [task EXCEPT ![t].status = "queued",
                          ![t].resume = GATE_NEXT["evidence_review"]]
  /\ UNCHANGED <<run, lease, ckpt, evidence, worker>>

NextRun(r) == run[r].status = "absent"
              /\ \A q \in Run : q < r => run[q].status # "absent"

(* A copy export leaves review by completing the task and queueing a run.  *)
CompleteFirstCopyExport(t, r) ==
  /\ task[t].status = "evidence_review"
  /\ task[t].config \in CopyConfig
  /\ NextRun(r)
  /\ task' = [task EXCEPT ![t].status = "completed", ![t].resume = None]
  /\ run' = [run EXCEPT ![r].status = "queued"]
  /\ UNCHANGED <<lease, ckpt, evidence, worker>>

CreateExportRun(t, r) ==
  /\ task[t].status = "completed"
  /\ NextRun(r)
  /\ run' = [run EXCEPT ![r].status = "queued"]
  /\ UNCHANGED <<task, lease, ckpt, evidence, worker>>

-----------------------------------------------------------------------------
(* The worker slot.                                                        *)

(* The wall clock passes expires_at, because nobody heartbeats or because  *)
(* a step of the holder took longer than the lease.  MaxRunEpoch bounds it *)
(* for runs, which are requeued without anybody asking.                    *)
LeaseExpires ==
  /\ lease.live
  /\ lease.target \in Run /\ HolderAlive => run[lease.target].epoch < MaxRunEpoch
  /\ lease' = [lease EXCEPT !.live = FALSE]
  /\ UNCHANGED <<task, run, ckpt, evidence, worker>>

(* Startup of the backend: only an expired lease is recovered.             *)
RecoverStaleLeases ==
  /\ lease # NoLease
  /\ ~lease.live
  /\ task' = TasksRecovered
  /\ run' = RunsRecovered
  /\ lease' = NoLease
  /\ UNCHANGED <<ckpt, evidence, worker>>

(* The row and the lease of the oldest queued candidate, in one write.     *)
GrantTask(w, t) ==
  LET row == TasksRecovered[t] IN
    /\ task' = [TasksRecovered EXCEPT ![t].status = row.resume,
                                      ![t].resume = None,
                                      ![t].epoch  = NextEpoch(row)]
    /\ run' = RunsRecovered
    /\ lease' = [target |-> t, owner |-> w, epoch |-> NextEpoch(row), live |-> TRUE]
    /\ worker' = [worker EXCEPT ![w] =
         [stage |-> "claimed", target |-> t, epoch |-> NextEpoch(row),
          phase |-> row.resume, config |-> row.config, batch |-> 0, items |-> 0]]

GrantRun(w, r) ==
  LET row == RunsRecovered[r] IN
    /\ run' = [RunsRecovered EXCEPT ![r] = [status |-> "planning",
                                            epoch  |-> NextEpoch(row)]]
    /\ task' = TasksRecovered
    /\ lease' = [target |-> r, owner |-> w, epoch |-> NextEpoch(row), live |-> TRUE]
    /\ worker' = [worker EXCEPT ![w] =
         [Idle EXCEPT !.stage = "export", !.target = r, !.epoch = NextEpoch(row)]]

(* claim_next: refused while the lease is live; an expired one is recovered*)
(* in the same transaction; queued tasks go before queued export runs.     *)
ClaimNext(w) ==
  LET queuedTasks == {t \in Task : TasksRecovered[t].status = "queued"}
      queuedRuns  == {r \in Run : RunsRecovered[r].status = "queued"}
  IN /\ worker[w].stage = "idle"
     /\ SlotFree
     /\ \/ \E t \in queuedTasks : /\ \A u \in queuedTasks : t <= u
                                  /\ GrantTask(w, t)
        \/ /\ queuedTasks = {}
           /\ \E r \in queuedRuns : /\ \A q \in queuedRuns : r <= q
                                    /\ GrantRun(w, r)
        \/ /\ queuedTasks = {} /\ queuedRuns = {} /\ lease # NoLease
           /\ task' = TasksRecovered /\ run' = RunsRecovered
           /\ lease' = NoLease
           /\ UNCHANGED worker
     /\ UNCHANGED <<ckpt, evidence>>

-----------------------------------------------------------------------------
(* Calls of a worker with the token in its memory.  heartbeat only pushes  *)
(* expires_at forward and mark_phase_process_ready only appends an event:  *)
(* a lease that has not expired stays live without an action of its own.   *)

(* A phase runner reads its checkpoints in a session of its own, after the *)
(* claim and before its first batch.                                       *)
ReadResumePoint(w) ==
  LET m == worker[w] IN
    /\ m.stage = "claimed"
    /\ \E batch \in 0..(NItems + MaxControl), items \in 0..NItems :
         /\ IsResumePoint(m.target, m.phase, m.config, batch, items)
         /\ worker' = [worker EXCEPT ![w].stage = "running",
                                     ![w].batch = batch, ![w].items = items]
    /\ UNCHANGED db

(* commit_batch of a batch index with no row yet; a pending control request*)
(* takes effect in the same transaction.  items is the position the cursor *)
(* records, completed the completed_items of the call.  The batch_writer of*)
(* the call stores the results of the batch in the same transaction.  When *)
(* the reply does not reach the worker, it will call again with the same   *)
(* arguments.                                                              *)
CommitBatch(w, items, completed, delivered) ==
  LET m       == worker[w]
      t       == m.target
      control == task[t].status \in CONTROL_STATES
      stamped == [task[t] EXCEPT !.progress = completed]
  IN /\ m.stage = "running"
     /\ \A k \in Rows(t, m.phase, m.config) : k.batch # m.batch
     /\ TokenValid(w)
     /\ EffectivePhase(task[t]) = m.phase
     /\ task[t].config = m.config
     /\ completed >= task[t].progress
     /\ ckpt' = ckpt \cup {[task |-> t, phase |-> m.phase, config |-> m.config,
                            batch |-> m.batch, items |-> items, epoch |-> m.epoch]}
     /\ evidence' = EvidenceAfter(t, m.phase, m.config, m.items, items)
     /\ task' = [task EXCEPT ![t] = IF control THEN ControlApplied(stamped)
                                               ELSE stamped]
     /\ lease' = IF control THEN NoLease ELSE lease
     /\ worker' = IF ~delivered THEN worker
                  ELSE [worker EXCEPT ![w] =
                          IF control THEN Idle
                          ELSE [m EXCEPT !.batch = m.batch + 1, !.items = items]]
     /\ UNCHANGED run

WorkBatch(w, delivered) ==
  /\ worker[w].items < NItems
  /\ CommitBatch(w, worker[w].items + 1, worker[w].items + 1, delivered)

(* The runner saw the request and has no work batch to attach it to.  Some *)
(* runners report their own position as completed, the finalizers of the   *)
(* scoring, clustering and exporting phases the task's current progress.   *)
ControlBatch(w, delivered) ==
  /\ worker[w].stage = "running"
  /\ task[worker[w].target].status \in CONTROL_STATES
  /\ worker[w].batch < worker[w].items + MaxControl
  /\ \E completed \in {worker[w].items, task[worker[w].target].progress} :
       CommitBatch(w, worker[w].items, completed, delivered)

(* commit_batch of an index whose row exists: _replay_checkpoint.  A row of*)
(* another epoch or with other contents is a CheckpointConflict, a task in *)
(* any other status a StaleWorkerToken: both change nothing.               *)
ReplayBatch(w) ==
  LET m   == worker[w]
      row == task[m.target]
  IN /\ m.stage = "running"
     /\ \E k \in Rows(m.target, m.phase, m.config) :
          /\ k.batch = m.batch /\ k.epoch = m.epoch
          /\ \/ /\ row.status \in {"paused", "terminated"}
                /\ worker' = [worker EXCEPT ![w] = Idle]
                /\ UNCHANGED <<task, lease>>
             \/ /\ StillInPhase(row, m.phase)
                /\ TokenValid(w)
                /\ worker' = [worker EXCEPT ![w].batch = m.batch + 1,
                                            ![w].items = k.items]
                /\ UNCHANGED <<task, lease>>
             \/ /\ row.status \in CONTROL_STATES
                /\ TokenValid(w)
                /\ row.resume = m.phase
                /\ task' = [task EXCEPT ![m.target] = ControlApplied(row)]
                /\ lease' = NoLease
                /\ worker' = [worker EXCEPT ![w] = Idle]
     /\ UNCHANGED <<run, ckpt, evidence>>

(* TaskService.complete_phase.                                             *)
LeavePhase(w) ==
  LET t    == worker[w].target
      next == PIPELINE_NEXT[worker[w].phase]
  IN /\ TokenValid(w)
     /\ StillInPhase(task[t], worker[w].phase)
     /\ task' = [task EXCEPT
                   ![t].progress = 0,
                   ![t].status = IF next \in WORKER_PHASES THEN "queued" ELSE next,
                   ![t].resume = ResumeAfter(worker[w].phase)]
     /\ lease' = Released(t)
     /\ worker' = [worker EXCEPT ![w] = Idle]
     /\ UNCHANGED <<run, ckpt, evidence>>

(* A runner calls it when every unit of the phase is committed.            *)
CompletePhase(w) ==
  /\ worker[w].stage = "running"
  /\ UnitsDone(w)
  /\ LeavePhase(w)

(* The four calls that give the slot back without a checkpoint.            *)
Surrender(w, row) ==
  /\ task' = [task EXCEPT ![worker[w].target] = row]
  /\ lease' = Released(worker[w].target)
  /\ worker' = [worker EXCEPT ![w] = Idle]
  /\ UNCHANGED <<run, ckpt, evidence>>

FailWorker(w) ==
  LET row == task[worker[w].target] IN
    /\ TokenValid(w)
    /\ Surrender(w, [row EXCEPT !.status = "failed", !.resume = None,
                                !.epoch = row.epoch + 1])

(* LocalWorker._run found itself stopping right after the claim.           *)
PauseClaimedBeforeWork(w) ==
  LET row == task[worker[w].target] IN
    /\ worker[w].stage = "claimed"
    /\ TokenValid(w)
    /\ \/ row.status \in WORKER_PHASES
       \/ row.status = "pausing" /\ row.resume # None
    /\ Surrender(w, [row EXCEPT !.status = "paused",
                                !.resume = EffectivePhase(row)])

HonorClaimedControlBeforeWork(w) ==
  LET row == task[worker[w].target] IN
    /\ TokenValid(w)
    /\ row.status \in CONTROL_STATES
    /\ row.resume = worker[w].phase
    /\ Surrender(w, ControlApplied(row))

(* The parent killed the phase process because a control request is there. *)
RecoverWorkerAfterProcessStop(w) ==
  LET row == task[worker[w].target] IN
    /\ TokenValid(w)
    /\ row.status \in CONTROL_STATES
    /\ row.status = "pausing" => row.resume # None
    /\ Surrender(w, ControlApplied(row))

(* A call came back StaleWorkerToken: the runner goes on to its next claim.*)
NoticeStale(w) ==
  /\ worker[w].stage # "idle"
  /\ ~TokenValid(w) /\ ~RunLeaseMatches(w)
  /\ worker' = [worker EXCEPT ![w] = Idle]
  /\ UNCHANGED db

(* The process dies, or the runner returns without giving the slot back.   *)
Crash(w) ==
  /\ worker[w].stage # "idle"
  /\ worker[w].stage = "export" => worker[w].epoch < MaxRunEpoch
  /\ worker' = [worker EXCEPT ![w] = Idle]
  /\ UNCHANGED db

-----------------------------------------------------------------------------
(* The export executor, as far as its run row and the slot are concerned.  *)

(* _set_copying, _set_status and _complete; a run whose tree is already    *)
(* published goes from planning to completed at once.                      *)
RUN_NEXT == {<<"planning", "copying">>, <<"copying", "verifying">>,
             <<"verifying", "publishing">>, <<"publishing", "completed">>,
             <<"planning", "completed">>}

RunStep(w) ==
  LET r == worker[w].target IN
    /\ RunTokenValid(w)
    /\ \E to \in RunStatus :
         /\ <<run[r].status, to>> \in RUN_NEXT
         /\ run' = [run EXCEPT ![r].status = to]
         /\ IF to = "completed"
              THEN lease' = NoLease /\ worker' = [worker EXCEPT ![w] = Idle]
              ELSE UNCHANGED <<lease, worker>>
    /\ UNCHANGED <<task, ckpt, evidence>>

(* _fail: a run whose lease has expired is put back, not failed.           *)
RunFail(w) ==
  LET r == worker[w].target IN
    /\ RunLeaseMatches(w)
    /\ run' = [run EXCEPT
                 ![r] = IF lease.live
                          THEN [@ EXCEPT !.status = "failed"]
                          ELSE [status |-> "queued", epoch |-> @.epoch + 1]]
    /\ lease' = NoLease
    /\ worker' = [worker EXCEPT ![w] = Idle]
    /\ UNCHANGED <<task, ckpt, evidence>>

(* requeue_export_run of a worker without an executor, which never moves   *)
(* the run past planning; the expiry of the lease is not looked at.        *)
(* MaxRunEpoch bounds the claim/requeue loop.                              *)
RequeueExportRun(w) ==
  LET r == worker[w].target IN
    /\ RunLeaseMatches(w)
    /\ run[r] = [status |-> "planning", epoch |-> worker[w].epoch]
    /\ run[r].epoch < MaxRunEpoch
    /\ run' = [run EXCEPT ![r] = [status |-> "queued", epoch |-> @.epoch + 1]]
    /\ lease' = NoLease
    /\ worker' = [worker EXCEPT ![w] = Idle]
    /\ UNCHANGED <<task, ckpt, evidence>>

-----------------------------------------------------------------------------
ApiStep ==
  \/ \E t \in Task, c \in Config : CreateTask(t, c) \/ UpdateConfig(t, c)
  \/ \E t \in Task : \/ QueueTask(t) \/ RequestPause(t) \/ ResumeTask(t)
                     \/ DeleteTask(t) \/ ReleaseReviewGate(t)
  \/ \E t \in Task, force \in BOOLEAN : RequestTerminate(t, force)
  \/ \E t \in Task, r \in Run : CompleteFirstCopyExport(t, r)
                                \/ CreateExportRun(t, r)

(* What a healthy worker does with a token it holds.                       *)
PhaseStep(w) ==
  \/ ReadResumePoint(w)
  \/ \E delivered \in BOOLEAN : WorkBatch(w, delivered) \/ ControlBatch(w, delivered)
  \/ ReplayBatch(w) \/ CompletePhase(w) \/ FailWorker(w)
  \/ PauseClaimedBeforeWork(w) \/ HonorClaimedControlBeforeWork(w)
  \/ RecoverWorkerAfterProcessStop(w)
  \/ NoticeStale(w)

ExportStep(w) == RunStep(w) \/ RunFail(w) \/ RequeueExportRun(w)

Next ==
  \/ ApiStep
  \/ LeaseExpires \/ RecoverStaleLeases
  \/ \E w \in Worker : ClaimNext(w) \/ PhaseStep(w) \/ ExportStep(w) \/ Crash(w)

Spec == Init /\ [][Next]_vars

(* Workers poll for work and go on with what they hold; nobody renews the  *)
(* lease of a holder that is gone, so that the clock gets past it.         *)
Fairness ==
  /\ \A w \in Worker : /\ WF_vars(ClaimNext(w))
                       /\ WF_vars(PhaseStep(w))
                       /\ WF_vars(ExportStep(w))
  /\ WF_vars(~HolderAlive /\ LeaseExpires)

FairSpec == Spec /\ Fairness

-----------------------------------------------------------------------------
(* Safety.                                                                 *)

(* The slot and the statuses tell the same story: a task or run is active  *)
(* exactly while the one lease names it, under the row's own epoch.  Every *)
(* claim, commit, control, failure and recovery writes both sides.         *)
SlotConsistent ==
  /\ \A t \in Task : HasLease(t) <=> task[t].status \in ActiveStatus
  /\ \A r \in Run  : HasLease(r) <=> run[r].status \in RUN_ACTIVE
  /\ \A t \in Task : HasLease(t) => lease.epoch = task[t].epoch
  /\ \A r \in Run  : HasLease(r) => lease.epoch = run[r].epoch

(* resume_state is a worker phase exactly in the statuses that lead back to*)
(* a phase, so that require_worker_phase never fails in claim, commit or   *)
(* resume and the "or SCANNING" fallbacks are never taken.                 *)
ResumeStateSound ==
  \A t \in Task :
    (task[t].resume # None)
      <=> task[t].status \in {"queued", "paused"} \cup CONTROL_STATES

(* A worker whose token is still in force works for the phase and config   *)
(* of the row, never behind the checkpoints of its group, and finds under  *)
(* its next batch index nothing but its own unanswered call: commit_batch  *)
(* cannot raise CheckpointConflict, whatever pauses, recoveries and config *)
(* changes came before.                                                    *)
HolderNeverConflicts ==
  \A w \in Worker : TokenValid(w) =>
    LET m == worker[w] row == task[m.target] IN
      /\ m.phase = EffectivePhase(row)
      /\ m.config = row.config
      /\ m.stage = "running" =>
           LET rows == Rows(m.target, m.phase, m.config) IN
           /\ \A k \in rows :
                \/ k.batch < m.batch /\ k.items <= m.items
                \/ k.batch = m.batch /\ k.epoch = m.epoch
           /\ \/ row.progress <= m.items
              \/ \E k \in rows : k.batch = m.batch

(* The checkpoints of one task, phase and config form one chain without    *)
(* gaps or forks: every batch continues the previous one, adds at most one *)
(* unit to it and was committed under the same or a later epoch.           *)
CheckpointChain ==
  /\ \A j, k \in ckpt :
       (j.task = k.task /\ j.phase = k.phase /\ j.config = k.config
        /\ j.batch = k.batch) => j = k
  /\ \A k \in ckpt :
       \/ k.batch = 0 /\ k.items <= 1
       \/ \E j \in Rows(k.task, k.phase, k.config) :
            /\ j.batch + 1 = k.batch
            /\ j.items <= k.items /\ k.items <= j.items + 1
            /\ j.epoch <= k.epoch

(* The phase a task is in or will resume in; a reviewable or completed one *)
(* is past every pipeline phase.                                           *)
Position(t) == IF task[t].resume # None THEN task[t].resume ELSE task[t].status

(* No phase is skipped: a task is in a phase, at the review gate, exporting*)
(* or completed only when each earlier phase has all its units committed   *)
(* under one config.                                                       *)
PhasesCovered ==
  \A t \in Task :
    task[t].status \notin {"absent", "deleted", "draft", "failed", "terminated"} =>
      \A p \in PhasesBefore(Position(t)) :
        \/ NItems = 0
        \/ \E k \in ckpt : k.task = t /\ k.phase = p /\ k.items = NItems

Covered(t, p, c) == {u \in Unit : \E k \in Rows(t, p, c) : u <= k.items}

(* Nothing half-done is visible: results exist only for units a checkpoint *)
(* of the config they come from covers, whatever worker was killed, fenced *)
(* off or retried in between.                                              *)
EvidenceBacked ==
  \A t \in Task, p \in EVIDENCE_PHASES, u \in Unit :
    evidence[t][p][u] # None => u \in Covered(t, p, evidence[t][p][u])

(* The slot as the rest of the system may rely on it.                      *)
Slot == INSTANCE FencedSlot WITH
          Client <- Task \cup Run,
          holder <- lease.target,
          grant  <- lease.epoch,
          gen    <- [x \in Task \cup Run |->
                       IF x \in Task THEN task[x].epoch ELSE run[x].epoch],
          ledger <- {[client |-> k.task, gen |-> k.epoch, entry |-> k] : k \in ckpt}

(* TaskService implements the fenced slot.                                 *)
ImplementsFencedSlot == Slot!Spec

-----------------------------------------------------------------------------
(* Liveness, under Fairness.                                               *)

(* A pause or termination request takes effect even if the worker is gone. *)
ControlHonored ==
  \A t \in Task : task[t].status \in CONTROL_STATES
                    ~> task[t].status \notin CONTROL_STATES

(* A queued task is claimed or taken out of the queue; nobody keeps the    *)
(* slot forever.                                                           *)
QueueServed ==
  \A t \in Task : task[t].status = "queued" ~> task[t].status # "queued"

(* An export run once queued completes or fails, through any number of     *)
(* lost workers and although tasks go first.                               *)
RunSettles ==
  \A r \in Run : run[r].status = "queued"
                   ~> run[r].status \in {"completed", "failed"}
=============================================================================
