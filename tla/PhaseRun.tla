------------------------------ MODULE PhaseRun ------------------------------
(***************************************************************************)
(* How one backend carries a task through its analysis phases: the local   *)
(* worker thread (jobs/runner.py), the component loop of a phase           *)
(* (app/registry_task_runner.py), the isolated child process of a          *)
(* component and the parent that watches it (jobs/phase_process.py), and   *)
(* the component_runs rows they leave behind.  The TaskService calls are   *)
(* the actions of TaskLifecycle; here they are made in the order the       *)
(* callers make them, from two processes that both hold the token.         *)
(*                                                                         *)
(* One task, no export runs: the slot's other clients are TaskLifecycle's. *)
(* The child of the exporting phase is RewriteExport's.                    *)
(***************************************************************************)
EXTENDS TaskLifecycle

CONSTANTS
  Components, \* Components[c][p]: how many components config c gives phase p
  Faults      \* what may go wrong beside the requests of the API

ASSUME TaskAssumption == Task # {}
ASSUME ComponentsAssumption ==
  Components \in [Config -> [WORKER_PHASES -> 0..NItems]]
ASSUME OwnerAssumption == Worker \subseteq Nat  \* in the order they start
ASSUME FaultsAssumption == Faults \subseteq {"component", "startup", "expiry", "crash"}

VARIABLES
  parent,   \* the worker thread of the running backend
  child,    \* per owner: the process (or, inline, the call) of its component
  crun,     \* the component_runs table, status only
  stopping  \* LocalWorker.stop: "no", "set" (event set), "done" (pause asked)

prvars == <<parent, child, crun, stopping>>
allvars == <<vars, prvars>>

(* scanning and cpu_metrics run in the worker thread itself; they and      *)
(* style_analysis complete their phase themselves.  The others leave that  *)
(* to a finalizer the parent calls after their last component.             *)
Inline         == {"scanning", "cpu_metrics"}
SelfCompleting == Inline \cup {"style_analysis"}
Modular        == {"model_scoring", "semantic_clustering", "exporting"}

(* Faulty versions of definitions below, used by no specification.         *)

OneUnitEach(c, p, k) == k

ReturnsAfterEach == TRUE

ErrorsUnheard(pc) == pc \in {"complete", "returned"}

(* The originals.                                                          *)

(* Component k of a phase ends at this unit; the last one takes the rest.  *)
LastUnit(c, p, k) == IF k = Components[c][p] THEN NItems ELSE k

Key == {key \in Config \X WORKER_PHASES \X (1..NItems) :
          key[3] <= Components[key[1]][key[2]]}

RunState == {"absent", "pending", "running", "paused", "completed",
             "terminated", "failed"}

NoChild == [pc |-> "none", config |-> None, phase |-> None, comp |-> 0]

(* The registry runner keeps the claimed TaskView: its config and phase    *)
(* stay those of the claim.  msg is what execute returned: a summary with  *)
(* component_complete ("complete") or without ("returned"), the answer of  *)
(* a process that was stopped ("forced"), or an exception ("error"); seen  *)
(* is the task status read after it.                                       *)
ParentAt(owner, pc) == [owner |-> owner, pc |-> pc, config |-> None,
                        phase |-> None, comp |-> 0, msg |-> None, seen |-> None]

ParentPc == {"down", "loop", "granted", "claimed", "unstarted", "plan", "assets",
             "inline", "poll", "killing", "recover", "timedout", "result",
             "record", "finalize", "failure", "fail", "ended"}

ChildPc == {"none", "start", "load", "ready", "work", "finish",
            "complete", "returned", "error", "dead"}

PhaseRunTypeOK ==
  /\ TypeOK
  /\ parent \in [owner  : Worker, pc : ParentPc,
                 config : Config \cup {None},
                 phase  : WORKER_PHASES \cup {None},
                 comp   : 0..NItems,
                 msg    : {"complete", "returned", "forced", "error", None},
                 seen   : TaskStatus \cup {None}]
  /\ child \in [Worker -> [pc : ChildPc, config : Config \cup {None},
                           phase : WORKER_PHASES \cup {None}, comp : 0..NItems]]
  /\ crun \in [Key -> RunState]
  /\ stopping \in {"no", "set", "done"}

T == CHOOSE t \in Task : TRUE
status == task[T].status

PhaseRunInit ==
  /\ Init
  /\ \E w \in Worker : (\A v \in Worker : w <= v) /\ parent = ParentAt(w, "loop")
  /\ child = [w \in Worker |-> NoChild]
  /\ crun = [key \in Key |-> "absent"]
  /\ stopping = "no"

-----------------------------------------------------------------------------
(* ComponentRunRepository.                                                 *)

MarkRunning(rows, key) ==
  IF rows[key] = "completed" THEN rows ELSE [rows EXCEPT ![key] = "running"]

MarkStatus(rows, key, to) ==
  IF rows[key] = "completed" THEN rows ELSE [rows EXCEPT ![key] = to]

(* sync_plan: every component of the config has a row, of any phase.       *)
Synced(rows, c) ==
  [key \in Key |-> IF key[1] = c /\ rows[key] = "absent" THEN "pending" ELSE rows[key]]

(* mark_before_order_completed, before the first component of phase p.     *)
MarkBeforeCompleted(rows, c, p) ==
  [key \in Key |->
     IF /\ key[1] = c /\ key[2] \in PhasesBefore(p)
        /\ rows[key] \in {"pending", "running", "paused"}
       THEN "completed" ELSE rows[key]]

(* apply_batch_checkpoint, inside the commit of a batch that names its     *)
(* component: before and after are the task's statuses.                    *)
Checkpointed(rows, key, complete, after) ==
  [rows EXCEPT ![key] = CASE complete -> "completed"
                          [] ~complete /\ after \in {"paused", "terminated"} -> after
                          [] OTHER -> "running"]

(* reconcile_phase_checkpoints, from the committed rows of the phase.      *)
Reconciled(rows, c, p) ==
  [key \in Key |->
     IF /\ key[1] = c /\ key[2] = p /\ p \in Modular
        /\ \E k \in ckpt' : /\ k.task = T /\ k.config = c /\ k.phase = p
                            /\ k.items >= LastUnit(c, p, key[3])
       THEN "completed" ELSE rows[key]]

(* RegistryTaskRunner._record_result.                                      *)
ResultState(p, seen, complete) ==
  CASE seen \in {"paused", "terminated", "failed"} -> seen
    [] seen \notin {"paused", "terminated", "failed"} /\ (complete \/ seen # p) -> "completed"
    [] OTHER -> "running"

-----------------------------------------------------------------------------
(* LocalWorker._run.                                                       *)

Owner == parent.owner
Row   == <<parent.config, parent.phase, parent.comp>>
Goto(pc) == parent' = [parent EXCEPT !.pc = pc]

(* Whatever token the call held is forgotten, in force or not.             *)
BackToLoop(pc) ==
  /\ parent' = ParentAt(Owner, pc)
  /\ IF worker[Owner].stage = "idle" THEN UNCHANGED vars ELSE Crash(Owner)

Claim ==
  /\ parent.pc = "loop"
  /\ stopping = "no"
  /\ ClaimNext(Owner)
  /\ parent' = IF worker'[Owner].stage = "claimed"
                 THEN [parent EXCEPT !.pc = "granted",
                                     !.config = worker'[Owner].config,
                                     !.phase = worker'[Owner].phase]
                 ELSE parent
  /\ UNCHANGED <<child, crun, stopping>>

LeaveLoop ==
  /\ parent.pc = "loop"
  /\ stopping # "no"
  /\ Goto("ended")
  /\ UNCHANGED <<vars, child, crun, stopping>>

(* From here on stop() finds the active token.                             *)
PublishToken ==
  /\ parent.pc = "granted"
  /\ Goto("claimed")
  /\ UNCHANGED <<vars, child, crun, stopping>>

CheckStop ==
  /\ parent.pc = "claimed"
  /\ Goto(IF stopping = "no" THEN "plan" ELSE "unstarted")
  /\ UNCHANGED <<vars, child, crun, stopping>>

(* pause_claimed_before_work raises InvalidTaskTransition for a pending    *)
(* termination, and the generic handler then fails the task.               *)
GiveBackUnstarted ==
  /\ parent.pc = "unstarted"
  /\ \/ PauseClaimedBeforeWork(Owner) /\ parent' = ParentAt(Owner, "ended")
     \/ ~TokenValid(Owner) /\ BackToLoop("loop")
     \/ TokenValid(Owner) /\ status = "terminating" /\ Goto("fail") /\ UNCHANGED vars
  /\ UNCHANGED <<child, crun, stopping>>

(* fail_worker, or StaleWorkerToken suppressed.                            *)
Fail ==
  /\ parent.pc = "fail"
  /\ \/ FailWorker(Owner) /\ parent' = ParentAt(Owner, "loop")
     \/ ~TokenValid(Owner) /\ BackToLoop("loop")
  /\ UNCHANGED <<child, crun, stopping>>

-----------------------------------------------------------------------------
(* RegistryTaskRunner.run and the coordinators it calls.                   *)

NewChild == child' = [child EXCEPT ![Owner] =
                        [pc |-> "start", config |-> parent.config,
                         phase |-> parent.phase, comp |-> parent'.comp]]

(* Start component k: its row runs; an inline one begins at once.          *)
StartComponent(rows, k) ==
  /\ parent' = [parent EXCEPT !.comp = k, !.msg = None, !.seen = None,
                              !.pc = IF parent.phase \in Inline THEN "inline"
                                                                ELSE "assets"]
  /\ crun' = MarkRunning(rows, <<parent.config, parent.phase, k>>)
  /\ IF parent.phase \in Inline THEN NewChild ELSE UNCHANGED child

(* The phase has active components under the claimed config.               *)
Plan ==
  /\ parent.pc = "plan"
  /\ Components[parent.config][parent.phase] > 0
  /\ StartComponent(MarkBeforeCompleted(Synced(crun, parent.config),
                                        parent.config, parent.phase), 1)
  /\ UNCHANGED <<vars, stopping>>

(* It has none: complete_phase at once, whatever was requested meanwhile.  *)
SkipEmptyPhase ==
  /\ parent.pc = "plan"
  /\ Components[parent.config][parent.phase] = 0
  /\ \/ LeavePhase(Owner) /\ parent' = ParentAt(Owner, "loop")
     \/ ~TokenValid(Owner) /\ BackToLoop("loop")
     \/ TokenValid(Owner) /\ status # parent.phase /\ Goto("fail") /\ UNCHANGED vars
  /\ UNCHANGED <<child, crun, stopping>>

Returned(msg) == parent' = [parent EXCEPT !.pc = "result", !.msg = msg]

(* wait_for_model_ids: a pending request is honoured by a commit of its    *)
(* own, between components or before the first.  A rewrite needs no model. *)
WaitAssets ==
  /\ parent.pc = "assets"
  /\ parent.phase # "exporting"
  /\ \/ /\ status \in CONTROL_STATES /\ worker[Owner].stage = "claimed"
        /\ ReadResumePoint(Owner)
        /\ UNCHANGED parent
     \/ /\ status \in CONTROL_STATES /\ worker[Owner].stage = "running"
        /\ ControlBatch(Owner, TRUE)
        /\ Returned("returned")
     \/ /\ status \in CONTROL_STATES /\ ~TokenValid(Owner)
        /\ Returned("error") /\ UNCHANGED vars
     \/ /\ status \in {"paused", "terminated", "failed"}
        /\ Returned("returned") /\ UNCHANGED vars
     \/ /\ "component" \in Faults
        /\ Returned("error") /\ UNCHANGED vars
  /\ UNCHANGED <<child, crun, stopping>>

(* The assets were ready when last looked at.                              *)
Spawn ==
  /\ parent.pc = "assets"
  /\ Goto("poll")
  /\ NewChild
  /\ UNCHANGED <<vars, crun, stopping>>

Done(pc) == pc \in {"complete", "returned", "error"}
Stopped == child' = [child EXCEPT ![Owner] = NoChild]

(* The polling loop of run_isolated_phase_subprocess, one turn.            *)
Poll ==
  /\ parent.pc = "poll"
  /\ \/ /\ Done(child[Owner].pc)
        /\ Returned(child[Owner].pc) /\ Stopped
     \/ /\ child[Owner].pc = "dead"
        /\ Returned("error") /\ Stopped
     \/ /\ status \in {"terminated", "failed"} \/ ~TokenValid(Owner)
        /\ Returned("forced") /\ Stopped
     \/ /\ status \in CONTROL_STATES
        /\ Goto("killing") /\ UNCHANGED child
     \/ /\ "startup" \in Faults
        /\ parent.phase = "semantic_clustering"
        /\ child[Owner].pc \in {"start", "load", "ready"}
        /\ Goto("timedout") /\ Stopped
  /\ UNCHANGED <<vars, crun, stopping>>

(* Until the signal arrives the child goes on and may still commit.        *)
Kill ==
  /\ parent.pc = "killing"
  /\ Goto("recover") /\ Stopped
  /\ UNCHANGED <<vars, crun, stopping>>

AfterForcedStop ==
  /\ \/ /\ parent.pc = "recover" /\ RecoverWorkerAfterProcessStop(Owner)
     \/ /\ parent.pc = "timedout" /\ FailWorker(Owner)
     \/ /\ parent.pc \in {"recover", "timedout"} /\ ~TokenValid(Owner)
        /\ UNCHANGED vars
  /\ Returned("forced")
  /\ UNCHANGED <<child, crun, stopping>>

(* An inline component returns to the same thread.                         *)
InlineReturns ==
  /\ parent.pc = "inline"
  /\ Done(child[Owner].pc)
  /\ Returned(child[Owner].pc) /\ Stopped
  /\ UNCHANGED <<vars, crun, stopping>>

(* A stopped process answers without component_id, which the coordinators  *)
(* of the modular phases take for the wrong component.                     *)
ResultIsFailure ==
  \/ parent.msg = "error"
  \/ parent.msg = "forced" /\ parent.phase \in Modular
  \/ parent.msg \in {"returned", "forced"} /\ status = parent.phase

ReadStatus ==
  /\ parent.pc = "result"
  /\ parent' = IF ResultIsFailure THEN [parent EXCEPT !.pc = "failure"]
                                  ELSE [parent EXCEPT !.pc = "record", !.seen = status]
  /\ UNCHANGED <<vars, child, crun, stopping>>

(* _record_failure, then the exception goes up to the worker loop.         *)
RecordFailure ==
  /\ parent.pc = "failure"
  /\ Goto("fail")
  /\ UNCHANGED <<vars, child, stopping>>
  /\ crun' = MarkStatus(Reconciled(crun, parent.config, parent.phase), Row, "failed")

(* run() returns unless the task is still in the phase of the claim.       *)
RunIsOver == parent.seen # parent.phase

RecordResult ==
  LET recorded == MarkStatus(Reconciled(crun, parent.config, parent.phase), Row,
                    ResultState(parent.phase, parent.seen, parent.msg = "complete"))
      more == parent.comp < Components[parent.config][parent.phase]
  IN /\ parent.pc = "record"
     /\ \/ /\ RunIsOver
           /\ BackToLoop("loop") /\ crun' = recorded /\ UNCHANGED child
        \/ /\ ~RunIsOver /\ more
           /\ UNCHANGED vars /\ StartComponent(recorded, parent.comp + 1)
        \/ /\ ~RunIsOver /\ ~more
           /\ UNCHANGED <<vars, child>> /\ crun' = recorded /\ Goto("finalize")
     /\ UNCHANGED stopping

(* finalize_modular_scoring and finalize_modular_clustering: a component   *)
(* without a checkpoint that says component_complete is an error.          *)
NoneMissing ==
  \A k \in 1..Components[parent.config][parent.phase] :
    \E row \in Rows(T, parent.phase, parent.config) :
      row.items >= LastUnit(parent.config, parent.phase, k)

Finalize ==
  /\ parent.pc = "finalize"
  /\ NoneMissing
  /\ \/ /\ LeavePhase(Owner) \/ ControlBatch(Owner, TRUE)
        /\ parent' = ParentAt(Owner, "loop")
     \/ ~TokenValid(Owner) /\ BackToLoop("loop")
  /\ crun' = Reconciled(crun, parent.config, parent.phase)
  /\ UNCHANGED <<child, stopping>>

-----------------------------------------------------------------------------
(* The component itself: ModularScoringComponentService.run,               *)
(* ModularClusteringComponentService.run, StyleAnalyzer.run,               *)
(* DatasetScanner.run_scanning and finalize_precomputed_cpu_metrics.       *)

ChildTo(w, pc) == child' = [child EXCEPT ![w].pc = pc]

(* A process honours a request made since the claim; the scanner's two     *)
(* entry points refuse any status but their own.                           *)
ChildStarts(w) ==
  LET inline == child[w].phase \in Inline IN
  /\ child[w].pc = "start" /\ child[w].phase # "exporting"
  /\ \/ /\ status = child[w].phase
        /\ inline \/ TokenValid(w)
        /\ ChildTo(w, "load") /\ UNCHANGED vars
     \/ /\ ~inline
        /\ HonorClaimedControlBeforeWork(w) /\ ChildTo(w, "returned")
     \/ /\ IF inline THEN status # child[w].phase ELSE ~TokenValid(w)
        /\ ChildTo(w, "error") /\ UNCHANGED vars
  /\ UNCHANGED <<parent, crun, stopping>>

(* The checkpoints of the phase and the active config; a component found   *)
(* complete returns at once.                                               *)
ChildLoads(w) ==
  LET c == child[w] IN
  /\ c.pc = "load" /\ c.phase # "exporting"
  /\ IF worker[w].stage = "claimed" THEN ReadResumePoint(w) ELSE UNCHANGED vars
  /\ ChildTo(w, IF worker'[w].items >= LastUnit(c.config, c.phase, c.comp)
                  THEN IF c.phase \in Modular THEN "complete" ELSE "finish"
                ELSE IF c.phase = "semantic_clustering" /\ c.comp = 1 THEN "ready"
                ELSE "work")
  /\ UNCHANGED <<parent, crun, stopping>>

(* mark_phase_process_ready, unless every shard is already on disk: it     *)
(* refuses any status but the phase itself.                                *)
ChildReady(w) ==
  /\ child[w].pc = "ready"
  /\ \/ ChildTo(w, "work")
     \/ ~(TokenValid(w) /\ status = child[w].phase) /\ ChildTo(w, "error")
  /\ UNCHANGED <<vars, parent, crun, stopping>>

(* cpu_metrics commits what the scan computed as one batch.                *)
Batch(w) == IF child[w].phase = "cpu_metrics" THEN CommitBatch(w, NItems, NItems, TRUE)
                                              ELSE WorkBatch(w, TRUE)

ChildWorks(w) ==
  LET c        == child[w]
      after    == task'[T].status
      complete == worker[w].items + 1 >= LastUnit(c.config, c.phase, c.comp)
  IN /\ c.pc = "work" /\ c.phase # "exporting"
     /\ Batch(w)
     /\ ChildTo(w, IF c.phase \in Modular /\ complete THEN "complete"
                   ELSE IF after # c.phase THEN "returned"
                   ELSE IF worker'[w].items = NItems THEN "finish" ELSE "work")
     /\ crun' = IF c.phase \in Modular
                  THEN Checkpointed(crun, <<c.config, c.phase, c.comp>>, complete, after)
                  ELSE crun
     /\ UNCHANGED <<parent, stopping>>

(* style_analysis and the clustering components look for a request between *)
(* batches and commit it alone; scanning and scoring flush what they have. *)
ChildControls(w) ==
  LET c == child[w] IN
  /\ c.pc = "work"
  /\ c.phase \in {"style_analysis", "semantic_clustering"}
  /\ ControlBatch(w, TRUE)
  /\ ChildTo(w, "returned")
  /\ crun' = IF c.phase \in Modular
               THEN Checkpointed(crun, <<c.config, c.phase, c.comp>>, FALSE,
                                 task'[T].status)
               ELSE crun
  /\ UNCHANGED <<parent, stopping>>

(* complete_phase, and a commit of its own when a request was faster.      *)
ChildFinishes(w) ==
  /\ child[w].pc = "finish"
  /\ CompletePhase(w) \/ ControlBatch(w, TRUE)
  /\ ChildTo(w, "returned")
  /\ UNCHANGED <<parent, crun, stopping>>

(* StaleWorkerToken: caught by some commits and completions, not by others.*)
ChildIsStale(w) ==
  /\ child[w].pc \in {"work", "finish"} /\ child[w].phase # "exporting"
  /\ ~TokenValid(w)
  /\ ChildTo(w, IF <<child[w].phase, child[w].pc>> \in
                     {<<"scanning", "work">>, <<"model_scoring", "work">>,
                      <<"cpu_metrics", "finish">>, <<"style_analysis", "finish">>}
                  THEN "returned" ELSE "error")
  /\ UNCHANGED <<vars, parent, crun, stopping>>

ChildStep(w) ==
  \/ ChildStarts(w) \/ ChildLoads(w) \/ ChildReady(w) \/ ChildWorks(w)
  \/ ChildControls(w) \/ ChildFinishes(w) \/ ChildIsStale(w)

(* The component raises, or its process dies without an answer.            *)
ChildFails(w) ==
  /\ "component" \in Faults
  /\ child[w].pc \in {"load", "work"} /\ child[w].phase # "exporting"
  /\ \/ ChildTo(w, "error")
     \/ child[w].phase \notin Inline /\ ChildTo(w, "dead")
  /\ UNCHANGED <<vars, parent, crun, stopping>>

(* The child of a backend that is gone ends some time; nobody listens.     *)
OrphanEnds(w) ==
  /\ w # Owner
  /\ Done(child[w].pc) \/ child[w].pc = "dead"
  /\ child' = [child EXCEPT ![w] = NoChild]
  /\ IF worker[w].stage = "idle" THEN UNCHANGED vars ELSE Crash(w)
  /\ UNCHANGED <<parent, crun, stopping>>

-----------------------------------------------------------------------------
(* The clock, the backend's life and the API.                              *)

(* The parent renews the lease every 30 s of its 300 s: it runs out when   *)
(* nobody does, or when the machine slept ("expiry").                      *)
Expire ==
  /\ \/ "expiry" \in Faults
     \/ ~HolderAlive \/ lease.owner # Owner
  /\ LeaseExpires
  /\ UNCHANGED prvars

(* LocalWorker.stop; the next backend needs an owner of its own.           *)
SetStop ==
  /\ stopping = "no"
  /\ parent.pc \notin {"down", "ended"}
  /\ Owner + 1 \in Worker
  /\ stopping' = "set"
  /\ UNCHANGED <<vars, parent, child, crun>>

ShutdownPause ==
  /\ stopping = "set"
  /\ stopping' = "done"
  /\ \/ parent.pc \notin {"loop", "granted", "ended"} /\ RequestPause(T)
     \/ /\ \/ parent.pc \in {"loop", "granted", "ended"}
           \/ status \notin WORKER_PHASES \cup {"queued"}
        /\ UNCHANGED vars
  /\ UNCHANGED <<parent, child, crun>>

(* An inline component dies with its backend, a child process may not.     *)
BackendCrash ==
  /\ "crash" \in Faults
  /\ parent.pc \notin {"down", "ended"}
  /\ Owner + 1 \in Worker
  /\ parent' = ParentAt(Owner, "down")
  /\ stopping' = "no"
  /\ \/ /\ child[Owner].pc \notin {"none"} /\ child[Owner].phase \notin Inline
        /\ UNCHANGED <<vars, child>>
     \/ /\ child' = [child EXCEPT ![Owner] = NoChild]
        /\ IF worker[Owner].stage = "idle" THEN UNCHANGED vars ELSE Crash(Owner)
  /\ UNCHANGED crun

(* Only an expired lease is recovered at startup.                          *)
Restart ==
  /\ \/ parent.pc = "down"
     \/ parent.pc = "ended" /\ stopping = "done"
  /\ Owner + 1 \in Worker
  /\ parent' = ParentAt(Owner + 1, "loop")
  /\ stopping' = "no"
  /\ IF lease # NoLease /\ ~lease.live THEN RecoverStaleLeases ELSE UNCHANGED vars
  /\ UNCHANGED <<child, crun>>

(* Choosing a config plans its rows right after.  A task keeps its config  *)
(* here: what a change does to its evidence is TaskLifecycle's subject.    *)
Api ==
  /\ \/ \E c \in Config : /\ CreateTask(T, c)
                          /\ crun' = Synced(crun, c)
     \/ /\ \/ QueueTask(T) \/ RequestPause(T) \/ ResumeTask(T)
           \/ \E force \in BOOLEAN : RequestTerminate(T, force)
        /\ UNCHANGED crun
  /\ UNCHANGED <<parent, child, stopping>>

ParentStep ==
  \/ Claim \/ LeaveLoop \/ PublishToken \/ CheckStop \/ GiveBackUnstarted \/ Fail
  \/ Plan \/ SkipEmptyPhase \/ WaitAssets \/ Spawn \/ Poll \/ Kill \/ AfterForcedStop
  \/ InlineReturns \/ ReadStatus \/ RecordFailure \/ RecordResult \/ Finalize

PhaseRunNext ==
  \/ ParentStep
  \/ \E w \in Worker : ChildStep(w) \/ ChildFails(w) \/ OrphanEnds(w)
  \/ Expire \/ SetStop \/ ShutdownPause \/ BackendCrash \/ Restart
  \/ Api

PhaseRunSpec == PhaseRunInit /\ [][PhaseRunNext]_allvars

(* Both processes go on, a stopped or crashed backend is started again,    *)
(* and the clock gets past a lease nobody renews.  Nothing is assumed of   *)
(* the API and of faults.                                                  *)
PhaseRunFairness ==
  /\ WF_allvars(ParentStep)
  /\ \A w \in Worker : WF_allvars(ChildStep(w)) /\ WF_allvars(OrphanEnds(w))
  /\ WF_allvars(ShutdownPause)
  /\ WF_allvars(Restart)
  /\ WF_allvars(Expire /\ ~HolderAlive)

PhaseRunFairSpec == PhaseRunSpec /\ PhaseRunFairness

-----------------------------------------------------------------------------
(* The worker thread is back in its loop, or has ended, only with the slot *)
(* given back, or with a request pending that the lease's expiry settles:  *)
(* it never walks away from a task that is still in a working phase.       *)
RunnerHandsBack ==
  (parent.pc \in {"loop", "ended"} /\ lease.live /\ lease.owner = Owner)
     => status \in CONTROL_STATES

(* A modular phase is passed only when the rows of all its components under*)
(* the task's config say completed and the last unit is committed: no      *)
(* interruption, retry or stale result makes the finalizer skip one.       *)
PhasePassedWhole ==
  [][\A p \in Modular :
       (status = p /\ task'[T].status \in {"queued", "evidence_review"}) =>
         LET c == task[T].config IN
           /\ \A k \in 1..Components[c][p] : crun'[<<c, p, k>>] = "completed"
           /\ Components[c][p] = 0 \/ \E k \in Rows(T, p, c) : k.items = NItems]_allvars

(* The worker thread of a backend told to stop ends.                       *)
StopEnds == stopping # "no" ~> parent.pc \in {"ended", "down"}
=============================================================================
