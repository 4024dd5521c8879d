------------------------- MODULE TaskLifecycleProofs -------------------------
(***************************************************************************)
(* What TaskLifecycle promises, for every set of tasks, runs, workers and  *)
(* configs, every number of units and every bound: the types, the          *)
(* agreement of the slot with the statuses, the soundness of resume_state, *)
(* and that no result is without the checkpoint of its config; then that   *)
(* checkpoints form chains, that the worker that holds the slot stands at  *)
(* the end of the chain it extends, that no phase is left before its chain *)
(* covers it, and that slot and checkpoints implement FencedSlot.          *)
(***************************************************************************)
EXTENDS TaskLifecycle, TLAPS

(* A row that exists has a config: claim_next can hand it to the worker.   *)
Configured ==
  \A t \in Task : task[t].status \notin {"absent", "deleted"} => task[t].config # None

(* A worker past its claim remembers a task, a phase and a config, or an   *)
(* export run: the calls it makes with its token are well formed.          *)
MemorySound ==
  \A w \in Worker :
    /\ worker[w].stage \in {"claimed", "running"} =>
         /\ worker[w].target \in Task
         /\ worker[w].phase # None
         /\ worker[w].config # None
    /\ worker[w].stage = "export" => worker[w].target \in Run

(* RowsTypeOK alone is not inductive: a claim copies resume_state into status, *)
(* so that it must be a phase, which holds because only active rows hold   *)
(* the lease that a recovery turns into a paused row.                      *)
IInv ==
  /\ RowsTypeOK
  /\ SlotConsistent
  /\ ResumeStateSound
  /\ Configured
  /\ MemorySound

(* The rows of IInv one by one, as a step sees them.                       *)
TaskSound(t) ==
  /\ HasLease(t) <=> task[t].status \in ActiveStatus
  /\ HasLease(t) => lease.epoch = task[t].epoch
  /\ (task[t].resume # None)
       <=> task[t].status \in {"queued", "paused"} \cup CONTROL_STATES
  /\ task[t].status \notin {"absent", "deleted"} => task[t].config # None

RunSound(r) ==
  /\ HasLease(r) <=> run[r].status \in RUN_ACTIVE
  /\ HasLease(r) => lease.epoch = run[r].epoch

MemoryOK(m) ==
  /\ m \in WorkerMemory
  /\ m.stage \in {"claimed", "running"} =>
       m.target \in Task /\ m.phase # None /\ m.config # None
  /\ m.stage = "export" => m.target \in Run

LEMMA IInvParts ==
  IInv <=> /\ RowsTypeOK
           /\ \A t \in Task : TaskSound(t)
           /\ \A r \in Run : RunSound(r)
           /\ \A w \in Worker : MemoryOK(worker[w])
BY DEF IInv, RowsTypeOK, SlotConsistent, ResumeStateSound, Configured, MemorySound,
       TaskSound, RunSound, MemoryOK

LEMMA IInvPartsNext ==
  IInv' <=> /\ RowsTypeOK'
            /\ \A t \in Task : TaskSound(t)'
            /\ \A r \in Run : RunSound(r)'
            /\ \A w \in Worker : MemoryOK(worker'[w])
BY DEF IInv, RowsTypeOK, SlotConsistent, ResumeStateSound, Configured, MemorySound,
       TaskSound, RunSound, MemoryOK

LEMMA InitSound == Init => IInv
<1> SUFFICES ASSUME Init PROVE IInv
  OBVIOUS
<1> USE DEF Init, NoLease, NoRow, Idle, HasLease
<1>1. RowsTypeOK
  BY DEF RowsTypeOK, TaskRow, RunRow, LeaseRow, WorkerMemory, TaskStatus, RunStatus
<1>2. SlotConsistent
  BY IdAssumption, NoneAssumption
     DEF SlotConsistent, ActiveStatus, CONTROL_STATES, WORKER_PHASES, RUN_ACTIVE
<1>3. ResumeStateSound /\ Configured /\ MemorySound
  BY DEF ResumeStateSound, Configured, MemorySound, CONTROL_STATES
<1> QED
  BY <1>1, <1>2, <1>3 DEF IInv

-----------------------------------------------------------------------------
(* Steps that write one row and leave the slot alone or release it.        *)

LEMMA LeaseKinds == NoLease \in LeaseRow /\ \A x \in Task \cup Run : NoLease.target # x
BY NoneAssumption DEF NoLease, LeaseRow

LEMMA StatusFacts ==
  /\ WORKER_PHASES \cup TERMINAL_STATES \cup CONTROL_STATES \subseteq TaskStatus
  /\ {"draft", "queued", "paused"} \subseteq TaskStatus
  /\ {"scanning", "exporting"} \subseteq WORKER_PHASES
  /\ {"completed", "terminated", "failed"} = TERMINAL_STATES
BY DEF TaskStatus, WORKER_PHASES, TERMINAL_STATES

LEMMA TaskStep ==
  ASSUME IInv, NEW t \in Task,
         task' \in [Task -> TaskRow],
         \A u \in Task \ {t} : task'[u] = task[u],
         lease' = lease \/ (HasLease(t) /\ lease' = NoLease),
         TaskSound(t)',
         run' = run,
         ckpt' \subseteq CheckpointRow,
         worker' \in [Worker -> WorkerMemory],
         \A w \in Worker : MemoryOK(worker'[w])
  PROVE  IInv'
<1>1. RowsTypeOK'
  BY LeaseKinds DEF IInv, RowsTypeOK
<1>2. ASSUME NEW u \in Task PROVE TaskSound(u)'
  BY IInvParts, LeaseKinds DEF TaskSound, HasLease
<1>3. ASSUME NEW r \in Run PROVE RunSound(r)'
  <2>1. HasLease(r)' <=> HasLease(r)
    BY LeaseKinds, IdAssumption DEF HasLease
  <2>2. HasLease(r) => lease' = lease
    BY IdAssumption DEF HasLease
  <2> QED
    BY <2>1, <2>2, IInvParts DEF RunSound
<1> QED
  BY <1>1, <1>2, <1>3, IInvPartsNext

(* The same for a step of the API, which leaves the workers alone.         *)
LEMMA ApiTaskStep ==
  ASSUME IInv, NEW t \in Task,
         task' \in [Task -> TaskRow],
         \A u \in Task \ {t} : task'[u] = task[u],
         lease' = lease \/ (HasLease(t) /\ lease' = NoLease),
         TaskSound(t)',
         run' = run,
         ckpt' \subseteq ckpt,
         worker' = worker
  PROVE  IInv'
<1>1. ckpt' \subseteq CheckpointRow /\ worker' \in [Worker -> WorkerMemory]
  BY DEF IInv, RowsTypeOK
<1>2. \A w \in Worker : MemoryOK(worker'[w])
  BY IInvParts
<1> QED
  BY <1>1, <1>2, TaskStep

-----------------------------------------------------------------------------
(* Operations of the HTTP API.                                             *)

LEMMA CreateTaskSound ==
  ASSUME IInv, NEW t \in Task, NEW c \in Config, CreateTask(t, c) PROVE IInv'
<1>1. /\ task' \in [Task -> TaskRow]
      /\ \A u \in Task \ {t} : task'[u] = task[u]
  BY DEF CreateTask, NoRow, IInv, RowsTypeOK, TaskRow, TaskStatus
<1>2. TaskSound(t)'
  BY IInvParts, NoneAssumption
     DEF CreateTask, NoRow, TaskSound, HasLease, ActiveStatus, CONTROL_STATES,
         WORKER_PHASES, RowsTypeOK
<1> QED
  BY <1>1, <1>2, ApiTaskStep DEF CreateTask

LEMMA UpdateConfigSound ==
  ASSUME IInv, NEW t \in Task, NEW c \in Config, UpdateConfig(t, c) PROVE IInv'
<1>1. /\ task' \in [Task -> TaskRow]
      /\ \A u \in Task \ {t} : task'[u] = task[u]
  BY ZenonT(60) DEF UpdateConfig, IInv, RowsTypeOK, TaskRow
<1>2. TaskSound(t)'
  BY IInvParts, NoneAssumption
     DEF UpdateConfig, TaskSound, HasLease, ActiveStatus, RowsTypeOK, TaskRow
<1> QED
  BY <1>1, <1>2, ApiTaskStep DEF UpdateConfig

LEMMA QueueTaskSound ==
  ASSUME IInv, NEW t \in Task, QueueTask(t) PROVE IInv'
<1>1. /\ task' \in [Task -> TaskRow]
      /\ \A u \in Task \ {t} : task'[u] = task[u]
  BY StatusFacts, ZenonT(60) DEF QueueTask, IInv, RowsTypeOK, TaskRow
<1>2. TaskSound(t)'
  BY IInvParts, NoneAssumption
     DEF QueueTask, TaskSound, HasLease, ActiveStatus, RowsTypeOK, TaskRow,
         CONTROL_STATES, WORKER_PHASES
<1> QED
  BY <1>1, <1>2, ApiTaskStep DEF QueueTask

LEMMA RequestPauseSound ==
  ASSUME IInv, NEW t \in Task, RequestPause(t) PROVE IInv'
<1>1. /\ task' \in [Task -> TaskRow]
      /\ \A u \in Task \ {t} : task'[u] = task[u]
  BY DEF RequestPause, IInv, RowsTypeOK, TaskRow, TaskStatus, CONTROL_STATES
<1>2. TaskSound(t)'
  BY IInvParts, NoneAssumption
     DEF RequestPause, TaskSound, HasLease, ActiveStatus, RowsTypeOK, TaskRow,
         CONTROL_STATES, WORKER_PHASES
<1> QED
  BY <1>1, <1>2, ApiTaskStep DEF RequestPause

LEMMA ResumeTaskSound ==
  ASSUME IInv, NEW t \in Task, ResumeTask(t) PROVE IInv'
<1>1. /\ task' \in [Task -> TaskRow]
      /\ \A u \in Task \ {t} : task'[u] = task[u]
  <2>1. PICK phase : phase = IF task[t].resume = None THEN "scanning" ELSE task[t].resume
    OBVIOUS
  <2>2. task \in [Task -> TaskRow] /\ phase \in WORKER_PHASES
    BY <2>1, StatusFacts DEF IInv, RowsTypeOK, TaskRow
  <2>3. task' = [task EXCEPT ![t].status = "queued", ![t].resume = phase]
    BY <2>1 DEF ResumeTask
  <2> QED
    BY <2>2, <2>3, StatusFacts, ZenonT(60) DEF TaskRow
<1>2. TaskSound(t)'
  BY IInvParts, NoneAssumption
     DEF ResumeTask, TaskSound, HasLease, ActiveStatus, RowsTypeOK, TaskRow,
         CONTROL_STATES, WORKER_PHASES
<1> QED
  BY <1>1, <1>2, ApiTaskStep DEF ResumeTask

LEMMA RequestTerminateSound ==
  ASSUME IInv, NEW t \in Task, NEW force \in BOOLEAN, RequestTerminate(t, force)
  PROVE  IInv'
<1>1. /\ task' \in [Task -> TaskRow]
      /\ \A u \in Task \ {t} : task'[u] = task[u]
  <2>1. \/ task' = [task EXCEPT ![t].status = "terminated", ![t].resume = None,
                                ![t].epoch = task[t].epoch + 1]
        \/ task' = [task EXCEPT ![t].status = "terminating",
                                ![t].resume = IF task[t].status \in WORKER_PHASES
                                                THEN task[t].status
                                                ELSE task[t].resume]
    BY DEF RequestTerminate
  <2>2. task \in [Task -> TaskRow] /\ {"terminated", "terminating"} \subseteq TaskStatus
        /\ task[t].epoch \in Nat /\ task[t].epoch + 1 \in Nat
    BY DEF IInv, RowsTypeOK, TaskRow, TaskStatus, TERMINAL_STATES, CONTROL_STATES
  <2> QED
    BY <2>1, <2>2 DEF TaskRow
<1>2. lease' = lease \/ (HasLease(t) /\ lease' = NoLease)
  BY DEF RequestTerminate, Released
<1>3. TaskSound(t)'
  BY IInvParts, NoneAssumption, LeaseKinds
     DEF RequestTerminate, Released, Terminable, TaskSound, HasLease, ActiveStatus,
         RowsTypeOK, TaskRow, CONTROL_STATES, WORKER_PHASES
<1> QED
  BY <1>1, <1>2, <1>3, ApiTaskStep DEF RequestTerminate

LEMMA DeleteTaskSound ==
  ASSUME IInv, NEW t \in Task, DeleteTask(t) PROVE IInv'
<1>1. /\ task' \in [Task -> TaskRow]
      /\ \A u \in Task \ {t} : task'[u] = task[u]
  BY DEF DeleteTask, NoRow, IInv, RowsTypeOK, TaskRow, TaskStatus
<1>2. TaskSound(t)'
  BY IInvParts, NoneAssumption
     DEF DeleteTask, NoRow, TaskSound, HasLease, ActiveStatus, TERMINAL_STATES,
         CONTROL_STATES, WORKER_PHASES, RowsTypeOK
<1>3. ckpt' \subseteq ckpt /\ lease' = lease /\ run' = run /\ worker' = worker
  BY DEF DeleteTask
<1> QED
  BY <1>1, <1>2, <1>3, ApiTaskStep

LEMMA ReleaseReviewGateSound ==
  ASSUME IInv, NEW t \in Task, ReleaseReviewGate(t) PROVE IInv'
<1>0. GATE_NEXT["evidence_review"] = "exporting"
  BY DEF GATE_NEXT
<1>1. /\ task' \in [Task -> TaskRow]
      /\ \A u \in Task \ {t} : task'[u] = task[u]
  <2>1. task' = [task EXCEPT ![t].status = "queued", ![t].resume = "exporting"]
    BY <1>0 DEF ReleaseReviewGate
  <2>2. task \in [Task -> TaskRow] /\ "queued" \in TaskStatus
        /\ "exporting" \in WORKER_PHASES
    BY DEF IInv, RowsTypeOK, TaskStatus, WORKER_PHASES
  <2> QED
    BY <2>1, <2>2, ZenonT(60) DEF TaskRow
<1>2. TaskSound(t)'
  BY <1>0, IInvParts, NoneAssumption
     DEF ReleaseReviewGate, TaskSound, HasLease, ActiveStatus, RowsTypeOK, TaskRow,
         CONTROL_STATES, WORKER_PHASES
<1> QED
  BY <1>1, <1>2, ApiTaskStep DEF ReleaseReviewGate

LEMMA RunRowStep ==
  ASSUME IInv, NEW r \in Run,
         run' \in [Run -> RunRow],
         \A q \in Run \ {r} : run'[q] = run[q],
         lease' = lease \/ (HasLease(r) /\ lease' = NoLease),
         RunSound(r)',
         task' = task,
         ckpt' = ckpt,
         worker' \in [Worker -> WorkerMemory],
         \A w \in Worker : MemoryOK(worker'[w])
  PROVE  IInv'
<1>1. RowsTypeOK'
  BY LeaseKinds DEF IInv, RowsTypeOK
<1>2. ASSUME NEW q \in Run PROVE RunSound(q)'
  BY IInvParts, LeaseKinds DEF RunSound, HasLease
<1>3. ASSUME NEW t \in Task PROVE TaskSound(t)'
  <2>1. HasLease(t)' <=> HasLease(t)
    BY LeaseKinds, IdAssumption DEF HasLease
  <2>2. HasLease(t) => lease' = lease
    BY IdAssumption DEF HasLease
  <2> QED
    BY <2>1, <2>2, IInvParts DEF TaskSound
<1> QED
  BY <1>1, <1>2, <1>3, IInvPartsNext

LEMMA CreateExportRunSound ==
  ASSUME IInv, NEW t \in Task, NEW r \in Run, CreateExportRun(t, r) PROVE IInv'
<1>1. /\ run' \in [Run -> RunRow]
      /\ \A q \in Run \ {r} : run'[q] = run[q]
  BY DEF CreateExportRun, IInv, RowsTypeOK, RunRow, RunStatus
<1>2. RunSound(r)'
  BY IInvParts DEF CreateExportRun, NextRun, RunSound, HasLease, RowsTypeOK, RunRow,
                   RUN_ACTIVE
<1>3. worker' \in [Worker -> WorkerMemory] /\ \A w \in Worker : MemoryOK(worker'[w])
  BY IInvParts DEF CreateExportRun, RowsTypeOK
<1> QED
  BY <1>1, <1>2, <1>3, RunRowStep DEF CreateExportRun

LEMMA CompleteFirstCopyExportSound ==
  ASSUME IInv, NEW t \in Task, NEW r \in Run, CompleteFirstCopyExport(t, r)
  PROVE  IInv'
<1> USE DEF CompleteFirstCopyExport
<1>1. task' \in [Task -> TaskRow] /\ \A u \in Task \ {t} : task'[u] = task[u]
  BY StatusFacts, ZenonT(60) DEF IInv, RowsTypeOK, TaskRow
<1>2. run' \in [Run -> RunRow] /\ \A q \in Run \ {r} : run'[q] = run[q]
  BY DEF IInv, RowsTypeOK, RunRow, RunStatus
<1>3. RowsTypeOK'
  BY <1>1, <1>2 DEF IInv, RowsTypeOK
<1>4. TaskSound(t)'
  BY IInvParts, NoneAssumption
     DEF TaskSound, HasLease, ActiveStatus, RowsTypeOK, TaskRow, CONTROL_STATES,
         WORKER_PHASES
<1>5. RunSound(r)'
  BY IInvParts DEF NextRun, RunSound, HasLease, RowsTypeOK, RunRow, RUN_ACTIVE
<1>6. ASSUME NEW u \in Task PROVE TaskSound(u)'
  BY <1>1, <1>4, IInvParts DEF TaskSound, HasLease
<1>7. ASSUME NEW q \in Run PROVE RunSound(q)'
  BY <1>2, <1>5, IInvParts DEF RunSound, HasLease
<1>8. \A w \in Worker : MemoryOK(worker'[w])
  BY IInvParts
<1> QED
  BY <1>3, <1>6, <1>7, <1>8, IInvPartsNext

-----------------------------------------------------------------------------
(* The worker slot.                                                        *)

LEMMA LeaseExpiresSound == ASSUME IInv, LeaseExpires PROVE IInv'
<1>1. lease' \in LeaseRow /\ lease'.target = lease.target /\ lease'.epoch = lease.epoch
  BY DEF LeaseExpires, IInv, RowsTypeOK, LeaseRow
<1>2. RowsTypeOK'
  BY <1>1 DEF LeaseExpires, IInv, RowsTypeOK
<1>3. ASSUME NEW t \in Task PROVE TaskSound(t)'
  BY <1>1, IInvParts DEF LeaseExpires, TaskSound, HasLease
<1>4. ASSUME NEW r \in Run PROVE RunSound(r)'
  BY <1>1, IInvParts DEF LeaseExpires, RunSound, HasLease
<1>5. \A w \in Worker : MemoryOK(worker'[w])
  BY IInvParts DEF LeaseExpires
<1> QED
  BY <1>2, <1>3, <1>4, <1>5, IInvPartsNext

(* What a recovery leaves is typed, no longer active and still sound.      *)
LEMMA TasksRecoveredSound ==
  ASSUME IInv
  PROVE  /\ TasksRecovered \in [Task -> TaskRow]
         /\ \A t \in Task :
              /\ TasksRecovered[t].status \notin ActiveStatus
              /\ (TasksRecovered[t].resume # None)
                   <=> TasksRecovered[t].status \in {"queued", "paused"} \cup CONTROL_STATES
              /\ TasksRecovered[t].status \notin {"absent", "deleted"} =>
                   TasksRecovered[t].config # None
<1>1. ASSUME NEW t \in Task, HasLease(t)
      PROVE  /\ RecoveredTask(task[t]) \in TaskRow
             /\ RecoveredTask(task[t]).status \in {"paused", "terminated"}
             /\ (RecoveredTask(task[t]).resume # None)
                  <=> RecoveredTask(task[t]).status = "paused"
             /\ RecoveredTask(task[t]).config # None
  <2>1. /\ task[t] \in TaskRow
        /\ task[t].status \in WORKER_PHASES \cup CONTROL_STATES
        /\ (task[t].resume # None) <=> task[t].status \in CONTROL_STATES
        /\ task[t].config # None
    BY <1>1, IInvParts
       DEF RowsTypeOK, TaskSound, ActiveStatus, WORKER_PHASES, CONTROL_STATES
  <2> DEFINE row == task[t]
             resume == IF row.status \in WORKER_PHASES THEN row.status
                       ELSE IF row.status = "pausing" /\ row.resume = None
                            THEN "scanning" ELSE row.resume
  <2>2. {"terminating", "pausing"} \cap WORKER_PHASES = {}
    BY DEF WORKER_PHASES
  <2>3. CASE row.status = "terminating"
    <3> DEFINE new == [row EXCEPT !.status = "terminated", !.resume = None,
                                  !.epoch = row.epoch + 1]
    <3>1. RecoveredTask(row) = new
      BY <2>3 DEF RecoveredTask
    <3>2. row.epoch + 1 \in Nat /\ "terminated" \in TaskStatus
      BY <2>1 DEF TaskRow, TaskStatus, TERMINAL_STATES
    <3>3. /\ new \in TaskRow /\ new.status = "terminated"
          /\ new.resume = None /\ new.config = row.config
      BY <2>1, <3>2 DEF TaskRow
    <3> HIDE DEF new
    <3> QED
      BY <3>1, <3>3, <2>1
  <2>4. CASE row.status \in WORKER_PHASES \cup {"pausing"}
    <3>1. resume \in WORKER_PHASES /\ resume # None
      BY <2>1, <2>4, NoneAssumption DEF TaskRow, CONTROL_STATES
    <3> DEFINE new == [row EXCEPT !.status = "paused", !.resume = resume,
                                  !.epoch = row.epoch + 1]
    <3>2. RecoveredTask(row) = new
      BY <2>2, <2>4 DEF RecoveredTask
    <3>3. row.epoch + 1 \in Nat /\ "paused" \in TaskStatus
      BY <2>1 DEF TaskRow, TaskStatus
    <3> HIDE DEF resume
    <3>4. /\ new \in TaskRow /\ new.status = "paused"
          /\ new.resume = resume /\ new.config = row.config
      BY <2>1, <3>1, <3>3 DEF TaskRow
    <3> HIDE DEF new
    <3> QED
      BY <3>1, <3>2, <3>4, <2>1
  <2> QED
    BY <2>1, <2>3, <2>4 DEF CONTROL_STATES
<1>2. TasksRecovered \in [Task -> TaskRow]
  BY <1>1 DEF TasksRecovered, HasLease, IInv, RowsTypeOK
<1>3. ASSUME NEW t \in Task
      PROVE  TasksRecovered[t] = IF HasLease(t) THEN RecoveredTask(task[t]) ELSE task[t]
  BY DEF TasksRecovered, HasLease, IInv, RowsTypeOK
<1>4. ASSUME NEW t \in Task
      PROVE  /\ TasksRecovered[t].status \notin ActiveStatus
             /\ (TasksRecovered[t].resume # None)
                  <=> TasksRecovered[t].status \in {"queued", "paused"} \cup CONTROL_STATES
             /\ TasksRecovered[t].status \notin {"absent", "deleted"} =>
                  TasksRecovered[t].config # None
  <2>1. CASE HasLease(t)
    BY <2>1, <1>1, <1>3 DEF ActiveStatus, WORKER_PHASES, CONTROL_STATES
  <2>2. CASE ~HasLease(t)
    BY <2>2, <1>3, IInvParts DEF TaskSound
  <2> QED
    BY <2>1, <2>2
<1> QED
  BY <1>2, <1>4

LEMMA RunsRecoveredSound ==
  ASSUME IInv
  PROVE  /\ RunsRecovered \in [Run -> RunRow]
         /\ \A r \in Run : RunsRecovered[r].status \notin RUN_ACTIVE
<1>1. ASSUME NEW r \in Run
      PROVE  RunsRecovered[r] = IF HasLease(r) THEN RecoveredRun(run[r]) ELSE run[r]
  BY DEF RunsRecovered, HasLease, IInv, RowsTypeOK
<1>2. ASSUME NEW r \in Run
      PROVE  RecoveredRun(run[r]) \in RunRow /\ RecoveredRun(run[r]).status \notin RUN_ACTIVE
  BY DEF RecoveredRun, IInv, RowsTypeOK, RunRow, RunStatus, RUN_ACTIVE
<1>3. RunsRecovered \in [Run -> RunRow]
  BY <1>2 DEF RunsRecovered, IInv, RowsTypeOK
<1>4. ASSUME NEW r \in Run PROVE RunsRecovered[r].status \notin RUN_ACTIVE
  BY <1>1, <1>2, IInvParts DEF RunSound
<1> QED
  BY <1>3, <1>4

(* A recovery that grants nothing: the startup one and an idle claim.      *)
LEMMA RecoverySound ==
  ASSUME IInv, task' = TasksRecovered, run' = RunsRecovered, lease' = NoLease,
         UNCHANGED <<ckpt, worker>>
  PROVE  IInv'
<1>1. RowsTypeOK'
  BY TasksRecoveredSound, RunsRecoveredSound, LeaseKinds DEF IInv, RowsTypeOK
<1>2. ASSUME NEW t \in Task PROVE TaskSound(t)'
  BY TasksRecoveredSound, LeaseKinds DEF TaskSound, HasLease
<1>3. ASSUME NEW r \in Run PROVE RunSound(r)'
  BY RunsRecoveredSound, LeaseKinds DEF RunSound, HasLease
<1>4. \A w \in Worker : MemoryOK(worker'[w])
  BY IInvParts
<1> QED
  BY <1>1, <1>2, <1>3, <1>4, IInvPartsNext

LEMMA GrantTaskSound ==
  ASSUME IInv, NEW w \in Worker, NEW t \in Task,
         TasksRecovered[t].status = "queued", GrantTask(w, t), ckpt' = ckpt
  PROVE  IInv'
<1> DEFINE row == TasksRecovered[t]
<1>1. /\ row \in TaskRow /\ row.resume \in WORKER_PHASES
      /\ row.config \in Config /\ row.epoch + 1 \in Nat
  BY TasksRecoveredSound, NoneAssumption DEF TaskRow
<1>2. /\ task' \in [Task -> TaskRow]
      /\ task'[t].status = row.resume /\ task'[t].resume = None
      /\ task'[t].epoch = row.epoch + 1 /\ task'[t].config = row.config
      /\ \A u \in Task \ {t} : task'[u] = TasksRecovered[u]
  BY <1>1, TasksRecoveredSound, StatusFacts DEF GrantTask, NextEpoch, TaskRow
<1>3. /\ lease' \in LeaseRow
      /\ lease'.target = t /\ lease'.epoch = row.epoch + 1
  BY <1>1 DEF GrantTask, NextEpoch, LeaseRow
<1>4. ASSUME NEW v \in Worker PROVE MemoryOK(worker'[v])
  <2>1. CASE v = w
    <3>1. worker'[v] = [stage |-> "claimed", target |-> t, epoch |-> row.epoch + 1,
                        phase |-> row.resume, config |-> row.config,
                        batch |-> 0, items |-> 0]
      BY <2>1 DEF GrantTask, NextEpoch, IInv, RowsTypeOK
    <3> HIDE DEF row
    <3> QED
      BY <1>1, <3>1, NoneAssumption DEF MemoryOK, WorkerMemory
  <2>2. CASE v # w
    BY <2>2, IInvParts DEF GrantTask, RowsTypeOK
  <2> QED
    BY <2>1, <2>2
<1>5. RowsTypeOK'
  <2>1. worker' \in [Worker -> WorkerMemory]
    BY <1>4 DEF MemoryOK, GrantTask, IInv, RowsTypeOK
  <2> QED
    BY <1>2, <1>3, <2>1, RunsRecoveredSound DEF GrantTask, IInv, RowsTypeOK
<1>6. ASSUME NEW u \in Task PROVE TaskSound(u)'
  <2>1. CASE u = t
    <3>1. row.resume \in ActiveStatus
          /\ row.resume \notin {"queued", "paused"} \cup CONTROL_STATES
      BY <1>1 DEF ActiveStatus, WORKER_PHASES, CONTROL_STATES
    <3> QED
      BY <2>1, <1>1, <1>2, <1>3, <3>1, NoneAssumption DEF TaskSound, HasLease
  <2>2. CASE u # t
    BY <2>2, <1>2, <1>3, TasksRecoveredSound DEF TaskSound, HasLease
  <2> QED
    BY <2>1, <2>2
<1>7. ASSUME NEW r \in Run PROVE RunSound(r)'
  BY <1>3, RunsRecoveredSound, IdAssumption DEF GrantTask, RunSound, HasLease
<1> QED
  BY <1>4, <1>5, <1>6, <1>7, IInvPartsNext

LEMMA GrantRunSound ==
  ASSUME IInv, NEW w \in Worker, NEW r \in Run, GrantRun(w, r), ckpt' = ckpt
  PROVE  IInv'
<1> DEFINE row == RunsRecovered[r]
<1>1. row \in RunRow /\ row.epoch + 1 \in Nat
  BY RunsRecoveredSound DEF RunRow
<1>2. /\ run' \in [Run -> RunRow]
      /\ run'[r].status = "planning" /\ run'[r].epoch = row.epoch + 1
      /\ \A q \in Run \ {r} : run'[q] = RunsRecovered[q]
  BY <1>1, RunsRecoveredSound DEF GrantRun, NextEpoch, RunRow, RunStatus, RUN_ACTIVE
<1>3. /\ lease' \in LeaseRow
      /\ lease'.target = r /\ lease'.epoch = row.epoch + 1
  BY <1>1 DEF GrantRun, NextEpoch, LeaseRow
<1>4. ASSUME NEW v \in Worker PROVE MemoryOK(worker'[v])
  <2>1. CASE v = w
    BY <2>1, <1>1, NoneAssumption
       DEF GrantRun, NextEpoch, Idle, MemoryOK, WorkerMemory, IInv, RowsTypeOK
  <2>2. CASE v # w
    BY <2>2, IInvParts DEF GrantRun, RowsTypeOK
  <2> QED
    BY <2>1, <2>2
<1>5. RowsTypeOK'
  <2>1. worker' \in [Worker -> WorkerMemory]
    BY <1>4 DEF MemoryOK, GrantRun, IInv, RowsTypeOK
  <2> QED
    BY <1>2, <1>3, <2>1, TasksRecoveredSound DEF GrantRun, IInv, RowsTypeOK
<1>6. ASSUME NEW q \in Run PROVE RunSound(q)'
  BY <1>2, <1>3, RunsRecoveredSound DEF RunSound, HasLease, RUN_ACTIVE
<1>7. ASSUME NEW t \in Task PROVE TaskSound(t)'
  BY <1>3, TasksRecoveredSound, IdAssumption DEF GrantRun, TaskSound, HasLease
<1> QED
  BY <1>4, <1>5, <1>6, <1>7, IInvPartsNext

LEMMA ClaimNextSound ==
  ASSUME IInv, NEW w \in Worker, ClaimNext(w) PROVE IInv'
<1> DEFINE queuedTasks == {t \in Task : TasksRecovered[t].status = "queued"}
           queuedRuns  == {r \in Run : RunsRecovered[r].status = "queued"}
<1>0. ckpt' = ckpt
  BY DEF ClaimNext
<1>1. CASE \E t \in queuedTasks : GrantTask(w, t)
  BY <1>0, <1>1, GrantTaskSound
<1>2. CASE \E r \in queuedRuns : GrantRun(w, r)
  BY <1>0, <1>2, GrantRunSound
<1>3. CASE /\ task' = TasksRecovered /\ run' = RunsRecovered
           /\ lease' = NoLease /\ UNCHANGED worker
  BY <1>0, <1>3, RecoverySound
<1> QED
  BY <1>1, <1>2, <1>3 DEF ClaimNext

LEMMA RecoverStaleLeasesSound == ASSUME IInv, RecoverStaleLeases PROVE IInv'
BY RecoverySound DEF RecoverStaleLeases

-----------------------------------------------------------------------------
(* Calls of a worker.                                                      *)

(* A call that changes the memory of its worker and nothing else.          *)
LEMMA MemoryStep ==
  ASSUME IInv, UNCHANGED db, worker' \in [Worker -> WorkerMemory],
         \A w \in Worker : MemoryOK(worker'[w])
  PROVE  IInv'
<1>1. task' = task /\ run' = run /\ lease' = lease /\ ckpt' = ckpt
  BY DEF db
<1>2. RowsTypeOK'
  BY <1>1 DEF IInv, RowsTypeOK
<1>3. ASSUME NEW t \in Task PROVE TaskSound(t)'
  BY <1>1, IInvParts DEF TaskSound, HasLease
<1>4. ASSUME NEW r \in Run PROVE RunSound(r)'
  BY <1>1, IInvParts DEF RunSound, HasLease
<1> QED
  BY <1>2, <1>3, <1>4, IInvPartsNext

(* A worker that gives up its token.                                       *)
LEMMA WorkerIdle ==
  ASSUME IInv, NEW w \in Worker, worker' = [worker EXCEPT ![w] = Idle]
  PROVE  /\ worker' \in [Worker -> WorkerMemory]
         /\ \A v \in Worker : MemoryOK(worker'[v])
<1>1. MemoryOK(Idle)
  BY DEF MemoryOK, Idle, WorkerMemory
<1> QED
  BY <1>1, IInvParts DEF MemoryOK, RowsTypeOK

(* A worker that moves on within its phase.                                *)
LEMMA WorkerMoves ==
  ASSUME IInv, NEW w \in Worker, NEW batch \in Nat, NEW items \in Nat,
         worker[w].stage \in {"claimed", "running"},
         worker' = [worker EXCEPT ![w].stage = "running", ![w].batch = batch,
                                  ![w].items = items]
  PROVE  /\ worker' \in [Worker -> WorkerMemory]
         /\ \A v \in Worker : MemoryOK(worker'[v])
<1> DEFINE m == [worker[w] EXCEPT !.stage = "running", !.batch = batch,
                                  !.items = items]
<1>1. MemoryOK(worker[w])
  BY IInvParts
<1>2. MemoryOK(m)
  BY <1>1 DEF MemoryOK, WorkerMemory
<1>3. worker' = [worker EXCEPT ![w] = m]
  BY <1>1 DEF IInv, RowsTypeOK, MemoryOK, WorkerMemory
<1> HIDE DEF m
<1> QED
  BY <1>2, <1>3, IInvParts, ZenonT(60) DEF MemoryOK, RowsTypeOK

LEMMA ReadResumePointSound ==
  ASSUME IInv, NEW w \in Worker, ReadResumePoint(w) PROVE IInv'
<1>1. NItems \in Nat /\ NItems + MaxControl \in Nat
  BY CountAssumption
<1>2. PICK batch \in 0..(NItems + MaxControl), items \in 0..NItems :
        worker' = [worker EXCEPT ![w].stage = "running",
                                 ![w].batch = batch, ![w].items = items]
  BY DEF ReadResumePoint
<1>3. batch \in Nat /\ items \in Nat
  BY <1>1
<1>4. UNCHANGED db /\ worker[w].stage = "claimed"
  BY DEF ReadResumePoint
<1> QED
  BY <1>2, <1>3, <1>4, WorkerMoves, MemoryStep

LEMMA NoticeStaleSound == ASSUME IInv, NEW w \in Worker, NoticeStale(w) PROVE IInv'
BY WorkerIdle, MemoryStep DEF NoticeStale

LEMMA CrashSound == ASSUME IInv, NEW w \in Worker, Crash(w) PROVE IInv'
BY WorkerIdle, MemoryStep DEF Crash

(* What a valid token says about the row it is for.                        *)
LEMMA TokenHolds ==
  ASSUME IInv, NEW w \in Worker, TokenValid(w)
  PROVE  LET t == worker[w].target IN
           /\ t \in Task /\ HasLease(t)
           /\ task[t] \in TaskRow /\ task[t].status \in ActiveStatus
           /\ task[t].config # None
           /\ (task[t].resume # None) <=> task[t].status \in CONTROL_STATES
<1>1. worker[w].target \in Task /\ HasLease(worker[w].target)
  BY IInvParts DEF TokenValid, MemoryOK, HasLease
<1> QED
  BY <1>1, IInvParts
     DEF RowsTypeOK, TaskSound, ActiveStatus, WORKER_PHASES, CONTROL_STATES

(* The holder leaves the slot and its task with a row that is not active.  *)
LEMMA HolderLeaves ==
  ASSUME IInv, NEW w \in Worker, TokenValid(w), NEW row \in TaskRow,
         row.status \in TaskStatus \ ActiveStatus,
         (row.resume # None) <=> row.status \in {"queued", "paused"},
         row.config # None,
         task' = [task EXCEPT ![worker[w].target] = row],
         lease' = NoLease, run' = run, ckpt' \subseteq CheckpointRow,
         worker' \in [Worker -> WorkerMemory],
         \A v \in Worker : MemoryOK(worker'[v])
  PROVE  IInv'
<1>1. PICK t \in Task : t = worker[w].target /\ HasLease(t)
  BY TokenHolds
<1>2. /\ task' \in [Task -> TaskRow] /\ task'[t] = row
      /\ \A u \in Task \ {t} : task'[u] = task[u]
  BY <1>1 DEF IInv, RowsTypeOK
<1>3. TaskSound(t)'
  BY <1>1, <1>2, LeaseKinds DEF TaskSound, HasLease, ActiveStatus
<1> QED
  BY <1>1, <1>2, <1>3, TaskStep

(* A pending request, carried out on a row whose progress was updated.     *)
LEMMA ControlAppliedSound ==
  ASSUME NEW row \in TaskRow, row.status \in CONTROL_STATES, row.resume # None
  PROVE  LET new == ControlApplied(row) IN
           /\ new \in TaskRow
           /\ new.status \in {"paused", "terminated"}
           /\ (new.resume # None) <=> new.status = "paused"
           /\ new.config = row.config
<1>1. CASE row.status = "pausing"
  BY <1>1 DEF ControlApplied, TaskRow, TaskStatus
<1>2. CASE row.status = "terminating"
  <2> DEFINE new == [row EXCEPT !.status = "terminated", !.resume = None,
                                !.epoch = row.epoch + 1]
  <2>1. ControlApplied(row) = new
    BY <1>2 DEF ControlApplied
  <2>2. row.epoch + 1 \in Nat /\ "terminated" \in TaskStatus
    BY DEF TaskRow, TaskStatus, TERMINAL_STATES
  <2>3. /\ new \in TaskRow /\ new.status = "terminated"
        /\ new.resume = None /\ new.config = row.config
    BY <2>2 DEF TaskRow
  <2> HIDE DEF new
  <2> QED
    BY <2>1, <2>3
<1> QED
  BY <1>1, <1>2 DEF CONTROL_STATES

LEMMA InactiveStatus ==
  {"queued", "paused", "terminated", "failed", "completed", "evidence_review"}
    \subseteq TaskStatus \ ActiveStatus
BY DEF TaskStatus, ActiveStatus, TERMINAL_STATES, CONTROL_STATES, WORKER_PHASES

LEMMA SurrenderSound ==
  ASSUME IInv, NEW w \in Worker, TokenValid(w), NEW row \in TaskRow,
         row.status \in {"paused", "terminated", "failed"},
         (row.resume # None) <=> row.status = "paused",
         row.config # None,
         Surrender(w, row)
  PROVE  IInv'
<1>1. row.status \in TaskStatus \ ActiveStatus
  BY InactiveStatus
<1>2. (row.resume # None) <=> row.status \in {"queued", "paused"}
  OBVIOUS
<1>3. /\ task' = [task EXCEPT ![worker[w].target] = row]
      /\ lease' = NoLease /\ run' = run /\ ckpt' \subseteq CheckpointRow
  BY TokenHolds DEF Surrender, Released, IInv, RowsTypeOK
<1>4. /\ worker' \in [Worker -> WorkerMemory]
      /\ \A v \in Worker : MemoryOK(worker'[v])
  BY WorkerIdle DEF Surrender
<1> QED
  BY <1>1, <1>2, <1>3, <1>4, HolderLeaves

LEMMA FailWorkerSound == ASSUME IInv, NEW w \in Worker, FailWorker(w) PROVE IInv'
<1> DEFINE row == task[worker[w].target]
           new == [row EXCEPT !.status = "failed", !.resume = None,
                              !.epoch = row.epoch + 1]
<1>1. TokenValid(w) /\ Surrender(w, new)
  BY DEF FailWorker
<1>2. row \in TaskRow /\ row.config # None
  BY <1>1, TokenHolds
<1>3. row.epoch + 1 \in Nat /\ "failed" \in TaskStatus
  BY <1>2 DEF TaskRow, TaskStatus, TERMINAL_STATES
<1>4. /\ new \in TaskRow /\ new.status = "failed"
      /\ new.resume = None /\ new.config = row.config
  BY <1>2, <1>3 DEF TaskRow
<1> HIDE DEF new
<1> QED
  BY <1>1, <1>2, <1>4, SurrenderSound

LEMMA PauseClaimedBeforeWorkSound ==
  ASSUME IInv, NEW w \in Worker, PauseClaimedBeforeWork(w) PROVE IInv'
<1> DEFINE row   == task[worker[w].target]
           phase == EffectivePhase(row)
           new   == [row EXCEPT !.status = "paused", !.resume = phase]
<1>1. TokenValid(w) /\ Surrender(w, new)
  BY DEF PauseClaimedBeforeWork
<1>2. row \in TaskRow /\ row.config # None
  BY <1>1, TokenHolds
<1>3. phase \in WORKER_PHASES /\ phase # None
  BY <1>2, NoneAssumption
     DEF PauseClaimedBeforeWork, EffectivePhase, TaskRow, CONTROL_STATES, WORKER_PHASES
<1> HIDE DEF phase
<1>4. /\ new \in TaskRow /\ new.status = "paused"
      /\ new.resume = phase /\ new.config = row.config
  BY <1>2, <1>3, StatusFacts DEF TaskRow
<1> HIDE DEF new
<1> QED
  BY <1>1, <1>2, <1>3, <1>4, SurrenderSound

LEMMA HonorClaimedControlSound ==
  ASSUME IInv, NEW w \in Worker, HonorClaimedControlBeforeWork(w) PROVE IInv'
BY TokenHolds, ControlAppliedSound, SurrenderSound DEF HonorClaimedControlBeforeWork

LEMMA RecoverWorkerSound ==
  ASSUME IInv, NEW w \in Worker, RecoverWorkerAfterProcessStop(w) PROVE IInv'
BY TokenHolds, ControlAppliedSound, SurrenderSound DEF RecoverWorkerAfterProcessStop

LEMMA CommitBatchSound ==
  ASSUME IInv, NEW w \in Worker, NEW items \in Nat, NEW completed \in Nat,
         NEW delivered \in BOOLEAN, CommitBatch(w, items, completed, delivered)
  PROVE  IInv'
<1>1. PICK t \in Task : t = worker[w].target /\ HasLease(t)
  BY TokenHolds DEF CommitBatch
<1> DEFINE m       == worker[w]
           stamped == [task[t] EXCEPT !.progress = completed]
           control == task[t].status \in CONTROL_STATES
           new     == [task |-> t, phase |-> m.phase, config |-> m.config,
                       batch |-> m.batch, items |-> items, epoch |-> m.epoch]
<1>2. /\ TokenValid(w) /\ m.stage = "running"
      /\ ckpt' = ckpt \cup {new}
      /\ task' = [task EXCEPT ![t] = IF control THEN ControlApplied(stamped)
                                                ELSE stamped]
      /\ lease' = IF control THEN NoLease ELSE lease
      /\ run' = run
  BY <1>1 DEF CommitBatch
<1>3. /\ stamped \in TaskRow /\ stamped.status = task[t].status
      /\ stamped.resume = task[t].resume /\ stamped.config = task[t].config
      /\ stamped.epoch = task[t].epoch
  BY DEF IInv, RowsTypeOK, TaskRow
<1>4. ckpt' \subseteq CheckpointRow
  <2>1. MemoryOK(m)
    BY IInvParts
  <2>2. new \in CheckpointRow
    BY <1>2, <2>1 DEF MemoryOK, WorkerMemory, CheckpointRow
  <2> HIDE DEF new
  <2> QED
    BY <1>2, <2>2 DEF IInv, RowsTypeOK
<1>5. /\ worker' \in [Worker -> WorkerMemory]
      /\ \A v \in Worker : MemoryOK(worker'[v])
  <2> DEFINE next == [m EXCEPT !.batch = m.batch + 1, !.items = items]
  <2>1. MemoryOK(m)
    BY IInvParts
  <2>2. m.batch + 1 \in Nat
    BY <2>1 DEF MemoryOK, WorkerMemory
  <2>3. MemoryOK(next)
    BY <2>1, <2>2 DEF MemoryOK, WorkerMemory
  <2> HIDE DEF next
  <2>4. CASE worker' = worker
    BY <2>4, IInvParts DEF RowsTypeOK
  <2>5. CASE worker' = [worker EXCEPT ![w] = Idle]
    BY <2>5, WorkerIdle
  <2>6. CASE worker' = [worker EXCEPT ![w] = next]
    BY <2>3, <2>6, IInvParts DEF MemoryOK, RowsTypeOK
  <2> QED
    BY <2>4, <2>5, <2>6 DEF CommitBatch, next
<1>6. CASE control
  <2>1. PICK row : row = ControlApplied(stamped)
    OBVIOUS
  <2>2. /\ row \in TaskRow /\ row.status \in {"paused", "terminated"}
        /\ (row.resume # None) <=> row.status = "paused"
        /\ row.config # None
    <3> HIDE DEF stamped
    <3> QED
      BY <1>1, <1>2, <1>3, <1>6, <2>1, TokenHolds, ControlAppliedSound
  <2>3. task' = [task EXCEPT ![worker[w].target] = row] /\ lease' = NoLease
    BY <1>1, <1>2, <1>6, <2>1
  <2>4. row.status \in TaskStatus \ ActiveStatus
    BY <2>2, InactiveStatus
  <2> QED
    BY <1>2, <1>4, <1>5, <2>2, <2>3, <2>4, HolderLeaves
<1>7. CASE ~control
  <2>1. /\ task' \in [Task -> TaskRow] /\ task'[t] = stamped
        /\ \A u \in Task \ {t} : task'[u] = task[u]
        /\ lease' = lease
    BY <1>2, <1>3, <1>7 DEF IInv, RowsTypeOK
  <2> HIDE DEF stamped
  <2>2. TaskSound(t)'
    BY <1>3, <2>1, IInvParts DEF TaskSound, HasLease
  <2> QED
    BY <1>2, <1>4, <1>5, <2>1, <2>2, TaskStep
<1> QED
  BY <1>6, <1>7

LEMMA WorkBatchSound ==
  ASSUME IInv, NEW w \in Worker, NEW delivered \in BOOLEAN, WorkBatch(w, delivered)
  PROVE  IInv'
<1>1. worker[w].items + 1 \in Nat
  BY IInvParts DEF MemoryOK, WorkerMemory
<1> QED
  BY <1>1, CommitBatchSound DEF WorkBatch

LEMMA ControlBatchSound ==
  ASSUME IInv, NEW w \in Worker, NEW delivered \in BOOLEAN,
         ControlBatch(w, delivered)
  PROVE  IInv'
<1>1. PICK completed \in {worker[w].items, task[worker[w].target].progress} :
        CommitBatch(w, worker[w].items, completed, delivered)
  BY DEF ControlBatch
<1>2. worker[w].items \in Nat
  BY IInvParts DEF MemoryOK, WorkerMemory
<1>3. task[worker[w].target].progress \in Nat
  <2>1. PICK t \in Task : t = worker[w].target
    BY <1>1, TokenHolds DEF CommitBatch
  <2> QED
    BY <2>1 DEF IInv, RowsTypeOK, TaskRow
<1> QED
  BY <1>1, <1>2, <1>3, CommitBatchSound

LEMMA ReplayBatchSound == ASSUME IInv, NEW w \in Worker, ReplayBatch(w) PROVE IInv'
<1> DEFINE m   == worker[w]
           row == task[m.target]
<1>1. PICK k \in Rows(m.target, m.phase, m.config) :
        \/ /\ worker' = [worker EXCEPT ![w] = Idle]
           /\ UNCHANGED <<task, lease>>
        \/ /\ TokenValid(w)
           /\ worker' = [worker EXCEPT ![w].batch = m.batch + 1, ![w].items = k.items]
           /\ UNCHANGED <<task, lease>>
        \/ /\ row.status \in CONTROL_STATES
           /\ TokenValid(w)
           /\ task' = [task EXCEPT ![m.target] = ControlApplied(row)]
           /\ lease' = NoLease
           /\ worker' = [worker EXCEPT ![w] = Idle]
  BY DEF ReplayBatch
<1>2. run' = run /\ ckpt' = ckpt /\ evidence' = evidence /\ m.stage = "running"
  BY DEF ReplayBatch
<1>3. CASE /\ worker' = [worker EXCEPT ![w] = Idle]
           /\ UNCHANGED <<task, lease>>
  BY <1>2, <1>3, WorkerIdle, MemoryStep DEF db
<1>4. CASE /\ worker' = [worker EXCEPT ![w].batch = m.batch + 1, ![w].items = k.items]
           /\ UNCHANGED <<task, lease>>
  <2>1. k.items \in Nat
    BY DEF Rows, IInv, RowsTypeOK, CheckpointRow
  <2>2. MemoryOK(m) /\ m.batch + 1 \in Nat
    BY IInvParts DEF MemoryOK, WorkerMemory
  <2>3. worker' = [worker EXCEPT ![w].stage = "running", ![w].batch = m.batch + 1,
                                 ![w].items = k.items]
    BY <1>2, <1>4 DEF IInv, RowsTypeOK, WorkerMemory
  <2> QED
    BY <1>2, <1>4, <2>1, <2>2, <2>3, WorkerMoves, MemoryStep, ZenonT(60) DEF db
<1>5. CASE /\ row.status \in CONTROL_STATES
           /\ TokenValid(w)
           /\ task' = [task EXCEPT ![m.target] = ControlApplied(row)]
           /\ lease' = NoLease
           /\ worker' = [worker EXCEPT ![w] = Idle]
  <2>1. PICK new : new = ControlApplied(row)
    OBVIOUS
  <2>2. /\ new \in TaskRow /\ new.status \in {"paused", "terminated"}
        /\ (new.resume # None) <=> new.status = "paused"
        /\ new.config # None
    BY <1>5, <2>1, TokenHolds, ControlAppliedSound
  <2>3. new.status \in TaskStatus \ ActiveStatus
    BY <2>2, InactiveStatus
  <2>4. ckpt' \subseteq CheckpointRow
    BY <1>2 DEF IInv, RowsTypeOK
  <2> QED
    BY <1>2, <1>5, <2>1, <2>2, <2>3, <2>4, WorkerIdle, HolderLeaves
<1> QED
  BY <1>1, <1>3, <1>4, <1>5

LEMMA LeavePhaseSound == ASSUME IInv, NEW w \in Worker, LeavePhase(w) PROVE IInv'
<1>1. PICK t \in Task : t = worker[w].target /\ HasLease(t)
  BY TokenHolds DEF LeavePhase
<1> DEFINE next   == PIPELINE_NEXT[worker[w].phase]
           status == IF next \in WORKER_PHASES THEN "queued" ELSE next
           resume == ResumeAfter(worker[w].phase)
           row    == [task[t] EXCEPT !.progress = 0, !.status = status,
                                     !.resume = resume]
<1>2. next \in WORKER_PHASES \cup {"evidence_review", "completed"}
  <2>1. worker[w].phase \in WORKER_PHASES
    BY IInvParts DEF LeavePhase, TokenValid, MemoryOK, WorkerMemory
  <2> QED
    BY <2>1 DEF PIPELINE_NEXT, WORKER_PHASES
<1>3. /\ status \in {"queued", "evidence_review", "completed"}
      /\ (resume # None) <=> status = "queued"
      /\ resume \in WORKER_PHASES \cup {None}
  BY <1>2, NoneAssumption DEF ResumeAfter, WORKER_PHASES
<1>4. /\ task[t] \in TaskRow /\ task[t].config # None
  BY <1>1, TokenHolds DEF LeavePhase
<1>5. status \in TaskStatus \ ActiveStatus
  BY <1>3, InactiveStatus
<1>6. task' = [task EXCEPT ![t] = row] /\ lease' = NoLease /\ run' = run /\ ckpt' = ckpt
  BY <1>1, <1>4 DEF LeavePhase, Released, IInv, RowsTypeOK, TaskRow
<1> HIDE DEF next, status, resume
<1>7. /\ row \in TaskRow /\ row.status = status /\ row.resume = resume
      /\ row.config = task[t].config
  BY <1>3, <1>4, <1>5 DEF TaskRow
<1> HIDE DEF row
<1>8. (row.resume # None) <=> row.status \in {"queued", "paused"}
  BY <1>3, <1>7
<1>9. ckpt' \subseteq CheckpointRow /\ TokenValid(w)
  BY <1>6 DEF LeavePhase, IInv, RowsTypeOK
<1>10. worker' = [worker EXCEPT ![w] = Idle]
  BY DEF LeavePhase
<1> QED
  BY <1>1, <1>4, <1>5, <1>6, <1>7, <1>8, <1>9, <1>10, WorkerIdle, HolderLeaves

LEMMA CompletePhaseSound == ASSUME IInv, NEW w \in Worker, CompletePhase(w) PROVE IInv'
BY LeavePhaseSound DEF CompletePhase

-----------------------------------------------------------------------------
(* The export executor.                                                    *)

LEMMA RunHolds ==
  ASSUME IInv, NEW w \in Worker, RunLeaseMatches(w)
  PROVE  /\ worker[w].target \in Run /\ HasLease(worker[w].target)
         /\ run[worker[w].target] \in RunRow
         /\ run[worker[w].target].status \in RUN_ACTIVE
         /\ lease.epoch = run[worker[w].target].epoch
BY IInvParts DEF RunLeaseMatches, MemoryOK, HasLease, RunSound, RowsTypeOK

(* The holder leaves the slot and its run with a row that is not active.   *)
LEMMA RunLeaves ==
  ASSUME IInv, NEW w \in Worker, RunLeaseMatches(w), NEW row \in RunRow,
         row.status \notin RUN_ACTIVE,
         run' = [run EXCEPT ![worker[w].target] = row],
         lease' = NoLease, task' = task, ckpt' = ckpt,
         worker' = [worker EXCEPT ![w] = Idle]
  PROVE  IInv'
<1>1. PICK r \in Run : r = worker[w].target /\ HasLease(r)
  BY RunHolds
<1>2. /\ run' \in [Run -> RunRow] /\ run'[r] = row
      /\ \A q \in Run \ {r} : run'[q] = run[q]
  BY <1>1 DEF IInv, RowsTypeOK
<1>3. RunSound(r)'
  BY <1>2, LeaseKinds DEF RunSound, HasLease
<1> QED
  BY <1>1, <1>2, <1>3, WorkerIdle, RunRowStep

LEMMA RunStepSound == ASSUME IInv, NEW w \in Worker, RunStep(w) PROVE IInv'
<1>1. RunLeaseMatches(w)
  BY DEF RunStep, RunTokenValid
<1>2. PICK r \in Run : r = worker[w].target /\ HasLease(r)
  BY <1>1, RunHolds
<1>3. PICK to \in RunStatus :
        /\ <<run[r].status, to>> \in RUN_NEXT
        /\ run' = [run EXCEPT ![r].status = to]
        /\ IF to = "completed"
             THEN lease' = NoLease /\ worker' = [worker EXCEPT ![w] = Idle]
             ELSE UNCHANGED <<lease, worker>>
  BY <1>2 DEF RunStep
<1>4. task' = task /\ ckpt' = ckpt
  BY DEF RunStep
<1> DEFINE row == [run[r] EXCEPT !.status = to]
<1>5. row \in RunRow /\ row.status = to /\ row.epoch = run[r].epoch
  BY DEF IInv, RowsTypeOK, RunRow
<1>6. run' = [run EXCEPT ![r] = row]
  BY <1>3 DEF IInv, RowsTypeOK, RunRow
<1> HIDE DEF row
<1>7. CASE to = "completed"
  BY <1>1, <1>2, <1>3, <1>4, <1>5, <1>6, <1>7, RunLeaves DEF RUN_ACTIVE
<1>8. CASE to # "completed"
  <2>1. to \in RUN_ACTIVE /\ run[r].status \in RUN_ACTIVE
    BY <1>3, <1>8 DEF RUN_NEXT, RUN_ACTIVE
  <2>2. /\ run' \in [Run -> RunRow] /\ run'[r] = row
        /\ \A q \in Run \ {r} : run'[q] = run[q]
    BY <1>5, <1>6 DEF IInv, RowsTypeOK
  <2>3. RunSound(r)'
    BY <1>3, <1>5, <1>8, <2>1, <2>2, IInvParts DEF RunSound, HasLease
  <2>4. /\ worker' \in [Worker -> WorkerMemory]
        /\ \A v \in Worker : MemoryOK(worker'[v])
    BY <1>3, <1>8, IInvParts DEF RowsTypeOK
  <2> QED
    BY <1>3, <1>4, <1>8, <2>2, <2>3, <2>4, RunRowStep
<1> QED
  BY <1>7, <1>8

LEMMA RunFailSound == ASSUME IInv, NEW w \in Worker, RunFail(w) PROVE IInv'
<1> DEFINE old == run[worker[w].target]
           row == IF lease.live THEN [old EXCEPT !.status = "failed"]
                                ELSE [status |-> "queued", epoch |-> old.epoch + 1]
<1>1. RunLeaseMatches(w)
  BY DEF RunFail
<1>2. row \in RunRow /\ row.status \in {"failed", "queued"}
  BY <1>1, RunHolds DEF RunRow, RunStatus
<1>3. /\ run' = [run EXCEPT ![worker[w].target] = row]
      /\ lease' = NoLease /\ task' = task /\ ckpt' = ckpt
      /\ worker' = [worker EXCEPT ![w] = Idle]
  BY <1>1, RunHolds DEF RunFail, IInv, RowsTypeOK
<1> HIDE DEF row
<1>4. row.status \notin RUN_ACTIVE
  BY <1>2 DEF RUN_ACTIVE
<1> QED
  BY <1>1, <1>2, <1>3, <1>4, RunLeaves

LEMMA RequeueExportRunSound ==
  ASSUME IInv, NEW w \in Worker, RequeueExportRun(w) PROVE IInv'
<1> DEFINE old == run[worker[w].target]
           row == [status |-> "queued", epoch |-> old.epoch + 1]
<1>1. RunLeaseMatches(w)
  BY DEF RequeueExportRun
<1>2. row \in RunRow /\ row.status = "queued"
  BY <1>1, RunHolds DEF RunRow, RunStatus
<1>3. /\ run' = [run EXCEPT ![worker[w].target] = row]
      /\ lease' = NoLease /\ task' = task /\ ckpt' = ckpt
      /\ worker' = [worker EXCEPT ![w] = Idle]
  BY <1>1, RunHolds DEF RequeueExportRun, IInv, RowsTypeOK
<1> HIDE DEF row
<1>4. row.status \notin RUN_ACTIVE
  BY <1>2 DEF RUN_ACTIVE
<1> QED
  BY <1>1, <1>2, <1>3, <1>4, RunLeaves

-----------------------------------------------------------------------------
(* The specification.                                                      *)

LEMMA NextSound == IInv /\ [Next]_vars => IInv'
<1> SUFFICES ASSUME IInv, [Next]_vars PROVE IInv'
  OBVIOUS
<1>1. CASE ApiStep
  BY <1>1, CreateTaskSound, UpdateConfigSound, QueueTaskSound, RequestPauseSound,
     ResumeTaskSound, DeleteTaskSound, ReleaseReviewGateSound, RequestTerminateSound,
     CompleteFirstCopyExportSound, CreateExportRunSound
     DEF ApiStep
<1>2. CASE LeaseExpires \/ RecoverStaleLeases
  BY <1>2, LeaseExpiresSound, RecoverStaleLeasesSound
<1>3. ASSUME NEW w \in Worker, PhaseStep(w) PROVE IInv'
  BY <1>3, ReadResumePointSound, WorkBatchSound, ControlBatchSound, ReplayBatchSound,
     CompletePhaseSound, FailWorkerSound, PauseClaimedBeforeWorkSound,
     HonorClaimedControlSound, RecoverWorkerSound, NoticeStaleSound
     DEF PhaseStep
<1>4. ASSUME NEW w \in Worker, ExportStep(w) PROVE IInv'
  BY <1>4, RunStepSound, RunFailSound, RequeueExportRunSound DEF ExportStep
<1>5. CASE UNCHANGED vars
  <2>1. UNCHANGED db /\ worker' = worker
    BY <1>5 DEF vars, db
  <2> QED
    BY <2>1, IInvParts, MemoryStep DEF RowsTypeOK
<1> QED
  BY <1>1, <1>2, <1>3, <1>4, <1>5, ClaimNextSound, CrashSound DEF Next

THEOREM Invariance == Spec => []IInv
BY InitSound, NextSound, PTL DEF Spec

(* At most one task or run is active, it is the one the lease names, and   *)
(* under its own epoch: claims, commits, controls, failures and recoveries *)
(* never write one side without the other.                                 *)
THEOREM SlotAgrees == Spec => []SlotConsistent
<1>1. IInv => SlotConsistent
  BY DEF IInv
<1> QED
  BY <1>1, Invariance, PTL

(* A task that leads back to a phase names it in resume_state, and no other*)
(* does: require_worker_phase never fails and its fallbacks are never used.*)
THEOREM ResumeStateHolds == Spec => []ResumeStateSound
<1>1. IInv => ResumeStateSound
  BY DEF IInv
<1> QED
  BY <1>1, Invariance, PTL

-----------------------------------------------------------------------------
(* Result rows appear only with a checkpoint that covers them, and         *)
(* checkpoints disappear only with their whole task.                       *)
RInv == IInv /\ ResultsTypeOK /\ EvidenceBacked

(* A batch stores results and checkpoint together, a deletion removes both.*)
LEMMA CommitStores ==
  ASSUME IInv, NEW w \in Worker, NEW items \in Nat, NEW completed, NEW delivered,
         CommitBatch(w, items, completed, delivered)
  PROVE  \E k \in CheckpointRow, from \in Nat :
           /\ ckpt' = ckpt \cup {k}
           /\ evidence' = EvidenceAfter(k.task, k.phase, k.config, from, k.items)
<1> DEFINE m == worker[w]
           k == [task |-> m.target, phase |-> m.phase, config |-> m.config,
                 batch |-> m.batch, items |-> items, epoch |-> m.epoch]
<1>1. m.target \in Task
  BY TokenHolds DEF CommitBatch
<1>2. m \in WorkerMemory /\ m.phase # None /\ m.config # None
  BY <1>1, IInvParts DEF CommitBatch, MemoryOK
<1>3. k \in CheckpointRow /\ m.items \in Nat
  BY <1>1, <1>2 DEF WorkerMemory, CheckpointRow
<1>4. /\ ckpt' = ckpt \cup {k}
      /\ evidence' = EvidenceAfter(m.target, m.phase, m.config, m.items, items)
  BY DEF CommitBatch
<1> QED
  BY <1>3, <1>4

LEMMA ResultsChange ==
  ASSUME IInv, [Next]_vars
  PROVE  \/ ckpt' = ckpt /\ evidence' = evidence
         \/ \E t \in Task :
              /\ ckpt' = {k \in ckpt : k.task # t}
              /\ evidence' = [evidence EXCEPT
                                ![t] = [p \in EVIDENCE_PHASES |-> NoEvidence]]
         \/ \E k \in CheckpointRow, from \in Nat :
              /\ ckpt' = ckpt \cup {k}
              /\ evidence' = EvidenceAfter(k.task, k.phase, k.config, from, k.items)
<1>1. CASE ApiStep
  <2>1. ASSUME NEW t \in Task, NEW c \in Config, CreateTask(t, c) \/ UpdateConfig(t, c)
        PROVE  ckpt' = ckpt /\ evidence' = evidence
    BY <2>1 DEF CreateTask, UpdateConfig
  <2>2. ASSUME NEW t \in Task,
               QueueTask(t) \/ RequestPause(t) \/ ResumeTask(t) \/ ReleaseReviewGate(t)
        PROVE  ckpt' = ckpt /\ evidence' = evidence
    BY <2>2 DEF QueueTask, RequestPause, ResumeTask, ReleaseReviewGate
  <2>3. ASSUME NEW t \in Task, NEW force \in BOOLEAN, RequestTerminate(t, force)
        PROVE  ckpt' = ckpt /\ evidence' = evidence
    BY <2>3 DEF RequestTerminate
  <2>4. ASSUME NEW t \in Task, NEW r \in Run,
               CompleteFirstCopyExport(t, r) \/ CreateExportRun(t, r)
        PROVE  ckpt' = ckpt /\ evidence' = evidence
    BY <2>4 DEF CompleteFirstCopyExport, CreateExportRun
  <2>5. ASSUME NEW t \in Task, DeleteTask(t)
        PROVE  /\ ckpt' = {k \in ckpt : k.task # t}
               /\ evidence' = [evidence EXCEPT
                                 ![t] = [p \in EVIDENCE_PHASES |-> NoEvidence]]
    BY <2>5 DEF DeleteTask
  <2> QED
    BY <1>1, <2>1, <2>2, <2>3, <2>4, <2>5 DEF ApiStep
<1>2. CASE LeaseExpires \/ RecoverStaleLeases
  BY <1>2 DEF LeaseExpires, RecoverStaleLeases
<1>3. ASSUME NEW w \in Worker, ClaimNext(w) \/ Crash(w)
      PROVE  ckpt' = ckpt /\ evidence' = evidence
  BY <1>3 DEF ClaimNext, Crash, db
<1>4. ASSUME NEW w \in Worker, ExportStep(w)
      PROVE  ckpt' = ckpt /\ evidence' = evidence
  BY <1>4 DEF ExportStep, RunStep, RunFail, RequeueExportRun
<1>5. ASSUME NEW w \in Worker, NEW delivered \in BOOLEAN,
             WorkBatch(w, delivered) \/ ControlBatch(w, delivered)
      PROVE  \E k \in CheckpointRow, from \in Nat :
               /\ ckpt' = ckpt \cup {k}
               /\ evidence' = EvidenceAfter(k.task, k.phase, k.config, from, k.items)
  <2>1. worker[w].items \in Nat /\ worker[w].items + 1 \in Nat
    BY DEF IInv, RowsTypeOK, WorkerMemory
  <2> QED
    BY <1>5, <2>1, CommitStores DEF WorkBatch, ControlBatch
<1>6. ASSUME NEW w \in Worker, PhaseStep(w),
             ~ \E delivered \in BOOLEAN : WorkBatch(w, delivered) \/ ControlBatch(w, delivered)
      PROVE  ckpt' = ckpt /\ evidence' = evidence
  BY <1>6 DEF PhaseStep, ReadResumePoint, db, ReplayBatch, CompletePhase, LeavePhase,
              FailWorker, PauseClaimedBeforeWork, HonorClaimedControlBeforeWork,
              RecoverWorkerAfterProcessStop, Surrender, NoticeStale
<1>7. CASE UNCHANGED vars
  BY <1>7 DEF vars
<1> QED
  BY <1>1, <1>2, <1>3, <1>4, <1>5, <1>6, <1>7 DEF Next

LEMMA ResultsInit == Init => RInv
<1> SUFFICES ASSUME Init PROVE RInv
  OBVIOUS
<1>1. ResultsTypeOK /\ EvidenceBacked
  BY DEF Init, ResultsTypeOK, EvidenceBacked, NoEvidence
<1> QED
  BY <1>1, InitSound DEF RInv

(* The results of one task in one phase, as a step leaves them.            *)
LEMMA StoredResults ==
  ASSUME RInv, NEW k \in CheckpointRow, NEW from \in Nat, ckpt' = ckpt \cup {k},
         evidence' = EvidenceAfter(k.task, k.phase, k.config, from, k.items)
  PROVE  ResultsTypeOK' /\ EvidenceBacked'
<1>1. /\ k.task \in Task /\ k.config \in Config
      /\ evidence \in [Task -> [EVIDENCE_PHASES -> [Unit -> Config \cup {None}]]]
  BY DEF RInv, ResultsTypeOK, CheckpointRow
<1>2. CASE k.phase \notin EVIDENCE_PHASES
  <2>1. evidence' = evidence
    BY <1>2 DEF EvidenceAfter
  <2> QED
    BY <2>1 DEF RInv, ResultsTypeOK, EvidenceBacked, Covered, Rows, Unit
<1>3. CASE k.phase \in EVIDENCE_PHASES
  <2> DEFINE old == evidence[k.task][k.phase]
             new == BatchWritten(old, k.config, from, k.items)
  <2>1. old \in [Unit -> Config \cup {None}]
    BY <1>1, <1>3
  <2>2. new \in [Unit -> Config \cup {None}]
    BY <1>1, <2>1 DEF BatchWritten
  <2>3. \A u \in Unit : \/ new[u] = k.config /\ u <= k.items
                        \/ new[u] \in {None, old[u]}
    BY DEF BatchWritten, Stores
  <2>4. evidence' = [evidence EXCEPT ![k.task][k.phase] = new]
    BY <1>3 DEF EvidenceAfter
  <2> HIDE DEF new
  <2>5. ResultsTypeOK'
    BY <1>1, <1>3, <2>2, <2>4 DEF ResultsTypeOK, Unit
  <2>6. ASSUME NEW t \in Task, NEW p \in EVIDENCE_PHASES, NEW u \in Unit,
               evidence'[t][p][u] # None
        PROVE  \E j \in ckpt' : /\ j.task = t /\ j.phase = p
                                /\ j.config = evidence'[t][p][u] /\ u <= j.items
    <3>1. CASE evidence'[t][p][u] = evidence[t][p][u]
      BY <2>6, <3>1 DEF RInv, EvidenceBacked, Covered, Rows
    <3>2. CASE evidence'[t][p][u] # evidence[t][p][u]
      <4>1. t = k.task /\ p = k.phase /\ evidence'[t][p][u] = new[u]
        BY <1>1, <1>3, <2>4, <3>2
      <4> QED
        BY <2>3, <2>6, <3>2, <4>1
    <3> QED
      BY <3>1, <3>2
  <2>7. EvidenceBacked'
    BY <2>6 DEF EvidenceBacked, Covered, Rows, Unit
  <2> QED
    BY <2>5, <2>7
<1> QED
  BY <1>2, <1>3

LEMMA ResultsNext == RInv /\ [Next]_vars => RInv'
<1> SUFFICES ASSUME RInv, [Next]_vars PROVE RInv'
  OBVIOUS
<1>1. IInv'
  BY NextSound DEF RInv
<1>2. CASE ckpt' = ckpt /\ evidence' = evidence
  BY <1>1, <1>2 DEF RInv, ResultsTypeOK, EvidenceBacked, Covered, Rows, Unit
<1>3. ASSUME NEW d \in Task, ckpt' = {k \in ckpt : k.task # d},
             evidence' = [evidence EXCEPT ![d] = [p \in EVIDENCE_PHASES |-> NoEvidence]]
      PROVE  ResultsTypeOK' /\ EvidenceBacked'
  <2>1. evidence \in [Task -> [EVIDENCE_PHASES -> [Unit -> Config \cup {None}]]]
    BY DEF RInv, ResultsTypeOK
  <2>2. [p \in EVIDENCE_PHASES |-> NoEvidence]
          \in [EVIDENCE_PHASES -> [Unit -> Config \cup {None}]]
    BY DEF NoEvidence
  <2>3. ResultsTypeOK'
    BY <1>3, <2>1, <2>2 DEF ResultsTypeOK, Unit
  <2>4. ASSUME NEW t \in Task, NEW p \in EVIDENCE_PHASES, NEW u \in Unit,
               evidence'[t][p][u] # None
        PROVE  \E j \in ckpt' : /\ j.task = t /\ j.phase = p
                                /\ j.config = evidence'[t][p][u] /\ u <= j.items
    <3>1. t # d /\ evidence'[t] = evidence[t]
      BY <1>3, <2>1, <2>4 DEF NoEvidence
    <3> QED
      BY <1>3, <2>4, <3>1 DEF RInv, EvidenceBacked, Covered, Rows
  <2>5. EvidenceBacked'
    BY <2>4 DEF EvidenceBacked, Covered, Rows, Unit
  <2> QED
    BY <2>3, <2>5
<1>4. ASSUME NEW k \in CheckpointRow, NEW from \in Nat, ckpt' = ckpt \cup {k},
             evidence' = EvidenceAfter(k.task, k.phase, k.config, from, k.items)
      PROVE  ResultsTypeOK' /\ EvidenceBacked'
  BY <1>4, StoredResults
<1> QED
  BY <1>1, <1>2, <1>3, <1>4, ResultsChange DEF RInv

LEMMA ResultsInvariance == Spec => []RInv
BY ResultsInit, ResultsNext, PTL DEF Spec

(* Every table and every worker's memory keep their types: a claim never   *)
(* puts a status into the tasks table that is not one, a commit never      *)
(* writes a checkpoint row without phase or config.                        *)
THEOREM TypeCorrect == Spec => []TypeOK
<1>1. RInv => TypeOK
  BY DEF RInv, IInv, TypeOK
<1> QED
  BY <1>1, ResultsInvariance, PTL

(* Result rows exist only for units that a checkpoint of the config they   *)
(* come from covers: the batch_writer's rows and the checkpoint of         *)
(* commit_batch are one transaction, whoever dies before or after it.      *)
THEOREM ResultsAreBacked == Spec => []EvidenceBacked
<1>1. RInv => EvidenceBacked
  BY DEF RInv
<1> QED
  BY <1>1, ResultsInvariance, PTL

-----------------------------------------------------------------------------
(* Checkpoints.                                                            *)

Working == {"queued", "paused"} \cup ActiveStatus

FinishedStatus == {"absent", "deleted", "draft", "failed", "terminated"}

(* Nothing is committed for a task before it exists, or under an epoch that*)
(* was not granted yet.                                                    *)
RowsBorn ==
  /\ \A t \in Task : task[t].status = "absent" => task[t].epoch = 0
  /\ \A k \in ckpt : /\ task[k.task].status # "absent"
                     /\ k.epoch <= task[k.task].epoch

SameGroup(j, k) == j.task = k.task /\ j.phase = k.phase /\ j.config = k.config

ChainMonotone ==
  \A j, k \in ckpt : SameGroup(j, k) /\ j.batch <= k.batch => j.items <= k.items

(* The position of a worker is the one the row before its next batch left. *)
Continues(m) ==
  \/ m.batch = 0 /\ m.items = 0
  \/ \E j \in Rows(m.target, m.phase, m.config) :
       j.batch + 1 = m.batch /\ j.items = m.items

HolderAt(w) ==
  LET m == worker[w] IN
    /\ m.phase = EffectivePhase(task[m.target])
    /\ m.config = task[m.target].config
    /\ m.stage = "running" =>
         /\ Continues(m)
         /\ \A k \in Rows(m.target, m.phase, m.config) :
              k.batch < m.batch \/ (k.batch = m.batch /\ k.epoch = m.epoch)

HolderPosition == \A w \in Worker : TokenValid(w) => HolderAt(w)

(* The progress of a row never runs ahead of the checkpoints of the phase  *)
(* and config it is for.                                                   *)
Backed(t) ==
  /\ task[t].status \in {"draft", "evidence_review"} => task[t].progress = 0
  /\ task[t].status \in Working =>
       \/ task[t].progress = 0
       \/ \E k \in Rows(t, Position(t), task[t].config) : task[t].progress <= k.items

ProgressBacked == \A t \in Task : Backed(t)

Passed(t, p) ==
  \/ NItems = 0
  \/ \E k \in ckpt : k.task = t /\ k.phase = p /\ k.items = NItems

PhasesPassed(t) ==
  task[t].status \notin FinishedStatus => \A p \in PhasesBefore(Position(t)) : Passed(t, p)

(* HolderNeverConflicts is not inductive: that the next batch index is free*)
(* needs the position to be the end of a chain, that it stays so needs the *)
(* chain to be monotone, and that a resumed worker is not behind the row's *)
(* progress needs the progress to be backed by the chain while nobody holds*)
(* the slot.                                                               *)
CInv ==
  /\ IInv
  /\ RowsBorn
  /\ CheckpointChain
  /\ ChainMonotone
  /\ HolderPosition
  /\ ProgressBacked
  /\ PhasesCovered

LEMMA CInvParts ==
  CInv <=> /\ IInv /\ RowsBorn /\ CheckpointChain /\ ChainMonotone
           /\ \A w \in Worker : TokenValid(w) => HolderAt(w)
           /\ \A t \in Task : Backed(t) /\ PhasesPassed(t)
BY DEF CInv, HolderPosition, ProgressBacked, PhasesCovered, PhasesPassed, Passed,
       FinishedStatus

LEMMA CInvPartsNext ==
  CInv' <=> /\ IInv' /\ RowsBorn' /\ CheckpointChain' /\ ChainMonotone'
            /\ \A w \in Worker : TokenValid(w)' => HolderAt(w)'
            /\ \A t \in Task : Backed(t)' /\ PhasesPassed(t)'
BY DEF CInv, HolderPosition, ProgressBacked, PhasesCovered, PhasesPassed, Passed,
       FinishedStatus

LEMMA CInvInit == Init => CInv
<1> SUFFICES ASSUME Init PROVE CInv
  OBVIOUS
<1>1. IInv
  BY InitSound
<1>2. RowsBorn /\ CheckpointChain /\ ChainMonotone
  BY DEF Init, NoRow, RowsBorn, CheckpointChain, ChainMonotone
<1>3. ASSUME NEW w \in Worker PROVE ~TokenValid(w)
  BY DEF Init, Idle, TokenValid
<1>4. ASSUME NEW t \in Task PROVE Backed(t) /\ PhasesPassed(t)
  BY DEF Init, NoRow, Backed, PhasesPassed, FinishedStatus
<1> QED
  BY <1>1, <1>2, <1>3, <1>4, CInvParts

-----------------------------------------------------------------------------
(* Steps that add no checkpoint.                                           *)

EpochsRaised ==
  /\ \A t \in Task : task[t].epoch <= task'[t].epoch
  /\ \A r \in Run  : run[r].epoch <= run'[r].epoch

(* Rows appear under epoch 0 and never become absent again.                *)
BirthKept ==
  \A t \in Task : task'[t].status = "absent" => task'[t] = task[t]

(* The row goes on with the same work, whoever does it.                    *)
KeepsWork(t) ==
  /\ task[t].status \in Working /\ task'[t].status \in Working
  /\ task'[t].config = task[t].config
  /\ task'[t].progress = task[t].progress
  /\ Position(t)' = Position(t)

Evolves(t) ==
  \/ task'[t] = task[t]
  \/ task'[t].status \in {"deleted", "failed", "terminated"}
  \/ KeepsWork(t)

LEMMA TokenIsLease ==
  ASSUME IInv, NEW w \in Worker
  PROVE  TokenValid(w) <=> /\ worker[w].stage \in {"claimed", "running"}
                           /\ lease.target = worker[w].target
                           /\ lease.owner = w
                           /\ lease.epoch = worker[w].epoch
                           /\ lease.live
BY IInvParts DEF TokenValid, MemoryOK, TaskSound, HasLease

LEMMA TokenIsLeaseNext ==
  ASSUME IInv', NEW w \in Worker
  PROVE  TokenValid(w)' <=> /\ worker'[w].stage \in {"claimed", "running"}
                            /\ lease'.target = worker'[w].target
                            /\ lease'.owner = w
                            /\ lease'.epoch = worker'[w].epoch
                            /\ lease'.live
BY IInvPartsNext DEF TokenValid, MemoryOK, TaskSound, HasLease

(* While a task is active the effective phase is its position.             *)
LEMMA ActivePosition ==
  ASSUME IInv, NEW t \in Task, task[t].status \in ActiveStatus
  PROVE  EffectivePhase(task[t]) = Position(t)
BY IInvParts DEF TaskSound, EffectivePhase, Position, ActiveStatus, CONTROL_STATES,
                 WORKER_PHASES

LEMMA ActivePositionNext ==
  ASSUME IInv', NEW t \in Task, task'[t].status \in ActiveStatus
  PROVE  EffectivePhase(task'[t]) = Position(t)'
BY IInvPartsNext DEF TaskSound, EffectivePhase, Position, ActiveStatus, CONTROL_STATES,
                     WORKER_PHASES

LEMMA EvolvesSound ==
  ASSUME CInv, NEW t \in Task, Evolves(t),
         \A k \in ckpt : k.task = t => k \in ckpt'
  PROVE  Backed(t)' /\ PhasesPassed(t)'
<1>1. Backed(t) /\ PhasesPassed(t)
  BY CInvParts
<1>2. \A p, c : Rows(t, p, c) \subseteq Rows(t, p, c)'
  BY DEF Rows
<1>3. \A p : Passed(t, p) => Passed(t, p)'
  BY DEF Passed
<1>4. CASE task'[t] = task[t]
  <2>1. Position(t)' = Position(t)
    BY <1>4 DEF Position
  <2> QED
    BY <1>1, <1>2, <1>3, <1>4, <2>1 DEF Backed, PhasesPassed
<1>5. CASE task'[t].status \in {"deleted", "failed", "terminated"}
  BY <1>5 DEF Backed, PhasesPassed, Working, FinishedStatus, ActiveStatus, WORKER_PHASES,
              CONTROL_STATES
<1>6. CASE KeepsWork(t)
  <2>1. Working \cap (FinishedStatus \cup {"draft", "evidence_review"}) = {}
    BY DEF Working, FinishedStatus, ActiveStatus, WORKER_PHASES, CONTROL_STATES
  <2> QED
    BY <1>1, <1>2, <1>3, <1>6, <2>1 DEF KeepsWork, Backed, PhasesPassed
<1> QED
  BY <1>4, <1>5, <1>6 DEF Evolves

(* A token that survives a step still stands where it stood.               *)
LEMMA TokenKept ==
  ASSUME CInv, IInv', NEW w \in Worker, TokenValid(w)', lease' = lease,
         worker'[w] = worker[w], ckpt' = ckpt, Evolves(worker[w].target)
  PROVE  HolderAt(w)'
<1>1. TokenValid(w)
  BY TokenIsLease, TokenIsLeaseNext DEF CInv
<1>2. PICK t \in Task : t = worker[w].target /\ task[t].status \in ActiveStatus
  BY <1>1, TokenHolds DEF CInv
<1>3. task'[t].status \in ActiveStatus
  BY <1>2, IInvPartsNext DEF TokenValid, TaskSound, HasLease
<1>4. Position(t)' = Position(t) /\ task'[t].config = task[t].config
  <2>1. ActiveStatus \cap {"deleted", "failed", "terminated"} = {}
    BY DEF ActiveStatus, WORKER_PHASES, CONTROL_STATES
  <2>2. CASE task'[t] = task[t]
    BY <2>2 DEF Position
  <2> QED
    BY <1>2, <1>3, <2>1, <2>2 DEF Evolves, KeepsWork
<1>5. EffectivePhase(task'[t]) = EffectivePhase(task[t])
  BY <1>2, <1>3, <1>4, ActivePosition, ActivePositionNext DEF CInv
<1>6. HolderAt(w)
  BY <1>1, CInvParts
<1> QED
  BY <1>2, <1>4, <1>5, <1>6, ZenonT(60) DEF HolderAt, Continues, Rows, EffectivePhase

LEMMA QuietStep ==
  ASSUME CInv, IInv', ckpt' = ckpt, EpochsRaised, BirthKept,
         \A t \in Task : Backed(t)' /\ PhasesPassed(t)',
         \A w \in Worker : TokenValid(w)' => HolderAt(w)'
  PROVE  CInv'
<1>1. RowsBorn'
  <2>1. \A t \in Task : task[t].epoch \in Nat /\ task'[t].epoch \in Nat
    BY DEF CInv, IInv, RowsTypeOK, TaskRow
  <2>2. \A k \in ckpt : k.task \in Task /\ k.epoch \in Nat
    BY DEF CInv, IInv, RowsTypeOK, CheckpointRow
  <2> QED
    BY <2>1, <2>2 DEF CInv, RowsBorn, EpochsRaised, BirthKept
<1>2. CheckpointChain' /\ ChainMonotone'
  BY DEF CInv, CheckpointChain, ChainMonotone, Rows
<1> QED
  BY <1>1, <1>2, CInvPartsNext

(* Every row evolves, and workers at most lose their token.                *)
LEMMA EvolvingStep ==
  ASSUME CInv, IInv', ckpt' = ckpt, EpochsRaised, BirthKept,
         \A t \in Task : Evolves(t),
         lease' = lease \/ ~lease'.live,
         \A w \in Worker : worker'[w] = worker[w] \/ worker'[w] = Idle
  PROVE  CInv'
<1>1. \A t \in Task : Backed(t)' /\ PhasesPassed(t)'
  BY EvolvesSound
<1>2. ASSUME NEW w \in Worker, TokenValid(w)' PROVE HolderAt(w)'
  <2>1. lease' = lease /\ worker'[w] = worker[w]
    BY <1>2 DEF TokenValid, Idle
  <2>2. worker[w].target \in Task
    BY <1>2, <2>1, IInvParts DEF CInv, TokenValid, MemoryOK
  <2> QED
    BY <1>2, <2>1, <2>2, TokenKept
<1> QED
  BY <1>1, <1>2, QuietStep

-----------------------------------------------------------------------------
(* Operations of the HTTP API.                                             *)

(* A call that writes one row of tasks and perhaps rows of export runs.    *)
LEMMA OneRowStep ==
  ASSUME CInv, IInv', NEW t \in Task,
         \A u \in Task \ {t} : task'[u] = task[u],
         Backed(t)' /\ PhasesPassed(t)',
         task[t].epoch <= task'[t].epoch,
         task'[t].status = "absent" => task'[t] = task[t],
         \A r \in Run : run'[r].epoch = run[r].epoch,
         lease' = lease \/ ~lease'.live,
         Evolves(t) \/ ~HasLease(t),
         ckpt' = ckpt,
         worker' = worker
  PROVE  CInv'
<1>1. EpochsRaised /\ BirthKept
  BY DEF EpochsRaised, BirthKept, CInv, IInv, RowsTypeOK, TaskRow, RunRow
<1>2. \A u \in Task : u # t => Evolves(u)
  BY DEF Evolves
<1>3. \A u \in Task : Backed(u)' /\ PhasesPassed(u)'
  BY <1>2, EvolvesSound
<1>4. ASSUME NEW w \in Worker, TokenValid(w)' PROVE HolderAt(w)'
  <2>1. lease' = lease /\ worker'[w] = worker[w]
    BY <1>4 DEF TokenValid
  <2>2. worker[w].target \in Task /\ HasLease(worker[w].target)
    BY <1>4, <2>1, IInvParts DEF CInv, TokenValid, MemoryOK, HasLease
  <2> QED
    BY <1>2, <1>4, <2>1, <2>2, TokenKept
<1> QED
  BY <1>1, <1>3, <1>4, QuietStep

LEMMA NotWorking ==
  /\ Working \cap (FinishedStatus \cup {"evidence_review", "completed"}) = {}
  /\ "evidence_review" \notin FinishedStatus /\ "completed" \notin FinishedStatus
BY DEF Working, FinishedStatus, ActiveStatus, WORKER_PHASES, CONTROL_STATES

LEMMA InactiveFree ==
  ASSUME IInv, NEW t \in Task, task[t].status \notin ActiveStatus
  PROVE  ~HasLease(t)
BY IInvParts DEF TaskSound

LEMMA CreateTaskKeeps ==
  ASSUME CInv, IInv', NEW t \in Task, NEW c \in Config, CreateTask(t, c) PROVE CInv'
<1>1. /\ \A u \in Task \ {t} : task'[u] = task[u]
      /\ task'[t].status = "draft" /\ task'[t].epoch = 0 /\ task'[t].progress = 0
      /\ task[t].epoch = 0
  BY DEF CreateTask, NoRow, CInv, IInv, RowsTypeOK, RowsBorn
<1>2. Backed(t)' /\ PhasesPassed(t)'
  BY <1>1, NotWorking DEF Backed, PhasesPassed, FinishedStatus
<1>3. ~HasLease(t)
  BY InactiveFree DEF CreateTask, CInv, ActiveStatus, WORKER_PHASES, CONTROL_STATES
<1> QED
  BY <1>1, <1>2, <1>3, OneRowStep DEF CreateTask

LEMMA UpdateConfigKeeps ==
  ASSUME CInv, IInv', NEW t \in Task, NEW c \in Config, UpdateConfig(t, c) PROVE CInv'
<1>1. /\ \A u \in Task \ {t} : task'[u] = task[u]
      /\ task'[t].status = task[t].status /\ task'[t].epoch = task[t].epoch
      /\ task'[t].resume = task[t].resume
      /\ task'[t].progress = 0 /\ task[t].status \in {"draft", "paused"}
      /\ task[t].epoch \in Nat
      /\ run' = run /\ lease' = lease /\ ckpt' = ckpt /\ worker' = worker
  BY DEF UpdateConfig, CInv, IInv, RowsTypeOK, TaskRow
<1>2. Backed(t)' /\ PhasesPassed(t)'
  <2>1. Position(t)' = Position(t) /\ \A p : Passed(t, p)' <=> Passed(t, p)
    BY <1>1 DEF Position, Passed
  <2> QED
    BY <1>1, <2>1, CInvParts DEF Backed, PhasesPassed
<1>3. ~HasLease(t)
  BY <1>1, InactiveFree DEF CInv, ActiveStatus, WORKER_PHASES, CONTROL_STATES
<1> QED
  BY <1>1, <1>2, <1>3, OneRowStep

LEMMA QueueTaskKeeps ==
  ASSUME CInv, IInv', NEW t \in Task, QueueTask(t) PROVE CInv'
<1>1. /\ \A u \in Task \ {t} : task'[u] = task[u]
      /\ task'[t].status = "queued" /\ task'[t].epoch = task[t].epoch
      /\ task'[t].resume = "scanning" /\ task'[t].progress = task[t].progress
      /\ task[t].status = "draft" /\ task[t].epoch \in Nat
      /\ run' = run /\ lease' = lease /\ ckpt' = ckpt /\ worker' = worker
  BY DEF QueueTask, CInv, IInv, RowsTypeOK, TaskRow
<1>2. Position(t)' = "scanning" /\ PhasesBefore("scanning") = {}
  BY <1>1, NoneAssumption DEF Position, PhasesBefore, WORKER_PHASES
<1>3. Backed(t)' /\ PhasesPassed(t)'
  BY <1>1, <1>2, CInvParts DEF Backed, PhasesPassed
<1>4. ~HasLease(t)
  BY <1>1, InactiveFree DEF CInv, ActiveStatus, WORKER_PHASES, CONTROL_STATES
<1> QED
  BY <1>1, <1>3, <1>4, OneRowStep

(* A call that leaves a task to the same work or ends it.                  *)
LEMMA EvolvingRow ==
  ASSUME CInv, IInv', NEW t \in Task,
         \A u \in Task \ {t} : task'[u] = task[u],
         Evolves(t),
         task[t].epoch <= task'[t].epoch,
         task'[t].status # "absent",
         \A r \in Run : run'[r].epoch = run[r].epoch,
         lease' = lease \/ ~lease'.live,
         ckpt' = ckpt,
         worker' = worker
  PROVE  CInv'
BY EvolvesSound, OneRowStep

LEMMA RequestPauseKeeps ==
  ASSUME CInv, IInv', NEW t \in Task, RequestPause(t) PROVE CInv'
<1>1. /\ \A u \in Task \ {t} : task'[u] = task[u]
      /\ task'[t].epoch = task[t].epoch /\ task[t].epoch \in Nat
      /\ task'[t].config = task[t].config /\ task'[t].progress = task[t].progress
  BY DEF RequestPause, CInv, IInv, RowsTypeOK, TaskRow
<1>2. task[t] \in TaskRow /\ TaskSound(t)
  BY IInvParts DEF CInv, RowsTypeOK
<1>3. CASE task[t].status = "queued" /\ task'[t].status = "paused"
  <2>1. task'[t].resume = task[t].resume /\ task[t].resume # None
    BY <1>2, <1>3 DEF RequestPause, TaskSound, WORKER_PHASES, CInv, IInv, RowsTypeOK, TaskRow
  <2>2. KeepsWork(t)
    BY <1>1, <1>3, <2>1 DEF KeepsWork, Working, Position
  <2> QED
    BY <1>1, <1>3, <2>2, EvolvingRow DEF RequestPause, Evolves
<1>4. CASE /\ task[t].status \in WORKER_PHASES
           /\ task'[t].status \in {"pausing", "paused"}
           /\ task'[t].resume = task[t].status
  <2>1. task[t].resume = None /\ task[t].status # None
    BY <1>2, <1>4, NoneAssumption DEF TaskSound, WORKER_PHASES, CONTROL_STATES
  <2>2. KeepsWork(t)
    BY <1>1, <1>4, <2>1
       DEF KeepsWork, Working, Position, ActiveStatus, CONTROL_STATES
  <2> QED
    BY <1>1, <1>4, <2>2, EvolvingRow DEF RequestPause, Evolves
<1> QED
  BY <1>3, <1>4 DEF RequestPause, CInv, IInv, RowsTypeOK, TaskRow

LEMMA ResumeTaskKeeps ==
  ASSUME CInv, IInv', NEW t \in Task, ResumeTask(t) PROVE CInv'
<1>1. TaskSound(t) /\ task[t].status = "paused"
  BY IInvParts DEF CInv, ResumeTask
<1>2. task[t].resume # None
  BY <1>1 DEF TaskSound
<1>3. /\ \A u \in Task \ {t} : task'[u] = task[u]
      /\ task'[t].epoch = task[t].epoch /\ task[t].epoch \in Nat
      /\ task'[t].config = task[t].config /\ task'[t].progress = task[t].progress
      /\ task'[t].status = "queued" /\ task'[t].resume = task[t].resume
      /\ run' = run /\ lease' = lease /\ ckpt' = ckpt /\ worker' = worker
  BY <1>2 DEF ResumeTask, CInv, IInv, RowsTypeOK, TaskRow
<1>4. KeepsWork(t)
  BY <1>1, <1>2, <1>3 DEF KeepsWork, Working, Position
<1> QED
  BY <1>3, <1>4, EvolvingRow DEF Evolves

LEMMA RequestTerminateKeeps ==
  ASSUME CInv, IInv', NEW t \in Task, NEW force \in BOOLEAN, RequestTerminate(t, force)
  PROVE  CInv'
<1>1. /\ \A u \in Task \ {t} : task'[u] = task[u]
      /\ task[t] \in TaskRow /\ TaskSound(t) /\ task[t].epoch \in Nat
      /\ run' = run /\ ckpt' = ckpt /\ worker' = worker
      /\ lease' = lease \/ ~lease'.live
  BY IInvParts DEF RequestTerminate, Released, NoLease, CInv, RowsTypeOK, TaskRow
<1>2. CASE task'[t].status = "terminated" /\ task'[t].epoch = task[t].epoch + 1
  BY <1>1, <1>2, EvolvingRow DEF Evolves
<1>3. CASE /\ task[t].status \in WORKER_PHASES \cup {"pausing"}
           /\ task' = [task EXCEPT
                         ![t].status = "terminating",
                         ![t].resume = IF task[t].status \in WORKER_PHASES
                                         THEN task[t].status ELSE task[t].resume]
  <2>1. /\ task'[t].status = "terminating" /\ task'[t].epoch = task[t].epoch
        /\ task'[t].config = task[t].config /\ task'[t].progress = task[t].progress
        /\ task'[t].resume = IF task[t].status \in WORKER_PHASES
                               THEN task[t].status ELSE task[t].resume
    BY <1>1, <1>3 DEF CInv, IInv, RowsTypeOK, TaskRow
  <2>2. /\ task[t].status \in WORKER_PHASES => task[t].resume = None
        /\ task[t].status = "pausing" => task[t].resume # None
    BY <1>1 DEF TaskSound, WORKER_PHASES, CONTROL_STATES
  <2>3. KeepsWork(t)
    BY <1>3, <2>1, <2>2, NoneAssumption
       DEF KeepsWork, Working, Position, ActiveStatus, CONTROL_STATES
  <2> QED
    BY <1>1, <2>1, <2>3, EvolvingRow DEF Evolves
<1> QED
  BY <1>1, <1>2, <1>3 DEF RequestTerminate, CInv, IInv, RowsTypeOK, TaskRow

(* A deleted task takes its checkpoints along, the other chains stay whole.*)
LEMMA DeleteTaskKeeps ==
  ASSUME CInv, IInv', NEW t \in Task, DeleteTask(t) PROVE CInv'
<1>1. /\ \A u \in Task \ {t} : task'[u] = task[u]
      /\ task'[t].status = "deleted" /\ task'[t].epoch = task[t].epoch
      /\ run' = run /\ lease' = lease /\ worker' = worker
      /\ ckpt' = {k \in ckpt : k.task # t}
  BY DEF DeleteTask, NoRow, CInv, IInv, RowsTypeOK
<1>2. \A u, p, c : u # t => Rows(u, p, c)' = Rows(u, p, c)
  BY <1>1 DEF Rows
<1>3. RowsBorn'
  BY <1>1 DEF CInv, RowsBorn, IInv, RowsTypeOK, CheckpointRow
<1>4. CheckpointChain'
  <2>1. ASSUME NEW k \in ckpt, k.task # t
        PROVE  \/ k.batch = 0 /\ k.items <= 1
               \/ \E j \in Rows(k.task, k.phase, k.config)' :
                    /\ j.batch + 1 = k.batch
                    /\ j.items <= k.items /\ k.items <= j.items + 1
                    /\ j.epoch <= k.epoch
    BY <1>2, <2>1 DEF CInv, CheckpointChain
  <2> QED
    BY <1>1, <2>1 DEF CInv, CheckpointChain
<1>5. ChainMonotone'
  BY <1>1 DEF CInv, ChainMonotone
<1>6. ASSUME NEW u \in Task PROVE Backed(u)' /\ PhasesPassed(u)'
  BY <1>1, EvolvesSound DEF Evolves, Backed, PhasesPassed, Working, FinishedStatus,
     ActiveStatus, WORKER_PHASES, CONTROL_STATES
<1>7. ASSUME NEW w \in Worker, TokenValid(w)' PROVE HolderAt(w)'
  <2>1. TokenValid(w)
    BY <1>1, <1>7, TokenIsLease, TokenIsLeaseNext DEF CInv
  <2>2. PICK u \in Task : u = worker[w].target /\ task[u].status \in ActiveStatus
    BY <2>1, TokenHolds DEF CInv
  <2>3. u # t
    BY <2>2 DEF DeleteTask, TERMINAL_STATES, ActiveStatus, WORKER_PHASES,
                CONTROL_STATES
  <2>4. task'[u] = task[u] /\ HolderAt(w)
    BY <1>1, <2>1, <2>3, CInvParts
  <2> QED
    BY <1>1, <1>2, <2>2, <2>3, <2>4 DEF HolderAt, Continues
<1> QED
  BY <1>3, <1>4, <1>5, <1>6, <1>7, CInvPartsNext

LEMMA ReleaseReviewGateKeeps ==
  ASSUME CInv, IInv', NEW t \in Task, ReleaseReviewGate(t) PROVE CInv'
<1>1. /\ \A u \in Task \ {t} : task'[u] = task[u]
      /\ task'[t].status = "queued" /\ task'[t].epoch = task[t].epoch
      /\ task'[t].resume = "exporting" /\ task'[t].progress = task[t].progress
      /\ task[t].status = "evidence_review" /\ task[t].epoch \in Nat
      /\ TaskSound(t)
      /\ run' = run /\ lease' = lease /\ ckpt' = ckpt /\ worker' = worker
  BY IInvParts DEF ReleaseReviewGate, GATE_NEXT, CInv, RowsTypeOK, TaskRow
<1>2. Position(t)' = "exporting" /\ Position(t) = "evidence_review"
  BY <1>1, NoneAssumption DEF Position, WORKER_PHASES, TaskSound, CONTROL_STATES
<1>3. PhasesBefore("exporting") = PhasesBefore("evidence_review")
  BY DEF PhasesBefore
<1>4. \A p : Passed(t, p)' <=> Passed(t, p)
  BY DEF Passed, ReleaseReviewGate
<1>5. Backed(t)' /\ PhasesPassed(t)'
  BY <1>1, <1>2, <1>3, <1>4, CInvParts, NotWorking DEF Backed, PhasesPassed
<1>6. ~HasLease(t)
  BY <1>1, InactiveFree DEF CInv, ActiveStatus, WORKER_PHASES, CONTROL_STATES
<1> QED
  BY <1>1, <1>5, <1>6, OneRowStep

LEMMA CompleteFirstCopyExportKeeps ==
  ASSUME CInv, IInv', NEW t \in Task, NEW r \in Run, CompleteFirstCopyExport(t, r)
  PROVE  CInv'
<1>1. /\ \A u \in Task \ {t} : task'[u] = task[u]
      /\ task'[t].status = "completed" /\ task'[t].epoch = task[t].epoch
      /\ task'[t].resume = None
      /\ task[t].status = "evidence_review" /\ task[t].epoch \in Nat
      /\ TaskSound(t)
      /\ \A q \in Run : run'[q].epoch = run[q].epoch
      /\ lease' = lease /\ ckpt' = ckpt /\ worker' = worker
  BY IInvParts DEF CompleteFirstCopyExport, CInv, RowsTypeOK, TaskRow, RunRow
<1>2. Position(t)' = "completed" /\ Position(t) = "evidence_review"
  BY <1>1 DEF Position, TaskSound, CONTROL_STATES
<1>3. PhasesBefore("completed") = PhasesBefore("evidence_review")
  BY DEF PhasesBefore
<1>4. \A p : Passed(t, p)' <=> Passed(t, p)
  BY DEF Passed, CompleteFirstCopyExport
<1>5. Backed(t)' /\ PhasesPassed(t)'
  BY <1>1, <1>2, <1>3, <1>4, CInvParts, NotWorking DEF Backed, PhasesPassed
<1>6. ~HasLease(t)
  BY <1>1, InactiveFree DEF CInv, ActiveStatus, WORKER_PHASES, CONTROL_STATES
<1> QED
  BY <1>1, <1>5, <1>6, OneRowStep

LEMMA CreateExportRunKeeps ==
  ASSUME CInv, IInv', NEW t \in Task, NEW r \in Run, CreateExportRun(t, r) PROVE CInv'
<1>1. /\ task' = task /\ lease' = lease /\ ckpt' = ckpt /\ worker' = worker
      /\ EpochsRaised
  BY DEF CreateExportRun, EpochsRaised, CInv, IInv, RowsTypeOK, TaskRow, RunRow
<1> QED
  BY <1>1, EvolvingStep DEF BirthKept, Evolves
-----------------------------------------------------------------------------
(* The worker slot.                                                        *)

LEMMA LeaseExpiresKeeps == ASSUME CInv, IInv', LeaseExpires PROVE CInv'
<1>1. ~lease'.live
  BY DEF LeaseExpires, CInv, IInv, RowsTypeOK, LeaseRow
<1>2. EpochsRaised /\ BirthKept /\ \A t \in Task : Evolves(t)
  BY DEF LeaseExpires, EpochsRaised, BirthKept, Evolves, CInv, IInv, RowsTypeOK, TaskRow,
         RunRow
<1> QED
  BY <1>1, <1>2, EvolvingStep DEF LeaseExpires

(* What a recovery does to the rows, before the grant that may follow it.  *)
LEMMA RecoveredChains ==
  ASSUME IInv
  PROVE  /\ \A t \in Task :
              /\ task[t].epoch <= TasksRecovered[t].epoch
              /\ \/ TasksRecovered[t] = task[t]
                 \/ TasksRecovered[t].status = "terminated"
                 \/ /\ TasksRecovered[t].status = "paused"
                    /\ task[t].status \in ActiveStatus
                    /\ TasksRecovered[t].resume = Position(t)
                    /\ Position(t) # None
                    /\ TasksRecovered[t].config = task[t].config
                    /\ TasksRecovered[t].progress = task[t].progress
         /\ \A r \in Run : run[r].epoch <= RunsRecovered[r].epoch
<1>1. ASSUME NEW t \in Task
      PROVE  TasksRecovered[t] = IF HasLease(t) THEN RecoveredTask(task[t]) ELSE task[t]
  BY DEF TasksRecovered, HasLease, IInv, RowsTypeOK
<1>2. ASSUME NEW r \in Run
      PROVE  RunsRecovered[r] = IF HasLease(r) THEN RecoveredRun(run[r]) ELSE run[r]
  BY DEF RunsRecovered, HasLease, IInv, RowsTypeOK
<1>3. ASSUME NEW r \in Run PROVE run[r].epoch <= RunsRecovered[r].epoch
  <2>1. run[r].epoch \in Nat
    BY DEF IInv, RowsTypeOK, RunRow
  <2>2. RecoveredRun(run[r]).epoch \in {run[r].epoch, run[r].epoch + 1}
    BY DEF RecoveredRun
  <2> QED
    BY <1>2, <2>1, <2>2
<1>4. ASSUME NEW t \in Task, HasLease(t)
      PROVE  /\ task[t].epoch <= RecoveredTask(task[t]).epoch
             /\ \/ RecoveredTask(task[t]).status = "terminated"
                \/ /\ RecoveredTask(task[t]).status = "paused"
                   /\ RecoveredTask(task[t]).resume = Position(t)
                   /\ Position(t) # None
                   /\ RecoveredTask(task[t]).config = task[t].config
                   /\ RecoveredTask(task[t]).progress = task[t].progress
  <2>1. /\ task[t] \in TaskRow /\ task[t].epoch \in Nat
        /\ task[t].status \in WORKER_PHASES \cup CONTROL_STATES
        /\ (task[t].resume # None) <=> task[t].status \in CONTROL_STATES
    BY <1>4, IInvParts
       DEF RowsTypeOK, TaskRow, TaskSound, ActiveStatus, WORKER_PHASES, CONTROL_STATES
  <2>2. {"terminating", "pausing"} \cap WORKER_PHASES = {}
    BY DEF WORKER_PHASES
  <2>3. CASE task[t].status = "terminating"
    BY <2>1, <2>3 DEF RecoveredTask, TaskRow
  <2>4. CASE task[t].status \in WORKER_PHASES
    <3>1. /\ task[t].resume = None /\ task[t].status # "terminating"
          /\ task[t].status # "pausing"
      BY <2>1, <2>2, <2>4 DEF CONTROL_STATES
    <3>2. RecoveredTask(task[t]) = [task[t] EXCEPT !.status = "paused",
                                      !.resume = task[t].status,
                                      !.epoch = task[t].epoch + 1]
      BY <2>4, <3>1 DEF RecoveredTask
    <3>3. Position(t) = task[t].status /\ task[t].status # None
      BY <2>4, <3>1, NoneAssumption DEF Position
    <3> QED
      BY <2>1, <3>2, <3>3 DEF TaskRow
  <2>5. CASE task[t].status = "pausing"
    <3>1. task[t].resume # None
      BY <2>1, <2>5 DEF CONTROL_STATES
    <3>2. RecoveredTask(task[t]) = [task[t] EXCEPT !.status = "paused",
                                      !.resume = task[t].resume,
                                      !.epoch = task[t].epoch + 1]
      BY <2>2, <2>5, <3>1 DEF RecoveredTask
    <3>3. Position(t) = task[t].resume
      BY <3>1 DEF Position
    <3> QED
      BY <2>1, <3>1, <3>2, <3>3 DEF TaskRow
  <2> QED
    BY <2>1, <2>3, <2>4, <2>5 DEF CONTROL_STATES
<1>5. ASSUME NEW t \in Task, ~HasLease(t)
      PROVE  task[t].epoch <= TasksRecovered[t].epoch /\ TasksRecovered[t] = task[t]
  BY <1>1, <1>5 DEF IInv, RowsTypeOK, TaskRow
<1>6. ASSUME NEW t \in Task, HasLease(t) PROVE task[t].status \in ActiveStatus
  BY <1>6, IInvParts DEF TaskSound
<1> QED
  BY <1>1, <1>3, <1>4, <1>5, <1>6

(* A row a recovery leaves behind, with its owner or without one.          *)
LEMMA RecoveredEvolves ==
  ASSUME IInv, NEW t \in Task, task'[t] = TasksRecovered[t]
  PROVE  /\ Evolves(t) /\ task[t].epoch <= task'[t].epoch
         /\ task'[t].status = "absent" => task'[t] = task[t]
<1>1. CASE task'[t] = task[t] \/ task'[t].status = "terminated"
  BY <1>1, RecoveredChains DEF Evolves
<1>2. CASE /\ task'[t].status = "paused"
           /\ task[t].status \in ActiveStatus
           /\ task'[t].resume = Position(t)
           /\ Position(t) # None
           /\ task'[t].config = task[t].config
           /\ task'[t].progress = task[t].progress
  <2>1. Position(t)' = Position(t)
    BY <1>2 DEF Position
  <2> QED
    BY <1>2, <2>1, RecoveredChains DEF Evolves, KeepsWork, Working
<1> QED
  BY <1>1, <1>2, RecoveredChains

LEMMA RecoveryKeeps ==
  ASSUME CInv, IInv', task' = TasksRecovered, run' = RunsRecovered, lease' = NoLease,
         UNCHANGED <<ckpt, worker>>
  PROVE  CInv'
<1>1. EpochsRaised /\ BirthKept /\ \A t \in Task : Evolves(t)
  BY RecoveredEvolves, RecoveredChains DEF CInv, EpochsRaised, BirthKept
<1> QED
  BY <1>1, EvolvingStep DEF NoLease

LEMMA GrantTaskKeeps ==
  ASSUME CInv, IInv', NEW w \in Worker, NEW t \in Task,
         TasksRecovered[t].status = "queued", GrantTask(w, t), ckpt' = ckpt
  PROVE  CInv'
<1>1. TasksRecovered[t] = task[t]
  BY RecoveredChains DEF CInv
<1>2. /\ task[t] \in TaskRow /\ task[t].status = "queued"
      /\ task[t].resume \in WORKER_PHASES /\ task[t].resume # None
      /\ task[t].epoch \in Nat
  BY <1>1, IInvParts, NoneAssumption DEF CInv, RowsTypeOK, TaskRow, TaskSound
<1>3. /\ task'[t].status = task[t].resume /\ task'[t].resume = None
      /\ task'[t].epoch = task[t].epoch + 1 /\ task'[t].config = task[t].config
      /\ task'[t].progress = task[t].progress
      /\ \A u \in Task \ {t} : task'[u] = TasksRecovered[u]
  BY <1>1, <1>2, TasksRecoveredSound DEF GrantTask, NextEpoch, TaskRow, CInv
<1>4. KeepsWork(t)
  BY <1>2, <1>3 DEF KeepsWork, Working, Position, ActiveStatus
<1>5. \A u \in Task : Evolves(u)
  BY <1>3, <1>4, RecoveredEvolves DEF Evolves, CInv
<1>6. \A u \in Task : Backed(u)' /\ PhasesPassed(u)'
  BY <1>5, EvolvesSound
<1>7. EpochsRaised
  <2>1. \A u \in Task \ {t} : task[u].epoch <= task'[u].epoch
    BY <1>3, RecoveredChains DEF CInv
  <2>2. task[t].epoch <= task'[t].epoch
    BY <1>2, <1>3
  <2> QED
    BY <2>1, <2>2, RecoveredChains DEF CInv, EpochsRaised, GrantTask
<1>8. BirthKept
  <2>1. task'[t].status # "absent"
    BY <1>2, <1>3 DEF WORKER_PHASES
  <2> QED
    BY <1>3, <2>1, RecoveredEvolves DEF BirthKept, CInv
<1>9. ASSUME NEW v \in Worker, TokenValid(v)' PROVE HolderAt(v)'
  <2>1. v = w
    BY <1>9 DEF GrantTask, TokenValid
  <2>2. /\ worker'[w].stage = "claimed" /\ worker'[w].target = t
        /\ worker'[w].phase = task[t].resume /\ worker'[w].config = task[t].config
    BY <1>1 DEF GrantTask, CInv, IInv, RowsTypeOK
  <2>3. EffectivePhase(task'[t]) = task[t].resume
    BY <1>2, <1>3 DEF EffectivePhase, CONTROL_STATES, WORKER_PHASES
  <2> QED
    BY <1>3, <2>1, <2>2, <2>3 DEF HolderAt
<1> QED
  BY <1>6, <1>7, <1>8, <1>9, QuietStep

LEMMA GrantRunKeeps ==
  ASSUME CInv, IInv', NEW w \in Worker, NEW r \in Run, GrantRun(w, r), ckpt' = ckpt
  PROVE  CInv'
<1>1. \A u \in Task : Evolves(u) /\ task[u].epoch <= task'[u].epoch
  BY RecoveredEvolves DEF CInv, GrantRun
<1>2. BirthKept
  BY RecoveredEvolves DEF CInv, GrantRun, BirthKept
<1>3. EpochsRaised
  <2>1. RunsRecovered[r] \in RunRow /\ run[r] \in RunRow
    BY RunsRecoveredSound DEF CInv, IInv, RowsTypeOK
  <2>2. run'[r].epoch = RunsRecovered[r].epoch + 1
    BY RunsRecoveredSound DEF GrantRun, NextEpoch, CInv
  <2>3. \A q \in Run \ {r} : run'[q] = RunsRecovered[q]
    BY RunsRecoveredSound DEF GrantRun, CInv
  <2>4. run[r].epoch <= run'[r].epoch
    BY <2>1, <2>2, RecoveredChains DEF RunRow, CInv
  <2> QED
    BY <1>1, <2>3, <2>4, RecoveredChains DEF EpochsRaised, CInv
<1>4. \A v \in Worker : ~TokenValid(v)'
  <2>1. lease'.target = r /\ IInv'
    BY DEF GrantRun
  <2> QED
    BY <2>1, IdAssumption, IInvPartsNext DEF TokenValid, MemoryOK
<1> QED
  BY <1>1, <1>2, <1>3, <1>4, EvolvesSound, QuietStep

LEMMA ClaimNextKeeps ==
  ASSUME CInv, IInv', NEW w \in Worker, ClaimNext(w) PROVE CInv'
<1> DEFINE queuedTasks == {t \in Task : TasksRecovered[t].status = "queued"}
           queuedRuns  == {r \in Run : RunsRecovered[r].status = "queued"}
<1>0. ckpt' = ckpt
  BY DEF ClaimNext
<1>1. CASE \E t \in queuedTasks : GrantTask(w, t)
  BY <1>0, <1>1, GrantTaskKeeps
<1>2. CASE \E r \in queuedRuns : GrantRun(w, r)
  BY <1>0, <1>2, GrantRunKeeps
<1>3. CASE /\ task' = TasksRecovered /\ run' = RunsRecovered
           /\ lease' = NoLease /\ UNCHANGED worker
  BY <1>0, <1>3, RecoveryKeeps
<1> QED
  BY <1>1, <1>2, <1>3 DEF ClaimNext

LEMMA RecoverStaleLeasesKeeps == ASSUME CInv, IInv', RecoverStaleLeases PROVE CInv'
BY RecoveryKeeps DEF RecoverStaleLeases
-----------------------------------------------------------------------------
(* Calls of a worker.                                                      *)

(* What a valid token says about the chain its worker extends.             *)
LEMMA EndOfChain ==
  ASSUME CInv, NEW w \in Worker, TokenValid(w)
  PROVE  LET m == worker[w] IN
           /\ m.target \in Task /\ m.phase \in WORKER_PHASES /\ m.config \in Config
           /\ m.phase = Position(m.target) /\ m.config = task[m.target].config
           /\ m.epoch = task[m.target].epoch
           /\ m.batch \in Nat /\ m.items \in Nat
           /\ task[m.target] \in TaskRow /\ task[m.target].status \in ActiveStatus
           /\ m.stage = "running" =>
                \A k \in Rows(m.target, m.phase, m.config) :
                  /\ k.batch \in Nat /\ k.items \in Nat /\ k.epoch \in Nat
                  /\ k.epoch <= m.epoch
                  /\ k.batch < m.batch \/ (k.batch = m.batch /\ k.epoch = m.epoch)
                  /\ k.batch < m.batch => k.items <= m.items
<1> DEFINE m == worker[w]
<1>1. PICK t \in Task : t = m.target /\ task[t].status \in ActiveStatus
  BY TokenHolds DEF CInv
<1>2. /\ m \in WorkerMemory /\ m.phase # None /\ m.config # None
      /\ m.epoch = task[t].epoch
  BY <1>1, IInvParts DEF CInv, TokenValid, MemoryOK
<1>3. HolderAt(w)
  BY CInvParts
<1>4. m.phase = Position(t) /\ m.config = task[t].config
  BY <1>1, <1>3, ActivePosition DEF CInv, HolderAt
<1>5. ASSUME m.stage = "running", NEW k \in Rows(t, m.phase, m.config)
      PROVE  /\ k.batch \in Nat /\ k.items \in Nat /\ k.epoch \in Nat
             /\ k.epoch <= m.epoch
             /\ k.batch < m.batch \/ (k.batch = m.batch /\ k.epoch = m.epoch)
             /\ k.batch < m.batch => k.items <= m.items
  <2>1. k \in CheckpointRow /\ k \in ckpt
    BY DEF Rows, CInv, IInv, RowsTypeOK
  <2>2. k.epoch <= m.epoch
    BY <1>2, <2>1 DEF CInv, RowsBorn, Rows
  <2>3. k.batch < m.batch \/ (k.batch = m.batch /\ k.epoch = m.epoch)
    BY <1>1, <1>3, <1>5 DEF HolderAt
  <2>4. ASSUME k.batch < m.batch PROVE k.items <= m.items
    <3>1. m.batch # 0
      BY <2>1, <2>4 DEF CheckpointRow
    <3>2. PICK j \in Rows(t, m.phase, m.config) :
            j.batch + 1 = m.batch /\ j.items = m.items
      BY <1>1, <1>3, <1>5, <3>1 DEF HolderAt, Continues
    <3>3. j \in ckpt /\ j \in CheckpointRow /\ SameGroup(k, j)
      BY DEF Rows, SameGroup, CInv, IInv, RowsTypeOK
    <3>4. k.batch <= j.batch
      BY <1>2, <2>1, <2>4, <3>2, <3>3 DEF CheckpointRow, WorkerMemory
    <3> QED
      BY <2>1, <3>2, <3>3, <3>4 DEF CInv, ChainMonotone
  <2> QED
    BY <2>1, <2>2, <2>3, <2>4 DEF CheckpointRow
<1> QED
  BY <1>1, <1>2, <1>4, <1>5 DEF WorkerMemory, CInv, IInv, RowsTypeOK

(* Its task is not ahead of it unless its own last call went unanswered.   *)
LEMMA NotBehind ==
  ASSUME CInv, NEW w \in Worker, TokenValid(w), worker[w].stage = "running"
  PROVE  LET m == worker[w] IN
           \/ task[m.target].progress <= m.items
           \/ \E k \in Rows(m.target, m.phase, m.config) : k.batch = m.batch
<1> DEFINE m == worker[w]
           t == m.target
<1>1. t \in Task /\ task[t].status \in Working /\ task[t].progress \in Nat
      /\ m.items \in Nat
  BY EndOfChain DEF Working, TaskRow
<1>2. CASE task[t].progress = 0
  BY <1>1, <1>2
<1>3. CASE \E k \in Rows(t, Position(t), task[t].config) : task[t].progress <= k.items
  <2>1. PICK k \in Rows(t, m.phase, m.config) : task[t].progress <= k.items
    BY <1>3, EndOfChain
  <2> QED
    BY <1>1, <2>1, EndOfChain
<1> QED
  BY <1>1, <1>2, <1>3, CInvParts DEF Backed

LEMMA ReadResumePointKeeps ==
  ASSUME CInv, IInv', NEW w \in Worker, ReadResumePoint(w) PROVE CInv'
<1> DEFINE m == worker[w]
<1>1. PICK batch \in 0..(NItems + MaxControl), items \in 0..NItems :
        /\ IsResumePoint(m.target, m.phase, m.config, batch, items)
        /\ worker' = [worker EXCEPT ![w].stage = "running",
                                    ![w].batch = batch, ![w].items = items]
  BY DEF ReadResumePoint
<1>2. /\ m.stage = "claimed" /\ task' = task /\ run' = run /\ lease' = lease
      /\ ckpt' = ckpt
  BY DEF ReadResumePoint, db
<1>3. /\ worker'[w].target = m.target /\ worker'[w].epoch = m.epoch
      /\ worker'[w].phase = m.phase /\ worker'[w].config = m.config
      /\ worker'[w].batch = batch /\ worker'[w].items = items
      /\ \A v \in Worker \ {w} : worker'[v] = worker[v]
  BY <1>1 DEF CInv, IInv, RowsTypeOK, WorkerMemory
<1>4. EpochsRaised /\ BirthKept /\ \A t \in Task : Evolves(t)
  BY <1>2 DEF EpochsRaised, BirthKept, Evolves, CInv, IInv, RowsTypeOK, TaskRow, RunRow
<1>5. ASSUME NEW v \in Worker, TokenValid(v)' PROVE HolderAt(v)'
  <2>1. CASE v = w
    <3>1. TokenValid(w)
      BY <1>2, <1>3, <1>5, <2>1 DEF TokenValid
    <3>2. HolderAt(w)
      BY <3>1, CInvParts
    <3> DEFINE rows == Rows(m.target, m.phase, m.config)
    <3>3. \A k \in rows : k.batch \in Nat
      BY DEF Rows, CInv, IInv, RowsTypeOK, CheckpointRow
    <3>4. /\ \/ batch = 0 /\ items = 0
             \/ \E j \in rows : j.batch + 1 = batch /\ j.items = items
          /\ \A k \in rows : k.batch < batch
      BY <1>1, <3>3 DEF IsResumePoint
    <3> QED
      BY <1>2, <1>3, <2>1, <3>2, <3>4, ZenonT(60)
         DEF HolderAt, Continues, Rows, EffectivePhase
  <2>2. CASE v # w
    <3>1. worker'[v] = worker[v]
      BY <1>3, <2>2
    <3>2. worker[v].target \in Task
      BY <1>5, <3>1, IInvParts DEF CInv, TokenValid, MemoryOK
    <3> QED
      BY <1>2, <1>4, <1>5, <3>1, <3>2, TokenKept
  <2> QED
    BY <2>1, <2>2
<1> QED
  BY <1>2, <1>4, <1>5, EvolvesSound, QuietStep

(* A step that at most idles one worker.                                   *)
LEMMA IdleStep ==
  ASSUME CInv, IInv', UNCHANGED db,
         \A w \in Worker : worker'[w] = worker[w] \/ worker'[w] = Idle
  PROVE  CInv'
<1>1. task' = task /\ run' = run /\ lease' = lease /\ ckpt' = ckpt
  BY DEF db
<1>2. EpochsRaised /\ BirthKept /\ \A t \in Task : Evolves(t)
  BY <1>1 DEF EpochsRaised, BirthKept, Evolves, CInv, IInv, RowsTypeOK, TaskRow, RunRow
<1> QED
  BY <1>1, <1>2, EvolvingStep

LEMMA OneIdle ==
  ASSUME CInv, NEW w \in Worker, worker' = [worker EXCEPT ![w] = Idle]
  PROVE  \A v \in Worker : worker'[v] = worker[v] \/ worker'[v] = Idle
BY DEF CInv, IInv, RowsTypeOK

LEMMA NoticeStaleKeeps ==
  ASSUME CInv, IInv', NEW w \in Worker, NoticeStale(w) PROVE CInv'
BY OneIdle, IdleStep DEF NoticeStale

LEMMA CrashKeeps == ASSUME CInv, IInv', NEW w \in Worker, Crash(w) PROVE CInv'
BY OneIdle, IdleStep DEF Crash

(* The holder leaves the slot with its work ended or to be resumed.        *)
LEMMA SurrenderKeeps ==
  ASSUME CInv, IInv', NEW w \in Worker, TokenValid(w), NEW row \in TaskRow,
         LET old == task[worker[w].target] IN
           /\ old.epoch <= row.epoch
           /\ \/ row.status \in {"failed", "terminated"}
              \/ /\ row.status = "paused"
                 /\ row.resume = Position(worker[w].target)
                 /\ row.config = old.config /\ row.progress = old.progress,
         task' = [task EXCEPT ![worker[w].target] = row],
         lease' = NoLease, run' = run, ckpt' = ckpt,
         worker' = [worker EXCEPT ![w] = Idle]
  PROVE  CInv'
<1>1. PICK t \in Task : t = worker[w].target
  BY EndOfChain
<1>2. task'[t] = row /\ \A u \in Task \ {t} : task'[u] = task[u]
  BY <1>1 DEF CInv, IInv, RowsTypeOK
<1>3. task[t].status \in ActiveStatus /\ Position(t) \in WORKER_PHASES
  BY <1>1, EndOfChain
<1>4. Evolves(t)
  <2>1. CASE row.status \in {"failed", "terminated"}
    BY <1>2, <2>1 DEF Evolves
  <2>2. CASE row.status = "paused" /\ row.resume = Position(t)
             /\ row.config = task[t].config /\ row.progress = task[t].progress
    <3>1. Position(t)' = Position(t)
      BY <1>2, <1>3, <2>2, NoneAssumption DEF Position
    <3> QED
      BY <1>2, <1>3, <2>2, <3>1 DEF Evolves, KeepsWork, Working
  <2> QED
    BY <1>1, <2>1, <2>2
<1>5. EpochsRaised
  <2>1. \A u \in Task : task[u].epoch \in Nat
    BY DEF CInv, IInv, RowsTypeOK, TaskRow
  <2>2. \A r \in Run : run[r].epoch \in Nat
    BY DEF CInv, IInv, RowsTypeOK, RunRow
  <2> QED
    BY <1>1, <1>2, <2>1, <2>2 DEF EpochsRaised
<1>6. BirthKept /\ \A u \in Task : Evolves(u)
  BY <1>1, <1>2, <1>4 DEF BirthKept, Evolves
<1> QED
  BY <1>5, <1>6, OneIdle, EvolvingStep DEF NoLease

LEMMA ControlAppliedRow ==
  ASSUME NEW row \in TaskRow, row.status \in CONTROL_STATES
  PROVE  LET new == ControlApplied(row) IN
           /\ new.epoch \in {row.epoch, row.epoch + 1}
           /\ new.progress = row.progress /\ new.config = row.config
           /\ \/ new.status = "terminated"
              \/ new.status = "paused" /\ new.resume = row.resume
BY DEF ControlApplied, TaskRow, CONTROL_STATES

(* The holder carries out the request that is pending.                     *)
LEMMA ControlKeeps ==
  ASSUME CInv, IInv', NEW w \in Worker, TokenValid(w),
         task[worker[w].target].status \in CONTROL_STATES,
         task' = [task EXCEPT ![worker[w].target] =
                    ControlApplied(task[worker[w].target])],
         lease' = NoLease, run' = run, ckpt' = ckpt,
         worker' = [worker EXCEPT ![w] = Idle]
  PROVE  CInv'
<1>1. PICK t \in Task, row \in TaskRow : t = worker[w].target /\ row = task[t]
  BY EndOfChain
<1>2. PICK new : new = ControlApplied(row)
  OBVIOUS
<1>3. row.resume = Position(t) /\ row.resume # None /\ row.config # None
  BY <1>1, TokenHolds DEF CInv, Position
<1>4. new \in TaskRow
  BY <1>1, <1>2, <1>3, ControlAppliedSound
<1>5. /\ row.epoch <= new.epoch
      /\ \/ new.status \in {"failed", "terminated"}
         \/ /\ new.status = "paused" /\ new.resume = Position(t)
            /\ new.config = row.config /\ new.progress = row.progress
  BY <1>1, <1>2, <1>3, ControlAppliedRow DEF TaskRow
<1> QED
  BY <1>1, <1>2, <1>4, <1>5, SurrenderKeeps

LEMMA FailWorkerKeeps ==
  ASSUME CInv, IInv', NEW w \in Worker, FailWorker(w) PROVE CInv'
<1> DEFINE row == task[worker[w].target]
<1>1. PICK new : new = [row EXCEPT !.status = "failed", !.resume = None,
                                   !.epoch = row.epoch + 1]
  OBVIOUS
<1>2. TokenValid(w) /\ Surrender(w, new)
  BY <1>1 DEF FailWorker
<1>3. row \in TaskRow /\ row.epoch \in Nat /\ row.epoch + 1 \in Nat
  BY <1>2, EndOfChain DEF TaskRow
<1>4. new \in TaskRow /\ new.status = "failed" /\ new.epoch = row.epoch + 1
  BY <1>1, <1>3, StatusFacts DEF TaskRow
<1>5. row.epoch <= new.epoch
  BY <1>3, <1>4
<1>6. /\ task' = [task EXCEPT ![worker[w].target] = new]
      /\ lease' = NoLease /\ run' = run /\ ckpt' = ckpt
      /\ worker' = [worker EXCEPT ![w] = Idle]
  BY <1>2, TokenHolds DEF Surrender, Released, CInv
<1> QED
  BY <1>2, <1>4, <1>5, <1>6, SurrenderKeeps

LEMMA PauseClaimedKeeps ==
  ASSUME CInv, IInv', NEW w \in Worker, PauseClaimedBeforeWork(w) PROVE CInv'
<1>1. PICK t \in Task : t = worker[w].target /\ task[t].status \in ActiveStatus
  BY TokenHolds DEF CInv, PauseClaimedBeforeWork
<1>2. PICK phase : phase = EffectivePhase(task[t])
  OBVIOUS
<1>3. PICK new : new = [task[t] EXCEPT !.status = "paused", !.resume = phase]
  OBVIOUS
<1>4. TokenValid(w) /\ Surrender(w, new)
  BY <1>1, <1>2, <1>3 DEF PauseClaimedBeforeWork
<1>5. phase = Position(t) /\ phase \in WORKER_PHASES /\ task[t] \in TaskRow
  BY <1>1, <1>2, <1>4, ActivePosition, EndOfChain DEF CInv
<1>6. /\ new \in TaskRow /\ new.status = "paused" /\ new.resume = phase
      /\ new.epoch = task[t].epoch
      /\ new.config = task[t].config
      /\ new.progress = task[t].progress
  BY <1>3, <1>5, StatusFacts DEF TaskRow
<1>7. task[t].epoch <= new.epoch
  BY <1>5, <1>6 DEF TaskRow
<1>8. /\ task' = [task EXCEPT ![worker[w].target] = new]
      /\ lease' = NoLease /\ run' = run /\ ckpt' = ckpt
      /\ worker' = [worker EXCEPT ![w] = Idle]
  BY <1>4, TokenHolds DEF Surrender, Released, CInv
<1> QED
  BY <1>1, <1>4, <1>5, <1>6, <1>7, <1>8, SurrenderKeeps

LEMMA HonorClaimedControlKeeps ==
  ASSUME CInv, IInv', NEW w \in Worker, HonorClaimedControlBeforeWork(w) PROVE CInv'
BY TokenHolds, ControlKeeps DEF HonorClaimedControlBeforeWork, Surrender, Released, CInv

LEMMA RecoverWorkerKeeps ==
  ASSUME CInv, IInv', NEW w \in Worker, RecoverWorkerAfterProcessStop(w) PROVE CInv'
BY TokenHolds, ControlKeeps DEF RecoverWorkerAfterProcessStop, Surrender, Released, CInv

-----------------------------------------------------------------------------
(* Steps that add a checkpoint.                                            *)

(* What a commit by the holder w leaves of the row of its task t.          *)
CommitLeaves(w, t, items, completed) ==
  /\ \A u \in Task \ {t} : task'[u] = task[u]
  /\ task'[t].epoch \in {task[t].epoch, task[t].epoch + 1}
  /\ task'[t].config = task[t].config
  /\ task'[t].progress = completed
  /\ \/ /\ task'[t].status = "terminated" /\ lease' = NoLease
     \/ /\ task'[t].status = "paused" /\ lease' = NoLease
        /\ Position(t)' = Position(t)
     \/ /\ task'[t].status = task[t].status /\ lease' = lease
        /\ task'[t].epoch = task[t].epoch
        /\ Position(t)' = Position(t)
        /\ EffectivePhase(task'[t]) = EffectivePhase(task[t])
        /\ \/ worker' = worker
           \/ worker' = [worker EXCEPT ![w] =
                           [worker[w] EXCEPT !.batch = worker[w].batch + 1,
                                             !.items = items]]
  /\ \A v \in Worker \ {w} : worker'[v] = worker[v]

LEMMA CommittedRow ==
  ASSUME CInv, NEW w \in Worker, NEW items \in Nat, NEW completed \in Nat,
         NEW delivered \in BOOLEAN, CommitBatch(w, items, completed, delivered),
         NEW t \in Task, t = worker[w].target
  PROVE  CommitLeaves(w, t, items, completed)
<1>1. PICK stamped : stamped = [task[t] EXCEPT !.progress = completed]
  OBVIOUS
<1>2. /\ task[t] \in TaskRow /\ task \in [Task -> TaskRow]
      /\ worker \in [Worker -> WorkerMemory]
  BY DEF CInv, IInv, RowsTypeOK
<1>3. /\ stamped \in TaskRow /\ stamped.status = task[t].status
      /\ stamped.resume = task[t].resume /\ stamped.config = task[t].config
      /\ stamped.epoch = task[t].epoch /\ stamped.progress = completed
  BY <1>1, <1>2 DEF TaskRow
<1>4. \A v \in Worker \ {w} : worker'[v] = worker[v]
  BY <1>2 DEF CommitBatch
<1>5. CASE task[t].status \in CONTROL_STATES
  <2>1. /\ task' = [task EXCEPT ![t] = ControlApplied(stamped)] /\ lease' = NoLease
    BY <1>1, <1>5 DEF CommitBatch
  <2>2. PICK row : row = ControlApplied(stamped)
    OBVIOUS
  <2>3. /\ task'[t] = row
        /\ \A u \in Task \ {t} : task'[u] = task[u]
    BY <1>2, <2>1, <2>2
  <2>4. /\ row.epoch \in {task[t].epoch, task[t].epoch + 1}
        /\ row.progress = completed /\ row.config = task[t].config
        /\ \/ row.status = "terminated"
           \/ row.status = "paused" /\ row.resume = task[t].resume
    BY <1>3, <1>5, <2>2, ControlAppliedRow
  <2>5. TokenValid(w)
    BY DEF CommitBatch
  <2>6. task[t].resume # None
    BY <1>5, <2>5, TokenHolds DEF CInv
  <2>7. row.status = "paused" => Position(t)' = Position(t)
    BY <2>3, <2>4, <2>6 DEF Position
  <2> QED
    BY <1>4, <2>1, <2>3, <2>4, <2>7 DEF CommitLeaves
<1>6. CASE task[t].status \notin CONTROL_STATES
  <2>1. /\ task' = [task EXCEPT ![t] = stamped] /\ lease' = lease
        /\ \/ worker' = worker
           \/ worker' = [worker EXCEPT ![w] =
                           [worker[w] EXCEPT !.batch = worker[w].batch + 1,
                                             !.items = items]]
    BY <1>1, <1>6 DEF CommitBatch
  <2>2. /\ task'[t] = stamped
        /\ \A u \in Task \ {t} : task'[u] = task[u]
    BY <1>2, <2>1
  <2>3. Position(t)' = Position(t)
    BY <1>3, <2>2 DEF Position
  <2>4. EffectivePhase(stamped) = EffectivePhase(task[t])
    BY <1>3 DEF EffectivePhase
  <2> QED
    BY <1>3, <1>4, <2>1, <2>2, <2>3, <2>4 DEF CommitLeaves
<1> QED
  BY <1>5, <1>6

(* The new row continues the chain of its group.                           *)
LEMMA ChainExtended ==
  ASSUME CInv, NEW w \in Worker, NEW items \in Nat, TokenValid(w),
         worker[w].stage = "running",
         worker[w].items <= items, items <= worker[w].items + 1,
         NEW new \in CheckpointRow,
         /\ new.task = worker[w].target /\ new.phase = worker[w].phase
         /\ new.config = worker[w].config /\ new.batch = worker[w].batch
         /\ new.items = items /\ new.epoch = worker[w].epoch,
         \A k \in Rows(worker[w].target, worker[w].phase, worker[w].config) :
           k.batch # worker[w].batch,
         ckpt' = ckpt \cup {new}
  PROVE  CheckpointChain' /\ ChainMonotone'
<1>1. PICK m \in WorkerMemory : m = worker[w]
  BY DEF CInv, IInv, RowsTypeOK
<1>2. /\ m.batch \in Nat /\ m.items \in Nat /\ new.batch \in Nat /\ new.items \in Nat
  BY <1>1 DEF WorkerMemory, CheckpointRow
<1>3. \A k \in ckpt : /\ k.batch \in Nat /\ k.items \in Nat /\ k.epoch \in Nat
                      /\ k \in CheckpointRow
  BY DEF CInv, IInv, RowsTypeOK, CheckpointRow
<1>4. ASSUME NEW k \in ckpt, SameGroup(k, new)
      PROVE  k.batch < new.batch /\ k.items <= m.items /\ k.epoch <= new.epoch
  <2>1. k \in Rows(m.target, m.phase, m.config)
    BY <1>1, <1>4 DEF Rows, SameGroup
  <2> QED
    BY <1>1, <2>1, EndOfChain
<1>5. \/ new.batch = 0 /\ m.items = 0
      \/ \E j \in ckpt : SameGroup(j, new) /\ j.batch + 1 = new.batch /\ j.items = m.items
  <2>1. HolderAt(w)
    BY CInvParts
  <2> QED
    BY <1>1, <2>1 DEF HolderAt, Continues, Rows, SameGroup
<1>6. ASSUME NEW j \in ckpt', NEW k \in ckpt', SameGroup(j, k), j.batch = k.batch
      PROVE  j = k
  <2>1. CASE j \in ckpt /\ k \in ckpt
    BY <1>6, <2>1 DEF CInv, CheckpointChain, SameGroup
  <2>2. CASE j = new /\ k \in ckpt
    <3>1. SameGroup(k, new)
      BY <1>6, <2>2 DEF SameGroup
    <3> QED
      BY <1>2, <1>3, <1>4, <1>6, <2>2, <3>1
  <2>3. CASE j \in ckpt /\ k = new
    BY <1>2, <1>3, <1>4, <1>6, <2>3
  <2> QED
    BY <2>1, <2>2, <2>3
<1>7. ASSUME NEW k \in ckpt'
      PROVE  \/ k.batch = 0 /\ k.items <= 1
             \/ \E j \in ckpt' :
                  /\ SameGroup(j, k)
                  /\ j.batch + 1 = k.batch
                  /\ j.items <= k.items /\ k.items <= j.items + 1
                  /\ j.epoch <= k.epoch
  <2>1. CASE k \in ckpt
    BY <2>1 DEF CInv, CheckpointChain, SameGroup, Rows
  <2>2. CASE k = new
    <3>1. CASE new.batch = 0 /\ m.items = 0
      BY <1>1, <1>2, <2>2, <3>1
    <3>2. CASE \E j \in ckpt : /\ SameGroup(j, new) /\ j.batch + 1 = new.batch
                               /\ j.items = m.items
      <4>1. PICK j \in ckpt : SameGroup(j, new) /\ j.batch + 1 = new.batch
                              /\ j.items = m.items
        BY <3>2
      <4>2. j.epoch <= new.epoch
        BY <1>4, <4>1
      <4> QED
        BY <1>1, <2>2, <4>1, <4>2
    <3> QED
      BY <1>5, <3>1, <3>2
  <2> QED
    BY <2>1, <2>2
<1>8. CheckpointChain'
  BY <1>6, <1>7 DEF CheckpointChain, Rows, SameGroup
<1>9. ASSUME NEW j \in ckpt', NEW k \in ckpt', SameGroup(j, k), j.batch <= k.batch
      PROVE  j.items <= k.items
  <2>1. CASE j \in ckpt /\ k \in ckpt
    BY <1>9, <2>1 DEF CInv, ChainMonotone
  <2>2. CASE j = new /\ k \in ckpt
    <3>1. SameGroup(k, new)
      BY <1>9, <2>2 DEF SameGroup
    <3> QED
      BY <1>2, <1>3, <1>4, <1>9, <2>2, <3>1
  <2>3. CASE j \in ckpt /\ k = new
    <3>1. j.items <= m.items /\ j.items \in Nat
      BY <1>3, <1>4, <1>9, <2>3
    <3> QED
      BY <1>1, <1>2, <2>3, <3>1
  <2>4. CASE j = new /\ k = new
    BY <1>2, <2>4
  <2> QED
    BY <2>1, <2>2, <2>3, <2>4
<1>10. ChainMonotone'
  BY <1>9 DEF ChainMonotone, SameGroup
<1> QED
  BY <1>8, <1>10

LEMMA CommitBatchKeeps ==
  ASSUME CInv, IInv', NEW w \in Worker, NEW items \in Nat, NEW completed \in Nat,
         NEW delivered \in BOOLEAN, CommitBatch(w, items, completed, delivered),
         worker[w].items <= items, items <= worker[w].items + 1, completed <= items
  PROVE  CInv'
<1>1. PICK t \in Task, m \in WorkerMemory : m = worker[w] /\ t = m.target
  BY EndOfChain DEF CommitBatch, CInv, IInv, RowsTypeOK
<1>2. PICK new : new = [task |-> t, phase |-> m.phase, config |-> m.config,
                        batch |-> m.batch, items |-> items, epoch |-> m.epoch]
  OBVIOUS
<1>3. /\ TokenValid(w) /\ m.stage = "running"
      /\ ckpt' = ckpt \cup {new} /\ run' = run
      /\ \A k \in Rows(t, m.phase, m.config) : k.batch # m.batch
  BY <1>1, <1>2 DEF CommitBatch
<1>4. /\ m.phase \in WORKER_PHASES /\ m.config \in Config
      /\ m.phase = Position(t) /\ m.config = task[t].config
      /\ m.epoch = task[t].epoch /\ m.epoch \in Nat
      /\ m.batch \in Nat /\ m.items \in Nat
      /\ task[t].status \in ActiveStatus
  BY <1>1, <1>3, EndOfChain DEF WorkerMemory
<1>5. /\ new \in CheckpointRow /\ new.task = t /\ new.phase = m.phase
      /\ new.config = m.config /\ new.batch = m.batch /\ new.items = items
      /\ new.epoch = m.epoch
  BY <1>2, <1>4 DEF CheckpointRow
<1>6. CheckpointChain' /\ ChainMonotone'
  BY <1>1, <1>3, <1>5, ChainExtended
<1>7. /\ \A u \in Task \ {t} : task'[u] = task[u]
      /\ task'[t].epoch \in {task[t].epoch, task[t].epoch + 1}
      /\ task'[t].config = task[t].config
      /\ task'[t].progress = completed
      /\ \/ task'[t].status = "terminated" /\ lease' = NoLease
         \/ /\ task'[t].status = "paused" /\ lease' = NoLease
            /\ Position(t)' = Position(t)
         \/ /\ task'[t].status = task[t].status /\ lease' = lease
            /\ Position(t)' = Position(t)
            /\ EffectivePhase(task'[t]) = EffectivePhase(task[t])
            /\ \/ worker' = worker
               \/ worker' = [worker EXCEPT ![w] =
                               [m EXCEPT !.batch = m.batch + 1, !.items = items]]
      /\ \A v \in Worker \ {w} : worker'[v] = worker[v]
  <2>1. t = worker[w].target
    BY <1>1
  <2>2. m = worker[w]
    BY <1>1
  <2>3. CommitLeaves(w, t, items, completed)
    BY <2>1, CommittedRow
  <2> QED
    BY <2>2, <2>3 DEF CommitLeaves
<1>8. RowsBorn'
  <2>1. task[t].epoch <= task'[t].epoch /\ task[t].epoch \in Nat
    BY <1>4, <1>7
  <2>2. task'[t].status # "absent"
    BY <1>4, <1>7 DEF ActiveStatus, WORKER_PHASES, CONTROL_STATES
  <2>3. \A u \in Task : task'[u].status = "absent" => task'[u].epoch = 0
    BY <1>7, <2>2 DEF CInv, RowsBorn
  <2>4. ASSUME NEW k \in ckpt'
        PROVE  task'[k.task].status # "absent" /\ k.epoch <= task'[k.task].epoch
    <3>1. k \in CheckpointRow /\ k.task \in Task /\ k.epoch \in Nat
      BY <1>3, <1>5 DEF CInv, IInv, RowsTypeOK, CheckpointRow
    <3>2. \/ k.epoch <= task[k.task].epoch /\ task[k.task].status # "absent"
          \/ k = new
      BY <1>3 DEF CInv, RowsBorn
    <3>3. CASE k.task = t
      <4>1. k.epoch <= task[t].epoch
        BY <1>4, <1>5, <3>2, <3>3
      <4> QED
        BY <1>4, <1>7, <2>2, <3>1, <3>3, <4>1
    <3>4. CASE k.task # t
      BY <1>5, <1>7, <3>1, <3>2, <3>4
    <3> QED
      BY <3>3, <3>4
  <2> QED
    BY <2>3, <2>4 DEF RowsBorn
<1>9. ASSUME NEW u \in Task PROVE Backed(u)' /\ PhasesPassed(u)'
  <2>1. CASE u # t
    <3>1. task'[u] = task[u]
      BY <1>7, <2>1
    <3> QED
      BY <1>3, <3>1, EvolvesSound DEF Evolves
  <2>2. CASE u = t /\ task'[t].status = "terminated"
    BY <2>2 DEF Backed, PhasesPassed, Working, FinishedStatus, ActiveStatus, WORKER_PHASES,
                CONTROL_STATES
  <2>3. CASE /\ u = t /\ Position(t)' = Position(t)
             /\ task'[t].status \in {"paused", task[t].status}
    <3>1. task'[t].status \in Working /\ task[t].status \in Working
      BY <1>4, <2>3 DEF Working
    <3>2. new \in Rows(t, Position(t), task[t].config)'
      BY <1>3, <1>4, <1>5, <1>7, <2>3 DEF Rows
    <3>3. Backed(t)'
      BY <1>5, <1>7, <3>1, <3>2, NotWorking DEF Backed, FinishedStatus
    <3>4. PhasesPassed(t)
      BY CInvParts
    <3>5. \A p : Passed(t, p) => Passed(t, p)'
      BY <1>3 DEF Passed
    <3>6. PhasesPassed(t)'
      BY <2>3, <3>1, <3>4, <3>5, NotWorking DEF PhasesPassed
    <3> QED
      BY <2>3, <3>3, <3>6
  <2> QED
    BY <1>7, <2>1, <2>2, <2>3
<1>10. ASSUME NEW v \in Worker, TokenValid(v)' PROVE HolderAt(v)'
  <2>1. /\ task'[t].status = task[t].status /\ lease' = lease
        /\ EffectivePhase(task'[t]) = EffectivePhase(task[t])
        /\ \/ worker' = worker
           \/ worker' = [worker EXCEPT ![w] =
                           [m EXCEPT !.batch = m.batch + 1, !.items = items]]
    BY <1>7, <1>10 DEF TokenValid, NoLease
  <2>2. v = w
    BY <1>3, <1>10, <2>1 DEF TokenValid
  <2>3. HolderAt(w)
    BY <1>3, CInvParts
  <2>4. \A k \in Rows(t, m.phase, m.config)' :
          k = new \/ (k \in Rows(t, m.phase, m.config) /\ k.batch < m.batch
                      /\ k.batch \in Nat)
    BY <1>1, <1>3, EndOfChain DEF Rows
  <2>5. CASE worker' = worker
    <3>1. worker'[w] = m
      BY <1>1, <2>5
    <3>2. Continues(m)'
      BY <1>1, <1>3, <2>3 DEF HolderAt, Continues, Rows
    <3>3. \A k \in Rows(m.target, m.phase, m.config)' :
            k.batch < m.batch \/ (k.batch = m.batch /\ k.epoch = m.epoch)
      BY <1>1, <1>5, <2>4
    <3>4. m.phase = EffectivePhase(task[t]) /\ m.config = task[t].config
      BY <1>1, <1>3, <2>3 DEF HolderAt
    <3>5. m.phase = EffectivePhase(task'[t]) /\ m.config = task'[t].config
      BY <1>7, <2>1, <3>4
    <3> QED
      BY <1>1, <2>2, <3>1, <3>2, <3>3, <3>5 DEF HolderAt
  <2>6. CASE worker' = [worker EXCEPT ![w] =
                          [m EXCEPT !.batch = m.batch + 1, !.items = items]]
    <3>1. PICK next : next = [m EXCEPT !.batch = m.batch + 1, !.items = items]
      OBVIOUS
    <3>2. worker'[w] = next
      BY <2>6, <3>1 DEF CInv, IInv, RowsTypeOK
    <3>3. /\ next.target = t /\ next.phase = m.phase /\ next.config = m.config
          /\ next.batch = m.batch + 1 /\ next.items = items /\ next.stage = "running"
      BY <1>1, <1>3, <3>1 DEF WorkerMemory
    <3>4. Continues(next)'
      BY <1>3, <1>5, <3>3 DEF Continues, Rows
    <3>5. \A k \in Rows(next.target, next.phase, next.config)' : k.batch < next.batch
      BY <1>4, <1>5, <2>4, <3>3
    <3> QED
      BY <1>1, <1>4, <1>7, <2>1, <2>2, <2>3, <3>2, <3>3, <3>4, <3>5 DEF HolderAt
  <2> QED
    BY <2>1, <2>5, <2>6
<1> QED
  BY <1>6, <1>8, <1>9, <1>10, CInvPartsNext

LEMMA WorkBatchKeeps ==
  ASSUME CInv, IInv', NEW w \in Worker, NEW delivered \in BOOLEAN, WorkBatch(w, delivered)
  PROVE  CInv'
<1>1. PICK items \in Nat : items = worker[w].items
  BY DEF CInv, IInv, RowsTypeOK, WorkerMemory
<1>2. items + 1 \in Nat /\ CommitBatch(w, items + 1, items + 1, delivered)
  BY <1>1 DEF WorkBatch
<1> QED
  BY <1>1, <1>2, CommitBatchKeeps

(* The next index is free, so that its own last call was answered.         *)
LEMMA ControlBatchKeeps ==
  ASSUME CInv, IInv', NEW w \in Worker, NEW delivered \in BOOLEAN,
         ControlBatch(w, delivered)
  PROVE  CInv'
<1>1. PICK completed \in {worker[w].items, task[worker[w].target].progress} :
        CommitBatch(w, worker[w].items, completed, delivered)
  BY DEF ControlBatch
<1>2. /\ TokenValid(w) /\ worker[w].stage = "running"
      /\ \A k \in Rows(worker[w].target, worker[w].phase, worker[w].config) :
           k.batch # worker[w].batch
  BY <1>1 DEF CommitBatch
<1>3. task[worker[w].target].progress <= worker[w].items
  BY <1>2, NotBehind
<1>4. worker[w].items \in Nat /\ task[worker[w].target].progress \in Nat
  BY <1>2, EndOfChain DEF TaskRow
<1>5. completed \in Nat /\ completed <= worker[w].items
  BY <1>1, <1>3, <1>4
<1>6. worker[w].items <= worker[w].items /\ worker[w].items <= worker[w].items + 1
  BY <1>4
<1> QED
  BY <1>1, <1>4, <1>5, <1>6, CommitBatchKeeps

LEMMA ReplayBatchKeeps == ASSUME CInv, IInv', NEW w \in Worker, ReplayBatch(w) PROVE CInv'
<1>1. PICK m \in WorkerMemory : m = worker[w]
  BY DEF CInv, IInv, RowsTypeOK
<1>2. PICK k \in Rows(m.target, m.phase, m.config) :
        /\ k.batch = m.batch /\ k.epoch = m.epoch
        /\ \/ /\ worker' = [worker EXCEPT ![w] = Idle]
              /\ UNCHANGED <<task, lease>>
           \/ /\ TokenValid(w)
              /\ worker' = [worker EXCEPT ![w].batch = m.batch + 1, ![w].items = k.items]
              /\ UNCHANGED <<task, lease>>
           \/ /\ task[m.target].status \in CONTROL_STATES
              /\ TokenValid(w)
              /\ task' = [task EXCEPT ![m.target] = ControlApplied(task[m.target])]
              /\ lease' = NoLease
              /\ worker' = [worker EXCEPT ![w] = Idle]
  BY <1>1 DEF ReplayBatch
<1>3. run' = run /\ ckpt' = ckpt /\ evidence' = evidence /\ m.stage = "running"
  BY <1>1 DEF ReplayBatch
<1>4. CASE worker' = [worker EXCEPT ![w] = Idle] /\ UNCHANGED <<task, lease>>
  BY <1>3, <1>4, OneIdle, IdleStep DEF db
<1>5. CASE /\ TokenValid(w)
           /\ worker' = [worker EXCEPT ![w].batch = m.batch + 1, ![w].items = k.items]
           /\ UNCHANGED <<task, lease>>
  <2>1. PICK next : next = [m EXCEPT !.batch = m.batch + 1, !.items = k.items]
    OBVIOUS
  <2>2. worker'[w] = next /\ \A v \in Worker \ {w} : worker'[v] = worker[v]
    BY <1>1, <1>5, <2>1 DEF CInv, IInv, RowsTypeOK
  <2>3. /\ next.target = m.target /\ next.phase = m.phase /\ next.config = m.config
        /\ next.batch = m.batch + 1 /\ next.items = k.items
    BY <2>1 DEF WorkerMemory
  <2>4. EpochsRaised /\ BirthKept /\ \A t \in Task : Evolves(t)
    BY <1>3, <1>5 DEF EpochsRaised, BirthKept, Evolves, CInv, IInv, RowsTypeOK, TaskRow,
                      RunRow
  <2>5. ASSUME NEW v \in Worker, TokenValid(v)' PROVE HolderAt(v)'
    <3>1. v = w
      BY <1>5, <2>5 DEF TokenValid
    <3>2. HolderAt(w)
      BY <1>5, CInvParts
    <3>3. Continues(next)'
      BY <1>2, <1>3, <2>3 DEF Continues, Rows
    <3>4. \A j \in Rows(m.target, m.phase, m.config) : j.batch < m.batch + 1
      BY <1>1, <1>3, <1>5, EndOfChain
    <3>5. \A j \in Rows(m.target, m.phase, m.config)' : j.batch < next.batch
      BY <1>3, <2>3, <3>4 DEF Rows
    <3> QED
      BY <1>1, <1>5, <2>2, <2>3, <3>1, <3>2, <3>3, <3>5 DEF HolderAt, EffectivePhase
  <2> QED
    BY <1>3, <2>4, <2>5, EvolvesSound, QuietStep
<1>6. CASE /\ task[m.target].status \in CONTROL_STATES
           /\ TokenValid(w)
           /\ task' = [task EXCEPT ![m.target] = ControlApplied(task[m.target])]
           /\ lease' = NoLease
           /\ worker' = [worker EXCEPT ![w] = Idle]
  BY <1>1, <1>3, <1>6, ControlKeeps
<1> QED
  BY <1>2, <1>4, <1>5, <1>6

(* Leaving a phase adds nothing but that phase to what must be covered.    *)
LEMMA PhasesFollow ==
  ASSUME NEW p \in WORKER_PHASES
  PROVE  /\ PIPELINE_NEXT[p] \in WORKER_PHASES \cup {"evidence_review", "completed"}
         /\ PhasesBefore(PIPELINE_NEXT[p]) \subseteq PhasesBefore(p) \cup {p}
BY DEF PIPELINE_NEXT, PhasesBefore, WORKER_PHASES

LEMMA CompletePhaseKeeps ==
  ASSUME CInv, IInv', NEW w \in Worker, CompletePhase(w) PROVE CInv'
<1>1. PICK t \in Task, m \in WorkerMemory : m = worker[w] /\ t = m.target
  BY EndOfChain DEF CompletePhase, LeavePhase, CInv, IInv, RowsTypeOK
<1>2. PICK next : next = PIPELINE_NEXT[m.phase]
  OBVIOUS
<1>3. TokenValid(w) /\ m.stage = "running" /\ m.items = NItems
  BY <1>1 DEF CompletePhase, LeavePhase, UnitsDone
<1>4. /\ m.phase \in WORKER_PHASES /\ m.phase = Position(t)
      /\ task[t] \in TaskRow /\ task[t].epoch \in Nat
      /\ task[t].status \in ActiveStatus
  BY <1>1, <1>3, EndOfChain DEF TaskRow
<1>5. /\ next \in WORKER_PHASES \cup {"evidence_review", "completed"}
      /\ PhasesBefore(next) \subseteq PhasesBefore(m.phase) \cup {m.phase}
  BY <1>2, <1>4, PhasesFollow
<1>6. /\ \A u \in Task \ {t} : task'[u] = task[u]
      /\ task'[t].epoch = task[t].epoch /\ task'[t].progress = 0
      /\ task'[t].status = IF next \in WORKER_PHASES THEN "queued" ELSE next
      /\ task'[t].resume = IF next \in WORKER_PHASES THEN next ELSE None
  <2>1. task' = [task EXCEPT
                   ![t].progress = 0,
                   ![t].status = IF next \in WORKER_PHASES THEN "queued" ELSE next,
                   ![t].resume = ResumeAfter(m.phase)]
    BY <1>1, <1>2 DEF CompletePhase, LeavePhase
  <2>2. ResumeAfter(m.phase) = IF next \in WORKER_PHASES THEN next ELSE None
    BY <1>2 DEF ResumeAfter
  <2> QED
    BY <1>4, <2>1, <2>2 DEF TaskRow, CInv, IInv, RowsTypeOK
<1>7. lease' = NoLease /\ run' = run /\ ckpt' = ckpt
  BY <1>1, <1>3, TokenHolds DEF CompletePhase, LeavePhase, Released, CInv
<1>8. Position(t)' = next
  BY <1>5, <1>6, NoneAssumption DEF Position
<1>9. Passed(t, m.phase)
  <2>1. Continues(m)
    BY <1>1, <1>3, CInvParts DEF HolderAt
  <2> QED
    BY <1>1, <1>3, <2>1 DEF Continues, Passed, Rows
<1>10. PhasesPassed(t)'
  <2>1. PhasesPassed(t) /\ task[t].status \notin FinishedStatus
    BY <1>4, CInvParts, NotWorking DEF Working
  <2>2. \A p \in PhasesBefore(next) : Passed(t, p)
    BY <1>4, <1>5, <1>9, <2>1 DEF PhasesPassed
  <2> QED
    BY <1>7, <1>8, <2>2 DEF PhasesPassed, Passed
<1>11. Backed(t)'
  BY <1>6 DEF Backed
<1>12. \A u \in Task \ {t} : Backed(u)' /\ PhasesPassed(u)'
  BY <1>6, <1>7, EvolvesSound DEF Evolves
<1>13. EpochsRaised
  <2>1. \A u \in Task : task[u].epoch \in Nat
    BY DEF CInv, IInv, RowsTypeOK, TaskRow
  <2>2. \A r \in Run : run[r].epoch \in Nat
    BY DEF CInv, IInv, RowsTypeOK, RunRow
  <2> QED
    BY <1>6, <1>7, <2>1, <2>2 DEF EpochsRaised
<1>14. BirthKept
  <2>1. task'[t].status # "absent"
    BY <1>5, <1>6
  <2> QED
    BY <1>6, <2>1 DEF BirthKept
<1>15. \A v \in Worker : ~TokenValid(v)'
  BY <1>7 DEF TokenValid, NoLease
<1> QED
  BY <1>7, <1>10, <1>11, <1>12, <1>13, <1>14, <1>15, QuietStep

-----------------------------------------------------------------------------
(* The export executor.                                                    *)

LEMMA RunEvolves ==
  ASSUME CInv, IInv', task' = task, ckpt' = ckpt,
         \A r \in Run : run[r].epoch <= run'[r].epoch,
         lease' = lease \/ lease' = NoLease,
         \A w \in Worker : worker'[w] = worker[w] \/ worker'[w] = Idle
  PROVE  CInv'
<1>1. \A t \in Task : task[t].epoch <= task'[t].epoch
  BY DEF CInv, IInv, RowsTypeOK, TaskRow
<1>2. EpochsRaised /\ BirthKept /\ \A t \in Task : Evolves(t)
  BY <1>1 DEF EpochsRaised, BirthKept, Evolves
<1> QED
  BY <1>2, EvolvingStep DEF NoLease

LEMMA RunStepKeeps == ASSUME CInv, IInv', NEW w \in Worker, RunStep(w) PROVE CInv'
<1>1. \A r \in Run : run'[r].epoch = run[r].epoch /\ run[r].epoch \in Nat
  BY DEF RunStep, CInv, IInv, RowsTypeOK, RunRow
<1>2. \A r \in Run : run[r].epoch <= run'[r].epoch
  BY <1>1
<1>3. /\ task' = task /\ ckpt' = ckpt
      /\ lease' = lease \/ lease' = NoLease
      /\ worker' = worker \/ worker' = [worker EXCEPT ![w] = Idle]
  BY DEF RunStep
<1> QED
  BY <1>2, <1>3, OneIdle, RunEvolves DEF RunStep

LEMMA RunFailKeeps == ASSUME CInv, IInv', NEW w \in Worker, RunFail(w) PROVE CInv'
<1>1. \A r \in Run : /\ run'[r].epoch \in {run[r].epoch, run[r].epoch + 1}
                     /\ run[r].epoch \in Nat
  BY DEF RunFail, CInv, IInv, RowsTypeOK, RunRow
<1>2. \A r \in Run : run[r].epoch <= run'[r].epoch
  BY <1>1
<1> QED
  BY <1>2, OneIdle, RunEvolves DEF RunFail

LEMMA RequeueExportRunKeeps ==
  ASSUME CInv, IInv', NEW w \in Worker, RequeueExportRun(w) PROVE CInv'
<1>1. \A r \in Run : /\ run'[r].epoch \in {run[r].epoch, run[r].epoch + 1}
                     /\ run[r].epoch \in Nat
  BY DEF RequeueExportRun, CInv, IInv, RowsTypeOK, RunRow
<1>2. \A r \in Run : run[r].epoch <= run'[r].epoch
  BY <1>1
<1> QED
  BY <1>2, OneIdle, RunEvolves DEF RequeueExportRun

-----------------------------------------------------------------------------
(* The specification.                                                      *)

LEMMA CInvNext == CInv /\ [Next]_vars => CInv'
<1> SUFFICES ASSUME CInv, [Next]_vars PROVE CInv'
  OBVIOUS
<1>0. IInv'
  BY NextSound DEF CInv
<1>1. CASE ApiStep
  BY <1>0, <1>1, CreateTaskKeeps, UpdateConfigKeeps, QueueTaskKeeps, RequestPauseKeeps,
     ResumeTaskKeeps, DeleteTaskKeeps, ReleaseReviewGateKeeps, RequestTerminateKeeps,
     CompleteFirstCopyExportKeeps, CreateExportRunKeeps
     DEF ApiStep
<1>2. CASE LeaseExpires \/ RecoverStaleLeases
  BY <1>0, <1>2, LeaseExpiresKeeps, RecoverStaleLeasesKeeps
<1>3. ASSUME NEW w \in Worker, PhaseStep(w) PROVE CInv'
  BY <1>0, <1>3, ReadResumePointKeeps, WorkBatchKeeps, ControlBatchKeeps,
     ReplayBatchKeeps, CompletePhaseKeeps, FailWorkerKeeps, PauseClaimedKeeps,
     HonorClaimedControlKeeps, RecoverWorkerKeeps, NoticeStaleKeeps
     DEF PhaseStep
<1>4. ASSUME NEW w \in Worker, ExportStep(w) PROVE CInv'
  BY <1>0, <1>4, RunStepKeeps, RunFailKeeps, RequeueExportRunKeeps DEF ExportStep
<1>5. CASE UNCHANGED vars
  BY <1>0, <1>5, IdleStep DEF vars, db
<1> QED
  BY <1>0, <1>1, <1>2, <1>3, <1>4, <1>5, ClaimNextKeeps, CrashKeeps DEF Next

LEMMA CheckpointInvariance == Spec => []CInv
BY CInvInit, CInvNext, PTL DEF Spec

(* A worker whose token is in force works for the phase and config of its  *)
(* row and finds nothing but its own unanswered call under its next batch  *)
(* index: commit_batch never raises CheckpointConflict or refuses the      *)
(* progress of a healthy worker, whatever pauses, recoveries and config    *)
(* changes came before.                                                    *)
THEOREM HolderIsWelcome == Spec => []HolderNeverConflicts
<1>1. CInv => HolderNeverConflicts
  <2> SUFFICES ASSUME CInv, NEW w \in Worker, TokenValid(w)
               PROVE  LET m == worker[w] row == task[m.target] IN
                        /\ m.phase = EffectivePhase(row)
                        /\ m.config = row.config
                        /\ m.stage = "running" =>
                             LET rows == Rows(m.target, m.phase, m.config) IN
                             /\ \A k \in rows :
                                  \/ k.batch < m.batch /\ k.items <= m.items
                                  \/ k.batch = m.batch /\ k.epoch = m.epoch
                             /\ \/ row.progress <= m.items
                                \/ \E k \in rows : k.batch = m.batch
    BY DEF HolderNeverConflicts
  <2>1. HolderAt(w)
    BY CInvParts
  <2> QED
    BY <2>1, EndOfChain, NotBehind DEF HolderAt
<1> QED
  BY <1>1, CheckpointInvariance, PTL

(* The checkpoints of one task, phase and config are one chain without gaps*)
(* or forks, committed under epochs that never go back: list_checkpoints   *)
(* gives a resuming worker one position, and it is that of all work done.  *)
THEOREM CheckpointsChain == Spec => []CheckpointChain
<1>1. CInv => CheckpointChain
  BY DEF CInv
<1> QED
  BY <1>1, CheckpointInvariance, PTL

(* No task gets past a phase of its pipeline before the units of the phase *)
(* are committed under one config: complete_phase is never called early and*)
(* no pause, recovery or resume loses a task's place.                      *)
THEOREM NoPhaseSkipped == Spec => []PhasesCovered
<1>1. CInv => PhasesCovered
  BY DEF CInv
<1> QED
  BY <1>1, CheckpointInvariance, PTL

-----------------------------------------------------------------------------
(* The task service implements FencedSlot.  The slot is the lease row, the *)
(* generation of a client the execution_epoch of its row, the ledger the   *)
(* checkpoints.  Every step of the service is one step of the slot or none;*)
(* that the ledger only grows under the generation in force rests on CInv. *)

(* The generation of a client of the slot.                                 *)
Epoch(x) == IF x \in Task THEN task[x].epoch ELSE run[x].epoch

(* A checkpoint as an entry of the ledger.                                 *)
Entry(k) == [client |-> k.task, gen |-> k.epoch, entry |-> k]

EpochsKept ==
  /\ \A t \in Task : task'[t].epoch = task[t].epoch
  /\ \A r \in Run  : run'[r].epoch = run[r].epoch

SlotStands == lease'.target = lease.target /\ lease'.epoch = lease.epoch

SlotStep == Slot!Next \/ UNCHANGED Slot!vars

(* A lease row without a target is no row at all.                          *)
LeaseWhole == lease.target = None => lease = NoLease

SInv == CInv /\ LeaseWhole

-----------------------------------------------------------------------------
(* The steps of FencedSlot in terms of the tables.                         *)

LEMMA InitMaps == Init => Slot!Init
BY NoneAssumption DEF Init, NoLease, NoRow, Slot!Init

LEMMA StutterMaps ==
  ASSUME SlotStands, EpochsKept, ckpt' = ckpt
  PROVE  SlotStep
BY DEF SlotStands, EpochsKept, Slot!vars, SlotStep

LEMMA RaisedMaps == ASSUME EpochsRaised PROVE Slot!GenRaised
BY DEF EpochsRaised, Slot!GenRaised

LEMMA ReleaseMaps ==
  ASSUME lease.target # None, lease' = NoLease, EpochsRaised, ckpt' = ckpt
  PROVE  SlotStep
<1>1. Slot!Release
  BY RaisedMaps DEF Slot!Release, Slot!Free, NoLease
<1> QED
  BY <1>1 DEF Slot!Next, SlotStep

LEMMA GrantMaps ==
  ASSUME NEW x \in Task \cup Run, lease'.target = x, lease'.epoch = Epoch(x)',
         Epoch(x) < Epoch(x)', EpochsRaised, ckpt' = ckpt
  PROVE  SlotStep
<1>1. Slot!Grant(x)
  BY RaisedMaps DEF Epoch, Slot!Grant
<1> QED
  BY <1>1 DEF Slot!Next, SlotStep

LEMMA RevokeMaps ==
  ASSUME NEW t \in Task, lease.target # t, SlotStands, ckpt' = ckpt, run' = run,
         task[t].epoch <= task'[t].epoch, task[t].epoch \in Nat,
         \A u \in Task \ {t} : task'[u] = task[u],
         \A u \in Task : task[u].epoch \in Nat, \A r \in Run : run[r].epoch \in Nat
  PROVE  SlotStep
<1>1. EpochsRaised
  BY DEF EpochsRaised
<1>2. Slot!Revoke(t)
  BY <1>1, RaisedMaps DEF SlotStands, Slot!Revoke
<1> QED
  BY <1>2 DEF Slot!Next, SlotStep

LEMMA PurgeMaps ==
  ASSUME NEW t \in Task, lease.target # t, SlotStands, EpochsKept,
         ckpt' = {k \in ckpt : k.task # t}
  PROVE  SlotStep
<1>1. Slot!Purge(t)
  BY DEF SlotStands, EpochsKept, Slot!Purge
<1> QED
  BY <1>1 DEF Slot!Next, SlotStep

LEMMA AppendMaps ==
  ASSUME NEW k, lease.target # None,
         k.task = lease.target, k.epoch = lease.epoch, ckpt' = ckpt \cup {k},
         \/ SlotStands /\ EpochsKept
         \/ lease' = NoLease /\ EpochsRaised
  PROVE  SlotStep
<1> DEFINE ledger == {Entry(j) : j \in ckpt}
<1>1. PICK new : new = Entry(k)
  OBVIOUS
<1>2. new.client = lease.target /\ new.gen = lease.epoch
  BY <1>1 DEF Entry
<1>3. ledger' = ledger \cup {new} /\ new \in ledger'
  BY <1>1 DEF Entry
<1>4. Slot!Append
  <2>1. CASE SlotStands /\ EpochsKept
    BY <1>2, <1>3, <2>1 DEF SlotStands, EpochsKept, Entry, Slot!Append
  <2>2. CASE lease' = NoLease /\ EpochsRaised
    BY <1>2, <1>3, <2>2, RaisedMaps DEF NoLease, Entry, Slot!Append, Slot!Free
  <2> QED
    BY <2>1, <2>2
<1> QED
  BY <1>4 DEF Slot!Next, SlotStep

-----------------------------------------------------------------------------
(* Operations of the HTTP API.                                             *)

LEMMA EpochTypes ==
  ASSUME CInv
  PROVE  /\ \A t \in Task : task[t].epoch \in Nat
         /\ \A r \in Run : run[r].epoch \in Nat
BY DEF CInv, IInv, RowsTypeOK, TaskRow, RunRow

(* A call that raises at most the epoch of one task.                       *)
LEMMA OneRaised ==
  ASSUME CInv, NEW t \in Task, task[t].epoch <= task'[t].epoch,
         \A u \in Task \ {t} : task'[u] = task[u],
         \A r \in Run : run'[r].epoch = run[r].epoch
  PROVE  EpochsRaised
BY EpochTypes DEF EpochsRaised

LEMMA ApiMaps == ASSUME CInv, ApiStep PROVE SlotStep
<1>0. task \in [Task -> TaskRow] /\ run \in [Run -> RunRow]
  BY DEF CInv, IInv, RowsTypeOK
<1>1. ASSUME NEW t \in Task, NEW c \in Config, CreateTask(t, c) PROVE SlotStep
  <2>1. /\ \A u \in Task : task'[u].epoch = task[u].epoch
        /\ run' = run /\ lease' = lease /\ ckpt' = ckpt
    BY <1>0, <1>1 DEF CreateTask, NoRow, CInv, RowsBorn, TaskRow
  <2> QED
    BY <2>1, StutterMaps DEF SlotStands, EpochsKept
<1>2. ASSUME NEW t \in Task, NEW c \in Config, UpdateConfig(t, c) PROVE SlotStep
  <2>1. /\ \A u \in Task : task'[u].epoch = task[u].epoch
        /\ run' = run /\ lease' = lease /\ ckpt' = ckpt
    BY <1>0, <1>2 DEF UpdateConfig, TaskRow
  <2> QED
    BY <2>1, StutterMaps DEF SlotStands, EpochsKept
<1>3. ASSUME NEW t \in Task, QueueTask(t) PROVE SlotStep
  <2>1. /\ \A u \in Task : task'[u].epoch = task[u].epoch
        /\ run' = run /\ lease' = lease /\ ckpt' = ckpt
    BY <1>0, <1>3 DEF QueueTask, TaskRow
  <2> QED
    BY <2>1, StutterMaps DEF SlotStands, EpochsKept
<1>4. ASSUME NEW t \in Task, RequestPause(t) PROVE SlotStep
  <2>1. /\ \A u \in Task : task'[u].epoch = task[u].epoch
        /\ run' = run /\ lease' = lease /\ ckpt' = ckpt
    BY <1>0, <1>4 DEF RequestPause, TaskRow
  <2> QED
    BY <2>1, StutterMaps DEF SlotStands, EpochsKept
<1>5. ASSUME NEW t \in Task, ResumeTask(t) PROVE SlotStep
  <2>1. /\ \A u \in Task : task'[u].epoch = task[u].epoch
        /\ run' = run /\ lease' = lease /\ ckpt' = ckpt
    BY <1>0, <1>5 DEF ResumeTask, TaskRow
  <2> QED
    BY <2>1, StutterMaps DEF SlotStands, EpochsKept
<1>6. ASSUME NEW t \in Task, ReleaseReviewGate(t) PROVE SlotStep
  <2>1. /\ \A u \in Task : task'[u].epoch = task[u].epoch
        /\ run' = run /\ lease' = lease /\ ckpt' = ckpt
    BY <1>0, <1>6 DEF ReleaseReviewGate, TaskRow
  <2> QED
    BY <2>1, StutterMaps DEF SlotStands, EpochsKept
<1>7. ASSUME NEW t \in Task, DeleteTask(t) PROVE SlotStep
  <2>1. /\ \A u \in Task : task'[u].epoch = task[u].epoch
        /\ run' = run /\ lease' = lease /\ ckpt' = {k \in ckpt : k.task # t}
    BY <1>0, <1>7 DEF DeleteTask, NoRow, TaskRow
  <2>2. task[t].status \notin ActiveStatus
    BY <1>7 DEF DeleteTask, TERMINAL_STATES, ActiveStatus, WORKER_PHASES, CONTROL_STATES
  <2>3. ~HasLease(t)
    BY <2>2, InactiveFree DEF CInv
  <2> QED
    BY <2>1, <2>3, PurgeMaps DEF SlotStands, EpochsKept, HasLease
<1>8. ASSUME NEW t \in Task, NEW force \in BOOLEAN, RequestTerminate(t, force)
      PROVE  SlotStep
  <2>1. run' = run /\ ckpt' = ckpt
    BY <1>8 DEF RequestTerminate
  <2>2. CASE /\ lease' = lease
             /\ task' = [task EXCEPT
                           ![t].status = "terminating",
                           ![t].resume = IF task[t].status \in WORKER_PHASES
                                           THEN task[t].status ELSE task[t].resume]
    <3>1. \A u \in Task : task'[u].epoch = task[u].epoch
      BY <1>0, <2>2 DEF TaskRow
    <3> QED
      BY <2>1, <2>2, <3>1, StutterMaps DEF SlotStands, EpochsKept
  <2>3. CASE /\ lease' = Released(t)
             /\ task' = [task EXCEPT ![t].status = "terminated",
                                     ![t].resume = None,
                                     ![t].epoch  = task[t].epoch + 1]
    <3>1. /\ task'[t].epoch = task[t].epoch + 1
          /\ \A u \in Task \ {t} : task'[u] = task[u]
      BY <1>0, <2>3 DEF TaskRow
    <3>2. task[t].epoch <= task'[t].epoch
      BY <3>1, EpochTypes
    <3>3. EpochsRaised
      BY <2>1, <3>1, <3>2, OneRaised
    <3>4. CASE HasLease(t)
      BY <2>1, <2>3, <3>3, <3>4, NoneAssumption, ReleaseMaps DEF Released, HasLease
    <3>5. CASE ~HasLease(t)
      BY <2>1, <2>3, <3>1, <3>2, <3>5, EpochTypes, RevokeMaps
         DEF Released, HasLease, SlotStands
    <3> QED
      BY <3>4, <3>5
  <2> QED
    BY <1>8, <2>2, <2>3 DEF RequestTerminate
<1>9. ASSUME NEW t \in Task, NEW r \in Run, CompleteFirstCopyExport(t, r) PROVE SlotStep
  <2>1. /\ \A u \in Task : task'[u].epoch = task[u].epoch
        /\ \A q \in Run : run'[q].epoch = run[q].epoch
        /\ lease' = lease /\ ckpt' = ckpt
    BY <1>0, <1>9 DEF CompleteFirstCopyExport, TaskRow, RunRow
  <2> QED
    BY <2>1, StutterMaps DEF SlotStands, EpochsKept
<1>10. ASSUME NEW t \in Task, NEW r \in Run, CreateExportRun(t, r) PROVE SlotStep
  <2>1. /\ task' = task /\ \A q \in Run : run'[q].epoch = run[q].epoch
        /\ lease' = lease /\ ckpt' = ckpt
    BY <1>0, <1>10 DEF CreateExportRun, RunRow
  <2> QED
    BY <2>1, StutterMaps DEF SlotStands, EpochsKept
<1> QED
  BY <1>1, <1>2, <1>3, <1>4, <1>5, <1>6, <1>7, <1>8, <1>9, <1>10 DEF ApiStep

-----------------------------------------------------------------------------
(* The worker slot.                                                        *)

LEMMA RecoveryMaps ==
  ASSUME SInv, task' = TasksRecovered, run' = RunsRecovered, lease' = NoLease,
         lease # NoLease, ckpt' = ckpt
  PROVE  SlotStep
<1>1. EpochsRaised
  BY RecoveredChains DEF SInv, CInv, EpochsRaised
<1> QED
  BY <1>1, ReleaseMaps DEF SInv, LeaseWhole

LEMMA GrantTaskMaps ==
  ASSUME CInv, NEW w \in Worker, NEW t \in Task,
         TasksRecovered[t].status = "queued", GrantTask(w, t), ckpt' = ckpt
  PROVE  SlotStep
<1>1. TasksRecovered[t] = task[t] /\ task[t] \in TaskRow /\ task[t].epoch \in Nat
  BY RecoveredChains DEF CInv, IInv, RowsTypeOK, TaskRow
<1>2. /\ task'[t].epoch = task[t].epoch + 1
      /\ lease'.target = t /\ lease'.epoch = task[t].epoch + 1
      /\ \A u \in Task \ {t} : task'[u] = TasksRecovered[u]
      /\ run' = RunsRecovered
  BY <1>1, TasksRecoveredSound DEF GrantTask, NextEpoch, TaskRow, CInv
<1>3. task[t].epoch < task'[t].epoch /\ task[t].epoch <= task'[t].epoch
  BY <1>1, <1>2
<1>4. EpochsRaised
  BY <1>2, <1>3, RecoveredChains DEF CInv, EpochsRaised
<1>5. Epoch(t) = task[t].epoch /\ Epoch(t)' = task'[t].epoch
  BY DEF Epoch
<1> QED
  BY <1>2, <1>3, <1>4, <1>5, GrantMaps

LEMMA GrantRunMaps ==
  ASSUME CInv, NEW w \in Worker, NEW r \in Run, GrantRun(w, r), ckpt' = ckpt
  PROVE  SlotStep
<1>1. RunsRecovered[r] \in RunRow /\ RunsRecovered[r].epoch \in Nat
  BY RunsRecoveredSound DEF CInv, RunRow
<1>2. /\ run'[r].epoch = RunsRecovered[r].epoch + 1
      /\ lease'.target = r /\ lease'.epoch = RunsRecovered[r].epoch + 1
      /\ \A q \in Run \ {r} : run'[q] = RunsRecovered[q]
      /\ task' = TasksRecovered
  BY <1>1, RunsRecoveredSound DEF GrantRun, NextEpoch, RunRow, CInv
<1>3. run[r].epoch <= RunsRecovered[r].epoch /\ run[r].epoch \in Nat
  BY RecoveredChains, EpochTypes DEF CInv
<1>4. run[r].epoch < run'[r].epoch /\ run[r].epoch <= run'[r].epoch
  BY <1>1, <1>2, <1>3
<1>5. EpochsRaised
  BY <1>2, <1>4, RecoveredChains DEF CInv, EpochsRaised
<1>6. Epoch(r) = run[r].epoch /\ Epoch(r)' = run'[r].epoch
  BY IdAssumption DEF Epoch
<1> QED
  BY <1>2, <1>4, <1>5, <1>6, GrantMaps

LEMMA ClaimNextMaps == ASSUME SInv, NEW w \in Worker, ClaimNext(w) PROVE SlotStep
<1> DEFINE queuedTasks == {t \in Task : TasksRecovered[t].status = "queued"}
           queuedRuns  == {r \in Run : RunsRecovered[r].status = "queued"}
<1>1. ckpt' = ckpt
  BY DEF ClaimNext
<1>2. CASE \E t \in queuedTasks : GrantTask(w, t)
  BY <1>1, <1>2, GrantTaskMaps DEF SInv
<1>3. CASE \E r \in queuedRuns : GrantRun(w, r)
  BY <1>1, <1>3, GrantRunMaps DEF SInv
<1>4. CASE /\ task' = TasksRecovered /\ run' = RunsRecovered
           /\ lease' = NoLease /\ lease # NoLease
  BY <1>1, <1>4, RecoveryMaps
<1> QED
  BY <1>2, <1>3, <1>4 DEF ClaimNext

LEMMA LeaseExpiresMaps == ASSUME CInv, LeaseExpires PROVE SlotStep
<1>1. SlotStands
  BY DEF LeaseExpires, SlotStands, CInv, IInv, RowsTypeOK, LeaseRow
<1> QED
  BY <1>1, StutterMaps DEF LeaseExpires, EpochsKept

-----------------------------------------------------------------------------
(* Calls of a worker.                                                      *)

LEMMA QuietMaps == ASSUME UNCHANGED <<task, run, lease, ckpt>> PROVE SlotStep
BY StutterMaps DEF SlotStands, EpochsKept

LEMMA TokenTarget ==
  ASSUME CInv, NEW w \in Worker, TokenValid(w)
  PROVE  worker[w].target \in Task /\ HasLease(worker[w].target) /\ lease.target # None
BY TokenHolds, NoneAssumption DEF CInv, HasLease

(* The holder leaves, with its own epoch or a revoked one.                 *)
LEMMA LeaveMaps ==
  ASSUME CInv, NEW w \in Worker, TokenValid(w),
         NEW t \in Task, t = worker[w].target,
         task'[t].epoch \in {task[t].epoch, task[t].epoch + 1},
         \A u \in Task \ {t} : task'[u] = task[u],
         lease' = NoLease, run' = run, ckpt' = ckpt
  PROVE  SlotStep
<1>1. HasLease(t) /\ lease.target # None
  BY TokenTarget
<1>2. task[t].epoch <= task'[t].epoch
  BY EpochTypes
<1>3. EpochsRaised
  BY <1>2, OneRaised
<1> QED
  BY <1>1, <1>3, ReleaseMaps

LEMMA SurrenderMaps ==
  ASSUME CInv, NEW w \in Worker, TokenValid(w), NEW row, Surrender(w, row),
         row.epoch \in {task[worker[w].target].epoch, task[worker[w].target].epoch + 1}
  PROVE  SlotStep
<1>1. PICK t \in Task : t = worker[w].target /\ HasLease(t)
  BY TokenTarget
<1>2. lease' = NoLease /\ run' = run /\ ckpt' = ckpt
  BY <1>1 DEF Surrender, Released
<1>3. task'[t] = row /\ \A u \in Task \ {t} : task'[u] = task[u]
  BY <1>1 DEF Surrender, CInv, IInv, RowsTypeOK
<1>4. task'[t].epoch \in {task[t].epoch, task[t].epoch + 1}
  BY <1>1, <1>3
<1> QED
  BY <1>1, <1>2, <1>3, <1>4, LeaveMaps

LEMMA ControlEpoch ==
  ASSUME NEW row \in TaskRow
  PROVE  ControlApplied(row).epoch \in {row.epoch, row.epoch + 1}
BY DEF ControlApplied, TaskRow

LEMMA CommitBatchMaps ==
  ASSUME CInv, NEW w \in Worker, NEW items \in Nat, NEW completed \in Nat,
         NEW delivered \in BOOLEAN, CommitBatch(w, items, completed, delivered)
  PROVE  SlotStep
<1>0. PICK m : m = worker[w]
  OBVIOUS
<1>1. PICK t \in Task : t = m.target /\ lease.target = t /\ lease.target # None
  BY <1>0, TokenTarget DEF CommitBatch, HasLease
<1>2. PICK new : new = [task |-> t, phase |-> m.phase, config |-> m.config,
                        batch |-> m.batch, items |-> items, epoch |-> m.epoch]
  OBVIOUS
<1>3. ckpt' = ckpt \cup {new} /\ run' = run /\ lease.epoch = m.epoch
  BY <1>0, <1>1, <1>2 DEF CommitBatch, TokenValid
<1>4. new.task = lease.target /\ new.epoch = lease.epoch
  BY <1>1, <1>2, <1>3
<1>5. t = worker[w].target
  BY <1>0, <1>1
<1>6. CommitLeaves(w, t, items, completed)
  BY <1>5, CommittedRow
<1>7. CASE lease' = NoLease
  <2>1. task[t].epoch <= task'[t].epoch
    BY <1>6, EpochTypes DEF CommitLeaves
  <2>2. EpochsRaised
    BY <1>3, <1>6, <2>1, OneRaised DEF CommitLeaves
  <2> QED
    BY <1>1, <1>3, <1>4, <1>7, <2>2, AppendMaps
<1>8. CASE lease' = lease /\ task'[t].epoch = task[t].epoch
  <2>1. SlotStands /\ EpochsKept
    BY <1>3, <1>6, <1>8 DEF CommitLeaves, SlotStands, EpochsKept
  <2> QED
    BY <1>1, <1>3, <1>4, <2>1, AppendMaps
<1> QED
  BY <1>6, <1>7, <1>8 DEF CommitLeaves

LEMMA ReplayBatchMaps == ASSUME CInv, NEW w \in Worker, ReplayBatch(w) PROVE SlotStep
<1>1. run' = run /\ ckpt' = ckpt
  BY DEF ReplayBatch
<1>2. CASE UNCHANGED <<task, lease>>
  BY <1>1, <1>2, QuietMaps
<1>3. CASE /\ TokenValid(w)
           /\ task' = [task EXCEPT ![worker[w].target] =
                         ControlApplied(task[worker[w].target])]
           /\ lease' = NoLease
  <2>1. PICK t \in Task : t = worker[w].target /\ task[t] \in TaskRow
    BY <1>3, TokenHolds DEF CInv
  <2>2. PICK row : row = ControlApplied(task[t])
    OBVIOUS
  <2>3. task'[t] = row /\ \A u \in Task \ {t} : task'[u] = task[u]
    BY <1>3, <2>1, <2>2 DEF CInv, IInv, RowsTypeOK
  <2>4. task'[t].epoch \in {task[t].epoch, task[t].epoch + 1}
    BY <2>1, <2>2, <2>3, ControlEpoch
  <2> QED
    BY <1>1, <1>3, <2>1, <2>3, <2>4, LeaveMaps
<1> QED
  BY <1>2, <1>3 DEF ReplayBatch

LEMMA CompletePhaseMaps == ASSUME CInv, NEW w \in Worker, CompletePhase(w) PROVE SlotStep
<1>1. PICK t \in Task : t = worker[w].target /\ HasLease(t) /\ lease.target # None
  BY TokenTarget DEF CompletePhase, LeavePhase
<1>2. lease' = NoLease /\ run' = run /\ ckpt' = ckpt
  BY <1>1 DEF CompletePhase, LeavePhase, Released
<1>3. \A u \in Task : task'[u].epoch = task[u].epoch
  BY <1>1 DEF CompletePhase, LeavePhase, CInv, IInv, RowsTypeOK, TaskRow
<1>4. EpochsRaised
  BY <1>2, <1>3, EpochTypes DEF EpochsRaised
<1> QED
  BY <1>1, <1>2, <1>4, ReleaseMaps

LEMMA PhaseMaps == ASSUME CInv, NEW w \in Worker, PhaseStep(w) PROVE SlotStep
<1> DEFINE row == task[worker[w].target]
<1>1. CASE ReadResumePoint(w) \/ NoticeStale(w)
  BY <1>1, QuietMaps DEF ReadResumePoint, NoticeStale, db
<1>2. ASSUME NEW delivered \in BOOLEAN,
             WorkBatch(w, delivered) \/ ControlBatch(w, delivered)
      PROVE  SlotStep
  <2>1. worker[w].items \in Nat /\ worker[w].items + 1 \in Nat
    BY DEF CInv, IInv, RowsTypeOK, WorkerMemory
  <2>2. CASE WorkBatch(w, delivered)
    BY <2>1, <2>2, CommitBatchMaps DEF WorkBatch
  <2>3. CASE ControlBatch(w, delivered)
    <3>1. PICK completed \in {worker[w].items, row.progress} :
            CommitBatch(w, worker[w].items, completed, delivered)
      BY <2>3 DEF ControlBatch
    <3>2. row.progress \in Nat
      BY <3>1, TokenHolds DEF CommitBatch, CInv, TaskRow
    <3> QED
      BY <2>1, <3>1, <3>2, CommitBatchMaps
  <2> QED
    BY <1>2, <2>2, <2>3
<1>3. CASE ReplayBatch(w) \/ CompletePhase(w)
  BY <1>3, ReplayBatchMaps, CompletePhaseMaps
<1>4. ASSUME TokenValid(w) PROVE row \in TaskRow /\ row.epoch \in Nat
  BY <1>4, TokenHolds DEF CInv, TaskRow
<1>5. CASE FailWorker(w)
  <2>1. PICK new : new = [row EXCEPT !.status = "failed", !.resume = None,
                                     !.epoch = row.epoch + 1]
    OBVIOUS
  <2>2. TokenValid(w) /\ Surrender(w, new)
    BY <1>5, <2>1 DEF FailWorker
  <2>3. new.epoch = row.epoch + 1
    BY <1>4, <2>1, <2>2 DEF TaskRow
  <2> QED
    BY <2>2, <2>3, SurrenderMaps
<1>6. CASE PauseClaimedBeforeWork(w)
  <2>1. PICK new : new = [row EXCEPT !.status = "paused", !.resume = EffectivePhase(row)]
    OBVIOUS
  <2>2. TokenValid(w) /\ Surrender(w, new)
    BY <1>6, <2>1 DEF PauseClaimedBeforeWork
  <2>3. new.epoch = row.epoch
    BY <1>4, <2>1, <2>2 DEF TaskRow
  <2> QED
    BY <2>2, <2>3, SurrenderMaps
<1>7. CASE HonorClaimedControlBeforeWork(w) \/ RecoverWorkerAfterProcessStop(w)
  <2>1. TokenValid(w) /\ Surrender(w, ControlApplied(row))
    BY <1>7 DEF HonorClaimedControlBeforeWork, RecoverWorkerAfterProcessStop
  <2> QED
    BY <1>4, <2>1, ControlEpoch, SurrenderMaps
<1> QED
  BY <1>1, <1>2, <1>3, <1>5, <1>6, <1>7 DEF PhaseStep

-----------------------------------------------------------------------------
(* The export executor.                                                    *)

(* The holder leaves its run, whose row keeps or raises its epoch.         *)
LEMMA RunLeaveMaps ==
  ASSUME CInv, NEW r \in Run, HasLease(r),
         run'[r].epoch \in {run[r].epoch, run[r].epoch + 1},
         \A q \in Run \ {r} : run'[q] = run[q],
         task' = task, lease' = NoLease, ckpt' = ckpt
  PROVE  SlotStep
<1>1. run[r].epoch <= run'[r].epoch
  BY EpochTypes
<1>2. EpochsRaised
  BY <1>1, EpochTypes DEF EpochsRaised
<1>3. lease.target # None
  BY NoneAssumption DEF HasLease
<1> QED
  BY <1>2, <1>3, ReleaseMaps

LEMMA ExportMaps == ASSUME CInv, NEW w \in Worker, ExportStep(w) PROVE SlotStep
<1>1. CASE RunStep(w)
  <2>1. PICK r \in Run : r = worker[w].target /\ HasLease(r) /\ run[r] \in RunRow
    BY <1>1, RunHolds DEF CInv, RunStep, RunTokenValid
  <2>2. PICK to \in RunStatus : /\ run' = [run EXCEPT ![r].status = to]
                                /\ lease' = NoLease \/ lease' = lease
    BY <1>1, <2>1 DEF RunStep
  <2>3. run \in [Run -> RunRow]
    BY DEF CInv, IInv, RowsTypeOK
  <2>4. /\ run'[r].epoch = run[r].epoch
        /\ \A q \in Run \ {r} : run'[q] = run[q]
    BY <2>1, <2>2, <2>3 DEF RunRow
  <2>5. task' = task /\ ckpt' = ckpt
    BY <1>1 DEF RunStep
  <2>6. CASE lease' = NoLease
    BY <2>1, <2>4, <2>5, <2>6, RunLeaveMaps
  <2>7. CASE lease' = lease
    <3>1. \A q \in Run : run'[q].epoch = run[q].epoch
      BY <2>4
    <3> QED
      BY <2>5, <2>7, <3>1, StutterMaps DEF SlotStands, EpochsKept
  <2> QED
    BY <2>2, <2>6, <2>7
<1>2. CASE RunFail(w)
  <2>1. PICK r \in Run : r = worker[w].target /\ HasLease(r) /\ run[r] \in RunRow
    BY <1>2, RunHolds DEF CInv, RunFail
  <2>2. PICK row : row = IF lease.live THEN [run[r] EXCEPT !.status = "failed"]
                         ELSE [status |-> "queued", epoch |-> run[r].epoch + 1]
    OBVIOUS
  <2>3. run'[r] = row /\ \A q \in Run \ {r} : run'[q] = run[q]
    BY <1>2, <2>1, <2>2 DEF RunFail, CInv, IInv, RowsTypeOK
  <2>4. row.epoch \in {run[r].epoch, run[r].epoch + 1}
    BY <2>1, <2>2 DEF RunRow
  <2>5. task' = task /\ lease' = NoLease /\ ckpt' = ckpt
    BY <1>2 DEF RunFail
  <2> QED
    BY <2>1, <2>3, <2>4, <2>5, RunLeaveMaps
<1>3. CASE RequeueExportRun(w)
  <2>1. PICK r \in Run : r = worker[w].target /\ HasLease(r) /\ run[r] \in RunRow
    BY <1>3, RunHolds DEF CInv, RequeueExportRun
  <2>2. PICK row : row = [status |-> "queued", epoch |-> run[r].epoch + 1]
    OBVIOUS
  <2>3. run'[r] = row /\ \A q \in Run \ {r} : run'[q] = run[q]
    BY <1>3, <2>1, <2>2 DEF RequeueExportRun, CInv, IInv, RowsTypeOK
  <2>4. row.epoch \in {run[r].epoch, run[r].epoch + 1}
    BY <2>2
  <2>5. task' = task /\ lease' = NoLease /\ ckpt' = ckpt
    BY <1>3 DEF RequeueExportRun
  <2> QED
    BY <2>1, <2>3, <2>4, <2>5, RunLeaveMaps
<1> QED
  BY <1>1, <1>2, <1>3 DEF ExportStep

-----------------------------------------------------------------------------
(* Every step, and the theorem.                                            *)

LEMMA NextMaps == ASSUME SInv, [Next]_vars PROVE SlotStep
<1>0. CInv
  BY DEF SInv
<1>1. CASE ApiStep
  BY <1>0, <1>1, ApiMaps
<1>2. CASE LeaseExpires
  BY <1>0, <1>2, LeaseExpiresMaps
<1>3. CASE RecoverStaleLeases
  <2>1. /\ task' = TasksRecovered /\ run' = RunsRecovered
        /\ lease' = NoLease /\ lease # NoLease /\ ckpt' = ckpt
    BY <1>3 DEF RecoverStaleLeases
  <2> QED
    BY <2>1, RecoveryMaps
<1>4. ASSUME NEW w \in Worker, ClaimNext(w) PROVE SlotStep
  BY <1>4, ClaimNextMaps
<1>5. ASSUME NEW w \in Worker, PhaseStep(w) PROVE SlotStep
  BY <1>0, <1>5, PhaseMaps
<1>6. ASSUME NEW w \in Worker, ExportStep(w) PROVE SlotStep
  BY <1>0, <1>6, ExportMaps
<1>7. ASSUME NEW w \in Worker, Crash(w) PROVE SlotStep
  BY <1>7, QuietMaps DEF Crash, db
<1>8. CASE UNCHANGED vars
  BY <1>8, QuietMaps DEF vars, db
<1> QED
  BY <1>1, <1>2, <1>3, <1>4, <1>5, <1>6, <1>7, <1>8 DEF Next

(* A lease row is granted to somebody, kept, expired or taken away whole.  *)
LeaseChanges ==
  \/ lease' = lease \/ lease' = NoLease \/ lease'.target # None

LEMMA ApiLease == ASSUME ApiStep PROVE LeaseChanges
BY DEF ApiStep, CreateTask, UpdateConfig, QueueTask, RequestPause, ResumeTask, DeleteTask,
       ReleaseReviewGate, RequestTerminate, CompleteFirstCopyExport, CreateExportRun,
       Released, LeaseChanges

LEMMA PhaseLease == ASSUME NEW w \in Worker, PhaseStep(w) PROVE LeaseChanges
<1>1. CASE \/ ReadResumePoint(w) \/ NoticeStale(w) \/ ReplayBatch(w) \/ CompletePhase(w)
           \/ PauseClaimedBeforeWork(w) \/ HonorClaimedControlBeforeWork(w)
           \/ RecoverWorkerAfterProcessStop(w)
  BY <1>1 DEF ReadResumePoint, NoticeStale, db, ReplayBatch, CompletePhase, LeavePhase,
     PauseClaimedBeforeWork, HonorClaimedControlBeforeWork, RecoverWorkerAfterProcessStop,
     Surrender, Released, LeaseChanges
<1>2. CASE FailWorker(w)
  BY <1>2 DEF FailWorker, Surrender, Released, LeaseChanges
<1>3. ASSUME NEW items, NEW completed, NEW delivered,
             CommitBatch(w, items, completed, delivered)
      PROVE  LeaseChanges
  BY <1>3 DEF CommitBatch, LeaseChanges
<1>4. ASSUME NEW delivered \in BOOLEAN,
             WorkBatch(w, delivered) \/ ControlBatch(w, delivered)
      PROVE  LeaseChanges
  BY <1>3, <1>4 DEF WorkBatch, ControlBatch
<1> QED
  BY <1>1, <1>2, <1>4 DEF PhaseStep

LEMMA ClaimLease == ASSUME NEW w \in Worker, ClaimNext(w) PROVE LeaseChanges
<1>1. ASSUME NEW t \in Task, GrantTask(w, t) PROVE LeaseChanges
  BY <1>1, NoneAssumption DEF GrantTask, LeaseChanges
<1>2. ASSUME NEW r \in Run, GrantRun(w, r) PROVE LeaseChanges
  BY <1>2, NoneAssumption DEF GrantRun, LeaseChanges
<1> QED
  BY <1>1, <1>2 DEF ClaimNext, LeaseChanges

LEMMA LeaseStaysWhole == ASSUME LeaseWhole, [Next]_vars PROVE LeaseWhole'
<1>1. ASSUME LeaseChanges PROVE LeaseWhole'
  BY <1>1 DEF LeaseChanges, LeaseWhole
<1>2. CASE LeaseExpires
  BY <1>2 DEF LeaseExpires, LeaseWhole, NoLease
<1>3. CASE ApiStep
  BY <1>1, <1>3, ApiLease
<1>4. CASE RecoverStaleLeases \/ UNCHANGED vars
  BY <1>1, <1>4 DEF RecoverStaleLeases, LeaseChanges, vars
<1>5. ASSUME NEW w \in Worker, ClaimNext(w) \/ PhaseStep(w) PROVE LeaseWhole'
  BY <1>1, <1>5, ClaimLease, PhaseLease
<1>6. ASSUME NEW w \in Worker, ExportStep(w) \/ Crash(w) PROVE LeaseWhole'
  BY <1>1, <1>6 DEF ExportStep, RunStep, RunFail, RequeueExportRun, Crash, db, LeaseChanges
<1> QED
  BY <1>2, <1>3, <1>4, <1>5, <1>6 DEF Next

LEMMA SInvariance == Spec => []SInv
<1>1. Init => SInv
  BY CInvInit DEF Init, SInv, LeaseWhole
<1>2. SInv /\ [Next]_vars => SInv'
  BY CInvNext, LeaseStaysWhole DEF SInv
<1> QED
  BY <1>1, <1>2, PTL DEF Spec

(* The task service implements the fenced slot: from any state of any      *)
(* number of tasks, runs, workers and configs, each call, claim, crash and *)
(* expiry grants, releases, revokes, appends or purges as FencedSlot lets  *)
(* it, so that no generation is used twice and nothing is recorded but by  *)
(* the holder under the generation it was granted.                         *)
THEOREM SlotImplemented == Spec => ImplementsFencedSlot
<1>1. SInv /\ [Next]_vars => [Slot!Next]_(Slot!vars)
  BY NextMaps DEF SlotStep
<1>2. Spec => [][Slot!Next]_(Slot!vars)
  BY <1>1, SInvariance, PTL DEF Spec
<1>3. Spec => Slot!Init
  BY InitMaps DEF Spec
<1> QED
  BY <1>2, <1>3 DEF ImplementsFencedSlot, Slot!Spec
=============================================================================
