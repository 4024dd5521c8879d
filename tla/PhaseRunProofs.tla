--------------------------- MODULE PhaseRunProofs ---------------------------
(***************************************************************************)
(* What PhaseRun promises of the worker thread and the children it starts, *)
(* for any number of backends one after the other, configs, components and *)
(* units and any faults: the thread never walks away from a task at work,  *)
(* and a modular phase is passed only as a whole.                          *)
(***************************************************************************)
EXTENDS PhaseRun, TaskLifecycleProofs

(* The thread is between a claim and the return to its loop.               *)
Carrying == parent.pc \notin {"loop", "ended", "down"}

(* The slot is the running backend's.                                      *)
Held == lease.live /\ lease.owner = Owner

HasToken(w) == worker[w].stage \in {"claimed", "running"}

(* One task and no export run use the slot.                                *)
Alone ==
  /\ \A u \in Task \ {T} : task[u].status \in {"absent", "evidence_review"}
  /\ \A r \in Run : run[r].status = "absent"

(* The slot goes from backend to backend in the order they start.          *)
LeaseOurs ==
  lease.live => lease.target = T /\ lease.owner \in Worker /\ lease.owner <= Owner

Counted ==
  /\ \A k \in ckpt : k.items <= NItems
  /\ \A w \in Worker : worker[w].items <= NItems

ConfigKept == \A w \in Worker : TokenValid(w) => worker[w].config = task[T].config

SlotInv == IInv /\ Alone /\ LeaseOurs /\ Counted /\ ConfigKept

(* Whose child is there: that of the running backend while it is watched,  *)
(* and those of the backends before it.                                    *)
Watching == {"inline", "poll", "killing", "down"}

ParentType ==
  [owner : Worker, pc : ParentPc, config : Config \cup {None},
   phase : WORKER_PHASES \cup {None}, comp : 0..NItems,
   msg : {"complete", "returned", "forced", "error", None},
   seen : TaskStatus \cup {"absent", "deleted", None}]

ChildType ==
  [pc : ChildPc, config : Config \cup {None}, phase : WORKER_PHASES \cup {None},
   comp : 0..NItems]

(* A child works in the phase its token is for; only the components that   *)
(* complete their phase themselves come to do so.                          *)
ChildKnows(w) ==
  child[w].pc # "none" =>
    /\ child[w].config \in Config /\ child[w].phase \in WORKER_PHASES
    /\ HasToken(w) => worker[w].phase = child[w].phase
    /\ child[w].pc = "finish" => child[w].phase \notin Modular

Children ==
  /\ parent \in ParentType
  /\ child \in [Worker -> ChildType]
  /\ \A w \in Worker : w > Owner => child[w].pc = "none"
  /\ parent.pc \notin Watching => child[Owner].pc = "none"
  /\ \A w \in Worker : ChildKnows(w)

(* While the thread carries the task and has the slot, its token is in     *)
(* force and the task is in the phase it claimed or has a request pending. *)
(* What it read of the task before it goes back is still so, as long as it *)
(* has the slot.                                                           *)
Hand ==
  /\ Carrying =>
       /\ parent.config \in Config /\ parent.phase \in WORKER_PHASES
       /\ Held => TokenValid(Owner) /\ status \in {parent.phase} \cup CONTROL_STATES
       /\ HasToken(Owner) => /\ worker[Owner].phase = parent.phase
                             /\ worker[Owner].config = parent.config
  /\ parent.pc = "record" /\ parent.seen # parent.phase /\ Held
       => status \in CONTROL_STATES
  /\ RunnerHandsBack

(* RunnerHandsBack alone is not inductive: that the thread returns without *)
(* the slot, or with a request pending, rests on what it knew all the time.*)
PhaseInv == SlotInv /\ Children /\ Hand

(* What a step does to the slot and the task unless it claims: it takes    *)
(* the slot away, or leaves it to its holder, with the task as it was or   *)
(* with a request.                                                         *)
KeepsToken(w) ==
  HasToken(w)' => /\ HasToken(w)
                  /\ worker'[w].target = worker[w].target
                  /\ worker'[w].epoch = worker[w].epoch
                  /\ worker'[w].phase = worker[w].phase
                  /\ worker'[w].config = worker[w].config

Steady ==
  /\ lease'.live =>
       /\ lease' = lease
       /\ task'[T].status \in {status} \cup CONTROL_STATES
       /\ status \in CONTROL_STATES => task'[T].status \in CONTROL_STATES
       /\ task'[T].epoch = task[T].epoch
       /\ task'[T].config = task[T].config
  /\ Alone'
  /\ Counted'
  /\ \A w \in Worker : KeepsToken(w)

(* The task does not leave a phase for the next one.                       *)
Stays == status \in WORKER_PHASES => task'[T].status \notin {"queued", "evidence_review"}

-----------------------------------------------------------------------------
LEMMA TheTask ==
  /\ T \in Task /\ T \notin Run /\ T # None
  /\ NItems \in Nat /\ Worker \subseteq Nat /\ None \notin Worker
BY TaskAssumption, IdAssumption, NoneAssumption, CountAssumption, OwnerAssumption DEF T

LEMMA Statuses ==
  /\ ActiveStatus = WORKER_PHASES \cup CONTROL_STATES
  /\ WORKER_PHASES \cap CONTROL_STATES = {}
  /\ {"absent", "deleted", "draft", "queued", "paused", "evidence_review", "completed",
      "terminated", "failed"} \cap ActiveStatus = {}
BY DEF ActiveStatus, WORKER_PHASES, CONTROL_STATES

(* What SlotInv says of the one row.                                       *)
LEMMA TheRow ==
  ASSUME SlotInv
  PROVE  /\ task \in [Task -> TaskRow] /\ task[T] \in TaskRow
         /\ lease \in LeaseRow /\ worker \in [Worker -> WorkerMemory]
         /\ run \in [Run -> RunRow] /\ ckpt \subseteq CheckpointRow
         /\ lease.target \in {T, None}
         /\ lease.target = T <=> status \in ActiveStatus
         /\ lease.live => lease.target = T /\ status \in ActiveStatus
         /\ \A w \in Worker : TokenValid(w) =>
              /\ HasToken(w) /\ worker[w].target = T /\ lease.target = T /\ lease.live
              /\ lease.owner = w
              /\ task[T].config = worker[w].config /\ task[T].config \in Config
<1>1. /\ task \in [Task -> TaskRow] /\ lease \in LeaseRow
      /\ worker \in [Worker -> WorkerMemory]
      /\ run \in [Run -> RunRow] /\ ckpt \subseteq CheckpointRow
  BY DEF SlotInv, IInv, RowsTypeOK
<1>2. task[T] \in TaskRow
  BY <1>1, TheTask
<1>3. lease.target \in {T, None}
  <2>1. \A u \in Task \ {T} : lease.target # u
    BY Statuses DEF SlotInv, IInv, SlotConsistent, HasLease, Alone
  <2>2. \A r \in Run : lease.target # r
    <3>1. "absent" \notin RUN_ACTIVE
      BY DEF RUN_ACTIVE
    <3> QED
      BY <3>1 DEF SlotInv, IInv, SlotConsistent, HasLease, Alone
  <2> QED
    BY <1>1, <2>1, <2>2 DEF LeaseRow
<1>4. lease.target = T <=> status \in ActiveStatus
  BY TheTask DEF SlotInv, IInv, SlotConsistent, HasLease, status
<1>5. lease.live => lease.target = T
  BY DEF SlotInv, LeaseOurs
<1>6. ASSUME NEW w \in Worker, TokenValid(w)
      PROVE  /\ HasToken(w) /\ worker[w].target = T /\ lease.target = T /\ lease.live
             /\ lease.owner = w
             /\ task[T].config = worker[w].config /\ task[T].config \in Config
  <2>1. /\ HasToken(w) /\ worker[w].target = T /\ lease.target = T /\ lease.live
        /\ lease.owner = w
    BY <1>5, <1>6 DEF TokenValid, HasToken
  <2>2. worker[w].config \in Config
    BY <2>1, IInvParts DEF SlotInv, MemoryOK, WorkerMemory, HasToken
  <2> QED
    BY <1>6, <2>1, <2>2 DEF SlotInv, ConfigKept
<1> QED
  BY <1>1, <1>2, <1>3, <1>4, <1>5, <1>6

LEMMA SlotKept ==
  ASSUME SlotInv, Steady, IInv', parent'.owner \in Worker, Owner \in Worker,
         parent'.owner >= Owner
  PROVE  SlotInv'
<1>1. LeaseOurs'
  <2> SUFFICES ASSUME lease'.live
               PROVE  lease'.target = T /\ lease'.owner \in Worker
                      /\ lease'.owner <= parent'.owner
    BY DEF LeaseOurs, Owner
  <2>1. lease' = lease /\ lease.live
    BY DEF Steady
  <2>2. lease.target = T /\ lease.owner \in Worker /\ lease.owner <= parent.owner
    BY <2>1 DEF SlotInv, LeaseOurs, Owner
  <2>3. lease.owner \in Nat /\ parent.owner \in Nat /\ parent'.owner \in Nat
    BY <2>2, TheTask DEF Owner
  <2>4. parent.owner <= parent'.owner
    BY DEF Owner
  <2> QED
    BY <2>1, <2>2, <2>3, <2>4
<1>2. ASSUME NEW w \in Worker, TokenValid(w)' PROVE worker'[w].config = task'[T].config
  <2>1. lease'.live /\ HasToken(w)' /\ lease'.target = worker'[w].target
    BY <1>2 DEF TokenValid, HasToken
  <2>2. /\ HasToken(w) /\ worker'[w].target = worker[w].target
        /\ worker'[w].epoch = worker[w].epoch /\ worker'[w].config = worker[w].config
        /\ lease' = lease /\ task'[T].epoch = task[T].epoch
        /\ task'[T].config = task[T].config
    BY <2>1 DEF Steady, KeepsToken
  <2>3. worker[w].target = T
    BY <2>1, <2>2 DEF SlotInv, LeaseOurs
  <2>4. TokenValid(w)
    BY <1>2, <2>1, <2>2, <2>3 DEF TokenValid, HasToken
  <2> QED
    BY <2>2, <2>4 DEF SlotInv, ConfigKept
<1> QED
  BY <1>1, <1>2 DEF SlotInv, Steady, ConfigKept

-----------------------------------------------------------------------------
(* The calls of the task service.                                          *)

LEMMA QuietSteady ==
  ASSUME SlotInv, UNCHANGED vars PROVE IInv' /\ Steady /\ Stays
<1>1. /\ task' = task /\ run' = run /\ lease' = lease /\ ckpt' = ckpt /\ worker' = worker
  BY DEF vars
<1>2. IInv'
  BY NextSound DEF SlotInv
<1>3. Alone' /\ Counted'
  BY <1>1 DEF SlotInv, Alone, Counted
<1> QED
  BY <1>1, <1>2, <1>3, Statuses DEF Steady, Stays, KeepsToken, HasToken, status

(* A step that only changes what one worker remembers.                     *)
LEMMA MemorySteady ==
  ASSUME SlotInv, NEW w \in Worker, UNCHANGED db, IInv',
         \A v \in Worker \ {w} : worker'[v] = worker[v],
         KeepsToken(w), worker'[w].items <= NItems
  PROVE  Steady /\ Stays
<1>1. /\ task' = task /\ run' = run /\ lease' = lease /\ ckpt' = ckpt
  BY DEF db
<1>2. Alone' /\ Counted'
  BY <1>1 DEF SlotInv, Alone, Counted
<1>3. \A v \in Worker : KeepsToken(v)
  BY DEF KeepsToken, HasToken
<1> QED
  BY <1>1, <1>2, <1>3, Statuses DEF Steady, Stays, status

LEMMA CrashSteady ==
  ASSUME SlotInv, NEW w \in Worker, Crash(w)
  PROVE  IInv' /\ Steady /\ Stays /\ \A v \in Worker \ {w} : worker'[v] = worker[v]
<1>1. IInv' /\ UNCHANGED db
  BY CrashSound DEF SlotInv, Crash
<1>2. worker'[w] = Idle /\ \A v \in Worker \ {w} : worker'[v] = worker[v]
  BY TheRow DEF Crash
<1>3. KeepsToken(w) /\ worker'[w].items <= NItems
  BY <1>2, TheTask DEF KeepsToken, HasToken, Idle
<1> QED
  BY <1>1, <1>2, <1>3, MemorySteady

LEMMA ReadSteady ==
  ASSUME SlotInv, NEW w \in Worker, ReadResumePoint(w)
  PROVE  /\ IInv' /\ Steady /\ Stays
         /\ \A v \in Worker : HasToken(v) => HasToken(v)'
<1>1. IInv' /\ UNCHANGED db
  BY ReadResumePointSound DEF SlotInv, ReadResumePoint
<1>2. PICK batch \in 0..(NItems + MaxControl), items \in 0..NItems :
        worker' = [worker EXCEPT ![w].stage = "running", ![w].batch = batch,
                                 ![w].items = items]
  BY DEF ReadResumePoint
<1>3. worker[w] \in WorkerMemory /\ worker[w].stage = "claimed"
  BY TheRow DEF ReadResumePoint
<1>4. /\ worker'[w] = [worker[w] EXCEPT !.stage = "running", !.batch = batch, !.items = items]
      /\ \A v \in Worker \ {w} : worker'[v] = worker[v]
  BY <1>2, TheRow
<1>5. KeepsToken(w) /\ HasToken(w)' /\ worker'[w].items <= NItems
  BY <1>3, <1>4, TheTask DEF KeepsToken, HasToken, WorkerMemory
<1> QED
  BY <1>1, <1>4, <1>5, MemorySteady DEF HasToken

(* A step that gives the slot back.                                        *)
LEMMA ReleaseSteady ==
  ASSUME SlotInv, NEW w \in Worker, TokenValid(w), IInv', lease' = NoLease, run' = run,
         \A u \in Task \ {T} : task'[u] = task[u],
         \A v \in Worker \ {w} : worker'[v] = worker[v],
         worker'[w] = Idle,
         \A k \in ckpt' : k.items <= NItems
  PROVE  Steady
<1>1. Alone'
  BY DEF SlotInv, Alone
<1>2. Counted'
  BY TheTask DEF SlotInv, Counted, Idle
<1>3. \A v \in Worker : KeepsToken(v)
  BY DEF KeepsToken, HasToken, Idle
<1> QED
  BY <1>1, <1>2, <1>3 DEF Steady, NoLease

(* The calls that give it back: only a completed phase leads to the next.  *)
GivesUp(w) ==
  \/ ControlBatch(w, TRUE) \/ FailWorker(w)
  \/ PauseClaimedBeforeWork(w) \/ HonorClaimedControlBeforeWork(w)
  \/ RecoverWorkerAfterProcessStop(w)

GivesBack(w) == LeavePhase(w) \/ GivesUp(w)

LEMMA GivenBack ==
  ASSUME SlotInv, NEW w \in Worker, GivesBack(w)
  PROVE  /\ IInv' /\ Steady /\ lease' = NoLease
         /\ \A v \in Worker \ {w} : worker'[v] = worker[v]
         /\ TokenValid(w)
         /\ GivesUp(w) => Stays
<1>1. IInv'
  BY LeavePhaseSound, ControlBatchSound, FailWorkerSound, PauseClaimedBeforeWorkSound,
     HonorClaimedControlSound, RecoverWorkerSound DEF SlotInv, GivesBack, GivesUp
<1>2. TokenValid(w)
  BY DEF GivesBack, GivesUp, LeavePhase, ControlBatch, CommitBatch, FailWorker,
         PauseClaimedBeforeWork, HonorClaimedControlBeforeWork,
         RecoverWorkerAfterProcessStop
<1>3. /\ worker[w].target = T /\ HasLease(T) /\ status \in ActiveStatus
      /\ task \in [Task -> TaskRow] /\ task[T] \in TaskRow /\ T \in Task
      /\ worker \in [Worker -> WorkerMemory]
  BY <1>2, TheRow, TheTask DEF HasLease
<1>4. ASSUME ~ ControlBatch(w, TRUE)
      PROVE  /\ lease' = NoLease /\ run' = run /\ worker' = [worker EXCEPT ![w] = Idle]
             /\ ckpt' = ckpt /\ \E row : task' = [task EXCEPT ![T] = row]
  <2>1. CASE LeavePhase(w)
    BY <1>3, <2>1 DEF LeavePhase, Released
  <2>2. CASE FailWorker(w)
    BY <1>3, <2>2 DEF FailWorker, Surrender, Released
  <2>3. CASE PauseClaimedBeforeWork(w)
    BY <1>3, <2>3 DEF PauseClaimedBeforeWork, Surrender, Released
  <2>4. CASE HonorClaimedControlBeforeWork(w) \/ RecoverWorkerAfterProcessStop(w)
    BY <1>3, <2>4 DEF HonorClaimedControlBeforeWork, RecoverWorkerAfterProcessStop,
       Surrender, Released
  <2> QED
    BY <1>4, <2>1, <2>2, <2>3, <2>4 DEF GivesBack, GivesUp
<1>5. GivesUp(w) => Stays
  <2>1. ASSUME task[T].status \in CONTROL_STATES
        PROVE  Stays
    BY <2>1, Statuses DEF Stays, status
  <2>2. CASE ControlBatch(w, TRUE)
    BY <1>3, <2>1, <2>2 DEF ControlBatch
  <2>3. CASE FailWorker(w)
    BY <1>3, <2>3 DEF FailWorker, Surrender, Stays, TaskRow
  <2>4. CASE PauseClaimedBeforeWork(w)
    BY <1>3, <2>4 DEF PauseClaimedBeforeWork, Surrender, Stays, TaskRow
  <2>5. CASE HonorClaimedControlBeforeWork(w) \/ RecoverWorkerAfterProcessStop(w)
    BY <1>3, <2>1, <2>5 DEF HonorClaimedControlBeforeWork, RecoverWorkerAfterProcessStop
  <2> QED
    BY <2>2, <2>3, <2>4, <2>5 DEF GivesUp
<1>6. CASE ControlBatch(w, TRUE)
  <2>1. PICK completed : CommitBatch(w, worker[w].items, completed, TRUE)
    BY <1>6 DEF ControlBatch
  <2>2. task[T].status \in CONTROL_STATES
    BY <1>3, <1>6 DEF ControlBatch
  <2>3. /\ lease' = NoLease /\ run' = run /\ worker' = [worker EXCEPT ![w] = Idle]
        /\ task' = [task EXCEPT
             ![T] = ControlApplied([task[T] EXCEPT !.progress = completed])]
    BY <1>3, <2>1, <2>2 DEF CommitBatch
  <2>4. \A k \in ckpt' : k.items <= NItems
    BY <2>1 DEF SlotInv, Counted, CommitBatch
  <2>5. /\ \A u \in Task \ {T} : task'[u] = task[u]
        /\ worker'[w] = Idle /\ \A v \in Worker \ {w} : worker'[v] = worker[v]
    BY <1>3, <2>3
  <2> QED
    BY <1>1, <1>2, <1>5, <2>3, <2>4, <2>5, ReleaseSteady
<1>7. CASE ~ ControlBatch(w, TRUE)
  <2>1. /\ \A u \in Task \ {T} : task'[u] = task[u]
        /\ worker'[w] = Idle /\ \A v \in Worker \ {w} : worker'[v] = worker[v]
    BY <1>3, <1>4, <1>7
  <2>2. \A k \in ckpt' : k.items <= NItems
    BY <1>4, <1>7 DEF SlotInv, Counted
  <2> QED
    BY <1>1, <1>2, <1>4, <1>7, <1>5, <2>1, <2>2, ReleaseSteady
<1> QED
  BY <1>6, <1>7

(* A batch of work: the worker goes on with it, or a request took effect.  *)
LEMMA BatchSteady ==
  ASSUME SlotInv, NEW w \in Worker, NEW items \in 0..NItems,
         CommitBatch(w, items, items, TRUE)
  PROVE  /\ IInv' /\ Steady /\ Stays
         /\ lease' = NoLease \/ \A v \in Worker : HasToken(v) => HasToken(v)'
         /\ \A v \in Worker \ {w} : worker'[v] = worker[v]
         /\ task'[T].status \in {status, "paused", "terminated"}
         /\ task'[T].status = status => worker'[w].items = items
         /\ TokenValid(w) /\ status \in ActiveStatus
<1>0. items \in Nat /\ NItems \in Nat
  BY TheTask
<1>1. IInv' /\ TokenValid(w)
  BY <1>0, CommitBatchSound DEF SlotInv, CommitBatch
<1>2. /\ worker[w].target = T /\ status \in ActiveStatus
      /\ task \in [Task -> TaskRow] /\ task[T] \in TaskRow /\ T \in Task
      /\ worker \in [Worker -> WorkerMemory] /\ worker[w] \in WorkerMemory
      /\ worker[w].stage = "running"
  BY <1>1, TheRow, TheTask DEF CommitBatch
<1>3. \A k \in ckpt' : k.items <= NItems
  BY <1>0 DEF SlotInv, Counted, CommitBatch
<1>4. CASE status \in CONTROL_STATES
  <2>1. /\ lease' = NoLease /\ run' = run /\ worker' = [worker EXCEPT ![w] = Idle]
        /\ task' = [task EXCEPT ![T] = ControlApplied([task[T] EXCEPT !.progress = items])]
    BY <1>2, <1>4 DEF CommitBatch, status
  <2>2. task'[T].status \in {"paused", "terminated"}
    BY <1>2, <2>1 DEF ControlApplied, TaskRow
  <2>3. /\ \A u \in Task \ {T} : task'[u] = task[u]
        /\ worker'[w] = Idle /\ \A v \in Worker \ {w} : worker'[v] = worker[v]
    BY <1>2, <2>1
  <2>4. Stays
    BY <2>2 DEF Stays
  <2>5. task'[T].status # status
    BY <1>2, <2>2, Statuses
  <2>6. Steady
    BY <1>1, <1>3, <2>1, <2>3, ReleaseSteady
  <2> QED
    BY <1>1, <1>2, <2>1, <2>2, <2>3, <2>4, <2>5, <2>6
<1>5. CASE status \notin CONTROL_STATES
  <2>1. /\ lease' = lease /\ run' = run
        /\ worker' = [worker EXCEPT ![w] = [worker[w] EXCEPT !.batch = worker[w].batch + 1,
                                                           !.items = items]]
        /\ task' = [task EXCEPT ![T] = [task[T] EXCEPT !.progress = items]]
    BY <1>2, <1>5 DEF CommitBatch, status
  <2>2. /\ task'[T].status = status /\ task'[T].epoch = task[T].epoch
        /\ task'[T].config = task[T].config
        /\ \A u \in Task \ {T} : task'[u] = task[u]
    BY <1>2, <2>1 DEF TaskRow, status
  <2>3. \A v \in Worker \ {w} : worker'[v] = worker[v]
    BY <1>2, <2>1
  <2>4. KeepsToken(w) /\ HasToken(w)' /\ worker'[w].items = items
    BY <1>2, <2>1 DEF KeepsToken, HasToken, WorkerMemory
  <2>5. \A v \in Worker : KeepsToken(v) /\ (HasToken(v) => HasToken(v)')
    BY <2>3, <2>4 DEF KeepsToken, HasToken
  <2>6. Alone'
    BY <2>1, <2>2 DEF SlotInv, Alone
  <2>7. Counted'
    BY <1>0, <1>3, <2>3, <2>4 DEF SlotInv, Counted
  <2>8. Steady
    BY <2>1, <2>2, <2>5, <2>6, <2>7 DEF Steady
  <2>9. Stays
    BY <2>2, Statuses DEF Stays
  <2> QED
    BY <1>1, <1>2, <2>2, <2>3, <2>4, <2>5, <2>8, <2>9
<1> QED
  BY <1>4, <1>5

(* A request of the API.                                                   *)
Requests ==
  \/ \E c \in Config : CreateTask(T, c)
  \/ QueueTask(T) \/ RequestPause(T) \/ ResumeTask(T)
  \/ \E force \in BOOLEAN : RequestTerminate(T, force)

LEMMA RequestSteady ==
  ASSUME SlotInv, Requests PROVE IInv' /\ Steady /\ Stays /\ worker' = worker
<1>1. IInv'
  BY TheTask, CreateTaskSound, QueueTaskSound, RequestPauseSound, ResumeTaskSound,
     RequestTerminateSound DEF SlotInv, Requests
<1>2. run' = run /\ ckpt' = ckpt /\ worker' = worker
  BY DEF Requests, CreateTask, QueueTask, RequestPause, ResumeTask, RequestTerminate
<1>3. \A u \in Task \ {T} : task'[u] = task[u]
  BY TheRow DEF Requests, CreateTask, QueueTask, RequestPause, ResumeTask, RequestTerminate
<1>4. /\ T \in Task /\ task \in [Task -> TaskRow] /\ task[T] \in TaskRow
      /\ lease.live => HasLease(T) /\ status \in ActiveStatus
  BY TheRow, TheTask DEF HasLease
<1>5. /\ lease'.live =>
           /\ lease' = lease
           /\ task'[T].status \in {status} \cup CONTROL_STATES
           /\ status \in CONTROL_STATES => task'[T].status \in CONTROL_STATES
           /\ task'[T].epoch = task[T].epoch
           /\ task'[T].config = task[T].config
      /\ Stays
  <2>1. ASSUME NEW c \in Config, CreateTask(T, c) PROVE ~lease'.live /\ Stays
    BY <1>4, <2>1, Statuses DEF CreateTask, Stays, status
  <2>2. CASE QueueTask(T) \/ ResumeTask(T)
    BY <1>4, <2>2, Statuses DEF QueueTask, ResumeTask, Stays, status
  <2>3. CASE RequestPause(T)
    <3>1. CASE status = "queued"
      BY <1>4, <2>3, <3>1, Statuses DEF RequestPause, Stays, status
    <3>2. CASE status \in WORKER_PHASES
      <4>1. task' = [task EXCEPT ![T] = [task[T] EXCEPT
                       !.resume = status, !.status = IF HasLease(T) THEN "pausing" ELSE "paused"]]
        BY <1>4, <2>3, <3>2, Statuses DEF RequestPause, status, TaskRow
      <4>2. /\ task'[T].status = IF HasLease(T) THEN "pausing" ELSE "paused"
            /\ task'[T].epoch = task[T].epoch /\ task'[T].config = task[T].config
        BY <1>4, <4>1 DEF TaskRow
      <4>3. lease' = lease
        BY <2>3 DEF RequestPause
      <4> QED
        BY <1>4, <3>2, <4>2, <4>3, Statuses DEF Stays, CONTROL_STATES
    <3> QED
      BY <2>3, <3>1, <3>2 DEF RequestPause, status
  <2>4. ASSUME NEW force \in BOOLEAN, RequestTerminate(T, force)
        PROVE  /\ lease'.live =>
                    /\ lease' = lease
                    /\ task'[T].status = "terminating"
                    /\ task'[T].epoch = task[T].epoch
                    /\ task'[T].config = task[T].config
               /\ Stays
    <3>1. CASE /\ lease' = Released(T)
               /\ task' = [task EXCEPT ![T].status = "terminated", ![T].resume = None,
                                       ![T].epoch  = task[T].epoch + 1]
      <4>1. ~lease'.live
        BY <1>4, <3>1 DEF Released, NoLease
      <4>2. task'[T].status = "terminated"
        BY <1>4, <3>1 DEF TaskRow
      <4> QED
        BY <4>1, <4>2 DEF Stays
    <3>2. CASE /\ task' = [task EXCEPT
                             ![T].status = "terminating",
                             ![T].resume = IF task[T].status \in WORKER_PHASES THEN task[T].status
                                                         ELSE task[T].resume]
               /\ lease' = lease
      <4>1. /\ task'[T].status = "terminating" /\ task'[T].epoch = task[T].epoch
            /\ task'[T].config = task[T].config
        BY <1>4, <3>2 DEF TaskRow
      <4> QED
        BY <3>2, <4>1 DEF Stays
    <3> QED
      BY <2>4, <3>1, <3>2 DEF RequestTerminate
  <2> QED
    BY <2>1, <2>2, <2>3, <2>4 DEF Requests, CONTROL_STATES
<1>6. Alone' /\ Counted' /\ \A w \in Worker : KeepsToken(w)
  BY <1>2, <1>3 DEF SlotInv, Alone, Counted, KeepsToken, HasToken
<1> QED
  BY <1>1, <1>2, <1>5, <1>6 DEF Steady

LEMMA ExpireSteady ==
  ASSUME SlotInv, LeaseExpires PROVE IInv' /\ Steady /\ Stays /\ worker' = worker
<1>1. IInv'
  BY LeaseExpiresSound DEF SlotInv
<1>2. task' = task /\ run' = run /\ ckpt' = ckpt /\ worker' = worker
  BY DEF LeaseExpires
<1>3. ~lease'.live
  BY TheRow DEF LeaseExpires, LeaseRow
<1> QED
  BY <1>1, <1>2, <1>3, Statuses
     DEF SlotInv, Steady, Stays, Alone, Counted, KeepsToken, HasToken, status

(* What recovery leaves of the task that held an expired lease.            *)
LEMMA RecoveredRows ==
  ASSUME SlotInv
  PROVE  /\ RunsRecovered = run
         /\ \A u \in Task \ {T} : TasksRecovered[u] = task[u]
         /\ status \in WORKER_PHASES =>
               TasksRecovered[T].status \notin {"queued", "evidence_review"}
         /\ TasksRecovered[T].config = task[T].config
<1>1. /\ task \in [Task -> TaskRow] /\ task[T] \in TaskRow /\ T \in Task /\ T \notin Run
      /\ lease.target \in {T, None} /\ None \notin Task \cup Run
      /\ status \in WORKER_PHASES => lease.target = T
  BY TheRow, TheTask, NoneAssumption, Statuses
<1>2. CASE lease.target = T
  <2>1. TasksRecovered = [task EXCEPT ![T] = RecoveredTask(task[T])] /\ RunsRecovered = run
    BY <1>1, <1>2 DEF TasksRecovered, RunsRecovered
  <2>2. /\ RecoveredTask(task[T]).status \in {"terminated", "paused"}
        /\ RecoveredTask(task[T]).config = task[T].config
    BY <1>1 DEF RecoveredTask, TaskRow
  <2> QED
    BY <1>1, <2>1, <2>2
<1>3. CASE lease.target = None
  BY <1>1, <1>3 DEF TasksRecovered, RunsRecovered
<1> QED
  BY <1>1, <1>2, <1>3

LEMMA RecoverSteady ==
  ASSUME SlotInv, RecoverStaleLeases PROVE IInv' /\ Steady /\ Stays /\ worker' = worker
<1>1. IInv'
  BY RecoverStaleLeasesSound DEF SlotInv
<1>2. /\ task' = TasksRecovered /\ run' = RunsRecovered /\ ckpt' = ckpt
      /\ worker' = worker /\ lease' = NoLease
  BY DEF RecoverStaleLeases
<1> QED
  BY <1>1, <1>2, RecoveredRows
     DEF SlotInv, Steady, Stays, Alone, Counted, KeepsToken, HasToken, NoLease

(* The one step that fills the slot.                                       *)
LEMMA ClaimSteady ==
  ASSUME SlotInv, Owner \in Worker, ClaimNext(Owner), parent'.owner = Owner
  PROVE  /\ SlotInv' /\ Stays
         /\ \A w \in Worker \ {Owner} : worker'[w] = worker[w]
         /\ \/ /\ lease' = NoLease
               /\ worker' = worker /\ worker[Owner].stage = "idle"
            \/ /\ worker'[Owner].stage = "claimed"
               /\ worker'[Owner].phase \in WORKER_PHASES
               /\ worker'[Owner].config \in Config
               /\ TokenValid(Owner)'
               /\ task'[T].status = worker'[Owner].phase
<1>1. IInv' /\ ckpt' = ckpt /\ worker[Owner].stage = "idle"
  BY ClaimNextSound DEF SlotInv, ClaimNext
<1>2. /\ T \in Task /\ T \notin Run /\ T # None /\ task \in [Task -> TaskRow]
      /\ worker \in [Worker -> WorkerMemory] /\ NItems \in Nat
  BY TheTask, TheRow
<1>3. /\ \A r \in Run : RunsRecovered[r].status # "queued"
      /\ \A u \in Task \ {T} : TasksRecovered[u].status # "queued"
      /\ TasksRecovered \in [Task -> TaskRow]
  <2>1. /\ \A r \in Run : RunsRecovered[r].status # "queued"
        /\ \A u \in Task \ {T} : TasksRecovered[u].status # "queued"
    BY RecoveredRows DEF SlotInv, Alone
  <2> QED
    BY <2>1, TasksRecoveredSound DEF SlotInv
<1>4. CASE /\ task' = TasksRecovered /\ run' = RunsRecovered
           /\ lease' = NoLease /\ UNCHANGED worker
  <2>1. Stays
    BY <1>4, RecoveredRows DEF Stays
  <2>2. Alone' /\ Counted'
    BY <1>1, <1>4, RecoveredRows DEF SlotInv, Alone, Counted
  <2>3. LeaseOurs' /\ ConfigKept'
    BY <1>4 DEF LeaseOurs, ConfigKept, NoLease, TokenValid
  <2> QED
    BY <1>1, <1>4, <2>1, <2>2, <2>3 DEF SlotInv
<1>5. CASE TasksRecovered[T].status = "queued" /\ GrantTask(Owner, T)
  <2>1. PICK row : row = TasksRecovered[T]
    OBVIOUS
  <2>2. row \in TaskRow
    BY <1>2, <1>3, <2>1
  <2>3. /\ task' = [TasksRecovered EXCEPT ![T].status = row.resume,
                                          ![T].resume = None,
                                          ![T].epoch  = NextEpoch(row)]
        /\ run' = RunsRecovered
        /\ lease' = [target |-> T, owner |-> Owner, epoch |-> NextEpoch(row), live |-> TRUE]
        /\ worker' = [worker EXCEPT ![Owner] =
             [stage |-> "claimed", target |-> T, epoch |-> NextEpoch(row),
              phase |-> row.resume, config |-> row.config, batch |-> 0, items |-> 0]]
    BY <1>5, <2>1 DEF GrantTask
  <2>4. /\ task'[T].status = row.resume /\ task'[T].epoch = NextEpoch(row)
        /\ task'[T].config = row.config
        /\ \A u \in Task \ {T} : task'[u] = task[u]
    BY <1>2, <1>3, <2>1, <2>2, <2>3, RecoveredRows DEF TaskRow
  <2>5. /\ worker'[Owner] = [stage |-> "claimed", target |-> T, epoch |-> NextEpoch(row),
              phase |-> row.resume, config |-> row.config, batch |-> 0, items |-> 0]
        /\ \A w \in Worker \ {Owner} : worker'[w] = worker[w]
    BY <1>2, <2>3
  <2>6. TokenValid(Owner)' /\ \A w \in Worker \ {Owner} : ~TokenValid(w)'
    <3>1. TokenValid(Owner)'
      <4>1. PICK w \in Worker : w = Owner /\ w = Owner'
        BY DEF Owner
      <4>2. /\ lease'.target = T /\ lease'.owner = w /\ lease'.epoch = NextEpoch(row)
            /\ lease'.live
        BY <2>3, <4>1
      <4>3. /\ worker'[w].stage = "claimed" /\ worker'[w].target = T
            /\ worker'[w].epoch = NextEpoch(row)
        BY <2>5, <4>1
      <4>4. task'[worker'[w].target].epoch = worker'[w].epoch
        BY <2>4, <4>3
      <4>5. TokenValid(w)'
        BY <4>2, <4>3, <4>4 DEF TokenValid
      <4> QED
        BY <4>1, <4>5, Zenon
    <3>2. \A w \in Worker \ {Owner} : ~TokenValid(w)'
      BY <2>3 DEF TokenValid
    <3> QED
      BY <3>1, <3>2
  <2>7. worker'[Owner].phase \in WORKER_PHASES /\ worker'[Owner].config \in Config
    <3>1. MemorySound' /\ RowsTypeOK'
      BY <1>1 DEF IInv
    <3>2. worker'[Owner] \in WorkerMemory
      BY <3>1 DEF RowsTypeOK
    <3>3. worker'[Owner].phase # None /\ worker'[Owner].config # None
      BY <2>5, <3>1 DEF MemorySound
    <3> QED
      BY <3>2, <3>3 DEF WorkerMemory
  <2>8. Stays
    BY <1>5, RecoveredRows DEF Stays
  <2>9. Alone' /\ Counted'
    <3>1. Alone'
      BY <2>3, <2>4, RecoveredRows DEF SlotInv, Alone
    <3>2. Counted'
      BY <1>1, <1>2, <2>5 DEF SlotInv, Counted
    <3> QED
      BY <3>1, <3>2
  <2>10. LeaseOurs'
    <3>1. lease'.target = T /\ lease'.owner = Owner /\ parent'.owner = Owner
      BY <2>3
    <3>2. Owner <= Owner
      BY TheTask
    <3> QED
      BY <3>1, <3>2 DEF LeaseOurs, Owner
  <2>11. ConfigKept'
    BY <2>4, <2>5, <2>6 DEF ConfigKept
  <2> QED
    BY <1>1, <2>4, <2>5, <2>6, <2>7, <2>8, <2>9, <2>10, <2>11 DEF SlotInv
<1>6. \/ TasksRecovered[T].status = "queued" /\ GrantTask(Owner, T)
      \/ /\ task' = TasksRecovered /\ run' = RunsRecovered
         /\ lease' = NoLease /\ UNCHANGED worker
  <2>1. ~ \E r \in Run : RunsRecovered[r].status = "queued" /\ GrantRun(Owner, r)
    BY <1>3
  <2>2. ASSUME NEW t \in Task, TasksRecovered[t].status = "queued", GrantTask(Owner, t)
        PROVE  TasksRecovered[T].status = "queued" /\ GrantTask(Owner, T)
    BY <1>3, <2>2
  <2> QED
    BY <2>1, <2>2 DEF ClaimNext
<1> QED
  BY <1>4, <1>5, <1>6

-----------------------------------------------------------------------------
(* What the thread and the children know, along the kinds of steps.        *)

Rests == {"loop", "ended", "down"}

(* The token the thread carries is in force after a step that leaves it    *)
(* the slot.                                                               *)
LEMMA TokenCarried ==
  ASSUME SlotInv, Owner \in Worker, TokenValid(Owner), Steady, lease'.live,
         HasToken(Owner) => HasToken(Owner)', parent'.owner = parent.owner
  PROVE  TokenValid(Owner)'
<1>1. PICK w \in Worker : w = Owner /\ w = Owner'
  BY DEF Owner
<1>2. TokenValid(w) /\ HasToken(w) /\ worker[w].target = T
  BY <1>1, TheRow
<1>3. HasToken(w)'
  BY <1>1, <1>2 DEF HasToken
<1>4. /\ worker'[w].target = worker[w].target /\ worker'[w].epoch = worker[w].epoch
      /\ lease' = lease /\ task'[T].epoch = task[T].epoch
  BY <1>3 DEF Steady, KeepsToken
<1>5. TokenValid(w)'
  BY <1>2, <1>3, <1>4 DEF TokenValid, HasToken
<1> QED
  BY <1>1, <1>5, Zenon

(* The thread goes on with the task it carries.                            *)
LEMMA HandGoesOn ==
  ASSUME SlotInv, Hand, Carrying, Owner \in Worker, Steady,
         parent'.owner = parent.owner, parent'.config = parent.config,
         parent'.phase = parent.phase, parent'.pc \notin Rests,
         lease'.live => (HasToken(Owner) => HasToken(Owner)'),
         \/ parent'.pc # "record"
         \/ parent'.seen = parent'.phase
         \/ UNCHANGED vars /\ parent'.seen = status
         \/ UNCHANGED parent
  PROVE  Hand'
<1>1. PICK w \in Worker : w = Owner /\ w = Owner'
  BY DEF Owner
<1>2. /\ parent.config \in Config /\ parent.phase \in WORKER_PHASES
      /\ Held => TokenValid(Owner) /\ status \in {parent.phase} \cup CONTROL_STATES
      /\ HasToken(w) => /\ worker[w].phase = parent.phase
                        /\ worker[w].config = parent.config
  BY <1>1 DEF Hand
<1>3. ASSUME Held'
      PROVE  /\ Held /\ lease'.live
             /\ task'[T].status \in {status} \cup CONTROL_STATES
             /\ status \in CONTROL_STATES => task'[T].status \in CONTROL_STATES
  BY <1>1, <1>3 DEF Held, Steady, Owner
<1>4. Held' => TokenValid(Owner)' /\ task'[T].status \in {parent'.phase} \cup CONTROL_STATES
  BY <1>2, <1>3, TokenCarried
<1>5. HasToken(w)' => /\ worker'[w].phase = parent'.phase
                      /\ worker'[w].config = parent'.config
  BY <1>2 DEF Steady, KeepsToken
<1>6. (parent'.pc = "record" /\ parent'.seen # parent'.phase /\ Held')
        => task'[T].status \in CONTROL_STATES
  <2> SUFFICES ASSUME parent'.pc = "record", parent'.seen # parent'.phase, Held'
               PROVE  task'[T].status \in CONTROL_STATES
    OBVIOUS
  <2>1. CASE UNCHANGED vars /\ parent'.seen = status
    <3>1. task' = task
      BY <2>1 DEF vars
    <3> QED
      BY <1>2, <1>3, <2>1, <3>1 DEF status
  <2>2. CASE UNCHANGED parent
    BY <1>3, <2>2 DEF Hand
  <2> QED
    BY <2>1, <2>2
<1>7. RunnerHandsBack'
  BY DEF RunnerHandsBack, Rests
<1>8. HasToken(Owner)' => /\ worker'[Owner'].phase = parent'.phase
                          /\ worker'[Owner'].config = parent'.config
  BY <1>1, <1>5, Zenon
<1> QED
  BY <1>2, <1>4, <1>6, <1>7, <1>8 DEF Hand, status

(* It is back in its loop, or gone.                                        *)
LEMMA HandRests ==
  ASSUME parent'.pc \in Rests,
         parent'.pc # "down" /\ Held' => task'[T].status \in CONTROL_STATES
  PROVE  Hand'
BY DEF Hand, Carrying, Rests, RunnerHandsBack, Held, status

(* A step of somebody else.                                                *)
LEMMA HandQuiet ==
  ASSUME SlotInv, Hand, Owner \in Worker, Steady, UNCHANGED parent,
         lease'.live => (HasToken(Owner) => HasToken(Owner)')
  PROVE  Hand'
<1>1. CASE Carrying
  BY <1>1, HandGoesOn DEF Carrying, Rests
<1>2. CASE ~Carrying
  <2>1. Held' /\ parent.pc # "down" => task'[T].status \in CONTROL_STATES
    BY <1>2 DEF Hand, RunnerHandsBack, Held, Steady, Carrying, Owner
  <2> QED
    BY <1>2, <2>1, HandRests DEF Carrying, Rests
<1> QED
  BY <1>1, <1>2

(* The children, when nothing of them changes but what a token says.       *)
LEMMA ChildrenQuiet ==
  ASSUME Children, UNCHANGED child, parent' \in ParentType,
         parent'.owner = parent.owner,
         parent'.pc \notin Watching => parent.pc \notin Watching,
         \A w \in Worker : child[w].pc # "none" => KeepsToken(w)
  PROVE  Children'
<1>1. \A w \in Worker : w > parent'.owner => child'[w].pc = "none"
  BY DEF Children, Owner
<1>2. parent'.pc \notin Watching => child'[parent'.owner].pc = "none"
  BY DEF Children, Owner
<1>3. ASSUME NEW w \in Worker PROVE ChildKnows(w)'
  BY <1>3 DEF Children, ChildKnows, KeepsToken
<1> QED
  BY <1>1, <1>2, <1>3 DEF Children, Owner

(* A child of the running backend starts.                                  *)
LEMMA ChildrenStart ==
  ASSUME Children, Hand, Carrying, NewChild, UNCHANGED vars, parent' \in ParentType,
         parent'.owner = parent.owner, parent'.pc \in Watching
  PROVE  Children'
<1>1. Owner \in Worker /\ child \in [Worker -> ChildType] /\ worker' = worker
      /\ parent.config \in Config /\ parent.phase \in WORKER_PHASES
  BY DEF Children, ParentType, Owner, vars, Hand
<1>2. /\ child'[Owner] = [pc |-> "start", config |-> parent.config,
                          phase |-> parent.phase, comp |-> parent'.comp]
      /\ \A w \in Worker \ {Owner} : child'[w] = child[w]
  BY <1>1 DEF NewChild
<1>3. child'[Owner] \in ChildType
  BY <1>1, <1>2 DEF ChildType, ChildPc, ParentType
<1>4. child' \in [Worker -> ChildType]
  BY <1>1, <1>2, <1>3 DEF NewChild
<1>5. \A w \in Worker : w > parent'.owner => child'[w].pc = "none"
  <2>1. ~(Owner > Owner)
    BY <1>1, TheTask
  <2> QED
    BY <1>2, <2>1 DEF Children, Owner
<1>6. ASSUME NEW w \in Worker PROVE ChildKnows(w)'
  <2>1. CASE w = Owner
    <3>1. HasToken(w) => worker[w].phase = parent.phase
      BY <2>1 DEF Hand
    <3> QED
      BY <1>1, <1>2, <2>1, <3>1 DEF ChildKnows, HasToken
  <2>2. CASE w # Owner
    BY <1>1, <1>2, <2>2 DEF Children, ChildKnows, HasToken
  <2> QED
    BY <2>1, <2>2
<1> QED
  BY <1>4, <1>5, <1>6 DEF Children, Owner

(* A child ends: that of the running backend, or one of an earlier.        *)
LEMMA ChildrenEnd ==
  ASSUME Children, NEW w \in Worker, child' = [child EXCEPT ![w] = NoChild],
         parent' \in ParentType, parent'.owner = parent.owner,
         w = Owner \/ UNCHANGED parent,
         \A v \in Worker : child[v].pc # "none" => KeepsToken(v)
  PROVE  Children'
<1>1. Owner \in Worker /\ child \in [Worker -> ChildType]
  BY DEF Children, ParentType, Owner
<1>2. child'[w] = NoChild /\ \A v \in Worker \ {w} : child'[v] = child[v]
  BY <1>1
<1>3. NoChild \in ChildType /\ NoChild.pc = "none"
  BY TheTask DEF NoChild, ChildType, ChildPc
<1>4. child' \in [Worker -> ChildType]
  BY <1>1, <1>3
<1>5. \A v \in Worker : v > parent'.owner => child'[v].pc = "none"
  BY <1>2, <1>3 DEF Children, Owner
<1>6. parent'.pc \notin Watching => child'[parent'.owner].pc = "none"
  BY <1>1, <1>2, <1>3 DEF Children, Owner
<1>7. ASSUME NEW v \in Worker PROVE ChildKnows(v)'
  <2>1. CASE v = w
    BY <1>2, <1>3, <2>1 DEF ChildKnows
  <2>2. CASE v # w
    BY <1>2, <2>2 DEF Children, ChildKnows, KeepsToken
  <2> QED
    BY <2>1, <2>2
<1> QED
  BY <1>4, <1>5, <1>6, <1>7 DEF Children, Owner

(* A child goes on.                                                        *)
LEMMA ChildrenMove ==
  ASSUME Children, NEW w \in Worker, NEW pc \in ChildPc \ {"none"}, ChildTo(w, pc),
         child[w].pc # "none", UNCHANGED parent,
         pc = "finish" => child[w].phase \notin Modular,
         \A v \in Worker : KeepsToken(v)
  PROVE  Children'
<1>1. Owner \in Worker /\ child \in [Worker -> ChildType] /\ child[w] \in ChildType
  BY DEF Children, ParentType, Owner
<1>2. child'[w] = [child[w] EXCEPT !.pc = pc] /\ \A v \in Worker \ {w} : child'[v] = child[v]
  BY <1>1 DEF ChildTo
<1>3. /\ child'[w] \in ChildType /\ child'[w].pc = pc
      /\ child'[w].config = child[w].config /\ child'[w].phase = child[w].phase
  BY <1>1, <1>2 DEF ChildType
<1>4. child' \in [Worker -> ChildType]
  BY <1>1, <1>2, <1>3 DEF ChildTo
<1>5. \A v \in Worker : v > Owner => child'[v].pc = "none"
  BY <1>2 DEF Children
<1>6. parent.pc \notin Watching => child'[Owner].pc = "none"
  BY <1>1, <1>2 DEF Children
<1>7. ASSUME NEW v \in Worker PROVE ChildKnows(v)'
  <2>1. CASE v = w
    <3>1. ChildKnows(w)
      BY DEF Children
    <3> QED
      BY <1>3, <2>1, <3>1 DEF ChildKnows, KeepsToken
  <2>2. CASE v # w
    BY <1>2, <2>2 DEF Children, ChildKnows, KeepsToken
  <2> QED
    BY <2>1, <2>2
<1> QED
  BY <1>4, <1>5, <1>6, <1>7 DEF Children, Owner

-----------------------------------------------------------------------------
(* The steps of the worker thread.                                         *)

LEMMA ParentFacts ==
  ASSUME PhaseInv
  PROVE  /\ parent \in ParentType /\ Owner \in Worker /\ parent.owner \in Worker
         /\ Owner \in Nat /\ SlotInv /\ Children /\ Hand
         /\ child \in [Worker -> ChildType] /\ worker \in [Worker -> WorkerMemory]
<1>1. SlotInv /\ Children /\ Hand
  BY DEF PhaseInv
<1>2. parent \in ParentType /\ child \in [Worker -> ChildType]
  BY <1>1 DEF Children
<1>3. worker \in [Worker -> WorkerMemory]
  BY <1>1, TheRow
<1>4. parent.owner \in Worker
  BY <1>2 DEF ParentType
<1> QED
  BY <1>1, <1>2, <1>3, <1>4, TheTask DEF Owner

(* What the thread's updates leave of what it knows.                       *)
LEMMA ParentGoes ==
  ASSUME PhaseInv, NEW pc \in ParentPc, NEW comp \in 0..NItems,
         NEW msg \in {"complete", "returned", "forced", "error", None},
         NEW seen \in TaskStatus \cup {"absent", "deleted", None},
         \/ Goto(pc)
         \/ parent' = [parent EXCEPT !.pc = pc, !.msg = msg]
         \/ parent' = [parent EXCEPT !.pc = pc, !.seen = seen]
         \/ parent' = [parent EXCEPT !.comp = comp, !.msg = None, !.seen = None, !.pc = pc]
  PROVE  /\ parent' \in ParentType /\ parent'.pc = pc
         /\ parent'.owner = parent.owner /\ parent'.config = parent.config
         /\ parent'.phase = parent.phase
<1>1. parent \in ParentType
  BY ParentFacts
<1> QED
  BY <1>1 DEF Goto, ParentType

LEMMA ParentReturns ==
  ASSUME PhaseInv, NEW pc \in ParentPc, parent' = ParentAt(Owner, pc)
  PROVE  parent' \in ParentType /\ parent'.pc = pc /\ parent'.owner = parent.owner
BY ParentFacts, TheTask DEF ParentAt, ParentType, Owner

(* The thread goes on without a call of the task service.                  *)
LEMMA ThreadMoves ==
  ASSUME PhaseInv, Carrying, parent' \in ParentType, UNCHANGED vars,
         parent'.owner = parent.owner, parent'.config = parent.config,
         parent'.phase = parent.phase, parent'.pc \notin Rests,
         parent'.pc = "record" => parent'.seen = status,
         Children'
  PROVE  PhaseInv' /\ Stays
<1>1. IInv' /\ Steady /\ Stays
  BY QuietSteady, ParentFacts
<1>2. lease'.live => (HasToken(Owner) => HasToken(Owner)')
  BY DEF HasToken, vars, Owner
<1>3. Hand'
  <2>1. SlotInv /\ Hand /\ Owner \in Worker
    BY ParentFacts
  <2> QED
    BY <1>1, <1>2, <2>1, HandGoesOn
<1>4. parent'.owner \in Worker /\ parent'.owner >= Owner
  BY ParentFacts, TheTask DEF Owner
<1> QED
  BY <1>1, <1>3, <1>4, SlotKept, ParentFacts DEF PhaseInv

(* It goes on after a call that gave the slot back.                        *)
LEMMA ThreadGivesBack ==
  ASSUME PhaseInv, GivesBack(Owner), UNCHANGED child, parent.pc \notin Watching,
         parent' \in ParentType, parent'.owner = parent.owner,
         parent'.pc \notin Watching,
         \/ parent'.pc \in {"loop", "ended"}
         \/ /\ Carrying /\ parent'.config = parent.config /\ parent'.phase = parent.phase
            /\ parent'.pc \notin Rests \cup {"record"}
  PROVE  PhaseInv' /\ (GivesUp(Owner) => Stays)
<1>1. /\ IInv' /\ Steady /\ lease' = NoLease /\ (GivesUp(Owner) => Stays)
  BY GivenBack, ParentFacts
<1>2. ~lease'.live
  BY <1>1 DEF NoLease
<1>3. Hand'
  <2>1. CASE parent'.pc \in {"loop", "ended"}
    <3>1. ~Held'
      BY <1>2 DEF Held
    <3> QED
      BY <2>1, <3>1, HandRests DEF Rests
  <2>2. CASE /\ Carrying /\ parent'.config = parent.config /\ parent'.phase = parent.phase
             /\ parent'.pc \notin Rests \cup {"record"}
    BY <1>1, <1>2, <2>2, HandGoesOn, ParentFacts
  <2> QED
    BY <2>1, <2>2
<1>4. Children'
  BY <1>1, ChildrenQuiet, ParentFacts DEF Steady
<1>5. parent'.owner \in Worker /\ parent'.owner >= Owner
  BY ParentFacts, TheTask DEF Owner
<1> QED
  BY <1>1, <1>3, <1>4, <1>5, SlotKept, ParentFacts DEF PhaseInv

(* It goes back to its loop and forgets a token it may hold.               *)
LEMMA ThreadForgets ==
  ASSUME PhaseInv, NEW pc \in {"loop", "ended"}, BackToLoop(pc), UNCHANGED child,
         parent.pc \notin Watching,
         Held => status \in CONTROL_STATES
  PROVE  PhaseInv' /\ Stays
<1>1. IInv' /\ Steady /\ Stays /\ task' = task
  <2>1. CASE UNCHANGED vars
    BY <2>1, QuietSteady, ParentFacts DEF vars
  <2>2. CASE Crash(Owner)
    BY <2>2, CrashSteady, ParentFacts DEF Crash, db
  <2> QED
    BY <2>1, <2>2 DEF BackToLoop
<1>2. parent' \in ParentType /\ parent'.pc = pc /\ parent'.owner = parent.owner
  BY ParentReturns DEF BackToLoop, ParentPc
<1>3. Held' => status \in CONTROL_STATES
  BY <1>1, <1>2 DEF Held, Steady, Owner
<1>4. Hand'
  BY <1>1, <1>2, <1>3, HandRests DEF Rests, status
<1>5. Children'
  BY <1>1, <1>2, ChildrenQuiet, ParentFacts DEF Steady
<1>6. parent'.owner \in Worker /\ parent'.owner >= Owner
  BY <1>2, ParentFacts, TheTask DEF Owner
<1> QED
  BY <1>1, <1>4, <1>5, <1>6, SlotKept, ParentFacts DEF PhaseInv

(* A token that is no longer in force, found by the thread that carries it.*)
LEMMA TokenLost ==
  ASSUME PhaseInv, Carrying, ~TokenValid(Owner) PROVE ~Held
BY DEF PhaseInv, Hand

(* It moves between places where no child is watched.                      *)
LEMMA ThreadWalks ==
  ASSUME PhaseInv, Carrying, parent.pc \notin Watching, UNCHANGED <<vars, child>>,
         parent' \in ParentType,
         parent'.owner = parent.owner, parent'.config = parent.config,
         parent'.phase = parent.phase, parent'.pc \notin Rests \cup Watching,
         parent'.pc = "record" => parent'.seen = status
  PROVE  PhaseInv' /\ Stays
<1>1. \A w \in Worker : KeepsToken(w)
  BY DEF KeepsToken, HasToken, vars
<1>2. Children'
  BY <1>1, ChildrenQuiet, ParentFacts
<1> QED
  BY <1>2, ThreadMoves

LEMMA ClaimSound ==
  ASSUME PhaseInv, Claim PROVE PhaseInv' /\ Stays
<1>1. /\ parent.pc = "loop" /\ ClaimNext(Owner) /\ child' = child
      /\ parent' = IF worker'[Owner].stage = "claimed"
                     THEN [parent EXCEPT !.pc = "granted",
                                         !.config = worker'[Owner].config,
                                         !.phase = worker'[Owner].phase]
                     ELSE parent
  BY DEF Claim
<1>2. PICK w \in Worker : w = Owner
  BY ParentFacts
<1>3. parent'.owner = Owner
  BY <1>1, ParentFacts DEF ParentType, Owner
<1>4. /\ SlotInv' /\ Stays
      /\ \A v \in Worker \ {w} : worker'[v] = worker[v]
      /\ \/ /\ lease' = NoLease
            /\ worker' = worker /\ worker[w].stage = "idle"
         \/ /\ worker'[w].stage = "claimed"
            /\ worker'[w].phase \in WORKER_PHASES
            /\ worker'[w].config \in Config
            /\ TokenValid(Owner)'
            /\ task'[T].status = worker'[w].phase
  BY <1>1, <1>2, <1>3, ClaimSteady, ParentFacts
<1>5. child[w].pc = "none"
  BY <1>1, <1>2, ParentFacts DEF Children, Watching
<1>6. CASE lease' = NoLease /\ worker' = worker /\ worker[w].stage = "idle"
  <2>1. parent' = parent
    BY <1>1, <1>2, <1>6
  <2>2. Hand'
    BY <1>1, <1>6, <2>1, HandRests DEF Rests, Held, NoLease
  <2>3. \A v \in Worker : KeepsToken(v)
    BY <1>6 DEF KeepsToken, HasToken
  <2>4. Children'
    BY <1>1, <2>1, <2>3, ChildrenQuiet, ParentFacts
  <2> QED
    BY <1>4, <2>2, <2>4 DEF PhaseInv
<1>7. CASE /\ worker'[w].stage = "claimed"
           /\ worker'[w].phase \in WORKER_PHASES /\ worker'[w].config \in Config
           /\ TokenValid(Owner)' /\ task'[T].status = worker'[w].phase
  <2>1. parent' = [parent EXCEPT !.pc = "granted", !.config = worker'[w].config,
                                 !.phase = worker'[w].phase]
    BY <1>1, <1>2, <1>7
  <2>2. /\ parent' \in ParentType /\ parent'.pc = "granted" /\ parent'.owner = w
        /\ parent'.config = worker'[w].config /\ parent'.phase = worker'[w].phase
    BY <1>2, <1>7, <2>1, ParentFacts DEF ParentType, ParentPc, Owner
  <2>3. Hand'
    <3>1. worker'[parent'.owner].phase = parent'.phase
          /\ worker'[parent'.owner].config = parent'.config
      BY <2>2
    <3>2. RunnerHandsBack'
      BY <2>2 DEF RunnerHandsBack
    <3> QED
      BY <1>7, <2>2, <3>1, <3>2 DEF Hand, status, Owner
  <2>4. \A v \in Worker : child[v].pc # "none" => KeepsToken(v)
    BY <1>4, <1>5 DEF KeepsToken, HasToken
  <2>5. Children'
    BY <1>1, <1>2, <1>3, <2>2, <2>4, ChildrenQuiet, ParentFacts DEF Watching, Owner
  <2> QED
    BY <1>4, <2>3, <2>5 DEF PhaseInv
<1> QED
  BY <1>4, <1>6, <1>7

LEMMA LeaveLoopSound ==
  ASSUME PhaseInv, LeaveLoop PROVE PhaseInv' /\ Stays
<1>1. parent.pc = "loop" /\ UNCHANGED vars /\ child' = child /\ Goto("ended")
  BY DEF LeaveLoop
<1>2. /\ parent' \in ParentType /\ parent'.pc = "ended" /\ parent'.owner = parent.owner
  <2>1. "ended" \in ParentPc /\ 0 \in 0..NItems
    BY TheTask DEF ParentPc
  <2> QED
    BY <1>1, <2>1, ParentGoes
<1>3. IInv' /\ Steady /\ Stays /\ task' = task /\ lease' = lease
  BY <1>1, QuietSteady, ParentFacts DEF vars
<1>4. Hand'
  <2>1. Held' => task'[T].status \in CONTROL_STATES
    BY <1>1, <1>2, <1>3, ParentFacts DEF Held, Hand, RunnerHandsBack, Owner, status
  <2> QED
    BY <1>2, <2>1, HandRests DEF Rests
<1>5. Children'
  BY <1>1, <1>2, <1>3, ChildrenQuiet, ParentFacts DEF Steady, Watching
<1>6. parent'.owner \in Worker /\ parent'.owner >= Owner
  BY <1>2, ParentFacts DEF Owner
<1> QED
  BY <1>3, <1>4, <1>5, <1>6, SlotKept, ParentFacts DEF PhaseInv

(* The thread goes where no child is watched, and nothing else happens.    *)
LEMMA GotoSound ==
  ASSUME PhaseInv, Carrying, parent.pc \notin Watching, UNCHANGED <<vars, child>>,
         NEW pc \in ParentPc \ (Rests \cup Watching \cup {"record"}), Goto(pc)
  PROVE  PhaseInv' /\ Stays
<1>1. 0 \in 0..NItems
  BY TheTask
<1>2. /\ parent' \in ParentType /\ parent'.pc = pc
      /\ parent'.owner = parent.owner /\ parent'.config = parent.config
      /\ parent'.phase = parent.phase
  BY <1>1, ParentGoes
<1> QED
  BY <1>2, ThreadWalks

LEMMA ReturnedSound ==
  ASSUME PhaseInv, Carrying, parent.pc \notin Watching, UNCHANGED <<vars, child>>,
         NEW msg \in {"complete", "returned", "forced", "error"}, Returned(msg)
  PROVE  PhaseInv' /\ Stays
<1>1. 0 \in 0..NItems /\ "result" \in ParentPc \ (Rests \cup Watching \cup {"record"})
  BY TheTask DEF ParentPc, Rests, Watching
<1>2. /\ parent' \in ParentType /\ parent'.pc = "result"
      /\ parent'.owner = parent.owner /\ parent'.config = parent.config
      /\ parent'.phase = parent.phase
  BY <1>1, ParentGoes DEF Returned
<1> QED
  BY <1>1, <1>2, ThreadWalks

LEMMA TokenPublished ==
  ASSUME PhaseInv, PublishToken \/ CheckStop PROVE PhaseInv' /\ Stays
<1>1. PICK pc \in {"claimed", "plan", "unstarted"} : Goto(pc)
  BY DEF PublishToken, CheckStop
<1>2. pc \in ParentPc \ (Rests \cup Watching \cup {"record"})
  BY DEF ParentPc, Rests, Watching
<1>3. Carrying /\ parent.pc \notin Watching /\ UNCHANGED <<vars, child>>
  BY DEF PublishToken, CheckStop, Carrying, Watching
<1> QED
  BY <1>1, <1>2, <1>3, GotoSound

LEMMA GiveBackUnstartedSound ==
  ASSUME PhaseInv, GiveBackUnstarted PROVE PhaseInv' /\ Stays
<1>1. parent.pc = "unstarted" /\ UNCHANGED child
  BY DEF GiveBackUnstarted
<1>2. Carrying /\ parent.pc \notin Watching
  BY <1>1 DEF Carrying, Watching
<1>3. CASE PauseClaimedBeforeWork(Owner) /\ parent' = ParentAt(Owner, "ended")
  <2>1. "ended" \in ParentPc
    BY DEF ParentPc
  <2>2. parent' \in ParentType /\ parent'.pc = "ended" /\ parent'.owner = parent.owner
    BY <1>3, <2>1, ParentReturns
  <2>3. GivesUp(Owner) /\ "ended" \notin Watching
    BY <1>3 DEF GivesUp, Watching
  <2> QED
    BY <1>1, <1>2, <2>2, <2>3, ThreadGivesBack DEF GivesBack
<1>4. CASE ~TokenValid(Owner) /\ BackToLoop("loop")
  BY <1>1, <1>2, <1>4, TokenLost, ThreadForgets
<1>5. CASE Goto("fail") /\ UNCHANGED vars
  <2>1. "fail" \in ParentPc \ (Rests \cup Watching \cup {"record"})
    BY DEF ParentPc, Rests, Watching
  <2> QED
    BY <1>1, <1>2, <1>5, <2>1, GotoSound
<1> QED
  BY <1>3, <1>4, <1>5 DEF GiveBackUnstarted

LEMMA FailSound ==
  ASSUME PhaseInv, Fail PROVE PhaseInv' /\ Stays
<1>1. parent.pc = "fail" /\ UNCHANGED child
  BY DEF Fail
<1>2. Carrying /\ parent.pc \notin Watching
  BY <1>1 DEF Carrying, Watching
<1>3. CASE FailWorker(Owner) /\ parent' = ParentAt(Owner, "loop")
  <2>1. "loop" \in ParentPc
    BY DEF ParentPc
  <2>2. parent' \in ParentType /\ parent'.pc = "loop" /\ parent'.owner = parent.owner
    BY <1>3, <2>1, ParentReturns
  <2>3. GivesUp(Owner) /\ "loop" \notin Watching
    BY <1>3 DEF GivesUp, Watching
  <2> QED
    BY <1>1, <1>2, <2>2, <2>3, ThreadGivesBack DEF GivesBack
<1>4. CASE ~TokenValid(Owner) /\ BackToLoop("loop")
  BY <1>1, <1>2, <1>4, TokenLost, ThreadForgets
<1> QED
  BY <1>3, <1>4 DEF Fail

LEMMA StartComponentSound ==
  ASSUME PhaseInv, Carrying, parent.pc \notin Watching, UNCHANGED vars,
         NEW rows, NEW k \in 0..NItems, StartComponent(rows, k)
  PROVE  PhaseInv' /\ Stays
<1>0. None \in {"complete", "returned", "forced", "error", None} /\ None \in TaskStatus \cup {"absent", "deleted", None}
  OBVIOUS
<1>1. CASE parent.phase \in Inline
  <2>1. "inline" \in ParentPc /\ "inline" \in Watching /\ "inline" \notin Rests \cup {"record"}
    BY DEF ParentPc, Watching, Rests
  <2>2. parent' = [parent EXCEPT !.comp = k, !.msg = None, !.seen = None, !.pc = "inline"]
        /\ NewChild
    BY <1>1 DEF StartComponent
  <2>3. /\ parent' \in ParentType /\ parent'.pc = "inline"
        /\ parent'.owner = parent.owner /\ parent'.config = parent.config
        /\ parent'.phase = parent.phase
    BY <1>0, <2>1, <2>2, ParentGoes
  <2>4. Children'
    BY <2>1, <2>2, <2>3, ChildrenStart, ParentFacts
  <2> QED
    BY <2>1, <2>3, <2>4, ThreadMoves
<1>2. CASE parent.phase \notin Inline
  <2>1. "assets" \in ParentPc /\ "assets" \notin Rests \cup Watching \cup {"record"}
    BY DEF ParentPc, Watching, Rests
  <2>2. parent' = [parent EXCEPT !.comp = k, !.msg = None, !.seen = None, !.pc = "assets"]
        /\ UNCHANGED child
    BY <1>2 DEF StartComponent
  <2>3. /\ parent' \in ParentType /\ parent'.pc = "assets"
        /\ parent'.owner = parent.owner /\ parent'.config = parent.config
        /\ parent'.phase = parent.phase
    BY <1>0, <2>1, <2>2, ParentGoes
  <2> QED
    BY <2>1, <2>2, <2>3, ThreadWalks
<1> QED
  BY <1>1, <1>2

LEMMA HowMany ==
  ASSUME PhaseInv, Carrying
  PROVE  /\ Components[parent.config][parent.phase] \in 0..NItems
         /\ parent.config \in Config /\ parent.phase \in WORKER_PHASES
<1>1. parent.config \in Config /\ parent.phase \in WORKER_PHASES
  BY DEF PhaseInv, Hand
<1> QED
  BY <1>1, ComponentsAssumption

LEMMA PlanSound ==
  ASSUME PhaseInv, Plan PROVE PhaseInv' /\ Stays
<1>1. Carrying /\ parent.pc \notin Watching /\ UNCHANGED vars
  BY DEF Plan, Carrying, Watching
<1>2. 1 \in 0..NItems
  BY <1>1, HowMany, TheTask DEF Plan
<1>3. PICK rows : StartComponent(rows, 1)
  BY DEF Plan
<1> QED
  BY <1>1, <1>2, <1>3, StartComponentSound

(* The claim's phase and config are those of the task the thread finishes. *)
LEMMA LeavesClaimed ==
  ASSUME PhaseInv, Carrying, LeavePhase(Owner)
  PROVE  status = parent.phase /\ task[T].config = parent.config
<1>1. TokenValid(Owner) /\ StillInPhase(task[worker[Owner].target], worker[Owner].phase)
  BY DEF LeavePhase
<1>2. HasToken(Owner) /\ worker[Owner].target = T /\ task[T].config = worker[Owner].config
  BY <1>1, ParentFacts, TheRow
<1>3. worker[Owner].phase = parent.phase /\ worker[Owner].config = parent.config
  BY <1>2, ParentFacts DEF Hand
<1> QED
  BY <1>1, <1>2, <1>3 DEF StillInPhase, status

(* What PhasePassedWhole asks of a step.                                   *)
PassesWhole ==
  \A p \in Modular :
    (status = p /\ task'[T].status \in {"queued", "evidence_review"}) =>
      LET c == task[T].config IN
        /\ \A k \in 1..Components[c][p] : crun'[<<c, p, k>>] = "completed"
        /\ Components[c][p] = 0 \/ \E k \in Rows(T, p, c) : k.items = NItems

LEMMA StaysWhole == ASSUME Stays PROVE PassesWhole
BY DEF Stays, PassesWhole, Modular, WORKER_PHASES

LEMMA SkipEmptySound ==
  ASSUME PhaseInv, SkipEmptyPhase PROVE PhaseInv' /\ PassesWhole
<1>1. /\ parent.pc = "plan" /\ UNCHANGED child
      /\ Components[parent.config][parent.phase] = 0
  BY DEF SkipEmptyPhase
<1>2. Carrying /\ parent.pc \notin Watching
  BY <1>1 DEF Carrying, Watching
<1>3. CASE LeavePhase(Owner) /\ parent' = ParentAt(Owner, "loop")
  <2>1. "loop" \in ParentPc
    BY DEF ParentPc
  <2>2. parent' \in ParentType /\ parent'.pc = "loop" /\ parent'.owner = parent.owner
    BY <1>3, <2>1, ParentReturns
  <2>3. GivesBack(Owner) /\ "loop" \notin Watching
    BY <1>3 DEF GivesBack, Watching
  <2>4. PhaseInv'
    BY <1>1, <1>2, <2>2, <2>3, ThreadGivesBack
  <2>5. PassesWhole
    <3>1. status = parent.phase /\ task[T].config = parent.config
      BY <1>2, <1>3, LeavesClaimed
    <3>2. ASSUME NEW p \in Modular, status = p
          PROVE  Components[task[T].config][p] = 0
      BY <1>1, <3>1, <3>2
    <3> QED
      BY <3>2 DEF PassesWhole
  <2> QED
    BY <2>4, <2>5
<1>4. CASE ~TokenValid(Owner) /\ BackToLoop("loop")
  BY <1>1, <1>2, <1>4, TokenLost, ThreadForgets, StaysWhole
<1>5. CASE Goto("fail") /\ UNCHANGED vars
  <2>1. "fail" \in ParentPc \ (Rests \cup Watching \cup {"record"})
    BY DEF ParentPc, Rests, Watching
  <2> QED
    BY <1>1, <1>2, <1>5, <2>1, GotoSound, StaysWhole
<1> QED
  BY <1>3, <1>4, <1>5 DEF SkipEmptyPhase

(* An answer of the component that comes with a call of the task service.  *)
LEMMA ReturnedAfterGivingUp ==
  ASSUME PhaseInv, Carrying, parent.pc \notin Watching, UNCHANGED child,
         GivesUp(Owner), NEW msg \in {"complete", "returned", "forced", "error"},
         Returned(msg)
  PROVE  PhaseInv' /\ Stays
<1>1. 0 \in 0..NItems /\ "result" \in ParentPc \ (Rests \cup Watching \cup {"record"})
  BY TheTask DEF ParentPc, Rests, Watching
<1>2. /\ parent' \in ParentType /\ parent'.pc = "result"
      /\ parent'.owner = parent.owner /\ parent'.config = parent.config
      /\ parent'.phase = parent.phase
  BY <1>1, ParentGoes DEF Returned
<1> QED
  BY <1>1, <1>2, ThreadGivesBack DEF GivesBack

LEMMA WaitAssetsSound ==
  ASSUME PhaseInv, WaitAssets PROVE PhaseInv' /\ Stays
<1>1. parent.pc = "assets" /\ UNCHANGED child
  BY DEF WaitAssets
<1>2. Carrying /\ parent.pc \notin Watching
  BY <1>1 DEF Carrying, Watching
<1>3. CASE ReadResumePoint(Owner) /\ UNCHANGED parent
  <2>1. /\ IInv' /\ Steady /\ Stays
        /\ \A v \in Worker : HasToken(v) => HasToken(v)'
    BY <1>3, ReadSteady, ParentFacts
  <2>2. PICK w \in Worker : w = Owner /\ w = Owner'
    BY <1>3, ParentFacts DEF Owner
  <2>3. HasToken(w) => HasToken(w)'
    BY <2>1
  <2>4. lease'.live => (HasToken(Owner) => HasToken(Owner)')
    BY <2>2, <2>3, Zenon
  <2>5. Hand'
    BY <1>3, <2>1, <2>4, HandQuiet, ParentFacts
  <2>6. Children'
    BY <1>1, <1>3, <2>1, ChildrenQuiet, ParentFacts DEF Steady
  <2>7. parent'.owner \in Worker /\ parent'.owner >= Owner
    BY <1>3, ParentFacts DEF Owner
  <2> QED
    BY <2>1, <2>5, <2>6, <2>7, SlotKept, ParentFacts DEF PhaseInv
<1>4. CASE ControlBatch(Owner, TRUE) /\ Returned("returned")
  BY <1>1, <1>2, <1>4, ReturnedAfterGivingUp DEF GivesUp
<1>5. ASSUME NEW msg \in {"returned", "error"}, Returned(msg), UNCHANGED vars
      PROVE  PhaseInv' /\ Stays
  BY <1>1, <1>2, <1>5, ReturnedSound
<1> QED
  BY <1>3, <1>4, <1>5 DEF WaitAssets

LEMMA SpawnSound ==
  ASSUME PhaseInv, Spawn PROVE PhaseInv' /\ Stays
<1>1. Carrying /\ UNCHANGED vars /\ NewChild /\ Goto("poll")
  BY DEF Spawn, Carrying
<1>2. "poll" \in ParentPc /\ "poll" \in Watching /\ "poll" \notin Rests \cup {"record"}
      /\ 0 \in 0..NItems
  BY TheTask DEF ParentPc, Watching, Rests
<1>3. /\ parent' \in ParentType /\ parent'.pc = "poll"
      /\ parent'.owner = parent.owner /\ parent'.config = parent.config
      /\ parent'.phase = parent.phase
  BY <1>1, <1>2, ParentGoes
<1>4. Children'
  BY <1>1, <1>2, <1>3, ChildrenStart, ParentFacts
<1> QED
  BY <1>1, <1>2, <1>3, <1>4, ThreadMoves

(* The child is gone, and the thread goes on with what it knows of it.     *)
LEMMA StoppedSound ==
  ASSUME PhaseInv, Carrying, UNCHANGED vars, Stopped, parent' \in ParentType,
         parent'.owner = parent.owner, parent'.config = parent.config,
         parent'.phase = parent.phase, parent'.pc \notin Rests \cup {"record"}
  PROVE  PhaseInv' /\ Stays
<1>1. \A w \in Worker : KeepsToken(w)
  BY DEF KeepsToken, HasToken, vars
<1>2. Children'
  BY <1>1, ChildrenEnd, ParentFacts DEF Stopped
<1> QED
  BY <1>2, ThreadMoves

LEMMA ChildAnswered ==
  ASSUME PhaseInv, Carrying, UNCHANGED vars, Stopped,
         \/ \E pc \in {"timedout", "recover"} : Goto(pc)
         \/ \E msg \in {"complete", "returned", "forced", "error"} : Returned(msg)
  PROVE  PhaseInv' /\ Stays
<1>1. {"timedout", "recover", "result"} \subseteq ParentPc \ (Rests \cup {"record"})
      /\ 0 \in 0..NItems
  BY TheTask DEF ParentPc, Rests
<1>2. /\ parent' \in ParentType /\ parent'.pc \notin Rests \cup {"record"}
      /\ parent'.owner = parent.owner /\ parent'.config = parent.config
      /\ parent'.phase = parent.phase
  BY <1>1, ParentGoes DEF Returned
<1> QED
  BY <1>2, StoppedSound

LEMMA PollSound ==
  ASSUME PhaseInv, Poll PROVE PhaseInv' /\ Stays
<1>1. Carrying /\ UNCHANGED vars /\ parent.pc = "poll"
  BY DEF Poll, Carrying
<1>2. CASE /\ Stopped
           /\ \/ Goto("timedout")
              \/ \E msg \in {"complete", "returned", "forced", "error"} : Returned(msg)
  BY <1>1, <1>2, ChildAnswered
<1>3. CASE Goto("killing") /\ UNCHANGED child
  <2>1. "killing" \in ParentPc /\ "killing" \in Watching /\ "killing" \notin Rests
        /\ "poll" \in Watching /\ 0 \in 0..NItems
    BY TheTask DEF ParentPc, Watching, Rests
  <2>2. /\ parent' \in ParentType /\ parent'.pc = "killing"
        /\ parent'.owner = parent.owner /\ parent'.config = parent.config
        /\ parent'.phase = parent.phase
    BY <1>3, <2>1, ParentGoes
  <2>3. \A w \in Worker : KeepsToken(w)
    BY <1>1 DEF KeepsToken, HasToken, vars
  <2>4. Children'
    BY <1>1, <1>3, <2>1, <2>2, <2>3, ChildrenQuiet, ParentFacts
  <2> QED
    BY <1>1, <2>1, <2>2, <2>4, ThreadMoves
<1> QED
  BY <1>2, <1>3 DEF Poll, Done

LEMMA KillSound ==
  ASSUME PhaseInv, Kill \/ InlineReturns PROVE PhaseInv' /\ Stays
<1>1. Carrying /\ UNCHANGED vars /\ Stopped
  BY DEF Kill, InlineReturns, Carrying
<1>2. \/ Goto("recover")
      \/ \E msg \in {"complete", "returned", "forced", "error"} : Returned(msg)
  BY DEF Kill, InlineReturns, Done
<1> QED
  BY <1>1, <1>2, ChildAnswered

LEMMA AfterForcedStopSound ==
  ASSUME PhaseInv, AfterForcedStop PROVE PhaseInv' /\ Stays
<1>1. Carrying /\ parent.pc \notin Watching /\ UNCHANGED child /\ Returned("forced")
  BY DEF AfterForcedStop, Carrying, Watching
<1>2. CASE GivesUp(Owner)
  BY <1>1, <1>2, ReturnedAfterGivingUp
<1>3. CASE UNCHANGED vars
  BY <1>1, <1>3, ReturnedSound
<1> QED
  BY <1>2, <1>3 DEF AfterForcedStop, GivesUp

LEMMA ReadStatusSound ==
  ASSUME PhaseInv, ReadStatus PROVE PhaseInv' /\ Stays
<1>1. Carrying /\ parent.pc \notin Watching /\ UNCHANGED <<vars, child>>
  BY DEF ReadStatus, Carrying, Watching
<1>2. CASE Goto("failure")
  <2>1. "failure" \in ParentPc \ (Rests \cup Watching \cup {"record"})
    BY DEF ParentPc, Rests, Watching
  <2> QED
    BY <1>1, <1>2, <2>1, GotoSound
<1>3. CASE parent' = [parent EXCEPT !.pc = "record", !.seen = status]
  <2>1. "record" \in ParentPc \ (Rests \cup Watching) /\ 0 \in 0..NItems
    BY TheTask DEF ParentPc, Rests, Watching
  <2>2. status \in TaskStatus \cup {"absent", "deleted", None}
    BY ParentFacts, TheRow DEF TaskRow, status
  <2>3. /\ parent' \in ParentType /\ parent'.pc = "record"
        /\ parent'.owner = parent.owner /\ parent'.config = parent.config
        /\ parent'.phase = parent.phase
    BY <1>3, <2>1, <2>2, ParentGoes
  <2>4. parent'.seen = status
    BY <1>3, ParentFacts DEF ParentType
  <2> QED
    BY <1>1, <2>1, <2>3, <2>4, ThreadWalks
<1> QED
  BY <1>2, <1>3 DEF ReadStatus, Goto

LEMMA RecordFailureSound ==
  ASSUME PhaseInv, RecordFailure PROVE PhaseInv' /\ Stays
<1>1. Carrying /\ parent.pc \notin Watching /\ UNCHANGED <<vars, child>> /\ Goto("fail")
  BY DEF RecordFailure, Carrying, Watching
<1>2. "fail" \in ParentPc \ (Rests \cup Watching \cup {"record"})
  BY DEF ParentPc, Rests, Watching
<1> QED
  BY <1>1, <1>2, GotoSound

LEMMA RecordResultSound ==
  ASSUME PhaseInv, RecordResult PROVE PhaseInv' /\ Stays
<1>1. Carrying /\ parent.pc \notin Watching /\ parent.pc = "record"
  BY DEF RecordResult, Carrying, Watching
<1>2. CASE RunIsOver /\ BackToLoop("loop") /\ UNCHANGED child
  <2>1. Held => status \in CONTROL_STATES
    BY <1>1, <1>2, ParentFacts DEF RunIsOver, Hand
  <2> QED
    BY <1>1, <1>2, <2>1, ThreadForgets
<1>3. ASSUME NEW rows, UNCHANGED vars, StartComponent(rows, parent.comp + 1),
             parent.comp < Components[parent.config][parent.phase]
      PROVE  PhaseInv' /\ Stays
  <2>1. parent.comp \in 0..NItems
    BY ParentFacts DEF ParentType
  <2>2. parent.comp + 1 \in 0..NItems
    BY <1>1, <1>3, <2>1, HowMany, TheTask
  <2> QED
    BY <1>1, <1>3, <2>2, StartComponentSound
<1>4. CASE UNCHANGED <<vars, child>> /\ Goto("finalize")
  <2>1. "finalize" \in ParentPc \ (Rests \cup Watching \cup {"record"})
    BY DEF ParentPc, Rests, Watching
  <2> QED
    BY <1>1, <1>4, <2>1, GotoSound
<1> QED
  BY <1>2, <1>3, <1>4 DEF RecordResult

(* The finalizer leaves the phase with no component missing.               *)
LEMMA FinalizePasses ==
  ASSUME PhaseInv, Carrying, LeavePhase(Owner), NoneMissing,
         crun' = Reconciled(crun, parent.config, parent.phase)
  PROVE  PassesWhole
<1>1. /\ status = parent.phase /\ task[T].config = parent.config
      /\ ckpt' = ckpt /\ ckpt \subseteq CheckpointRow
  BY LeavesClaimed, ParentFacts, TheRow DEF LeavePhase
<1>2. PICK c, p : c = parent.config /\ p = parent.phase
  OBVIOUS
<1>3. /\ c \in Config /\ p \in WORKER_PHASES /\ Components[c][p] \in 0..NItems
      /\ NItems \in Nat
  BY <1>2, HowMany, TheTask
<1>4. ASSUME NEW k \in 1..Components[c][p]
      PROVE  \E row \in ckpt : /\ row.task = T /\ row.config = c /\ row.phase = p
                               /\ row.items >= LastUnit(c, p, k)
  BY <1>2, <1>4 DEF NoneMissing, Rows
<1>5. ASSUME p \in Modular, NEW k \in 1..Components[c][p]
      PROVE  crun'[<<c, p, k>>] = "completed"
  <2>1. PICK key : key = <<c, p, k>>
    OBVIOUS
  <2>2. key \in Key
    BY <1>3, <1>5, <2>1 DEF Key
  <2>3. key[1] = c /\ key[2] = p /\ key[3] = k
    BY <2>1
  <2>4. crun'[key] = "completed"
    BY <1>1, <1>2, <1>4, <1>5, <2>2, <2>3 DEF Reconciled
  <2> QED
    BY <2>1, <2>4
<1>6. ASSUME Components[c][p] # 0
      PROVE  \E k \in Rows(T, p, c) : k.items = NItems
  <2>1. Components[c][p] \in 1..Components[c][p]
    BY <1>3, <1>6
  <2>2. LastUnit(c, p, Components[c][p]) = NItems
    BY DEF LastUnit
  <2>3. PICK row \in ckpt : /\ row.task = T /\ row.config = c /\ row.phase = p
                            /\ row.items >= NItems
    BY <1>4, <2>1, <2>2
  <2>4. row.items \in Nat /\ row.items <= NItems
    BY <1>1, ParentFacts DEF CheckpointRow, SlotInv, Counted
  <2>5. row.items = NItems /\ row \in Rows(T, p, c)
    BY <1>3, <2>3, <2>4 DEF Rows
  <2> QED
    BY <2>5
<1> QED
  BY <1>1, <1>2, <1>5, <1>6 DEF PassesWhole

LEMMA FinalizeSound ==
  ASSUME PhaseInv, Finalize PROVE PhaseInv' /\ PassesWhole
<1>1. Carrying /\ parent.pc \notin Watching /\ UNCHANGED child
  BY DEF Finalize, Carrying, Watching
<1>2. CASE (LeavePhase(Owner) \/ ControlBatch(Owner, TRUE)) /\ parent' = ParentAt(Owner, "loop")
  <2>1. "loop" \in ParentPc
    BY DEF ParentPc
  <2>2. parent' \in ParentType /\ parent'.pc = "loop" /\ parent'.owner = parent.owner
    BY <1>2, <2>1, ParentReturns
  <2>3. GivesBack(Owner) /\ "loop" \notin Watching
    BY <1>2 DEF GivesBack, GivesUp, Watching
  <2>4. PhaseInv' /\ (GivesUp(Owner) => Stays)
    BY <1>1, <2>2, <2>3, ThreadGivesBack
  <2>5. PassesWhole
    BY <1>1, <1>2, <2>4, FinalizePasses, StaysWhole DEF Finalize, GivesUp
  <2> QED
    BY <2>4, <2>5
<1>3. CASE ~TokenValid(Owner) /\ BackToLoop("loop")
  BY <1>1, <1>3, TokenLost, ThreadForgets, StaysWhole
<1> QED
  BY <1>2, <1>3 DEF Finalize

LEMMA ParentStepSound ==
  ASSUME PhaseInv, ParentStep PROVE PhaseInv' /\ PassesWhole
BY ClaimSound, LeaveLoopSound, TokenPublished, GiveBackUnstartedSound, FailSound,
   PlanSound, SkipEmptySound, WaitAssetsSound, SpawnSound, PollSound, KillSound,
   AfterForcedStopSound, ReadStatusSound, RecordFailureSound, RecordResultSound,
   FinalizeSound, StaysWhole DEF ParentStep

-----------------------------------------------------------------------------
(* The steps of a child.                                                   *)

(* Nothing the thread knows is disturbed by a step of somebody else.       *)
LEMMA ThreadUndisturbed ==
  ASSUME PhaseInv, UNCHANGED parent, IInv', Steady, Children',
         lease'.live => (HasToken(Owner) => HasToken(Owner)')
  PROVE  PhaseInv'
<1>1. Hand'
  BY HandQuiet, ParentFacts
<1>2. parent'.owner \in Worker /\ parent'.owner >= Owner
  BY ParentFacts DEF Owner
<1> QED
  BY <1>1, <1>2, SlotKept, ParentFacts DEF PhaseInv

LEMMA ChildMoves ==
  ASSUME PhaseInv, NEW w \in Worker, NEW pc \in ChildPc \ {"none"}, ChildTo(w, pc),
         child[w].pc # "none", UNCHANGED parent,
         pc = "finish" => child[w].phase \notin Modular,
         IInv', Steady,
         lease'.live => \A v \in Worker : HasToken(v) => HasToken(v)'
  PROVE  PhaseInv'
<1>1. Children'
  BY ChildrenMove, ParentFacts DEF Steady
<1>2. PICK v \in Worker : v = Owner /\ v = Owner'
  BY ParentFacts DEF Owner
<1>3. lease'.live => (HasToken(v) => HasToken(v)')
  OBVIOUS
<1>4. lease'.live => (HasToken(Owner) => HasToken(Owner)')
  BY <1>2, <1>3, Zenon
<1> QED
  BY <1>1, <1>4, ThreadUndisturbed

LEMMA ChildIdles ==
  ASSUME PhaseInv, NEW w \in Worker, NEW pc \in ChildPc \ {"none", "finish"},
         ChildTo(w, pc), child[w].pc # "none", UNCHANGED <<vars, parent>>
  PROVE  PhaseInv' /\ Stays
<1>1. IInv' /\ Steady /\ Stays
  BY QuietSteady, ParentFacts
<1>2. \A v \in Worker : HasToken(v) => HasToken(v)'
  BY DEF HasToken, vars
<1> QED
  BY <1>1, <1>2, ChildMoves

LEMMA ChildGivesBack ==
  ASSUME PhaseInv, NEW w \in Worker, GivesBack(w), ChildTo(w, "returned"),
         child[w].pc # "none", UNCHANGED parent
  PROVE  PhaseInv' /\ (GivesUp(w) => Stays)
<1>1. IInv' /\ Steady /\ lease' = NoLease /\ (GivesUp(w) => Stays)
  BY GivenBack, ParentFacts
<1>2. ~lease'.live /\ "returned" \in ChildPc \ {"none"} /\ "returned" # "finish"
  BY <1>1 DEF NoLease, ChildPc
<1> QED
  BY <1>1, <1>2, ChildMoves

LEMMA ChildStartsSound ==
  ASSUME PhaseInv, NEW w \in Worker, ChildStarts(w) PROVE PhaseInv' /\ Stays
<1>1. child[w].pc = "start" /\ UNCHANGED parent
  BY DEF ChildStarts
<1>2. {"load", "error"} \subseteq ChildPc \ {"none", "finish"}
  BY DEF ChildPc
<1>3. CASE HonorClaimedControlBeforeWork(w) /\ ChildTo(w, "returned")
  BY <1>1, <1>3, ChildGivesBack DEF GivesBack, GivesUp
<1>4. CASE (ChildTo(w, "load") \/ ChildTo(w, "error")) /\ UNCHANGED vars
  BY <1>1, <1>2, <1>4, ChildIdles
<1> QED
  BY <1>3, <1>4 DEF ChildStarts

LEMMA ChildLoadsSound ==
  ASSUME PhaseInv, NEW w \in Worker, ChildLoads(w) PROVE PhaseInv' /\ Stays
<1>1. child[w].pc = "load" /\ UNCHANGED parent
  BY DEF ChildLoads
<1>2. PICK pc \in {"complete", "finish", "ready", "work"} :
        ChildTo(w, pc) /\ (pc = "finish" => child[w].phase \notin Modular)
  BY DEF ChildLoads
<1>3. pc \in ChildPc \ {"none"}
  BY DEF ChildPc
<1>4. /\ IInv' /\ Steady /\ Stays
      /\ \A v \in Worker : HasToken(v) => HasToken(v)'
  <2>1. CASE ReadResumePoint(w)
    BY <2>1, ReadSteady, ParentFacts
  <2>2. CASE UNCHANGED vars
    BY <2>2, QuietSteady, ParentFacts DEF HasToken, vars
  <2> QED
    BY <2>1, <2>2 DEF ChildLoads
<1> QED
  BY <1>1, <1>2, <1>3, <1>4, ChildMoves

LEMMA ChildReadySound ==
  ASSUME PhaseInv, NEW w \in Worker, ChildReady(w) \/ ChildIsStale(w) \/ ChildFails(w)
  PROVE  PhaseInv' /\ Stays
<1>1. child[w].pc # "none" /\ UNCHANGED <<vars, parent>>
  BY DEF ChildReady, ChildIsStale, ChildFails
<1>2. PICK pc \in {"work", "error", "returned", "dead"} : ChildTo(w, pc)
  BY DEF ChildReady, ChildIsStale, ChildFails
<1>3. pc \in ChildPc \ {"none", "finish"}
  BY DEF ChildPc
<1> QED
  BY <1>1, <1>2, <1>3, ChildIdles

(* A component of a modular phase ends with its last unit and never comes  *)
(* to complete the phase itself.                                           *)
LEMMA ChildWorksSound ==
  ASSUME PhaseInv, NEW w \in Worker, ChildWorks(w) PROVE PhaseInv' /\ Stays
<1>1. child[w].pc = "work" /\ UNCHANGED parent /\ Batch(w)
  BY DEF ChildWorks
<1>2. PICK items \in 0..NItems :
        /\ CommitBatch(w, items, items, TRUE)
        /\ child[w].phase # "cpu_metrics" => items = worker[w].items + 1
  <2>1. worker[w].items \in Nat /\ NItems \in Nat
    BY ParentFacts, TheTask DEF WorkerMemory
  <2>2. CASE child[w].phase = "cpu_metrics"
    <3>1. NItems \in 0..NItems
      BY <2>1
    <3> QED
      BY <1>1, <2>2, <3>1 DEF Batch
  <2>3. CASE child[w].phase # "cpu_metrics"
    <3>1. worker[w].items < NItems
          /\ CommitBatch(w, worker[w].items + 1, worker[w].items + 1, TRUE)
      BY <1>1, <2>3 DEF Batch, WorkBatch
    <3>2. worker[w].items + 1 \in 0..NItems
      BY <2>1, <3>1
    <3> QED
      BY <2>3, <3>1, <3>2
  <2> QED
    BY <2>2, <2>3
<1>3. /\ IInv' /\ Steady /\ Stays
      /\ lease' = NoLease \/ \A v \in Worker : HasToken(v) => HasToken(v)'
      /\ task'[T].status \in {status, "paused", "terminated"}
      /\ task'[T].status = status => worker'[w].items = items
  BY <1>2, BatchSteady, ParentFacts
<1>4. lease'.live => \A v \in Worker : HasToken(v) => HasToken(v)'
  BY <1>3 DEF NoLease
<1>5. PICK pc \in {"complete", "returned", "finish", "work"} :
        /\ ChildTo(w, pc)
        /\ pc = "finish" =>
             /\ ~ (child[w].phase \in Modular
                   /\ worker[w].items + 1 >= LastUnit(child[w].config, child[w].phase,
                                                      child[w].comp))
             /\ task'[T].status = child[w].phase
             /\ worker'[w].items = NItems
  BY DEF ChildWorks
<1>6. pc = "finish" => child[w].phase \notin Modular
  <2> SUFFICES ASSUME pc = "finish", child[w].phase \in Modular
               PROVE  FALSE
    OBVIOUS
  <2>1. task'[T].status = status
    BY <1>3, <1>5 DEF Modular
  <2>2. NItems = worker[w].items + 1
    BY <1>2, <1>3, <1>5, <2>1 DEF Modular
  <2>3. LastUnit(child[w].config, child[w].phase, child[w].comp) \in 0..NItems
    <3>1. child[w].comp \in 0..NItems
      BY ParentFacts DEF ChildType
    <3> QED
      BY <3>1, TheTask DEF LastUnit
  <2> QED
    BY <1>5, <2>2, <2>3, TheTask
<1>7. pc \in ChildPc \ {"none"}
  BY DEF ChildPc
<1> QED
  BY <1>1, <1>3, <1>4, <1>5, <1>6, <1>7, ChildMoves

LEMMA ChildControlsSound ==
  ASSUME PhaseInv, NEW w \in Worker, ChildControls(w) PROVE PhaseInv' /\ Stays
BY ChildGivesBack DEF ChildControls, GivesBack, GivesUp

(* Only a component that completes its own phase does so.                  *)
LEMMA ChildFinishesSound ==
  ASSUME PhaseInv, NEW w \in Worker, ChildFinishes(w) PROVE PhaseInv' /\ PassesWhole
<1>1. child[w].pc = "finish" /\ UNCHANGED parent /\ ChildTo(w, "returned")
  BY DEF ChildFinishes
<1>2. CASE CompletePhase(w)
  <2>1. LeavePhase(w)
    BY <1>2 DEF CompletePhase
  <2>2. PhaseInv'
    BY <1>1, <2>1, ChildGivesBack DEF GivesBack
  <2>3. TokenValid(w) /\ StillInPhase(task[worker[w].target], worker[w].phase)
    BY <2>1 DEF LeavePhase
  <2>4. HasToken(w) /\ worker[w].target = T
    BY <2>3, ParentFacts, TheRow
  <2>5. worker[w].phase = child[w].phase /\ child[w].phase \notin Modular
    BY <1>1, <2>4, ParentFacts DEF Children, ChildKnows
  <2>6. status \notin Modular
    BY <2>3, <2>4, <2>5 DEF StillInPhase, status
  <2> QED
    BY <2>2, <2>6 DEF PassesWhole
<1>3. CASE ControlBatch(w, TRUE)
  BY <1>1, <1>3, ChildGivesBack, StaysWhole DEF GivesBack, GivesUp
<1> QED
  BY <1>2, <1>3 DEF ChildFinishes

LEMMA ChildStepSound ==
  ASSUME PhaseInv, NEW w \in Worker, ChildStep(w) \/ ChildFails(w)
  PROVE  PhaseInv' /\ PassesWhole
BY ChildStartsSound, ChildLoadsSound, ChildReadySound, ChildWorksSound,
   ChildControlsSound, ChildFinishesSound, StaysWhole DEF ChildStep

LEMMA OrphanEndsSound ==
  ASSUME PhaseInv, NEW w \in Worker, OrphanEnds(w) PROVE PhaseInv' /\ Stays
<1>1. w # Owner /\ UNCHANGED parent /\ child' = [child EXCEPT ![w] = NoChild]
  BY DEF OrphanEnds
<1>2. IInv' /\ Steady /\ Stays /\ worker'[Owner] = worker[Owner]
  <2>1. CASE UNCHANGED vars
    BY <2>1, QuietSteady, ParentFacts DEF vars
  <2>2. CASE Crash(w)
    BY <1>1, <2>2, CrashSteady, ParentFacts
  <2> QED
    BY <2>1, <2>2 DEF OrphanEnds
<1>3. Children'
  BY <1>1, <1>2, ChildrenEnd, ParentFacts DEF Steady
<1>4. HasToken(Owner) => HasToken(Owner)'
  BY <1>1, <1>2 DEF HasToken, Owner
<1> QED
  BY <1>1, <1>2, <1>3, <1>4, ThreadUndisturbed

-----------------------------------------------------------------------------
(* The clock, the backend's life and the API.                              *)

(* A step that leaves thread, children and tokens alone.                   *)
LEMMA OutsideSound ==
  ASSUME PhaseInv, UNCHANGED <<parent, child>>, IInv', Steady, worker' = worker
  PROVE  PhaseInv'
<1>1. Children'
  BY ChildrenQuiet, ParentFacts DEF Steady
<1>2. HasToken(Owner) => HasToken(Owner)'
  BY DEF HasToken, Owner
<1> QED
  BY <1>1, <1>2, ThreadUndisturbed

LEMMA ExpireSound == ASSUME PhaseInv, Expire PROVE PhaseInv' /\ Stays
BY ExpireSteady, OutsideSound, ParentFacts DEF Expire, prvars

LEMMA UnchangedSound ==
  ASSUME PhaseInv, UNCHANGED <<vars, parent, child>> PROVE PhaseInv' /\ Stays
BY QuietSteady, OutsideSound, ParentFacts DEF vars

LEMMA ApiSound ==
  ASSUME PhaseInv, Requests, UNCHANGED <<parent, child>> PROVE PhaseInv' /\ Stays
BY RequestSteady, OutsideSound, ParentFacts

(* The lease stays with the crashed backend, its child may live on.        *)
LEMMA BackendCrashSound ==
  ASSUME PhaseInv, BackendCrash PROVE PhaseInv' /\ Stays
<1>1. "down" \in ParentPc /\ "down" \in Watching /\ "down" \in Rests
  BY DEF ParentPc, Watching, Rests
<1>2. parent' \in ParentType /\ parent'.pc = "down" /\ parent'.owner = parent.owner
  BY <1>1, ParentReturns DEF BackendCrash
<1>3. IInv' /\ Steady /\ Stays
  <2>1. CASE UNCHANGED vars
    BY <2>1, QuietSteady, ParentFacts
  <2>2. CASE Crash(Owner)
    BY <2>2, CrashSteady, ParentFacts
  <2> QED
    BY <2>1, <2>2 DEF BackendCrash
<1>4. Hand'
  BY <1>1, <1>2, HandRests
<1>5. Children'
  <2>1. CASE UNCHANGED child
    BY <1>1, <1>2, <1>3, <2>1, ChildrenQuiet, ParentFacts DEF Steady
  <2>2. CASE child' = [child EXCEPT ![Owner] = NoChild]
    BY <1>2, <1>3, <2>2, ChildrenEnd, ParentFacts DEF Steady
  <2> QED
    BY <2>1, <2>2 DEF BackendCrash
<1>6. parent'.owner \in Worker /\ parent'.owner >= Owner
  BY <1>2, ParentFacts DEF Owner
<1> QED
  BY <1>3, <1>4, <1>5, <1>6, SlotKept, ParentFacts DEF PhaseInv

(* The next backend starts with nothing of its own, and not as the holder. *)
LEMMA RestartSound ==
  ASSUME PhaseInv, Restart PROVE PhaseInv' /\ Stays
<1>1. /\ Owner + 1 \in Worker /\ parent' = ParentAt(Owner + 1, "loop")
      /\ UNCHANGED child
  BY DEF Restart
<1>2. parent' \in ParentType /\ parent'.pc = "loop" /\ parent'.owner = Owner + 1
  BY <1>1, TheTask DEF ParentAt, ParentType, ParentPc
<1>3. IInv' /\ Steady /\ Stays /\ worker' = worker
  <2>1. CASE UNCHANGED vars
    BY <2>1, QuietSteady, ParentFacts DEF vars
  <2>2. CASE RecoverStaleLeases
    BY <2>2, RecoverSteady, ParentFacts
  <2> QED
    BY <2>1, <2>2 DEF Restart
<1>4. Owner \in Nat /\ Owner + 1 > Owner /\ Worker \subseteq Nat
  BY ParentFacts, TheTask
<1>5. ~Held'
  <2> SUFFICES ASSUME lease'.live, lease'.owner = Owner + 1
               PROVE  FALSE
    BY <1>2 DEF Held, Owner
  <2>1. lease' = lease /\ lease.owner <= Owner
    BY <1>3, ParentFacts DEF Steady, SlotInv, LeaseOurs
  <2> QED
    BY <1>4, <2>1
<1>6. Hand'
  BY <1>2, <1>5, HandRests DEF Rests
<1>7. Children'
  <2>1. ASSUME NEW w \in Worker, w > Owner + 1
        PROVE  child[w].pc = "none"
    <3>1. w > Owner
      BY <1>4, <2>1
    <3> QED
      BY <3>1, ParentFacts DEF Children
  <2>2. child[Owner + 1].pc = "none"
    BY <1>1, <1>4, ParentFacts DEF Children
  <2>3. ASSUME NEW w \in Worker PROVE ChildKnows(w)'
    BY <1>1, <1>3, ParentFacts DEF Children, ChildKnows, HasToken
  <2> QED
    BY <1>1, <1>2, <2>1, <2>2, <2>3, ParentFacts DEF Children, Owner
<1>8. parent'.owner \in Worker /\ parent'.owner >= Owner
  BY <1>1, <1>2, <1>4
<1> QED
  BY <1>3, <1>6, <1>7, <1>8, SlotKept, ParentFacts DEF PhaseInv

-----------------------------------------------------------------------------
LEMMA PhaseInvInit == ASSUME PhaseRunInit PROVE PhaseInv
<1>1. /\ Init /\ child = [w \in Worker |-> NoChild]
      /\ \E w \in Worker : (\A v \in Worker : w <= v) /\ parent = ParentAt(w, "loop")
  BY DEF PhaseRunInit
<1>2. /\ Owner \in Worker /\ \A v \in Worker : Owner <= v
      /\ parent \in ParentType /\ parent.pc = "loop"
  BY <1>1, TheTask DEF ParentAt, ParentType, ParentPc, Owner
<1>3. /\ task = [t \in Task |-> NoRow] /\ lease = NoLease /\ ckpt = {}
      /\ worker = [w \in Worker |-> Idle] /\ \A r \in Run : run[r].status = "absent"
  BY <1>1 DEF Init
<1>4. IInv
  BY <1>1, InitSound
<1>5. SlotInv
  BY <1>3, <1>4, TheTask DEF SlotInv, Alone, NoRow, LeaseOurs, NoLease, Counted, Idle,
     ConfigKept, TokenValid
<1>6. Children
  <2>1. NoChild \in ChildType /\ NoChild.pc = "none"
    BY TheTask DEF NoChild, ChildType, ChildPc
  <2> QED
    BY <1>1, <1>2, <2>1 DEF Children, ChildKnows
<1>7. Hand
  BY <1>2, <1>3 DEF Hand, Carrying, Held, RunnerHandsBack, NoLease
<1> QED
  BY <1>5, <1>6, <1>7 DEF PhaseInv

LEMMA PhaseInvNext ==
  ASSUME PhaseInv, [PhaseRunNext]_allvars PROVE PhaseInv' /\ PassesWhole
<1>1. CASE ParentStep
  BY <1>1, ParentStepSound
<1>2. ASSUME NEW w \in Worker, ChildStep(w) \/ ChildFails(w) \/ OrphanEnds(w)
      PROVE  PhaseInv' /\ PassesWhole
  BY <1>2, ChildStepSound, OrphanEndsSound, StaysWhole
<1>3. CASE Expire \/ BackendCrash \/ Restart
  BY <1>3, ExpireSound, BackendCrashSound, RestartSound, StaysWhole
<1>4. CASE UNCHANGED <<vars, parent, child>>
  BY <1>4, UnchangedSound, StaysWhole
<1>5. CASE Requests /\ UNCHANGED <<parent, child>>
  BY <1>5, ApiSound, StaysWhole
<1>6. CASE SetStop \/ ShutdownPause \/ Api
  BY <1>4, <1>5, <1>6 DEF SetStop, ShutdownPause, Api, Requests
<1>7. CASE UNCHANGED allvars
  BY <1>4, <1>7 DEF allvars, prvars
<1> QED
  BY <1>1, <1>2, <1>3, <1>6, <1>7 DEF PhaseRunNext

LEMMA PhaseInvariance == PhaseRunSpec => []PhaseInv
<1>1. PhaseRunInit => PhaseInv
  BY PhaseInvInit
<1>2. PhaseInv /\ [PhaseRunNext]_allvars => PhaseInv'
  BY PhaseInvNext
<1> QED
  BY <1>1, <1>2, PTL DEF PhaseRunSpec

(* The worker thread never walks away from a task at work: whatever was    *)
(* requested, expired, crashed or failed, of the thread or of the child it *)
(* watches, it is back in its loop only without the slot or with a request *)
(* pending.                                                                *)
THEOREM TaskHandedBack == PhaseRunSpec => []RunnerHandsBack
<1>1. PhaseInv => RunnerHandsBack
  BY DEF PhaseInv, Hand
<1> QED
  BY <1>1, PhaseInvariance, PTL

(* A modular phase is passed only as a whole, with the rows of all its     *)
(* components completed and its last unit committed.                       *)
THEOREM PassedAsWhole == PhaseRunSpec => PhasePassedWhole
<1>1. PhaseInv /\ [PhaseRunNext]_allvars => [PassesWhole]_allvars
  BY PhaseInvNext
<1>2. PhaseRunSpec => [][PassesWhole]_allvars
  BY <1>1, PhaseInvariance, PTL DEF PhaseRunSpec
<1> QED
  BY <1>2 DEF PhasePassedWhole, PassesWhole

=============================================================================
