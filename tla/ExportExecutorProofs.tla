------------------------ MODULE ExportExecutorProofs ------------------------
(***************************************************************************)
(* What the executor of a copy export keeps for any number of workers and  *)
(* files, whatever the surroundings do: the types, what others put into    *)
(* the output or the staging path, and copied work until a verdict.        *)
(***************************************************************************)
EXTENDS ExportExecutor, TLAPS

(* While a staging path is not the run's own, every worker is before the   *)
(* reset of the checkpoint, or on its way out.                             *)
Early == {"idle", "look", "recover", "prepare", "stage", "complete", "failing",
          "cleanup"}

CopyingPlace == {"copy", "parent", "open", "part", "copied"}

(* The rows and the directories, apart from what workers remember.         *)
RowsSound ==
  /\ run \in RunRow
  /\ lease \in LeaseRow
  /\ staging \in Directory
  /\ out \in Directory
  /\ out.foreign => out.here
  /\ staging.foreign => staging.here
  /\ staging.foreign => ~run.owned
  /\ run.status \in {"completed", "failed"} => lease = NoLease

MemorySound(m) ==
  /\ m \in WorkerMemory
  /\ m.pc \in CopyingPlace => m.at < NFiles
  /\ staging.foreign => ~m.owned /\ m.pc \in Early
  /\ m.pc = "cleanup" => run.status = "failed"

(* The inductive invariant: a worker cleans up only after a verdict, which *)
(* freed the slot for good, and works in no staging path that is not its   *)
(* run's.                                                                  *)
IInv ==
  /\ RowsSound
  /\ worker \in [Worker -> WorkerMemory]
  /\ \A w \in Worker : MemorySound(worker[w])

(* No step makes a staging path foreign, and a failed run stays failed.    *)
Quiet ==
  /\ staging'.foreign => staging.foreign
  /\ run.status = "failed" => run'.status = "failed"

-----------------------------------------------------------------------------
(* Steps in general.                                                       *)

LEMMA IInvTypes == IInv /\ lost \in BOOLEAN => TypeOK
BY DEF IInv, RowsSound, TypeOK

(* A step that changes the memory of w only.                               *)
LEMMA MemoryStep ==
  ASSUME IInv, NEW w \in Worker, NEW m, worker' = [worker EXCEPT ![w] = m],
         Quiet, RowsSound', MemorySound(m)'
  PROVE  IInv'
<1>1. m \in WorkerMemory
  BY DEF MemorySound
<1>2. worker' \in [Worker -> WorkerMemory]
  BY <1>1 DEF IInv
<1>3. ASSUME NEW v \in Worker PROVE MemorySound(worker[v])'
  <2>1. CASE v = w
    BY <2>1 DEF IInv
  <2>2. CASE v # w
    <3>1. worker'[v] = worker[v]
      BY <2>2 DEF IInv
    <3>2. MemorySound(worker[v])
      BY DEF IInv
    <3> QED
      BY <3>1, <3>2 DEF MemorySound, Quiet
  <2> QED
    BY <2>1, <2>2
<1> QED
  BY <1>2, <1>3 DEF IInv

(* A step that leaves what the workers remember alone.                     *)
LEMMA RowStep ==
  ASSUME IInv, UNCHANGED worker, Quiet, RowsSound'
  PROVE  IInv'
<1>1. ASSUME NEW w \in Worker PROVE MemorySound(worker[w])'
  BY DEF IInv, MemorySound, Quiet
<1> QED
  BY <1>1 DEF IInv

(* A step that moves w to another place in run().                          *)
LEMMA GotoStep ==
  ASSUME IInv, NEW w \in Worker, NEW pc \in Place, Goto(w, pc),
         Quiet, RowsSound',
         pc \in CopyingPlace => worker[w].at < NFiles,
         staging'.foreign => pc \in Early,
         pc = "cleanup" => run'.status = "failed"
  PROVE  IInv'
<1> PICK m : m = [worker[w] EXCEPT !.pc = pc]
  OBVIOUS
<1>1. worker' = [worker EXCEPT ![w] = m]
  BY DEF Goto
<1>2. worker[w] \in WorkerMemory /\ MemorySound(worker[w])
  BY DEF IInv
<1>3. m.pc = pc /\ m.at = worker[w].at /\ m.owned = worker[w].owned
  BY <1>2 DEF WorkerMemory
<1>4. m \in WorkerMemory
  BY <1>2 DEF WorkerMemory
<1>5. MemorySound(m)'
  BY <1>2, <1>3, <1>4 DEF MemorySound, Quiet
<1> QED
  BY <1>1, <1>5, MemoryStep

(* A step that changes nothing but the place of w.                         *)
LEMMA MoveOnly ==
  ASSUME IInv, NEW w \in Worker, NEW pc \in Place, Goto(w, pc),
         UNCHANGED <<run, lease, staging, out>>,
         pc \in CopyingPlace => worker[w].at < NFiles,
         staging.foreign => pc \in Early,
         pc # "cleanup"
  PROVE  IInv'
<1>1. Quiet /\ RowsSound'
  BY DEF IInv, Quiet, RowsSound
<1> QED
  BY <1>1, GotoStep

LEMMA ToFailing ==
  ASSUME IInv, NEW w \in Worker, Goto(w, "failing"),
         UNCHANGED <<run, lease, staging, out>>
  PROVE  IInv'
<1>1. "failing" \in Place /\ "failing" \in Early /\ "failing" \notin CopyingPlace
  BY DEF Place, Early, CopyingPlace
<1> QED
  BY <1>1, MoveOnly

(* A worker in a place that is not early works in a staging of the run.    *)
LEMMA OwnStaging ==
  ASSUME IInv, NEW w \in Worker, worker[w].pc \notin Early
  PROVE  ~staging.foreign
BY DEF IInv, MemorySound

(* A worker with the lease works on a run without a verdict.               *)
LEMMA LeaseMeansOpen ==
  ASSUME IInv, NEW w \in Worker, LeaseMine(w)
  PROVE  run.status \notin {"completed", "failed"}
BY OwnerAssumption DEF IInv, RowsSound, LeaseMine, NoLease

LEMMA CheckStep ==
  ASSUME IInv, NEW w \in Worker, NEW from, NEW ok, NEW to \in Place,
         Check(w, from, ok, to),
         to \notin CopyingPlace, to # "cleanup",
         staging.foreign => to \in Early
  PROVE  IInv'
<1>1. CASE ok
  BY <1>1, MoveOnly DEF Check
<1>2. CASE ~ok
  BY <1>2, ToFailing DEF Check
<1> QED
  BY <1>1, <1>2

LEMMA TransactionStep ==
  ASSUME IInv, NEW w \in Worker, NEW from, NEW row \in RunRow, NEW to \in Place,
         Transaction(w, from, row, to), ~staging.foreign,
         row.status \notin {"completed", "failed"},
         to \notin CopyingPlace, to # "cleanup"
  PROVE  IInv'
<1>1. CASE TokenValid(w) /\ run' = row /\ Goto(w, to)
  <2>1. LeaseMine(w)
    BY <1>1 DEF TokenValid
  <2>2. Quiet
    BY <1>1, <2>1, LeaseMeansOpen DEF Transaction, Quiet
  <2>3. RowsSound'
    BY <1>1 DEF Transaction, IInv, RowsSound
  <2> QED
    BY <1>1, <2>2, <2>3, GotoStep DEF Transaction
<1>2. CASE UNCHANGED run /\ Goto(w, "failing")
  BY <1>2, ToFailing DEF Transaction
<1> QED
  BY <1>1, <1>2 DEF Transaction

LEMMA DirectoryTypes ==
  /\ Gone \in Directory /\ EmptyDirectory \in Directory
  /\ ~Gone.foreign /\ ~EmptyDirectory.foreign
  /\ ~Gone.here /\ EmptyDirectory.here
BY DEF Gone, EmptyDirectory, Directory

LEMMA IdleSound == MemorySound(Idle) /\ MemorySound(Idle)'
<1>1. Idle \in WorkerMemory
  BY PlanAssumption DEF Idle, WorkerMemory, Place
<1> QED
  BY <1>1 DEF MemorySound, Idle, CopyingPlace, Early

-----------------------------------------------------------------------------
(* The slot.                                                               *)

LEMMA InitSound == Init => IInv
<1> SUFFICES ASSUME Init PROVE IInv
  OBVIOUS
<1>1. run \in RunRow /\ ~run.owned /\ run.status = "queued"
  BY PlanAssumption DEF Init, RunRow
<1>2. lease \in LeaseRow
  BY DEF Init, NoLease, LeaseRow
<1>3. staging \in Directory /\ (staging.foreign => staging.here)
  <2>1. CASE staging = Gone
    BY <2>1, DirectoryTypes
  <2>2. CASE staging = [EmptyDirectory EXCEPT !.foreign = TRUE]
    BY <2>2, DirectoryTypes DEF Directory
  <2> QED
    BY <2>1, <2>2 DEF Init
<1>4. out \in Directory /\ ~out.foreign
  BY DirectoryTypes DEF Init
<1>5. Idle \in WorkerMemory
  BY IdleSound DEF MemorySound
<1>6. worker \in [Worker -> WorkerMemory]
  BY <1>5 DEF Init
<1>7. ASSUME NEW w \in Worker PROVE MemorySound(worker[w])
  BY IdleSound DEF Init
<1> QED
  BY <1>1, <1>2, <1>3, <1>4, <1>6, <1>7 DEF IInv, RowsSound

LEMMA RecoveredSound ==
  ASSUME IInv
  PROVE  /\ Recovered(run) \in RunRow
         /\ Recovered(run).owned = run.owned
         /\ run.status = "failed" => Recovered(run).status = "failed"
         /\ Recovered(run).status \in {"completed", "failed"} =>
              run.status \in {"completed", "failed"}
<1>1. run \in RunRow
  BY DEF IInv, RowsSound
<1>2. CASE run.status \in Active
  <2>1. Recovered(run) = [run EXCEPT !.status = "queued", !.epoch = run.epoch + 1]
    BY <1>1, <1>2 DEF Recovered
  <2>2. run.epoch + 1 \in Nat
    BY <1>1 DEF RunRow
  <2> QED
    BY <1>1, <1>2, <2>1, <2>2 DEF RunRow, Active
<1>3. CASE run.status \notin Active
  BY <1>1, <1>3 DEF Recovered
<1> QED
  BY <1>2, <1>3

LEMMA ClaimSound ==
  ASSUME IInv, NEW w \in Worker, Claim(w)
  PROVE  IInv'
<1> PICK row : row = IF lease = NoLease THEN run ELSE Recovered(run)
  OBVIOUS
<1>1. row \in RunRow /\ row.owned = run.owned /\ row.status = "queued"
  BY RecoveredSound DEF IInv, RowsSound, Claim
<1>2. run.status # "failed"
  BY <1>1, RecoveredSound
<1> PICK m : m = [Idle EXCEPT !.pc = "look", !.epoch = row.epoch + 1,
                              !.prepared = row.prepared]
  OBVIOUS
<1>3. worker' = [worker EXCEPT ![w] = m]
  BY DEF Claim
<1>4. m \in WorkerMemory /\ m.pc = "look" /\ ~m.owned
  <2>1. Idle \in WorkerMemory /\ ~Idle.owned
    BY IdleSound DEF MemorySound, Idle
  <2>2. row.epoch + 1 \in Nat /\ row.prepared \in BOOLEAN
    BY <1>1 DEF RunRow
  <2> QED
    BY <2>1, <2>2 DEF WorkerMemory, Place
<1>5. UNCHANGED <<staging, out>>
  BY DEF Claim
<1>6. run' = [row EXCEPT !.status = "planning", !.epoch = row.epoch + 1]
  BY DEF Claim
<1>7. run' \in RunRow /\ run'.owned = run.owned /\ run'.status = "planning"
  <2>1. row.epoch + 1 \in Nat
    BY <1>1 DEF RunRow
  <2>2. run' \in RunRow
    BY <1>1, <1>6, <2>1 DEF RunRow
  <2> QED
    BY <1>1, <1>6, <2>2 DEF RunRow
<1>8. lease' \in LeaseRow
  <2>1. lease' = [owner |-> w, epoch |-> row.epoch + 1, live |-> TRUE]
    BY DEF Claim
  <2> QED
    BY <1>1, <2>1 DEF LeaseRow, RunRow
<1>9. RowsSound'
  BY <1>5, <1>7, <1>8 DEF IInv, RowsSound
<1>10. Quiet
  BY <1>2, <1>5 DEF Quiet
<1>11. MemorySound(m)'
  BY <1>4 DEF MemorySound, CopyingPlace, Early
<1> QED
  BY <1>3, <1>9, <1>10, <1>11, MemoryStep

LEMMA RecoverSound ==
  ASSUME IInv, RecoverStaleLease
  PROVE  IInv'
<1>1. RowsSound'
  <2>1. lease' \in LeaseRow
    BY DEF RecoverStaleLease, NoLease, LeaseRow
  <2> QED
    BY <2>1, RecoveredSound DEF RecoverStaleLease, IInv, RowsSound
<1>2. Quiet
  BY RecoveredSound DEF RecoverStaleLease, Quiet
<1> QED
  BY <1>1, <1>2, RowStep DEF RecoverStaleLease

LEMMA ExpirySound ==
  ASSUME IInv, LeaseExpires
  PROVE  IInv'
<1>1. lease # NoLease
  BY DEF LeaseExpires, NoLease
<1>2. lease' \in LeaseRow
  BY DEF LeaseExpires, IInv, RowsSound, LeaseRow
<1>3. RowsSound'
  BY <1>1, <1>2 DEF LeaseExpires, IInv, RowsSound
<1>4. Quiet
  BY DEF LeaseExpires, Quiet
<1> QED
  BY <1>3, <1>4, RowStep DEF LeaseExpires

-----------------------------------------------------------------------------
(* run(), up to the copying.                                               *)

LEMMA LookSound ==
  ASSUME IInv, NEW w \in Worker, Look(w)
  PROVE  IInv'
<1> PICK pc : pc = IF ~out.here THEN "failing"
                   ELSE IF Empty(out) THEN "prepare" ELSE "recover"
  OBVIOUS
<1>1. pc \in Place /\ pc \in Early /\ pc \notin CopyingPlace /\ pc # "cleanup"
  BY DEF Place, Early, CopyingPlace
<1> QED
  BY <1>1, MoveOnly DEF Look

LEMMA PrepareSound ==
  ASSUME IInv, NEW w \in Worker, Prepare(w)
  PROVE  IInv'
<1>1. CASE TokenValid(w)
  <2> PICK m : m = [worker[w] EXCEPT !.pc = "stage", !.owned = run.owned,
                                     !.cursor = run.cursor]
    OBVIOUS
  <2>1. worker' = [worker EXCEPT ![w] = m]
    BY <1>1 DEF Prepare, IInv
  <2>2. /\ m \in WorkerMemory
        /\ m.pc = "stage"
        /\ m.owned = run.owned
    BY ZenonT(60) DEF IInv, RowsSound, RunRow, WorkerMemory, Place
  <2>3. run' = [run EXCEPT !.status = "planning", !.prepared = TRUE]
    BY <1>1 DEF Prepare
  <2>4. run' \in RunRow /\ run'.owned = run.owned /\ run'.status = "planning"
    BY <2>3 DEF IInv, RowsSound, RunRow
  <2>5. RowsSound'
    BY <1>1, <2>4 DEF Prepare, IInv, RowsSound
  <2>6. run.status # "failed"
    BY <1>1, LeaseMeansOpen DEF TokenValid
  <2>7. Quiet
    BY <1>1, <2>6 DEF Prepare, Quiet
  <2>8. MemorySound(m)'
    BY <1>1, <2>2 DEF Prepare, MemorySound, IInv, RowsSound, CopyingPlace, Early
  <2> QED
    BY <2>1, <2>5, <2>7, <2>8, MemoryStep
<1>2. CASE ~TokenValid(w)
  BY <1>2, ToFailing DEF Prepare
<1> QED
  BY <1>1, <1>2

LEMMA StageSound ==
  ASSUME IInv, NEW w \in Worker, Stage(w)
  PROVE  IInv'
<1>1. /\ {"failing", "reset", "enter"} \subseteq Place
      /\ "failing" \in Early
      /\ {"failing", "reset", "enter"} \cap CopyingPlace = {}
  BY DEF Place, Early, CopyingPlace
<1>2. CASE Goto(w, "failing")
  BY <1>2, ToFailing DEF Stage
<1>3. CASE ~staging.here /\ Goto(w, "reset")
  <2>1. ~staging.foreign
    BY <1>3 DEF IInv, RowsSound
  <2> QED
    BY <1>1, <1>3, <2>1, MoveOnly DEF Stage
<1>4. CASE worker[w].owned /\ Goto(w, "enter")
  <2>1. ~staging.foreign
    BY <1>4 DEF IInv, MemorySound
  <2> QED
    BY <1>1, <1>4, <2>1, MoveOnly DEF Stage
<1> QED
  BY <1>2, <1>3, <1>4 DEF Stage
LEMMA CopyingSound ==
  ASSUME IInv, NEW cursor \in 0..NFiles
  PROVE  /\ Copying(cursor) \in RunRow
         /\ Copying(cursor).status = "copying"
BY DEF IInv, RowsSound, RunRow, Copying

LEMMA ResetSound ==
  ASSUME IInv, NEW w \in Worker, Reset(w)
  PROVE  IInv'
<1>1. ~staging.foreign
  BY OwnStaging DEF Reset, Transaction, At, Early
<1>2. 0 \in 0..NFiles
  BY PlanAssumption
<1>3. "mkdir" \in Place /\ "mkdir" \notin CopyingPlace
  BY DEF Place, CopyingPlace
<1> QED
  BY <1>1, <1>2, <1>3, CopyingSound, TransactionStep DEF Reset

(* A step of w in the staging directory of the run.                        *)
LEMMA StagingStep ==
  ASSUME IInv, NEW w \in Worker, NEW pc \in Place, Goto(w, pc),
         UNCHANGED <<run, lease, out>>,
         staging' \in Directory, ~staging'.foreign,
         pc \in CopyingPlace => worker[w].at < NFiles,
         pc # "cleanup"
  PROVE  IInv'
<1>1. Quiet /\ RowsSound'
  BY DEF IInv, Quiet, RowsSound
<1> QED
  BY <1>1, GotoStep

LEMMA MakeStagingSound ==
  ASSUME IInv, NEW w \in Worker, MakeStaging(w)
  PROVE  IInv'
<1>1. "enter" \in Place /\ "enter" \notin CopyingPlace
  BY DEF Place, CopyingPlace
<1>2. CASE staging' = EmptyDirectory /\ Goto(w, "enter")
  BY <1>1, <1>2, DirectoryTypes, StagingStep DEF MakeStaging
<1>3. CASE UNCHANGED staging /\ Goto(w, "failing")
  BY <1>3, ToFailing DEF MakeStaging
<1> QED
  BY <1>2, <1>3 DEF MakeStaging

(* _set_copying stores a cursor.                                           *)
LEMMA CursorStored ==
  ASSUME IInv, NEW w \in Worker, NEW next \in 0..NFiles, ~staging.foreign,
         TokenValid(w), run' = Copying(next), UNCHANGED <<lease, staging, out>>
  PROVE  Quiet /\ RowsSound'
<1>1. run.status # "failed"
  BY LeaseMeansOpen DEF TokenValid
<1> QED
  BY <1>1, CopyingSound DEF Quiet, IInv, RowsSound

(* The worker goes on behind the files copied so far.                      *)
LEMMA CursorStep ==
  ASSUME IInv, NEW w \in Worker, NEW next \in 0..NFiles,
         NEW to \in {"copy", "verifying"}, to = "copy" => next # NFiles,
         ~staging.foreign, Quiet, RowsSound',
         worker' = [worker EXCEPT ![w].at = next, ![w].pc = to]
  PROVE  IInv'
<1> PICK m : m = [worker[w] EXCEPT !.at = next, !.pc = to]
  OBVIOUS
<1>1. worker' = [worker EXCEPT ![w] = m]
  BY DEF IInv
<1>2. m \in WorkerMemory
  <2>1. worker[w] \in WorkerMemory
    BY DEF IInv
  <2>2. to \in Place
    BY DEF Place
  <2> QED
    BY <2>1, <2>2 DEF WorkerMemory
<1>3. m.pc = to /\ m.at = next
  BY DEF IInv, WorkerMemory
<1>4. MemorySound(m)'
  <2>1. m.pc \in CopyingPlace => m.at < NFiles
    BY <1>3, PlanAssumption DEF CopyingPlace
  <2>2. ~staging'.foreign
    BY DEF Quiet
  <2> QED
    BY <1>2, <1>3, <2>1, <2>2 DEF MemorySound
<1> QED
  BY <1>1, <1>4, MemoryStep

LEMMA EnterSound ==
  ASSUME IInv, NEW w \in Worker, Enter(w)
  PROVE  IInv'
<1>1. ~staging.foreign
  BY OwnStaging DEF Enter, At, Early
<1>2. worker[w].cursor \in 0..NFiles
  BY DEF IInv, WorkerMemory
<1>3. CASE TokenValid(w)
  <2> PICK to : to = IF worker[w].cursor = NFiles THEN "verifying" ELSE "copy"
    OBVIOUS
  <2>1. worker' = [worker EXCEPT ![w].at = worker[w].cursor, ![w].pc = to]
    BY <1>3 DEF Enter
  <2>2. Quiet /\ RowsSound'
    BY <1>1, <1>2, <1>3, CursorStored DEF Enter
  <2> QED
    BY <1>1, <1>2, <2>1, <2>2, CursorStep
<1>4. CASE ~TokenValid(w)
  BY <1>4, ToFailing DEF Enter
<1> QED
  BY <1>3, <1>4

-----------------------------------------------------------------------------
(* Copying.                                                                *)

(* A worker in the copying loop has a file to copy.                        *)
LEMMA CopyingFile ==
  ASSUME IInv, NEW w \in Worker, worker[w].pc \in CopyingPlace
  PROVE  /\ ~staging.foreign
         /\ worker[w].at < NFiles
         /\ Current(w) \in File
         /\ Current(w) \in 0..NFiles
<1>1. worker[w].at \in 0..NFiles /\ worker[w].at < NFiles
  BY DEF IInv, MemorySound, WorkerMemory
<1>2. worker[w].pc \notin Early
  BY DEF CopyingPlace, Early
<1> QED
  BY <1>1, <1>2, PlanAssumption, OwnStaging DEF Current, File

LEMMA LookForFileSound ==
  ASSUME IInv, NEW w \in Worker, LookForFile(w)
  PROVE  IInv'
<1>1. worker[w].pc \in CopyingPlace /\ {"copied", "parent"} \subseteq Place
  BY DEF LookForFile, At, CopyingPlace, Place
<1>2. CASE Goto(w, "failing")
  BY <1>2, ToFailing DEF LookForFile
<1>3. CASE Goto(w, "copied")
  BY <1>1, <1>3, CopyingFile, MoveOnly DEF LookForFile
<1>4. CASE Goto(w, "parent")
  BY <1>1, <1>4, CopyingFile, MoveOnly DEF LookForFile
<1> QED
  BY <1>2, <1>3, <1>4 DEF LookForFile

LEMMA MakeParentSound ==
  ASSUME IInv, NEW w \in Worker, MakeParent(w)
  PROVE  IInv'
<1>1. worker[w].pc \in CopyingPlace /\ "open" \in Place
  BY DEF MakeParent, At, CopyingPlace, Place
<1>2. staging' \in Directory /\ ~staging'.foreign
  BY <1>1, CopyingFile DEF MakeParent, IInv, RowsSound, Directory
<1> QED
  BY <1>1, <1>2, CopyingFile, StagingStep DEF MakeParent

LEMMA WritePartSound ==
  ASSUME IInv, NEW w \in Worker, WritePart(w)
  PROVE  IInv'
<1>1. worker[w].pc \in CopyingPlace /\ "part" \in Place
  BY DEF WritePart, At, CopyingPlace, Place
<1>2. CASE staging.here
  <2>1. Goto(w, "part") /\ UNCHANGED <<run, lease, out>>
    BY <1>2 DEF WritePart
  <2>2. staging' = [staging EXCEPT !.parts = staging.parts \cup {Current(w)}]
    BY <1>2 DEF WritePart
  <2>3. staging' \in Directory /\ ~staging'.foreign
    BY <1>1, <2>2, CopyingFile DEF IInv, RowsSound, Directory
  <2> QED
    BY <1>1, <2>1, <2>3, CopyingFile, StagingStep
<1>3. CASE ~staging.here
  BY <1>3, ToFailing DEF WritePart
<1> QED
  BY <1>2, <1>3

LEMMA PublishPartSound ==
  ASSUME IInv, NEW w \in Worker, PublishPart(w)
  PROVE  IInv'
<1>1. worker[w].pc \in CopyingPlace /\ "copied" \in Place
  BY DEF PublishPart, At, CopyingPlace, Place
<1>2. CASE Current(w) \in staging.parts
  <2>1. Goto(w, "copied") /\ UNCHANGED <<run, lease, out>>
    BY <1>2 DEF PublishPart
  <2>2. staging' = [staging EXCEPT !.parts = staging.parts \ {Current(w)},
                                   !.files = staging.files \cup {Current(w)}]
    BY <1>2 DEF PublishPart
  <2>3. staging' \in Directory /\ ~staging'.foreign
    BY <1>1, <2>2, CopyingFile DEF IInv, RowsSound, Directory
  <2> QED
    BY <1>1, <2>1, <2>3, CopyingFile, StagingStep
<1>3. CASE Current(w) \notin staging.parts
  BY <1>3, ToFailing DEF PublishPart
<1> QED
  BY <1>2, <1>3

LEMMA CopiedSound ==
  ASSUME IInv, NEW w \in Worker, Copied(w)
  PROVE  IInv'
<1>1. worker[w].pc \in CopyingPlace
  BY DEF Copied, At, CopyingPlace
<1>2. ~staging.foreign /\ Current(w) \in 0..NFiles
  BY <1>1, CopyingFile
<1>3. CASE TokenValid(w) /\ run' = Copying(Current(w))
           /\ worker' = [worker EXCEPT ![w].at = Current(w),
                ![w].pc = IF Current(w) = NFiles THEN "verifying" ELSE "copy"]
  <2> PICK to : to = IF Current(w) = NFiles THEN "verifying" ELSE "copy"
    OBVIOUS
  <2>1. worker' = [worker EXCEPT ![w].at = Current(w), ![w].pc = to]
    BY <1>3
  <2>2. Quiet /\ RowsSound'
    BY <1>2, <1>3, CursorStored DEF Copied
  <2> QED
    BY <1>2, <2>1, <2>2, CursorStep
<1>4. CASE UNCHANGED run /\ Goto(w, "failing")
  BY <1>4, ToFailing DEF Copied
<1>5. CASE /\ Current(w) < NFiles
           /\ worker' = [worker EXCEPT ![w].at = Current(w), ![w].pc = "copy"]
           /\ UNCHANGED run
  <2>1. Quiet /\ RowsSound'
    BY <1>5 DEF Copied, Quiet, IInv, RowsSound
  <2>2. Current(w) # NFiles
    BY <1>2, <1>5, PlanAssumption
  <2> QED
    BY <1>2, <1>5, <2>1, <2>2, CursorStep
<1> QED
  BY <1>3, <1>4, <1>5 DEF Copied, CursorFor

-----------------------------------------------------------------------------
(* Verification, publication and completion.                               *)

LEMMA ReadSound ==
  ASSUME IInv, NEW w \in Worker,
         Recover(w) \/ VerifyStaging(w) \/ AssertReady(w) \/ VerifyOutput(w)
  PROVE  IInv'
<1>1. {"complete", "publishing", "swap"} \subseteq Place \ CopyingPlace
  BY DEF Place, CopyingPlace
<1>2. CASE Recover(w)
  BY <1>1, <1>2, CheckStep DEF Recover, Early
<1>3. CASE VerifyStaging(w)
  <2>1. ~staging.foreign
    BY <1>3, OwnStaging DEF VerifyStaging, Check, At, Early
  <2> QED
    BY <1>1, <1>3, <2>1, CheckStep DEF VerifyStaging
<1>4. CASE AssertReady(w)
  <2>1. ~staging.foreign
    BY <1>4, OwnStaging DEF AssertReady, Check, At, Early
  <2> QED
    BY <1>1, <1>4, <2>1, CheckStep DEF AssertReady
<1>5. CASE VerifyOutput(w)
  BY <1>1, <1>5, CheckStep DEF VerifyOutput, Early
<1> QED
  BY <1>2, <1>3, <1>4, <1>5

LEMMA StatusSound ==
  ASSUME IInv, NEW w \in Worker, SetVerifying(w) \/ SetPublishing(w)
  PROVE  IInv'
<1>1. {"check", "ready"} \subseteq Place \ CopyingPlace
  BY DEF Place, CopyingPlace
<1>2. ~staging.foreign
  BY OwnStaging DEF SetVerifying, SetPublishing, Transaction, At, Early
<1>3. ASSUME NEW status \in {"verifying", "publishing"}
      PROVE  /\ [run EXCEPT !.status = status] \in RunRow
             /\ [run EXCEPT !.status = status].status = status
  BY DEF IInv, RowsSound, RunRow
<1>4. CASE SetVerifying(w)
  BY <1>1, <1>2, <1>3, <1>4, TransactionStep DEF SetVerifying
<1>5. CASE SetPublishing(w)
  BY <1>1, <1>2, <1>3, <1>5, TransactionStep DEF SetPublishing
<1> QED
  BY <1>4, <1>5

LEMMA RemoveOutputSound ==
  ASSUME IInv, NEW w \in Worker, RemoveOutput(w)
  PROVE  IInv'
<1>1. CASE out' = Gone /\ Goto(w, "replace")
  <2>1. ~staging.foreign
    BY OwnStaging DEF RemoveOutput, At, Early
  <2>2. Quiet /\ RowsSound'
    BY <1>1, DirectoryTypes DEF RemoveOutput, Quiet, IInv, RowsSound
  <2>3. "replace" \in Place \ CopyingPlace
    BY DEF Place, CopyingPlace
  <2> QED
    BY <1>1, <2>1, <2>2, <2>3, GotoStep DEF RemoveOutput
<1>2. CASE UNCHANGED out /\ Goto(w, "failing")
  BY <1>2, ToFailing DEF RemoveOutput
<1> QED
  BY <1>1, <1>2 DEF RemoveOutput

LEMMA ReplaceOutputSound ==
  ASSUME IInv, NEW w \in Worker, ReplaceOutput(w)
  PROVE  IInv'
<1>1. CASE out' = staging /\ staging' = Gone /\ Goto(w, "published")
  <2>1. Quiet /\ RowsSound'
    BY <1>1, DirectoryTypes DEF ReplaceOutput, Quiet, IInv, RowsSound
  <2>2. "published" \in Place \ CopyingPlace
    BY DEF Place, CopyingPlace
  <2> QED
    BY <1>1, <2>1, <2>2, DirectoryTypes, GotoStep
<1>2. CASE UNCHANGED <<staging, out>> /\ Goto(w, "failing")
  BY <1>2, ToFailing DEF ReplaceOutput
<1> QED
  BY <1>1, <1>2 DEF ReplaceOutput

(* A worker that forgets the run.                                          *)
LEMMA LeaveStep ==
  ASSUME IInv, NEW w \in Worker, worker' = [worker EXCEPT ![w] = Idle],
         Quiet, RowsSound'
  PROVE  IInv'
BY IdleSound, MemoryStep

LEMMA CompleteSound ==
  ASSUME IInv, NEW w \in Worker, Complete(w)
  PROVE  IInv'
<1>1. CASE TokenValid(w) /\ NFiles \in out.files
  <2>1. run' = [run EXCEPT !.status = "completed"] /\ lease' = NoLease
    BY <1>1 DEF Complete
  <2>2. run' \in RunRow /\ run'.owned = run.owned
    BY <2>1 DEF IInv, RowsSound, RunRow
  <2>3. lease' \in LeaseRow
    BY <2>1 DEF NoLease, LeaseRow
  <2>4. run.status # "failed"
    BY <1>1, LeaseMeansOpen DEF TokenValid
  <2>5. RowsSound'
    BY <1>1, <2>1, <2>2, <2>3 DEF Complete, IInv, RowsSound
  <2>6. Quiet
    BY <1>1, <2>4 DEF Complete, Quiet
  <2> QED
    BY <1>1, <2>5, <2>6, LeaveStep DEF Complete
<1>2. CASE ~(TokenValid(w) /\ NFiles \in out.files)
  BY <1>2, ToFailing DEF Complete
<1> QED
  BY <1>1, <1>2

-----------------------------------------------------------------------------
(* Failure and the surroundings.                                           *)

LEMMA FailSound ==
  ASSUME IInv, NEW w \in Worker, Fail(w)
  PROVE  IInv'
<1> PICK m : m = [worker[w] EXCEPT !.pc = AfterFail(lease.live), !.owned = run.owned]
  OBVIOUS
<1>1. worker' = [worker EXCEPT ![w] = m]
  BY DEF Fail, IInv
<1>2. run \in RunRow /\ run.status # "failed"
  BY LeaseMeansOpen DEF Fail, IInv, RowsSound
<1>3. m \in WorkerMemory /\ m.owned = run.owned
  BY <1>2, ZenonT(60) DEF IInv, WorkerMemory, Place, AfterFail, RunRow
<1>4. m.pc = IF lease.live THEN "cleanup" ELSE "idle"
  BY DEF IInv, WorkerMemory, AfterFail
<1>5. run' \in RunRow /\ run'.owned = run.owned
      /\ (lease.live => run'.status = "failed")
  <2>1. CASE lease.live
    BY <1>2, <2>1 DEF Fail, RunRow
  <2>2. CASE ~lease.live
    <3>1. run' = [run EXCEPT !.status = "queued", !.epoch = run.epoch + 1]
      BY <2>2 DEF Fail
    <3>2. run.epoch + 1 \in Nat
      BY <1>2 DEF RunRow
    <3> QED
      BY <1>2, <2>2, <3>1, <3>2 DEF RunRow
  <2> QED
    BY <2>1, <2>2
<1>6. lease' \in LeaseRow /\ lease' = NoLease
  BY DEF Fail, NoLease, LeaseRow
<1>7. RowsSound'
  BY <1>5, <1>6 DEF Fail, IInv, RowsSound
<1>8. Quiet
  BY <1>2 DEF Fail, Quiet
<1>9. MemorySound(m)'
  BY <1>3, <1>4, <1>5, <1>7 DEF MemorySound, RowsSound, CopyingPlace, Early
<1> QED
  BY <1>1, <1>7, <1>8, <1>9, MemoryStep

LEMMA CleanUpSound ==
  ASSUME IInv, NEW w \in Worker, CleanUp(w)
  PROVE  IInv'
<1>1. Quiet /\ RowsSound'
  BY DirectoryTypes DEF CleanUp, Quiet, IInv, RowsSound
<1> QED
  BY <1>1, LeaveStep DEF CleanUp

LEMMA LeaveSound ==
  ASSUME IInv, NEW w \in Worker, FailFenced(w) \/ Crash(w)
  PROVE  IInv'
<1>1. Quiet /\ RowsSound'
  BY DEF FailFenced, Crash, Quiet, IInv, RowsSound
<1> QED
  BY <1>1, LeaveStep DEF FailFenced, Crash

LEMMA OperationRaisesSound ==
  ASSUME IInv, NEW w \in Worker, OperationRaises(w)
  PROVE  IInv'
<1>1. CASE UNCHANGED staging
  BY <1>1, ToFailing DEF OperationRaises
<1>2. CASE At(w, "part")
  <2>1. staging' = [staging EXCEPT !.parts = staging.parts \ {Current(w)}]
    BY <1>2 DEF OperationRaises
  <2>2. ~staging.foreign
    BY <1>2, OwnStaging DEF At, Early
  <2>3. staging' \in Directory /\ ~staging'.foreign
    BY <2>1, <2>2 DEF IInv, RowsSound, Directory
  <2>4. "failing" \in Place \ CopyingPlace
    BY DEF Place, CopyingPlace
  <2> QED
    BY <2>3, <2>4, StagingStep DEF OperationRaises
<1> QED
  BY <1>1, <1>2 DEF OperationRaises

LEMMA SurroundingsSound ==
  ASSUME IInv, UserFile \/ StagingLost
  PROVE  IInv'
<1>1. CASE UserFile
  <2>1. out' \in Directory /\ out'.here
    BY <1>1 DEF UserFile, IInv, RowsSound, Directory
  <2>2. Quiet /\ RowsSound'
    BY <1>1, <2>1 DEF UserFile, Quiet, IInv, RowsSound
  <2> QED
    BY <1>1, <2>2, RowStep DEF UserFile
<1>2. CASE StagingLost
  <2>1. Quiet /\ RowsSound'
    BY <1>2, DirectoryTypes DEF StagingLost, Quiet, IInv, RowsSound
  <2> QED
    BY <1>2, <2>1, RowStep DEF StagingLost
<1> QED
  BY <1>1, <1>2

-----------------------------------------------------------------------------
(* Every step.                                                             *)

LEMMA StepSound ==
  ASSUME IInv, NEW w \in Worker, Step(w)
  PROVE  IInv'
<1>1. CASE Look(w) \/ Recover(w) \/ Prepare(w) \/ Stage(w) \/ Reset(w) \/ MakeStaging(w)
  BY <1>1, LookSound, ReadSound, PrepareSound, StageSound, ResetSound, MakeStagingSound
<1>2. CASE \/ Enter(w) \/ LookForFile(w) \/ MakeParent(w) \/ WritePart(w)
           \/ PublishPart(w) \/ Copied(w)
  BY <1>2, EnterSound, LookForFileSound, MakeParentSound, WritePartSound, PublishPartSound,
     CopiedSound
<1>3. CASE SetVerifying(w) \/ VerifyStaging(w) \/ SetPublishing(w) \/ AssertReady(w)
  BY <1>3, StatusSound, ReadSound
<1>4. CASE RemoveOutput(w) \/ ReplaceOutput(w) \/ VerifyOutput(w) \/ Complete(w)
  BY <1>4, RemoveOutputSound, ReplaceOutputSound, ReadSound, CompleteSound
<1>5. CASE FailFenced(w) \/ Fail(w) \/ CleanUp(w)
  BY <1>5, LeaveSound, FailSound, CleanUpSound
<1> QED
  BY <1>1, <1>2, <1>3, <1>4, <1>5 DEF Step

LEMMA NextSound == IInv /\ [Next]_vars => IInv'
<1> SUFFICES ASSUME IInv, [Next]_vars PROVE IInv'
  OBVIOUS
<1>1. CASE RecoverStaleLease \/ LeaseExpires \/ UserFile \/ StagingLost
  BY <1>1, RecoverSound, ExpirySound, SurroundingsSound
<1>2. ASSUME NEW w \in Worker, Claim(w) \/ Step(w) \/ OperationRaises(w) \/ Crash(w)
      PROVE  IInv'
  BY <1>2, ClaimSound, StepSound, OperationRaisesSound, LeaveSound
<1>3. CASE UNCHANGED vars
  <2>1. Quiet /\ RowsSound'
    BY <1>3 DEF vars, Quiet, IInv, RowsSound
  <2> QED
    BY <1>3, <2>1, RowStep DEF vars
<1> QED
  BY <1>1, <1>2, <1>3 DEF Next

LEMMA Invariance == Spec => []IInv
BY InitSound, NextSound, PTL DEF Spec

LEMMA LostTyped == Spec => [](lost \in BOOLEAN)
<1>1. Init => lost \in BOOLEAN
  BY DEF Init
<1>2. lost \in BOOLEAN /\ [Next]_vars => (lost \in BOOLEAN)'
  <2> SUFFICES ASSUME lost \in BOOLEAN, [Next]_vars PROVE lost' \in BOOLEAN
    OBVIOUS
  <2>1. ASSUME NEW w \in Worker, Claim(w) \/ Step(w) \/ OperationRaises(w) \/ Crash(w)
        PROVE  lost' = lost
    BY <2>1 DEF Claim, Step, OperationRaises, Crash, Look, Recover, Prepare, Stage,
                Reset, MakeStaging, Enter, LookForFile, MakeParent, WritePart,
                PublishPart, Copied, SetVerifying, VerifyStaging, SetPublishing, AssertReady,
                RemoveOutput, ReplaceOutput, VerifyOutput, Complete, FailFenced,
                Fail, CleanUp, Check, Transaction
  <2>2. CASE RecoverStaleLease \/ LeaseExpires \/ UserFile \/ StagingLost
    BY <2>2 DEF RecoverStaleLease, LeaseExpires, UserFile, StagingLost
  <2>3. CASE UNCHANGED vars
    BY <2>3 DEF vars
  <2> QED
    BY <2>1, <2>2, <2>3 DEF Next
<1> QED
  BY <1>1, <1>2, PTL DEF Spec

-----------------------------------------------------------------------------
(* Who touches the directories.                                            *)

LEMMA OthersLeaveDirectories ==
  ASSUME NEW w \in Worker,
         \/ Claim(w) \/ Look(w) \/ Recover(w) \/ Prepare(w) \/ Stage(w) \/ Reset(w)
         \/ Enter(w) \/ LookForFile(w) \/ Copied(w) \/ SetVerifying(w)
         \/ VerifyStaging(w) \/ SetPublishing(w) \/ AssertReady(w) \/ VerifyOutput(w)
         \/ Complete(w) \/ FailFenced(w) \/ Fail(w) \/ Crash(w)
  PROVE  UNCHANGED <<staging, out>>
BY DEF Claim, Look, Recover, Prepare, Stage, Reset, Enter, LookForFile, Copied,
       SetVerifying, VerifyStaging, SetPublishing, AssertReady, VerifyOutput,
       Complete, FailFenced, Fail, Crash, Check, Transaction

(* The steps that change staging, and how.                                 *)
LEMMA StagingChanges ==
  ASSUME IInv, [Next]_vars
  PROVE  \/ staging' = staging
         \/ staging'.here /\ ~staging.foreign
         \/ staging'.here = staging.here /\ ~staging.foreign
         \/ out' = staging /\ staging' = Gone /\ ~staging.foreign
         \/ run.status = "failed" /\ ~staging.foreign
         \/ StagingLost
<1>1. ASSUME NEW w \in Worker, MakeStaging(w) \/ MakeParent(w)
      PROVE  staging' = staging \/ (staging'.here /\ ~staging.foreign)
  BY <1>1, OwnStaging, DirectoryTypes
     DEF MakeStaging, MakeParent, At, Early, IInv, RowsSound, Directory
<1>2. ASSUME NEW w \in Worker, WritePart(w) \/ PublishPart(w) \/ OperationRaises(w)
      PROVE  \/ staging' = staging
             \/ staging'.here = staging.here /\ ~staging.foreign
  <2>1. staging \in Directory
    BY DEF IInv, RowsSound
  <2>2. CASE worker[w].pc \in Early
    BY <1>2, <2>2 DEF WritePart, PublishPart, OperationRaises, At, Early
  <2>3. CASE worker[w].pc \notin Early
    BY <1>2, <2>1, <2>3, OwnStaging
       DEF WritePart, PublishPart, OperationRaises, Directory
  <2> QED
    BY <2>2, <2>3
<1>3. ASSUME NEW w \in Worker, ReplaceOutput(w)
      PROVE  \/ staging' = staging
             \/ out' = staging /\ staging' = Gone /\ ~staging.foreign
  BY <1>3, OwnStaging DEF ReplaceOutput, At, Early
<1>4. ASSUME NEW w \in Worker, CleanUp(w)
      PROVE  staging' = staging \/ (run.status = "failed" /\ ~staging.foreign)
  BY <1>4 DEF CleanUp, Removes, At, IInv, MemorySound
<1>5. ASSUME NEW w \in Worker, RemoveOutput(w) PROVE staging' = staging
  BY <1>5 DEF RemoveOutput
<1>6. CASE RecoverStaleLease \/ LeaseExpires \/ UserFile \/ UNCHANGED vars
  BY <1>6 DEF RecoverStaleLease, LeaseExpires, UserFile, vars
<1> QED
  BY <1>1, <1>2, <1>3, <1>4, <1>5, <1>6, OthersLeaveDirectories DEF Next, Step

(* The steps that change the output, and how.                              *)
LEMMA OutputChanges ==
  ASSUME IInv, [Next]_vars
  PROVE  \/ out' = out
         \/ ~out.foreign
         \/ out'.foreign
<1>1. ASSUME NEW w \in Worker, RemoveOutput(w) PROVE out' = out \/ ~out.foreign
  BY <1>1 DEF RemoveOutput, Empty, IInv, RowsSound
<1>2. ASSUME NEW w \in Worker, ReplaceOutput(w) PROVE out' = out \/ ~out.foreign
  BY <1>2 DEF ReplaceOutput, IInv, RowsSound
<1>3. ASSUME NEW w \in Worker,
             MakeStaging(w) \/ MakeParent(w) \/ WritePart(w) \/ PublishPart(w)
               \/ CleanUp(w) \/ OperationRaises(w)
      PROVE  out' = out
  BY <1>3 DEF MakeStaging, MakeParent, WritePart, PublishPart, CleanUp, OperationRaises
<1>4. CASE UserFile
  <2>1. out' = [out EXCEPT !.here = TRUE, !.foreign = TRUE] /\ out \in Directory
    BY <1>4 DEF UserFile, IInv, RowsSound
  <2> QED
    BY <2>1 DEF Directory
<1>5. CASE RecoverStaleLease \/ LeaseExpires \/ StagingLost \/ UNCHANGED vars
  BY <1>5 DEF RecoverStaleLease, LeaseExpires, StagingLost, vars
<1> QED
  BY <1>1, <1>2, <1>3, <1>4, <1>5, OthersLeaveDirectories DEF Next, Step

-----------------------------------------------------------------------------
(* The theorems.                                                           *)

(* Every row, directory and memory is of its type: in particular no worker *)
(* copies a file past the end of the plan, however often it resumed.       *)
THEOREM ExportTypeCorrect == Spec => []TypeOK
BY IInvTypes, Invariance, LostTyped, PTL

(* What others put into the output or the staging path stays where it is,  *)
(* with any number of workers, fenced off or not, in any step of run().    *)
THEOREM OthersFilesStay == Spec => ForeignKept
<1>1. IInv /\ [Next]_vars =>
        [(out.foreign => out'.foreign) /\ (staging.foreign => staging'.foreign)]_vars
  <2> SUFFICES ASSUME IInv, [Next]_vars
               PROVE  (out.foreign => out'.foreign) /\ (staging.foreign => staging'.foreign)
    OBVIOUS
  <2>1. out.foreign => out'.foreign
    BY OutputChanges
  <2>2. StagingLost => ~staging.foreign
    BY DEF StagingLost
  <2>3. staging.foreign => staging'.foreign
    BY <2>2, StagingChanges
  <2> QED
    BY <2>1, <2>3
<1> QED
  BY <1>1, Invariance, PTL DEF Spec, ForeignKept

(* Copied work leaves staging for the output or after a failed verdict: no *)
(* cleanup of a fenced-off worker throws away the work of its successor.   *)
THEOREM WorkStays == Spec => StagingKept
<1>1. IInv /\ [Next]_vars =>
        [staging.here /\ ~staging'.here /\ ~StagingLost =>
           out' = staging \/ run.status = "failed"]_vars
  BY StagingChanges
<1> QED
  BY <1>1, Invariance, PTL DEF Spec, StagingKept

-----------------------------------------------------------------------------
(* Publication.                                                            *)

(* Once the run failed or something is in the output, nobody's work depends*)
(* on the staging directory any more.                                      *)
Decided == run.status = "failed" \/ out.files # {}

(* The first n files can be relied on to be in staging.                    *)
Staged(n) == Decided \/ lost \/ 1..n \subseteq staging.files

StagedWhole == Decided \/ File \subseteq staging.files

DirectoriesSound ==
  /\ staging.files # {} \/ staging.parts # {} => staging.here
  /\ out.files # {} => out.here

(* What a worker in its place relies on.                                   *)
Relies(m) ==
  /\ m.pc \in {"stage", "reset", "mkdir", "enter"} => Staged(m.cursor)
  /\ m.pc \in {"copy", "parent", "open", "part"} => Staged(m.at)
  /\ m.pc = "copied" => Staged(m.at + 1)
  /\ m.pc \in {"publishing", "ready", "swap", "replace"} => StagedWhole
  /\ m.pc = "complete" => out.files = File

(* The inductive invariant of publication: no worker, fenced off or not,   *)
(* believes in files that are neither in staging nor published.            *)
PInv ==
  /\ IInv
  /\ DirectoriesSound
  /\ Staged(run.cursor)
  /\ run.status = "completed" => out.files = File
  /\ \A w \in Worker : Relies(worker[w])

(* A verdict is final: whoever still runs has lost the slot.               *)
LEMMA RunFrozen ==
  ASSUME IInv, [Next]_vars, run.status \in {"completed", "failed"}
  PROVE  run' = run
<1>1. \A w \in Worker : ~LeaseMine(w) /\ ~TokenValid(w)
  BY LeaseMeansOpen DEF TokenValid
<1>2. Recovered(run) = run /\ run.status # "queued"
  BY DEF Recovered, Active
<1>3. ASSUME NEW w \in Worker, Step(w) PROVE run' = run
  <2>1. CASE \/ Look(w) \/ Recover(w) \/ Stage(w) \/ MakeStaging(w) \/ LookForFile(w)
             \/ MakeParent(w) \/ WritePart(w) \/ PublishPart(w) \/ VerifyStaging(w)
             \/ AssertReady(w) \/ RemoveOutput(w) \/ ReplaceOutput(w) \/ VerifyOutput(w)
             \/ FailFenced(w) \/ CleanUp(w)
    BY <2>1 DEF Look, Recover, Stage, MakeStaging, LookForFile, MakeParent, WritePart,
       PublishPart, VerifyStaging, AssertReady, RemoveOutput, ReplaceOutput, VerifyOutput,
       FailFenced, CleanUp, Check
  <2>2. CASE Reset(w) \/ SetVerifying(w) \/ SetPublishing(w)
    BY <1>1, <2>2 DEF Reset, SetVerifying, SetPublishing, Transaction
  <2>3. CASE Prepare(w) \/ Enter(w) \/ Copied(w) \/ Complete(w) \/ Fail(w)
    BY <1>1, <2>3 DEF Prepare, Enter, Copied, Complete, Fail
  <2> QED
    BY <1>3, <2>1, <2>2, <2>3 DEF Step
<1>4. ASSUME NEW w \in Worker, Claim(w) PROVE FALSE
  BY <1>2, <1>4 DEF Claim
<1>5. CASE RecoverStaleLease \/ LeaseExpires \/ UserFile \/ StagingLost \/ UNCHANGED vars
  BY <1>2, <1>5 DEF RecoverStaleLease, LeaseExpires, UserFile, StagingLost, vars
<1>6. ASSUME NEW w \in Worker, OperationRaises(w) \/ Crash(w) PROVE run' = run
  BY <1>6 DEF OperationRaises, Crash
<1> QED
  BY <1>3, <1>4, <1>5, <1>6 DEF Next

(* What a step does to the files of the two directories.                   *)
FilesStep ==
  /\ out.files # {} => out'.files = out.files
  /\ \/ staging.files \subseteq staging'.files
     \/ run.status = "failed" \/ out'.files # {}
     \/ StagingLost

LEMMA FilesChange == ASSUME PInv, [Next]_vars PROVE FilesStep /\ DirectoriesSound'
<1>0. /\ staging \in Directory /\ out \in Directory /\ DirectoriesSound
      /\ Gone.files = {} /\ Gone.parts = {} /\ EmptyDirectory.files = {}
      /\ EmptyDirectory.parts = {} /\ EmptyDirectory.here
  BY DEF PInv, IInv, RowsSound, Gone, EmptyDirectory
<1>1. CASE UNCHANGED <<staging, out>>
  BY <1>0, <1>1 DEF FilesStep, DirectoriesSound
<1>2. ASSUME NEW w \in Worker, MakeStaging(w) PROVE FilesStep /\ DirectoriesSound'
  BY <1>0, <1>1, <1>2 DEF MakeStaging, Empty, FilesStep, DirectoriesSound
<1>3. ASSUME NEW w \in Worker, WritePart(w) PROVE FilesStep /\ DirectoriesSound'
  <2>1. CASE staging.here /\ staging' = [staging EXCEPT !.parts = @ \cup {Current(w)}]
    <3>1. staging'.here /\ staging'.files = staging.files /\ out' = out
      BY <1>0, <1>3, <2>1 DEF Directory, WritePart
    <3> QED
      BY <1>0, <2>1, <3>1 DEF FilesStep, DirectoriesSound
  <2> QED
    BY <1>1, <1>3, <2>1 DEF WritePart
<1>4. ASSUME NEW w \in Worker, PublishPart(w) PROVE FilesStep /\ DirectoriesSound'
  <2>1. CASE /\ Current(w) \in staging.parts
             /\ staging' = [staging EXCEPT !.parts = @ \ {Current(w)},
                                           !.files = @ \cup {Current(w)}]
    <3>1. staging.here /\ staging'.here /\ staging.files \subseteq staging'.files
          /\ out' = out
      BY <1>0, <1>4, <2>1 DEF Directory, DirectoriesSound, PublishPart
    <3> QED
      BY <1>0, <2>1, <3>1 DEF FilesStep, DirectoriesSound
  <2> QED
    BY <1>1, <1>4, <2>1 DEF PublishPart
<1>5. ASSUME NEW w \in Worker, RemoveOutput(w) PROVE FilesStep /\ DirectoriesSound'
  BY <1>0, <1>1, <1>5 DEF RemoveOutput, Empty, FilesStep, DirectoriesSound
<1>6. ASSUME NEW w \in Worker, ReplaceOutput(w) PROVE FilesStep /\ DirectoriesSound'
  <2>1. CASE staging.here /\ ~out.here /\ out' = staging /\ staging' = Gone
    BY <1>0, <2>1, DirectoryTypes DEF FilesStep, DirectoriesSound
  <2> QED
    BY <1>1, <1>6, <2>1 DEF ReplaceOutput
<1>7. ASSUME NEW w \in Worker, CleanUp(w) PROVE FilesStep /\ DirectoriesSound'
  <2>1. run.status = "failed"
    BY <1>7 DEF CleanUp, At, PInv, IInv, MemorySound
  <2> QED
    BY <1>0, <1>7, <2>1, DirectoryTypes DEF CleanUp, FilesStep, DirectoriesSound
<1>8. ASSUME NEW w \in Worker, OperationRaises(w) PROVE FilesStep /\ DirectoriesSound'
  <2>1. CASE staging' = [staging EXCEPT !.parts = @ \ {Current(w)}]
    <3>1. /\ staging'.here = staging.here /\ staging'.files = staging.files
          /\ staging'.parts \subseteq staging.parts /\ out' = out
      BY <1>0, <1>8, <2>1 DEF Directory, OperationRaises
    <3> QED
      BY <1>0, <3>1 DEF FilesStep, DirectoriesSound
  <2> QED
    BY <1>1, <1>8, <2>1 DEF OperationRaises
<1>9. CASE UserFile
  <2>1. out'.here /\ out'.files = out.files /\ staging' = staging
    BY <1>0, <1>9 DEF UserFile, Directory
  <2> QED
    BY <1>0, <2>1 DEF FilesStep, DirectoriesSound
<1>10. CASE StagingLost
  BY <1>0, <1>10, DirectoryTypes DEF StagingLost, FilesStep, DirectoriesSound
<1>11. CASE RecoverStaleLease \/ LeaseExpires \/ UNCHANGED vars
  BY <1>1, <1>11 DEF RecoverStaleLease, LeaseExpires, vars
<1>12. ASSUME NEW w \in Worker, MakeParent(w) PROVE FilesStep /\ DirectoriesSound'
  <2>1. /\ staging'.here /\ staging'.files = staging.files
        /\ staging'.parts = staging.parts /\ out' = out
    BY <1>0, <1>12 DEF Directory, MakeParent
  <2> QED
    BY <1>0, <2>1 DEF FilesStep, DirectoriesSound
<1> QED
  BY <1>1, <1>2, <1>3, <1>4, <1>5, <1>6, <1>7, <1>8, <1>9, <1>10, <1>11,
     <1>12, OthersLeaveDirectories DEF Next, Step

-----------------------------------------------------------------------------
(* What the workers rely on stays true.                                    *)

(* What every step leaves of the facts workers rely on.                    *)
Keeps ==
  /\ Decided => Decided'
  /\ lost => lost'
  /\ FilesStep
  /\ StagingLost => lost' /\ \A w \in Worker : worker[w].pc = "idle"

LEMMA StepKeeps == ASSUME PInv, [Next]_vars PROVE Keeps
<1>1. FilesStep
  BY FilesChange
<1>2. run.status = "failed" => run'.status = "failed"
  BY RunFrozen DEF PInv
<1>3. Decided => Decided'
  BY <1>1, <1>2 DEF Decided, FilesStep
<1>4. StagingLost => lost' /\ \A w \in Worker : worker[w].pc = "idle"
  BY DEF StagingLost, At
<1>5. lost => lost'
  <2>1. ASSUME NEW w \in Worker, Step(w) PROVE lost' = lost
    BY <2>1 DEF Step, Look, Recover, Prepare, Stage, Reset, MakeStaging, Enter,
       LookForFile, MakeParent, WritePart, PublishPart, Copied, SetVerifying, VerifyStaging,
       SetPublishing, AssertReady, RemoveOutput, ReplaceOutput, VerifyOutput,
       Complete, FailFenced, Fail, CleanUp, Check, Transaction
  <2> QED
    BY <2>1 DEF Next, vars, RecoverStaleLease, LeaseExpires, UserFile, StagingLost,
       Claim, OperationRaises, Crash
<1> QED
  BY <1>1, <1>3, <1>4, <1>5 DEF Keeps

LEMMA StagedKept == ASSUME Keeps, NEW n, Staged(n) PROVE Staged(n)'
BY DEF Keeps, FilesStep, Staged, Decided

LEMMA WholeKept == ASSUME Keeps, StagedWhole, ~StagingLost PROVE StagedWhole'
BY DEF Keeps, FilesStep, StagedWhole, Decided

LEMMA PublishedKept == ASSUME Keeps, out.files = File PROVE out'.files = File
<1>1. File # {}
  BY PlanAssumption DEF File
<1> QED
  BY <1>1 DEF Keeps, FilesStep

LEMMA ReliesKept ==
  ASSUME Keeps, NEW m, Relies(m), StagingLost => m.pc = "idle"
  PROVE  Relies(m)'
<1>1. Staged(m.cursor) => Staged(m.cursor)'
  BY StagedKept
<1>2. Staged(m.at) => Staged(m.at)'
  BY StagedKept
<1>3. Staged(m.at + 1) => Staged(m.at + 1)'
  BY StagedKept
<1> QED
  BY <1>1, <1>2, <1>3, WholeKept, PublishedKept DEF Relies

(* A step that moves w to a place where it relies on what holds.           *)
LEMMA GotoRelies ==
  ASSUME PInv, NEW w \in Worker, NEW pc, Goto(w, pc),
         NEW m, m = worker[w],
         pc \in {"stage", "reset", "mkdir", "enter"} => Staged(m.cursor)',
         pc \in {"copy", "parent", "open", "part"} => Staged(m.at)',
         pc = "copied" => Staged(m.at + 1)',
         pc \in {"publishing", "ready", "swap", "replace"} => StagedWhole',
         pc = "complete" => out'.files = File
  PROVE  Relies(worker[w])'
<1>1. m \in WorkerMemory
  BY DEF PInv, IInv
<1>2. PICK next : next = [m EXCEPT !.pc = pc]
  OBVIOUS
<1>3. next.pc = pc /\ next.cursor = m.cursor /\ next.at = m.at
  BY <1>1, <1>2 DEF WorkerMemory
<1>4. worker'[w] = next
  BY <1>2 DEF Goto, PInv, IInv
<1>5. Relies(next)'
  BY <1>3 DEF Relies
<1> QED
  BY <1>4, <1>5

(* Places that rely on nothing.                                            *)
Free == {"idle", "look", "recover", "prepare", "verifying", "check", "published",
         "failing", "cleanup"}

LEMMA GotoFree ==
  ASSUME PInv, NEW w \in Worker, NEW pc \in Free, Goto(w, pc)
  PROVE  Relies(worker[w])'
<1>1. PICK m : m = worker[w]
  OBVIOUS
<1> QED
  BY <1>1, GotoRelies DEF Free

LEMMA IdleRelies ==
  ASSUME PInv, NEW w \in Worker, NEW m, worker' = [worker EXCEPT ![w] = m],
         m.pc \in Free
  PROVE  Relies(worker[w])'
<1>1. worker'[w] = m
  BY DEF PInv, IInv
<1> QED
  BY <1>1 DEF Relies, Free

(* Reads and transactions on the way to publication.                       *)
LEMMA ReadRelies ==
  ASSUME PInv, Keeps, NEW w \in Worker,
         Look(w) \/ Recover(w) \/ Stage(w) \/ VerifyStaging(w) \/ AssertReady(w)
           \/ VerifyOutput(w) \/ LookForFile(w)
  PROVE  Relies(worker[w])'
<1>0. PICK m : m = worker[w] /\ Relies(m) /\ m \in WorkerMemory
  BY DEF PInv, IInv
<1>1. CASE Goto(w, "failing")
  BY <1>1, GotoFree DEF Free
<1>2. CASE Look(w)
  BY <1>2, GotoFree DEF Look, Free
<1>3. CASE \/ Recover(w) /\ Recovers(w)
           \/ VerifyOutput(w) /\ Verified(out)
  <2>1. Goto(w, "complete") /\ out.files = File /\ out' = out
    BY <1>3 DEF Recover, VerifyOutput, Check, Recovers, Verified
  <2> QED
    BY <1>0, <2>1, GotoRelies
<1>4. CASE Stage(w)
  <2>1. Staged(m.cursor)'
    BY <1>0, <1>4, StagedKept DEF Stage, At, Relies
  <2>2. Goto(w, "reset") \/ Goto(w, "enter") \/ Goto(w, "failing")
    BY <1>4 DEF Stage
  <2> QED
    BY <1>0, <1>1, <2>1, <2>2, GotoRelies
<1>5. CASE VerifyStaging(w) /\ Verified(staging)
  <2>1. Goto(w, "publishing") /\ StagedWhole'
    BY <1>5 DEF VerifyStaging, Check, Verified, StagedWhole
  <2> QED
    BY <1>0, <2>1, GotoRelies
<1>6. CASE AssertReady(w)
  <2>1. StagedWhole' \/ StagingLost
    BY <1>0, <1>6, WholeKept DEF AssertReady, Check, At, Relies
  <2>2. ~StagingLost
    BY <1>6 DEF AssertReady, Check, At, StagingLost
  <2>3. Goto(w, "swap") \/ Goto(w, "failing")
    BY <1>6 DEF AssertReady, Check
  <2> QED
    BY <1>0, <1>1, <2>1, <2>2, <2>3, GotoRelies
<1>7. CASE LookForFile(w)
  <2>1. Staged(m.at) /\ Staged(m.at)'
    BY <1>0, <1>7, StagedKept DEF LookForFile, At, Relies
  <2>2. CASE m.at + 1 \in staging.files /\ Goto(w, "copied")
    <3>1. 1..(m.at + 1) = (1..m.at) \cup {m.at + 1}
      BY <1>0 DEF WorkerMemory
    <3>2. Staged(m.at + 1)'
      BY <1>7, <2>1, <2>2, <3>1 DEF LookForFile, Staged, Decided
    <3> QED
      BY <1>0, <2>2, <3>2, GotoRelies
  <2>3. CASE Goto(w, "parent")
    BY <1>0, <2>1, <2>3, GotoRelies
  <2> QED
    BY <1>0, <1>1, <1>7, <2>2, <2>3 DEF LookForFile, Current
<1> QED
  BY <1>1, <1>2, <1>3, <1>4, <1>5, <1>6, <1>7
     DEF Recover, VerifyStaging, VerifyOutput, Check

(* Writes to the directories and status changes of the run.                *)
LEMMA WriteRelies ==
  ASSUME PInv, Keeps, NEW w \in Worker,
         MakeStaging(w) \/ MakeParent(w) \/ WritePart(w) \/ PublishPart(w)
           \/ RemoveOutput(w) \/ ReplaceOutput(w) \/ SetVerifying(w) \/ SetPublishing(w)
           \/ Reset(w)
  PROVE  Relies(worker[w])'
<1>0. PICK m : m = worker[w] /\ Relies(m) /\ m \in WorkerMemory
  BY DEF PInv, IInv
<1>1. CASE Goto(w, "failing")
  BY <1>1, GotoFree DEF Free
<1>2. CASE MakeStaging(w)
  <2>1. Staged(m.cursor)'
    BY <1>0, <1>2, StagedKept DEF MakeStaging, At, Relies
  <2> QED
    BY <1>0, <1>1, <1>2, <2>1, GotoRelies DEF MakeStaging
<1>3. CASE MakeParent(w) \/ WritePart(w)
  <2>1. Staged(m.at)'
    BY <1>0, <1>3, StagedKept DEF MakeParent, WritePart, At, Relies
  <2>2. Goto(w, "open") \/ Goto(w, "part") \/ Goto(w, "failing")
    BY <1>3 DEF MakeParent, WritePart
  <2> QED
    BY <1>0, <1>1, <2>1, <2>2, GotoRelies
<1>4. CASE PublishPart(w) /\ m.at + 1 \in staging.parts
  <2>1. Staged(m.at) /\ Staged(m.at)'
    BY <1>0, <1>4, StagedKept DEF PublishPart, At, Relies
  <2>2. staging'.files = staging.files \cup {m.at + 1} /\ Goto(w, "copied")
    BY <1>0, <1>4 DEF PublishPart, Current, PInv, IInv, RowsSound, Directory
  <2>3. 1..(m.at + 1) = (1..m.at) \cup {m.at + 1}
    BY <1>0 DEF WorkerMemory
  <2>4. Staged(m.at + 1)'
    BY <1>4, <2>1, <2>2, <2>3 DEF PublishPart, Staged, Decided
  <2> QED
    BY <1>0, <2>2, <2>4, GotoRelies
<1>5. CASE RemoveOutput(w) \/ SetPublishing(w)
  <2>1. StagedWhole /\ ~StagingLost
    BY <1>0, <1>5 DEF RemoveOutput, SetPublishing, Transaction, At, Relies, StagingLost
  <2>2. StagedWhole'
    BY <2>1, WholeKept
  <2>3. Goto(w, "replace") \/ Goto(w, "ready") \/ Goto(w, "failing")
    BY <1>5 DEF RemoveOutput, SetPublishing, Transaction
  <2> QED
    BY <1>0, <1>1, <2>2, <2>3, GotoRelies
<1>6. CASE ReplaceOutput(w) \/ SetVerifying(w)
  <2>1. Goto(w, "published") \/ Goto(w, "check") \/ Goto(w, "failing")
    BY <1>6 DEF ReplaceOutput, SetVerifying, Transaction
  <2> QED
    BY <2>1, GotoFree DEF Free
<1>7. CASE Reset(w)
  <2>1. Staged(m.cursor)'
    BY <1>0, <1>7, StagedKept DEF Reset, Transaction, At, Relies
  <2> QED
    BY <1>0, <1>1, <1>7, <2>1, GotoRelies DEF Reset, Transaction
<1> QED
  BY <1>0, <1>1, <1>2, <1>3, <1>4, <1>5, <1>6, <1>7 DEF PublishPart, Current

(* Steps that remember a new position.                                     *)
LEMMA PositionRelies ==
  ASSUME PInv, Keeps, NEW w \in Worker, Prepare(w) \/ Enter(w) \/ Copied(w)
  PROVE  Relies(worker[w])'
<1>0. PICK m : m = worker[w] /\ Relies(m) /\ m \in WorkerMemory
  BY DEF PInv, IInv
<1>1. CASE Goto(w, "failing")
  BY <1>1, GotoFree DEF Free
<1>2. ASSUME NEW next, NEW pc \in {"copy", "verifying"}, Staged(next)',
             worker' = [worker EXCEPT ![w].at = next, ![w].pc = pc]
      PROVE  Relies(worker[w])'
  <2>1. PICK new : new = [m EXCEPT !.at = next, !.pc = pc]
    OBVIOUS
  <2>2. new.at = next /\ new.pc = pc
    BY <1>0, <2>1 DEF WorkerMemory
  <2>3. worker'[w] = new
    BY <1>0, <1>2, <2>1 DEF PInv, IInv
  <2>4. Relies(new)'
    BY <1>2, <2>2 DEF Relies
  <2> QED
    BY <2>3, <2>4
<1>3. CASE Enter(w)
  <2>1. Staged(m.cursor)'
    BY <1>0, <1>3, StagedKept DEF Enter, At, Relies
  <2>2. PICK pc \in {"copy", "verifying"} :
          \/ worker' = [worker EXCEPT ![w].at = m.cursor, ![w].pc = pc]
          \/ Goto(w, "failing")
    BY <1>0, <1>3 DEF Enter
  <2> QED
    BY <1>1, <1>2, <2>1, <2>2
<1>4. CASE Copied(w)
  <2>1. Staged(m.at + 1)'
    BY <1>0, <1>4, StagedKept DEF Copied, At, Relies
  <2>2. PICK pc \in {"copy", "verifying"} :
          \/ worker' = [worker EXCEPT ![w].at = m.at + 1, ![w].pc = pc]
          \/ Goto(w, "failing")
    BY <1>0, <1>4 DEF Copied, Current
  <2> QED
    BY <1>1, <1>2, <2>1, <2>2
<1>5. CASE Prepare(w) /\ ~Goto(w, "failing")
  <2>1. PICK cursor : cursor = run.cursor
    OBVIOUS
  <2>2. Staged(cursor)'
    BY <2>1, StagedKept DEF PInv
  <2>3. PICK new : new = [m EXCEPT !.pc = "stage", !.owned = run.owned, !.cursor = cursor]
    OBVIOUS
  <2>4. new.pc = "stage" /\ new.cursor = cursor
    BY <1>0, <2>3 DEF WorkerMemory
  <2>5. worker'[w] = new
    BY <1>0, <1>5, <2>1, <2>3 DEF Prepare, PInv, IInv
  <2>6. Relies(new)'
    BY <2>2, <2>4 DEF Relies
  <2> QED
    BY <2>5, <2>6
<1> QED
  BY <1>1, <1>3, <1>4, <1>5

(* Claims and steps that give up.                                          *)
LEMMA OtherRelies ==
  ASSUME PInv, NEW w \in Worker,
         Claim(w) \/ Complete(w) \/ FailFenced(w) \/ Fail(w) \/ CleanUp(w)
           \/ OperationRaises(w) \/ Crash(w)
  PROVE  Relies(worker[w])'
<1>0. PICK m : m = worker[w] /\ m \in WorkerMemory
  BY DEF PInv, IInv
<1>1. CASE Goto(w, "failing")
  BY <1>1, GotoFree DEF Free
<1>2. CASE worker' = [worker EXCEPT ![w] = Idle]
  BY <1>2, IdleRelies DEF Idle, Free
<1>3. CASE Claim(w)
  <2>1. PICK new : /\ worker' = [worker EXCEPT ![w] = new]
                   /\ \E n, p : new = [Idle EXCEPT !.pc = "look", !.epoch = n,
                                                   !.prepared = p]
    BY <1>3 DEF Claim
  <2>2. new.pc = "look"
    BY <2>1 DEF Idle
  <2> QED
    BY <2>1, <2>2, IdleRelies DEF Free
<1>4. CASE Fail(w)
  <2>1. PICK new : new = [m EXCEPT !.pc = AfterFail(lease.live), !.owned = run.owned]
    OBVIOUS
  <2>2. worker' = [worker EXCEPT ![w] = new]
    BY <1>0, <1>4, <2>1 DEF Fail, PInv, IInv
  <2>3. new.pc \in Free
    BY <1>0, <2>1 DEF WorkerMemory, AfterFail, Free
  <2> QED
    BY <2>2, <2>3, IdleRelies
<1> QED
  BY <1>1, <1>2, <1>3, <1>4 DEF Complete, FailFenced, CleanUp, OperationRaises, Crash

LEMMA RunnerRelies ==
  ASSUME PInv, Keeps, NEW w \in Worker,
         Claim(w) \/ Step(w) \/ OperationRaises(w) \/ Crash(w)
  PROVE  Relies(worker[w])'
BY ReadRelies, WriteRelies, PositionRelies, OtherRelies DEF Step

LEMMA OthersRemember ==
  ASSUME PInv, NEW w \in Worker, NEW v \in Worker \ {w},
         Claim(w) \/ Step(w) \/ OperationRaises(w) \/ Crash(w)
  PROVE  worker'[v] = worker[v]
<1>1. worker \in [Worker -> WorkerMemory]
  BY DEF PInv, IInv
<1>2. ASSUME NEW pc, Goto(w, pc) PROVE worker'[v] = worker[v]
  BY <1>1, <1>2 DEF Goto
<1>3. CASE \/ Look(w) \/ Recover(w) \/ Stage(w) \/ Reset(w) \/ MakeStaging(w)
           \/ LookForFile(w) \/ MakeParent(w) \/ WritePart(w) \/ PublishPart(w)
           \/ SetVerifying(w) \/ VerifyStaging(w) \/ SetPublishing(w) \/ AssertReady(w)
           \/ RemoveOutput(w) \/ ReplaceOutput(w) \/ VerifyOutput(w) \/ OperationRaises(w)
  BY <1>2, <1>3 DEF Look, Recover, Stage, Reset, MakeStaging, LookForFile, MakeParent,
     WritePart, PublishPart, SetVerifying, VerifyStaging, SetPublishing, AssertReady,
     RemoveOutput, ReplaceOutput, VerifyOutput, OperationRaises, Check, Transaction
<1>4. CASE \/ Prepare(w) \/ Enter(w) \/ Copied(w) \/ Complete(w) \/ FailFenced(w)
           \/ Fail(w) \/ CleanUp(w) \/ Claim(w) \/ Crash(w)
  BY <1>1, <1>2, <1>4 DEF Prepare, Enter, Copied, Complete, FailFenced, Fail, CleanUp,
     Claim, Crash
<1> QED
  BY <1>3, <1>4 DEF Step

LEMMA WorkersRely == ASSUME PInv, Keeps, [Next]_vars PROVE \A w \in Worker : Relies(worker[w])'
<1>1. ASSUME NEW v \in Worker, worker'[v] = worker[v] PROVE Relies(worker[v])'
  <2>1. PICK m : m = worker[v] /\ Relies(m)
    BY DEF PInv
  <2>2. StagingLost => m.pc = "idle"
    BY <2>1 DEF Keeps
  <2>3. Relies(m)'
    BY <2>1, <2>2, ReliesKept
  <2> QED
    BY <1>1, <2>1, <2>3
<1>2. ASSUME NEW w \in Worker,
             Claim(w) \/ Step(w) \/ OperationRaises(w) \/ Crash(w),
             NEW v \in Worker
      PROVE  Relies(worker[v])'
  BY <1>1, <1>2, RunnerRelies, OthersRemember
<1>3. CASE RecoverStaleLease \/ LeaseExpires \/ UserFile \/ StagingLost \/ UNCHANGED vars
  BY <1>1, <1>3 DEF RecoverStaleLease, LeaseExpires, UserFile, StagingLost, vars
<1> QED
  BY <1>2, <1>3 DEF Next

-----------------------------------------------------------------------------
(* The stored cursor and the verdict.                                      *)

LEMMA CursorChanges ==
  ASSUME PInv, Keeps, [Next]_vars
  PROVE  \/ run'.cursor = run.cursor
         \/ Staged(run.cursor)'
<1>0. run \in RunRow
  BY DEF PInv, IInv, RowsSound
<1>1. Recovered(run).cursor = run.cursor
  BY <1>0 DEF Recovered, RunRow
<1>2. ASSUME NEW n, run' = Copying(n) PROVE run'.cursor = n
  BY <1>0, <1>2 DEF Copying, RunRow
<1>3. ASSUME NEW w \in Worker, Claim(w) PROVE run'.cursor = run.cursor
  <2>1. PICK row : row.cursor = run.cursor /\ row \in RunRow
                   /\ run' = [row EXCEPT !.status = "planning", !.epoch = row.epoch + 1]
    BY <1>0, <1>1, <1>3, RecoveredSound DEF Claim, PInv
  <2> QED
    BY <2>1 DEF RunRow
<1>4. ASSUME NEW w \in Worker, Reset(w) PROVE run' = run \/ Staged(run.cursor)'
  <2>1. 1..0 = {}
    OBVIOUS
  <2>2. CASE run' = Copying(0)
    BY <1>2, <2>1, <2>2 DEF Staged
  <2> QED
    BY <1>4, <2>2 DEF Reset, Transaction
<1>5. ASSUME NEW w \in Worker, Enter(w) PROVE run' = run \/ Staged(run.cursor)'
  <2>1. PICK n : n = worker[w].cursor
    OBVIOUS
  <2>2. Staged(n)'
    BY <1>5, <2>1, StagedKept DEF Enter, At, PInv, Relies
  <2>3. CASE run' = Copying(n)
    BY <1>2, <2>2, <2>3
  <2> QED
    BY <1>5, <2>1, <2>3 DEF Enter
<1>6. ASSUME NEW w \in Worker, Copied(w) PROVE run' = run \/ Staged(run.cursor)'
  <2>1. PICK n : n = worker[w].at + 1
    OBVIOUS
  <2>2. Staged(n)'
    BY <1>6, <2>1, StagedKept DEF Copied, At, PInv, Relies
  <2>3. CASE run' = Copying(n)
    BY <1>2, <2>2, <2>3
  <2> QED
    BY <1>6, <2>1, <2>3 DEF Copied, Current, CursorFor
<1>7. ASSUME NEW w \in Worker,
             Prepare(w) \/ SetVerifying(w) \/ SetPublishing(w) \/ Complete(w) \/ Fail(w)
      PROVE  run'.cursor = run.cursor
  BY <1>0, <1>7
     DEF Prepare, SetVerifying, SetPublishing, Complete, Fail, Transaction, RunRow
<1>8. ASSUME NEW w \in Worker,
             \/ Look(w) \/ Recover(w) \/ Stage(w) \/ MakeStaging(w) \/ LookForFile(w)
             \/ MakeParent(w) \/ WritePart(w) \/ PublishPart(w) \/ VerifyStaging(w)
             \/ AssertReady(w) \/ RemoveOutput(w) \/ ReplaceOutput(w) \/ VerifyOutput(w)
             \/ FailFenced(w) \/ CleanUp(w) \/ OperationRaises(w) \/ Crash(w)
      PROVE  run' = run
  BY <1>8 DEF Look, Recover, Stage, MakeStaging, LookForFile, MakeParent, WritePart,
     PublishPart, VerifyStaging, AssertReady, RemoveOutput, ReplaceOutput, VerifyOutput,
     FailFenced, CleanUp, OperationRaises, Crash, Check
<1>9. CASE RecoverStaleLease \/ LeaseExpires \/ UserFile \/ StagingLost \/ UNCHANGED vars
  BY <1>1, <1>9 DEF RecoverStaleLease, LeaseExpires, UserFile, StagingLost, vars
<1> QED
  BY <1>3, <1>4, <1>5, <1>6, <1>7, <1>8, <1>9 DEF Next, Step

(* The two ways to a verdict.                                              *)
LEMMA VerdictChanges ==
  ASSUME IInv, [Next]_vars
  PROVE  \/ run' = run
         \/ /\ run.status \notin {"completed", "failed"}
            /\ run'.status \notin {"completed", "failed"}
         \/ /\ run.status \notin {"completed", "failed"}
            /\ UNCHANGED out
            /\ \/ run'.status = "failed"
               \/ run'.status = "completed" /\ \E w \in Worker : Complete(w)
<1> SUFFICES ASSUME run.status \notin {"completed", "failed"}
             PROVE  \/ run' = run
                    \/ run'.status \notin {"completed", "failed"}
                    \/ /\ UNCHANGED out
                       /\ \/ run'.status = "failed"
                          \/ run'.status = "completed" /\ \E w \in Worker : Complete(w)
  BY RunFrozen
<1>0. run \in RunRow
  BY DEF IInv, RowsSound
<1>1. Recovered(run).status \notin {"completed", "failed"}
  BY <1>0, RecoveredSound
<1>2. ASSUME NEW w \in Worker, Claim(w) PROVE run'.status \notin {"completed", "failed"}
  <2>1. PICK row \in RunRow :
          run' = [row EXCEPT !.status = "planning", !.epoch = row.epoch + 1]
    BY <1>0, <1>2, RecoveredSound DEF Claim
  <2> QED
    BY <2>1 DEF RunRow
<1>3. ASSUME NEW n PROVE Copying(n).status \notin {"completed", "failed"}
  BY <1>0 DEF Copying, RunRow
<1>4. ASSUME NEW w \in Worker,
             Reset(w) \/ Enter(w) \/ Copied(w) \/ SetVerifying(w) \/ SetPublishing(w)
               \/ Prepare(w)
      PROVE  run' = run \/ run'.status \notin {"completed", "failed"}
  <2>1. CASE Reset(w) \/ Enter(w) \/ Copied(w)
    BY <1>3, <2>1 DEF Reset, Enter, Copied, Transaction
  <2>2. CASE SetVerifying(w) \/ SetPublishing(w) \/ Prepare(w)
    BY <1>0, <2>2 DEF SetVerifying, SetPublishing, Prepare, Transaction, RunRow
  <2> QED
    BY <1>4, <2>1, <2>2
<1>5. ASSUME NEW w \in Worker, Fail(w)
      PROVE  UNCHANGED out /\ run'.status \in {"failed", "queued"}
  BY <1>0, <1>5 DEF Fail, RunRow
<1>6. ASSUME NEW w \in Worker, Complete(w)
      PROVE  UNCHANGED out /\ (run' = run \/ run'.status = "completed")
  BY <1>0, <1>6 DEF Complete, RunRow
<1>7. ASSUME NEW w \in Worker,
             \/ Look(w) \/ Recover(w) \/ Stage(w) \/ MakeStaging(w) \/ LookForFile(w)
             \/ MakeParent(w) \/ WritePart(w) \/ PublishPart(w) \/ VerifyStaging(w)
             \/ AssertReady(w) \/ RemoveOutput(w) \/ ReplaceOutput(w) \/ VerifyOutput(w)
             \/ FailFenced(w) \/ CleanUp(w) \/ OperationRaises(w) \/ Crash(w)
      PROVE  run' = run
  BY <1>7 DEF Look, Recover, Stage, MakeStaging, LookForFile, MakeParent, WritePart,
     PublishPart, VerifyStaging, AssertReady, RemoveOutput, ReplaceOutput, VerifyOutput,
     FailFenced, CleanUp, OperationRaises, Crash, Check
<1>8. CASE RecoverStaleLease \/ LeaseExpires \/ UserFile \/ StagingLost \/ UNCHANGED vars
  BY <1>1, <1>8 DEF RecoverStaleLease, LeaseExpires, UserFile, StagingLost, vars
<1> QED
  BY <1>2, <1>4, <1>5, <1>6, <1>7, <1>8 DEF Next, Step

(* The files of the output appear in one step, as the whole plan unless the*)
(* run has failed, and stay.                                               *)
LEMMA OutputFiles ==
  ASSUME PInv, [Next]_vars
  PROVE  \/ out'.files = out.files
         \/ /\ out.files = {} /\ run' = run
            /\ out'.files = File \/ run.status = "failed"
<1>0. /\ staging \in Directory /\ out \in Directory /\ DirectoriesSound /\ Gone.files = {}
  BY DEF PInv, IInv, RowsSound, Gone
<1>1. ASSUME NEW w \in Worker, RemoveOutput(w) PROVE out'.files = out.files
  BY <1>0, <1>1 DEF RemoveOutput, Empty, DirectoriesSound
<1>2. ASSUME NEW w \in Worker, ReplaceOutput(w)
      PROVE  \/ out'.files = out.files
             \/ /\ out.files = {} /\ run' = run
                /\ out'.files = File \/ run.status = "failed"
  <2>1. CASE staging.here /\ ~out.here /\ out' = staging
    <3>1. out.files = {} /\ staging.files \subseteq File
      BY <1>0, <2>1 DEF DirectoriesSound, Directory
    <3>2. StagedWhole
      BY <1>2 DEF ReplaceOutput, At, PInv, Relies
    <3> QED
      BY <1>2, <2>1, <3>1, <3>2 DEF ReplaceOutput, StagedWhole, Decided
  <2> QED
    BY <1>2, <2>1 DEF ReplaceOutput
<1>3. ASSUME NEW w \in Worker,
             MakeStaging(w) \/ MakeParent(w) \/ WritePart(w) \/ PublishPart(w)
               \/ CleanUp(w) \/ OperationRaises(w)
      PROVE  out' = out
  BY <1>3 DEF MakeStaging, MakeParent, WritePart, PublishPart, CleanUp, OperationRaises
<1>4. CASE UserFile
  BY <1>0, <1>4 DEF UserFile, Directory
<1>5. CASE RecoverStaleLease \/ LeaseExpires \/ StagingLost \/ UNCHANGED vars
  BY <1>5 DEF RecoverStaleLease, LeaseExpires, StagingLost, vars
<1> QED
  BY <1>1, <1>2, <1>3, <1>4, <1>5, OthersLeaveDirectories DEF Next, Step

LEMMA CompletedWhole ==
  ASSUME PInv, Keeps, [Next]_vars, run'.status = "completed"
  PROVE  out'.files = File
<1>1. CASE run.status = "completed"
  BY <1>1, PublishedKept DEF PInv
<1>2. CASE run.status # "completed"
  <2>1. UNCHANGED out /\ \E w \in Worker : Complete(w)
    BY <1>2, VerdictChanges DEF PInv
  <2> QED
    BY <2>1 DEF Complete, At, PInv, Relies
<1> QED
  BY <1>1, <1>2

LEMMA PublicationInvariance == Spec => []PInv
<1>1. Init => PInv
  <2> SUFFICES ASSUME Init PROVE PInv
    OBVIOUS
  <2>1. staging.files = {} /\ staging.parts = {} /\ out.files = {}
    <3>1. out.files = {}
      BY DEF Init, Gone, EmptyDirectory
    <3>2. staging = Gone \/ staging = [EmptyDirectory EXCEPT !.foreign = TRUE]
      BY DEF Init
    <3>3. /\ Gone.files = {} /\ Gone.parts = {}
          /\ EmptyDirectory.files = {} /\ EmptyDirectory.parts = {}
      BY DEF Gone, EmptyDirectory
    <3>4. CASE staging = Gone
      BY <3>1, <3>3, <3>4
    <3>5. CASE staging = [EmptyDirectory EXCEPT !.foreign = TRUE]
      <4>1. staging.files = EmptyDirectory.files /\ staging.parts = EmptyDirectory.parts
        BY <3>5, DirectoryTypes DEF Directory
      <4> QED
        BY <4>1, <3>1, <3>3
    <3> QED
      BY <3>2, <3>4, <3>5
  <2>2. DirectoriesSound
    BY <2>1 DEF DirectoriesSound
  <2>3. Staged(run.cursor)
    <3>1. 1..0 = {}
      OBVIOUS
    <3> QED
      BY <3>1 DEF Init, Staged
  <2>4. \A w \in Worker : Relies(worker[w])
    BY DEF Init, Idle, Relies
  <2> QED
    BY <2>2, <2>3, <2>4, InitSound DEF Init, PInv
<1>2. PInv /\ [Next]_vars => PInv'
  <2> SUFFICES ASSUME PInv, [Next]_vars PROVE PInv'
    OBVIOUS
  <2>1. Keeps
    BY StepKeeps
  <2>2. Staged(run.cursor)'
    <3>1. PICK n : n = run.cursor /\ Staged(n)
      BY DEF PInv
    <3>2. Staged(n)'
      BY <2>1, <3>1, StagedKept
    <3>3. CASE run'.cursor = n
      BY <3>2, <3>3
    <3> QED
      BY <2>1, <3>1, <3>3, CursorChanges
  <2> QED
    BY <2>1, <2>2, NextSound, FilesChange, CompletedWhole, WorkersRely DEF PInv
<1> QED
  BY <1>1, <1>2, PTL DEF Spec

-----------------------------------------------------------------------------
(* The theorems about publication.                                         *)

(* A resumed run skips only what is there: until the output is published   *)
(* next_file is behind the staging directory as long as the run can go on  *)
(* and nobody deleted staging from outside, for any number of files and of *)
(* workers, fenced off or not, which may make a staging of their own later.*)
THEOREM CursorIsBehind == Spec => []CursorBehindDisk
<1>1. PInv => CursorBehindDisk
  BY DEF PInv, DirectoriesSound, Staged, Decided, CursorBehindDisk
<1> QED
  BY <1>1, PublicationInvariance, PTL

(* A run is completed only with every file of its plan in the output.      *)
THEOREM CompletedIsWhole == Spec => [](run.status = "completed" => out.files = File)
<1>1. PInv => (run.status = "completed" => out.files = File)
  BY DEF PInv
<1> QED
  BY <1>1, PublicationInvariance, PTL

(* The executor implements ExportPublication for any number of workers and *)
(* files: whatever workers are lost, come back or lose the slot, the output*)
(* appears at once and as a whole unless the run has failed, and verdicts  *)
(* are final.                                                              *)
THEOREM PublicationImplemented == Spec => ImplementsPublication
<1>1. PInv /\ [Next]_vars => [Publication!Next]_(Publication!vars)
  <2> SUFFICES ASSUME PInv, [Next]_vars
               PROVE  Publication!Next \/ UNCHANGED Publication!vars
    OBVIOUS
  <2>1. File # {}
    BY PlanAssumption DEF File
  <2>2. CASE out'.files # out.files
    <3>1. /\ out.files = {} /\ run' = run
          /\ out'.files = File \/ run.status = "failed"
      BY <2>2, OutputFiles
    <3>2. CASE out'.files = File
      BY <2>1, <3>1, <3>2 DEF Publication!Publish, Publication!Next
    <3>3. CASE out'.files # File
      BY <2>1, <2>2, <3>1, <3>3 DEF Publication!MoveLeftovers, Publication!Next
    <3> QED
      BY <3>2, <3>3
  <2>3. CASE out'.files = out.files
    <3>1. CASE run' = run
      BY <2>3, <3>1 DEF Publication!vars
    <3>2. CASE /\ run.status \notin {"completed", "failed"}
               /\ run'.status \notin {"completed", "failed"}
      BY <2>3, <3>2 DEF Publication!vars
    <3>3. CASE run.status \notin {"completed", "failed"} /\ run'.status = "failed"
      BY <2>3, <3>3 DEF Publication!Fail, Publication!Next
    <3>4. CASE run.status \notin {"completed", "failed"} /\ run'.status = "completed"
      <4>1. out.files = File
        BY <2>3, <3>4, StepKeeps, CompletedWhole
      <4> QED
        BY <2>1, <2>3, <3>4, <4>1 DEF Publication!Complete, Publication!Next
    <3> QED
      BY <3>1, <3>2, <3>3, <3>4, VerdictChanges DEF PInv
  <2> QED
    BY <2>2, <2>3
<1>2. Init => Publication!Init
  BY DEF Init, EmptyDirectory, Gone, Publication!Init
<1>3. Spec => [][Publication!Next]_(Publication!vars)
  BY <1>1, PublicationInvariance, PTL DEF Spec
<1>4. Spec => Publication!Init
  BY <1>2 DEF Spec
<1> QED
  BY <1>3, <1>4 DEF ImplementsPublication, Publication!Spec
=============================================================================
