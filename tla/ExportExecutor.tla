---------------------------- MODULE ExportExecutor ----------------------------
(***************************************************************************)
(* One copy export run executed by ExportRunExecutor and its tree publisher*)
(* (export_runs/executor.py, export/tree_publisher.py).                    *)
(*                                                                         *)
(* The run copies the planned files into a staging directory beside the    *)
(* output, verifies it, removes the empty output directory and renames the *)
(* staging onto it.  The row of the run and the lease change in database   *)
(* transactions, which are fenced by the lease; the directories change in  *)
(* file operations, which are not.  Every transaction and every file       *)
(* operation is one step, so that a crash, a lost lease or another worker  *)
(* can come between any two.                                               *)
(*                                                                         *)
(* An exception raised by a step leads to _fail: the worker is then        *)
(* "failing".  Only this run is followed; while another task or run holds  *)
(* the slot, nobody claims this one.                                       *)
(***************************************************************************)
EXTENDS Naturals

CONSTANTS
  Worker,    \* worker owners of this and other backend processes
  NFiles,    \* files of the plan in the order they are copied
  MaxEpoch,  \* bound: a worker is lost only while the epoch is below it
  Faults,    \* the ways the surroundings interfere, see below
  None       \* SQL NULL

(* The plan always holds the manifest.                                     *)
ASSUME PlanAssumption == NFiles \in Nat \ {0}
ASSUME EpochAssumption == MaxEpoch \in Nat
ASSUME OwnerAssumption == None \notin Worker

(* "io": a file operation or the planner raises (disk full, source changed,*)
(* file locked); "foreign": the user puts a file where the output goes, or *)
(* the staging path was there before the run; "staging": staging is deleted*)
(* while nobody works on the run.                                          *)
ASSUME FaultAssumption == Faults \subseteq {"io", "foreign", "staging"}

VARIABLES
  run,      \* the export_runs row with its checkpoint_json
  lease,    \* the lease of slot 1 as far as it is this run's
  staging,  \* the staging directory
  out,      \* the output directory
  worker,   \* per worker: its token, its place in run() and what it read
  lost      \* a history variable: a staging was deleted from outside

vars == <<run, lease, staging, out, worker, lost>>

File == 1..NFiles

(* prepared: expected_manifest_sha256 is stored; owned: staging_owner is   *)
(* this run; cursor: next_file.                                            *)
RunRow == [status   : {"queued", "planning", "copying", "verifying",
                       "publishing", "completed", "failed"},
           epoch    : Nat,
           prepared : BOOLEAN,
           owned    : BOOLEAN,
           cursor   : 0..NFiles]

LeaseRow == [owner : Worker \cup {None}, epoch : Nat, live : BOOLEAN]

NoLease == [owner |-> None, epoch |-> 0, live |-> FALSE]

(* files are complete files of the plan under their names, parts the .part *)
(* files beside them, foreign says that there is anything else.            *)
Directory == [here : BOOLEAN, files : SUBSET File, parts : SUBSET File,
              foreign : BOOLEAN]

Gone == [here |-> FALSE, files |-> {}, parts |-> {}, foreign |-> FALSE]

EmptyDirectory == [Gone EXCEPT !.here = TRUE]

(* Where a worker is in run(), by what it does next.                       *)
Place == {"idle", "look", "recover", "prepare", "stage", "reset", "mkdir",
          "enter", "copy", "parent", "open", "part", "copied", "verifying",
          "check", "publishing", "ready", "swap", "replace", "published",
          "complete", "failing", "cleanup"}

WorkerMemory == [pc       : Place,
                 epoch    : Nat,
                 prepared : BOOLEAN,
                 owned    : BOOLEAN,
                 cursor   : 0..NFiles,
                 at       : 0..NFiles]

Idle == [pc |-> "idle", epoch |-> 0, prepared |-> FALSE, owned |-> FALSE,
         cursor |-> 0, at |-> 0]

TypeOK ==
  /\ run \in RunRow
  /\ lease \in LeaseRow
  /\ staging \in Directory
  /\ out \in Directory
  /\ worker \in [Worker -> WorkerMemory]
  /\ lost \in BOOLEAN

(* ExportRunService has inserted the row and found the output empty.       *)
Init ==
  /\ run = [status |-> "queued", epoch |-> 0, prepared |-> FALSE,
            owned |-> FALSE, cursor |-> 0]
  /\ lease = NoLease
  /\ staging \in {Gone} \cup
       IF "foreign" \in Faults THEN {[EmptyDirectory EXCEPT !.foreign = TRUE]} ELSE {}
  /\ out = EmptyDirectory
  /\ worker = [w \in Worker |-> Idle]
  /\ lost = FALSE

-----------------------------------------------------------------------------
(* Faulty versions of the definitions below, each a bug this code could    *)
(* have; no specification uses them.                                       *)

OnlySlotEmpty == lease = NoLease

OneFileAhead(done) == done + 1

LooksThere(dir) == dir.here

RemovesAnyStaging(w) == TRUE

CleansAlways(live) == "cleanup"

(* The originals.                                                          *)

(* claim_next refuses while a lease is in force.                           *)
SlotFree == ~lease.live

LeaseMine(w) == lease.owner = w /\ lease.epoch = worker[w].epoch

(* _require_lease.                                                         *)
TokenValid(w) == LeaseMine(w) /\ run.epoch = worker[w].epoch /\ lease.live

Active == {"planning", "copying", "verifying", "publishing"}

Empty(dir) == dir.files = {} /\ dir.parts = {} /\ ~dir.foreign

(* verify_tree: every file of the plan and nothing else.                   *)
Verified(dir) == dir.here /\ dir.files = File /\ dir.parts = {} /\ ~dir.foreign

(* _recover_published_tree: a manifest this run announced, and its tree.   *)
Recovers(w) == worker[w].prepared /\ Verified(out)

(* assert_staging_ready                                                    *)
StagingReady == staging.here /\ (out.here => Empty(out))

(* The next_file that _set_copying stores once done files are copied.      *)
CursorFor(done) == done

(* _staging_is_owned, for the view _fail returns.                          *)
Removes(w) == worker[w].owned

(* Where _fail leaves the worker: cleaning up, unless the lease expired.   *)
AfterFail(live) == IF live THEN "cleanup" ELSE "idle"

At(w, pc) == worker[w].pc = pc

Goto(w, pc) == worker' = [worker EXCEPT ![w].pc = pc]

(* A step that only reads: it goes on if the check holds, else it raises.  *)
Check(w, from, ok, to) ==
  /\ At(w, from)
  /\ Goto(w, IF ok THEN to ELSE "failing")
  /\ UNCHANGED <<run, lease, staging, out, lost>>

(* A transaction that begins with _require_lease.                          *)
Transaction(w, from, row, to) ==
  /\ At(w, from)
  /\ \/ TokenValid(w) /\ run' = row /\ Goto(w, to)
     \/ ~TokenValid(w) /\ UNCHANGED run /\ Goto(w, "failing")
  /\ UNCHANGED <<lease, staging, out, lost>>

Copying(cursor) == [run EXCEPT !.status = "copying", !.owned = TRUE,
                               !.cursor = cursor]

-----------------------------------------------------------------------------
(* The slot: claim_next, recovery and expiry, as in TaskLifecycle.         *)

Recovered(row) ==
  IF row.status \in Active THEN [row EXCEPT !.status = "queued", !.epoch = @ + 1]
                           ELSE row

(* claim_next recovers an expired lease and grants the slot in one         *)
(* transaction; the worker then reads the run.                             *)
Claim(w) ==
  LET row == IF lease = NoLease THEN run ELSE Recovered(run) IN
    /\ At(w, "idle")
    /\ SlotFree
    /\ row.status = "queued"
    /\ run' = [row EXCEPT !.status = "planning", !.epoch = @ + 1]
    /\ lease' = [owner |-> w, epoch |-> row.epoch + 1, live |-> TRUE]
    /\ worker' = [worker EXCEPT ![w] = [Idle EXCEPT !.pc = "look",
                                                    !.epoch = row.epoch + 1,
                                                    !.prepared = row.prepared]]
    /\ UNCHANGED <<staging, out, lost>>

(* recover_stale_leases, when a backend starts.                            *)
RecoverStaleLease ==
  /\ lease # NoLease /\ ~lease.live
  /\ run' = Recovered(run)
  /\ lease' = NoLease
  /\ UNCHANGED <<staging, out, worker, lost>>

HolderAlive == \E w \in Worker : TokenValid(w)

(* No heartbeat came for 300 s: none is sent while a tree is verified.     *)
LeaseExpires ==
  /\ lease.live
  /\ HolderAlive => run.epoch < MaxEpoch
  /\ lease' = [lease EXCEPT !.live = FALSE]
  /\ UNCHANGED <<run, staging, out, worker, lost>>

-----------------------------------------------------------------------------
(* run(), up to the copying.                                               *)

(* _output_root must be a directory; if it is not empty, this run may have *)
(* published it before it was lost.                                        *)
Look(w) ==
  /\ At(w, "look")
  /\ Goto(w, IF ~out.here THEN "failing"
             ELSE IF Empty(out) THEN "prepare" ELSE "recover")
  /\ UNCHANGED <<run, lease, staging, out, lost>>

Recover(w) == Check(w, "recover", Recovers(w), "complete")

(* _prepare returns a view of the row, on which the rest of run() relies.  *)
Prepare(w) ==
  /\ At(w, "prepare")
  /\ \/ /\ TokenValid(w)
        /\ run' = [run EXCEPT !.status = "planning", !.prepared = TRUE]
        /\ worker' = [worker EXCEPT ![w].pc = "stage", ![w].owned = run.owned,
                                    ![w].cursor = run.cursor]
     \/ /\ ~TokenValid(w)
        /\ Goto(w, "failing")
        /\ UNCHANGED run
  /\ UNCHANGED <<lease, staging, out, lost>>

(* An existing staging must be the run's own.                              *)
Stage(w) ==
  /\ At(w, "stage")
  /\ Goto(w, IF ~out.here THEN "failing"
             ELSE IF ~staging.here THEN "reset"
             ELSE IF worker[w].owned /\ StagingReady THEN "enter" ELSE "failing")
  /\ UNCHANGED <<run, lease, staging, out, lost>>

Reset(w) == Transaction(w, "reset", Copying(0), "mkdir")

(* prepare_directories                                                     *)
MakeStaging(w) ==
  /\ At(w, "mkdir")
  /\ IF (out.here => Empty(out)) /\ Empty(staging)
       THEN staging' = EmptyDirectory /\ Goto(w, "enter")
       ELSE UNCHANGED staging /\ Goto(w, "failing")
  /\ UNCHANGED <<run, lease, out, lost>>

(* _next_file of the view, stored again by _set_copying.                   *)
Enter(w) ==
  LET next == worker[w].cursor IN
    /\ At(w, "enter")
    /\ \/ /\ TokenValid(w)
          /\ run' = Copying(next)
          /\ worker' = [worker EXCEPT ![w].at = next,
                          ![w].pc = IF next = NFiles THEN "verifying" ELSE "copy"]
       \/ /\ ~TokenValid(w)
          /\ Goto(w, "failing")
          /\ UNCHANGED run
    /\ UNCHANGED <<lease, staging, out, lost>>

-----------------------------------------------------------------------------
(* write_file and the copying loop.                                        *)

(* The file write_file is called for.                                      *)
Current(w) == worker[w].at + 1

(* A file that is there is only verified.                                  *)
LookForFile(w) ==
  /\ At(w, "copy")
  /\ Goto(w, IF ~staging.here THEN "failing"
             ELSE IF Current(w) \in staging.files THEN "copied" ELSE "parent")
  /\ UNCHANGED <<run, lease, staging, out, lost>>

(* destination.parent.mkdir(parents=True): a staging that was renamed or   *)
(* removed since the look is made anew.                                    *)
MakeParent(w) ==
  /\ At(w, "parent")
  /\ staging' = [staging EXCEPT !.here = TRUE]
  /\ Goto(w, "open")
  /\ UNCHANGED <<run, lease, out, lost>>

(* The image may have been encoded since.                                  *)
WritePart(w) ==
  /\ At(w, "open")
  /\ IF staging.here
       THEN /\ staging' = [staging EXCEPT !.parts = @ \cup {Current(w)}]
            /\ Goto(w, "part")
       ELSE UNCHANGED staging /\ Goto(w, "failing")
  /\ UNCHANGED <<run, lease, out, lost>>

PublishPart(w) ==
  /\ At(w, "part")
  /\ IF Current(w) \in staging.parts
       THEN /\ staging' = [staging EXCEPT !.parts = @ \ {Current(w)},
                                          !.files = @ \cup {Current(w)}]
            /\ Goto(w, "copied")
       ELSE UNCHANGED staging /\ Goto(w, "failing")
  /\ UNCHANGED <<run, lease, out, lost>>

(* The cursor is stored after the last file, and earlier every so many     *)
(* files or seconds.                                                       *)
Copied(w) ==
  LET done == Current(w) IN
    /\ At(w, "copied")
    /\ \/ /\ TokenValid(w)
          /\ run' = Copying(CursorFor(done))
          /\ worker' = [worker EXCEPT ![w].at = done,
                          ![w].pc = IF done = NFiles THEN "verifying" ELSE "copy"]
       \/ /\ ~TokenValid(w)
          /\ Goto(w, "failing")
          /\ UNCHANGED run
       \/ /\ done < NFiles
          /\ worker' = [worker EXCEPT ![w].at = done, ![w].pc = "copy"]
          /\ UNCHANGED run
    /\ UNCHANGED <<lease, staging, out, lost>>

-----------------------------------------------------------------------------
(* Verification, publication and completion.                               *)

SetVerifying(w) ==
  Transaction(w, "verifying", [run EXCEPT !.status = "verifying"], "check")

VerifyStaging(w) == Check(w, "check", Verified(staging), "publishing")

SetPublishing(w) ==
  Transaction(w, "publishing", [run EXCEPT !.status = "publishing"], "ready")

AssertReady(w) == Check(w, "ready", StagingReady, "swap")

(* publish_tree: rmdir fails on a directory that is not empty.             *)
RemoveOutput(w) ==
  /\ At(w, "swap")
  /\ IF out.here => Empty(out)
       THEN out' = Gone /\ Goto(w, "replace")
       ELSE UNCHANGED out /\ Goto(w, "failing")
  /\ UNCHANGED <<run, lease, staging, lost>>

(* os.replace of the directory: Windows refuses an existing target.        *)
ReplaceOutput(w) ==
  /\ At(w, "replace")
  /\ IF staging.here /\ ~out.here
       THEN out' = staging /\ staging' = Gone /\ Goto(w, "published")
       ELSE UNCHANGED <<staging, out>> /\ Goto(w, "failing")
  /\ UNCHANGED <<run, lease, lost>>

VerifyOutput(w) == Check(w, "published", Verified(out), "complete")

(* _complete checks the manifest once more, the last of the files here.    *)
Complete(w) ==
  /\ At(w, "complete")
  /\ \/ /\ TokenValid(w) /\ NFiles \in out.files
        /\ run' = [run EXCEPT !.status = "completed"]
        /\ lease' = NoLease
        /\ worker' = [worker EXCEPT ![w] = Idle]
     \/ /\ ~(TokenValid(w) /\ NFiles \in out.files)
        /\ Goto(w, "failing")
        /\ UNCHANGED <<run, lease>>
  /\ UNCHANGED <<staging, out, lost>>

-----------------------------------------------------------------------------
(* Failure.                                                                *)

(* _fail of a worker that lost the slot raises.                            *)
FailFenced(w) ==
  /\ At(w, "failing")
  /\ ~LeaseMine(w)
  /\ worker' = [worker EXCEPT ![w] = Idle]
  /\ UNCHANGED <<run, lease, staging, out, lost>>

(* _fail: a run whose lease expired goes back to the queue.                *)
Fail(w) ==
  /\ At(w, "failing")
  /\ LeaseMine(w)
  /\ run' = IF lease.live THEN [run EXCEPT !.status = "failed"]
            ELSE [run EXCEPT !.status = "queued", !.epoch = @ + 1]
  /\ lease' = NoLease
  /\ worker' = [worker EXCEPT ![w].pc = AfterFail(lease.live),
                              ![w].owned = run.owned]
  /\ UNCHANGED <<staging, out, lost>>

(* _cleanup_owned_staging; rmtree is one step here.                        *)
CleanUp(w) ==
  /\ At(w, "cleanup")
  /\ staging' = IF Removes(w) THEN Gone ELSE staging
  /\ worker' = [worker EXCEPT ![w] = Idle]
  /\ UNCHANGED <<run, lease, out, lost>>

(* Any file operation and the planner raise; write_file unlinks its .part  *)
(* file.                                                                   *)
OperationRaises(w) ==
  /\ "io" \in Faults
  /\ worker[w].pc \in {"look", "recover", "prepare", "stage", "mkdir", "copy",
                       "parent", "open", "part", "copied", "check", "ready",
                       "swap", "replace", "published", "complete"}
  /\ staging' = IF At(w, "part") THEN [staging EXCEPT !.parts = @ \ {Current(w)}]
                                 ELSE staging
  /\ Goto(w, "failing")
  /\ UNCHANGED <<run, lease, out, lost>>

Crash(w) ==
  /\ ~At(w, "idle")
  /\ LeaseMine(w) => run.epoch < MaxEpoch
  /\ worker' = [worker EXCEPT ![w] = Idle]
  /\ UNCHANGED <<run, lease, staging, out, lost>>

(* A user saves a file into the directory chosen for the export.           *)
UserFile ==
  /\ "foreign" \in Faults
  /\ out' = [out EXCEPT !.here = TRUE, !.foreign = TRUE]
  /\ UNCHANGED <<run, lease, staging, worker, lost>>

(* A cleaner, or the user, deletes a directory no process works in.        *)
StagingLost ==
  /\ "staging" \in Faults
  /\ \A w \in Worker : At(w, "idle")
  /\ staging.here /\ ~staging.foreign
  /\ staging' = Gone
  /\ lost' = TRUE
  /\ UNCHANGED <<run, lease, out, worker>>

-----------------------------------------------------------------------------
(* What a worker does next of itself.                                      *)
Step(w) ==
  \/ Look(w) \/ Recover(w) \/ Prepare(w) \/ Stage(w) \/ Reset(w) \/ MakeStaging(w)
  \/ Enter(w) \/ LookForFile(w) \/ MakeParent(w) \/ WritePart(w) \/ PublishPart(w)
  \/ Copied(w) \/ SetVerifying(w) \/ VerifyStaging(w) \/ SetPublishing(w)
  \/ AssertReady(w) \/ RemoveOutput(w) \/ ReplaceOutput(w) \/ VerifyOutput(w)
  \/ Complete(w) \/ FailFenced(w) \/ Fail(w) \/ CleanUp(w)

Next ==
  \/ RecoverStaleLease \/ LeaseExpires \/ UserFile \/ StagingLost
  \/ \E w \in Worker : Claim(w) \/ Step(w) \/ OperationRaises(w) \/ Crash(w)

Spec == Init /\ [][Next]_vars

(* Workers poll and go on; nobody renews the lease of a lost worker.       *)
Fairness ==
  /\ \A w \in Worker : WF_vars(Claim(w)) /\ WF_vars(Step(w))
  /\ WF_vars(~HolderAlive /\ LeaseExpires)

FairSpec == Spec /\ Fairness

-----------------------------------------------------------------------------
(* A resumed run skips only files that are really in staging: until the    *)
(* output is published next_file is never ahead of the disk, wherever the  *)
(* crash came and whatever a worker that lost the lease still writes.  Once*)
(* it is published such a worker may make a new staging beside it.  Not so *)
(* either once the run failed, or a staging was deleted from outside: run()*)
(* resets the stored cursor for a new one but goes on from the cursor it   *)
(* read before (executor.py:86).                                           *)
CursorBehindDisk ==
  run.status # "failed" /\ ~lost /\ out.files = {} =>
    1..run.cursor \subseteq staging.files

(* What somebody else put into the output or the staging path is neither   *)
(* deleted, moved nor replaced.                                            *)
ForeignKept ==
  [][(out.foreign => out'.foreign) /\ (staging.foreign => staging'.foreign)]_vars

(* Copied work is thrown away only when the run has failed for good; until *)
(* then it leaves staging only for the output.                             *)
StagingKept ==
  [][staging.here /\ ~staging'.here /\ ~StagingLost =>
       out' = staging \/ run.status = "failed"]_vars

Publication == INSTANCE ExportPublication WITH
  verdict <- IF run.status \in {"completed", "failed"} THEN run.status ELSE "open",
  output  <- IF out.files = {} THEN "none"
             ELSE IF out.files = File THEN "whole" ELSE "partial"

(* The executor publishes atomically, through crashes, lost leases, workers*)
(* that come back and other users of the two directories; only once the run*)
(* has failed may what is left be moved into place in part.                *)
ImplementsPublication == Publication!Spec

(* The run is completed or failed in the end, when workers are lost only   *)
(* finitely often.                                                         *)
Settles == <>(run.status \in {"completed", "failed"})

(* The performance design (docs/superpowers/specs/2026-08-13-...,          *)
(* "recovery from a crash still relies on the existing checkpoint; staging *)
(* writes stay idempotent"): losing a worker costs the run time, never its *)
(* result, so that it does not fail when nothing else goes wrong.          *)
CrashNeverFails == run.status # "failed"
=============================================================================
