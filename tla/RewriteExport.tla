---------------------------- MODULE RewriteExport ----------------------------
(***************************************************************************)
(* The rewrite export: excluded files are moved out of the source folder   *)
(* into a backup, by an isolated child process in the exporting phase      *)
(* (export/service.py, export/rewrite.py), after a preview of exactly that *)
(* change was confirmed (api/tasks.py), and may be put back by a request   *)
(* that looks at no task status.  The worker thread that starts, watches   *)
(* and kills the child is PhaseRun's, the decisions are ReviewOverlay's.   *)
(*                                                                         *)
(* A sample is one image file; latents and annotations move with it.  A    *)
(* move within the parent folder is a rename; file contents do not change. *)
(***************************************************************************)
EXTENDS PhaseRun, ReviewOverlay

CONSTANT MaxBackup \* bound: rewrites that come to move files

ASSUME MaxBackupAssumption == MaxBackup \in Nat

VARIABLES
  place,     \* per sample: Source, the number of a backup, or Gone
  manifest,  \* per backup, its manifest.json
  rewriter,  \* per owner, the memory of its rewriting child
  restorer,  \* the restore request in progress
  confirmed, \* the rewrite_preview_confirmed events
  recalled,  \* history: a restore was asked for
  raced      \* history: backups a restore was asked for while one was written

filevars == <<place, manifest, rewriter, restorer>>
rwvars   == <<filevars, confirmed, recalled, raced>>
rxvars   == <<allvars, reviewvars, rwvars>>

Backup == 1..MaxBackup
Source == 0
Gone   == MaxBackup + 1

NoManifest == [state |-> "absent", listed |-> {}, moved |-> {}]
Discarded  == [state |-> "discarded", listed |-> {}, moved |-> {}]
NoRewrite  == [pc |-> "none", config |-> None, curated |-> {}, backup |-> 0,
               todo |-> {}, moved |-> {}]
NoRestore  == [backup |-> 0, todo |-> {}, read |-> {}]

(* The gate is open under config c; each config was chosen before, so that *)
(* the rows of its components are planned.                                 *)
RewriteInit ==
  /\ \E c \in Config \ CopyConfig :
       /\ AtReviewGate(c)
       /\ crun = [key \in Key |-> IF key[1] = c /\ key[2] # "exporting"
                                    THEN "completed" ELSE "pending"]
  /\ OverlayInit
  /\ \E w \in Worker : (\A v \in Worker : w <= v) /\ parent = ParentAt(w, "loop")
  /\ child = [w \in Worker |-> NoChild]
  /\ stopping = "no"
  /\ place = [s \in Sample |-> Source]
  /\ manifest = [b \in Backup |-> NoManifest]
  /\ rewriter = [w \in Worker |-> NoRewrite]
  /\ restorer = NoRestore
  /\ confirmed = {}
  /\ recalled = FALSE
  /\ raced = {}

InSource(samples) == \A s \in samples : place[s] = Source

(* The files are taken in the order of their list.                         *)
IsFirst(s, samples) == s \in samples /\ \A u \in samples : s <= u
IsLast(s, samples)  == s \in samples /\ \A u \in samples : u <= s

-----------------------------------------------------------------------------
(* Faulty versions of definitions below, used by no specification.         *)

AnyPreview(config, curated) == TRUE

DiscardsFirst(w) == TRUE

AllButOne(w) == Cardinality(rewriter[w].todo) <= 1

LastMoveUnrecorded(r) == [state |-> "active", listed |-> r.moved \cup r.todo,
                          moved |-> r.moved \ {Max(r.moved)}]

-----------------------------------------------------------------------------
(* The API beside the child.                                               *)

ConfirmWindow ==
  \/ status = "evidence_review"
  \/ status = "paused" /\ task[T].resume = "evidence_review"

(* preview_rewrite, which a missing file makes fail, and the call of       *)
(* confirm_rewrite_preview with its digest.  One step: what is decided     *)
(* between the two may as well be decided after them, since the second     *)
(* takes any digest and stores it with the config.  The digest stands for  *)
(* what it is computed from, the excluded files included.                  *)
ConfirmRewrite ==
  /\ ConfirmWindow
  /\ task[T].config \notin CopyConfig
  /\ InSource(Sample)
  /\ confirmed' = confirmed \cup
       {[config |-> task[T].config,
         digest |-> [config  |-> task[T].config,
                     curated |-> CuratedMembers(decision, task[T].config)]]}
  /\ UNCHANGED <<allvars, reviewvars, filevars, recalled, raced>>

(* A manifest restores only as a whole: every file it says was moved is in *)
(* its backup, and so not in the source folder.                            *)
Restorable(b) ==
  /\ manifest[b].state = "active"
  /\ \A s \in manifest[b].moved : place[s] = b

NewestActive(b) ==
  /\ manifest[b].state = "active"
  /\ \A n \in Backup : manifest[n].state = "active" => n <= b

(* restore_latest_backup.                                                  *)
BeginRestore ==
  /\ status # "deleted"
  /\ restorer = NoRestore
  /\ \E b \in Backup :
       /\ NewestActive(b) /\ Restorable(b)
       /\ restorer' = [backup |-> b, todo |-> manifest[b].moved,
                       read |-> manifest[b].moved]
       /\ raced' = IF \E w \in Worker : rewriter[w].backup = b
                     THEN raced \cup {b} ELSE raced
  /\ recalled' = TRUE
  /\ UNCHANGED <<allvars, reviewvars, place, manifest, rewriter, confirmed>>

(* A file that is gone from the backup undoes the restore.                 *)
RestoreMove ==
  LET b == restorer.backup IN
  \E s \in Sample :
     /\ IsFirst(s, restorer.todo)
     /\ \/ /\ place[s] = b
           /\ place' = [place EXCEPT ![s] = Source]
           /\ restorer' = [restorer EXCEPT !.todo = @ \ {s}]
        \/ /\ place[s] # b
           /\ place' = [u \in Sample |->
                IF u \in restorer.read \ restorer.todo /\ place[u] = Source
                  THEN b ELSE place[u]]
           /\ restorer' = NoRestore
     /\ UNCHANGED <<allvars, reviewvars, manifest, rewriter, confirmed, recalled, raced>>

(* The manifest as it was read, or an error when its folder is gone.       *)
RestoreWrite ==
  LET b == restorer.backup IN
  /\ b # 0 /\ restorer.todo = {}
  /\ manifest' = IF manifest[b].state = "discarded" THEN manifest
                 ELSE [manifest EXCEPT ![b].state = "restored",
                                       ![b].moved = restorer.read]
  /\ restorer' = NoRestore
  /\ UNCHANGED <<allvars, reviewvars, place, rewriter, confirmed, recalled, raced>>

(* PUT of another config, which plans its component rows.                  *)
SwitchConfig ==
  /\ \E c \in Config : UpdateConfig(T, c) /\ crun' = Synced(crun, c)
  /\ UNCHANGED <<parent, child, stopping, reviewvars, rwvars>>

(* A decision of a review page.  It was asked for while the review was open*)
(* and that is where this module starts: it may be written at any time.    *)
(* Manual exclusions, open to a task paused in exporting, write rows of the*)
(* same effect, and a row without effect on the selection is left out.     *)
LateDecision ==
  /\ Cardinality(decision) < MaxDecisions
  /\ \E asked \in Request : Write(asked)
  /\ decision' # decision
  /\ \E c \in Config : CuratedMembers(decision', c) # CuratedMembers(decision, c)
  /\ UNCHANGED <<allvars, review, creator, snapshot, rwvars>>

ReviewApi ==
  \/ /\ \/ ReleaseReviewGate(T) \/ RequestPause(T) \/ ResumeTask(T)
        \/ \E force \in BOOLEAN : RequestTerminate(T, force)
     /\ UNCHANGED <<prvars, reviewvars, rwvars>>
  \/ SwitchConfig \/ LateDecision
  \/ ConfirmRewrite
  \/ BeginRestore \/ RestoreMove \/ RestoreWrite

-----------------------------------------------------------------------------
(* The child: DatasetExporter.run and execute_rewrite.                     *)

Rewriting(w, pc) ==
  /\ child[w].phase = "exporting"
  /\ child[w].pc = "work"
  /\ rewriter[w].pc = pc

ChildEnds(w, pc) ==
  /\ ChildTo(w, pc)
  /\ UNCHANGED <<parent, crun, stopping>>

Untouched == UNCHANGED <<vars, prvars, reviewvars, confirmed, recalled, raced>>

(* It looks at the status and the mode of the config, at no token.         *)
RewriteStarts(w) ==
  /\ child[w].phase = "exporting" /\ child[w].pc = "start"
  /\ IF status = "exporting" /\ task[T].config \notin CopyConfig
       THEN /\ ChildEnds(w, "work")
            /\ rewriter' = [rewriter EXCEPT ![w].pc = "load",
                                            ![w].config = task[T].config]
       ELSE ChildEnds(w, "error") /\ UNCHANGED rewriter
  /\ UNCHANGED <<vars, reviewvars, place, manifest, restorer, confirmed, recalled, raced>>

Raises(w) ==
  /\ ChildEnds(w, "error")
  /\ rewriter' = [rewriter EXCEPT ![w] = NoRewrite]
  /\ UNCHANGED <<vars, reviewvars, place, manifest, restorer, confirmed, recalled, raced>>

(* Its own input; a sample whose file is not in place is an error.         *)
RewriteLoads(w) ==
  /\ Rewriting(w, "load")
  /\ \/ /\ InSource(Sample)
        /\ LET curated == CuratedMembers(decision, rewriter[w].config) IN
             rewriter' = [rewriter EXCEPT ![w].pc = "check", ![w].curated = curated,
                                          ![w].todo = Sample \ curated]
        /\ UNCHANGED <<place, manifest, restorer>> /\ Untouched
     \/ ~InSource(Sample) /\ Raises(w)

Confirmed(config, curated) ==
  [config |-> config, digest |-> [config |-> config, curated |-> curated]] \in confirmed

(* The digest is among the confirmed ones; then a folder of its own and its*)
(* manifest, unless there is nothing to move.                              *)
RewriteChecks(w) ==
  LET r == rewriter[w] IN
  /\ Rewriting(w, "check")
  /\ \/ /\ Confirmed(r.config, r.curated) /\ InSource(r.todo)
        /\ \/ /\ r.todo = {}
              /\ rewriter' = [rewriter EXCEPT ![w].pc = "read"]
              /\ UNCHANGED manifest
           \/ /\ r.todo # {}
              /\ \E b \in Backup :
                   /\ manifest[b].state = "absent" /\ \A n \in 1..(b - 1) :
                        manifest[n].state # "absent"
                   /\ manifest' = [manifest EXCEPT ![b] =
                        [state |-> "active", listed |-> r.todo, moved |-> {}]]
                   /\ rewriter' = [rewriter EXCEPT ![w].pc = "move", ![w].backup = b]
        /\ UNCHANGED <<place, restorer>> /\ Untouched
     \/ ~(Confirmed(r.config, r.curated) /\ InSource(r.todo)) /\ Raises(w)

RewriteMoves(w) ==
  LET r == rewriter[w] IN
  \E s \in Sample :
     /\ Rewriting(w, "move")
     /\ IsFirst(s, r.todo)
     /\ place[s] = Source
     /\ place' = [place EXCEPT ![s] = r.backup]
     /\ rewriter' = [rewriter EXCEPT ![w].pc = "record", ![w].todo = r.todo \ {s},
                                     ![w].moved = r.moved \cup {s}]
     /\ UNCHANGED <<manifest, restorer>> /\ Untouched

AllMoved(w) == rewriter[w].todo = {}

(* The manifest the child has in memory, whatever the file says by now.    *)
Recorded(r) == [state |-> "active", listed |-> r.moved \cup r.todo, moved |-> r.moved]

RewriteRecords(w) ==
  LET r == rewriter[w] IN
  /\ Rewriting(w, "record")
  /\ manifest' = [manifest EXCEPT ![r.backup] = Recorded(r)]
  /\ rewriter' = [rewriter EXCEPT ![w].pc = IF AllMoved(w) THEN "read" ELSE "move"]
  /\ UNCHANGED <<place, restorer>> /\ Untouched

(* A file that is not there any more, or a move or write that fails.       *)
RewriteFails(w) ==
  /\ \/ /\ Rewriting(w, "move")
        /\ \E s \in Sample : IsFirst(s, rewriter[w].todo) /\ place[s] # Source
     \/ "component" \in Faults /\ (Rewriting(w, "move") \/ Rewriting(w, "record"))
  /\ rewriter' = [rewriter EXCEPT ![w].pc = "undo"]
  /\ UNCHANGED <<place, manifest, restorer>> /\ Untouched

(* What was moved goes back, the last one first.                           *)
UndoMoves(w) ==
  LET r == rewriter[w] IN
  \E s \in Sample :
     /\ Rewriting(w, "undo")
     /\ IsLast(s, r.moved)
     /\ place' = IF place[s] = r.backup THEN [place EXCEPT ![s] = Source] ELSE place
     /\ rewriter' = [rewriter EXCEPT ![w].moved = r.moved \ {s}]
     /\ UNCHANGED <<manifest, restorer>> /\ Untouched

AllPutBack(w) == rewriter[w].moved = {}

(* rmtree, and the exception goes on.  A later attempt has a later number: *)
(* the folders are named by the time they were made.                       *)
UndoDiscards(w) ==
  LET b == rewriter[w].backup IN
  /\ Rewriting(w, "undo")
  /\ AllPutBack(w)
  /\ place' = [s \in Sample |-> IF place[s] = b THEN Gone ELSE place[s]]
  /\ manifest' = [manifest EXCEPT ![b] = Discarded]
  /\ rewriter' = [rewriter EXCEPT ![w] = NoRewrite]
  /\ ChildEnds(w, "error")
  /\ UNCHANGED <<vars, reviewvars, restorer, confirmed, recalled, raced>>

(* list_checkpoints.                                                       *)
RewriteReads(w) ==
  /\ Rewriting(w, "read")
  /\ IF worker[w].stage = "claimed" THEN ReadResumePoint(w) ELSE UNCHANGED vars
  /\ rewriter' = [rewriter EXCEPT ![w].pc = "commit"]
  /\ UNCHANGED <<prvars, reviewvars, place, manifest, restorer, confirmed, recalled, raced>>

(* The one checkpoint of the phase.                                        *)
RewriteCommits(w) ==
  LET key == <<child[w].config, "exporting", child[w].comp>>
      after == task'[T].status
  IN /\ Rewriting(w, "commit")
     /\ CommitBatch(w, NItems, NItems, TRUE)
     /\ child' = [child EXCEPT ![w].pc = IF after = "exporting" THEN "complete"
                                                                ELSE "returned"]
     /\ crun' = Checkpointed(crun, key, TRUE, after)
     /\ rewriter' = [rewriter EXCEPT ![w] = NoRewrite]
     /\ UNCHANGED <<parent, stopping, reviewvars, place, manifest, restorer, confirmed, recalled, raced>>

(* StaleWorkerToken: restore_backup on the own backup, if there is one.    *)
RewriteIsStale(w) ==
  LET r == rewriter[w] IN
  /\ Rewriting(w, "commit")
  /\ ~TokenValid(w)
  /\ \/ /\ r.backup # 0 /\ Restorable(r.backup)
        /\ rewriter' = [rewriter EXCEPT ![w].pc = "restore",
                                        ![w].todo = manifest[r.backup].moved,
                                        ![w].moved = {}]
        /\ UNCHANGED <<place, manifest, restorer>> /\ Untouched
     \/ ~(r.backup # 0 /\ Restorable(r.backup)) /\ Raises(w)

StaleRestores(w) ==
  LET r == rewriter[w] IN
  \E s \in Sample :
     /\ Rewriting(w, "restore")
     /\ IsFirst(s, r.todo)
     /\ \/ /\ place[s] = r.backup
           /\ place' = [place EXCEPT ![s] = Source]
           /\ rewriter' = [rewriter EXCEPT ![w].todo = r.todo \ {s},
                                           ![w].moved = r.moved \cup {s}]
           /\ UNCHANGED <<manifest, restorer>> /\ Untouched
        \/ /\ place[s] # r.backup
           /\ place' = [u \in Sample |-> IF u \in r.moved /\ place[u] = Source
                                           THEN r.backup ELSE place[u]]
           /\ ChildEnds(w, "error")
           /\ rewriter' = [rewriter EXCEPT ![w] = NoRewrite]
           /\ UNCHANGED <<vars, reviewvars, manifest, restorer, confirmed, recalled, raced>>

StaleRestored(w) ==
  LET r == rewriter[w] IN
  /\ Rewriting(w, "restore")
  /\ r.todo = {}
  /\ manifest' = [manifest EXCEPT ![r.backup].state = "restored",
                                  ![r.backup].moved = r.moved]
  /\ rewriter' = [rewriter EXCEPT ![w] = NoRewrite]
  /\ ChildEnds(w, "error")
  /\ UNCHANGED <<vars, reviewvars, place, restorer, confirmed, recalled, raced>>

RewriteStep(w) ==
  \/ RewriteStarts(w) \/ RewriteLoads(w) \/ RewriteChecks(w)
  \/ RewriteMoves(w) \/ RewriteRecords(w)
  \/ UndoMoves(w) \/ UndoDiscards(w)
  \/ RewriteReads(w) \/ RewriteCommits(w)
  \/ RewriteIsStale(w) \/ StaleRestores(w) \/ StaleRestored(w)

-----------------------------------------------------------------------------
(* The worker thread and the backend, which is not stopped here: to the    *)
(* child that is a pause like any other.  A killed child does nothing more:*)
(* what it had moved stays moved.                                          *)

Backend ==
  \/ ParentStep
  \/ \E w \in Worker : OrphanEnds(w)
  \/ Expire \/ BackendCrash \/ Restart

BackendStep ==
  /\ Backend
  /\ rewriter' = [w \in Worker |-> IF child'[w].pc = "none" THEN NoRewrite
                                                            ELSE rewriter[w]]
  /\ UNCHANGED <<reviewvars, place, manifest, restorer, confirmed, recalled, raced>>

RewriteNext ==
  \/ BackendStep
  \/ \E w \in Worker : RewriteStep(w) \/ RewriteFails(w)
  \/ ReviewApi

RewriteSpec == RewriteInit /\ [][RewriteNext]_rxvars

-----------------------------------------------------------------------------
(* No image is lost: each is in the source folder or in a backup whose     *)
(* manifest lists it, wherever the child was killed, failed or lost its    *)
(* lease, unless once a restore was asked for while its backup was written *)
(* (rewrite.py:104 looks at no status): after that nothing is claimed here.*)
FilesAccounted ==
  \/ raced # {}
  \/ \A s \in Sample :
       \/ place[s] = Source
       \/ \E b \in Backup : place[s] = b /\ s \in manifest[b].listed

(* Only a confirmed rewrite takes an image out of the source folder: one   *)
(* that excludes it, confirmed under the config it excludes it with.  A    *)
(* restore that is undone puts back what such a rewrite had taken.         *)
OnlyConfirmedLeave ==
  [][\A s \in Sample :
       (place[s] = Source /\ place'[s] # Source) =>
         \E e \in confirmed : e.config = e.digest.config
                              /\ s \notin e.digest.curated]_rxvars

Rewritten ==
  /\ status = "completed"
  /\ task[T].config \notin CopyConfig
  /\ Components[task[T].config]["exporting"] > 0

(* The child of an earlier backend may still be moving files of its own,   *)
(* which it puts back when it finds its token gone.                        *)
NoneUnderWay == \A w \in Worker : rewriter[w].backup = 0

(* A task completes its rewrite with exactly what one confirmed preview    *)
(* excluded out of the source folder, through all pauses, changed decisions*)
(* and half-done attempts before; only a restore changes that, or the      *)
(* child of an earlier backend that has not put back its own moves yet.    *)
CompletedAsConfirmed ==
  [][(~Rewritten /\ Rewritten') =>
       \/ recalled
       \/ ~NoneUnderWay
       \/ \E e \in confirmed : /\ e.config = task[T].config
                               /\ InSource(e.digest.curated)
                               /\ ~\E s \in Sample \ e.digest.curated :
                                     place[s] = Source]_rxvars

(* A completed rewrite can be taken back by one restore: it finds a backup *)
(* that holds what its manifest says, and that is every image not in the   *)
(* source folder, whatever earlier attempts left behind and as soon as no  *)
(* earlier backend's child is at it.                                       *)
CompletedRestorable ==
  (Rewritten /\ restorer = NoRestore /\ raced = {} /\ NoneUnderWay) =>
    \/ InSource(Sample)
    \/ \E b \in Backup : /\ NewestActive(b) /\ Restorable(b)
                         /\ InSource(Sample \ manifest[b].moved)

(* A rewrite that failed leaves the source folder as it was.               *)
FailedRewriteUndone ==
  (/\ status = "failed"
   /\ \A w \in Worker : child[w].pc = "none"
   /\ restorer = NoRestore
   /\ Rows(T, "exporting", task[T].config) = {}) => InSource(Sample)
=============================================================================
