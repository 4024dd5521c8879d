---------------------------- MODULE RewriteProofs ----------------------------
(***************************************************************************)
(* The files of a rewrite export, for any samples, configs, components,    *)
(* backups, decisions, faults and number of backends one after another: no *)
(* image is lost, only a confirmed preview takes one out of the source     *)
(* folder, what a completed rewrite excluded is out of it, and one restore *)
(* takes it back.                                                          *)
(*                                                                         *)
(* The first part uses nothing of the task, its lease and its token: two   *)
(* children may be at it at once, and each is killed anywhere.  What       *)
(* protects the files is that every attempt has a backup folder of its     *)
(* own, lists there what it will move before it moves, and undoes no more  *)
(* than its own moves.  In the second part thread, token and files meet.   *)
(* The thread knows which child it is waiting for (PhaseRunProofs), every  *)
(* other child only adds to a backup of its own and puts back from there,  *)
(* and the one that commits found every file in its place when it began.   *)
(*                                                                         *)
(* The last part is what both kinds of export take their selection from:   *)
(* the decisions of a sample form one chain, a run holds the selection     *)
(* that was previewed and is in force when it is inserted, and such a      *)
(* selection keeps a member of every set of duplicates and balances the    *)
(* repeats of its folders.                                                 *)
(***************************************************************************)
EXTENDS RewriteExport, PhaseRunProofs, FiniteSetTheorems, WellFoundedInduction

Moving == {"move", "record"}
Busy   == Moving \cup {"undo", "restore"}
Early  == {"none", "load", "check"}

RewriterPc == Early \cup Busy \cup {"read", "commit"}

Manifest == [state : {"absent", "active", "discarded", "restored"},
             listed : SUBSET Sample, moved : SUBSET Sample]

(* The parts of a child's memory; of the config and the curated samples no *)
(* more than that they are there.                                          *)
RewriterShape(r) ==
  /\ DOMAIN r = {"pc", "config", "curated", "backup", "todo", "moved"}
  /\ r.pc \in RewriterPc
  /\ r.backup \in 0..MaxBackup
  /\ r.todo \subseteq Sample
  /\ r.moved \subseteq Sample

FilesTyped ==
  /\ place \in [Sample -> 0..Gone]
  /\ manifest \in [Backup -> Manifest]
  /\ DOMAIN rewriter = Worker
  /\ \A w \in Worker : RewriterShape(rewriter[w])
  /\ restorer \in [backup : 0..MaxBackup, todo : SUBSET Sample, read : SUBSET Sample]
  /\ restorer.backup = 0 => restorer = NoRestore

(* Whose child is there: that of the running backend while it is watched,  *)
(* and those of the backends before it.                                    *)
Watched == {"inline", "poll", "killing", "down"}

ThreadInv ==
  /\ {"owner", "pc"} \subseteq DOMAIN parent
  /\ parent.owner \in Worker
  /\ DOMAIN child = Worker
  /\ \A w \in Worker : "pc" \in DOMAIN child[w]
  /\ \A w \in Worker : w > parent.owner => child[w].pc = "none"
  /\ parent.pc \notin Watched => child[parent.owner].pc = "none"

(* A rewrite is under way only in a child at work.                         *)
RewriterAlive ==
  \A w \in Worker : /\ rewriter[w].pc # "none" => child[w].pc = "work"
                    /\ rewriter[w].pc = "none" => rewriter[w] = NoRewrite

(* The samples some confirmed preview excludes.                            *)
Excluded ==
  {s \in Sample : \E e \in confirmed : e.config = e.digest.config
                                       /\ s \notin e.digest.curated}

(* What a child moves, a manifest lists and a restore may have to put back *)
(* was excluded by a confirmed preview.                                    *)
RowWarranted(r) ==
  /\ r.pc \in Early => r.backup = 0 /\ r.moved = {}
  /\ r.pc = "check" => r.todo = Sample \ r.curated
  /\ r.pc \in Busy => r.backup \in Backup /\ r.todo \cup r.moved \subseteq Excluded

Warranted ==
  /\ \A w \in Worker : RowWarranted(rewriter[w])
  /\ \A b \in Backup : manifest[b].listed \cup manifest[b].moved \subseteq Excluded
  /\ restorer.read \subseteq Excluded

(* A child's backup is its own, is listed before it is filled, and holds   *)
(* nothing but what the child remembers to have moved.                     *)
OwnFiles(r) ==
  /\ manifest[r.backup].state # "absent"
  /\ r.pc \in Busy => r.moved \cup r.todo \subseteq manifest[r.backup].listed
  /\ r.pc \in Moving => manifest[r.backup].listed = r.moved \cup r.todo
  /\ r.pc \in Moving \cup {"undo"} =>
       \A s \in Sample : place[s] = r.backup => s \in r.moved

OwnBackup(w) ==
  rewriter[w].backup # 0 =>
    /\ restorer.backup # rewriter[w].backup
    /\ \A v \in Worker : v # w => rewriter[v].backup # rewriter[w].backup
    /\ OwnFiles(rewriter[w])

Listed ==
  \A s \in Sample : place[s] # Source =>
    place[s] \in Backup /\ s \in manifest[place[s]].listed

ManifestsSound ==
  \A b \in Backup : /\ manifest[b].moved \subseteq manifest[b].listed
                    /\ manifest[b].state = "absent" => manifest[b].listed = {}

RestoreSound ==
  restorer.backup # 0 =>
    /\ manifest[restorer.backup].state # "absent"
    /\ restorer.read \subseteq manifest[restorer.backup].listed

Kept ==
  /\ Listed
  /\ ManifestsSound
  /\ \A w \in Worker : OwnBackup(w)
  /\ RestoreSound

(* FilesAccounted alone is not inductive: a child deletes its backup when  *)
(* it remembers no move any more, and a restore puts files back that it    *)
(* read in a manifest some time ago.                                       *)
RewriteInv ==
  /\ FilesTyped
  /\ ThreadInv
  /\ RewriterAlive
  /\ Warranted
  /\ raced = {} => Kept

-----------------------------------------------------------------------------
LEMMA Numbers ==
  /\ MaxBackup \in Nat
  /\ Backup = 1..MaxBackup /\ Source = 0 /\ Gone = MaxBackup + 1
  /\ 0 \notin Backup /\ MaxBackup + 1 \notin Backup
  /\ Worker \subseteq Nat /\ Sample \subseteq Nat
BY MaxBackupAssumption, OwnerAssumption, SampleAssumption DEF Backup, Source, Gone

LEMMA RewriteInvInit == RewriteInit => RewriteInv
<1> SUFFICES ASSUME RewriteInit PROVE RewriteInv
  OBVIOUS
<1> USE Numbers
<1>1. /\ place = [s \in Sample |-> 0]
      /\ manifest = [b \in Backup |-> NoManifest]
      /\ rewriter = [w \in Worker |-> NoRewrite]
      /\ restorer = NoRestore
      /\ child = [w \in Worker |-> NoChild]
  BY DEF RewriteInit
<1>2. NoManifest \in Manifest
  BY DEF NoManifest, Manifest
<1>3. RewriterShape(NoRewrite)
  BY DEF RewriterShape, NoRewrite, RewriterPc, Early
<1>4. FilesTyped
  BY <1>1, <1>2, <1>3 DEF FilesTyped, NoRestore
<1>5. ThreadInv
  <2>1. PICK w \in Worker : parent = ParentAt(w, "loop")
    BY DEF RewriteInit
  <2> QED
    BY <1>1, <2>1 DEF ThreadInv, ParentAt, NoChild
<1>6. RewriterAlive
  BY <1>1 DEF RewriterAlive, NoRewrite
<1>7. Warranted
  BY <1>1 DEF Warranted, RowWarranted, NoRewrite, NoManifest, NoRestore, Early, Busy, Moving
<1>8. Kept
  BY <1>1 DEF Kept, Listed, ManifestsSound, OwnBackup, OwnFiles, RestoreSound, NoRewrite, NoManifest,
              NoRestore
<1> QED
  BY <1>4, <1>5, <1>6, <1>7, <1>8 DEF RewriteInv

-----------------------------------------------------------------------------
(* The worker thread and the backend.                                      *)

ChildChange ==
  \A w \in Worker : \/ child'[w] = child[w]
                    \/ child'[w].pc = "none"
                    \/ child[w].pc = "none"

(* A step that leaves the children alone.                                  *)
LEMMA ThreadQuiet ==
  ASSUME ThreadInv, UNCHANGED child, {"owner", "pc"} \subseteq DOMAIN parent',
         parent'.owner = parent.owner,
         parent'.pc \notin Watched => parent.pc \notin Watched
  PROVE  ThreadInv' /\ ChildChange
BY DEF ThreadInv, ChildChange

(* One that starts the child of the running backend.                       *)
LEMMA ThreadStarts ==
  ASSUME ThreadInv, {"owner", "pc"} \subseteq DOMAIN parent', NewChild,
         parent'.owner = parent.owner, parent.pc \notin Watched, parent'.pc \in Watched
  PROVE  ThreadInv' /\ ChildChange
BY Numbers DEF ThreadInv, ChildChange, NewChild, Owner

(* One that ends it, or that of an earlier backend.                        *)
LEMMA ThreadEnds ==
  ASSUME ThreadInv, {"owner", "pc"} \subseteq DOMAIN parent',
         NEW w \in Worker, child' = [child EXCEPT ![w] = NoChild],
         parent'.owner = parent.owner,
         w = parent.owner \/ UNCHANGED parent
  PROVE  ThreadInv' /\ ChildChange
BY Numbers DEF ThreadInv, ChildChange, NoChild

LEMMA BackendSound ==
  ASSUME ThreadInv, Backend
  PROVE  ThreadInv' /\ ChildChange
<1> USE DEF Watched
<1>0. {"owner", "pc"} \subseteq DOMAIN parent /\ parent.owner \in Worker
  BY DEF ThreadInv
<1>1. CASE Claim
  BY <1>0, <1>1, ThreadQuiet DEF Claim
<1>2. CASE LeaveLoop \/ PublishToken \/ CheckStop
  BY <1>0, <1>2, ThreadQuiet DEF LeaveLoop, PublishToken, CheckStop, Goto
<1>3. CASE GiveBackUnstarted \/ Fail \/ SkipEmptyPhase \/ Finalize
  <2>1. UNCHANGED child /\ parent.pc \notin Watched
    BY <1>3 DEF GiveBackUnstarted, Fail, SkipEmptyPhase, Finalize
  <2>2. \/ \E pc \in {"loop", "ended"} : parent' = ParentAt(parent.owner, pc)
        \/ parent' = [parent EXCEPT !.pc = "fail"]
    BY <1>3 DEF GiveBackUnstarted, Fail, SkipEmptyPhase, Finalize, BackToLoop, Goto, Owner
  <2>3. {"owner", "pc"} \subseteq DOMAIN parent' /\ parent'.owner = parent.owner
        /\ parent'.pc \notin Watched
    BY <1>0, <2>2 DEF ParentAt
  <2> QED
    BY <2>1, <2>3, ThreadQuiet
<1>4. ASSUME NEW rows, NEW k, StartComponent(rows, k), parent.pc \notin Watched
      PROVE  ThreadInv' /\ ChildChange
  <2>1. {"owner", "pc"} \subseteq DOMAIN parent' /\ parent'.owner = parent.owner
    BY <1>0, <1>4 DEF StartComponent
  <2>2. CASE parent.phase \in Inline
    BY <1>0, <1>4, <2>1, <2>2, ThreadStarts DEF StartComponent
  <2>3. CASE parent.phase \notin Inline
    BY <1>0, <1>4, <2>1, <2>3, ThreadQuiet DEF StartComponent
  <2> QED
    BY <2>2, <2>3
<1>5. CASE Plan
  BY <1>4, <1>5 DEF Plan
<1>6. CASE WaitAssets
  BY <1>0, <1>6, ThreadQuiet DEF WaitAssets, Returned
<1>7. CASE Spawn
  BY <1>0, <1>7, ThreadStarts DEF Spawn, Goto
<1>8. CASE Poll \/ Kill \/ InlineReturns
  <2>1. {"owner", "pc"} \subseteq DOMAIN parent' /\ parent'.owner = parent.owner
    BY <1>0, <1>8 DEF Poll, Kill, InlineReturns, Returned, Goto
  <2>2. \/ child' = [child EXCEPT ![parent.owner] = NoChild]
        \/ UNCHANGED child /\ parent'.pc = "killing"
    BY <1>0, <1>8 DEF Poll, Kill, InlineReturns, Returned, Goto, Stopped, Owner
  <2>3. CASE child' = [child EXCEPT ![parent.owner] = NoChild]
    BY <1>0, <2>1, <2>3, ThreadEnds
  <2>4. CASE UNCHANGED child /\ parent'.pc = "killing"
    BY <1>0, <2>1, <2>4, ThreadQuiet
  <2> QED
    BY <2>2, <2>3, <2>4
<1>9. CASE AfterForcedStop \/ ReadStatus \/ RecordFailure
  BY <1>0, <1>9, ThreadQuiet DEF AfterForcedStop, ReadStatus, RecordFailure, Returned, Goto
<1>10. CASE RecordResult
  <2>1. CASE \E rows : StartComponent(rows, parent.comp + 1)
    BY <1>4, <1>10, <2>1 DEF RecordResult
  <2>2. CASE UNCHANGED child /\ (BackToLoop("loop") \/ Goto("finalize"))
    BY <1>0, <1>10, <2>2, ThreadQuiet DEF RecordResult, BackToLoop, ParentAt, Goto, Owner
  <2> QED
    BY <1>10, <2>1, <2>2 DEF RecordResult
<1>11. CASE \E w \in Worker : OrphanEnds(w)
  BY <1>0, <1>11, ThreadEnds DEF OrphanEnds
<1>12. CASE Expire
  BY <1>0, <1>12, ThreadQuiet DEF Expire, prvars
<1>13. CASE BackendCrash
  <2>1. parent' = ParentAt(parent.owner, "down")
    BY <1>13 DEF BackendCrash, Owner
  <2>2. \/ UNCHANGED child
        \/ child' = [child EXCEPT ![parent.owner] = NoChild]
    BY <1>13 DEF BackendCrash, Owner
  <2>3. {"owner", "pc"} \subseteq DOMAIN parent' /\ parent'.owner = parent.owner
        /\ parent'.pc = "down"
    BY <2>1 DEF ParentAt
  <2> QED
    BY <1>0, <2>2, <2>3, ThreadEnds, ThreadQuiet
<1>14. CASE Restart
  <2>1. parent' = ParentAt(parent.owner + 1, "loop") /\ parent.owner + 1 \in Worker
        /\ UNCHANGED child
    BY <1>14 DEF Restart, Owner
  <2>2. {"owner", "pc"} \subseteq DOMAIN parent' /\ parent'.owner = parent.owner + 1
    BY <2>1 DEF ParentAt
  <2> PICK o \in Worker : o = parent.owner
    BY <1>0
  <2>3. o \in Nat /\ \A w \in Worker : w \in Nat
    BY Numbers
  <2>4. o + 1 > o /\ \A w \in Worker : w > o + 1 => w > o
    BY <2>3
  <2>5. \A w \in Worker : w > o => child[w].pc = "none"
    BY DEF ThreadInv
  <2>6. /\ child' = child /\ parent'.owner = o + 1 /\ o + 1 \in Worker
        /\ child[o + 1].pc = "none"
    BY <2>1, <2>2, <2>4, <2>5
  <2> QED
    BY <2>2, <2>4, <2>5, <2>6 DEF ThreadInv, ChildChange
<1> QED
  BY <1>1, <1>2, <1>3, <1>5, <1>6, <1>7, <1>8, <1>9, <1>10, <1>11, <1>12, <1>13, <1>14
     DEF Backend, ParentStep

-----------------------------------------------------------------------------
(* One child's step.                                                       *)

OneRow(w) ==
  /\ DOMAIN rewriter' = Worker
  /\ \A v \in Worker \ {w} : rewriter'[v] = rewriter[v]

(* The child stays where it is, or goes on.                                *)
ChildGoesOn(w) ==
  /\ UNCHANGED parent
  /\ child' = child \/ (child[w].pc # "none" /\ \E pc : ChildTo(w, pc))
  /\ OneRow(w)
  /\ rewriter'[w].pc # "none" => child'[w].pc = "work"
  /\ rewriter'[w].pc = "none" => rewriter'[w] = NoRewrite

LEMMA ChildSound ==
  ASSUME RewriteInv, NEW w \in Worker, ChildGoesOn(w)
  PROVE  ThreadInv' /\ RewriterAlive'
<1>1. CASE child' = child
  BY <1>1 DEF RewriteInv, ThreadInv, RewriterAlive, ChildGoesOn, OneRow
<1>2. CASE child[w].pc # "none" /\ \E pc : ChildTo(w, pc)
  <2> PICK pc : child' = [child EXCEPT ![w].pc = pc]
    BY <1>2 DEF ChildTo
  <2>1. DOMAIN child' = Worker /\ \A v \in Worker : "pc" \in DOMAIN child'[v]
    BY DEF RewriteInv, ThreadInv
  <2>2. \A v \in Worker \ {w} : child'[v] = child[v]
    BY DEF RewriteInv, ThreadInv
  <2>3. ~(w > parent.owner)
    BY <1>2 DEF RewriteInv, ThreadInv
  <2>4. w = parent.owner => parent.pc \in Watched
    BY <1>2 DEF RewriteInv, ThreadInv
  <2>5. ThreadInv'
    BY <2>1, <2>2, <2>3, <2>4 DEF RewriteInv, ThreadInv, ChildGoesOn
  <2>6. RewriterAlive'
    BY <2>2 DEF RewriteInv, RewriterAlive, ChildGoesOn, OneRow
  <2> QED
    BY <2>5, <2>6
<1> QED
  BY <1>1, <1>2 DEF ChildGoesOn

(* What the row of w says holds of the row it gets.                        *)
LEMMA RowSound ==
  ASSUME RewriteInv, NEW w \in Worker, ChildGoesOn(w),
         UNCHANGED <<place, manifest, restorer, confirmed, raced>>,
         RewriterShape(rewriter'[w]), RowWarranted(rewriter'[w]),
         rewriter'[w].backup \in {0, rewriter[w].backup},
         raced = {} => OwnBackup(w)'
  PROVE  RewriteInv'
<1>1. FilesTyped'
  BY DEF RewriteInv, FilesTyped, ChildGoesOn, OneRow, RewriterShape
<1>2. Excluded' = Excluded
  BY DEF Excluded
<1>3. \A v \in Worker : RowWarranted(rewriter'[v])
  BY DEF RewriteInv, Warranted, ChildGoesOn, OneRow
<1>4. \A v \in Worker : RowWarranted(rewriter[v])'
  BY <1>2, <1>3 DEF RowWarranted
<1>5. Warranted'
  BY <1>2, <1>4 DEF RewriteInv, Warranted
<1>6. ASSUME raced = {}
      PROVE  Kept'
  <2>1. Listed' /\ ManifestsSound' /\ RestoreSound'
    BY <1>6 DEF RewriteInv, Kept, Listed, ManifestsSound, RestoreSound
  <2>2. ASSUME NEW v \in Worker, v # w
        PROVE  OwnBackup(v)'
    <3>1. rewriter'[v] = rewriter[v] /\ OwnBackup(v) /\ OwnBackup(w)
      BY <1>6, <2>2 DEF RewriteInv, Kept, ChildGoesOn, OneRow
    <3>2. \A u \in Worker : (u # v /\ rewriter[v].backup # 0) =>
            rewriter'[u].backup # rewriter[v].backup
      BY <2>2, <3>1 DEF OwnBackup, OwnFiles, ChildGoesOn, OneRow
    <3> QED
      BY <3>1, <3>2 DEF OwnBackup, OwnFiles
  <2>3. OwnBackup(w)'
    BY <1>6
  <2> QED
    BY <2>1, <2>2, <2>3 DEF Kept
<1> QED
  BY <1>1, <1>5, <1>6, ChildSound DEF RewriteInv

(* Its memory forgotten.                                                   *)
LEMMA ForgetSound ==
  ASSUME RewriteInv, NEW w \in Worker,
         UNCHANGED <<place, manifest, restorer, confirmed, raced, parent>>,
         child' = child \/ (child[w].pc # "none" /\ \E pc : ChildTo(w, pc)),
         OneRow(w), rewriter'[w] = NoRewrite
  PROVE  RewriteInv'
<1>1. OneRow(w) /\ rewriter'[w] = NoRewrite
  OBVIOUS
<1>2. /\ NoRewrite.pc = "none" /\ NoRewrite.backup = 0 /\ NoRewrite.moved = {}
      /\ NoRewrite.todo = {}
      /\ DOMAIN NoRewrite = {"pc", "config", "curated", "backup", "todo", "moved"}
  BY DEF NoRewrite
<1>3. ChildGoesOn(w)
  BY <1>1, <1>2 DEF ChildGoesOn
<1>4. RewriterShape(rewriter'[w])
  BY <1>1, <1>2, Numbers DEF RewriterShape, RewriterPc, Early
<1>5. RowWarranted(rewriter'[w])
  BY <1>1, <1>2 DEF RowWarranted, Early, Busy, Moving
<1>6. OwnBackup(w)'
  BY <1>1, <1>2 DEF OwnBackup, OwnFiles
<1> QED
  BY <1>1, <1>2, <1>3, <1>4, <1>5, <1>6, RowSound

(* The row of a child at work.                                             *)
LEMMA AtWork ==
  ASSUME RewriteInv, NEW w \in Worker
  PROVE  /\ RewriterShape(rewriter[w]) /\ RowWarranted(rewriter[w])
         /\ raced = {} => OwnBackup(w)
         /\ DOMAIN rewriter = Worker
         /\ child[w].pc # "work" => rewriter[w] = NoRewrite
BY DEF RewriteInv, FilesTyped, Warranted, Kept, RewriterAlive

LEMMA StartsSound ==
  ASSUME RewriteInv, NEW w \in Worker, RewriteStarts(w)
  PROVE  RewriteInv'
<1> USE AtWork
<1>1. child[w].pc = "start" /\ rewriter[w] = NoRewrite
  BY DEF RewriteStarts
<1>2. UNCHANGED <<place, manifest, restorer, confirmed, raced, parent>>
  BY DEF RewriteStarts, ChildEnds
<1>3. CASE ChildEnds(w, "error") /\ UNCHANGED rewriter
  <2>1. OneRow(w) /\ rewriter'[w] = NoRewrite
    BY <1>1, <1>3 DEF OneRow
  <2> QED
    BY <1>1, <1>2, <1>3, <2>1, ForgetSound DEF ChildEnds
<1>4. CASE /\ ChildEnds(w, "work")
           /\ rewriter' = [rewriter EXCEPT ![w].pc = "load", ![w].config = task[T].config]
  <2> PICK r : r = rewriter'[w]
    OBVIOUS
  <2>1. OneRow(w) /\ r = [NoRewrite EXCEPT !.pc = "load", !.config = task[T].config]
    BY <1>1, <1>4 DEF OneRow
  <2>2. /\ r.pc = "load" /\ r.backup = 0 /\ r.moved = {} /\ r.todo = {}
        /\ DOMAIN r = {"pc", "config", "curated", "backup", "todo", "moved"}
    BY <2>1 DEF NoRewrite
  <2>3. child'[w].pc = "work"
    BY <1>1, <1>4 DEF ChildEnds, ChildTo, RewriteInv, ThreadInv
  <2>4. ChildGoesOn(w)
    BY <1>1, <1>2, <1>4, <2>1, <2>2, <2>3 DEF ChildGoesOn, ChildEnds
  <2>5. RewriterShape(r)
    BY <2>2, Numbers DEF RewriterShape, RewriterPc, Early
  <2>6. RowWarranted(r)
    BY <2>2 DEF RowWarranted, Early, Busy, Moving
  <2>7. OwnBackup(w)'
    BY <2>2 DEF OwnBackup, OwnFiles
  <2> QED
    BY <1>2, <2>2, <2>4, <2>5, <2>6, <2>7, RowSound
<1> QED
  BY <1>3, <1>4 DEF RewriteStarts

LEMMA RaisesSound ==
  ASSUME RewriteInv, NEW w \in Worker, Raises(w), child[w].pc # "none"
  PROVE  RewriteInv'
<1>1. OneRow(w) /\ rewriter'[w] = NoRewrite
  BY AtWork DEF Raises, OneRow
<1> QED
  BY <1>1, ForgetSound DEF Raises, ChildEnds

LEMMA LoadsSound ==
  ASSUME RewriteInv, NEW w \in Worker, RewriteLoads(w)
  PROVE  RewriteInv'
<1> USE AtWork
<1>1. child[w].pc = "work" /\ rewriter[w].pc = "load"
  BY DEF RewriteLoads, Rewriting
<1>2. CASE Raises(w)
  BY <1>1, <1>2, RaisesSound
<1>3. CASE ~Raises(w)
  <2> PICK curated : rewriter' = [rewriter EXCEPT ![w].pc = "check", ![w].curated = curated,
                                                  ![w].todo = Sample \ curated]
    BY <1>3 DEF RewriteLoads
  <2>1. UNCHANGED <<place, manifest, restorer, confirmed, raced, parent, child>>
    BY <1>3 DEF RewriteLoads, Untouched, prvars
  <2> PICK r : r = rewriter'[w]
    OBVIOUS
  <2>2. OneRow(w) /\ r = [rewriter[w] EXCEPT !.pc = "check", !.curated = curated,
                                             !.todo = Sample \ curated]
    BY DEF OneRow
  <2>3. /\ DOMAIN r = {"pc", "config", "curated", "backup", "todo", "moved"}
        /\ r.pc = "check" /\ r.curated = curated /\ r.todo = Sample \ curated
        /\ r.backup = rewriter[w].backup /\ r.moved = rewriter[w].moved
    BY <2>2 DEF RewriterShape
  <2>4. r.backup = 0 /\ r.moved = {}
    BY <1>1, <2>3 DEF RowWarranted, Early
  <2>5. ChildGoesOn(w)
    BY <1>1, <2>1, <2>2, <2>3 DEF ChildGoesOn
  <2>6. RewriterShape(r)
    BY <2>3, <2>4, Numbers DEF RewriterShape, RewriterPc, Early
  <2>7. RowWarranted(r)
    BY <2>3, <2>4 DEF RowWarranted, Early, Busy, Moving
  <2>8. OwnBackup(w)'
    BY <2>4 DEF OwnBackup, OwnFiles
  <2> QED
    BY <2>1, <2>4, <2>5, <2>6, <2>7, <2>8, RowSound
<1> QED
  BY <1>2, <1>3

(* Reading the checkpoints, and finding nothing to do: only the program    *)
(* counter moves.                                                          *)
LEMMA GoesOnSound ==
  ASSUME RewriteInv, NEW w \in Worker, child[w].pc = "work",
         UNCHANGED <<place, manifest, restorer, confirmed, raced, parent, child>>,
         NEW pc \in {"read", "commit"}, rewriter' = [rewriter EXCEPT ![w].pc = pc]
  PROVE  RewriteInv'
<1> USE AtWork
<1> PICK r : r = rewriter'[w]
  OBVIOUS
<1>1. OneRow(w) /\ r = [rewriter[w] EXCEPT !.pc = pc]
  BY DEF OneRow
<1>2. /\ DOMAIN r = {"pc", "config", "curated", "backup", "todo", "moved"}
      /\ r.pc = pc /\ r.todo = rewriter[w].todo
      /\ r.backup = rewriter[w].backup /\ r.moved = rewriter[w].moved
  BY <1>1 DEF RewriterShape
<1>3. ChildGoesOn(w)
  BY <1>1, <1>2 DEF ChildGoesOn
<1>4. RewriterShape(r)
  BY <1>2 DEF RewriterShape, RewriterPc
<1>5. RowWarranted(r)
  BY <1>2 DEF RowWarranted, Early, Busy, Moving
<1>6. ASSUME raced = {}
      PROVE  OwnBackup(w)'
  BY <1>1, <1>2, <1>6 DEF OwnBackup, OwnFiles, OneRow, Busy, Moving
<1> QED
  BY <1>2, <1>3, <1>4, <1>5, <1>6, RowSound

LEMMA ReadsSound ==
  ASSUME RewriteInv, NEW w \in Worker, RewriteReads(w)
  PROVE  RewriteInv'
BY GoesOnSound DEF RewriteReads, Rewriting, prvars

LEMMA CommitsSound ==
  ASSUME RewriteInv, NEW w \in Worker, RewriteCommits(w)
  PROVE  RewriteInv'
<1>1. OneRow(w) /\ rewriter'[w] = NoRewrite
  BY AtWork DEF RewriteCommits, OneRow
<1>2. child[w].pc # "none" /\ \E pc : ChildTo(w, pc)
  BY DEF RewriteCommits, Rewriting, ChildTo
<1> QED
  BY <1>1, <1>2, ForgetSound DEF RewriteCommits

LEMMA FailsSound ==
  ASSUME RewriteInv, NEW w \in Worker, RewriteFails(w)
  PROVE  RewriteInv'
<1> USE AtWork
<1>1. /\ child[w].pc = "work" /\ rewriter[w].pc \in Moving
      /\ UNCHANGED <<place, manifest, restorer, confirmed, raced, parent, child>>
      /\ rewriter' = [rewriter EXCEPT ![w].pc = "undo"]
  BY DEF RewriteFails, Rewriting, Moving, Untouched, prvars
<1> PICK r : r = rewriter'[w]
  OBVIOUS
<1>2. OneRow(w) /\ r = [rewriter[w] EXCEPT !.pc = "undo"]
  BY <1>1 DEF OneRow
<1>3. /\ DOMAIN r = {"pc", "config", "curated", "backup", "todo", "moved"}
      /\ r.pc = "undo" /\ r.todo = rewriter[w].todo
      /\ r.backup = rewriter[w].backup /\ r.moved = rewriter[w].moved
  BY <1>2 DEF RewriterShape
<1>4. ChildGoesOn(w)
  BY <1>1, <1>2, <1>3 DEF ChildGoesOn
<1>5. RewriterShape(r)
  BY <1>3 DEF RewriterShape, RewriterPc, Busy
<1>6. RowWarranted(r)
  BY <1>1, <1>3 DEF RowWarranted, Early, Busy, Moving
<1>7. ASSUME raced = {}
      PROVE  OwnBackup(w)'
  BY <1>1, <1>2, <1>3, <1>7 DEF OwnBackup, OwnFiles, OneRow, Busy, Moving
<1> QED
  BY <1>1, <1>3, <1>4, <1>5, <1>6, <1>7, RowSound

LEMMA IsStaleSound ==
  ASSUME RewriteInv, NEW w \in Worker, RewriteIsStale(w)
  PROVE  RewriteInv'
<1> USE AtWork
<1>1. child[w].pc = "work" /\ rewriter[w].pc = "commit"
  BY DEF RewriteIsStale, Rewriting
<1>2. CASE Raises(w)
  BY <1>1, <1>2, RaisesSound
<1>3. CASE ~Raises(w)
  <2> PICK b : b = rewriter[w].backup
    OBVIOUS
  <2>1. /\ b # 0
        /\ rewriter' = [rewriter EXCEPT ![w].pc = "restore", ![w].todo = manifest[b].moved,
                                        ![w].moved = {}]
        /\ UNCHANGED <<place, manifest, restorer, confirmed, raced, parent, child>>
    BY <1>3 DEF RewriteIsStale, Untouched, prvars
  <2>2. b \in Backup /\ manifest[b].moved \subseteq Sample
    BY <2>1, Numbers DEF RewriterShape, RewriteInv, FilesTyped, Manifest
  <2>3. manifest[b].moved \subseteq Excluded
    BY <2>2 DEF RewriteInv, Warranted
  <2> PICK r : r = rewriter'[w]
    OBVIOUS
  <2>4. OneRow(w) /\ r = [rewriter[w] EXCEPT !.pc = "restore", !.todo = manifest[b].moved,
                                             !.moved = {}]
    BY <2>1 DEF OneRow
  <2>5. /\ DOMAIN r = {"pc", "config", "curated", "backup", "todo", "moved"}
        /\ r.pc = "restore" /\ r.todo = manifest[b].moved
        /\ r.backup = b /\ r.moved = {}
    BY <2>4 DEF RewriterShape
  <2>6. ChildGoesOn(w)
    BY <1>1, <2>1, <2>4, <2>5 DEF ChildGoesOn
  <2>7. RewriterShape(r)
    BY <2>2, <2>5 DEF RewriterShape, RewriterPc, Busy
  <2>8. RowWarranted(r)
    BY <2>2, <2>3, <2>5 DEF RowWarranted, Early, Busy
  <2>9. ASSUME raced = {}
        PROVE  OwnBackup(w)'
    <3>1. OwnBackup(w) /\ manifest[b].moved \subseteq manifest[b].listed
      BY <2>2, <2>9 DEF RewriteInv, Kept, ManifestsSound
    <3>2. /\ restorer'.backup # b /\ manifest'[b].state # "absent"
          /\ \A v \in Worker : v # w => rewriter'[v].backup # b
      BY <2>1, <2>4, <3>1 DEF OwnBackup, OwnFiles, OneRow
    <3>3. "restore" \notin Moving \cup {"undo"}
      BY DEF Moving
    <3>4. r.moved \cup r.todo \subseteq manifest'[b].listed
      BY <2>1, <2>5, <3>1
    <3> QED
      BY <2>5, <3>2, <3>3, <3>4 DEF OwnBackup, OwnFiles
  <2> QED
    BY <2>1, <2>5, <2>6, <2>7, <2>8, <2>9, RowSound
<1> QED
  BY <1>2, <1>3

(* A step of w at its own backup b, or at a new one.                       *)
LEMMA FilesSound ==
  ASSUME RewriteInv, NEW w \in Worker, ChildGoesOn(w),
         UNCHANGED <<restorer, confirmed, raced>>,
         NEW b \in Backup,
         \/ rewriter[w].backup = b
         \/ rewriter[w].backup = 0 /\ manifest[b].state = "absent",
         rewriter'[w].backup \in {0, b},
         place' \in [Sample -> 0..Gone],
         \A s \in Sample : place'[s] = place[s] \/ place'[s] \notin Backup \ {b},
         manifest' \in [Backup -> Manifest],
         \A c \in Backup \ {b} : manifest'[c] = manifest[c],
         manifest'[b].listed \cup manifest'[b].moved \subseteq Excluded,
         RewriterShape(rewriter'[w]), RowWarranted(rewriter'[w]),
         raced = {} =>
           /\ Listed'
           /\ manifest'[b].moved \subseteq manifest'[b].listed
           /\ manifest'[b].state = "absent" => manifest'[b].listed = {}
           /\ rewriter'[w].backup = b => OwnFiles(rewriter[w])'
  PROVE  RewriteInv'
<1>1. FilesTyped'
  <2>1. \A v \in Worker : RewriterShape(rewriter'[v])
    BY DEF RewriteInv, FilesTyped, ChildGoesOn, OneRow
  <2>2. \A v \in Worker : RewriterShape(rewriter[v])'
    BY <2>1 DEF RewriterShape
  <2> QED
    BY <2>2 DEF RewriteInv, FilesTyped, ChildGoesOn, OneRow
<1>2. Excluded' = Excluded
  BY DEF Excluded
<1>3. Warranted'
  <2>1. \A v \in Worker : RowWarranted(rewriter'[v])
    BY DEF RewriteInv, Warranted, ChildGoesOn, OneRow
  <2>2. \A v \in Worker : RowWarranted(rewriter[v])'
    BY <1>2, <2>1 DEF RowWarranted
  <2>3. \A c \in Backup : manifest'[c].listed \cup manifest'[c].moved \subseteq Excluded
    BY DEF RewriteInv, Warranted
  <2> QED
    BY <1>2, <2>2, <2>3 DEF RewriteInv, Warranted
<1>4. ASSUME raced = {}
      PROVE  Kept'
  <2> USE <1>4
  <2>1. Kept
    BY DEF RewriteInv
  <2>2. restorer.backup # b /\ \A v \in Worker \ {w} : rewriter[v].backup # b
    BY <2>1, Numbers DEF Kept, RestoreSound, OwnBackup, OwnFiles
  <2>3. restorer.backup \in 0..MaxBackup
        /\ \A v \in Worker : rewriter[v].backup \in 0..MaxBackup
    BY DEF RewriteInv, FilesTyped, RewriterShape
  <2>4. ManifestsSound'
    BY <2>1 DEF Kept, ManifestsSound
  <2>5. RestoreSound'
    BY <2>1, <2>2, <2>3, Numbers DEF Kept, RestoreSound
  <2>6. ASSUME NEW v \in Worker, v # w
        PROVE  OwnBackup(v)'
    <3>1. rewriter'[v] = rewriter[v]
      BY <2>6 DEF ChildGoesOn, OneRow
    <3> PICK r : r = rewriter[v]
      OBVIOUS
    <3> SUFFICES ASSUME r.backup # 0
                 PROVE  /\ restorer'.backup # r.backup
                        /\ \A u \in Worker : u # v => rewriter'[u].backup # r.backup
                        /\ OwnFiles(rewriter[v])'
      BY <3>1 DEF OwnBackup
    <3>2. r.backup \in Backup \ {b}
      BY <2>2, <2>3, <2>6, Numbers
    <3>3. /\ restorer'.backup # r.backup
          /\ \A u \in Worker : u # v => rewriter'[u].backup # r.backup
      BY <2>1, <2>6, <3>2 DEF Kept, OwnBackup, ChildGoesOn, OneRow
    <3>4. manifest'[r.backup] = manifest[r.backup]
      BY <3>2
    <3>5. \A s \in Sample : place'[s] = r.backup => place[s] = r.backup
      BY <3>2
    <3>6. OwnFiles(r)
      BY <2>1 DEF Kept, OwnBackup
    <3>7. OwnFiles(rewriter[v])'
      BY <3>1, <3>4, <3>5, <3>6 DEF OwnFiles
    <3> QED
      BY <3>3, <3>7
  <2>7. OwnBackup(w)'
    <3>1. \A v \in Worker : v # w => rewriter'[v].backup # b
      BY <2>2 DEF ChildGoesOn, OneRow
    <3> QED
      BY <2>2, <3>1 DEF OwnBackup
  <2> QED
    BY <2>4, <2>5, <2>6, <2>7 DEF Kept
<1> QED
  BY <1>1, <1>3, <1>4, ChildSound DEF RewriteInv

(* What typing says of one row of each table.                              *)
LEMMA Shapes ==
  ASSUME RewriteInv, NEW w \in Worker
  PROVE  /\ place \in [Sample -> 0..Gone] /\ manifest \in [Backup -> Manifest]
         /\ DOMAIN rewriter = Worker
         /\ RewriterShape(rewriter[w]) /\ RowWarranted(rewriter[w])
BY AtWork DEF RewriteInv, FilesTyped

LEMMA ChecksSound ==
  ASSUME RewriteInv, NEW w \in Worker, RewriteChecks(w)
  PROVE  RewriteInv'
<1>1. child[w].pc = "work" /\ rewriter[w].pc = "check"
  BY DEF RewriteChecks, Rewriting
<1>2. rewriter[w].backup = 0 /\ rewriter[w].moved = {}
      /\ rewriter[w].todo = Sample \ rewriter[w].curated
  BY <1>1, Shapes DEF RowWarranted, Early
<1>3. CASE Raises(w)
  BY <1>1, <1>3, RaisesSound
<1>4. CASE ~Raises(w) /\ rewriter[w].todo = {}
  <2>1. /\ rewriter' = [rewriter EXCEPT ![w].pc = "read"]
        /\ UNCHANGED <<place, manifest, restorer, confirmed, raced, parent, child>>
    BY <1>4 DEF RewriteChecks, Untouched, prvars
  <2> QED
    BY <1>1, <2>1, GoesOnSound
<1>5. CASE ~Raises(w) /\ rewriter[w].todo # {}
  <2> PICK todo : todo = rewriter[w].todo
    OBVIOUS
  <2>1. /\ Confirmed(rewriter[w].config, rewriter[w].curated)
        /\ UNCHANGED <<place, restorer, confirmed, raced, parent, child>>
    BY <1>5 DEF RewriteChecks, Untouched, prvars
  <2>2. PICK b \in Backup :
          /\ manifest[b].state = "absent"
          /\ manifest' = [manifest EXCEPT ![b] =
                            [state |-> "active", listed |-> todo, moved |-> {}]]
          /\ rewriter' = [rewriter EXCEPT ![w].pc = "move", ![w].backup = b]
    BY <1>5 DEF RewriteChecks
  <2> PICK r : r = rewriter'[w]
    OBVIOUS
  <2>3. OneRow(w) /\ r = [rewriter[w] EXCEPT !.pc = "move", !.backup = b]
    BY <2>2, Shapes DEF OneRow
  <2>4. /\ DOMAIN r = {"pc", "config", "curated", "backup", "todo", "moved"}
        /\ r.pc = "move" /\ r.backup = b /\ r.todo = todo /\ r.moved = {}
    BY <1>2, <2>3, Shapes DEF RewriterShape
  <2>5. todo \subseteq Excluded
    BY <1>2, <2>1 DEF Excluded, Confirmed
  <2>6. ChildGoesOn(w)
    BY <1>1, <2>1, <2>3, <2>4 DEF ChildGoesOn
  <2>7. RewriterShape(r)
    BY <2>4, Shapes, Numbers DEF RewriterShape, RewriterPc, Busy, Moving
  <2>8. RowWarranted(r)
    BY <2>4, <2>5 DEF RowWarranted, Early, Busy, Moving
  <2>9. todo \subseteq Sample
    BY Shapes DEF RewriterShape
  <2>10. /\ manifest' \in [Backup -> Manifest]
         /\ \A c \in Backup \ {b} : manifest'[c] = manifest[c]
         /\ manifest'[b] = [state |-> "active", listed |-> todo, moved |-> {}]
    <3>1. [state |-> "active", listed |-> todo, moved |-> {}] \in Manifest
      BY <2>9 DEF Manifest
    <3> QED
      BY <2>2, <3>1, Shapes
  <2>11. ASSUME raced = {}
         PROVE  Listed' /\ OwnFiles(rewriter[w])'
    <3>1. \A s \in Sample : place[s] # 0 => place[s] \in Backup \ {b}
                                            /\ s \in manifest[place[s]].listed
      BY <2>2, <2>11, Numbers DEF RewriteInv, Kept, Listed, ManifestsSound
    <3>2. Listed'
      BY <2>1, <2>10, <3>1, Numbers DEF Listed
    <3>3. \A s \in Sample : place'[s] # b
      BY <2>1, <3>1, Numbers
    <3>4. r.moved \cup r.todo = todo
      BY <2>4
    <3>5. manifest'[b].state = "active" /\ manifest'[b].listed = todo
      BY <2>10
    <3> QED
      BY <2>4, <3>2, <3>3, <3>4, <3>5 DEF OwnFiles
  <2> QED
    BY <1>2, <2>1, <2>2, <2>4, <2>5, <2>6, <2>7, <2>8, <2>10, <2>11, Shapes, FilesSound
<1> QED
  BY <1>3, <1>4, <1>5

LEMMA MovesSound ==
  ASSUME RewriteInv, NEW w \in Worker, RewriteMoves(w)
  PROVE  RewriteInv'
<1> PICK q : q = rewriter[w]
  OBVIOUS
<1> PICK b : b = q.backup
  OBVIOUS
<1>1. PICK s \in Sample :
        /\ s \in q.todo
        /\ place' = [place EXCEPT ![s] = b]
        /\ rewriter' = [rewriter EXCEPT ![w].pc = "record", ![w].todo = q.todo \ {s},
                                        ![w].moved = q.moved \cup {s}]
  BY DEF RewriteMoves, IsFirst
<1>2. /\ child[w].pc = "work" /\ q.pc = "move"
      /\ UNCHANGED <<manifest, restorer, confirmed, raced, parent, child>>
  BY DEF RewriteMoves, Rewriting, Untouched, prvars
<1>3. /\ b \in Backup /\ q.todo \cup q.moved \subseteq Excluded
      /\ q.todo \subseteq Sample /\ q.moved \subseteq Sample
  BY <1>2, Shapes DEF RowWarranted, RewriterShape, Busy, Moving
<1> PICK r : r = rewriter'[w]
  OBVIOUS
<1>4. OneRow(w) /\ r = [q EXCEPT !.pc = "record", !.todo = q.todo \ {s},
                                 !.moved = q.moved \cup {s}]
  BY <1>1, Shapes DEF OneRow
<1>5. /\ DOMAIN r = {"pc", "config", "curated", "backup", "todo", "moved"}
      /\ r.pc = "record" /\ r.backup = b
      /\ r.todo = q.todo \ {s} /\ r.moved = q.moved \cup {s}
  BY <1>4, Shapes DEF RewriterShape
<1>6. r.moved \cup r.todo = q.moved \cup q.todo
  BY <1>1, <1>5
<1>7. ChildGoesOn(w)
  BY <1>2, <1>4, <1>5 DEF ChildGoesOn
<1>8. RewriterShape(r)
  BY <1>3, <1>5, Numbers DEF RewriterShape, RewriterPc, Busy, Moving
<1>9. RowWarranted(r)
  BY <1>3, <1>5, <1>6 DEF RowWarranted, Early, Busy, Moving
<1>10. /\ place' \in [Sample -> 0..Gone]
       /\ \A u \in Sample : place'[u] = IF u = s THEN b ELSE place[u]
  BY <1>1, <1>3, Shapes, Numbers
<1>11. manifest[b].listed \cup manifest[b].moved \subseteq Excluded
  BY <1>3 DEF RewriteInv, Warranted
<1>12. ASSUME raced = {}
       PROVE  /\ Listed'
              /\ manifest[b].moved \subseteq manifest[b].listed
              /\ manifest[b].state # "absent"
              /\ OwnFiles(rewriter[w])'
  <2>1. OwnFiles(q)
    BY <1>2, <1>3, <1>12, Numbers DEF RewriteInv, Kept, OwnBackup
  <2>2. /\ manifest[b].state # "absent"
        /\ manifest[b].listed = q.moved \cup q.todo
        /\ \A u \in Sample : place[u] = b => u \in q.moved
    BY <1>2, <2>1 DEF OwnFiles, Moving
  <2>3. Listed'
    BY <1>1, <1>2, <1>3, <1>10, <1>12, <2>2 DEF RewriteInv, Kept, Listed
  <2>4. \A u \in Sample : place'[u] = b => u \in r.moved
    BY <1>5, <1>10, <2>2
  <2>5. OwnFiles(rewriter[w])'
    BY <1>2, <1>5, <1>6, <2>2, <2>4 DEF OwnFiles
  <2>6. manifest[b].moved \subseteq manifest[b].listed
    BY <1>3, <1>12 DEF RewriteInv, Kept, ManifestsSound
  <2> QED
    BY <2>2, <2>3, <2>5, <2>6
<1> QED
  BY <1>2, <1>3, <1>5, <1>7, <1>8, <1>9, <1>10, <1>11, <1>12, Shapes, FilesSound

LEMMA RecordsSound ==
  ASSUME RewriteInv, NEW w \in Worker, RewriteRecords(w)
  PROVE  RewriteInv'
<1> PICK q : q = rewriter[w]
  OBVIOUS
<1> PICK b : b = q.backup
  OBVIOUS
<1>1. PICK pc \in {"read", "move"} : rewriter' = [rewriter EXCEPT ![w].pc = pc]
  BY DEF RewriteRecords
<1>2. /\ child[w].pc = "work" /\ q.pc = "record"
      /\ manifest' = [manifest EXCEPT ![b] = Recorded(q)]
      /\ UNCHANGED <<place, restorer, confirmed, raced, parent, child>>
  BY DEF RewriteRecords, Rewriting, Untouched, prvars
<1>3. /\ b \in Backup /\ q.todo \cup q.moved \subseteq Excluded
      /\ q.todo \subseteq Sample /\ q.moved \subseteq Sample
  BY <1>2, Shapes DEF RowWarranted, RewriterShape, Busy, Moving
<1> PICK r : r = rewriter'[w]
  OBVIOUS
<1>4. OneRow(w) /\ r = [q EXCEPT !.pc = pc]
  BY <1>1, Shapes DEF OneRow
<1>5. /\ DOMAIN r = {"pc", "config", "curated", "backup", "todo", "moved"}
      /\ r.pc = pc /\ r.backup = b /\ r.todo = q.todo /\ r.moved = q.moved
  BY <1>4, Shapes DEF RewriterShape
<1>6. ChildGoesOn(w)
  BY <1>1, <1>2, <1>4, <1>5 DEF ChildGoesOn
<1>7. RewriterShape(r)
  BY <1>3, <1>5, Numbers DEF RewriterShape, RewriterPc, Busy, Moving
<1>8. RowWarranted(r)
  BY <1>3, <1>5 DEF RowWarranted, Early, Busy, Moving
<1>9. /\ manifest' \in [Backup -> Manifest]
      /\ \A c \in Backup \ {b} : manifest'[c] = manifest[c]
      /\ manifest'[b] = [state |-> "active", listed |-> q.moved \cup q.todo,
                         moved |-> q.moved]
  <2> PICK m : m = [state |-> "active", listed |-> q.moved \cup q.todo, moved |-> q.moved]
    OBVIOUS
  <2>1. m \in Manifest
    BY <1>3 DEF Manifest
  <2>2. manifest' = [manifest EXCEPT ![b] = m]
    BY <1>2 DEF Recorded
  <2>3. /\ manifest' \in [Backup -> Manifest] /\ manifest'[b] = m
        /\ \A c \in Backup \ {b} : manifest'[c] = manifest[c]
    BY <1>3, <2>1, <2>2, Shapes
  <2> QED
    BY <2>3
<1>10. ASSUME raced = {}
       PROVE  Listed' /\ OwnFiles(rewriter[w])'
  <2>1. OwnFiles(q)
    BY <1>2, <1>3, <1>10, Numbers DEF RewriteInv, Kept, OwnBackup
  <2>2. /\ manifest[b].listed = q.moved \cup q.todo
        /\ \A u \in Sample : place[u] = b => u \in q.moved
    BY <1>2, <2>1 DEF OwnFiles, Moving
  <2>3. \A c \in Backup : manifest'[c].listed = manifest[c].listed
    <3>1. manifest'[b].listed = q.moved \cup q.todo
      BY <1>9
    <3>2. \A c \in Backup \ {b} : manifest'[c].listed = manifest[c].listed
      BY <1>9
    <3> QED
      BY <2>2, <3>1, <3>2
  <2>4. Listed'
    BY <1>2, <1>10, <2>3 DEF RewriteInv, Kept, Listed
  <2>5. manifest'[b].state = "active" /\ manifest'[b].listed = r.moved \cup r.todo
    BY <1>5, <1>9
  <2>6. OwnFiles(rewriter[w])'
    BY <1>2, <1>5, <2>2, <2>5 DEF OwnFiles
  <2> QED
    BY <2>4, <2>6
<1> QED
  BY <1>2, <1>3, <1>5, <1>6, <1>7, <1>8, <1>9, <1>10, Shapes, FilesSound

(* A file goes back, if it is still there; the others stay.                *)
LEMMA UndoSound ==
  ASSUME RewriteInv, NEW w \in Worker, UndoMoves(w)
  PROVE  RewriteInv'
<1> PICK q : q = rewriter[w]
  OBVIOUS
<1> PICK b : b = q.backup
  OBVIOUS
<1>1. PICK s \in Sample :
        /\ place' = IF place[s] = b THEN [place EXCEPT ![s] = Source] ELSE place
        /\ rewriter' = [rewriter EXCEPT ![w].moved = q.moved \ {s}]
  BY DEF UndoMoves
<1>2. /\ child[w].pc = "work" /\ q.pc = "undo"
      /\ UNCHANGED <<manifest, restorer, confirmed, raced, parent, child>>
  BY DEF UndoMoves, Rewriting, Untouched, prvars
<1>3. /\ b \in Backup /\ q.todo \cup q.moved \subseteq Excluded
      /\ q.todo \subseteq Sample /\ q.moved \subseteq Sample
  BY <1>2, Shapes DEF RowWarranted, RewriterShape, Busy, Moving
<1> PICK r : r = rewriter'[w]
  OBVIOUS
<1>4. OneRow(w) /\ r = [q EXCEPT !.moved = q.moved \ {s}]
  BY <1>1, Shapes DEF OneRow
<1>5. /\ DOMAIN r = {"pc", "config", "curated", "backup", "todo", "moved"}
      /\ r.pc = "undo" /\ r.backup = b /\ r.todo = q.todo /\ r.moved = q.moved \ {s}
  BY <1>2, <1>4, Shapes DEF RewriterShape
<1>6. ChildGoesOn(w)
  BY <1>2, <1>4, <1>5 DEF ChildGoesOn
<1>7. RewriterShape(r)
  BY <1>3, <1>5, Numbers DEF RewriterShape, RewriterPc, Busy
<1>8. RowWarranted(r)
  BY <1>3, <1>5 DEF RowWarranted, Early, Busy, Moving
<1>9. /\ place' \in [Sample -> 0..Gone]
      /\ \A u \in Sample : place'[u] = IF u = s /\ place[s] = b THEN 0 ELSE place[u]
  BY <1>1, Shapes, Numbers
<1>10. manifest[b].listed \cup manifest[b].moved \subseteq Excluded
  BY <1>3 DEF RewriteInv, Warranted
<1>11. ASSUME raced = {}
       PROVE  /\ Listed'
              /\ manifest[b].moved \subseteq manifest[b].listed
              /\ manifest[b].state # "absent"
              /\ OwnFiles(rewriter[w])'
  <2>1. OwnFiles(q)
    BY <1>2, <1>3, <1>11, Numbers DEF RewriteInv, Kept, OwnBackup
  <2>2. /\ manifest[b].state # "absent"
        /\ q.moved \cup q.todo \subseteq manifest[b].listed
        /\ \A u \in Sample : place[u] = b => u \in q.moved
    BY <1>2, <2>1 DEF OwnFiles, Busy
  <2>3. Listed'
    BY <1>2, <1>9, <1>11, Numbers DEF RewriteInv, Kept, Listed
  <2>4. \A u \in Sample : place'[u] = b => u \in r.moved
    BY <1>3, <1>5, <1>9, <2>2, Numbers
  <2>5. OwnFiles(rewriter[w])'
    BY <1>2, <1>5, <2>2, <2>4 DEF OwnFiles, Moving
  <2>6. manifest[b].moved \subseteq manifest[b].listed
    BY <1>3, <1>11 DEF RewriteInv, Kept, ManifestsSound
  <2> QED
    BY <2>2, <2>3, <2>5, <2>6
<1>12. \A u \in Sample : place'[u] = place[u] \/ place'[u] \notin Backup \ {b}
  BY <1>9, Numbers
<1> QED
  BY <1>2, <1>3, <1>5, <1>6, <1>7, <1>8, <1>9, <1>10, <1>11, <1>12, Shapes, FilesSound

(* The backup of a child that remembers no move is empty.                  *)
LEMMA DiscardsSound ==
  ASSUME RewriteInv, NEW w \in Worker, UndoDiscards(w)
  PROVE  RewriteInv'
<1> PICK q : q = rewriter[w]
  OBVIOUS
<1> PICK b : b = q.backup
  OBVIOUS
<1>1. /\ child[w].pc = "work" /\ q.pc = "undo" /\ q.moved = {}
      /\ place' = [s \in Sample |-> IF place[s] = b THEN Gone ELSE place[s]]
      /\ manifest' = [manifest EXCEPT ![b] = Discarded]
      /\ rewriter' = [rewriter EXCEPT ![w] = NoRewrite]
      /\ ChildTo(w, "error")
      /\ UNCHANGED <<restorer, confirmed, raced, parent>>
  BY DEF UndoDiscards, Rewriting, AllPutBack, ChildEnds
<1>2. b \in Backup
  BY <1>1, Shapes DEF RowWarranted, Busy
<1>3. OneRow(w) /\ rewriter'[w] = NoRewrite
  BY <1>1, Shapes DEF OneRow
<1>4. NoRewrite.pc = "none" /\ NoRewrite.backup = 0
      /\ RewriterShape(NoRewrite) /\ RowWarranted(NoRewrite)
  BY Numbers DEF NoRewrite, RewriterShape, RewriterPc, RowWarranted, Early, Busy, Moving
<1>5. ChildGoesOn(w)
  BY <1>1, <1>3, <1>4 DEF ChildGoesOn
<1>6. /\ place' \in [Sample -> 0..Gone]
      /\ \A s \in Sample : place'[s] = IF place[s] = b THEN MaxBackup + 1 ELSE place[s]
  BY <1>1, Shapes, Numbers
<1>7. /\ manifest' \in [Backup -> Manifest]
      /\ \A c \in Backup \ {b} : manifest'[c] = manifest[c]
      /\ manifest'[b].listed = {} /\ manifest'[b].moved = {}
  <2>1. Discarded \in Manifest /\ Discarded.listed = {} /\ Discarded.moved = {}
    BY DEF Discarded, Manifest
  <2> QED
    BY <1>1, <1>2, <2>1, Shapes
<1>8. ASSUME raced = {}
      PROVE  Listed'
  <2>1. \A s \in Sample : place[s] # b
    BY <1>1, <1>2, <1>8, Numbers DEF RewriteInv, Kept, OwnBackup, OwnFiles
  <2> QED
    BY <1>6, <1>7, <1>8, <2>1 DEF RewriteInv, Kept, Listed
<1>9. \A s \in Sample : place'[s] = place[s] \/ place'[s] \notin Backup \ {b}
  <2>1. MaxBackup + 1 \notin Backup
    BY Numbers
  <2> QED
    BY <1>6, <2>1
<1>10. /\ NoRewrite.backup # b /\ NoRewrite.backup \in {0, b}
       /\ manifest'[b].listed \cup manifest'[b].moved \subseteq Excluded
       /\ manifest'[b].moved \subseteq manifest'[b].listed
       /\ rewriter[w].backup = b /\ UNCHANGED <<restorer, confirmed, raced>>
  BY <1>1, <1>2, <1>4, <1>7, Numbers
<1> QED
  BY <1>2, <1>3, <1>4, <1>5, <1>6, <1>7, <1>8, <1>9, <1>10, FilesSound

LEMMA StaleRestoresSound ==
  ASSUME RewriteInv, NEW w \in Worker, StaleRestores(w)
  PROVE  RewriteInv'
<1> PICK q : q = rewriter[w]
  OBVIOUS
<1> PICK b : b = q.backup
  OBVIOUS
<1>1. /\ child[w].pc = "work" /\ q.pc = "restore"
      /\ UNCHANGED <<manifest, restorer, confirmed, raced, parent>>
  BY DEF StaleRestores, Rewriting, Untouched, ChildEnds, prvars
<1>2. /\ b \in Backup /\ q.todo \cup q.moved \subseteq Excluded
      /\ q.todo \subseteq Sample /\ q.moved \subseteq Sample
  BY <1>1, Shapes DEF RowWarranted, RewriterShape, Busy, Moving
<1>3. /\ manifest[b].listed \cup manifest[b].moved \subseteq Excluded
      /\ raced = {} => /\ manifest[b].moved \subseteq manifest[b].listed
                       /\ manifest[b].state # "absent"
                       /\ q.moved \cup q.todo \subseteq manifest[b].listed
                       /\ Listed
  BY <1>1, <1>2, Numbers
     DEF RewriteInv, Warranted, Kept, ManifestsSound, OwnBackup, OwnFiles, Busy
<1>4. PICK s \in Sample :
        /\ s \in q.todo
        /\ \/ /\ place[s] = b
              /\ place' = [place EXCEPT ![s] = Source]
              /\ rewriter' = [rewriter EXCEPT ![w].todo = q.todo \ {s},
                                              ![w].moved = q.moved \cup {s}]
              /\ UNCHANGED child
           \/ /\ place[s] # b
              /\ place' = [u \in Sample |-> IF u \in q.moved /\ place[u] = Source
                                              THEN b ELSE place[u]]
              /\ ChildTo(w, "error")
              /\ rewriter' = [rewriter EXCEPT ![w] = NoRewrite]
  BY DEF StaleRestores, Rewriting, IsFirst, Untouched, ChildEnds, prvars
<1> PICK r : r = rewriter'[w]
  OBVIOUS
<1>5. CASE place[s] = b
  <2>1. /\ place' = [place EXCEPT ![s] = Source]
        /\ rewriter' = [rewriter EXCEPT ![w].todo = q.todo \ {s},
                                        ![w].moved = q.moved \cup {s}]
        /\ UNCHANGED child
    BY <1>4, <1>5
  <2>2. OneRow(w) /\ r = [q EXCEPT !.todo = q.todo \ {s}, !.moved = q.moved \cup {s}]
    BY <2>1, Shapes DEF OneRow
  <2>3. /\ DOMAIN r = {"pc", "config", "curated", "backup", "todo", "moved"}
        /\ r.pc = "restore" /\ r.backup = b
        /\ r.todo = q.todo \ {s} /\ r.moved = q.moved \cup {s}
    BY <1>1, <2>2, Shapes DEF RewriterShape
  <2>4. r.moved \cup r.todo = q.moved \cup q.todo
    BY <1>4, <2>3
  <2>5. ChildGoesOn(w)
    BY <1>1, <2>1, <2>2, <2>3 DEF ChildGoesOn
  <2>6. RewriterShape(r)
    BY <1>2, <2>3, Numbers DEF RewriterShape, RewriterPc, Busy
  <2>7. RowWarranted(r)
    BY <1>2, <2>3, <2>4 DEF RowWarranted, Early, Busy
  <2>8. /\ place' \in [Sample -> 0..Gone]
        /\ \A u \in Sample : place'[u] = IF u = s THEN 0 ELSE place[u]
    BY <2>1, Shapes, Numbers
  <2>9. ASSUME raced = {}
        PROVE  Listed' /\ OwnFiles(rewriter[w])'
    <3>1. Listed'
      BY <1>1, <1>3, <2>8, <2>9, Numbers DEF Listed
    <3>2. "restore" \notin Moving \cup {"undo"}
      BY DEF Moving
    <3> QED
      BY <1>1, <1>3, <2>3, <2>4, <2>9, <3>1, <3>2 DEF OwnFiles
  <2>10. \A u \in Sample : place'[u] = place[u] \/ place'[u] \notin Backup \ {b}
    <3>1. 0 \notin Backup
      BY Numbers
    <3> QED
      BY <2>8, <3>1
  <2> QED
    BY <1>1, <1>2, <1>3, <2>3, <2>5, <2>6, <2>7, <2>8, <2>9, <2>10, Shapes, FilesSound
<1>6. CASE place[s] # b
  <2>1. /\ place' = [u \in Sample |-> IF u \in q.moved /\ place[u] = Source
                                         THEN b ELSE place[u]]
        /\ ChildTo(w, "error")
        /\ rewriter' = [rewriter EXCEPT ![w] = NoRewrite]
    BY <1>4, <1>6
  <2>2. OneRow(w) /\ rewriter'[w] = NoRewrite
    BY <2>1, Shapes DEF OneRow
  <2>3. NoRewrite.pc = "none" /\ NoRewrite.backup = 0
        /\ RewriterShape(NoRewrite) /\ RowWarranted(NoRewrite)
    BY Numbers DEF NoRewrite, RewriterShape, RewriterPc, RowWarranted, Early, Busy, Moving
  <2>4. ChildGoesOn(w)
    BY <1>1, <2>1, <2>2, <2>3 DEF ChildGoesOn
  <2>5. /\ place' \in [Sample -> 0..Gone]
        /\ \A u \in Sample : place'[u] = IF u \in q.moved /\ place[u] = 0
                                          THEN b ELSE place[u]
    BY <1>2, <2>1, Shapes, Numbers
  <2>6. ASSUME raced = {}
        PROVE  Listed'
    BY <1>1, <1>2, <1>3, <2>5, <2>6, Numbers DEF Listed
  <2>7. \A u \in Sample : place'[u] = place[u] \/ place'[u] \notin Backup \ {b}
    BY <2>5
  <2> QED
    <3>1. NoRewrite.backup # b /\ NoRewrite.backup \in {0, b}
      BY <1>2, <2>3, Numbers
    <3>2. manifest' \in [Backup -> Manifest]
      BY <1>1, Shapes
    <3> QED
      BY <1>1, <1>2, <1>3, <2>2, <2>3, <2>4, <2>5, <2>6, <2>7, <3>1, <3>2, FilesSound
<1> QED
  BY <1>5, <1>6

LEMMA StaleRestoredSound ==
  ASSUME RewriteInv, NEW w \in Worker, StaleRestored(w)
  PROVE  RewriteInv'
<1> PICK q : q = rewriter[w]
  OBVIOUS
<1> PICK b : b = q.backup
  OBVIOUS
<1>1. /\ child[w].pc = "work" /\ q.pc = "restore"
      /\ manifest' = [manifest EXCEPT ![b].state = "restored", ![b].moved = q.moved]
      /\ rewriter' = [rewriter EXCEPT ![w] = NoRewrite]
      /\ ChildTo(w, "error")
      /\ UNCHANGED <<place, restorer, confirmed, raced, parent>>
  BY DEF StaleRestored, Rewriting, ChildEnds
<1>2. /\ b \in Backup /\ q.todo \cup q.moved \subseteq Excluded
      /\ q.todo \subseteq Sample /\ q.moved \subseteq Sample
  BY <1>1, Shapes DEF RowWarranted, RewriterShape, Busy, Moving
<1>3. OneRow(w) /\ rewriter'[w] = NoRewrite
  BY <1>1, Shapes DEF OneRow
<1>4. NoRewrite.pc = "none" /\ NoRewrite.backup = 0
      /\ RewriterShape(NoRewrite) /\ RowWarranted(NoRewrite)
  BY Numbers DEF NoRewrite, RewriterShape, RewriterPc, RowWarranted, Early, Busy, Moving
<1>5. ChildGoesOn(w)
  BY <1>1, <1>3, <1>4 DEF ChildGoesOn
<1>6. /\ manifest' \in [Backup -> Manifest]
      /\ \A c \in Backup \ {b} : manifest'[c] = manifest[c]
      /\ manifest'[b].state = "restored" /\ manifest'[b].moved = q.moved
      /\ manifest'[b].listed = manifest[b].listed
  <2>1. manifest[b] \in Manifest
    BY <1>2, Shapes
  <2> PICK m : m = [manifest[b] EXCEPT !.state = "restored", !.moved = q.moved]
    OBVIOUS
  <2>2. /\ m \in Manifest /\ m.state = "restored" /\ m.moved = q.moved
        /\ m.listed = manifest[b].listed
    BY <1>2, <2>1 DEF Manifest
  <2>3. /\ DOMAIN manifest' = Backup /\ manifest'[b] = m
        /\ \A c \in Backup \ {b} : manifest'[c] = manifest[c]
    BY <1>1, <1>2, Shapes
  <2>4. manifest' \in [Backup -> Manifest]
    BY <1>1, <1>2, <2>2, Shapes
  <2> QED
    BY <2>2, <2>3, <2>4
<1>7. manifest[b].listed \subseteq Excluded
  BY <1>2 DEF RewriteInv, Warranted
<1>8. ASSUME raced = {}
      PROVE  Listed' /\ q.moved \subseteq manifest[b].listed
  <2>1. Listed /\ OwnFiles(q)
    BY <1>2, <1>8, Numbers DEF RewriteInv, Kept, OwnBackup
  <2>2. \A c \in Backup : manifest'[c].listed = manifest[c].listed
    BY <1>6
  <2>3. Listed'
    BY <1>1, <2>1, <2>2 DEF Listed
  <2> QED
    BY <1>1, <2>1, <2>3 DEF OwnFiles, Busy
<1> QED
  <2>1. NoRewrite.backup # b /\ NoRewrite.backup \in {0, b}
    BY <1>2, <1>4, Numbers
  <2>2. /\ place' \in [Sample -> 0..Gone]
        /\ \A s \in Sample : place'[s] = place[s]
    BY <1>1, Shapes
  <2>3. /\ manifest'[b].listed \cup manifest'[b].moved \subseteq Excluded
        /\ manifest'[b].state # "absent"
    BY <1>2, <1>6, <1>7
  <2>4. raced = {} => Listed' /\ manifest'[b].moved \subseteq manifest'[b].listed
    BY <1>6, <1>8
  <2>5. rewriter[w].backup = b /\ UNCHANGED <<restorer, confirmed, raced>>
    BY <1>1
  <2> QED
    BY <1>2, <1>3, <1>4, <1>5, <1>6, <2>1, <2>2, <2>3, <2>4, <2>5, FilesSound

LEMMA RewriterSound ==
  ASSUME RewriteInv, NEW w \in Worker, RewriteStep(w) \/ RewriteFails(w)
  PROVE  RewriteInv'
BY StartsSound, LoadsSound, ChecksSound, MovesSound, RecordsSound, UndoSound,
   DiscardsSound, ReadsSound, CommitsSound, IsStaleSound, StaleRestoresSound,
   StaleRestoredSound, FailsSound
   DEF RewriteStep

-----------------------------------------------------------------------------
(* The backend, which may end any child, and the API.                      *)

LEMMA BackendStepSound ==
  ASSUME RewriteInv, BackendStep
  PROVE  RewriteInv'
<1>1. ThreadInv' /\ ChildChange
  BY BackendSound DEF RewriteInv, BackendStep
<1>2. UNCHANGED <<place, manifest, restorer, confirmed, raced>>
  BY DEF BackendStep
<1>3. /\ DOMAIN rewriter' = Worker
      /\ \A w \in Worker : rewriter'[w] = IF child'[w].pc = "none" THEN NoRewrite
                                                                   ELSE rewriter[w]
  BY DEF BackendStep
<1>4. NoRewrite.pc = "none" /\ NoRewrite.backup = 0
      /\ RewriterShape(NoRewrite) /\ RowWarranted(NoRewrite)
  BY Numbers DEF NoRewrite, RewriterShape, RewriterPc, RowWarranted, Early, Busy, Moving
<1>5. FilesTyped'
  BY <1>2, <1>3, <1>4 DEF RewriteInv, FilesTyped, RewriterShape
<1>6. RewriterAlive'
  BY <1>1, <1>3, <1>4 DEF RewriteInv, RewriterAlive, ChildChange
<1>7. Warranted'
  <2>1. Excluded' = Excluded
    BY <1>2 DEF Excluded
  <2>2. \A w \in Worker : RowWarranted(rewriter'[w])
    BY <1>3, <1>4 DEF RewriteInv, Warranted
  <2>3. \A w \in Worker : RowWarranted(rewriter[w])'
    BY <2>1, <2>2 DEF RowWarranted
  <2> QED
    BY <1>2, <2>1, <2>3 DEF RewriteInv, Warranted
<1>8. ASSUME raced = {}
      PROVE  Kept'
  <2>1. Listed' /\ ManifestsSound' /\ RestoreSound'
    BY <1>2, <1>8 DEF RewriteInv, Kept, Listed, ManifestsSound, RestoreSound
  <2>2. ASSUME NEW w \in Worker
        PROVE  OwnBackup(w)'
    <3>1. CASE child'[w].pc = "none"
      BY <1>3, <1>4, <3>1 DEF OwnBackup
    <3>2. CASE child'[w].pc # "none"
      <4>1. rewriter'[w] = rewriter[w] /\ OwnBackup(w)
        BY <1>3, <1>8, <3>2 DEF RewriteInv, Kept
      <4>2. \A v \in Worker : rewriter'[v].backup \in {0, rewriter[v].backup}
        BY <1>3, <1>4
      <4> QED
        BY <1>2, <4>1, <4>2 DEF OwnBackup, OwnFiles
    <3> QED
      BY <3>1, <3>2
  <2> QED
    BY <2>1, <2>2 DEF Kept
<1> QED
  BY <1>1, <1>2, <1>5, <1>6, <1>7, <1>8 DEF RewriteInv

(* Steps beside the child and its thread.                                  *)
LEMMA BesideSound ==
  ASSUME RewriteInv, UNCHANGED <<parent, child, rewriter>>
  PROVE  ThreadInv' /\ RewriterAlive'
BY DEF RewriteInv, ThreadInv, RewriterAlive

LEMMA QuietSound ==
  ASSUME RewriteInv, UNCHANGED <<parent, child, rwvars>>
  PROVE  RewriteInv'
<1>1. UNCHANGED <<parent, child, place, manifest, rewriter, restorer, confirmed, raced>>
  BY DEF rwvars, filevars
<1>2. FilesTyped'
  BY <1>1 DEF RewriteInv, FilesTyped, RewriterShape
<1>3. Excluded' = Excluded
  BY <1>1 DEF Excluded
<1>4. Warranted'
  BY <1>1, <1>3 DEF RewriteInv, Warranted, RowWarranted
<1>5. Kept' <=> Kept
  BY <1>1 DEF Kept, Listed, ManifestsSound, OwnBackup, OwnFiles, RestoreSound
<1> QED
  BY <1>1, <1>2, <1>4, <1>5, BesideSound DEF RewriteInv

LEMMA ConfirmSound ==
  ASSUME RewriteInv, ConfirmRewrite
  PROVE  RewriteInv'
<1>1. /\ UNCHANGED <<parent, child, place, manifest, rewriter, restorer, raced>>
      /\ confirmed \subseteq confirmed'
  BY DEF ConfirmRewrite, allvars, prvars, filevars
<1>2. FilesTyped'
  BY <1>1 DEF RewriteInv, FilesTyped, RewriterShape
<1>3. Excluded \subseteq Excluded'
  BY <1>1 DEF Excluded
<1>4. Warranted'
  <2>1. \A w \in Worker : RowWarranted(rewriter[w])'
    BY <1>1, <1>3 DEF RewriteInv, Warranted, RowWarranted
  <2> QED
    BY <1>1, <1>3, <2>1 DEF RewriteInv, Warranted
<1>5. Kept' <=> Kept
  BY <1>1 DEF Kept, Listed, ManifestsSound, OwnBackup, OwnFiles, RestoreSound
<1> QED
  BY <1>1, <1>2, <1>4, <1>5, BesideSound DEF RewriteInv

LEMMA BeginSound ==
  ASSUME RewriteInv, BeginRestore
  PROVE  RewriteInv'
<1>1. UNCHANGED <<parent, child, place, manifest, rewriter, confirmed>>
  BY DEF BeginRestore, allvars, prvars
<1>2. PICK b \in Backup :
        /\ manifest[b].state = "active"
        /\ restorer' = [backup |-> b, todo |-> manifest[b].moved,
                        read |-> manifest[b].moved]
        /\ raced' = IF \E w \in Worker : rewriter[w].backup = b
                      THEN raced \cup {b} ELSE raced
  BY DEF BeginRestore, NewestActive
<1>3. manifest[b].moved \subseteq Sample
  BY DEF RewriteInv, FilesTyped, Manifest
<1>4. b \in 0..MaxBackup /\ b # 0
  BY Numbers
<1>5. FilesTyped'
  BY <1>1, <1>2, <1>3, <1>4 DEF RewriteInv, FilesTyped, RewriterShape
<1>6. Excluded' = Excluded
  BY <1>1 DEF Excluded
<1>7. Warranted'
  <2>1. \A w \in Worker : RowWarranted(rewriter[w])'
    BY <1>1, <1>6 DEF RewriteInv, Warranted, RowWarranted
  <2>2. restorer'.read \subseteq Excluded
    BY <1>2 DEF RewriteInv, Warranted
  <2> QED
    BY <1>1, <1>6, <2>1, <2>2 DEF RewriteInv, Warranted
<1>8. ASSUME raced' = {}
      PROVE  Kept'
  <2>1. raced = {} /\ \A w \in Worker : rewriter[w].backup # b
    BY <1>2, <1>8
  <2>2. Kept
    BY <2>1 DEF RewriteInv
  <2>3. Listed' /\ ManifestsSound'
    BY <1>1, <2>2 DEF Kept, Listed, ManifestsSound
  <2>4. \A w \in Worker : OwnBackup(w)'
    BY <1>1, <1>2, <2>1, <2>2 DEF Kept, OwnBackup, OwnFiles
  <2>5. RestoreSound'
    BY <1>1, <1>2, <2>2 DEF Kept, ManifestsSound, RestoreSound
  <2> QED
    BY <2>3, <2>4, <2>5 DEF Kept
<1> QED
  BY <1>1, <1>5, <1>7, <1>8, BesideSound DEF RewriteInv

LEMMA RestoreMoveSound ==
  ASSUME RewriteInv, RestoreMove
  PROVE  RewriteInv'
<1> PICK b : b = restorer.backup
  OBVIOUS
<1>1. UNCHANGED <<parent, child, manifest, rewriter, confirmed, raced>>
  BY DEF RestoreMove, allvars, prvars
<1>2. PICK s \in Sample :
        /\ s \in restorer.todo
        /\ \/ /\ place' = [place EXCEPT ![s] = Source]
              /\ restorer' = [restorer EXCEPT !.todo = @ \ {s}]
           \/ /\ place' = [u \in Sample |->
                   IF u \in restorer.read \ restorer.todo /\ place[u] = Source
                     THEN b ELSE place[u]]
              /\ restorer' = NoRestore
  BY DEF RestoreMove, IsFirst
<1>3. b # 0 /\ b \in Backup /\ b \in 0..MaxBackup
  <2>1. restorer # NoRestore
    BY <1>2 DEF NoRestore
  <2> QED
    BY <2>1, Numbers DEF RewriteInv, FilesTyped
<1>4. /\ restorer' \in [backup : 0..MaxBackup, todo : SUBSET Sample, read : SUBSET Sample]
      /\ restorer'.backup = 0 => restorer' = NoRestore
      /\ restorer'.backup \in {0, b}
      /\ restorer'.read \subseteq restorer.read
  <2>1. CASE restorer' = [restorer EXCEPT !.todo = @ \ {s}]
    BY <1>3, <2>1 DEF RewriteInv, FilesTyped
  <2>2. CASE restorer' = NoRestore
    BY <2>2, Numbers DEF NoRestore
  <2> QED
    BY <1>2, <2>1, <2>2
<1>5. /\ place' \in [Sample -> 0..Gone]
      /\ \A u \in Sample : \/ place'[u] \in {0, place[u]}
                           \/ place'[u] = b /\ u \in restorer.read
  <2>1. CASE place' = [place EXCEPT ![s] = Source]
    BY <2>1, Numbers DEF RewriteInv, FilesTyped
  <2>2. CASE place' = [u \in Sample |->
                         IF u \in restorer.read \ restorer.todo /\ place[u] = Source
                           THEN b ELSE place[u]]
    BY <1>3, <2>2, Numbers DEF RewriteInv, FilesTyped
  <2> QED
    BY <1>2, <2>1, <2>2
<1>6. FilesTyped'
  BY <1>1, <1>4, <1>5 DEF RewriteInv, FilesTyped, RewriterShape
<1>7. Excluded' = Excluded
  BY <1>1 DEF Excluded
<1>8. Warranted'
  <2>1. \A w \in Worker : RowWarranted(rewriter[w])'
    BY <1>1, <1>7 DEF RewriteInv, Warranted, RowWarranted
  <2> QED
    BY <1>1, <1>4, <1>7, <2>1 DEF RewriteInv, Warranted
<1>9. ASSUME raced = {}
      PROVE  Kept'
  <2>1. Kept
    BY <1>9 DEF RewriteInv
  <2>2. restorer.read \subseteq manifest[b].listed /\ manifest[b].state # "absent"
    BY <1>3, <2>1 DEF Kept, RestoreSound
  <2>3. Listed'
    BY <1>1, <1>3, <1>5, <2>1, <2>2, Numbers DEF Kept, Listed
  <2>4. ManifestsSound'
    BY <1>1, <2>1 DEF Kept, ManifestsSound
  <2>5. ASSUME NEW w \in Worker, rewriter[w].backup # 0
        PROVE  OwnBackup(w)'
    <3>1. OwnBackup(w) /\ rewriter[w].backup # b
      BY <2>1, <2>5 DEF Kept, OwnBackup
    <3>2. \A u \in Sample : place'[u] = rewriter[w].backup => place[u] = rewriter[w].backup
      BY <1>5, <2>5, <3>1
    <3>3. OwnFiles(rewriter[w])'
      BY <1>1, <2>5, <3>1, <3>2 DEF OwnBackup, OwnFiles
    <3> QED
      BY <1>1, <1>4, <2>5, <3>1, <3>3 DEF OwnBackup
  <2>6. \A w \in Worker : OwnBackup(w)'
    BY <1>1, <2>5 DEF OwnBackup
  <2>7. RestoreSound'
    BY <1>1, <1>4, <2>2 DEF RestoreSound
  <2> QED
    BY <2>3, <2>4, <2>6, <2>7 DEF Kept
<1> QED
  BY <1>1, <1>6, <1>8, <1>9, BesideSound DEF RewriteInv

LEMMA RestoreWriteSound ==
  ASSUME RewriteInv, RestoreWrite
  PROVE  RewriteInv'
<1> PICK b : b = restorer.backup
  OBVIOUS
<1>1. /\ UNCHANGED <<parent, child, place, rewriter, confirmed, raced>>
      /\ restorer' = NoRestore /\ b # 0
  BY DEF RestoreWrite, allvars, prvars
<1>2. b \in Backup
  BY <1>1, Numbers DEF RewriteInv, FilesTyped
<1>3. restorer.read \subseteq Sample /\ restorer.read \subseteq Excluded
  BY DEF RewriteInv, FilesTyped, Warranted
<1>4. manifest[b] \in Manifest /\ manifest \in [Backup -> Manifest]
  BY <1>2 DEF RewriteInv, FilesTyped
<1>5. PICK m \in Manifest :
        /\ m.listed = manifest[b].listed
        /\ m.state = "absent" => manifest[b].state = "absent"
        /\ m.moved \in {manifest[b].moved, restorer.read}
        /\ manifest' = [manifest EXCEPT ![b] = m]
  <2>1. CASE manifest[b].state = "discarded"
    <3>1. manifest' = manifest
      BY <2>1 DEF RestoreWrite
    <3>2. manifest' = [manifest EXCEPT ![b] = manifest[b]]
      BY <1>2, <1>4, <3>1
    <3> QED
      BY <1>4, <3>2
  <2>2. CASE manifest[b].state # "discarded"
    <3> PICK m : m = [manifest[b] EXCEPT !.state = "restored", !.moved = restorer.read]
      OBVIOUS
    <3>1. /\ m \in Manifest /\ m.state = "restored" /\ m.moved = restorer.read
          /\ m.listed = manifest[b].listed
      BY <1>3, <1>4 DEF Manifest
    <3>2. manifest' = [manifest EXCEPT ![b].state = "restored", ![b].moved = restorer.read]
      BY <2>2 DEF RestoreWrite
    <3>3. manifest' = [manifest EXCEPT ![b] = m]
      BY <1>2, <1>4, <3>2
    <3> QED
      BY <2>2, <3>1, <3>3
  <2> QED
    BY <2>1, <2>2
<1>6. /\ manifest' \in [Backup -> Manifest] /\ manifest'[b] = m
      /\ \A c \in Backup \ {b} : manifest'[c] = manifest[c]
  BY <1>2, <1>4, <1>5
<1>7. \A c \in Backup :
        /\ manifest'[c].listed = manifest[c].listed
        /\ manifest'[c].state = "absent" => manifest[c].state = "absent"
        /\ manifest'[c].moved \in {manifest[c].moved, restorer.read}
        /\ manifest'[c].moved # manifest[c].moved => c = b
  <2>1. \A c \in Backup : c = b \/ manifest'[c] = manifest[c]
    BY <1>6
  <2> QED
    BY <1>5, <1>6, <2>1
<1>8. FilesTyped'
  <2>1. NoRestore \in [backup : 0..MaxBackup, todo : SUBSET Sample, read : SUBSET Sample]
    BY Numbers DEF NoRestore
  <2> QED
    BY <1>1, <1>6, <2>1 DEF RewriteInv, FilesTyped, RewriterShape
<1>9. Excluded' = Excluded
  BY <1>1 DEF Excluded
<1>10. Warranted'
  <2>1. \A w \in Worker : RowWarranted(rewriter[w])'
    BY <1>1, <1>9 DEF RewriteInv, Warranted, RowWarranted
  <2>2. \A c \in Backup : manifest'[c].listed \cup manifest'[c].moved \subseteq Excluded
    BY <1>3, <1>7 DEF RewriteInv, Warranted
  <2>3. restorer'.read \subseteq Excluded
    BY <1>1 DEF NoRestore
  <2> QED
    BY <1>9, <2>1, <2>2, <2>3 DEF Warranted
<1>11. ASSUME raced = {}
      PROVE  Kept'
  <2>1. Kept /\ restorer.read \subseteq manifest[b].listed
    BY <1>1, <1>11 DEF RewriteInv, Kept, RestoreSound
  <2>2. Listed'
    BY <1>1, <1>7, <2>1 DEF Kept, Listed
  <2>3. ManifestsSound'
    BY <1>7, <2>1 DEF Kept, ManifestsSound
  <2>4. RestoreSound'
    BY <1>1 DEF RestoreSound, NoRestore
  <2>5. ASSUME NEW w \in Worker
        PROVE  OwnBackup(w)'
    <3>1. rewriter[w].backup # 0 => rewriter[w].backup \in Backup
      BY Numbers DEF RewriteInv, FilesTyped, RewriterShape
    <3>2. OwnBackup(w)
      BY <2>1 DEF Kept
    <3>3. NoRestore.backup = 0
      BY DEF NoRestore
    <3> QED
      BY <1>1, <1>7, <3>1, <3>2, <3>3 DEF OwnBackup, OwnFiles
  <2> QED
    BY <2>2, <2>3, <2>4, <2>5 DEF Kept
<1> QED
  BY <1>1, <1>8, <1>10, <1>11, BesideSound DEF RewriteInv

LEMMA ReviewApiSound ==
  ASSUME RewriteInv, ReviewApi
  PROVE  RewriteInv'
<1>1. CASE ConfirmRewrite
  BY <1>1, ConfirmSound
<1>2. CASE BeginRestore
  BY <1>2, BeginSound
<1>3. CASE RestoreMove
  BY <1>3, RestoreMoveSound
<1>4. CASE RestoreWrite
  BY <1>4, RestoreWriteSound
<1>5. CASE SwitchConfig
  BY <1>5, QuietSound DEF SwitchConfig
<1>6. CASE LateDecision
  BY <1>6, QuietSound DEF LateDecision, allvars, prvars
<1>7. CASE UNCHANGED <<prvars, reviewvars, rwvars>>
  BY <1>7, QuietSound DEF prvars
<1> QED
  BY <1>1, <1>2, <1>3, <1>4, <1>5, <1>6, <1>7 DEF ReviewApi

LEMMA StepSound ==
  ASSUME RewriteInv, [RewriteNext]_rxvars
  PROVE  RewriteInv'
<1>1. CASE UNCHANGED rxvars
  BY <1>1, QuietSound DEF rxvars, allvars, prvars
<1> QED
  BY <1>1, BackendStepSound, RewriterSound, ReviewApiSound DEF RewriteNext

LEMMA RewriteInvariance == RewriteSpec => []RewriteInv
BY RewriteInvInit, StepSound, PTL DEF RewriteSpec

-----------------------------------------------------------------------------
(* The theorems.                                                           *)

(* No image is lost, for any number of samples, attempts and backends,     *)
(* wherever a child is killed, fails or finds its token stale.             *)
THEOREM NoImageLost == RewriteSpec => []FilesAccounted
<1>1. RewriteInv => FilesAccounted
  BY DEF RewriteInv, Kept, Listed, FilesAccounted
<1> QED
  BY <1>1, RewriteInvariance, PTL

(* What leaves the source folder was excluded by a preview that somebody   *)
(* confirmed under the same config, whatever the child, a failing undo or  *)
(* a restore does.                                                         *)
THEOREM LeavingIsConfirmed == RewriteSpec => OnlyConfirmedLeave
<1> DEFINE Leaves ==
      \A s \in Sample :
        (place[s] = Source /\ place'[s] # Source) =>
          \E e \in confirmed : e.config = e.digest.config /\ s \notin e.digest.curated
<1>1. ASSUME RewriteInv, NEW s \in Sample, place[s] = 0, place'[s] # 0,
             RewriteNext
      PROVE  s \in Excluded
  <2>1. CASE \E w \in Worker : RewriteMoves(w)
    <3>1. PICK w \in Worker : RewriteMoves(w)
      BY <2>1
    <3>2. rewriter[w].pc = "move" /\ s \in rewriter[w].todo
      BY <1>1, <3>1, Shapes DEF RewriteMoves, Rewriting, IsFirst
    <3> QED
      BY <1>1, <3>2, Shapes DEF RowWarranted, Busy, Moving
  <2>2. CASE \E w \in Worker : StaleRestores(w)
    <3>1. PICK w \in Worker : StaleRestores(w)
      BY <2>2
    <3>2. rewriter[w].pc = "restore" /\ s \in rewriter[w].moved
      BY <1>1, <3>1, Shapes, Numbers DEF StaleRestores, Rewriting
    <3> QED
      BY <1>1, <3>2, Shapes DEF RowWarranted, Busy
  <2>3. CASE RestoreMove
    <3>1. s \in restorer.read
      BY <1>1, <2>3, Numbers DEF RestoreMove, RewriteInv, FilesTyped
    <3> QED
      BY <1>1, <3>1 DEF RewriteInv, Warranted
  <2>4. CASE \E w \in Worker : UndoMoves(w) \/ UndoDiscards(w)
    <3>1. PICK w \in Worker : UndoMoves(w) \/ UndoDiscards(w)
      BY <2>4
    <3>2. rewriter[w].backup # 0
      BY <1>1, <3>1, Shapes, Numbers
         DEF UndoMoves, UndoDiscards, Rewriting, RowWarranted, Busy
    <3> QED
      BY <1>1, <3>1, <3>2, Shapes, Numbers DEF UndoMoves, UndoDiscards
  <2>5. CASE UNCHANGED place
    BY <1>1, <2>5
  <2>6. BackendStep => UNCHANGED place
    BY DEF BackendStep
  <2>7. \A w \in Worker : RewriteFails(w) => UNCHANGED place
    BY DEF RewriteFails
  <2>8. ASSUME NEW w \in Worker, RewriteStep(w)
        PROVE  \/ RewriteMoves(w) \/ StaleRestores(w) \/ UndoMoves(w) \/ UndoDiscards(w)
               \/ UNCHANGED place
    BY <2>8 DEF RewriteStep, RewriteStarts, RewriteLoads, RewriteChecks, RewriteRecords,
         RewriteReads, RewriteCommits, RewriteIsStale, StaleRestored, Raises
  <2>9. ReviewApi => RestoreMove \/ UNCHANGED place
    BY DEF ReviewApi, SwitchConfig, LateDecision, ConfirmRewrite, BeginRestore, RestoreWrite,
         rwvars, filevars
  <2> QED
    BY <1>1, <2>1, <2>2, <2>3, <2>4, <2>5, <2>6, <2>7, <2>8, <2>9 DEF RewriteNext
<1>2. ASSUME RewriteInv, [RewriteNext]_rxvars
      PROVE  Leaves
  <2> SUFFICES ASSUME NEW s \in Sample, place[s] = 0, place'[s] # 0
               PROVE  \E e \in confirmed : e.config = e.digest.config
                                           /\ s \notin e.digest.curated
    BY Numbers
  <2>1. ~UNCHANGED rxvars
    BY DEF rxvars, rwvars, filevars
  <2>2. s \in Excluded
    BY <1>1, <1>2, <2>1
  <2> QED
    BY <2>2 DEF Excluded
<1>3. RewriteInv /\ [RewriteNext]_rxvars => [Leaves]_rxvars
  BY <1>2
<1> QED
  BY <1>3, RewriteInvariance, PTL DEF RewriteSpec, OnlyConfirmedLeave

-----------------------------------------------------------------------------
(* What a completed rewrite leaves behind.                                 *)

Filling == {"move", "record", "read", "commit"}
Placing == Filling \cup {"check"}

(* The thread's task keeps the config of the claim while it is active, the *)
(* slot is the thread's or nobody's, and its child works on what the thread*)
(* waits for.  A component counts as done only when it said so.            *)
ThreadKnows ==
  /\ Carrying =>
       /\ status \in ActiveStatus => task[T].config = parent.config
       /\ lease.live => lease.owner = Owner
       /\ child[Owner].pc # "none" => /\ child[Owner].config = parent.config
                                      /\ child[Owner].phase = parent.phase
       /\ rewriter[Owner].pc # "none" => rewriter[Owner].config = parent.config
  /\ parent.pc = "result" => parent.msg \in {"complete", "returned", "forced", "error"}
  /\ parent.pc = "record" /\ parent.seen = parent.phase => parent.msg = "complete"
  /\ parent.pc = "finalize" => parent.msg = "complete"
  /\ Rewritten => ~Carrying /\ child[Owner].pc = "none"

(* What a child has moved or will move is what it was confirmed to exclude.*)
RowKnows(w, r) ==
  /\ r.pc # "none" => child[w].phase = "exporting"
  /\ r.backup = 0 => r.pc \notin Busy /\ r.moved = {}
  /\ r.pc \in Filling => /\ Confirmed(r.config, r.curated)
                         /\ Sample \ r.curated = r.moved \cup r.todo
  /\ r.pc \in {"read", "commit"} => r.todo = {}
  /\ r.curated \subseteq Sample

(* Backups are numbered in the order they are made.                        *)
InOrder ==
  \A n \in Backup : \A m \in 1..n :
    manifest[m].state = "absent" => manifest[n].state = "absent"

Unrecalled == ~recalled => raced = {} /\ restorer = NoRestore

(* A child's backup holds exactly what the child has moved, or has still to*)
(* put back.                                                               *)
Holding(r) ==
  r.backup # 0 =>
    /\ r.pc \in Filling => /\ manifest[r.backup].state = "active"
                           /\ \A s \in Sample : place[s] = r.backup <=> s \in r.moved
    /\ r.pc \in Filling \ {"record"} => manifest[r.backup].moved = r.moved
    /\ r.pc = "restore" => \A s \in Sample : place[s] = r.backup <=> s \in r.todo

RestoreExact == \A s \in restorer.todo : place[s] = restorer.backup

(* Every file is in the source folder or in backup b, and what is newer    *)
(* than b, or holds a file beside b, is some child's that is at it.        *)
Around(b) ==
  /\ \A s \in Sample : place[s] \in {Source, b} \cup {rewriter[w].backup : w \in Worker}
  /\ b # 0 => \A n \in Backup : (n > b /\ manifest[n].state = "active") =>
                 \E w \in Worker : rewriter[w].backup = n

(* Nobody is at b any more, unless it is being restored.                   *)
Settled(b) ==
  /\ Around(b)
  /\ b # 0 =>
       /\ \A w \in Worker : rewriter[w].backup # b
       /\ IF restorer.backup = b
            THEN \A s \in Sample : place[s] = b <=> s \in restorer.todo
            ELSE /\ manifest[b].state = "active"
                 /\ \A s \in Sample : place[s] = b <=> s \in manifest[b].moved

(* Backup b, or nothing if it is 0, is what a preview of c excludes.       *)
Taken(b, c) ==
  \E e \in confirmed :
    /\ e.config = c /\ e.digest.config = c /\ e.digest.curated \subseteq Sample
    /\ \A s \in Sample : s \notin e.digest.curated <=> b # 0 /\ place[s] = b

(* The thread's child has committed its rewrite.                           *)
Finished ==
  /\ Carrying
  /\ parent.phase = "exporting"
  /\ \/ child[Owner].pc = "complete"
     \/ parent.pc \in {"result", "record", "finalize"} /\ parent.msg = "complete"

Outcome ==
  /\ Carrying /\ rewriter[Owner].pc \in Placing => Around(rewriter[Owner].backup)
  /\ Finished => \E b \in 0..MaxBackup :
                   Settled(b) /\ (recalled \/ Taken(b, parent.config))
  /\ Rewritten => \E b \in 0..MaxBackup : Settled(b)

Exact ==
  /\ InOrder
  /\ \A w \in Worker : Holding(rewriter[w])
  /\ RestoreExact
  /\ Outcome

(* The two properties are not inductive: that a completed rewrite did what *)
(* was confirmed rests on what its child found when it began, on what every*)
(* other child may do meanwhile, and on the thread's taking no other       *)
(* child's work for that of its own.                                       *)
OutcomeInv ==
  /\ PhaseInv
  /\ RewriteInv
  /\ ThreadKnows
  /\ \A w \in Worker : RowKnows(w, rewriter[w])
  /\ Unrecalled
  /\ raced = {} => Exact

-----------------------------------------------------------------------------
(* The thread and the slot, under the rewrite's children and requests.     *)

LEMMA PhasesFinite == IsFiniteSet(WORKER_PHASES)
<1>1. ASSUME NEW S, NEW x, IsFiniteSet(S) PROVE IsFiniteSet({x} \cup S)
  <2>1. IsFiniteSet(S \cup {x})
    BY <1>1, FS_AddElement
  <2>2. S \cup {x} = {x} \cup S
    OBVIOUS
  <2> QED
    BY <2>1, <2>2
<1>2. PICK S : S = {"exporting"}
  OBVIOUS
<1>3. IsFiniteSet(S)
  BY <1>2, FS_Singleton
<1>4. IsFiniteSet({"cpu_metrics"} \cup ({"model_scoring"} \cup ({"style_analysis"}
                    \cup ({"semantic_clustering"} \cup S))))
  BY <1>1, <1>3
<1>5. IsFiniteSet({"scanning"} \cup ({"cpu_metrics"} \cup ({"model_scoring"}
                    \cup ({"style_analysis"} \cup ({"semantic_clustering"} \cup S)))))
  BY <1>1, <1>4
<1>6. WORKER_PHASES = {"scanning"} \cup ({"cpu_metrics"} \cup ({"model_scoring"}
                    \cup ({"style_analysis"} \cup ({"semantic_clustering"} \cup S))))
  BY <1>2 DEF WORKER_PHASES
<1> QED
  BY <1>5, <1>6

LEMMA PassedPhases ==
  ASSUME NEW p
  PROVE  PhasesBefore(p) \subseteq WORKER_PHASES /\ Cardinality(PhasesBefore(p)) \in Nat
<1>1. PhasesBefore(p) \subseteq WORKER_PHASES
  BY DEF PhasesBefore, WORKER_PHASES
<1> QED
  BY <1>1, PhasesFinite, FS_Subset, FS_CardinalityType

LEMMA GateInv == ASSUME RewriteInit PROVE PhaseInv
<1>1. PICK c \in Config : AtReviewGate(c)
  BY DEF RewriteInit
<1>2. /\ child = [w \in Worker |-> NoChild]
      /\ \E w \in Worker : (\A v \in Worker : w <= v) /\ parent = ParentAt(w, "loop")
  BY DEF RewriteInit
<1>3. /\ Owner \in Worker /\ \A v \in Worker : Owner <= v
      /\ parent \in ParentType /\ parent.pc = "loop"
  BY <1>2, TheTask DEF ParentAt, ParentType, ParentPc, Owner
<1>4. /\ lease = NoLease /\ worker = [w \in Worker |-> Idle]
      /\ run = [r \in Run |-> [status |-> "absent", epoch |-> 0]]
  BY <1>1 DEF AtReviewGate
<1>5. /\ task \in [Task -> TaskRow]
      /\ \A t \in Task : /\ task[t].status = "evidence_review"
                         /\ task[t].resume = None /\ task[t].config = c
  <2>1. Cardinality(PhasesBefore("exporting")) \in Nat
    BY PassedPhases
  <2> QED
    BY <1>1, <2>1 DEF AtReviewGate, TaskRow, TaskStatus
<1>6. ckpt \subseteq CheckpointRow /\ \A k \in ckpt : k.items <= NItems
  <2>1. ASSUME NEW t \in Task, NEW p \in PhasesBefore("exporting"), NEW items \in {NItems} \ {0},
               NEW k,
               k = [task |-> t, phase |-> p, config |-> c, batch |-> items - 1,
                    items |-> items, epoch |-> Cardinality(PhasesBefore(p)) + 1]
        PROVE  k \in CheckpointRow /\ k.items <= NItems
    <3>1. items - 1 \in Nat /\ items \in Nat /\ items <= NItems
      BY TheTask
    <3>2. p \in WORKER_PHASES /\ Cardinality(PhasesBefore(p)) \in Nat
      BY PassedPhases
    <3> QED
      BY <2>1, <3>1, <3>2 DEF CheckpointRow
  <2>2. ckpt = {[task |-> t, phase |-> p, config |-> c, batch |-> items - 1,
              items |-> items, epoch |-> Cardinality(PhasesBefore(p)) + 1]
             : t \in Task, p \in PhasesBefore("exporting"), items \in {NItems} \ {0}}
    BY <1>1 DEF AtReviewGate
  <2>3. ASSUME NEW k \in ckpt
        PROVE  \E t \in Task, p \in PhasesBefore("exporting"), items \in {NItems} \ {0} :
                 k = [task |-> t, phase |-> p, config |-> c, batch |-> items - 1,
                      items |-> items, epoch |-> Cardinality(PhasesBefore(p)) + 1]
    BY <2>2
  <2> QED
    BY <2>1, <2>3
<1>7. IInv
  <2>1. RowsTypeOK
    BY <1>4, <1>5, <1>6, NoneAssumption
       DEF RowsTypeOK, NoLease, Idle, RunRow, RunStatus, LeaseRow, WorkerMemory
  <2>2. SlotConsistent
    BY <1>4, <1>5, IdAssumption, NoneAssumption, Statuses
       DEF SlotConsistent, HasLease, NoLease, RUN_ACTIVE
  <2>3. ResumeStateSound
    BY <1>5, Statuses DEF ResumeStateSound, CONTROL_STATES
  <2>4. Configured /\ MemorySound
    BY <1>4, <1>5, NoneAssumption DEF Configured, MemorySound, Idle
  <2> QED
    BY <2>1, <2>2, <2>3, <2>4 DEF IInv
<1>8. SlotInv
  BY <1>4, <1>5, <1>6, <1>7, TheTask DEF SlotInv, Alone, LeaseOurs, NoLease, Counted, Idle,
     ConfigKept, TokenValid
<1>9. Children
  <2>1. NoChild \in ChildType /\ NoChild.pc = "none"
    BY TheTask DEF NoChild, ChildType, ChildPc
  <2> QED
    BY <1>2, <1>3, <2>1 DEF Children, ChildKnows
<1>10. Hand
  BY <1>3, <1>4 DEF Hand, Carrying, Held, RunnerHandsBack, NoLease
<1> QED
  BY <1>8, <1>9, <1>10 DEF PhaseInv

(* A config is switched, or the gate passed, while nobody has the slot.    *)
LEMMA GateSteady ==
  ASSUME SlotInv,
         \/ \E c \in Config : UpdateConfig(T, c)
         \/ ReleaseReviewGate(T)
  PROVE  IInv' /\ Steady /\ worker' = worker
<1>1. IInv'
  BY TheTask, UpdateConfigSound, ReleaseReviewGateSound DEF SlotInv
<1>2. run' = run /\ ckpt' = ckpt /\ worker' = worker /\ lease' = lease
  BY DEF UpdateConfig, ReleaseReviewGate
<1>3. \A u \in Task \ {T} : task'[u] = task[u]
  BY TheRow DEF UpdateConfig, ReleaseReviewGate
<1>4. status \notin ActiveStatus
  BY Statuses DEF UpdateConfig, ReleaseReviewGate, status
<1>5. ~lease.live
  BY <1>4, TheRow
<1>6. Alone' /\ Counted' /\ \A w \in Worker : KeepsToken(w)
  BY <1>2, <1>3 DEF SlotInv, Alone, Counted, KeepsToken, HasToken
<1> QED
  BY <1>1, <1>2, <1>5, <1>6 DEF Steady

LEMMA ReviewApiThread ==
  ASSUME PhaseInv, ReviewApi PROVE PhaseInv'
<1>1. CASE UNCHANGED <<vars, parent, child>>
  BY <1>1, UnchangedSound
<1>2. CASE /\ \/ \E c \in Config : UpdateConfig(T, c)
              \/ ReleaseReviewGate(T)
           /\ UNCHANGED <<parent, child>>
  BY <1>2, GateSteady, OutsideSound, ParentFacts
<1>3. CASE Requests /\ UNCHANGED <<parent, child>>
  BY <1>3, ApiSound
<1>4. CASE SwitchConfig
  BY <1>2, <1>4 DEF SwitchConfig
<1>5. CASE LateDecision \/ ConfirmRewrite \/ BeginRestore \/ RestoreMove \/ RestoreWrite
  <2>1. UNCHANGED <<vars, parent, child>>
    BY <1>5 DEF LateDecision, ConfirmRewrite, BeginRestore, RestoreMove, RestoreWrite,
       allvars, prvars
  <2> QED
    BY <1>1, <2>1
<1>6. CASE /\ \/ ReleaseReviewGate(T) \/ RequestPause(T) \/ ResumeTask(T)
              \/ \E force \in BOOLEAN : RequestTerminate(T, force)
           /\ UNCHANGED <<parent, child>>
  BY <1>2, <1>3, <1>6 DEF Requests
<1> QED
  BY <1>4, <1>5, <1>6 DEF ReviewApi, prvars

LEMMA BackendThread ==
  ASSUME PhaseInv, Backend PROVE PhaseInv'
BY PhaseInvNext DEF Backend, PhaseRunNext

(* A rewriting child goes on, reads its resume point or commits.           *)
LEMMA RewriterThread ==
  ASSUME PhaseInv, NEW w \in Worker, RewriteStep(w) \/ RewriteFails(w)
  PROVE  PhaseInv'
<1>1. CASE UNCHANGED <<vars, parent, child>>
  BY <1>1, UnchangedSound
<1>2. ASSUME NEW pc \in {"work", "error"}, ChildTo(w, pc), UNCHANGED <<vars, parent>>,
             child[w].pc # "none"
      PROVE  PhaseInv'
  BY <1>2, ChildIdles DEF ChildPc
<1>3. ASSUME Raises(w), child[w].pc # "none" PROVE PhaseInv'
  BY <1>2, <1>3 DEF Raises, ChildEnds
<1>4. CASE RewriteStarts(w)
  BY <1>2, <1>4 DEF RewriteStarts, ChildEnds
<1>5. CASE RewriteMoves(w) \/ RewriteRecords(w) \/ RewriteFails(w) \/ UndoMoves(w)
  BY <1>1, <1>5 DEF RewriteMoves, RewriteRecords, RewriteFails, UndoMoves, Untouched, prvars
<1>6. CASE RewriteLoads(w) \/ RewriteChecks(w) \/ RewriteIsStale(w)
  BY <1>1, <1>3, <1>6 DEF RewriteLoads, RewriteChecks, RewriteIsStale, Rewriting,
     Untouched, prvars
<1>7. CASE UndoDiscards(w) \/ StaleRestored(w)
  BY <1>2, <1>7 DEF UndoDiscards, StaleRestored, Rewriting, ChildEnds
<1>8. CASE StaleRestores(w)
  BY <1>1, <1>2, <1>8 DEF StaleRestores, Rewriting, Untouched, ChildEnds, prvars
<1>9. CASE RewriteReads(w)
  <2>1. UNCHANGED <<parent, child>> /\ (ReadResumePoint(w) \/ UNCHANGED vars)
    BY <1>9 DEF RewriteReads, prvars
  <2>2. CASE UNCHANGED vars
    BY <1>1, <2>1, <2>2
  <2>3. CASE ReadResumePoint(w)
    <3>1. IInv' /\ Steady /\ \A v \in Worker : HasToken(v) => HasToken(v)'
      BY <2>3, ReadSteady, ParentFacts
    <3>2. Children'
      BY <2>1, <3>1, ChildrenQuiet, ParentFacts DEF Steady
    <3>3. HasToken(Owner) => HasToken(Owner)'
      BY <2>1, <3>1, ParentFacts DEF Owner
    <3> QED
      BY <2>1, <3>1, <3>2, <3>3, ThreadUndisturbed
  <2> QED
    BY <2>1, <2>2, <2>3
<1>10. CASE RewriteCommits(w)
  <2>1. PICK pc \in {"complete", "returned"} : ChildTo(w, pc)
    BY <1>10 DEF RewriteCommits, ChildTo
  <2>2. /\ CommitBatch(w, NItems, NItems, TRUE) /\ UNCHANGED parent
        /\ Rewriting(w, "commit")
    BY <1>10 DEF RewriteCommits
  <2>3. child[w].pc # "none" /\ NItems \in 0..NItems
    BY <2>2, TheTask DEF Rewriting
  <2>4. /\ IInv' /\ Steady
        /\ lease' = NoLease \/ \A v \in Worker : HasToken(v) => HasToken(v)'
    BY <2>2, <2>3, BatchSteady, ParentFacts
  <2>5. lease'.live => \A v \in Worker : HasToken(v) => HasToken(v)'
    BY <2>4 DEF NoLease
  <2>6. pc \in ChildPc \ {"none"} /\ pc # "finish"
    BY DEF ChildPc
  <2> QED
    BY <2>1, <2>2, <2>3, <2>4, <2>5, <2>6, ChildMoves
<1> QED
  BY <1>4, <1>5, <1>6, <1>7, <1>8, <1>9, <1>10 DEF RewriteStep

LEMMA ThreadSound ==
  ASSUME PhaseInv, [RewriteNext]_rxvars PROVE PhaseInv'
<1>1. CASE RewriteNext
  BY <1>1, BackendThread, RewriterThread, ReviewApiThread DEF RewriteNext, BackendStep
<1>2. CASE UNCHANGED rxvars
  BY <1>2, UnchangedSound DEF rxvars, allvars, prvars
<1> QED
  BY <1>1, <1>2

-----------------------------------------------------------------------------
(* What the thread knows of its task and its child.                        *)

(* What a step does to the task unless the thread claims it or completes   *)
(* its phase.                                                              *)
Tame ==
  /\ lease'.live => lease' = lease
  /\ task'[T].status \in ActiveStatus =>
       status \in ActiveStatus /\ task'[T].config = task[T].config
  /\ task'[T].status = "completed" =>
       status = "completed" /\ task'[T].config = task[T].config

LEMMA TameStill ==
  ASSUME task' = task, lease' = lease \/ ~lease'.live PROVE Tame
BY DEF Tame, status

(* A commit of any kind: a pending request takes the task to rest.         *)
LEMMA TameBatch ==
  ASSUME SlotInv, NEW w \in Worker, NEW items, NEW completed,
         CommitBatch(w, items, completed, TRUE)
  PROVE  Tame
<1>1. TokenValid(w)
  BY DEF CommitBatch
<1>2. /\ worker[w].target = T /\ T \in Task /\ status \in ActiveStatus
      /\ task \in [Task -> TaskRow] /\ task[T] \in TaskRow
  BY <1>1, TheRow, TheTask
<1>3. PICK stamped : stamped = [task[T] EXCEPT !.progress = completed]
  OBVIOUS
<1>4. /\ task' = [task EXCEPT ![T] = IF status \in CONTROL_STATES
                                       THEN ControlApplied(stamped) ELSE stamped]
      /\ lease' = IF status \in CONTROL_STATES THEN NoLease ELSE lease
  BY <1>2, <1>3 DEF CommitBatch, status
<1>5. stamped.config = task[T].config /\ stamped.status = status
  BY <1>2, <1>3 DEF TaskRow, status
<1>6. CASE status \in CONTROL_STATES
  <2>1. task'[T].status \in {"paused", "terminated"}
    <3>1. task'[T] = ControlApplied(stamped)
      BY <1>2, <1>4, <1>6
    <3>2. ControlApplied(stamped).status \in {"paused", "terminated"}
      BY <1>2, <1>3 DEF ControlApplied, TaskRow
    <3> QED
      BY <3>1, <3>2
  <2> QED
    BY <1>4, <1>6, <2>1, Statuses DEF Tame, NoLease
<1>7. CASE status \notin CONTROL_STATES
  <2>1. task'[T] = stamped /\ lease' = lease
    BY <1>2, <1>4, <1>7
  <2> QED
    BY <1>2, <1>5, <2>1 DEF Tame
<1> QED
  BY <1>6, <1>7

LEMMA TameGivesUp ==
  ASSUME SlotInv, NEW w \in Worker, GivesUp(w) PROVE Tame
<1>1. TokenValid(w) /\ lease' = NoLease
  BY GivenBack DEF GivesBack
<1>2. /\ worker[w].target = T /\ T \in Task
      /\ task \in [Task -> TaskRow] /\ task[T] \in TaskRow
  BY <1>1, TheRow, TheTask
<1>3. CASE ControlBatch(w, TRUE)
  BY <1>3, TameBatch DEF ControlBatch
<1>4. CASE FailWorker(w) \/ PauseClaimedBeforeWork(w)
  <2>1. task'[T].status \in {"failed", "paused"}
    <3>1. CASE FailWorker(w)
      BY <1>2, <3>1 DEF FailWorker, Surrender, TaskRow
    <3>2. CASE PauseClaimedBeforeWork(w)
      BY <1>2, <3>2 DEF PauseClaimedBeforeWork, Surrender, TaskRow
    <3> QED
      BY <1>4, <3>1, <3>2
  <2> QED
    BY <1>1, <2>1, Statuses DEF Tame, NoLease
<1>5. CASE HonorClaimedControlBeforeWork(w) \/ RecoverWorkerAfterProcessStop(w)
  <2>1. task' = [task EXCEPT ![T] = ControlApplied(task[T])]
    BY <1>2, <1>5 DEF HonorClaimedControlBeforeWork, RecoverWorkerAfterProcessStop, Surrender
  <2>2. task'[T].status \in {"terminated", "paused"}
    BY <1>2, <2>1 DEF ControlApplied, TaskRow
  <2> QED
    BY <1>1, <2>2, Statuses DEF Tame, NoLease
<1> QED
  BY <1>3, <1>4, <1>5 DEF GivesUp

LEMMA TameRequest ==
  ASSUME SlotInv,
         \/ RequestPause(T) \/ ResumeTask(T)
         \/ \E force \in BOOLEAN : RequestTerminate(T, force)
         \/ \E c \in Config : UpdateConfig(T, c)
         \/ ReleaseReviewGate(T)
  PROVE  Tame
<1>1. /\ T \in Task /\ task \in [Task -> TaskRow] /\ task[T] \in TaskRow
      /\ HasLease(T) <=> status \in ActiveStatus
  BY TheRow, TheTask DEF HasLease
<1>2. CASE RequestPause(T)
  <2>1. lease' = lease
    BY <1>2 DEF RequestPause
  <2>2. CASE status = "queued"
    <3>1. task'[T].status = "paused"
      BY <1>1, <1>2, <2>2, Statuses DEF RequestPause, TaskRow, status
    <3> QED
      BY <2>1, <3>1, Statuses DEF Tame
  <2>3. CASE status \in WORKER_PHASES
    <3>1. task' = [task EXCEPT ![T] = [task[T] EXCEPT !.resume = status,
                     !.status = IF HasLease(T) THEN "pausing" ELSE "paused"]]
      BY <1>1, <1>2, <2>3, Statuses DEF RequestPause, TaskRow, status
    <3>2. task'[T].status \in {"pausing", "paused"} /\ task'[T].config = task[T].config
      BY <1>1, <3>1 DEF TaskRow
    <3> QED
      BY <2>1, <2>3, <3>2, Statuses DEF Tame
  <2> QED
    BY <1>2, <2>2, <2>3 DEF RequestPause, status
<1>3. CASE ResumeTask(T) \/ ReleaseReviewGate(T)
  <2>1. lease' = lease /\ task'[T].status = "queued"
    BY <1>1, <1>3 DEF ResumeTask, ReleaseReviewGate, TaskRow
  <2> QED
    BY <2>1, Statuses DEF Tame
<1>4. ASSUME NEW force \in BOOLEAN, RequestTerminate(T, force) PROVE Tame
  <2>1. CASE /\ lease' = Released(T)
             /\ task' = [task EXCEPT ![T].status = "terminated", ![T].resume = None,
                                     ![T].epoch  = task[T].epoch + 1]
    <3>1. ~lease'.live \/ lease' = lease
      BY <2>1 DEF Released, NoLease
    <3>2. task'[T].status = "terminated"
      BY <1>1, <2>1 DEF TaskRow
    <3> QED
      BY <3>1, <3>2, Statuses DEF Tame
  <2>2. CASE /\ HasLease(T)
             /\ task' = [task EXCEPT
                           ![T].status = "terminating",
                           ![T].resume = IF task[T].status \in WORKER_PHASES
                                           THEN task[T].status ELSE task[T].resume]
             /\ lease' = lease
    <3>1. task'[T].status = "terminating" /\ task'[T].config = task[T].config
      BY <1>1, <2>2 DEF TaskRow
    <3> QED
      BY <1>1, <2>2, <3>1 DEF Tame
  <2> QED
    BY <1>4, <2>1, <2>2 DEF RequestTerminate
<1>5. ASSUME NEW c \in Config, UpdateConfig(T, c) PROVE Tame
  <2>1. lease' = lease /\ task'[T].status = status /\ status \in {"draft", "paused"}
    BY <1>1, <1>5 DEF UpdateConfig, TaskRow, status
  <2> QED
    BY <2>1, Statuses DEF Tame
<1> QED
  BY <1>2, <1>3, <1>4, <1>5

LEMMA TameApi == ASSUME PhaseInv, ReviewApi PROVE Tame
<1>1. CASE ConfirmRewrite \/ BeginRestore \/ RestoreMove \/ RestoreWrite \/ LateDecision
  BY <1>1, TameStill DEF ConfirmRewrite, BeginRestore, RestoreMove, RestoreWrite,
     LateDecision, allvars, vars
<1>2. CASE ~(ConfirmRewrite \/ BeginRestore \/ RestoreMove \/ RestoreWrite \/ LateDecision)
  BY <1>2, TameRequest, ParentFacts DEF ReviewApi, SwitchConfig
<1> QED
  BY <1>1, <1>2

LEMMA TameRecovered ==
  ASSUME SlotInv, task' = TasksRecovered, lease' = NoLease PROVE Tame
<1>1. /\ task \in [Task -> TaskRow] /\ task[T] \in TaskRow /\ T \in Task
      /\ lease.target \in {T, None} /\ None \notin Task
  BY TheRow, TheTask, NoneAssumption
<1>2. CASE lease.target = T
  <2>1. task'[T] = RecoveredTask(task[T])
    BY <1>1, <1>2 DEF TasksRecovered
  <2>2. RecoveredTask(task[T]).status \in {"terminated", "paused"}
    BY <1>1 DEF RecoveredTask, TaskRow
  <2> QED
    BY <2>1, <2>2, Statuses DEF Tame, NoLease
<1>3. CASE lease.target = None
  BY <1>1, <1>3 DEF TasksRecovered, Tame, NoLease, status
<1> QED
  BY <1>1, <1>2, <1>3

LEMMA KnowsAtRest ==
  ASSUME PhaseInv', parent'.pc \in {"loop", "ended"} PROVE ThreadKnows'
BY DEF PhaseInv, Children, Watching, ThreadKnows, Carrying

LEMMA KnowsDown ==
  ASSUME PhaseInv, ThreadKnows, Tame, parent' = ParentAt(Owner, "down"),
         child'[Owner].pc # "none" => child[Owner].pc # "none"
  PROVE  ThreadKnows'
<1>1. parent'.pc = "down" /\ Owner' = Owner
  BY DEF ParentAt, Owner
<1>2. ASSUME Rewritten' PROVE ~Carrying' /\ child'[Owner'].pc = "none"
  <2>1. Rewritten
    BY <1>2 DEF Tame, Rewritten, status
  <2> QED
    BY <1>1, <2>1 DEF ThreadKnows, Carrying
<1> QED
  BY <1>1, <1>2 DEF ThreadKnows, Carrying

LEMMA KnowsGoesOn ==
  ASSUME PhaseInv, ThreadKnows, Tame, parent'.owner = parent.owner,
         parent'.config = parent.config, parent'.phase = parent.phase,
         Carrying' => Carrying,
         child'[Owner].pc # "none" =>
           \/ /\ child[Owner].pc # "none" /\ child'[Owner].config = child[Owner].config
              /\ child'[Owner].phase = child[Owner].phase
           \/ /\ Carrying /\ child'[Owner].config = parent.config
              /\ child'[Owner].phase = parent.phase,
         (Carrying /\ rewriter'[Owner].pc # "none") =>
           \/ rewriter[Owner].pc # "none" /\ rewriter'[Owner].config = rewriter[Owner].config
           \/ rewriter'[Owner].config = parent.config,
         parent'.pc = "result" => parent'.msg \in {"complete", "returned", "forced", "error"},
         (parent'.pc = "record" /\ parent'.seen = parent'.phase) => parent'.msg = "complete",
         parent'.pc = "finalize" => parent'.msg = "complete"
  PROVE  ThreadKnows'
<1> PICK o \in Worker : o = Owner /\ o = Owner'
  BY ParentFacts DEF Owner
<1>1. ASSUME Carrying'
      PROVE  /\ task'[T].status \in ActiveStatus => task'[T].config = parent'.config
             /\ lease'.live => lease'.owner = o
             /\ child'[o].pc # "none" => /\ child'[o].config = parent'.config
                                         /\ child'[o].phase = parent'.phase
             /\ rewriter'[o].pc # "none" => rewriter'[o].config = parent'.config
  <2>1. Carrying
    BY <1>1
  <2>2. /\ status \in ActiveStatus => task[T].config = parent.config
        /\ lease.live => lease.owner = o
        /\ child[o].pc # "none" => /\ child[o].config = parent.config
                                   /\ child[o].phase = parent.phase
        /\ rewriter[o].pc # "none" => rewriter[o].config = parent.config
    BY <2>1 DEF ThreadKnows
  <2> QED
    BY <2>1, <2>2 DEF Tame
<1>2. ASSUME Rewritten' PROVE ~Carrying' /\ child'[o].pc = "none"
  <2>1. Rewritten
    BY <1>2 DEF Tame, Rewritten, status
  <2>2. ~Carrying /\ child[o].pc = "none"
    BY <2>1 DEF ThreadKnows
  <2> QED
    BY <2>2
<1>3. /\ Carrying' =>
           /\ status' \in ActiveStatus => task'[T].config = parent'.config
           /\ lease'.live => lease'.owner = Owner'
           /\ child'[Owner'].pc # "none" => /\ child'[Owner'].config = parent'.config
                                            /\ child'[Owner'].phase = parent'.phase
           /\ rewriter'[Owner'].pc # "none" => rewriter'[Owner'].config = parent'.config
      /\ Rewritten' => ~Carrying' /\ child'[Owner'].pc = "none"
  BY <1>1, <1>2, Zenon DEF status
<1> QED
  BY <1>3 DEF ThreadKnows

(* A claim: the thread takes config and phase with it, and has no child.   *)
LEMMA KnowsClaim ==
  ASSUME PhaseInv, PhaseInv', RewriteInv', Claim PROVE ThreadKnows'
<1>1. CASE parent' = parent
  BY <1>1, KnowsAtRest DEF Claim
<1>2. CASE /\ worker'[Owner].stage = "claimed"
           /\ parent' = [parent EXCEPT !.pc = "granted",
                                       !.config = worker'[Owner].config,
                                       !.phase = worker'[Owner].phase]
  <2> PICK o \in Worker : o = Owner
    BY ParentFacts
  <2>1. /\ parent'.pc = "granted" /\ parent'.config = worker'[o].config /\ parent'.owner = o
        /\ Owner' = o
    BY <1>2, ParentFacts DEF ParentType, Owner
  <2>2. /\ TokenValid(o)' /\ task'[T].status \in WORKER_PHASES
    <3>1. ClaimNext(Owner) /\ parent'.owner = Owner /\ SlotInv /\ Owner \in Worker
      BY <2>1, ParentFacts DEF Claim
    <3>2. \/ lease' = NoLease /\ worker' = worker /\ worker[Owner].stage = "idle"
          \/ /\ worker'[Owner].phase \in WORKER_PHASES
             /\ TokenValid(Owner)' /\ task'[T].status = worker'[Owner].phase
      BY <3>1, ClaimSteady
    <3>3. TokenValid(Owner)' /\ task'[T].status \in WORKER_PHASES
      BY <1>2, <3>2
    <3>4. TokenValid(o)'
      BY <2>1, <3>3, Zenon
    <3> QED
      BY <3>3, <3>4
  <2>3. worker'[o].config = task'[T].config
    BY <2>2 DEF PhaseInv, SlotInv, ConfigKept
  <2>4. lease'.owner = o
    BY <2>2 DEF TokenValid
  <2>5. child'[o].pc = "none"
    BY <2>1 DEF PhaseInv, Children, Watching
  <2>6. rewriter'[o].pc = "none"
    BY <2>5 DEF RewriteInv, RewriterAlive
  <2>7. ~Rewritten'
    BY <2>2, Statuses DEF Rewritten, status
  <2> QED
    BY <2>1, <2>3, <2>4, <2>5, <2>6, <2>7 DEF ThreadKnows
<1> QED
  BY <1>1, <1>2 DEF Claim

(* What BackendStep leaves of a rewriting child: all or nothing.           *)
LEMMA RowsKept ==
  ASSUME BackendStep, NEW w \in Worker
  PROVE  /\ rewriter'[w] = IF child'[w].pc = "none" THEN NoRewrite ELSE rewriter[w]
         /\ rewriter'[w].pc # "none" => rewriter'[w] = rewriter[w] /\ child'[w].pc # "none"
         /\ UNCHANGED <<place, manifest, restorer, confirmed, recalled, raced>>
BY DEF BackendStep, NoRewrite

Answers == {"complete", "returned", "forced", "error"}

(* The thread goes on with its child as it is, or without it.              *)
LEMMA KnowsWalks ==
  ASSUME PhaseInv, ThreadKnows, BackendStep, Tame,
         parent'.owner = parent.owner, parent'.config = parent.config,
         parent'.phase = parent.phase, Carrying' => Carrying,
         child' = child \/ Stopped \/ \E w \in Worker : child' = [child EXCEPT ![w] = NoChild],
         parent'.pc = "result" => parent'.msg \in Answers,
         (parent'.pc = "record" /\ parent'.seen = parent'.phase) => parent'.msg = "complete",
         parent'.pc = "finalize" => parent'.msg = "complete"
  PROVE  ThreadKnows'
<1> PICK o \in Worker : o = Owner
  BY ParentFacts
<1>1. child'[o].pc # "none" => child'[o] = child[o]
  BY ParentFacts DEF Stopped, NoChild
<1>2. rewriter'[o].pc # "none" => rewriter'[o] = rewriter[o]
  BY RowsKept
<1>3. child'[Owner].pc # "none" =>
        /\ child[Owner].pc # "none" /\ child'[Owner].config = child[Owner].config
        /\ child'[Owner].phase = child[Owner].phase
  BY <1>1
<1>4. (Carrying /\ rewriter'[Owner].pc # "none") =>
        rewriter[Owner].pc # "none" /\ rewriter'[Owner].config = rewriter[Owner].config
  BY <1>2
<1> QED
  BY <1>3, <1>4, KnowsGoesOn DEF Answers

LEMMA KnowsGoto ==
  ASSUME PhaseInv, ThreadKnows, BackendStep, Tame, Carrying,
         NEW pc \in ParentPc \ {"result", "record", "finalize"}, Goto(pc),
         child' = child \/ Stopped
  PROVE  ThreadKnows'
<1>1. 0 \in 0..NItems /\ None \in Answers \cup {None} /\ parent.seen \in
        TaskStatus \cup {"absent", "deleted", None} /\ parent.comp \in 0..NItems
  BY ParentFacts, TheTask DEF ParentType
<1>2. /\ parent'.pc = pc /\ parent'.owner = parent.owner
      /\ parent'.config = parent.config /\ parent'.phase = parent.phase
  BY <1>1, ParentFacts DEF Goto, ParentType
<1> QED
  BY <1>2, KnowsWalks

LEMMA KnowsReturned ==
  ASSUME PhaseInv, ThreadKnows, BackendStep, Tame, Carrying,
         NEW msg \in Answers, Returned(msg), child' = child \/ Stopped
  PROVE  ThreadKnows'
<1>1. /\ parent'.pc = "result" /\ parent'.msg = msg /\ parent'.owner = parent.owner
      /\ parent'.config = parent.config /\ parent'.phase = parent.phase
  BY ParentFacts DEF Returned, ParentType
<1> QED
  BY <1>1, KnowsWalks

(* A component begins, in a child whose first step is to come.             *)
LEMMA KnowsNewChild ==
  ASSUME PhaseInv, RewriteInv, ThreadKnows, BackendStep, Tame, Carrying,
         parent'.owner = parent.owner, parent'.config = parent.config,
         parent'.phase = parent.phase, parent'.pc \in {"inline", "assets", "poll"},
         child' = child \/ NewChild, parent.pc \notin Watching
  PROVE  ThreadKnows'
<1> PICK o \in Worker : o = Owner
  BY ParentFacts
<1>1. child[o].pc = "none"
  BY DEF PhaseInv, Children
<1>2. rewriter[o].pc = "none"
  BY <1>1 DEF RewriteInv, RewriterAlive
<1>3. rewriter'[o].pc = "none"
  BY <1>2, RowsKept
<1>4. child'[o].pc # "none" =>
        child'[o].config = parent.config /\ child'[o].phase = parent.phase
  BY <1>1, ParentFacts DEF NewChild
<1>5. child'[Owner].pc # "none" =>
        /\ Carrying /\ child'[Owner].config = parent.config
        /\ child'[Owner].phase = parent.phase
  BY <1>4
<1>6. ~(Carrying /\ rewriter'[Owner].pc # "none")
  BY <1>3
<1> QED
  BY <1>5, <1>6, KnowsGoesOn

LEMMA KnowsStartComponent ==
  ASSUME PhaseInv, RewriteInv, ThreadKnows, BackendStep, UNCHANGED vars, Carrying,
         parent.pc \notin Watching, NEW rows, NEW k, StartComponent(rows, k)
  PROVE  ThreadKnows'
<1>1. /\ parent'.pc \in {"inline", "assets"} /\ parent'.owner = parent.owner
      /\ parent'.config = parent.config /\ parent'.phase = parent.phase
  BY ParentFacts DEF StartComponent, ParentType
<1>2. child' = child \/ NewChild
  BY DEF StartComponent
<1>3. Tame
  BY TameStill DEF vars
<1> QED
  BY <1>1, <1>2, <1>3, KnowsNewChild

LEMMA ParentKnows ==
  ASSUME PhaseInv, RewriteInv, ThreadKnows, BackendStep, PhaseInv', RewriteInv', ParentStep
  PROVE  ThreadKnows'
<1> USE DEF Answers
<1>0. UNCHANGED vars => Tame
  BY TameStill DEF vars
<1>1. CASE Claim
  BY <1>1, KnowsClaim
<1>2. CASE LeaveLoop
  <2>1. parent'.pc = "ended"
    BY <1>2, ParentFacts DEF LeaveLoop, Goto, ParentType
  <2> QED
    BY <2>1, KnowsAtRest
<1>3. CASE PublishToken \/ CheckStop \/ RecordFailure
  <2>1. /\ Carrying /\ UNCHANGED <<vars, child>>
        /\ \E pc \in {"claimed", "plan", "unstarted", "fail"} : Goto(pc)
    BY <1>3 DEF PublishToken, CheckStop, RecordFailure, Carrying
  <2> QED
    BY <1>0, <2>1, KnowsGoto DEF ParentPc
<1>4. CASE GiveBackUnstarted \/ Fail \/ SkipEmptyPhase \/ Finalize
  <2>1. \/ \E pc \in {"loop", "ended"} : parent' = ParentAt(Owner, pc)
        \/ Goto("fail") /\ UNCHANGED <<vars, child>> /\ Carrying
    BY <1>4 DEF GiveBackUnstarted, Fail, SkipEmptyPhase, Finalize, BackToLoop, Carrying
  <2>2. CASE \E pc \in {"loop", "ended"} : parent' = ParentAt(Owner, pc)
    BY <2>2, KnowsAtRest DEF ParentAt
  <2>3. CASE Goto("fail") /\ UNCHANGED <<vars, child>> /\ Carrying
    BY <1>0, <2>3, KnowsGoto DEF ParentPc
  <2> QED
    BY <2>1, <2>2, <2>3
<1>5. CASE Plan
  <2>1. /\ UNCHANGED vars /\ Carrying /\ parent.pc \notin Watching
        /\ \E rows : StartComponent(rows, 1)
    BY <1>5 DEF Plan, Carrying, Watching
  <2> QED
    BY <2>1, KnowsStartComponent
<1>6. CASE WaitAssets
  <2>1. /\ Carrying /\ UNCHANGED child
        /\ \/ ReadResumePoint(Owner) /\ UNCHANGED parent
           \/ ControlBatch(Owner, TRUE) /\ Returned("returned")
           \/ UNCHANGED vars /\ \E msg \in {"returned", "error"} : Returned(msg)
    BY <1>6 DEF WaitAssets, Carrying
  <2>2. CASE ReadResumePoint(Owner) /\ UNCHANGED parent
    <3>1. Tame
      BY <2>2, TameStill DEF ReadResumePoint, db
    <3> QED
      BY <1>6, <2>1, <2>2, <3>1, KnowsWalks DEF WaitAssets
  <2>3. CASE ControlBatch(Owner, TRUE) /\ Returned("returned")
    <3>1. Tame
      BY <2>3, TameGivesUp, ParentFacts DEF GivesUp
    <3> QED
      BY <2>1, <2>3, <3>1, KnowsReturned
  <2>4. CASE UNCHANGED vars /\ \E msg \in {"returned", "error"} : Returned(msg)
    BY <1>0, <2>1, <2>4, KnowsReturned
  <2> QED
    BY <2>1, <2>2, <2>3, <2>4
<1>7. CASE Spawn
  <2>1. /\ parent'.pc = "poll" /\ parent'.owner = parent.owner
        /\ parent'.config = parent.config /\ parent'.phase = parent.phase
    BY <1>7, ParentFacts DEF Spawn, Goto, ParentType
  <2>2. Carrying /\ parent.pc \notin Watching /\ UNCHANGED vars /\ NewChild
    BY <1>7 DEF Spawn, Carrying, Watching
  <2> QED
    BY <1>0, <2>1, <2>2, KnowsNewChild
<1>8. CASE Poll \/ Kill \/ InlineReturns
  <2>1. /\ Carrying /\ UNCHANGED vars /\ (child' = child \/ Stopped)
        /\ \/ \E pc \in {"killing", "recover", "timedout"} : Goto(pc)
           \/ \E msg \in Answers : Returned(msg)
    BY <1>8 DEF Poll, Kill, InlineReturns, Carrying, Done
  <2> QED
    BY <1>0, <2>1, KnowsGoto, KnowsReturned DEF ParentPc
<1>9. CASE AfterForcedStop
  <2>1. Carrying /\ Returned("forced") /\ UNCHANGED child
    BY <1>9 DEF AfterForcedStop, Carrying
  <2>2. Tame
    BY <1>0, <1>9, TameGivesUp, ParentFacts DEF AfterForcedStop, GivesUp
  <2> QED
    BY <2>1, <2>2, KnowsReturned
<1>10. CASE ReadStatus
  <2>1. Carrying /\ UNCHANGED <<vars, child>>
    BY <1>10 DEF ReadStatus, Carrying
  <2>2. CASE ResultIsFailure
    <3>1. /\ parent'.pc = "failure" /\ parent'.owner = parent.owner
          /\ parent'.config = parent.config /\ parent'.phase = parent.phase
      BY <1>10, <2>2, ParentFacts DEF ReadStatus, ParentType
    <3> QED
      BY <1>0, <2>1, <3>1, KnowsWalks
  <2>3. CASE ~ResultIsFailure
    <3>1. /\ parent'.pc = "record" /\ parent'.owner = parent.owner
          /\ parent'.config = parent.config /\ parent'.phase = parent.phase
          /\ parent'.seen = status /\ parent'.msg = parent.msg
      BY <1>10, <2>3, ParentFacts DEF ReadStatus, ParentType
    <3>2. parent.msg \in Answers
      BY <1>10 DEF ReadStatus, ThreadKnows
    <3>3. status = parent.phase => parent.msg = "complete"
      BY <2>3, <3>2 DEF ResultIsFailure
    <3> QED
      BY <1>0, <2>1, <3>1, <3>3, KnowsWalks
  <2> QED
    BY <2>2, <2>3
<1>11. CASE RecordResult
  <2>1. Carrying /\ parent.pc = "record" /\ parent.pc \notin Watching
    BY <1>11 DEF RecordResult, Carrying, Watching
  <2>2. CASE parent' = ParentAt(Owner, "loop")
    BY <2>2, KnowsAtRest DEF ParentAt
  <2>3. CASE UNCHANGED vars /\ \E rows, k : StartComponent(rows, k)
    BY <2>1, <2>3, KnowsStartComponent
  <2>4. CASE ~RunIsOver /\ UNCHANGED <<vars, child>> /\ Goto("finalize")
    <3>1. parent.msg = "complete"
      BY <2>1, <2>4 DEF ThreadKnows, RunIsOver
    <3>2. /\ parent'.pc = "finalize" /\ parent'.owner = parent.owner
          /\ parent'.config = parent.config /\ parent'.phase = parent.phase
          /\ parent'.msg = parent.msg
      BY <2>4, ParentFacts DEF Goto, ParentType
    <3> QED
      BY <1>0, <2>1, <2>4, <3>1, <3>2, KnowsWalks
  <2> QED
    BY <1>11, <2>2, <2>3, <2>4 DEF RecordResult, BackToLoop
<1> QED
  BY <1>1, <1>2, <1>3, <1>4, <1>5, <1>6, <1>7, <1>8, <1>9, <1>10, <1>11 DEF ParentStep

LEMMA BackendKnows ==
  ASSUME PhaseInv, RewriteInv, ThreadKnows, BackendStep, PhaseInv', RewriteInv'
  PROVE  ThreadKnows'
<1>1. CASE ParentStep
  BY <1>1, ParentKnows
<1>2. ASSUME NEW w \in Worker, OrphanEnds(w) PROVE ThreadKnows'
  <2>1. Tame
    BY <1>2, TameStill DEF OrphanEnds, Crash, vars, db
  <2>2. parent' = parent /\ child' = [child EXCEPT ![w] = NoChild]
    BY <1>2 DEF OrphanEnds
  <2>3. /\ parent.pc = "result" => parent.msg \in Answers
        /\ (parent.pc = "record" /\ parent.seen = parent.phase) => parent.msg = "complete"
        /\ parent.pc = "finalize" => parent.msg = "complete"
    BY DEF ThreadKnows, Answers
  <2> QED
    BY <2>1, <2>2, <2>3, KnowsWalks DEF Carrying
<1>3. CASE Expire
  <2>1. Tame
    BY <1>3, TameStill, TheRow, ParentFacts DEF Expire, LeaseExpires, LeaseRow
  <2>2. parent' = parent /\ child' = child
    BY <1>3 DEF Expire, prvars
  <2>3. /\ parent.pc = "result" => parent.msg \in Answers
        /\ (parent.pc = "record" /\ parent.seen = parent.phase) => parent.msg = "complete"
        /\ parent.pc = "finalize" => parent.msg = "complete"
    BY DEF ThreadKnows, Answers
  <2> QED
    BY <2>1, <2>2, <2>3, KnowsWalks DEF Carrying
<1>4. CASE BackendCrash
  <2>1. Tame
    BY <1>4, TameStill DEF BackendCrash, Crash, vars, db
  <2>2. parent' = ParentAt(Owner, "down")
    BY <1>4 DEF BackendCrash
  <2>3. child' = child \/ child' = [child EXCEPT ![Owner] = NoChild]
    BY <1>4 DEF BackendCrash
  <2>4. child'[Owner].pc # "none" => child[Owner].pc # "none"
    BY <2>3, ParentFacts DEF NoChild
  <2> QED
    BY <2>1, <2>2, <2>4, KnowsDown
<1>5. CASE Restart
  BY <1>5, KnowsAtRest DEF Restart, ParentAt
<1> QED
  BY <1>1, <1>2, <1>3, <1>4, <1>5 DEF BackendStep, Backend

LEMMA KnowsBeside ==
  ASSUME PhaseInv, ThreadKnows, Tame, UNCHANGED <<parent, child, rewriter>>
  PROVE  ThreadKnows'
<1>1. /\ parent.pc = "result" => parent.msg \in Answers
      /\ (parent.pc = "record" /\ parent.seen = parent.phase) => parent.msg = "complete"
      /\ parent.pc = "finalize" => parent.msg = "complete"
  BY DEF ThreadKnows, Answers
<1> QED
  BY <1>1, KnowsGoesOn DEF Carrying, Answers

LEMMA ApiKnows ==
  ASSUME PhaseInv, ThreadKnows, ReviewApi PROVE ThreadKnows'
<1>1. UNCHANGED <<parent, child>>
  BY DEF ReviewApi, SwitchConfig, LateDecision, ConfirmRewrite, BeginRestore, RestoreMove,
         RestoreWrite, allvars, prvars
<1>2. UNCHANGED rewriter
  BY DEF ReviewApi, SwitchConfig, LateDecision, ConfirmRewrite, BeginRestore, RestoreMove,
         RestoreWrite, rwvars, filevars
<1> QED
  BY <1>1, <1>2, TameApi, KnowsBeside

(* A child's config is that of the task when it starts, and stays so.      *)
LEMMA RewriterRow ==
  ASSUME RewriteInv, NEW w \in Worker, RewriteStep(w) \/ RewriteFails(w)
  PROVE  /\ child[w].pc # "none" /\ UNCHANGED parent
         /\ \A v \in Worker \ {w} : child'[v] = child[v] /\ rewriter'[v] = rewriter[v]
         /\ DOMAIN rewriter' = Worker
         /\ child' = child \/ \E pc : ChildTo(w, pc)
         /\ rewriter'[w].pc # "none" =>
              \/ rewriter[w].pc # "none" /\ rewriter'[w].config = rewriter[w].config
              \/ rewriter'[w].config = task[T].config /\ status = "exporting"
         /\ UNCHANGED vars \/ ReadResumePoint(w) \/ CommitBatch(w, NItems, NItems, TRUE)
<1>1. /\ DOMAIN rewriter = Worker /\ DOMAIN child = Worker
      /\ DOMAIN rewriter[w] = {"pc", "config", "curated", "backup", "todo", "moved"}
  BY DEF RewriteInv, FilesTyped, RewriterShape, ThreadInv
<1>2. ASSUME NEW pc, Rewriting(w, pc), pc # "none"
      PROVE  rewriter[w].pc # "none" /\ child[w].pc # "none"
  BY <1>2 DEF Rewriting
<1>3. ASSUME NEW pc, ChildTo(w, pc) PROVE \A v \in Worker \ {w} : child'[v] = child[v]
  BY <1>1, <1>3 DEF ChildTo
<1>4. ASSUME Raises(w), child[w].pc # "none"
      PROVE  /\ UNCHANGED <<vars, parent>> /\ ChildTo(w, "error")
             /\ DOMAIN rewriter' = Worker /\ rewriter'[w].pc = "none"
             /\ \A v \in Worker \ {w} : rewriter'[v] = rewriter[v]
  BY <1>1, <1>4 DEF Raises, ChildEnds, NoRewrite
<1>5. CASE RewriteStarts(w)
  <2>1. /\ child[w].pc # "none" /\ UNCHANGED <<vars, parent>>
        /\ \E pc : ChildTo(w, pc)
        /\ \/ UNCHANGED rewriter
           \/ /\ status = "exporting"
              /\ rewriter' = [rewriter EXCEPT ![w].pc = "load", ![w].config = task[T].config]
    BY <1>5 DEF RewriteStarts, ChildEnds
  <2> QED
    BY <1>1, <1>3, <2>1
<1>6. CASE RewriteLoads(w)
  <2>1. rewriter[w].pc # "none" /\ child[w].pc # "none"
    BY <1>2, <1>6 DEF RewriteLoads
  <2>2. CASE Raises(w)
    BY <1>3, <1>4, <2>1, <2>2
  <2>3. CASE /\ UNCHANGED <<vars, parent, child>>
             /\ \E c, todo : rewriter' = [rewriter EXCEPT ![w].pc = "check",
                               ![w].curated = c, ![w].todo = todo]
    BY <1>1, <2>1, <2>3
  <2> QED
    BY <1>6, <2>2, <2>3 DEF RewriteLoads, Untouched, prvars
<1>7. CASE RewriteChecks(w)
  <2>1. rewriter[w].pc # "none" /\ child[w].pc # "none"
    BY <1>2, <1>7 DEF RewriteChecks
  <2>2. CASE Raises(w)
    BY <1>3, <1>4, <2>1, <2>2
  <2>3. CASE /\ UNCHANGED <<vars, parent, child>>
             /\ \/ rewriter' = [rewriter EXCEPT ![w].pc = "read"]
                \/ \E b : rewriter' = [rewriter EXCEPT ![w].pc = "move", ![w].backup = b]
    BY <1>1, <2>1, <2>3
  <2> QED
    BY <1>7, <2>2, <2>3 DEF RewriteChecks, Untouched, prvars
<1>8. CASE RewriteMoves(w) \/ RewriteRecords(w) \/ RewriteFails(w) \/ UndoMoves(w)
  <2>1. rewriter[w].pc # "none" /\ child[w].pc # "none"
    BY <1>2, <1>8 DEF RewriteMoves, RewriteRecords, RewriteFails, UndoMoves, Rewriting
  <2>2. /\ UNCHANGED <<vars, parent, child>>
        /\ \/ \E todo, moved : rewriter' = [rewriter EXCEPT ![w].pc = "record",
                                              ![w].todo = todo, ![w].moved = moved]
           \/ \E pc : rewriter' = [rewriter EXCEPT ![w].pc = pc]
           \/ \E moved : rewriter' = [rewriter EXCEPT ![w].moved = moved]
    BY <1>8 DEF RewriteMoves, RewriteRecords, RewriteFails, UndoMoves, Untouched, prvars
  <2> QED
    BY <1>1, <2>1, <2>2
<1>9. CASE UndoDiscards(w) \/ StaleRestored(w)
  <2>1. rewriter[w].pc # "none" /\ child[w].pc # "none"
    BY <1>2, <1>9 DEF UndoDiscards, StaleRestored
  <2>2. /\ UNCHANGED <<vars, parent>> /\ ChildTo(w, "error")
        /\ rewriter' = [rewriter EXCEPT ![w] = NoRewrite]
    BY <1>9 DEF UndoDiscards, StaleRestored, ChildEnds
  <2> QED
    BY <1>1, <1>3, <2>1, <2>2 DEF NoRewrite
<1>10. CASE RewriteReads(w)
  <2>1. rewriter[w].pc # "none" /\ child[w].pc # "none"
    BY <1>2, <1>10 DEF RewriteReads
  <2>2. /\ UNCHANGED <<parent, child>> /\ (UNCHANGED vars \/ ReadResumePoint(w))
        /\ rewriter' = [rewriter EXCEPT ![w].pc = "commit"]
    BY <1>10 DEF RewriteReads, prvars
  <2> QED
    BY <1>1, <2>1, <2>2
<1>11. CASE RewriteCommits(w)
  <2>1. Rewriting(w, "commit")
    BY <1>11 DEF RewriteCommits
  <2>2. /\ UNCHANGED parent /\ CommitBatch(w, NItems, NItems, TRUE)
        /\ rewriter' = [rewriter EXCEPT ![w] = NoRewrite]
        /\ \E pc : ChildTo(w, pc)
    BY <1>11 DEF RewriteCommits, ChildTo
  <2> QED
    BY <1>1, <1>2, <1>3, <2>1, <2>2 DEF NoRewrite
<1>12. CASE RewriteIsStale(w)
  <2>1. rewriter[w].pc # "none" /\ child[w].pc # "none"
    BY <1>2, <1>12 DEF RewriteIsStale
  <2>2. CASE Raises(w)
    BY <1>3, <1>4, <2>1, <2>2
  <2>3. CASE /\ UNCHANGED <<vars, parent, child>>
             /\ \E todo, moved : rewriter' = [rewriter EXCEPT ![w].pc = "restore",
                                   ![w].todo = todo, ![w].moved = moved]
    BY <1>1, <2>1, <2>3
  <2> QED
    BY <1>12, <2>2, <2>3 DEF RewriteIsStale, Untouched, prvars
<1>13. CASE StaleRestores(w)
  <2>1. rewriter[w].pc # "none" /\ child[w].pc # "none"
    BY <1>2, <1>13 DEF StaleRestores
  <2>2. /\ UNCHANGED <<vars, parent>>
        /\ \/ /\ UNCHANGED child
              /\ \E todo, moved : rewriter' = [rewriter EXCEPT ![w].todo = todo,
                                                               ![w].moved = moved]
           \/ /\ ChildTo(w, "error")
              /\ rewriter' = [rewriter EXCEPT ![w] = NoRewrite]
    BY <1>13 DEF StaleRestores, ChildEnds, Untouched, prvars
  <2>3. CASE \E todo, moved : rewriter' = [rewriter EXCEPT ![w].todo = todo,
                                                         ![w].moved = moved]
    <3>1. /\ DOMAIN rewriter' = Worker /\ rewriter'[w].config = rewriter[w].config
          /\ \A v \in Worker \ {w} : rewriter'[v] = rewriter[v]
      BY <1>1, <2>3
    <3> QED
      BY <1>3, <2>1, <2>2, <3>1
  <2>4. CASE rewriter' = [rewriter EXCEPT ![w] = NoRewrite]
    <3>1. /\ DOMAIN rewriter' = Worker /\ rewriter'[w].pc = "none"
          /\ \A v \in Worker \ {w} : rewriter'[v] = rewriter[v]
      BY <1>1, <2>4 DEF NoRewrite
    <3> QED
      BY <1>3, <2>1, <2>2, <3>1
  <2> QED
    BY <2>2, <2>3, <2>4
<1> QED
  BY <1>5, <1>6, <1>7, <1>8, <1>9, <1>10, <1>11, <1>12, <1>13 DEF RewriteStep

LEMMA RewriterKnows ==
  ASSUME PhaseInv, RewriteInv, ThreadKnows, NEW w \in Worker, RewriteStep(w) \/ RewriteFails(w)
  PROVE  ThreadKnows'
<1> PICK o \in Worker : o = Owner
  BY ParentFacts
<1>1. Tame
  BY RewriterRow, TameStill, TameBatch, ParentFacts DEF ReadResumePoint, vars, db
<1>2. UNCHANGED parent /\ child[w].pc # "none"
  BY RewriterRow
<1>3. child'[o].config = child[o].config /\ child'[o].phase = child[o].phase
  <2>1. CASE child'[o] = child[o]
    BY <2>1
  <2>2. CASE o = w /\ \E pc : ChildTo(w, pc)
    <3>1. child \in [Worker -> ChildType]
      BY ParentFacts
    <3> QED
      BY <2>2, <3>1 DEF ChildTo, ChildType
  <2> QED
    BY <2>1, <2>2, RewriterRow
<1>4. child'[o].pc # "none" => child[o].pc # "none"
  BY RewriterRow
<1>5. (Carrying /\ rewriter'[o].pc # "none") =>
        \/ rewriter[o].pc # "none" /\ rewriter'[o].config = rewriter[o].config
        \/ rewriter'[o].config = parent.config
  <2>1. CASE w # o
    BY <2>1, RewriterRow
  <2>2. CASE w = o
    <3>1. (Carrying /\ status = "exporting") => task[T].config = parent.config
      BY Statuses DEF ThreadKnows, WORKER_PHASES
    <3> QED
      BY <2>2, <3>1, RewriterRow
  <2> QED
    BY <2>1, <2>2
<1>6. /\ parent.pc = "result" => parent.msg \in Answers
      /\ (parent.pc = "record" /\ parent.seen = parent.phase) => parent.msg = "complete"
      /\ parent.pc = "finalize" => parent.msg = "complete"
  BY DEF ThreadKnows, Answers
<1>7. Carrying' => Carrying
  BY <1>2 DEF Carrying
<1> QED
  BY <1>1, <1>2, <1>3, <1>4, <1>5, <1>6, <1>7, KnowsGoesOn DEF Answers

LEMMA ThreadKnowsSound ==
  ASSUME PhaseInv, RewriteInv, ThreadKnows, PhaseInv', RewriteInv', [RewriteNext]_rxvars
  PROVE  ThreadKnows'
<1>1. CASE UNCHANGED rxvars
  <2>1. UNCHANGED <<vars, parent, child, rewriter>>
    BY <1>1 DEF rxvars, allvars, prvars, rwvars, filevars
  <2> QED
    BY <2>1, KnowsBeside, TameStill DEF vars
<1>2. CASE RewriteNext
  BY <1>2, BackendKnows, RewriterKnows, ApiKnows DEF RewriteNext
<1> QED
  BY <1>1, <1>2

-----------------------------------------------------------------------------
(* What a child will move, and has moved, is what was confirmed.           *)

LEMMA RowStays ==
  ASSUME NEW w \in Worker, RowKnows(w, rewriter[w]), confirmed \subseteq confirmed',
         \/ rewriter'[w] = NoRewrite
         \/ rewriter'[w] = rewriter[w]
            /\ (rewriter[w].pc # "none" => child'[w].phase = child[w].phase)
  PROVE  RowKnows(w, rewriter[w])'
<1>1. CASE rewriter'[w] = NoRewrite
  BY <1>1 DEF RowKnows, NoRewrite, Busy, Moving, Filling
<1>2. CASE /\ rewriter'[w] = rewriter[w]
           /\ rewriter[w].pc # "none" => child'[w].phase = child[w].phase
  <2>1. ASSUME NEW r, Confirmed(r.config, r.curated) PROVE Confirmed(r.config, r.curated)'
    BY <2>1 DEF Confirmed
  <2>2. PICK r : r = rewriter[w] /\ r = rewriter'[w]
    BY <1>2
  <2>3. RowKnows(w, r)
    BY <2>2
  <2>4. r.pc # "none" => child'[w].phase = "exporting"
    BY <1>2, <2>2, <2>3 DEF RowKnows
  <2>5. RowKnows(w, r)'
    BY <2>1, <2>3, <2>4 DEF RowKnows
  <2> QED
    BY <2>2, <2>5
<1> QED
  BY <1>1, <1>2

(* The row of the child that takes a step.                                 *)
LEMMA RewriterRowKnows ==
  ASSUME RewriteInv, NEW w \in Worker, RowKnows(w, rewriter[w]),
         RewriteStep(w) \/ RewriteFails(w), child'[w].phase = child[w].phase
  PROVE  RowKnows(w, rewriter[w])' /\ UNCHANGED confirmed
<1> PICK r : r = rewriter[w]
  OBVIOUS
<1>0. /\ RewriterShape(r) /\ RowWarranted(r) /\ DOMAIN rewriter = Worker
      /\ r.pc = "none" => r = NoRewrite
      /\ RowKnows(w, r)
  BY AtWork DEF RewriteInv, RewriterAlive
<1> USE DEF RewriterShape
<1>1. ASSUME rewriter'[w] = NoRewrite PROVE RowKnows(w, rewriter[w])'
  BY <1>1 DEF RowKnows, NoRewrite, Busy, Moving, Filling
<1>2. ASSUME UNCHANGED confirmed, child[w].phase = "exporting", r.pc # "none" \/ r.moved = {},
             NEW pc, rewriter' = [rewriter EXCEPT ![w].pc = pc],
             pc \in Filling => Confirmed(r.config, r.curated),
             pc \in Filling => Sample \ r.curated = r.moved \cup r.todo,
             pc \in {"read", "commit"} => r.todo = {},
             pc \in Busy => r.backup # 0
      PROVE  RowKnows(w, rewriter[w])'
  <2>1. PICK q : q = rewriter'[w]
    OBVIOUS
  <2>2. /\ q.pc = pc /\ q.config = r.config /\ q.curated = r.curated /\ q.backup = r.backup
        /\ q.todo = r.todo /\ q.moved = r.moved
    BY <1>0, <1>2, <2>1
  <2>3. Confirmed(r.config, r.curated) => Confirmed(q.config, q.curated)'
    BY <1>2, <2>2 DEF Confirmed
  <2>4. RowKnows(w, q)'
    BY <1>0, <1>2, <2>2, <2>3 DEF RowKnows
  <2> QED
    BY <2>1, <2>4
<1>3. ASSUME Raises(w) PROVE RowKnows(w, rewriter[w])' /\ UNCHANGED confirmed
  BY <1>0, <1>1, <1>3 DEF Raises
<1>4. CASE RewriteStarts(w)
  <2>1. UNCHANGED confirmed /\ child[w].phase = "exporting"
        /\ \/ UNCHANGED rewriter
           \/ rewriter' = [rewriter EXCEPT ![w].pc = "load", ![w].config = task[T].config]
    BY <1>4 DEF RewriteStarts
  <2>2. r = NoRewrite
    BY <1>4, AtWork DEF RewriteStarts
  <2>3. CASE UNCHANGED rewriter
    BY <2>1, <2>3, <1>0, RowStays
  <2>4. CASE rewriter' = [rewriter EXCEPT ![w].pc = "load", ![w].config = task[T].config]
    <3>1. PICK q : q = rewriter'[w]
      OBVIOUS
    <3>2. q = [NoRewrite EXCEPT !.pc = "load", !.config = task[T].config]
      BY <1>0, <2>2, <2>4, <3>1
    <3>3. q.pc = "load" /\ q.curated = {} /\ q.backup = 0 /\ q.moved = {}
      BY <3>2 DEF NoRewrite
    <3> QED
      BY <2>1, <3>1, <3>3 DEF RowKnows, Busy, Moving, Filling
  <2> QED
    BY <2>1, <2>3, <2>4
<1>5. CASE RewriteLoads(w)
  <2>1. CASE Raises(w)
    BY <1>3, <2>1
  <2>2. CASE ~Raises(w)
    <3>1. PICK c : /\ c = CuratedMembers(decision, r.config)
                   /\ rewriter' = [rewriter EXCEPT ![w].pc = "check", ![w].curated = c,
                                                   ![w].todo = Sample \ c]
                   /\ UNCHANGED confirmed /\ child[w].phase = "exporting" /\ r.pc = "load"
      BY <1>5, <2>2 DEF RewriteLoads, Rewriting, Untouched
    <3>2. c \subseteq Sample
      BY <3>1 DEF CuratedMembers, Broad
    <3>3. /\ rewriter'[w].pc = "check" /\ rewriter'[w].curated = c
          /\ rewriter'[w].backup = 0 /\ rewriter'[w].moved = {}
      BY <1>0, <3>1 DEF RowWarranted, Early
    <3> QED
      BY <3>1, <3>2, <3>3 DEF RowKnows, Busy, Moving, Filling
  <2> QED
    BY <2>1, <2>2
<1>6. CASE RewriteChecks(w)
  <2>1. CASE Raises(w)
    BY <1>3, <2>1
  <2>2. CASE ~Raises(w)
    <3>1. /\ Confirmed(r.config, r.curated) /\ UNCHANGED confirmed
          /\ child[w].phase = "exporting" /\ r.pc = "check"
          /\ \/ r.todo = {} /\ rewriter' = [rewriter EXCEPT ![w].pc = "read"]
             \/ \E b \in Backup : rewriter' = [rewriter EXCEPT ![w].pc = "move",
                                                               ![w].backup = b]
      BY <1>6, <2>2 DEF RewriteChecks, Rewriting, Untouched
    <3>2. r.moved = {} /\ r.todo = Sample \ r.curated /\ r.backup = 0
      BY <1>0, <3>1 DEF RowWarranted, Early
    <3>3. CASE r.todo = {} /\ rewriter' = [rewriter EXCEPT ![w].pc = "read"]
      BY <1>2, <3>1, <3>2, <3>3 DEF Busy, Moving
    <3>4. ASSUME NEW b \in Backup, rewriter' = [rewriter EXCEPT ![w].pc = "move",
                                                                ![w].backup = b]
          PROVE  RowKnows(w, rewriter[w])'
      <4>1. PICK q : q = rewriter'[w]
        OBVIOUS
      <4>2. /\ q.pc = "move" /\ q.config = r.config /\ q.curated = r.curated
            /\ q.todo = r.todo /\ q.moved = r.moved /\ q.backup = b
        BY <1>0, <3>4, <4>1
      <4>3. Confirmed(q.config, q.curated)' /\ b # 0 /\ r.curated \subseteq Sample
        BY <1>0, <3>1, <4>2, Numbers DEF Confirmed, RowKnows
      <4>4. RowKnows(w, q)'
        BY <3>1, <3>2, <4>2, <4>3 DEF RowKnows
      <4> QED
        BY <4>1, <4>4
    <3> QED
      BY <3>1, <3>3, <3>4
  <2> QED
    BY <2>1, <2>2
<1>7. CASE RewriteMoves(w)
  <2>1. PICK s \in Sample : /\ s \in r.todo /\ r.pc = "move" /\ child[w].phase = "exporting"
                            /\ UNCHANGED confirmed
                            /\ rewriter' = [rewriter EXCEPT ![w].pc = "record",
                                 ![w].todo = r.todo \ {s}, ![w].moved = r.moved \cup {s}]
    BY <1>7 DEF RewriteMoves, Rewriting, IsFirst, Untouched
  <2>2. PICK q : q = rewriter'[w]
    OBVIOUS
  <2>3. /\ q.pc = "record" /\ q.config = r.config /\ q.curated = r.curated
        /\ q.todo = r.todo \ {s} /\ q.moved = r.moved \cup {s} /\ q.backup = r.backup
    BY <1>0, <2>1, <2>2
  <2>4. /\ Confirmed(q.config, q.curated)' /\ r.backup # 0 /\ r.curated \subseteq Sample
        /\ Sample \ q.curated = q.moved \cup q.todo
    <3>1. Confirmed(r.config, r.curated) /\ Sample \ r.curated = r.moved \cup r.todo
          /\ r.backup # 0 /\ r.curated \subseteq Sample
      BY <1>0, <2>1 DEF RowKnows, Filling, Busy, Moving
    <3> QED
      BY <2>1, <2>3, <3>1 DEF Confirmed
  <2>5. RowKnows(w, q)'
    BY <2>1, <2>3, <2>4 DEF RowKnows
  <2> QED
    BY <2>1, <2>2, <2>5
<1>8. CASE RewriteRecords(w) \/ RewriteFails(w) \/ RewriteReads(w)
  <2>1. /\ UNCHANGED confirmed /\ child[w].phase = "exporting"
        /\ \/ /\ r.pc = "record"
              /\ rewriter' = [rewriter EXCEPT ![w].pc = IF r.todo = {} THEN "read" ELSE "move"]
           \/ r.pc \in {"move", "record"} /\ rewriter' = [rewriter EXCEPT ![w].pc = "undo"]
           \/ r.pc = "read" /\ rewriter' = [rewriter EXCEPT ![w].pc = "commit"]
    BY <1>8 DEF RewriteRecords, RewriteFails, RewriteReads, Rewriting, Untouched, AllMoved
  <2>2. PICK pc : /\ rewriter' = [rewriter EXCEPT ![w].pc = pc]
                  /\ pc \in Filling => r.pc \in Filling
                  /\ pc \in {"read", "commit"} => r.todo = {}
                  /\ pc \in Busy => r.backup # 0
                  /\ r.pc # "none"
    BY <1>0, <2>1 DEF RowKnows, Filling, Busy, Moving
  <2>3. r.pc # "none" \/ r.moved = {}
    BY <2>2
  <2>4. UNCHANGED confirmed /\ child[w].phase = "exporting"
    BY <2>1
  <2>5. /\ pc \in Filling => Confirmed(r.config, r.curated)
        /\ pc \in Filling => Sample \ r.curated = r.moved \cup r.todo
        /\ pc \in {"read", "commit"} => r.todo = {}
        /\ pc \in Busy => r.backup # 0
    BY <1>0, <2>2 DEF RowKnows
  <2>6. rewriter' = [rewriter EXCEPT ![w].pc = pc]
    BY <2>2
  <2>7. RowKnows(w, rewriter[w])'
    BY <1>2, <2>3, <2>4, <2>5, <2>6
  <2> QED
    BY <2>4, <2>7
<1>9. ASSUME UNCHANGED confirmed, child[w].phase = "exporting",
             r.backup # 0, NEW pc \in {"undo", "restore"}, NEW todo, NEW moved,
             rewriter' = [rewriter EXCEPT ![w].pc = pc, ![w].todo = todo, ![w].moved = moved]
      PROVE  RowKnows(w, rewriter[w])'
  <2>1. PICK q : q = rewriter'[w]
    OBVIOUS
  <2>2. q.pc = pc /\ q.curated = r.curated /\ q.backup = r.backup
    BY <1>0, <1>9, <2>1
  <2>3. RowKnows(w, q)'
    BY <1>0, <1>9, <2>2 DEF RowKnows, Filling
  <2> QED
    BY <2>1, <2>3
<1>10. CASE UndoMoves(w)
  <2>1. PICK moved : rewriter' = [rewriter EXCEPT ![w].moved = moved]
    BY <1>10 DEF UndoMoves
  <2>2. /\ UNCHANGED confirmed /\ child[w].phase = "exporting" /\ r.pc = "undo"
    BY <1>10 DEF UndoMoves, Rewriting, Untouched
  <2>3. r.backup # 0 /\ r.curated \subseteq Sample
    BY <1>0, <2>2 DEF RowKnows, Busy
  <2>4. PICK q : q = rewriter'[w]
    OBVIOUS
  <2>5. q.pc = r.pc /\ q.curated = r.curated /\ q.backup = r.backup
    BY <1>0, <2>1, <2>4
  <2>6. RowKnows(w, q)'
    BY <2>2, <2>3, <2>5 DEF RowKnows, Filling
  <2> QED
    BY <2>2, <2>4, <2>6
<1>11. CASE StaleRestores(w)
  <2>1. /\ UNCHANGED confirmed /\ child[w].phase = "exporting" /\ r.pc = "restore"
    BY <1>11 DEF StaleRestores, Rewriting, Untouched
  <2>2. r.backup # 0 /\ r.curated \subseteq Sample
    BY <1>0, <2>1 DEF RowKnows, Busy
  <2>3. CASE rewriter' = [rewriter EXCEPT ![w] = NoRewrite]
    BY <1>0, <1>1, <2>1, <2>3
  <2>4. ASSUME NEW todo, NEW moved,
               rewriter' = [rewriter EXCEPT ![w].todo = todo, ![w].moved = moved]
        PROVE  RowKnows(w, rewriter[w])'
    <3>1. PICK q : q = rewriter'[w]
      OBVIOUS
    <3>2. q.pc = r.pc /\ q.curated = r.curated /\ q.backup = r.backup
      BY <1>0, <2>4, <3>1
    <3>3. RowKnows(w, q)'
      BY <2>1, <2>2, <3>2 DEF RowKnows, Filling
    <3> QED
      BY <3>1, <3>3
  <2> QED
    BY <1>11, <2>1, <2>3, <2>4 DEF StaleRestores
<1>12. CASE RewriteIsStale(w)
  <2>1. CASE Raises(w)
    BY <1>3, <2>1
  <2>2. CASE ~Raises(w)
    <3>1. /\ UNCHANGED confirmed /\ child[w].phase = "exporting" /\ r.backup # 0
          /\ rewriter' = [rewriter EXCEPT ![w].pc = "restore",
               ![w].todo = manifest[r.backup].moved, ![w].moved = {}]
      BY <1>12, <2>2 DEF RewriteIsStale, Rewriting, Untouched
    <3> QED
      BY <1>9, <3>1
  <2> QED
    BY <2>1, <2>2
<1>13. CASE UndoDiscards(w) \/ StaleRestored(w) \/ RewriteCommits(w)
  BY <1>0, <1>1, <1>13 DEF UndoDiscards, StaleRestored, RewriteCommits
<1> QED
  BY <1>4, <1>5, <1>6, <1>7, <1>8, <1>10, <1>11, <1>12, <1>13 DEF RewriteStep

LEMMA RowsKnow ==
  ASSUME PhaseInv, RewriteInv, \A v \in Worker : RowKnows(v, rewriter[v]),
         [RewriteNext]_rxvars, NEW w \in Worker
  PROVE  RowKnows(w, rewriter[w])'
<1>1. ASSUME UNCHANGED <<child, rewriter>>, confirmed \subseteq confirmed'
      PROVE  RowKnows(w, rewriter[w])'
  BY <1>1, RowStays
<1>2. CASE UNCHANGED rxvars
  BY <1>1, <1>2 DEF rxvars, allvars, prvars, rwvars, filevars
<1>3. CASE ReviewApi
  <2>1. UNCHANGED <<child, rewriter>>
    BY <1>3 DEF ReviewApi, SwitchConfig, LateDecision, ConfirmRewrite, BeginRestore,
       RestoreMove, RestoreWrite, allvars, prvars, rwvars, filevars
  <2>2. confirmed \subseteq confirmed'
    BY <1>3 DEF ReviewApi, SwitchConfig, LateDecision, ConfirmRewrite, BeginRestore,
       RestoreMove, RestoreWrite, rwvars
  <2> QED
    BY <1>1, <2>1, <2>2
<1>4. CASE BackendStep
  <2>1. ChildChange
    BY <1>4, BackendSound DEF BackendStep, RewriteInv
  <2>2. \/ rewriter'[w] = NoRewrite
        \/ rewriter'[w] = rewriter[w]
           /\ (rewriter[w].pc # "none" => child'[w].phase = child[w].phase)
    BY <1>4, <2>1, RowsKept DEF ChildChange, RewriteInv, RewriterAlive, NoRewrite
  <2> QED
    BY <1>4, <2>2, RowStays, RowsKept
<1>5. ASSUME NEW v \in Worker, RewriteStep(v) \/ RewriteFails(v)
      PROVE  RowKnows(w, rewriter[w])'
  <2>1. child'[v].phase = child[v].phase
    <3>1. child \in [Worker -> ChildType]
      BY ParentFacts
    <3>2. child' = child \/ \E pc : child' = [child EXCEPT ![v].pc = pc]
      BY <1>5, RewriterRow DEF ChildTo
    <3> QED
      BY <3>1, <3>2 DEF ChildType
  <2>2. RowKnows(v, rewriter[v])' /\ UNCHANGED confirmed
    BY <1>5, <2>1, RewriterRowKnows
  <2>3. CASE w = v
    BY <2>2, <2>3
  <2>4. CASE w # v
    BY <1>5, <2>2, <2>4, RowStays, RewriterRow
  <2> QED
    BY <2>3, <2>4
<1> QED
  BY <1>2, <1>3, <1>4, <1>5 DEF RewriteNext


-----------------------------------------------------------------------------
(* The files.  A child at work touches the source folder and backup b, its *)
(* own or a new one, and is still at b afterwards or leaves nothing there  *)
(* to restore.                                                             *)
Aside(w, b) ==
  /\ OneRow(w)
  /\ UNCHANGED <<restorer, raced, recalled, confirmed>>
  /\ \/ rewriter[w].backup = b
     \/ /\ rewriter[w].backup = 0 /\ b \in Backup
        /\ manifest[b].state = "absent"
        /\ \A n \in 1..(b - 1) : manifest[n].state # "absent"
        /\ rewriter'[w].backup = b
  /\ \/ rewriter'[w].backup = b
     \/ /\ rewriter'[w] = NoRewrite
        /\ b # 0 => manifest'[b].state # "active" /\ \A s \in Sample : place'[s] # b
  /\ \A s \in Sample : place'[s] = place[s] \/ {place[s], place'[s]} \subseteq {Source, b}
  /\ \A c \in Backup \ {b} : manifest'[c] = manifest[c]
  /\ b # 0 => manifest'[b].state # "absent"

LEMMA AsideOwn ==
  ASSUME RewriteInv, raced = {}, NEW w \in Worker, NEW b \in 0..MaxBackup, Aside(w, b)
  PROVE  /\ \A v \in Worker \ {w} : rewriter'[v] = rewriter[v] /\ rewriter[v].backup \in 0..MaxBackup
         /\ b # 0 => /\ b \in Backup
                     /\ restorer.backup # b
                     /\ \A v \in Worker \ {w} : rewriter[v].backup # b
                     /\ rewriter[w].backup = b => manifest[b].state # "absent"
         /\ rewriter[w].backup \in {0, b}
         /\ rewriter'[w].backup \in {0, b}
<1>1. /\ \A v \in Worker : OwnBackup(v) /\ rewriter[v].backup \in 0..MaxBackup
      /\ RestoreSound
  BY DEF RewriteInv, Kept, FilesTyped, RewriterShape
<1>2. /\ \A v \in Worker \ {w} : rewriter'[v] = rewriter[v]
      /\ rewriter[w].backup \in {0, b} /\ rewriter'[w].backup \in {0, b}
  BY DEF Aside, OneRow, NoRewrite
<1>3. ASSUME b # 0
      PROVE  /\ b \in Backup
             /\ restorer.backup # b
             /\ \A v \in Worker \ {w} : rewriter[v].backup # b
             /\ rewriter[w].backup = b => manifest[b].state # "absent"
  <2>1. b \in Backup
    BY <1>3, Numbers
  <2>2. CASE rewriter[w].backup = b
    BY <1>1, <1>3, <2>1, <2>2 DEF OwnBackup, OwnFiles
  <2>3. CASE rewriter[w].backup = 0 /\ manifest[b].state = "absent"
    BY <1>1, <1>3, <2>1, <2>3 DEF OwnBackup, OwnFiles, RestoreSound
  <2> QED
    BY <2>2, <2>3 DEF Aside
<1> QED
  BY <1>1, <1>2, <1>3

LEMMA AsideOrder ==
  ASSUME RewriteInv, raced = {}, NEW w \in Worker, NEW b \in 0..MaxBackup, Aside(w, b), InOrder
  PROVE  InOrder'
<1> SUFFICES ASSUME NEW n \in Backup, NEW m \in 1..n, manifest'[m].state = "absent"
             PROVE  manifest'[n].state = "absent"
  BY DEF InOrder
<1>1. m \in Backup /\ m \in Nat /\ n \in Nat /\ m <= n /\ m >= 1
  BY Numbers
<1>2. m # b
  BY <1>1 DEF Aside
<1>3. manifest[m].state = "absent"
  BY <1>1, <1>2 DEF Aside
<1>4. manifest[n].state = "absent"
  BY <1>3 DEF InOrder
<1>5. CASE n = b
  <2>1. rewriter[w].backup # b /\ m \in 1..(b - 1)
    BY <1>1, <1>2, <1>4, <1>5, AsideOwn
  <2> QED
    BY <1>3, <2>1 DEF Aside
<1>6. CASE n # b
  BY <1>4, <1>6 DEF Aside
<1> QED
  BY <1>5, <1>6

LEMMA AsideHolding ==
  ASSUME RewriteInv, raced = {}, NEW w \in Worker, NEW b \in 0..MaxBackup, Aside(w, b),
         NEW v \in Worker \ {w}, Holding(rewriter[v])
  PROVE  Holding(rewriter[v])'
<1>1. PICK r : r = rewriter[v]
  OBVIOUS
<1>2. rewriter'[v] = r /\ r.backup \in 0..MaxBackup
  BY <1>1, AsideOwn
<1>3. CASE r.backup = 0
  BY <1>2, <1>3 DEF Holding
<1>4. CASE r.backup # 0
  <2>1. r.backup \in Backup /\ r.backup # b
    BY <1>1, <1>2, <1>4, AsideOwn, Numbers
  <2>2. manifest'[r.backup] = manifest[r.backup]
    BY <2>1 DEF Aside
  <2>3. \A s \in Sample : place'[s] = r.backup <=> place[s] = r.backup
    BY <1>4, <2>1, Numbers DEF Aside
  <2>4. Holding(r)
    BY <1>1
  <2>5. Holding(r)'
    BY <1>4, <2>2, <2>3, <2>4 DEF Holding
  <2> QED
    BY <1>2, <2>5
<1> QED
  BY <1>3, <1>4

LEMMA AsideRestore ==
  ASSUME RewriteInv, raced = {}, NEW w \in Worker, NEW b \in 0..MaxBackup, Aside(w, b), RestoreExact
  PROVE  RestoreExact'
<1>1. restorer' = restorer
  BY DEF Aside
<1>2. /\ restorer.todo \subseteq Sample
      /\ restorer.backup = 0 => restorer.todo = {}
  BY DEF RewriteInv, FilesTyped, NoRestore
<1>3. ASSUME NEW s \in restorer.todo PROVE place'[s] = restorer.backup
  <2>1. place[s] = restorer.backup /\ restorer.backup # 0 /\ s \in Sample
    BY <1>2, <1>3 DEF RestoreExact
  <2>2. restorer.backup # b
    BY <2>1, AsideOwn
  <2> QED
    BY <2>1, <2>2, Numbers DEF Aside
<1> QED
  BY <1>1, <1>3 DEF RestoreExact

(* A new backup has the highest number.                                    *)
LEMMA AsideAround ==
  ASSUME RewriteInv, raced = {}, NEW w \in Worker, NEW b \in 0..MaxBackup, Aside(w, b),
         NEW d \in 0..MaxBackup,
         \/ Around(d)
         \/ Around(0) /\ InOrder /\ d = b /\ rewriter[w].backup # b
  PROVE  Around(d)'
<1>1. /\ \A v \in Worker \ {w} : rewriter'[v] = rewriter[v]
      /\ rewriter[w].backup \in {0, b} /\ rewriter'[w].backup \in {0, b}
  BY AsideOwn
<1>2. ASSUME b # 0, rewriter'[w].backup # b
      PROVE  manifest'[b].state # "active" /\ \A s \in Sample : place'[s] # b
  BY <1>2 DEF Aside
<1>3. ASSUME NEW s \in Sample
      PROVE  place'[s] \in {Source, d} \cup {rewriter'[v].backup : v \in Worker}
  <2>1. place[s] \in {Source, d} \cup {rewriter[v].backup : v \in Worker}
    BY Numbers DEF Around
  <2>2. CASE place'[s] = b
    BY <1>2, <2>2, Numbers
  <2>3. CASE place'[s] # b
    <3>1. place'[s] = Source \/ place'[s] = place[s]
      BY <2>3 DEF Aside
    <3>2. CASE \E v \in Worker : place[s] = rewriter[v].backup
      BY <1>1, <2>3, <3>1, <3>2, Numbers
    <3> QED
      BY <2>1, <3>1, <3>2
  <2> QED
    BY <2>2, <2>3
<1>4. ASSUME d # 0, NEW n \in Backup, n > d, manifest'[n].state = "active"
      PROVE  \E v \in Worker : rewriter'[v].backup = n
  <2>1. CASE n = b
    BY <1>2, <1>4, <2>1, Numbers
  <2>2. CASE n # b
    <3>1. manifest[n].state = "active" /\ n # 0
      BY <1>4, <2>2, Numbers DEF Aside
    <3>2. CASE Around(d)
      <4>1. PICK v \in Worker : rewriter[v].backup = n
        BY <1>4, <3>1, <3>2 DEF Around
      <4>2. v # w
        BY <1>1, <2>2, <3>1, <4>1
      <4> QED
        BY <1>1, <4>1, <4>2
    <3>3. CASE InOrder /\ d = b /\ rewriter[w].backup # b
      <4>1. manifest[b].state = "absent" /\ b \in 1..n
        BY <1>4, <3>3, Numbers DEF Aside
      <4> QED
        BY <3>1, <3>3, <4>1 DEF InOrder
    <3> QED
      BY <3>2, <3>3
  <2> QED
    BY <2>1, <2>2
<1> QED
  BY <1>3, <1>4 DEF Around

LEMMA AsideSettled ==
  ASSUME RewriteInv, raced = {}, NEW w \in Worker, NEW b \in 0..MaxBackup, Aside(w, b),
         NEW d \in 0..MaxBackup, Settled(d)
  PROVE  Settled(d)' /\ \A c : Taken(d, c) => Taken(d, c)'
<1>1. Around(d)'
  BY AsideAround DEF Settled
<1>2. /\ \A v \in Worker \ {w} : rewriter'[v] = rewriter[v]
      /\ rewriter[w].backup \in {0, b} /\ rewriter'[w].backup \in {0, b}
  BY AsideOwn
<1>3. restorer' = restorer /\ confirmed' = confirmed
  BY DEF Aside
<1>4. ASSUME d # 0
      PROVE  /\ \A v \in Worker : rewriter'[v].backup # d
             /\ manifest'[d] = manifest[d]
             /\ \A s \in Sample : place'[s] = d <=> place[s] = d
  <2>1. d \in Backup /\ \A v \in Worker : rewriter[v].backup # d
    BY <1>4, Numbers DEF Settled
  <2>2. manifest[d].state # "absent"
    <3>1. CASE restorer.backup = d
      BY <1>4, <3>1 DEF RewriteInv, Kept, RestoreSound
    <3>2. CASE restorer.backup # d
      BY <1>4, <3>2 DEF Settled
    <3> QED
      BY <3>1, <3>2
  <2>3. d # b
    BY <1>4, <2>1, <2>2 DEF Aside
  <2>4. \A v \in Worker : rewriter'[v].backup # d
    BY <1>2, <1>4, <2>1, <2>3
  <2> QED
    BY <1>4, <2>1, <2>3, <2>4, Numbers DEF Aside
<1>5. Settled(d)'
  BY <1>1, <1>3, <1>4 DEF Settled
<1>6. ASSUME NEW c, Taken(d, c) PROVE Taken(d, c)'
  BY <1>3, <1>4, <1>6 DEF Taken
<1> QED
  BY <1>5, <1>6

(* What a step of a rewriting child, except its commit, means to others.   *)
AsideStep(w) ==
  \E b \in 0..MaxBackup :
    /\ Aside(w, b)
    /\ Holding(rewriter[w])'
    /\ rewriter'[w].pc \in Placing =>
         \/ rewriter[w].pc \in Placing /\ rewriter'[w].backup = b
         \/ InSource(Sample) /\ place' = place /\ rewriter'[w].backup = 0

LEMMA AsideForgets ==
  ASSUME RewriteInv, NEW w \in Worker, OneRow(w), rewriter'[w] = NoRewrite,
         UNCHANGED <<restorer, raced, recalled, confirmed, place, manifest>>,
         rewriter[w].backup = 0
  PROVE  AsideStep(w)
<1>1. Aside(w, 0)
  BY DEF Aside
<1>2. Holding(NoRewrite)' /\ NoRewrite.pc \notin Placing
  BY DEF Holding, NoRewrite, Placing, Filling
<1> QED
  BY <1>1, <1>2, Numbers DEF AsideStep

LEMMA AsideBegins ==
  ASSUME RewriteInv, NEW w \in Worker, RewriteStarts(w) \/ RewriteLoads(w)
  PROVE  AsideStep(w)
<1>1. /\ DOMAIN rewriter = Worker /\ RewriterShape(rewriter[w]) /\ RowWarranted(rewriter[w])
      /\ child[w].pc # "work" => rewriter[w] = NoRewrite
  BY AtWork
<1>2. CASE RewriteStarts(w)
  <2>1. rewriter[w] = NoRewrite
    BY <1>1, <1>2 DEF RewriteStarts
  <2>2. /\ UNCHANGED <<restorer, raced, recalled, confirmed, place, manifest>>
        /\ \/ UNCHANGED rewriter
           \/ rewriter' = [rewriter EXCEPT ![w].pc = "load", ![w].config = task[T].config]
    BY <1>2 DEF RewriteStarts
  <2>3. /\ OneRow(w) /\ rewriter'[w].backup = 0 /\ rewriter'[w].pc \notin Placing
    BY <1>1, <2>1, <2>2 DEF OneRow, NoRewrite, Placing, Filling
  <2>4. Aside(w, 0)
    BY <2>1, <2>2, <2>3 DEF Aside, NoRewrite
  <2>5. Holding(rewriter[w])'
    BY <2>3 DEF Holding
  <2> QED
    BY <2>3, <2>4, <2>5, Numbers DEF AsideStep
<1>3. CASE RewriteLoads(w)
  <2>1. rewriter[w].backup = 0
    BY <1>1, <1>3 DEF RewriteLoads, Rewriting, RowWarranted, Early
  <2>2. CASE Raises(w)
    <3>1. OneRow(w) /\ rewriter'[w] = NoRewrite
      BY <1>1, <2>2 DEF Raises, OneRow
    <3> QED
      BY <2>1, <2>2, <3>1, AsideForgets DEF Raises
  <2>3. CASE ~Raises(w)
    <3>1. PICK c : /\ rewriter' = [rewriter EXCEPT ![w].pc = "check", ![w].curated = c,
                                                   ![w].todo = Sample \ c]
                   /\ UNCHANGED <<restorer, raced, recalled, confirmed, place, manifest>>
                   /\ InSource(Sample)
      BY <1>3, <2>3 DEF RewriteLoads, Untouched
    <3>2. OneRow(w) /\ rewriter'[w].backup = 0
      BY <1>1, <2>1, <3>1 DEF OneRow, RewriterShape
    <3>3. Aside(w, 0)
      BY <2>1, <3>1, <3>2 DEF Aside
    <3>4. Holding(rewriter[w])'
      BY <3>2 DEF Holding
    <3> QED
      BY <3>1, <3>2, <3>3, <3>4, Numbers DEF AsideStep
  <2> QED
    BY <2>2, <2>3
<1> QED
  BY <1>2, <1>3

LEMMA AsideChecks ==
  ASSUME RewriteInv, raced = {}, NEW w \in Worker, RewriteChecks(w)
  PROVE  AsideStep(w)
<1> PICK r : r = rewriter[w]
  OBVIOUS
<1>1. /\ DOMAIN rewriter = Worker /\ RewriterShape(r) /\ r = rewriter[w]
      /\ r.pc = "check" /\ r.backup = 0 /\ r.moved = {}
  BY AtWork DEF RewriteChecks, Rewriting, RowWarranted, Early
<1>2. CASE Raises(w)
  <2>1. OneRow(w) /\ rewriter'[w] = NoRewrite
    BY <1>1, <1>2 DEF Raises, OneRow
  <2> QED
    BY <1>1, <1>2, <2>1, AsideForgets DEF Raises
<1>3. CASE /\ rewriter' = [rewriter EXCEPT ![w].pc = "read"]
           /\ UNCHANGED <<restorer, raced, recalled, confirmed, place, manifest>>
  <2>1. OneRow(w) /\ rewriter'[w].backup = 0
    BY <1>1, <1>3 DEF OneRow, RewriterShape
  <2>2. Aside(w, 0)
    BY <1>1, <1>3, <2>1 DEF Aside
  <2>3. Holding(rewriter[w])'
    BY <2>1 DEF Holding
  <2> QED
    BY <1>1, <2>1, <2>2, <2>3, Numbers DEF AsideStep, Placing
<1>4. ASSUME NEW b \in Backup, UNCHANGED <<restorer, raced, recalled, confirmed, place>>,
             manifest[b].state = "absent",
             \A n \in 1..(b - 1) : manifest[n].state # "absent",
             manifest' = [manifest EXCEPT ![b] =
               [state |-> "active", listed |-> r.todo, moved |-> {}]],
             rewriter' = [rewriter EXCEPT ![w].pc = "move", ![w].backup = b]
      PROVE  AsideStep(w)
  <2>1. manifest \in [Backup -> Manifest] /\ b \in 0..MaxBackup /\ b # 0
    BY Numbers DEF RewriteInv, FilesTyped
  <2>2. /\ manifest'[b].state = "active" /\ manifest'[b].moved = {}
        /\ \A c \in Backup \ {b} : manifest'[c] = manifest[c]
    BY <1>4, <2>1
  <2>3. PICK q : q = rewriter'[w]
    OBVIOUS
  <2>4. OneRow(w) /\ q.pc = "move" /\ q.backup = b /\ q.moved = {}
    BY <1>1, <1>4, <2>3 DEF OneRow, RewriterShape
  <2>5. Aside(w, b)
    BY <1>1, <1>4, <2>1, <2>2, <2>3, <2>4 DEF Aside
  <2>6. \A s \in Sample : place[s] # b
    BY <1>4, <2>1, Numbers DEF RewriteInv, Kept, Listed, ManifestsSound
  <2>7. Holding(q)'
    BY <1>4, <2>2, <2>4, <2>6 DEF Holding, Filling
  <2> QED
    BY <1>1, <2>1, <2>3, <2>4, <2>5, <2>7 DEF AsideStep, Placing
<1>5. CASE ~Raises(w)
  <2>1. /\ UNCHANGED <<restorer, raced, recalled, confirmed, place>>
        /\ \/ rewriter' = [rewriter EXCEPT ![w].pc = "read"] /\ UNCHANGED manifest
           \/ \E b \in Backup :
                /\ manifest[b].state = "absent"
                /\ \A n \in 1..(b - 1) : manifest[n].state # "absent"
                /\ manifest' = [manifest EXCEPT ![b] =
                     [state |-> "active", listed |-> r.todo, moved |-> {}]]
                /\ rewriter' = [rewriter EXCEPT ![w].pc = "move", ![w].backup = b]
    BY <1>1, <1>5 DEF RewriteChecks, Untouched
  <2> QED
    BY <1>3, <1>4, <2>1
<1> QED
  BY <1>2, <1>5

(* A child at its own backup.                                              *)
LEMMA AsideGoesOn ==
  ASSUME RewriteInv, NEW w \in Worker, NEW b \in Backup, rewriter[w].backup = b,
         OneRow(w), UNCHANGED <<restorer, raced, recalled, confirmed>>,
         rewriter'[w].backup = b,
         rewriter'[w].pc \in Placing => rewriter[w].pc \in Placing,
         \A s \in Sample : place'[s] = place[s] \/ {place[s], place'[s]} \subseteq {Source, b},
         \A c \in Backup \ {b} : manifest'[c] = manifest[c],
         manifest'[b].state # "absent",
         Holding(rewriter[w])'
  PROVE  AsideStep(w)
<1>1. b \in 0..MaxBackup
  BY Numbers
<1>2. Aside(w, b)
  BY DEF Aside
<1> QED
  BY <1>1, <1>2 DEF AsideStep

LEMMA AsideGivesUp ==
  ASSUME RewriteInv, NEW w \in Worker, NEW b \in Backup, rewriter[w].backup = b,
         OneRow(w), UNCHANGED <<restorer, raced, recalled, confirmed>>,
         rewriter'[w] = NoRewrite, place' = place,
         \A c \in Backup \ {b} : manifest'[c] = manifest[c],
         manifest'[b].state \notin {"absent", "active"},
         \A s \in Sample : place[s] # b
  PROVE  AsideStep(w)
<1>1. b \in 0..MaxBackup
  BY Numbers
<1>2. Aside(w, b)
  BY DEF Aside
<1>3. Holding(NoRewrite)' /\ NoRewrite.pc \notin Placing
  BY DEF Holding, NoRewrite, Placing, Filling
<1> QED
  BY <1>1, <1>2, <1>3 DEF AsideStep

(* What every step of a child at its own backup may use.                   *)
LEMMA AtOwnBackup ==
  ASSUME RewriteInv, raced = {}, NEW w \in Worker, RowKnows(w, rewriter[w]),
         rewriter[w].pc \in Busy \/ rewriter[w].backup # 0
  PROVE  /\ rewriter[w].backup \in Backup /\ rewriter[w].backup # 0
         /\ rewriter[w].backup # Source
         /\ DOMAIN rewriter = Worker /\ RewriterShape(rewriter[w])
         /\ place \in [Sample -> 0..Gone] /\ manifest \in [Backup -> Manifest]
         /\ OwnFiles(rewriter[w])
<1>1. RewriterShape(rewriter[w]) /\ rewriter[w].backup # 0 /\ DOMAIN rewriter = Worker
  BY AtWork DEF RowKnows
<1>2. OwnFiles(rewriter[w])
  BY <1>1 DEF RewriteInv, Kept, OwnBackup
<1> QED
  BY <1>1, <1>2, Numbers DEF RewriteInv, FilesTyped, RewriterShape

LEMMA AsideMoves ==
  ASSUME RewriteInv, raced = {}, NEW w \in Worker, RowKnows(w, rewriter[w]),
         Holding(rewriter[w]), RewriteMoves(w) \/ RewriteRecords(w)
  PROVE  AsideStep(w)
<1> PICK r : r = rewriter[w]
  OBVIOUS
<1> PICK b : b = r.backup
  OBVIOUS
<1>1. /\ b \in Backup /\ b # 0 /\ b # Source /\ DOMAIN rewriter = Worker
      /\ RewriterShape(r) /\ OwnFiles(r)
      /\ place \in [Sample -> 0..Gone] /\ manifest \in [Backup -> Manifest]
      /\ r.pc \in Filling /\ r.pc \in Placing
      /\ UNCHANGED <<restorer, raced, recalled, confirmed>>
  <2>1. r.pc \in Moving /\ UNCHANGED <<restorer, raced, recalled, confirmed>>
    BY DEF RewriteMoves, RewriteRecords, Rewriting, Untouched, Moving
  <2> QED
    BY <2>1, AtOwnBackup DEF Moving, Busy, Filling, Placing
<1>2. /\ manifest[b].state = "active"
      /\ \A s \in Sample : place[s] = b <=> s \in r.moved
      /\ r.pc # "record" => manifest[b].moved = r.moved
  BY <1>1 DEF Holding
<1> PICK q : q = rewriter'[w]
  OBVIOUS
<1>3. CASE RewriteMoves(w)
  <2>1. PICK s \in Sample :
          /\ place[s] = Source /\ s \in r.todo
          /\ place' = [place EXCEPT ![s] = b]
          /\ rewriter' = [rewriter EXCEPT ![w].pc = "record", ![w].todo = r.todo \ {s},
                                          ![w].moved = r.moved \cup {s}]
          /\ UNCHANGED manifest
    BY <1>3 DEF RewriteMoves, IsFirst
  <2>2. OneRow(w) /\ q.pc = "record" /\ q.backup = b /\ q.moved = r.moved \cup {s}
    BY <1>1, <2>1 DEF OneRow, RewriterShape
  <2>3. place'[s] = b /\ \A u \in Sample \ {s} : place'[u] = place[u]
    BY <1>1, <2>1
  <2>4. Holding(q)'
    BY <1>2, <2>1, <2>2, <2>3 DEF Holding, Filling
  <2>5. \A u \in Sample : place'[u] = place[u] \/ {place[u], place'[u]} \subseteq {Source, b}
    BY <2>1, <2>3
  <2>6. /\ manifest'[b].state # "absent" /\ rewriter'[w].backup = b /\ rewriter[w].backup = b
        /\ rewriter[w].pc \in Placing /\ Holding(rewriter[w])'
        /\ \A c \in Backup \ {b} : manifest'[c] = manifest[c]
    BY <1>1, <1>2, <2>1, <2>2, <2>4
  <2> QED
    BY <1>1, <2>2, <2>5, <2>6, AsideGoesOn
<1>4. CASE RewriteRecords(w)
  <2>1. /\ manifest' = [manifest EXCEPT ![b] = Recorded(r)] /\ UNCHANGED place
        /\ rewriter' = [rewriter EXCEPT ![w].pc = IF AllMoved(w) THEN "read" ELSE "move"]
    BY <1>4 DEF RewriteRecords
  <2>2. /\ manifest'[b].state = "active" /\ manifest'[b].moved = r.moved
        /\ \A c \in Backup \ {b} : manifest'[c] = manifest[c]
    BY <1>1, <2>1 DEF Recorded
  <2>3. OneRow(w) /\ q.pc \in {"read", "move"} /\ q.backup = b /\ q.moved = r.moved
    BY <1>1, <2>1 DEF OneRow, RewriterShape
  <2>4. Holding(q)'
    BY <1>2, <2>1, <2>2, <2>3 DEF Holding
  <2>5. /\ manifest'[b].state # "absent" /\ rewriter'[w].backup = b /\ rewriter[w].backup = b
        /\ rewriter[w].pc \in Placing /\ Holding(rewriter[w])'
        /\ \A u \in Sample : place'[u] = place[u]
    BY <1>1, <1>2, <2>1, <2>2, <2>3, <2>4
  <2> QED
    BY <1>1, <2>2, <2>3, <2>5, AsideGoesOn
<1> QED
  BY <1>3, <1>4

LEMMA AsideUndoes ==
  ASSUME RewriteInv, raced = {}, NEW w \in Worker, RowKnows(w, rewriter[w]),
         Holding(rewriter[w]), RewriteFails(w) \/ UndoMoves(w) \/ UndoDiscards(w)
  PROVE  AsideStep(w)
<1> PICK r : r = rewriter[w]
  OBVIOUS
<1> PICK b : b = r.backup
  OBVIOUS
<1>1. /\ b \in Backup /\ b # 0 /\ b # Source /\ DOMAIN rewriter = Worker
      /\ RewriterShape(r) /\ OwnFiles(r)
      /\ place \in [Sample -> 0..Gone] /\ manifest \in [Backup -> Manifest]
      /\ r.pc \in Moving \cup {"undo"}
      /\ UNCHANGED <<restorer, raced, recalled, confirmed>>
  <2>1. r.pc \in Moving \cup {"undo"} /\ UNCHANGED <<restorer, raced, recalled, confirmed>>
    BY DEF RewriteFails, UndoMoves, UndoDiscards, Rewriting, Untouched, Moving
  <2> QED
    BY <2>1, AtOwnBackup DEF Busy
<1>2. /\ manifest[b].state # "absent"
      /\ \A s \in Sample : place[s] = b => s \in r.moved
  BY <1>1 DEF OwnFiles
<1> PICK q : q = rewriter'[w]
  OBVIOUS
<1>3. CASE RewriteFails(w) \/ UndoMoves(w)
  <2>1. /\ UNCHANGED manifest
        /\ \/ UNCHANGED place /\ rewriter' = [rewriter EXCEPT ![w].pc = "undo"]
           \/ /\ r.pc = "undo"
              /\ \E s \in Sample :
                   /\ place' = IF place[s] = b THEN [place EXCEPT ![s] = Source] ELSE place
                   /\ rewriter' = [rewriter EXCEPT ![w].moved = r.moved \ {s}]
    BY <1>3 DEF RewriteFails, UndoMoves, Rewriting
  <2>2. OneRow(w) /\ q.pc = "undo" /\ q.backup = b
    BY <1>1, <2>1 DEF OneRow, RewriterShape
  <2>3. \A u \in Sample : place'[u] = place[u] \/ {place[u], place'[u]} \subseteq {Source, b}
    BY <1>1, <2>1
  <2>4. Holding(q)' /\ q.pc \notin Placing
    BY <2>2 DEF Holding, Filling, Placing
  <2>5. /\ manifest'[b].state # "absent" /\ rewriter'[w].backup = b /\ rewriter[w].backup = b
        /\ rewriter'[w].pc \notin Placing /\ Holding(rewriter[w])'
        /\ \A c \in Backup \ {b} : manifest'[c] = manifest[c]
    BY <1>1, <1>2, <2>1, <2>2, <2>4
  <2> QED
    BY <1>1, <2>2, <2>3, <2>5, AsideGoesOn
<1>4. CASE UndoDiscards(w)
  <2>1. /\ r.moved = {}
        /\ place' = [s \in Sample |-> IF place[s] = b THEN Gone ELSE place[s]]
        /\ manifest' = [manifest EXCEPT ![b] = Discarded]
        /\ rewriter' = [rewriter EXCEPT ![w] = NoRewrite]
    BY <1>4 DEF UndoDiscards, AllPutBack
  <2>2. (\A s \in Sample : place[s] # b) /\ place' = place
    BY <1>1, <1>2, <2>1
  <2>3. /\ manifest'[b].state \notin {"absent", "active"}
        /\ \A c \in Backup \ {b} : manifest'[c] = manifest[c]
    BY <1>1, <2>1 DEF Discarded
  <2>4. OneRow(w) /\ rewriter'[w] = NoRewrite
    BY <1>1, <2>1 DEF OneRow
  <2> QED
    BY <1>1, <2>2, <2>3, <2>4, AsideGivesUp
<1> QED
  BY <1>3, <1>4

LEMMA AsideReads ==
  ASSUME RewriteInv, raced = {}, NEW w \in Worker, RowKnows(w, rewriter[w]),
         Holding(rewriter[w]), RewriteReads(w)
  PROVE  AsideStep(w)
<1> PICK r : r = rewriter[w]
  OBVIOUS
<1> PICK b : b = r.backup
  OBVIOUS
<1> PICK q : q = rewriter'[w]
  OBVIOUS
<1>1. /\ r.pc = "read" /\ rewriter' = [rewriter EXCEPT ![w].pc = "commit"]
      /\ UNCHANGED <<restorer, raced, recalled, confirmed, place, manifest>>
      /\ DOMAIN rewriter = Worker /\ RewriterShape(r) /\ b \in 0..MaxBackup
  BY AtWork DEF RewriteReads, Rewriting, RewriterShape
<1>2. OneRow(w) /\ q.pc = "commit" /\ q.backup = b /\ q.moved = r.moved
  BY <1>1 DEF OneRow, RewriterShape
<1>3. Holding(q)'
  BY <1>1, <1>2 DEF Holding, Filling
<1>4. b # 0 => manifest'[b].state # "absent"
  BY <1>1, AtOwnBackup DEF OwnFiles
<1>5. Aside(w, b)
  BY <1>1, <1>2, <1>4 DEF Aside
<1> QED
  BY <1>1, <1>2, <1>3, <1>5 DEF AsideStep, Placing, Filling

LEMMA AsideIsStale ==
  ASSUME RewriteInv, raced = {}, NEW w \in Worker, RowKnows(w, rewriter[w]),
         Holding(rewriter[w]), RewriteIsStale(w)
  PROVE  AsideStep(w)
<1> PICK r : r = rewriter[w]
  OBVIOUS
<1> PICK b : b = r.backup
  OBVIOUS
<1> PICK q : q = rewriter'[w]
  OBVIOUS
<1>1. r.pc = "commit" /\ DOMAIN rewriter = Worker /\ RewriterShape(r)
  BY AtWork DEF RewriteIsStale, Rewriting
<1>2. CASE b = 0
  <2>1. Raises(w)
    BY <1>2 DEF RewriteIsStale
  <2>2. OneRow(w) /\ rewriter'[w] = NoRewrite
    BY <1>1, <2>1 DEF Raises, OneRow
  <2> QED
    BY <1>2, <2>1, <2>2, AsideForgets DEF Raises
<1>3. CASE b # 0
  <2>1. b \in Backup /\ b # Source /\ manifest[b].state # "absent"
    BY <1>3, AtOwnBackup DEF OwnFiles
  <2>2. /\ manifest[b].state = "active" /\ manifest[b].moved = r.moved
        /\ \A s \in Sample : place[s] = b <=> s \in r.moved
    BY <1>1, <1>3 DEF Holding, Filling
  <2>3. Restorable(b)
    <3>1. manifest[b].moved \subseteq Sample
      BY <1>1, <2>2 DEF RewriterShape
    <3> QED
      BY <2>2, <3>1 DEF Restorable
  <2>4. /\ rewriter' = [rewriter EXCEPT ![w].pc = "restore",
             ![w].todo = manifest[b].moved, ![w].moved = {}]
        /\ UNCHANGED <<restorer, raced, recalled, confirmed, place, manifest>>
    BY <1>3, <2>3 DEF RewriteIsStale, Untouched
  <2>5. OneRow(w) /\ q.pc = "restore" /\ q.backup = b /\ q.todo = r.moved
    BY <1>1, <2>2, <2>4 DEF OneRow, RewriterShape
  <2>6. Holding(q)' /\ q.pc \notin Placing
    BY <2>2, <2>4, <2>5 DEF Holding, Filling, Placing
  <2>7. /\ manifest'[b].state # "absent" /\ rewriter'[w].backup = b /\ rewriter[w].backup = b
        /\ rewriter'[w].pc \notin Placing /\ Holding(rewriter[w])'
        /\ \A c \in Backup \ {b} : manifest'[c] = manifest[c]
        /\ \A u \in Sample : place'[u] = place[u]
    BY <2>1, <2>4, <2>5, <2>6
  <2> QED
    BY <2>1, <2>4, <2>5, <2>7, AsideGoesOn
<1> QED
  BY <1>2, <1>3

LEMMA AsideRestores ==
  ASSUME RewriteInv, raced = {}, NEW w \in Worker, RowKnows(w, rewriter[w]),
         Holding(rewriter[w]), StaleRestores(w) \/ StaleRestored(w)
  PROVE  AsideStep(w)
<1> PICK r : r = rewriter[w]
  OBVIOUS
<1> PICK b : b = r.backup
  OBVIOUS
<1> PICK q : q = rewriter'[w]
  OBVIOUS
<1>1. r.pc = "restore"
  BY DEF StaleRestores, StaleRestored, Rewriting
<1>2. /\ b \in Backup /\ b # 0 /\ b # Source /\ DOMAIN rewriter = Worker
      /\ RewriterShape(r) /\ manifest[b].state # "absent"
      /\ place \in [Sample -> 0..Gone] /\ manifest \in [Backup -> Manifest]
      /\ \A s \in Sample : place[s] = b <=> s \in r.todo
  BY <1>1, AtOwnBackup DEF Busy, OwnFiles, Holding
<1>3. CASE StaleRestores(w)
  <2>1. PICK s \in Sample :
          /\ s \in r.todo
          /\ place[s] = b =>
               /\ place' = [place EXCEPT ![s] = Source]
               /\ rewriter' = [rewriter EXCEPT ![w].todo = r.todo \ {s},
                                               ![w].moved = r.moved \cup {s}]
               /\ UNCHANGED <<restorer, raced, recalled, confirmed, manifest>>
    BY <1>3 DEF StaleRestores, IsFirst, Untouched
  <2>2. /\ place' = [place EXCEPT ![s] = Source]
        /\ rewriter' = [rewriter EXCEPT ![w].todo = r.todo \ {s},
                                        ![w].moved = r.moved \cup {s}]
        /\ UNCHANGED <<restorer, raced, recalled, confirmed, manifest>>
    BY <1>2, <2>1
  <2>3. OneRow(w) /\ q.pc = "restore" /\ q.backup = b /\ q.todo = r.todo \ {s}
    BY <1>1, <1>2, <2>2 DEF OneRow, RewriterShape
  <2>4. place'[s] = Source /\ \A u \in Sample \ {s} : place'[u] = place[u]
    BY <1>2, <2>2
  <2>5. Holding(q)' /\ q.pc \notin Placing
    BY <1>2, <2>3, <2>4 DEF Holding, Filling, Placing
  <2>6. \A u \in Sample : place'[u] = place[u] \/ {place[u], place'[u]} \subseteq {Source, b}
    BY <1>2, <2>1, <2>4
  <2>7. /\ manifest'[b].state # "absent" /\ rewriter'[w].backup = b /\ rewriter[w].backup = b
        /\ rewriter'[w].pc \notin Placing /\ Holding(rewriter[w])'
        /\ \A c \in Backup \ {b} : manifest'[c] = manifest[c]
    BY <1>2, <2>2, <2>3, <2>5
  <2> QED
    BY <1>2, <2>2, <2>3, <2>6, <2>7, AsideGoesOn
<1>4. CASE StaleRestored(w)
  <2>1. /\ r.todo = {}
        /\ manifest' = [manifest EXCEPT ![b].state = "restored", ![b].moved = r.moved]
        /\ rewriter' = [rewriter EXCEPT ![w] = NoRewrite]
        /\ UNCHANGED <<restorer, raced, recalled, confirmed, place>>
    BY <1>4 DEF StaleRestored
  <2>2. \A s \in Sample : place[s] # b
    BY <1>2, <2>1
  <2>3. /\ manifest'[b].state \notin {"absent", "active"}
        /\ \A c \in Backup \ {b} : manifest'[c] = manifest[c]
    BY <1>2, <2>1 DEF Manifest
  <2>4. OneRow(w) /\ rewriter'[w] = NoRewrite
    BY <1>2, <2>1 DEF OneRow
  <2> QED
    BY <1>2, <2>1, <2>2, <2>3, <2>4, AsideGivesUp
<1> QED
  BY <1>3, <1>4

LEMMA AsideSteps ==
  ASSUME RewriteInv, raced = {}, NEW w \in Worker, RowKnows(w, rewriter[w]),
         Holding(rewriter[w]), RewriteStep(w) \/ RewriteFails(w)
  PROVE  AsideStep(w) \/ RewriteCommits(w)
BY AsideBegins, AsideChecks, AsideMoves, AsideUndoes, AsideReads, AsideIsStale,
   AsideRestores DEF RewriteStep

-----------------------------------------------------------------------------
(* The outcome.                                                            *)

LEMMA StillRewritten == ASSUME Tame, Rewritten' PROVE Rewritten
BY DEF Tame, Rewritten, status

LEMMA AnswersAfterCommit ==
  ASSUME RewriteInv, NEW w \in Worker, RewriteStep(w) \/ RewriteFails(w), ~RewriteCommits(w),
         NEW v \in Worker, child'[v].pc = "complete"
  PROVE  child[v].pc = "complete"
<1>1. ASSUME NEW pc \in {"work", "error"}, ChildTo(w, pc)
      PROVE  child[v].pc = "complete"
  <2>1. DOMAIN child = Worker /\ "pc" \in DOMAIN child[w]
    BY DEF RewriteInv, ThreadInv
  <2> QED
    BY <1>1, <2>1 DEF ChildTo
<1>2. CASE \E pc \in {"work", "error"} : ChildTo(w, pc)
  BY <1>1, <1>2
<1>3. CASE UNCHANGED child
  BY <1>3
<1>4. Raises(w) => \E pc \in {"work", "error"} : ChildTo(w, pc)
  BY DEF Raises, ChildEnds
<1>5. CASE RewriteStarts(w) \/ UndoDiscards(w) \/ StaleRestored(w)
  BY <1>2, <1>5 DEF RewriteStarts, UndoDiscards, StaleRestored, ChildEnds
<1>6. CASE RewriteLoads(w) \/ RewriteChecks(w) \/ RewriteIsStale(w)
  BY <1>2, <1>3, <1>4, <1>6 DEF RewriteLoads, RewriteChecks, RewriteIsStale, Untouched, prvars
<1>7. CASE RewriteMoves(w) \/ RewriteRecords(w) \/ RewriteFails(w) \/ UndoMoves(w)
           \/ RewriteReads(w)
  BY <1>3, <1>7 DEF RewriteMoves, RewriteRecords, RewriteFails, UndoMoves, RewriteReads,
     Untouched, prvars
<1>8. CASE StaleRestores(w)
  BY <1>2, <1>3, <1>8 DEF StaleRestores, ChildEnds, Untouched, prvars
<1> QED
  BY <1>5, <1>6, <1>7, <1>8 DEF RewriteStep

LEMMA AsideExact ==
  ASSUME PhaseInv, RewriteInv, raced = {}, Exact, Tame,
         NEW w \in Worker, AsideStep(w), UNCHANGED parent,
         child'[Owner].pc = "complete" => child[Owner].pc = "complete"
  PROVE  Exact'
<1> PICK o \in Worker : o = Owner /\ o = Owner'
  BY ParentFacts DEF Owner
<1> PICK b \in 0..MaxBackup :
      /\ Aside(w, b) /\ Holding(rewriter[w])'
      /\ rewriter'[w].pc \in Placing =>
           \/ rewriter[w].pc \in Placing /\ rewriter'[w].backup = b
           \/ InSource(Sample) /\ place' = place /\ rewriter'[w].backup = 0
  BY DEF AsideStep
<1>1. InOrder'
  BY AsideOrder DEF Exact
<1>2. ASSUME NEW v \in Worker PROVE Holding(rewriter[v])'
  BY AsideHolding DEF Exact
<1>3. RestoreExact'
  BY AsideRestore DEF Exact
<1>4. ASSUME Carrying', rewriter'[o].pc \in Placing
      PROVE  Around(rewriter[o].backup)'
  <2>1. Carrying
    BY <1>4 DEF Carrying
  <2>2. /\ rewriter[w].backup \in {0, b}
        /\ \A v \in Worker \ {w} : rewriter'[v] = rewriter[v] /\ rewriter[v].backup \in 0..MaxBackup
    BY AsideOwn
  <2>3. CASE o # w
    <3>1. rewriter'[o] = rewriter[o] /\ rewriter[o].backup \in 0..MaxBackup
      BY <2>2, <2>3
    <3>2. PICK d \in 0..MaxBackup : d = rewriter[o].backup /\ d = rewriter'[o].backup
      BY <3>1
    <3>3. Around(d)
      BY <1>4, <2>1, <3>1, <3>2 DEF Exact, Outcome
    <3>4. Around(d)'
      BY <3>3, AsideAround
    <3> QED
      BY <3>2, <3>4
  <2>4. CASE o = w /\ rewriter[w].pc \in Placing /\ rewriter'[w].backup = b
    <3>1. Around(rewriter[w].backup) /\ InOrder
      BY <2>1, <2>4 DEF Exact, Outcome
    <3>2. CASE rewriter[w].backup = b
      <4>1. Around(b)
        BY <3>1, <3>2
      <4> QED
        BY <2>4, <4>1, AsideAround
    <3>3. CASE rewriter[w].backup = 0 /\ rewriter[w].backup # b
      <4>1. Around(0)
        BY <3>1, <3>3
      <4>2. Around(b)'
        BY <3>1, <3>3, <4>1, AsideAround
      <4> QED
        BY <2>4, <4>2
    <3> QED
      BY <2>2, <3>2, <3>3
  <2>5. CASE o = w /\ InSource(Sample) /\ place' = place /\ rewriter'[w].backup = 0
    <3>1. Around(0)'
      BY <2>5 DEF Around, InSource
    <3> QED
      BY <2>5, <3>1
  <2> QED
    BY <1>4, <2>3, <2>4, <2>5
<1>5. ASSUME Finished'
      PROVE  \E d \in 0..MaxBackup : (Settled(d) /\ (recalled \/ Taken(d, parent.config)))'
  <2>1. Finished
    BY <1>5 DEF Finished, Carrying
  <2>2. PICK d \in 0..MaxBackup : Settled(d) /\ (recalled \/ Taken(d, parent.config))
    BY <2>1 DEF Exact, Outcome
  <2>3. PICK c : c = parent.config /\ c = parent'.config
    OBVIOUS
  <2>4. Settled(d)' /\ (Taken(d, c) => Taken(d, c)') /\ recalled' = recalled
    BY <2>2, AsideSettled DEF Aside
  <2>5. (recalled \/ Taken(d, parent.config))'
    BY <2>2, <2>3, <2>4
  <2> QED
    BY <2>4, <2>5
<1>6. ASSUME Rewritten' PROVE \E d \in 0..MaxBackup : Settled(d)'
  <2>1. PICK d \in 0..MaxBackup : Settled(d)
    BY <1>6, StillRewritten DEF Exact, Outcome
  <2> QED
    BY <2>1, AsideSettled
<1>7. Outcome'
  <2>1. (Carrying /\ rewriter[Owner].pc \in Placing)' => Around(rewriter[Owner].backup)'
    BY <1>4
  <2>2. Finished' => \E d \in 0..MaxBackup :
                       (Settled(d) /\ (recalled \/ Taken(d, parent.config)))'
    BY <1>5
  <2> QED
    BY <1>6, <2>1, <2>2 DEF Outcome
<1> QED
  BY <1>1, <1>2, <1>3, <1>7 DEF Exact

(* Only the child the thread watches commits while the thread carries the  *)
(* task.                                                                   *)
LEMMA CommitExact ==
  ASSUME PhaseInv, RewriteInv, ThreadKnows, raced = {}, Exact, Tame,
         NEW w \in Worker, RowKnows(w, rewriter[w]), RewriteCommits(w)
  PROVE  Exact'
<1> PICK o \in Worker : o = Owner
  BY ParentFacts
<1> PICK r : r = rewriter[w]
  OBVIOUS
<1> PICK b : b = r.backup
  OBVIOUS
<1>1. /\ UNCHANGED <<parent, place, manifest, restorer, confirmed, recalled>>
      /\ rewriter' = [rewriter EXCEPT ![w] = NoRewrite]
      /\ r.pc = "commit" /\ child[w].pc = "work"
      /\ \A v \in Worker \ {w} : child'[v] = child[v]
      /\ DOMAIN rewriter = Worker /\ RewriterShape(r) /\ b \in 0..MaxBackup
  <2>1. /\ DOMAIN rewriter = Worker /\ RewriterShape(r) /\ DOMAIN child = Worker
    BY AtWork DEF RewriteInv, ThreadInv
  <2>2. \A v \in Worker \ {w} : child'[v] = child[v]
    BY <2>1 DEF RewriteCommits
  <2> QED
    BY <2>1, <2>2 DEF RewriteCommits, Rewriting, RewriterShape
<1>2. /\ rewriter'[w] = NoRewrite
      /\ \A v \in Worker \ {w} : rewriter'[v] = rewriter[v]
  BY <1>1
<1>3. TokenValid(w) /\ lease.live /\ lease.owner = w /\ status \in ActiveStatus
  <2>1. TokenValid(w)
    BY DEF RewriteCommits, CommitBatch
  <2> QED
    BY <2>1, TheRow, ParentFacts
<1>4. ~Rewritten'
  BY <1>3, StillRewritten, Statuses DEF Rewritten
<1>5. InOrder' /\ RestoreExact'
  BY <1>1 DEF Exact, InOrder, RestoreExact
<1>6. ASSUME NEW v \in Worker PROVE Holding(rewriter[v])'
  <2>1. CASE v = w
    BY <1>2, <2>1 DEF Holding, NoRewrite
  <2>2. CASE v # w
    <3>1. PICK q : q = rewriter[v] /\ q = rewriter'[v]
      BY <1>2, <2>2
    <3>2. Holding(q)
      BY <3>1 DEF Exact
    <3>3. Holding(q)'
      BY <1>1, <3>2 DEF Holding
    <3> QED
      BY <3>1, <3>3
  <2> QED
    BY <2>1, <2>2
<1>7. CASE ~Carrying
  <2>1. ~Carrying' /\ ~Finished'
    BY <1>1, <1>7 DEF Carrying, Finished
  <2> QED
    BY <1>4, <1>5, <1>6, <2>1 DEF Exact, Outcome
<1>8. CASE Carrying
  <2>1. w = o
    BY <1>3, <1>8 DEF ThreadKnows
  <2>2. Around(b)
    BY <1>1, <1>8, <2>1 DEF Exact, Outcome, Placing, Filling
  <2>3. /\ Confirmed(r.config, r.curated) /\ Sample \ r.curated = r.moved
        /\ b = 0 => r.moved = {}
        /\ r.config = parent.config /\ r.curated \subseteq Sample
    BY <1>1, <1>8, <2>1 DEF RowKnows, Filling, ThreadKnows
  <2>4. b # 0 => /\ restorer.backup # b
                 /\ \A v \in Worker \ {w} : rewriter[v].backup # b
                 /\ manifest[b].state = "active" /\ manifest[b].moved = r.moved
                 /\ \A s \in Sample : place[s] = b <=> s \in r.moved
    BY <1>1 DEF RewriteInv, Kept, OwnBackup, Exact, Holding, Filling
  <2>5. Around(b)'
    <3>1. ASSUME NEW s \in Sample
          PROVE  place'[s] \in {Source, b} \cup {rewriter'[v].backup : v \in Worker}
      <4>1. place[s] \in {Source, b} \cup {rewriter[v].backup : v \in Worker}
        BY <2>2 DEF Around
      <4> QED
        BY <1>1, <1>2, <4>1
    <3>2. ASSUME b # 0, NEW n \in Backup, n > b, manifest'[n].state = "active"
          PROVE  \E v \in Worker : rewriter'[v].backup = n
      <4>1. PICK v \in Worker : rewriter[v].backup = n
        BY <1>1, <2>2, <3>2 DEF Around
      <4>2. n # b
        BY <1>1, <3>2, Numbers
      <4> QED
        BY <1>2, <4>1, <4>2
    <3> QED
      BY <3>1, <3>2 DEF Around
  <2>6. Settled(b)'
    BY <1>1, <1>2, <2>4, <2>5 DEF Settled, NoRewrite
  <2>7. Taken(b, parent.config)'
    <3>1. PICK c, k : c = parent.config /\ c = parent'.config /\ c = r.config /\ k = r.curated
      BY <1>1, <2>3
    <3>2. PICK e : e = [config |-> c, digest |-> [config |-> c, curated |-> k]]
      OBVIOUS
    <3>3. e \in confirmed' /\ e.config = c /\ e.digest.config = c /\ e.digest.curated = k
      BY <1>1, <2>3, <3>1, <3>2 DEF Confirmed
    <3>4. \A s \in Sample : s \notin k <=> b # 0 /\ place'[s] = b
      BY <1>1, <2>3, <2>4, <3>1
    <3>5. Taken(b, c)'
      BY <2>3, <3>1, <3>3, <3>4 DEF Taken
    <3> QED
      BY <3>1, <3>5
  <2>11. PICK d \in 0..MaxBackup : d = b
    BY <1>1
  <2>8. (Settled(d) /\ (recalled \/ Taken(d, parent.config)))'
    BY <2>6, <2>7, <2>11
  <2>9. ~(rewriter'[o].pc \in Placing)
    BY <1>2, <2>1 DEF NoRewrite, Placing, Filling
  <2>10. Owner' = o
    BY <1>1 DEF Owner
  <2> QED
    BY <1>4, <1>5, <1>6, <2>8, <2>9, <2>10 DEF Exact, Outcome
<1> QED
  BY <1>7, <1>8

LEMMA RewriterExact ==
  ASSUME PhaseInv, RewriteInv, ThreadKnows, raced = {}, Exact,
         NEW w \in Worker, RowKnows(w, rewriter[w]), RewriteStep(w) \/ RewriteFails(w)
  PROVE  Exact'
<1>1. Tame
  BY RewriterRow, TameStill, TameBatch, ParentFacts DEF ReadResumePoint, vars, db
<1>2. CASE RewriteCommits(w)
  BY <1>1, <1>2, CommitExact
<1>3. CASE ~RewriteCommits(w)
  <2>1. AsideStep(w)
    BY <1>3, AsideSteps DEF Exact
  <2>2. UNCHANGED parent
    BY RewriterRow
  <2>3. PICK o \in Worker : o = Owner
    BY ParentFacts
  <2>4. child'[o].pc = "complete" => child[o].pc = "complete"
    BY <1>3, AnswersAfterCommit
  <2> QED
    BY <1>1, <2>1, <2>2, <2>3, <2>4, AsideExact
<1> QED
  BY <1>2, <1>3

(* A child that is killed at work is the thread's own: the thread then     *)
(* knows that it has no answer.                                            *)
LEMMA RowDropped ==
  ASSUME PhaseInv, RewriteInv, BackendStep, NEW w \in Worker, rewriter'[w] # rewriter[w]
  PROVE  /\ w = Owner /\ parent'.owner = parent.owner
         /\ child[w].pc = "work" /\ child'[w].pc = "none"
         /\ UNCHANGED task
         /\ parent'.pc \notin {"record", "finalize"}
         /\ parent'.pc = "result" => parent'.msg # "complete"
<1> PICK o \in Worker : o = Owner
  BY ParentFacts
<1>1. child[w].pc = "work" /\ child'[w].pc = "none"
  BY RowsKept DEF RewriteInv, RewriterAlive, NoRewrite
<1>2. child \in [Worker -> ChildType] /\ parent \in ParentType
  BY ParentFacts
<1>3. \A pc : Goto(pc) => parent'.pc = pc /\ parent'.owner = parent.owner
  BY <1>2 DEF Goto, ParentType
<1>4. \A msg : Returned(msg) => parent'.pc = "result" /\ parent'.msg = msg
                                /\ parent'.owner = parent.owner
  BY <1>2 DEF Returned, ParentType
<1>5. Stopped => w = o
  BY <1>1, <1>2 DEF Stopped
<1>6. ~UNCHANGED child
  BY <1>1
<1>7. ~NewChild
  BY <1>1, <1>2 DEF NewChild
<1>8. CASE Poll
  <2>1. UNCHANGED vars /\ (Stopped \/ UNCHANGED child)
    BY <1>8 DEF Poll
  <2>2. w = o /\ child[o].pc = "work"
    BY <1>1, <1>5, <1>6, <2>1
  <2>3. (\E msg : msg # "complete" /\ Returned(msg)) \/ Goto("timedout")
    BY <1>6, <1>8, <2>2 DEF Poll, Done
  <2> QED
    BY <1>1, <1>3, <1>4, <2>1, <2>2, <2>3 DEF vars, db
<1>9. CASE Kill
  BY <1>1, <1>3, <1>5, <1>9 DEF Kill, vars, db
<1>10. CASE InlineReturns
  BY <1>1, <1>5, <1>10 DEF InlineReturns, Done
<1>11. CASE BackendCrash
  <2>1. /\ child' = [child EXCEPT ![Owner] = NoChild] /\ UNCHANGED task
        /\ parent' = ParentAt(Owner, "down")
    BY <1>6, <1>11 DEF BackendCrash, Crash, vars, db
  <2>2. w = o
    BY <1>1, <1>2, <2>1
  <2>3. parent'.pc = "down" /\ parent'.owner = o
    BY <2>1 DEF ParentAt
  <2>4. o = parent.owner
    BY DEF Owner
  <2> QED
    BY <1>1, <2>1, <2>2, <2>3, <2>4
<1>12. ASSUME NEW v \in Worker, OrphanEnds(v) PROVE FALSE
  BY <1>1, <1>2, <1>12 DEF OrphanEnds, Done
<1>13. CASE Plan \/ Spawn \/ RecordResult
  BY <1>6, <1>7, <1>13 DEF Plan, Spawn, RecordResult, StartComponent
<1>14. CASE Claim \/ LeaveLoop \/ PublishToken \/ CheckStop \/ GiveBackUnstarted \/ Fail
            \/ SkipEmptyPhase \/ WaitAssets \/ AfterForcedStop \/ ReadStatus
            \/ RecordFailure \/ Finalize \/ Expire \/ Restart
  BY <1>6, <1>14 DEF Claim, LeaveLoop, PublishToken, CheckStop, GiveBackUnstarted, Fail,
     SkipEmptyPhase, WaitAssets, AfterForcedStop, ReadStatus, RecordFailure, Finalize,
     Expire, Restart, prvars
<1> QED
  BY <1>8, <1>9, <1>10, <1>11, <1>12, <1>13, <1>14 DEF BackendStep, Backend, ParentStep

LEMMA FinishedGoes ==
  ASSUME Carrying, parent'.owner = parent.owner, parent'.config = parent.config,
         parent'.phase = parent.phase,
         child'[Owner].pc = "complete" => child[Owner].pc = "complete",
         (parent'.pc \in {"result", "record", "finalize"} /\ parent'.msg = "complete") =>
           \/ child[Owner].pc = "complete"
           \/ parent.pc \in {"result", "record"} /\ parent.msg = "complete",
         Finished'
  PROVE  Finished /\ parent'.config = parent.config /\ parent'.owner = parent.owner
<1>1. Owner' = Owner
  BY DEF Owner
<1> QED
  BY <1>1 DEF Finished, Carrying

LEMMA FinishedStarts ==
  ASSUME PhaseInv, NEW rows, NEW k, StartComponent(rows, k), parent.pc \notin Watching
  PROVE  ~Finished'
<1> PICK o \in Worker : o = Owner
  BY ParentFacts
<1>1. parent'.pc \notin {"result", "record", "finalize"} /\ parent'.owner = o
  BY ParentFacts DEF StartComponent, ParentType, Owner
<1>2. child[o].pc = "none" /\ child \in [Worker -> ChildType]
  BY ParentFacts DEF Children
<1>3. child'[o].pc # "complete"
  BY <1>2 DEF StartComponent, NewChild
<1>4. Owner' = o
  BY <1>1 DEF Owner
<1> QED
  BY <1>1, <1>3, <1>4 DEF Finished

(* The thread hears of a completion from its child alone.                  *)
LEMMA FinishedBefore ==
  ASSUME PhaseInv, BackendStep, Finished'
  PROVE  Finished /\ parent'.config = parent.config /\ parent'.owner = parent.owner
<1> PICK o \in Worker : o = Owner
  BY ParentFacts
<1>1. child \in [Worker -> ChildType] /\ parent \in ParentType
      /\ (parent.pc \notin Watching => child[o].pc = "none")
  BY ParentFacts DEF Children
<1>2. Carrying' /\ parent'.pc \notin {"loop", "ended", "down"}
  BY DEF Finished, Carrying
<1>3. Stopped => child'[o].pc = "none"
  BY <1>1 DEF Stopped, NoChild
<1>4. ASSUME NEW pc, Goto(pc), Carrying, UNCHANGED child \/ Stopped,
             pc \notin {"result", "record", "finalize"}
      PROVE  Finished /\ parent'.config = parent.config /\ parent'.owner = parent.owner
  <2>1. /\ parent'.pc = pc /\ parent'.owner = parent.owner
        /\ parent'.config = parent.config /\ parent'.phase = parent.phase
    BY <1>1, <1>4 DEF Goto, ParentType
  <2> QED
    BY <1>3, <1>4, <2>1, FinishedGoes
<1>5. ASSUME NEW msg, Returned(msg), Carrying, UNCHANGED child \/ Stopped,
             msg = "complete" => child[Owner].pc = "complete"
      PROVE  Finished /\ parent'.config = parent.config /\ parent'.owner = parent.owner
  <2>1. /\ parent'.pc = "result" /\ parent'.msg = msg /\ parent'.owner = parent.owner
        /\ parent'.config = parent.config /\ parent'.phase = parent.phase
    BY <1>1, <1>5 DEF Returned, ParentType
  <2> QED
    BY <1>3, <1>5, <2>1, FinishedGoes
<1>6. CASE Claim
  <2>1. parent.pc = "loop" /\ UNCHANGED child
    BY <1>6 DEF Claim
  <2>2. CASE parent' = parent
    BY <1>2, <2>1, <2>2
  <2>3. CASE parent' = [parent EXCEPT !.pc = "granted", !.config = worker'[Owner].config,
                                      !.phase = worker'[Owner].phase]
    <3>1. parent'.pc = "granted" /\ parent'.owner = o
      BY <1>1, <2>3 DEF ParentType, Owner
    <3>2. child'[o].pc = "none" /\ Owner' = o
      BY <1>1, <2>1, <3>1 DEF Watching, Owner
    <3> QED
      BY <3>1, <3>2 DEF Finished
  <2> QED
    BY <1>6, <2>2, <2>3 DEF Claim
<1>7. CASE LeaveLoop
  BY <1>1, <1>2, <1>7 DEF LeaveLoop, Goto, ParentType
<1>8. CASE PublishToken \/ CheckStop \/ RecordFailure
  BY <1>4, <1>8 DEF PublishToken, CheckStop, RecordFailure, Carrying
<1>9. CASE GiveBackUnstarted \/ Fail \/ SkipEmptyPhase \/ Finalize
  <2>1. \/ \E pc \in {"loop", "ended"} : parent' = ParentAt(Owner, pc)
        \/ Goto("fail") /\ UNCHANGED child /\ Carrying
    BY <1>9 DEF GiveBackUnstarted, Fail, SkipEmptyPhase, Finalize, BackToLoop, Carrying
  <2>2. Goto("fail") /\ UNCHANGED child /\ Carrying
    BY <1>2, <2>1 DEF ParentAt
  <2> QED
    BY <1>4, <2>2
<1>10. CASE Plan
  BY <1>10, FinishedStarts DEF Plan, Watching
<1>11. CASE WaitAssets
  <2>1. Carrying /\ UNCHANGED child
    BY <1>11 DEF WaitAssets, Carrying
  <2>2. CASE UNCHANGED parent
    BY <2>1, <2>2 DEF Finished, Owner
  <2>3. CASE \E msg \in {"returned", "error"} : Returned(msg)
    BY <1>5, <2>1, <2>3
  <2> QED
    BY <1>11, <2>2, <2>3 DEF WaitAssets
<1>12. CASE Spawn
  <2>1. parent'.pc = "poll" /\ parent'.owner = o
    BY <1>1, <1>12 DEF Spawn, Goto, ParentType, Owner
  <2>2. child'[o].pc = "start" /\ Owner' = o
    BY <1>1, <1>12, <2>1 DEF Spawn, NewChild, Owner
  <2> QED
    BY <2>1, <2>2 DEF Finished
<1>13. CASE Poll \/ Kill \/ InlineReturns
  <2>1. /\ Carrying /\ (UNCHANGED child \/ Stopped)
        /\ \/ \E pc \in {"killing", "recover", "timedout"} : Goto(pc)
           \/ \E msg : Returned(msg) /\ (msg = "complete" => child[Owner].pc = "complete")
    BY <1>13 DEF Poll, Kill, InlineReturns, Carrying
  <2> QED
    BY <1>4, <1>5, <2>1
<1>14. CASE AfterForcedStop
  BY <1>5, <1>14 DEF AfterForcedStop, Carrying
<1>15. CASE ReadStatus
  <2>1. Carrying /\ UNCHANGED child /\ parent.pc = "result"
    BY <1>15 DEF ReadStatus, Carrying
  <2>2. /\ parent'.owner = parent.owner /\ parent'.msg = parent.msg
        /\ parent'.config = parent.config /\ parent'.phase = parent.phase
    BY <1>1, <1>15 DEF ReadStatus, ParentType
  <2> QED
    BY <2>1, <2>2, FinishedGoes
<1>16. CASE RecordResult
  <2>1. Carrying /\ parent.pc = "record" /\ parent.pc \notin Watching
    BY <1>16 DEF RecordResult, Carrying, Watching
  <2>2. CASE parent' = ParentAt(Owner, "loop")
    BY <1>2, <2>2 DEF ParentAt
  <2>3. CASE \E rows, k : StartComponent(rows, k)
    BY <2>1, <2>3, FinishedStarts
  <2>4. CASE UNCHANGED child /\ Goto("finalize")
    <3>1. /\ parent'.owner = parent.owner /\ parent'.msg = parent.msg
          /\ parent'.config = parent.config /\ parent'.phase = parent.phase
      BY <1>1, <2>4 DEF Goto, ParentType
    <3> QED
      BY <2>1, <2>4, <3>1, FinishedGoes
  <2> QED
    BY <1>16, <2>2, <2>3, <2>4 DEF RecordResult, BackToLoop
<1>17. ASSUME NEW w \in Worker, OrphanEnds(w)
       PROVE  Finished /\ parent'.config = parent.config /\ parent'.owner = parent.owner
  <2>1. UNCHANGED parent /\ child'[o] = child[o]
    BY <1>1, <1>17 DEF OrphanEnds
  <2> QED
    BY <2>1 DEF Finished, Carrying, Owner
<1>18. CASE Expire
  BY <1>18 DEF Expire, prvars, Finished, Carrying, Owner
<1>19. CASE BackendCrash \/ Restart
  BY <1>2, <1>19 DEF BackendCrash, Restart, ParentAt
<1> QED
  BY <1>6, <1>7, <1>8, <1>9, <1>10, <1>11, <1>12, <1>13, <1>14, <1>15, <1>16, <1>17,
     <1>18, <1>19 DEF BackendStep, Backend, ParentStep

LEMMA PlacingBefore ==
  ASSUME PhaseInv, BackendStep, Carrying', rewriter'[Owner'].pc # "none"
  PROVE  Carrying /\ Owner' = Owner
<1> PICK o \in Worker : o = Owner /\ o = parent.owner
  BY ParentFacts DEF Owner
<1>1. parent \in ParentType /\ (parent.pc \notin Watching => child[o].pc = "none")
  BY ParentFacts DEF Children
<1>2. parent'.pc \notin {"loop", "ended", "down"}
  BY DEF Carrying
<1>3. \A w \in Worker : rewriter'[w].pc # "none" => child'[w].pc # "none"
  BY RowsKept
<1>4. ASSUME NEW pc, Goto(pc) PROVE parent'.owner = o /\ parent'.pc = pc
  BY <1>1, <1>4 DEF Goto, ParentType
<1>5. ASSUME NEW msg, Returned(msg) PROVE parent'.owner = o
  BY <1>1, <1>5 DEF Returned, ParentType
<1>6. CASE Claim
  <2>1. parent.pc = "loop" /\ UNCHANGED child
    BY <1>6 DEF Claim
  <2>2. parent'.owner = o
    BY <1>1, <1>6 DEF Claim, ParentType
  <2>3. child'[o].pc = "none" /\ Owner' = o
    BY <1>1, <2>1, <2>2 DEF Watching, Owner
  <2> QED
    BY <1>3, <2>3
<1>7. CASE LeaveLoop \/ BackendCrash \/ Restart
  BY <1>2, <1>4, <1>7 DEF LeaveLoop, BackendCrash, Restart, ParentAt
<1>8. CASE PublishToken \/ CheckStop \/ RecordFailure \/ Spawn \/ Kill \/ InlineReturns
           \/ AfterForcedStop \/ Poll
  BY <1>4, <1>5, <1>8 DEF PublishToken, CheckStop, RecordFailure, Spawn, Kill, InlineReturns,
     AfterForcedStop, Poll, Carrying, Owner
<1>9. CASE GiveBackUnstarted \/ Fail \/ SkipEmptyPhase \/ Finalize
  <2>1. /\ Carrying
        /\ \/ \E pc \in {"loop", "ended"} : parent' = ParentAt(Owner, pc)
           \/ Goto("fail")
    BY <1>9 DEF GiveBackUnstarted, Fail, SkipEmptyPhase, Finalize, BackToLoop, Carrying
  <2>2. Goto("fail")
    BY <1>2, <2>1 DEF ParentAt
  <2> QED
    BY <1>4, <2>1, <2>2 DEF Owner
<1>10. CASE Plan \/ RecordResult
  <2>1. ASSUME NEW rows, NEW k, StartComponent(rows, k) PROVE parent'.owner = o
    BY <1>1, <2>1 DEF StartComponent, ParentType
  <2> QED
    BY <1>2, <1>4, <1>10, <2>1 DEF Plan, RecordResult, BackToLoop, ParentAt, Carrying, Owner
<1>11. CASE WaitAssets \/ ReadStatus
  <2>1. parent'.owner = o
    BY <1>1, <1>5, <1>11 DEF WaitAssets, ReadStatus, ParentType
  <2> QED
    BY <1>11, <2>1 DEF WaitAssets, ReadStatus, Carrying, Owner
<1>12. CASE Expire \/ \E w \in Worker : OrphanEnds(w)
  BY <1>12 DEF Expire, OrphanEnds, prvars, Carrying, Owner
<1> QED
  BY <1>6, <1>7, <1>8, <1>9, <1>10, <1>11, <1>12 DEF BackendStep, Backend, ParentStep

LEMMA TameClaim ==
  ASSUME PhaseInv, Claim
  PROVE  Tame \/ task'[T].status \in WORKER_PHASES
<1> PICK o \in Worker : o = Owner
  BY ParentFacts
<1>1. SlotInv /\ ClaimNext(Owner) /\ parent'.owner = Owner /\ Owner \in Worker
  BY ParentFacts DEF Claim, ParentType, Owner
<1>2. CASE task' = TasksRecovered /\ lease' = NoLease
  BY <1>1, <1>2, TameRecovered
<1>3. CASE \E t \in Task : GrantTask(o, t)
  <2>1. worker'[o].stage = "claimed"
    BY <1>3, ParentFacts DEF GrantTask
  <2>2. \/ worker' = worker /\ worker[o].stage = "idle"
        \/ task'[T].status \in WORKER_PHASES
    BY <1>1, ClaimSteady
  <2> QED
    BY <2>1, <2>2
<1>4. CASE \E r \in Run : RunsRecovered[r].status = "queued"
  BY <1>1, <1>4, RecoveredRows DEF SlotInv, Alone
<1> QED
  BY <1>1, <1>2, <1>3, <1>4 DEF ClaimNext

(* Only the export's completion completes a task.                          *)
LEMMA PhaseLeft ==
  ASSUME PhaseInv, Carrying, LeavePhase(Owner), task'[T].status = "completed"
  PROVE  /\ parent.phase = "exporting" /\ task'[T].config = task[T].config
         /\ task[T].config = parent.config
<1> PICK o \in Worker : o = Owner
  BY ParentFacts
<1> PICK p : p = worker[o].phase
  OBVIOUS
<1>1. status = parent.phase /\ task[T].config = parent.config
  BY LeavesClaimed
<1>2. TokenValid(o) /\ StillInPhase(task[worker[o].target], p)
  BY DEF LeavePhase
<1>3. worker[o].target = T /\ task \in [Task -> TaskRow] /\ T \in Task /\ task[T] \in TaskRow
  BY <1>2, TheRow, TheTask, ParentFacts
<1>4. task[T].status = p /\ p \in WORKER_PHASES
  <2>1. parent.phase \in WORKER_PHASES
    BY ParentFacts DEF Hand
  <2> QED
    BY <1>1, <1>2, <1>3, <2>1 DEF StillInPhase, status
<1>5. PICK next : next = PIPELINE_NEXT[p]
  OBVIOUS
<1>6. task' = [task EXCEPT ![T].progress = 0,
                 ![T].status = IF next \in WORKER_PHASES THEN "queued" ELSE next,
                 ![T].resume = ResumeAfter(p)]
  BY <1>3, <1>5 DEF LeavePhase
<1>7. task'[T].config = task[T].config
      /\ task'[T].status = IF next \in WORKER_PHASES THEN "queued" ELSE next
  BY <1>3, <1>6 DEF TaskRow
<1>8. next = "completed"
  BY <1>7
<1>9. p = "exporting"
  BY <1>4, <1>5, <1>8 DEF PIPELINE_NEXT, WORKER_PHASES
<1> QED
  BY <1>1, <1>4, <1>7, <1>9 DEF status

LEMMA RewrittenBefore ==
  ASSUME PhaseInv, ThreadKnows, BackendStep, Rewritten'
  PROVE  Rewritten \/ (Finished /\ task[T].config = parent.config)
<1> PICK o \in Worker : o = Owner
  BY ParentFacts
<1>1. UNCHANGED task /\ UNCHANGED lease => Rewritten
  BY StillRewritten, TameStill
<1>2. UNCHANGED vars \/ Crash(o) \/ ReadResumePoint(o) => Rewritten
  BY <1>1 DEF vars, db, Crash, ReadResumePoint
<1>3. GivesUp(o) => Rewritten
  BY StillRewritten, TameGivesUp, ParentFacts
<1>4. CASE Claim
  <2>1. task'[T].status \notin WORKER_PHASES
    BY Statuses DEF Rewritten, status
  <2> QED
    BY <1>4, <2>1, TameClaim, StillRewritten
<1>5. CASE GiveBackUnstarted \/ Fail
  BY <1>2, <1>3, <1>5 DEF GiveBackUnstarted, Fail, BackToLoop, GivesUp
<1>6. CASE SkipEmptyPhase
  <2>1. Carrying /\ Components[parent.config][parent.phase] = 0
    BY <1>6 DEF SkipEmptyPhase, Carrying
  <2>2. CASE LeavePhase(Owner)
    BY <2>1, <2>2, PhaseLeft DEF Rewritten, status
  <2> QED
    BY <1>2, <1>6, <2>2 DEF SkipEmptyPhase, BackToLoop
<1>7. CASE Finalize
  <2>1. Carrying /\ parent.pc = "finalize" /\ parent.msg = "complete"
    BY <1>7 DEF Finalize, Carrying, ThreadKnows
  <2>2. CASE LeavePhase(Owner)
    BY <2>1, <2>2, PhaseLeft DEF Rewritten, status, Finished
  <2> QED
    BY <1>2, <1>3, <1>7, <2>2 DEF Finalize, BackToLoop, GivesUp
<1>8. CASE WaitAssets \/ AfterForcedStop
  BY <1>2, <1>3, <1>8 DEF WaitAssets, AfterForcedStop, GivesUp
<1>9. CASE LeaveLoop \/ PublishToken \/ CheckStop \/ Plan \/ Spawn \/ Poll \/ Kill
           \/ InlineReturns \/ ReadStatus \/ RecordFailure
  BY <1>2, <1>9 DEF LeaveLoop, PublishToken, CheckStop, Plan, Spawn, Poll, Kill,
     InlineReturns, ReadStatus, RecordFailure
<1>10. CASE RecordResult
  BY <1>2, <1>10 DEF RecordResult, BackToLoop
<1>11. ASSUME NEW w \in Worker, OrphanEnds(w) PROVE Rewritten
  BY <1>1, <1>11 DEF OrphanEnds, Crash, vars, db
<1>12. CASE Expire
  <2>1. Tame
    BY <1>12, TameStill, TheRow, ParentFacts DEF Expire, LeaseExpires, LeaseRow
  <2> QED
    BY <2>1, StillRewritten
<1>13. CASE BackendCrash
  BY <1>2, <1>13 DEF BackendCrash
<1>14. CASE Restart
  BY <1>2, <1>14, StillRewritten, TameRecovered, ParentFacts DEF Restart, RecoverStaleLeases
<1> QED
  BY <1>4, <1>5, <1>6, <1>7, <1>8, <1>9, <1>10, <1>11, <1>12, <1>13, <1>14
     DEF BackendStep, Backend, ParentStep

LEMMA BackendExact ==
  ASSUME PhaseInv, RewriteInv, ThreadKnows, raced = {}, Exact, BackendStep
  PROVE  Exact'
<1>1. UNCHANGED <<place, manifest, restorer, confirmed, recalled>>
  BY RowsKept DEF BackendStep
<1>2. InOrder' /\ RestoreExact'
  BY <1>1 DEF Exact, InOrder, RestoreExact
<1>3. \A w \in Worker : rewriter'[w] = rewriter[w] \/ rewriter'[w] = NoRewrite
  BY RowsKept
<1>4. ASSUME NEW w \in Worker PROVE Holding(rewriter[w])'
  <2>1. CASE rewriter'[w] = NoRewrite
    BY <2>1 DEF Holding, NoRewrite
  <2>2. CASE rewriter'[w] = rewriter[w]
    <3>1. PICK q : q = rewriter[w] /\ q = rewriter'[w]
      BY <2>2
    <3>2. Holding(q)
      BY <3>1 DEF Exact
    <3>3. Holding(q)'
      BY <1>1, <3>2 DEF Holding
    <3> QED
      BY <3>1, <3>3
  <2> QED
    BY <1>3, <2>1, <2>2
<1>5. CASE \E w \in Worker : rewriter'[w] # rewriter[w]
  <2>1. PICK w \in Worker : rewriter'[w] # rewriter[w]
    BY <1>5
  <2>2. /\ w = Owner /\ parent'.owner = parent.owner
        /\ child[w].pc = "work" /\ child'[w].pc = "none" /\ UNCHANGED task
        /\ parent'.pc \notin {"record", "finalize"}
        /\ parent'.pc = "result" => parent'.msg # "complete"
    BY <2>1, RowDropped
  <2>3. Owner' = w
    BY <2>2 DEF Owner
  <2>4. rewriter'[w].pc \notin Placing
    BY <1>3, <2>1 DEF NoRewrite, Placing, Filling
  <2>5. ~Finished'
    BY <2>2, <2>3 DEF Finished
  <2>6. ~Rewritten'
    BY <2>2 DEF ThreadKnows, Rewritten, status
  <2>7. Outcome'
    BY <2>3, <2>4, <2>5, <2>6 DEF Outcome
  <2> QED
    BY <1>2, <1>4, <2>7 DEF Exact
<1>6. CASE \A w \in Worker : rewriter'[w] = rewriter[w]
  <2>1. ASSUME NEW d, Around(d) PROVE Around(d)'
    BY <1>1, <1>6, <2>1 DEF Around
  <2>2. ASSUME NEW d, Settled(d) PROVE Settled(d)'
    BY <1>1, <1>6, <2>1, <2>2 DEF Settled
  <2>3. ASSUME NEW d, NEW c, Taken(d, c) PROVE Taken(d, c)'
    BY <1>1, <2>3 DEF Taken
  <2>4. ASSUME Carrying', rewriter'[Owner'].pc \in Placing
        PROVE  Around(rewriter[Owner].backup)'
    <3>1. Carrying /\ Owner' = Owner
      BY <2>4, PlacingBefore DEF Placing, Filling
    <3>2. PICK o \in Worker : o = Owner /\ o = Owner'
      BY <3>1, ParentFacts
    <3>3. PICK d : d = rewriter[o].backup /\ d = rewriter'[o].backup
      BY <1>6
    <3>4. Around(d)
      BY <1>6, <2>4, <3>1, <3>2, <3>3 DEF Exact, Outcome
    <3>5. Around(d)'
      BY <2>1, <3>4
    <3> QED
      BY <3>2, <3>3, <3>5
  <2>5. ASSUME Finished'
        PROVE  \E d \in 0..MaxBackup : (Settled(d) /\ (recalled \/ Taken(d, parent.config)))'
    <3>1. Finished /\ parent'.config = parent.config
      BY <2>5, FinishedBefore
    <3>2. PICK d \in 0..MaxBackup : Settled(d) /\ (recalled \/ Taken(d, parent.config))
      BY <3>1 DEF Exact, Outcome
    <3>3. PICK c : c = parent.config /\ c = parent'.config
      BY <3>1
    <3>4. Settled(d)' /\ (recalled' \/ Taken(d, c)')
      BY <1>1, <2>2, <2>3, <3>2, <3>3
    <3> QED
      BY <3>3, <3>4
  <2>6. ASSUME Rewritten' PROVE \E d \in 0..MaxBackup : Settled(d)'
    <3>1. PICK d \in 0..MaxBackup : Settled(d)
      BY <2>6, RewrittenBefore DEF Exact, Outcome
    <3> QED
      BY <2>2, <3>1
  <2>7. Outcome'
    BY <2>4, <2>5, <2>6 DEF Outcome
  <2> QED
    BY <1>2, <1>4, <2>7 DEF Exact
<1> QED
  BY <1>5, <1>6

-----------------------------------------------------------------------------
(* The API beside them.                                                    *)

(* The thread, its child and its waiting stay as they are.                 *)
LEMMA OutcomeBeside ==
  ASSUME PhaseInv, Tame, UNCHANGED <<parent, child, rewriter>>, Outcome,
         recalled => recalled',
         \A d \in 0..MaxBackup : Around(d) => Around(d)',
         \A w \in Worker : rewriter[w].backup \in 0..MaxBackup,
         \A d \in 0..MaxBackup : Settled(d) =>
           \E e \in 0..MaxBackup :
             /\ Settled(e)'
             /\ recalled' \/ \A c : Taken(d, c) => Taken(e, c)'
  PROVE  Outcome'
<1> PICK o \in Worker : o = Owner /\ o = Owner'
  BY ParentFacts DEF Owner
<1>1. ASSUME Carrying', rewriter'[Owner'].pc \in Placing
      PROVE  Around(rewriter[Owner].backup)'
  <2>1. Carrying
    BY <1>1 DEF Carrying
  <2>2. PICK d \in 0..MaxBackup : d = rewriter[o].backup /\ d = rewriter'[o].backup
    OBVIOUS
  <2>3. Around(d)
    BY <1>1, <2>1, <2>2 DEF Outcome
  <2>4. Around(d)'
    BY <2>3
  <2> QED
    BY <2>2, <2>4
<1>2. ASSUME Finished'
      PROVE  \E d \in 0..MaxBackup : (Settled(d) /\ (recalled \/ Taken(d, parent.config)))'
  <2>1. Finished
    BY <1>2 DEF Finished, Carrying
  <2>2. PICK d \in 0..MaxBackup : Settled(d) /\ (recalled \/ Taken(d, parent.config))
    BY <2>1 DEF Outcome
  <2>3. PICK e \in 0..MaxBackup : Settled(e)' /\ (recalled' \/ \A c : Taken(d, c) => Taken(e, c)')
    BY <2>2
  <2>4. PICK c : c = parent.config /\ c = parent'.config
    OBVIOUS
  <2>5. recalled' \/ Taken(e, c)'
    BY <2>2, <2>3, <2>4
  <2> QED
    BY <2>3, <2>4, <2>5
<1>3. ASSUME Rewritten' PROVE \E d \in 0..MaxBackup : Settled(d)'
  <2>1. PICK d \in 0..MaxBackup : Settled(d)
    BY <1>3, StillRewritten DEF Outcome
  <2> QED
    BY <2>1
<1> QED
  BY <1>1, <1>2, <1>3 DEF Outcome

LEMMA QuietExact ==
  ASSUME PhaseInv, RewriteInv, Tame, Exact, confirmed \subseteq confirmed',
         UNCHANGED <<parent, child, rewriter, place, manifest, restorer, recalled>>
  PROVE  Exact'
<1>1. InOrder' /\ RestoreExact'
  BY DEF Exact, InOrder, RestoreExact
<1>2. \A w \in Worker : Holding(rewriter[w])'
  BY DEF Exact, Holding
<1>3. \A d \in 0..MaxBackup : Around(d) => Around(d)'
  BY DEF Around
<1>4. \A d \in 0..MaxBackup : Settled(d) => Settled(d)'
  BY <1>3 DEF Settled
<1>5. ASSUME NEW d, NEW c, Taken(d, c) PROVE Taken(d, c)'
  BY <1>5 DEF Taken
<1>6. \A w \in Worker : rewriter[w].backup \in 0..MaxBackup
  BY DEF RewriteInv, FilesTyped, RewriterShape
<1>7. \A d \in 0..MaxBackup : Settled(d) =>
        \E e \in 0..MaxBackup : /\ Settled(e)'
                                /\ recalled' \/ \A c : Taken(d, c) => Taken(e, c)'
  BY <1>4, <1>5
<1>8. Outcome
  BY DEF Exact
<1>9. Outcome'
  BY <1>3, <1>6, <1>7, <1>8, OutcomeBeside
<1> QED
  BY <1>1, <1>2, <1>9 DEF Exact

(* A restore finds the backup that is settled: no newer one is left active *)
(* but by a child at it, which would make it a race.                       *)
LEMMA BeginExact ==
  ASSUME PhaseInv, RewriteInv, Tame, raced' = {}, raced = {}, Exact, BeginRestore
  PROVE  Exact'
<1>1. /\ UNCHANGED <<parent, child, rewriter, place, manifest, confirmed>> /\ recalled'
      /\ restorer = NoRestore
  BY DEF BeginRestore, allvars, prvars
<1>2. PICK n \in Backup :
        /\ NewestActive(n) /\ Restorable(n)
        /\ restorer' = [backup |-> n, todo |-> manifest[n].moved, read |-> manifest[n].moved]
        /\ raced' = IF \E w \in Worker : rewriter[w].backup = n THEN raced \cup {n} ELSE raced
  BY DEF BeginRestore
<1>3. \A w \in Worker : rewriter[w].backup # n
  BY <1>2
<1>4. restorer'.backup = n /\ restorer'.todo = manifest[n].moved
  BY <1>2
<1>5. InOrder' /\ RestoreExact'
  BY <1>1, <1>2, <1>4 DEF Exact, InOrder, RestoreExact, Restorable
<1>6. \A w \in Worker : Holding(rewriter[w])'
  BY <1>1 DEF Exact, Holding
<1>7. \A d \in 0..MaxBackup : Around(d) => Around(d)'
  BY <1>1 DEF Around
<1>8. ASSUME NEW d \in 0..MaxBackup, Settled(d) PROVE Settled(d)'
  <2>1. Around(d)'
    BY <1>7, <1>8 DEF Settled
  <2>2. CASE d = 0
    BY <2>1, <2>2 DEF Settled
  <2>3. CASE d # 0
    <3>1. /\ \A w \in Worker : rewriter[w].backup # d
          /\ manifest[d].state = "active" /\ d \in Backup
          /\ \A s \in Sample : place[s] = d <=> s \in manifest[d].moved
      BY <1>1, <1>8, <2>3, Numbers DEF Settled, NoRestore
    <3>2. d <= n
      BY <1>2, <3>1 DEF NewestActive
    <3>3. ~(n > d)
      BY <1>2, <1>3, <1>8, <2>3 DEF Settled, Around, NewestActive
    <3>4. n = d
      BY <3>1, <3>2, <3>3, Numbers
    <3> QED
      BY <1>1, <1>4, <2>1, <3>1, <3>4 DEF Settled
  <2> QED
    BY <2>2, <2>3
<1>9. \A w \in Worker : rewriter[w].backup \in 0..MaxBackup
  BY DEF RewriteInv, FilesTyped, RewriterShape
<1>10. \A d \in 0..MaxBackup : Settled(d) =>
         \E e \in 0..MaxBackup : /\ Settled(e)'
                                 /\ recalled' \/ \A c : Taken(d, c) => Taken(e, c)'
  BY <1>1, <1>8
<1>11. Outcome'
  BY <1>1, <1>7, <1>9, <1>10, OutcomeBeside DEF Exact
<1> QED
  BY <1>5, <1>6, <1>11 DEF Exact

LEMMA RestoreMoveExact ==
  ASSUME PhaseInv, RewriteInv, Tame, raced = {}, Exact, Unrecalled, RestoreMove
  PROVE  Exact'
<1>1. UNCHANGED <<parent, child, rewriter, manifest, confirmed, recalled>>
  BY DEF RestoreMove, allvars, prvars
<1> PICK b : b = restorer.backup
  OBVIOUS
<1>2. /\ restorer \in [backup : 0..MaxBackup, todo : SUBSET Sample, read : SUBSET Sample]
      /\ b = 0 => restorer.todo = {}
      /\ place \in [Sample -> 0..Gone]
      /\ \A w \in Worker : rewriter[w].backup # 0 => rewriter[w].backup # b
  BY DEF RewriteInv, FilesTyped, NoRestore, Kept, OwnBackup
<1>3. PICK s \in Sample :
        /\ s \in restorer.todo /\ place[s] = b
        /\ place' = [place EXCEPT ![s] = Source]
        /\ restorer' = [restorer EXCEPT !.todo = @ \ {s}]
  BY DEF RestoreMove, IsFirst, Exact, RestoreExact
<1>4. b # 0 /\ b \in 0..MaxBackup
  BY <1>2, <1>3
<1>5. /\ place'[s] = Source /\ \A u \in Sample \ {s} : place'[u] = place[u]
      /\ restorer'.backup = b /\ restorer'.todo = restorer.todo \ {s}
  BY <1>2, <1>3
<1>6. recalled
  BY <1>3 DEF Unrecalled, NoRestore
<1>7. InOrder' /\ RestoreExact'
  BY <1>1, <1>2, <1>5 DEF Exact, InOrder, RestoreExact
<1>8. ASSUME NEW d, d # 0, d # b PROVE \A u \in Sample : place'[u] = d <=> place[u] = d
  BY <1>3, <1>5, <1>8, Numbers
<1>9. ASSUME NEW w \in Worker PROVE Holding(rewriter[w])'
  <2>1. PICK r : r = rewriter[w] /\ r = rewriter'[w]
    BY <1>1
  <2>2. Holding(r)
    BY <2>1 DEF Exact
  <2>3. CASE r.backup = 0
    BY <2>1, <2>3 DEF Holding
  <2>4. CASE r.backup # 0
    <3>1. \A u \in Sample : place'[u] = r.backup <=> place[u] = r.backup
      BY <1>2, <1>8, <2>1, <2>4
    <3>2. Holding(r)'
      BY <1>1, <2>2, <3>1 DEF Holding
    <3> QED
      BY <2>1, <3>2
  <2> QED
    BY <2>3, <2>4
<1>10. ASSUME NEW d \in 0..MaxBackup, Around(d) PROVE Around(d)'
  <2>1. ASSUME NEW u \in Sample
        PROVE  place'[u] \in {Source, d} \cup {rewriter'[v].backup : v \in Worker}
    BY <1>1, <1>5, <1>10 DEF Around
  <2> QED
    BY <1>1, <1>10, <2>1 DEF Around
<1>11. ASSUME NEW d \in 0..MaxBackup, Settled(d) PROVE Settled(d)'
  <2>1. Around(d)'
    BY <1>10, <1>11 DEF Settled
  <2>2. CASE d = 0
    BY <2>1, <2>2 DEF Settled
  <2>3. CASE d # 0 /\ d # b
    BY <1>1, <1>5, <1>8, <1>11, <2>1, <2>3 DEF Settled
  <2>4. CASE d = b
    <3>1. \A u \in Sample : place[u] = d <=> u \in restorer.todo
      BY <1>4, <1>11, <2>4 DEF Settled
    <3>2. \A u \in Sample : place'[u] = d <=> u \in restorer'.todo
      BY <1>4, <1>5, <2>4, <3>1, Numbers
    <3> QED
      BY <1>1, <1>4, <1>5, <1>11, <2>1, <2>4, <3>2 DEF Settled
  <2> QED
    BY <2>2, <2>3, <2>4
<1>12. \A w \in Worker : rewriter[w].backup \in 0..MaxBackup
  BY DEF RewriteInv, FilesTyped, RewriterShape
<1>13. \A d \in 0..MaxBackup : Settled(d) =>
         \E e \in 0..MaxBackup : /\ Settled(e)'
                                 /\ recalled' \/ \A c : Taken(d, c) => Taken(e, c)'
  BY <1>1, <1>6, <1>11
<1>14. Outcome'
  BY <1>1, <1>10, <1>12, <1>13, OutcomeBeside DEF Exact
<1> QED
  BY <1>7, <1>9, <1>14 DEF Exact

(* What was restored is in the source folder: the settled backup is none.  *)
LEMMA RestoreWriteExact ==
  ASSUME PhaseInv, RewriteInv, Tame, raced = {}, Exact, Unrecalled, RestoreWrite
  PROVE  Exact'
<1>1. UNCHANGED <<parent, child, rewriter, place, confirmed, recalled>>
  BY DEF RestoreWrite, allvars, prvars
<1> PICK b : b = restorer.backup
  OBVIOUS
<1>2. /\ b # 0 /\ restorer.todo = {} /\ restorer' = NoRestore
      /\ manifest' = IF manifest[b].state = "discarded" THEN manifest
                     ELSE [manifest EXCEPT ![b].state = "restored", ![b].moved = restorer.read]
  BY DEF RestoreWrite
<1>3. /\ restorer \in [backup : 0..MaxBackup, todo : SUBSET Sample, read : SUBSET Sample]
      /\ manifest \in [Backup -> Manifest]
      /\ \A w \in Worker : rewriter[w].backup # 0 => rewriter[w].backup # b
      /\ manifest[b].state # "absent"
  BY <1>2 DEF RewriteInv, FilesTyped, Kept, OwnBackup, RestoreSound
<1>4. b \in Backup /\ recalled
  BY <1>2, <1>3, Numbers DEF Unrecalled, NoRestore
<1>5. /\ \A d \in Backup \ {b} : manifest'[d] = manifest[d]
      /\ manifest'[b].state \in {"restored", "discarded"}
  BY <1>2, <1>3, <1>4 DEF Manifest
<1>6. InOrder'
  <2> SUFFICES ASSUME NEW n \in Backup, NEW m \in 1..n, manifest'[m].state = "absent"
               PROVE  manifest'[n].state = "absent"
    BY DEF InOrder
  <2>1. m \in Backup /\ m # b
    BY <1>5, Numbers
  <2>2. manifest[m].state = "absent"
    BY <1>5, <2>1
  <2>3. manifest[n].state = "absent"
    BY <2>2 DEF Exact, InOrder
  <2>4. n # b
    BY <1>3, <2>3
  <2> QED
    BY <1>5, <2>3, <2>4
<1>7. RestoreExact'
  BY <1>2 DEF RestoreExact, NoRestore
<1>8. ASSUME NEW w \in Worker PROVE Holding(rewriter[w])'
  <2>1. PICK r : r = rewriter[w] /\ r = rewriter'[w]
    BY <1>1
  <2>2. Holding(r) /\ r.backup \in 0..MaxBackup
    BY <2>1 DEF Exact, RewriteInv, FilesTyped, RewriterShape
  <2>3. CASE r.backup = 0
    BY <2>1, <2>3 DEF Holding
  <2>4. CASE r.backup # 0
    <3>1. r.backup \in Backup \ {b}
      <4>1. r.backup # b
        BY <1>3, <2>1, <2>4
      <4> QED
        BY <2>2, <2>4, <4>1, Numbers
    <3>2. manifest'[r.backup] = manifest[r.backup]
      BY <1>5, <3>1
    <3>3. Holding(r)'
      BY <1>1, <2>2, <3>2 DEF Holding
    <3> QED
      BY <2>1, <3>3
  <2> QED
    BY <2>3, <2>4
<1>9. ASSUME NEW n \in Backup, manifest'[n].state = "active"
      PROVE  manifest[n].state = "active"
  BY <1>5, <1>9
<1>10. ASSUME NEW d \in 0..MaxBackup, Around(d) PROVE Around(d)'
  BY <1>1, <1>9, <1>10 DEF Around
<1>11. ASSUME NEW d \in 0..MaxBackup, Settled(d)
       PROVE  \E e \in 0..MaxBackup : Settled(e)'
  <2>1. Around(d)'
    BY <1>10, <1>11 DEF Settled
  <2>2. restorer'.backup = 0
    BY <1>2 DEF NoRestore
  <2>3. CASE d = 0
    BY <2>1, <2>3 DEF Settled
  <2>4. CASE d # 0 /\ d # b
    <3>1. d \in Backup \ {b}
      BY <2>4, Numbers
    <3>2. manifest'[d] = manifest[d]
      BY <1>5, <3>1
    <3>3. Settled(d)'
      BY <1>1, <1>11, <2>1, <2>2, <2>4, <3>2 DEF Settled
    <3> QED
      BY <3>3
  <2>5. CASE d = b
    <3>1. \A s \in Sample : place[s] # b
      BY <1>2, <1>11, <2>5 DEF Settled
    <3>2. Around(0)'
      <4>1. \A s \in Sample : place[s] \in {Source, b} \cup {rewriter[w].backup : w \in Worker}
        BY <1>11, <2>5 DEF Settled, Around
      <4>2. \A s \in Sample : place'[s] \in {Source, 0} \cup {rewriter'[w].backup : w \in Worker}
        BY <1>1, <3>1, <4>1
      <4> QED
        BY <4>2 DEF Around
    <3>3. Settled(0)'
      BY <3>2 DEF Settled
    <3> QED
      BY <3>3, Numbers
  <2> QED
    BY <2>3, <2>4, <2>5
<1>12. \A w \in Worker : rewriter[w].backup \in 0..MaxBackup
  BY DEF RewriteInv, FilesTyped, RewriterShape
<1>13. \A d \in 0..MaxBackup : Settled(d) =>
         \E e \in 0..MaxBackup : /\ Settled(e)'
                                 /\ recalled' \/ \A c : Taken(d, c) => Taken(e, c)'
  BY <1>1, <1>4, <1>11
<1>14. Outcome'
  BY <1>1, <1>10, <1>12, <1>13, OutcomeBeside DEF Exact
<1> QED
  BY <1>6, <1>7, <1>8, <1>14 DEF Exact

LEMMA ApiExact ==
  ASSUME PhaseInv, RewriteInv, raced' = {}, raced = {}, Exact, Unrecalled, ReviewApi
  PROVE  Exact'
<1>1. Tame
  BY TameApi
<1>2. CASE BeginRestore \/ RestoreMove \/ RestoreWrite
  BY <1>1, <1>2, BeginExact, RestoreMoveExact, RestoreWriteExact
<1>3. CASE ~(BeginRestore \/ RestoreMove \/ RestoreWrite)
  <2>1. /\ confirmed \subseteq confirmed'
        /\ UNCHANGED <<parent, child, rewriter, place, manifest, restorer, recalled>>
    BY <1>3 DEF ReviewApi, SwitchConfig, LateDecision, ConfirmRewrite, rwvars, filevars,
       allvars, prvars
  <2> QED
    BY <1>1, <2>1, QuietExact
<1> QED
  BY <1>2, <1>3

-----------------------------------------------------------------------------
(* The theorems.                                                           *)

LEMMA OutcomeInit == RewriteInit => OutcomeInv
<1> SUFFICES ASSUME RewriteInit PROVE OutcomeInv
  OBVIOUS
<1>1. PhaseInv /\ RewriteInv
  BY GateInv, RewriteInvInit
<1>2. parent.pc = "loop" /\ status = "evidence_review"
  BY TheTask DEF RewriteInit, ParentAt, AtReviewGate, status
<1>3. ThreadKnows
  BY <1>2 DEF ThreadKnows, Carrying, Rewritten
<1>4. /\ rewriter = [w \in Worker |-> NoRewrite] /\ manifest = [b \in Backup |-> NoManifest]
      /\ restorer = NoRestore /\ raced = {}
  BY DEF RewriteInit
<1>5. \A w \in Worker : RowKnows(w, rewriter[w]) /\ Holding(rewriter[w])
  BY <1>4 DEF RowKnows, Holding, NoRewrite, Busy, Moving, Filling
<1>6. InOrder
  BY <1>4 DEF InOrder, NoManifest
<1>7. Unrecalled /\ RestoreExact
  BY <1>4 DEF Unrecalled, RestoreExact, NoRestore
<1>8. Outcome
  BY <1>2 DEF Outcome, Carrying, Finished, Rewritten
<1> QED
  BY <1>1, <1>3, <1>5, <1>6, <1>7, <1>8 DEF OutcomeInv, Exact

LEMMA UnrecalledSound ==
  ASSUME Unrecalled, [RewriteNext]_rxvars
  PROVE  Unrecalled' /\ (raced' = {} => raced = {})
<1>1. CASE UNCHANGED <<restorer, recalled, raced>>
  BY <1>1 DEF Unrecalled
<1>2. CASE BeginRestore
  BY <1>2 DEF BeginRestore, Unrecalled
<1>3. CASE RestoreMove \/ RestoreWrite
  BY <1>3 DEF RestoreMove, RestoreWrite, Unrecalled, NoRestore
<1>4. ASSUME NEW w \in Worker, RewriteStep(w) \/ RewriteFails(w)
      PROVE  UNCHANGED <<restorer, recalled, raced>>
  <2>1. Raises(w) => UNCHANGED <<restorer, recalled, raced>>
    BY DEF Raises
  <2>2. CASE RewriteStarts(w) \/ RewriteLoads(w) \/ RewriteChecks(w) \/ RewriteMoves(w)
             \/ RewriteRecords(w) \/ RewriteFails(w)
    BY <2>1, <2>2 DEF RewriteStarts, RewriteLoads, RewriteChecks, RewriteMoves,
       RewriteRecords, RewriteFails, Untouched
  <2>3. CASE ~(RewriteStarts(w) \/ RewriteLoads(w) \/ RewriteChecks(w) \/ RewriteMoves(w)
               \/ RewriteRecords(w) \/ RewriteFails(w))
    BY <1>4, <2>1, <2>3 DEF RewriteStep, UndoMoves, UndoDiscards, RewriteReads,
       RewriteCommits, RewriteIsStale, StaleRestores, StaleRestored, Untouched
  <2> QED
    BY <2>2, <2>3
<1>5. CASE BackendStep
  BY <1>1, <1>5 DEF BackendStep
<1>6. CASE UNCHANGED rxvars
  BY <1>1, <1>6 DEF rxvars, rwvars, filevars
<1>7. CASE ReviewApi
  BY <1>1, <1>2, <1>3, <1>7 DEF ReviewApi, SwitchConfig, LateDecision, ConfirmRewrite,
     rwvars, filevars
<1> QED
  BY <1>1, <1>4, <1>5, <1>6, <1>7 DEF RewriteNext

LEMMA OutcomeSound ==
  ASSUME OutcomeInv, [RewriteNext]_rxvars PROVE OutcomeInv'
<1>1. PhaseInv' /\ RewriteInv'
  BY ThreadSound, StepSound DEF OutcomeInv
<1>2. ThreadKnows'
  BY <1>1, ThreadKnowsSound DEF OutcomeInv
<1>3. \A w \in Worker : RowKnows(w, rewriter[w])'
  BY RowsKnow DEF OutcomeInv
<1>4. Unrecalled' /\ (raced' = {} => raced = {})
  BY UnrecalledSound DEF OutcomeInv
<1>5. ASSUME raced' = {} PROVE Exact'
  <2>1. raced = {} /\ Exact
    BY <1>4, <1>5 DEF OutcomeInv
  <2>2. CASE BackendStep
    BY <2>1, <2>2, BackendExact DEF OutcomeInv
  <2>3. CASE \E w \in Worker : RewriteStep(w) \/ RewriteFails(w)
    BY <2>1, <2>3, RewriterExact DEF OutcomeInv
  <2>4. CASE ReviewApi
    BY <1>5, <2>1, <2>4, ApiExact DEF OutcomeInv
  <2>5. CASE UNCHANGED rxvars
    <3>1. UNCHANGED <<task, lease, parent, child, rewriter, place, manifest, restorer,
                      recalled, confirmed>>
      BY <2>5 DEF rxvars, allvars, prvars, rwvars, filevars, vars
    <3>2. Tame
      BY <3>1, TameStill
    <3> QED
      BY <2>1, <3>1, <3>2, QuietExact DEF OutcomeInv
  <2> QED
    BY <2>2, <2>3, <2>4, <2>5 DEF RewriteNext
<1> QED
  BY <1>1, <1>2, <1>3, <1>4, <1>5 DEF OutcomeInv

LEMMA OutcomeInvariance == RewriteSpec => []OutcomeInv
BY OutcomeInit, OutcomeSound, PTL DEF RewriteSpec

(* What one restore takes back: the settled backup is the newest.          *)
LEMMA OutcomeRestorable == ASSUME OutcomeInv PROVE CompletedRestorable
<1> SUFFICES ASSUME Rewritten, restorer = NoRestore, raced = {}, NoneUnderWay
             PROVE  \/ InSource(Sample)
                    \/ \E b \in Backup : /\ NewestActive(b) /\ Restorable(b)
                                         /\ InSource(Sample \ manifest[b].moved)
  BY DEF CompletedRestorable
<1>1. PICK b \in 0..MaxBackup : Settled(b)
  BY DEF OutcomeInv, Exact, Outcome
<1>2. \A s \in Sample : place[s] \in {Source, b}
  BY <1>1, Numbers DEF Settled, Around, NoneUnderWay
<1>3. CASE b = 0
  BY <1>2, <1>3, Numbers DEF InSource
<1>4. CASE b # 0
  <2>1. b \in Backup /\ manifest \in [Backup -> Manifest]
    BY <1>4, Numbers DEF OutcomeInv, RewriteInv, FilesTyped
  <2>2. /\ manifest[b].state = "active"
        /\ \A s \in Sample : place[s] = b <=> s \in manifest[b].moved
        /\ \A n \in Backup : ~(n > b /\ manifest[n].state = "active")
    <3>1. restorer.backup = 0
      BY DEF NoRestore
    <3>2. \A n \in Backup : n # 0
      BY Numbers
    <3> QED
      BY <1>1, <1>4, <3>1, <3>2 DEF Settled, Around, NoneUnderWay
  <2>3. NewestActive(b)
    BY <2>1, <2>2, Numbers DEF NewestActive
  <2>4. Restorable(b)
    BY <2>1, <2>2 DEF Restorable, Manifest
  <2>5. InSource(Sample \ manifest[b].moved)
    BY <1>2, <2>2 DEF InSource
  <2> QED
    BY <2>1, <2>3, <2>4, <2>5
<1> QED
  BY <1>3, <1>4

(* A completed rewrite can be taken back by one restore, for any samples,  *)
(* attempts, backends one after the other, faults and changed decisions.   *)
THEOREM OneRestoreUndoes == RewriteSpec => []CompletedRestorable
BY OutcomeInvariance, OutcomeRestorable, PTL

(* What CompletedAsConfirmed asks of a step.                               *)
DoneAsConfirmed ==
  (~Rewritten /\ Rewritten') =>
    \/ recalled
    \/ ~NoneUnderWay
    \/ \E e \in confirmed : /\ e.config = task[T].config
                            /\ InSource(e.digest.curated)
                            /\ ~\E s \in Sample \ e.digest.curated : place[s] = Source

(* Only the thread's finalizer completes the task, after its own child did.*)
LEMMA OutcomeDone ==
  ASSUME OutcomeInv, [RewriteNext]_rxvars PROVE DoneAsConfirmed
<1> SUFFICES ASSUME ~Rewritten, Rewritten', ~recalled, NoneUnderWay
             PROVE  \E e \in confirmed :
                      /\ e.config = task[T].config
                      /\ InSource(e.digest.curated)
                      /\ ~\E s \in Sample \ e.digest.curated : place[s] = Source
  BY DEF DoneAsConfirmed
<1>1. PhaseInv /\ RewriteInv /\ ThreadKnows /\ Unrecalled
  BY DEF OutcomeInv
<1>2. ~Tame
  BY StillRewritten
<1>3. BackendStep
  <2>1. ~ReviewApi
    BY <1>1, <1>2, TameApi
  <2>2. ~UNCHANGED rxvars
    BY <1>2, TameStill DEF rxvars, allvars, vars
  <2>3. ASSUME NEW w \in Worker, RewriteStep(w) \/ RewriteFails(w) PROVE FALSE
    BY <1>1, <1>2, <2>3, RewriterRow, TameStill, TameBatch, ParentFacts
       DEF ReadResumePoint, vars, db
  <2> QED
    BY <2>1, <2>2, <2>3 DEF RewriteNext
<1>4. Finished /\ task[T].config = parent.config
  BY <1>1, <1>3, RewrittenBefore
<1>5. raced = {}
  BY <1>1 DEF Unrecalled
<1>6. PICK b \in 0..MaxBackup : Settled(b) /\ Taken(b, parent.config)
  BY <1>4, <1>5 DEF OutcomeInv, Exact, Outcome
<1>7. PICK e \in confirmed :
        /\ e.config = task[T].config /\ e.digest.curated \subseteq Sample
        /\ \A s \in Sample : s \notin e.digest.curated <=> b # 0 /\ place[s] = b
  BY <1>4, <1>6 DEF Taken
<1>8. \A s \in Sample : place[s] \in {Source, b}
  BY <1>6, Numbers DEF Settled, Around, NoneUnderWay
<1>9. InSource(e.digest.curated)
  BY <1>7, <1>8, Numbers DEF InSource
<1>10. ~\E s \in Sample \ e.digest.curated : place[s] = Source
  BY <1>7, Numbers
<1> QED
  BY <1>7, <1>9, <1>10

(* A task completes its rewrite with exactly what one confirmed preview    *)
(* excluded out of the source folder, for any samples, attempts, backends  *)
(* one after the other, faults and changed decisions.                      *)
THEOREM DoneIsConfirmed == RewriteSpec => CompletedAsConfirmed
<1>1. OutcomeInv /\ [RewriteNext]_rxvars => [DoneAsConfirmed]_rxvars
  BY OutcomeDone
<1>2. [][DoneAsConfirmed]_rxvars => CompletedAsConfirmed
  BY PTL DEF DoneAsConfirmed, CompletedAsConfirmed
<1> QED
  BY <1>1, <1>2, OutcomeInvariance, PTL DEF RewriteSpec

-----------------------------------------------------------------------------
(* The decisions of a review and the copy exports made from them, for any  *)
(* samples, evidence, settings, reviewers and clients.                     *)

allreview == <<vars, reviewvars>>

DecisionRow ==
  [sample : Sample, id : Nat, category : Category \cup {"manual"},
   decision : HumanVerdict, active : BOOLEAN, supersedes : Nat]

(* The rows of one sample, in any table of decisions.                      *)
Of(rows, s) == {r \in rows : r.sample = s}

(* They are numbered without gaps, the last one is the active one, and each*)
(* supersedes the one before and says the opposite.                        *)
ChainOf(rows, s) ==
  LET mine == Of(rows, s)
      last == Cardinality(mine)
  IN /\ IsFiniteSet(mine)
     /\ \A r \in mine : r.id \in 1..last /\ r.supersedes = r.id - 1
     /\ \A r, q \in mine : r.id = q.id => r = q
     /\ \A r \in mine : r.active <=> r.id = last
     /\ \A r, q \in mine : r.id = q.id + 1 => r.decision # q.decision
     /\ last # 0 => \E r \in mine : r.id = last

ChainsSound(rows) == rows \subseteq DecisionRow /\ \A s \in Sample : ChainOf(rows, s)

(* DecisionChain alone is not inductive: a new row is numbered by counting *)
(* the rows of its sample, which names it apart only if the numbers before *)
(* have no gap.                                                            *)
ReviewInv ==
  /\ ChainsSound(decision)
  /\ \A v \in Reviewer : review[v] = NoRequest \/ review[v] \in Request
  /\ DOMAIN review = Reviewer
  /\ DOMAIN creator = Client /\ DOMAIN snapshot = Run
  /\ DOMAIN run = Run /\ \A r \in Run : "status" \in DOMAIN run[r]
  /\ DOMAIN task = Task /\ "config" \in DOMAIN task[Reviewed]

-----------------------------------------------------------------------------
(* The operators on tables of decisions.                                   *)

(* A row as a later decision leaves it.                                    *)
Retired(r) == [r EXCEPT !.active = FALSE]

LEMMA RetiredType ==
  ASSUME NEW r \in DecisionRow
  PROVE  /\ Retired(r) \in DecisionRow /\ Retired(r).sample = r.sample
         /\ Retired(r).id = r.id /\ Retired(r).supersedes = r.supersedes
         /\ Retired(r).decision = r.decision /\ ~Retired(r).active
BY DEF DecisionRow, Retired

(* The decision in force is the last of the chain, if there is one.        *)
LEMMA NewestIsLast ==
  ASSUME NEW rows, rows \subseteq DecisionRow, NEW s \in Sample, ChainOf(rows, s)
  PROVE  /\ Cardinality(Of(rows, s)) \in Nat
         /\ Of(rows, s) = {} => /\ Cardinality(Of(rows, s)) = 0
                                /\ ActiveOverlay(rows, s) = {}
                                /\ NewestOverlay(rows, s).id = 0
         /\ Of(rows, s) # {} =>
              \E r \in Of(rows, s) :
                /\ r.id = Cardinality(Of(rows, s))
                /\ ActiveOverlay(rows, s) = {r}
                /\ NewestOverlay(rows, s) = r
<1> PICK n : n = Cardinality(Of(rows, s))
  OBVIOUS
<1>1. n \in Nat
  BY FS_CardinalityType DEF ChainOf
<1>2. ASSUME Of(rows, s) = {}
      PROVE  n = 0 /\ ActiveOverlay(rows, s) = {} /\ NewestOverlay(rows, s).id = 0
  <2>1. n = 0
    BY <1>2, FS_EmptySet
  <2>2. ActiveOverlay(rows, s) = {}
    BY <1>2 DEF Of, ActiveOverlay
  <2> QED
    BY <2>1, <2>2 DEF NewestOverlay, NoDecision
<1>3. ASSUME Of(rows, s) # {}
      PROVE  \E r \in Of(rows, s) :
               r.id = n /\ ActiveOverlay(rows, s) = {r} /\ NewestOverlay(rows, s) = r
  <2>1. n # 0
    BY <1>3, FS_EmptySet DEF ChainOf
  <2>2. PICK r \in Of(rows, s) : r.id = n
    BY <2>1 DEF ChainOf
  <2>3. ActiveOverlay(rows, s) = {q \in Of(rows, s) : q.active}
    BY DEF ActiveOverlay, Of
  <2>4. ActiveOverlay(rows, s) = {r}
    BY <2>2, <2>3 DEF ChainOf
  <2>5. NewestOverlay(rows, s) = CHOOSE x \in {r} : \A q \in {r} : q.id <= x.id
    BY <2>4 DEF NewestOverlay
  <2>6. r.id \in Nat
    BY <1>1, <2>2
  <2>7. NewestOverlay(rows, s) = r
    BY <2>5, <2>6
  <2> QED
    BY <2>2, <2>4, <2>7
<1> QED
  BY <1>1, <1>2, <1>3

(* The row a decision adds for s.                                          *)
NewRow(rows, s, category, verdict) ==
  [sample     |-> s,
   id         |-> Cardinality({r \in rows : r.sample = s}) + 1,
   category   |-> category,
   decision   |-> verdict,
   active     |-> TRUE,
   supersedes |-> NewestOverlay(rows, s).id]

Changed(rows, samples, verdict) == {s \in samples : Verdict(rows, s) # verdict}

LEMMA DecidedUntouched ==
  ASSUME NEW rows, rows \subseteq DecisionRow, NEW samples, NEW category, NEW verdict,
         NEW s \in Sample, s \notin Changed(rows, samples, verdict)
  PROVE  Of(Decided(rows, samples, category, verdict), s) = Of(rows, s)
<1> PICK changed : changed = {u \in samples : Verdict(rows, u) # verdict}
  OBVIOUS
<1> PICK retired : retired = UNION {ActiveOverlay(rows, u) : u \in changed}
  OBVIOUS
<1>1. s \notin changed
  BY DEF Changed
<1>2. \A r \in retired : r \in DecisionRow /\ r.sample # s
  BY <1>1 DEF ActiveOverlay
<1>3. Decided(rows, samples, category, verdict)
        = (rows \ retired) \cup {Retired(r) : r \in retired}
            \cup {NewRow(rows, u, category, verdict) : u \in changed}
  BY DEF Decided, Retires, NewRow, Retired
<1>4. \A r \in retired : Retired(r).sample # s
  BY <1>2, RetiredType
<1>5. \A u \in changed : NewRow(rows, u, category, verdict).sample # s
  BY <1>1 DEF NewRow
<1> QED
  BY <1>2, <1>3, <1>4, <1>5 DEF Of

LEMMA DecidedTouched ==
  ASSUME NEW rows, rows \subseteq DecisionRow, NEW samples, NEW category, NEW verdict,
         NEW s \in Sample, s \in Changed(rows, samples, verdict)
  PROVE  Of(Decided(rows, samples, category, verdict), s)
           = (Of(rows, s) \ ActiveOverlay(rows, s))
               \cup {Retired(r) : r \in ActiveOverlay(rows, s)}
               \cup {NewRow(rows, s, category, verdict)}
<1> PICK changed : changed = {u \in samples : Verdict(rows, u) # verdict}
  OBVIOUS
<1> PICK retired : retired = UNION {ActiveOverlay(rows, u) : u \in changed}
  OBVIOUS
<1> PICK left : left = rows \ retired
  OBVIOUS
<1> PICK ended : ended = {Retired(r) : r \in retired}
  OBVIOUS
<1> PICK added : added = {NewRow(rows, u, category, verdict) : u \in changed}
  OBVIOUS
<1>1. s \in changed
  BY DEF Changed
<1>2. \A r \in retired : r \in DecisionRow /\ (r.sample = s <=> r \in ActiveOverlay(rows, s))
  BY DEF ActiveOverlay
<1>3. Decided(rows, samples, category, verdict) = left \cup ended \cup added
  BY DEF Decided, Retires, NewRow, Retired
<1>4. \A r \in retired : Retired(r).sample = r.sample
  BY <1>2, RetiredType
<1>5. \A u \in changed : NewRow(rows, u, category, verdict).sample = u
  BY DEF NewRow
<1>6. ActiveOverlay(rows, s) \subseteq retired
  BY <1>1
<1>7. Of(rows \ retired, s) = Of(rows, s) \ ActiveOverlay(rows, s)
  BY <1>2, <1>6 DEF Of, ActiveOverlay
<1>8. Of({Retired(r) : r \in retired}, s)
        = {Retired(r) : r \in ActiveOverlay(rows, s)}
  <2>1. \A r \in retired : Retired(r).sample = s <=> r \in ActiveOverlay(rows, s)
    BY <1>2, <1>4
  <2> QED
    BY <1>6, <2>1 DEF Of
<1>9. Of({NewRow(rows, u, category, verdict) : u \in changed}, s)
        = {NewRow(rows, s, category, verdict)}
  BY <1>1, <1>5 DEF Of
<1>10. Of(left \cup ended \cup added, s) = Of(left, s) \cup Of(ended, s) \cup Of(added, s)
  BY DEF Of
<1>11. /\ Of(left, s) = Of(rows, s) \ ActiveOverlay(rows, s)
       /\ Of(ended, s) = {Retired(r) : r \in ActiveOverlay(rows, s)}
       /\ Of(added, s) = {NewRow(rows, s, category, verdict)}
  BY <1>7, <1>8, <1>9, Zenon
<1> QED
  BY <1>3, <1>10, <1>11, Zenon

LEMMA NewRowType ==
  ASSUME NEW rows, rows \subseteq DecisionRow, NEW s \in Sample, ChainOf(rows, s),
         NEW category \in Category \cup {"manual"}, NEW verdict \in HumanVerdict
  PROVE  /\ NewRow(rows, s, category, verdict) \in DecisionRow
         /\ NewRow(rows, s, category, verdict).sample = s
         /\ NewRow(rows, s, category, verdict).id = Cardinality(Of(rows, s)) + 1
         /\ NewRow(rows, s, category, verdict).supersedes = Cardinality(Of(rows, s))
         /\ NewRow(rows, s, category, verdict).decision = verdict
         /\ NewRow(rows, s, category, verdict).active
<1>1. Cardinality(Of(rows, s)) \in Nat
  BY NewestIsLast
<1>2. NewestOverlay(rows, s).id = Cardinality(Of(rows, s))
  BY NewestIsLast
<1>3. Cardinality({r \in rows : r.sample = s}) = Cardinality(Of(rows, s))
  BY DEF Of
<1> PICK n \in Nat : n = Cardinality(Of(rows, s))
  BY <1>1
<1>4. NewRow(rows, s, category, verdict)
        = [sample |-> s, id |-> n + 1, category |-> category, decision |-> verdict,
           active |-> TRUE, supersedes |-> n]
  BY <1>2, <1>3 DEF NewRow
<1>5. n + 1 \in Nat
  OBVIOUS
<1> QED
  BY <1>4, <1>5 DEF DecisionRow

(* One more link: the last row is retired, and the new one says otherwise. *)
LEMMA ChainGrows ==
  ASSUME NEW rows, rows \subseteq DecisionRow, NEW s \in Sample, ChainOf(rows, s),
         NEW category \in Category \cup {"manual"}, NEW verdict \in HumanVerdict,
         NEW after, after \subseteq DecisionRow, Verdict(rows, s) # verdict,
         Of(after, s) = (Of(rows, s) \ ActiveOverlay(rows, s))
               \cup {Retired(r) : r \in ActiveOverlay(rows, s)}
               \cup {NewRow(rows, s, category, verdict)}
  PROVE  ChainOf(after, s)
<1> PICK n : n = Cardinality(Of(rows, s))
  OBVIOUS
<1> PICK new : new = NewRow(rows, s, category, verdict)
  OBVIOUS
<1> PICK old : old = Of(rows, s)
  OBVIOUS
<1>0. n \in Nat /\ IsFiniteSet(old) /\ old \subseteq DecisionRow /\ Cardinality(old) = n
  <2>1. IsFiniteSet(Of(rows, s))
    BY DEF ChainOf
  <2>2. Of(rows, s) \subseteq rows
    BY DEF Of
  <2> QED
    BY <2>1, <2>2, FS_CardinalityType
<1>1. /\ new.id = n + 1 /\ new.supersedes = n /\ new.decision = verdict /\ new.active
      /\ new \in DecisionRow
  BY NewRowType
<1>2. CASE old = {}
  <2>1. Of(after, s) = {new} /\ n = 0
    BY <1>2, NewestIsLast
  <2>2. IsFiniteSet({new}) /\ Cardinality({new}) = 1
    BY FS_Singleton
  <2>3. new.id = 1 /\ new.supersedes = new.id - 1 /\ new.id \in 1..1 /\ 1 # 1 + 1
    BY <1>1, <2>1
  <2>4. Cardinality(Of(after, s)) = 1 /\ IsFiniteSet(Of(after, s))
    BY <2>1, <2>2
  <2> QED
    BY <1>1, <2>1, <2>3, <2>4 DEF ChainOf
<1>3. CASE old # {}
  <2>1. PICK r \in old : r.id = n /\ ActiveOverlay(rows, s) = {r} /\ NewestOverlay(rows, s) = r
    BY <1>3, NewestIsLast
  <2> PICK retired : retired = Retired(r)
    OBVIOUS
  <2>2. /\ retired.id = n /\ retired.supersedes = r.supersedes
        /\ retired.decision = r.decision /\ ~retired.active
    BY <1>0, <2>1, RetiredType
  <2> PICK rest : rest = old \ {r}
    OBVIOUS
  <2> PICK most : most = rest \cup {retired}
    OBVIOUS
  <2>3. Of(after, s) = most \cup {new}
    BY <2>1
  <2>4. \A q \in old : q.id \in 1..n /\ q.supersedes = q.id - 1 /\ (q.active <=> q.id = n)
    BY DEF ChainOf
  <2>5. \A q \in rest : q.id \in 1..n /\ q.id # n /\ ~q.active /\ q.supersedes = q.id - 1
    BY <2>1, <2>4 DEF ChainOf
  <2>13. r.id \in 1..n /\ r.supersedes = n - 1
    BY <2>1, <2>4
  <2>14. \A q \in most : q.id \in 1..n /\ ~q.active /\ q.supersedes = q.id - 1
    BY <2>1, <2>2, <2>5, <2>13
  <2>6. retired \notin rest /\ new \notin most
    BY <1>0, <1>1, <2>2, <2>5, <2>14
  <2>7. IsFiniteSet(Of(after, s)) /\ Cardinality(Of(after, s)) = n + 1
    <3>1. IsFiniteSet(rest) /\ Cardinality(rest) = n - 1
      BY <1>0, <2>1, FS_RemoveElement
    <3>2. IsFiniteSet(most) /\ Cardinality(most) = (n - 1) + 1
      <4>1. /\ IsFiniteSet(rest \cup {retired})
            /\ Cardinality(rest \cup {retired}) = Cardinality(rest) + 1
        BY <2>6, <3>1, FS_AddElement
      <4> QED
        BY <3>1, <4>1
    <3>3. (n - 1) + 1 = n
      BY <1>0
    <3>4. /\ IsFiniteSet(most \cup {new})
          /\ Cardinality(most \cup {new}) = n + 1
      BY <2>6, <3>2, <3>3, FS_AddElement
    <3> QED
      BY <2>3, <3>4
  <2>8. \A q \in Of(after, s) : q.id \in 1..n + 1 /\ q.supersedes = q.id - 1
    BY <1>0, <1>1, <2>3, <2>14
  <2>9. \A q, p \in Of(after, s) : q.id = p.id => q = p
    <3>1. \A q, p \in rest : q.id = p.id => q = p
      BY DEF ChainOf
    <3>2. \A q, p \in most : q.id = p.id => q = p
      BY <2>2, <2>5, <3>1
    <3> QED
      BY <1>0, <1>1, <2>3, <2>14, <3>2
  <2>10. \A q \in Of(after, s) : q.active <=> q.id = n + 1
    BY <1>0, <1>1, <2>3, <2>14
  <2>11. \A q, p \in Of(after, s) : q.id = p.id + 1 => q.decision # p.decision
    <3>1. \A q, p \in old : q.id = p.id + 1 => q.decision # p.decision
      BY DEF ChainOf
    <3>2. r.decision # verdict
      BY <2>1 DEF Verdict
    <3>3. \A q \in most : \E o \in old : q.id = o.id /\ q.decision = o.decision
      BY <2>1, <2>2
    <3>4. \A q, p \in most : q.id = p.id + 1 => q.decision # p.decision
      BY <3>1, <3>3
    <3>5. \A p \in most : p.id = n => p = retired
      BY <2>5
    <3>6. \A p \in most : n + 1 = p.id + 1 => p.id = n
      BY <1>0, <2>14
    <3>7. \A p \in most : new.id = p.id + 1 => new.decision # p.decision
      BY <1>1, <2>2, <3>2, <3>5, <3>6
    <3>8. \A q \in most : q.id # new.id + 1
      BY <1>0, <1>1, <2>14
    <3>9. new.id # new.id + 1
      BY <1>0, <1>1
    <3> QED
      BY <2>3, <3>4, <3>7, <3>8, <3>9
  <2>12. \E q \in Of(after, s) : q.id = n + 1
    BY <1>1, <2>3
  <2> QED
    BY <2>7, <2>8, <2>9, <2>10, <2>11, <2>12 DEF ChainOf
<1> QED
  BY <1>2, <1>3

LEMMA DecidedSound ==
  ASSUME NEW rows, ChainsSound(rows), NEW samples \in SUBSET Sample,
         NEW category \in Category \cup {"manual"}, NEW verdict \in HumanVerdict
  PROVE  ChainsSound(Decided(rows, samples, category, verdict))
<1> PICK after : after = Decided(rows, samples, category, verdict)
  OBVIOUS
<1>0. rows \subseteq DecisionRow /\ \A s \in Sample : ChainOf(rows, s)
  BY DEF ChainsSound
<1>1. after \subseteq DecisionRow
  <2> PICK changed : changed = {u \in samples : Verdict(rows, u) # verdict}
    OBVIOUS
  <2> PICK retired : retired = UNION {ActiveOverlay(rows, u) : u \in changed}
    OBVIOUS
  <2>1. after = (rows \ retired) \cup {Retired(r) : r \in retired}
                  \cup {NewRow(rows, u, category, verdict) : u \in changed}
    BY DEF Decided, Retires, NewRow, Retired
  <2>2. retired \subseteq rows
    BY DEF ActiveOverlay
  <2>3. \A r \in retired : Retired(r) \in DecisionRow
    BY <1>0, <2>2, RetiredType
  <2>4. \A u \in changed : NewRow(rows, u, category, verdict) \in DecisionRow
    BY <1>0, NewRowType
  <2> QED
    BY <1>0, <2>1, <2>3, <2>4
<1>2. ASSUME NEW s \in Sample PROVE ChainOf(after, s)
  <2>1. CASE s \in Changed(rows, samples, verdict)
    <3>1. Verdict(rows, s) # verdict
      BY <2>1 DEF Changed
    <3> QED
      <4>1. Of(after, s)
              = (Of(rows, s) \ ActiveOverlay(rows, s))
                  \cup {Retired(r) : r \in ActiveOverlay(rows, s)}
                  \cup {NewRow(rows, s, category, verdict)}
        BY <1>0, <2>1, DecidedTouched
      <4> QED
        BY <1>0, <1>1, <3>1, <4>1, ChainGrows
  <2>2. CASE s \notin Changed(rows, samples, verdict)
    BY <1>0, <2>2, DecidedUntouched DEF ChainOf
  <2> QED
    BY <2>1, <2>2
<1> QED
  BY <1>1, <1>2 DEF ChainsSound

-----------------------------------------------------------------------------
(* The steps.                                                              *)

LEMMA SelectedSamples == \A samples \in Selection : samples \subseteq Sample
BY ReviewAssumption

LEMMA RequestParts ==
  \A asked \in Request :
    /\ asked.category \in Category /\ asked.samples \subseteq Sample
    /\ asked.decision \in HumanVerdict
BY SelectedSamples DEF Request

LEMMA ReviewedIsTask == Reviewed \in Task
BY ReviewAssumption DEF Reviewed

LEMMA ReviewInitSound == ReviewInit => ReviewInv
<1> SUFFICES ASSUME ReviewInit PROVE ReviewInv
  OBVIOUS
<1>1. decision = {}
  BY DEF ReviewInit, OverlayInit
<1>2. \A s \in Sample : Of(decision, s) = {}
  BY <1>1 DEF Of
<1>3. \A s \in Sample : ChainOf(decision, s)
  BY <1>2, FS_EmptySet DEF ChainOf
<1>4. DOMAIN run = Run /\ \A r \in Run : "status" \in DOMAIN run[r]
  BY DEF ReviewInit, AtReviewGate
<1>5. DOMAIN task = Task /\ "config" \in DOMAIN task[Reviewed]
  BY ReviewedIsTask DEF ReviewInit, AtReviewGate
<1> QED
  BY <1>1, <1>3, <1>4, <1>5 DEF ReviewInit, OverlayInit, ReviewInv, ChainsSound

(* The tables of decisions, runs and snapshots keep their shape.           *)
LEMMA ReviewStepSound ==
  ASSUME ReviewInv, [ReviewNext]_allreview
  PROVE  ReviewInv'
<1>1. CASE \E v \in Reviewer : AskDecision(v)
  <2> PICK v \in Reviewer : AskDecision(v)
    BY <1>1
  <2>1. PICK asked \in Request : review' = [review EXCEPT ![v] = asked]
    BY DEF AskDecision
  <2> QED
    BY <2>1 DEF AskDecision, ReviewInv, vars
<1>2. CASE \E v \in Reviewer : WriteDecision(v)
  <2> PICK v \in Reviewer : WriteDecision(v)
    BY <1>2
  <2> PICK asked \in Request : asked = review[v]
    BY DEF WriteDecision, ReviewInv
  <2>1. PICK picked \in SUBSET Sample :
          decision' = Decided(decision, picked, asked.category, asked.decision)
    BY RequestParts DEF WriteDecision, Write
  <2>2. ChainsSound(decision')
    BY <2>1, RequestParts, DecidedSound DEF ReviewInv
  <2> QED
    BY <2>2 DEF WriteDecision, ReviewInv, vars
<1>3. CASE SetManualExclusions
  <2>1. PICK samples \in SUBSET Sample, verdict \in HumanVerdict :
          decision' = Decided(decision, samples, "manual", verdict)
    BY <1>3, SelectedSamples DEF SetManualExclusions
  <2>2. ChainsSound(decision')
    BY <2>1, DecidedSound DEF ReviewInv
  <2> QED
    BY <1>3, <2>2 DEF SetManualExclusions, ReviewInv, vars
<1>4. CASE DeleteReviewed
  <2>1. decision' = {}
    BY <1>4 DEF DeleteReviewed
  <2>2. \A s \in Sample : ChainOf({}, s)
    BY FS_EmptySet DEF ChainOf, Of
  <2>3. ChainsSound(decision')
    BY <2>1, <2>2 DEF ChainsSound
  <2>4. task' = [task EXCEPT ![Reviewed] = [NoRow EXCEPT !.status = "deleted",
                                                         !.epoch = task[Reviewed].epoch]]
    BY <1>4 DEF DeleteReviewed, DeleteTask
  <2>5. DOMAIN task' = Task /\ "config" \in DOMAIN task'[Reviewed]
    BY <2>4, ReviewedIsTask DEF NoRow, ReviewInv
  <2> QED
    BY <1>4, <2>3, <2>5 DEF DeleteReviewed, DeleteTask, ReviewInv
<1>5. CASE \E x \in Client : PreviewExport(x) \/ PlanExport(x) \/ AbandonExport(x)
  <2>1. DOMAIN creator' = Client
    BY <1>5 DEF PreviewExport, PlanExport, AbandonExport, ReviewInv
  <2> QED
    BY <1>5, <2>1 DEF PreviewExport, PlanExport, AbandonExport, ReviewInv, vars
<1>6. CASE \E x \in Client : InsertRun(x)
  <2> PICK x \in Client : InsertRun(x)
    BY <1>6
  <2>1. DOMAIN creator' = Client /\ UNCHANGED <<decision, review>>
    BY DEF InsertRun, ReviewInv
  <2>2. PICK r \in Run : /\ CompleteFirstCopyExport(Reviewed, r) \/ CreateExportRun(Reviewed, r)
                         /\ DOMAIN snapshot' = DOMAIN snapshot
    BY DEF InsertRun
  <2>3. run' = [run EXCEPT ![r].status = "queued"]
    BY <2>2 DEF CompleteFirstCopyExport, CreateExportRun
  <2>4. DOMAIN run' = Run /\ \A q \in Run : "status" \in DOMAIN run'[q]
    BY <2>3 DEF ReviewInv
  <2>5. \/ task' = task
        \/ task' = [task EXCEPT ![Reviewed].status = "completed", ![Reviewed].resume = None]
    BY <2>2 DEF CompleteFirstCopyExport, CreateExportRun
  <2>6. DOMAIN task' = Task /\ "config" \in DOMAIN task'[Reviewed]
    BY <2>5, ReviewedIsTask DEF ReviewInv
  <2> QED
    BY <2>1, <2>2, <2>4, <2>6 DEF ReviewInv
<1>7. CASE \E force \in BOOLEAN : RequestTerminate(Reviewed, force) /\ UNCHANGED reviewvars
  <2>1. UNCHANGED <<run, decision, review, creator, snapshot>>
    BY <1>7 DEF RequestTerminate, reviewvars
  <2>2. DOMAIN task' = Task /\ "config" \in DOMAIN task'[Reviewed]
    BY <1>7, ReviewedIsTask DEF RequestTerminate, ReviewInv
  <2> QED
    BY <2>1, <2>2 DEF ReviewInv
<1>8. CASE UNCHANGED allreview
  BY <1>8 DEF ReviewInv, allreview, vars, reviewvars
<1> QED
  BY <1>1, <1>2, <1>3, <1>4, <1>5, <1>6, <1>7, <1>8
     DEF ReviewNext, ReviewStep, ReviewGateStep

LEMMA ReviewInvariance == ReviewSpec => []ReviewInv
BY ReviewInitSound, ReviewStepSound, PTL DEF ReviewSpec, allreview

-----------------------------------------------------------------------------
(* The theorems.                                                           *)

(* The decisions of a sample form one chain, for any samples, pages and    *)
(* reviewers: each but the first supersedes the one before it and says the *)
(* opposite, and only the last is in force.                                *)
THEOREM DecisionsChain == ReviewSpec => []DecisionChain
<1>1. ReviewInv => DecisionChain
  <2> SUFFICES ASSUME ReviewInv, NEW r \in decision
               PROVE  /\ r.supersedes = r.id - 1
                      /\ r.active <=> ~\E q \in decision : q.sample = r.sample /\ q.id > r.id
                      /\ \A q \in decision :
                           (q.sample = r.sample /\ q.id = r.supersedes)
                             => q.decision # r.decision
    BY DEF DecisionChain
  <2> PICK s \in Sample : s = r.sample
    BY DEF ReviewInv, ChainsSound, DecisionRow
  <2> PICK n : n = Cardinality(Of(decision, s))
    OBVIOUS
  <2>1. ChainOf(decision, s) /\ decision \subseteq DecisionRow
    BY DEF ReviewInv, ChainsSound
  <2>2. n \in Nat
    BY <2>1, FS_CardinalityType DEF ChainOf
  <2>3. r \in Of(decision, s) /\ \A q \in decision : q.sample = s <=> q \in Of(decision, s)
    BY DEF Of
  <2>4. r.id \in 1..n /\ r.supersedes = r.id - 1 /\ (r.active <=> r.id = n)
    BY <2>1, <2>3 DEF ChainOf
  <2>5. \A q \in Of(decision, s) : q.id \in 1..n
    BY <2>1 DEF ChainOf
  <2>6. \E q \in Of(decision, s) : q.id = n
    BY <2>1, <2>2, <2>4 DEF ChainOf
  <2>7. r.active <=> ~\E q \in decision : q.sample = r.sample /\ q.id > r.id
    <3>1. ASSUME r.id = n, NEW q \in decision, q.sample = r.sample
          PROVE  ~(q.id > r.id)
      BY <2>2, <2>3, <2>5, <3>1
    <3>2. ASSUME r.id # n
          PROVE  \E q \in decision : q.sample = r.sample /\ q.id > r.id
      <4> PICK q \in Of(decision, s) : q.id = n
        BY <2>6
      <4>1. q \in decision /\ q.sample = r.sample
        BY DEF Of
      <4>2. q.id > r.id
        BY <2>2, <2>4, <3>2
      <4> QED
        BY <4>1, <4>2
    <3>3. r.id = n <=> ~\E q \in decision : q.sample = r.sample /\ q.id > r.id
      BY <3>1, <3>2
    <3> QED
      BY <2>4, <3>3, Zenon
  <2>8. ASSUME NEW q \in decision, q.sample = r.sample, q.id = r.supersedes
        PROVE  q.decision # r.decision
    <3>1. q \in Of(decision, s) /\ r.id = q.id + 1
      BY <2>2, <2>3, <2>4, <2>8
    <3> QED
      BY <2>1, <2>3, <3>1 DEF ChainOf
  <2> QED
    BY <2>4, <2>7, <2>8
<1> QED
  BY <1>1, ReviewInvariance, PTL

(* A run is inserted with a plan that some client holds and that is what   *)
(* the decisions of that moment select, for any decisions written between  *)
(* the preview, the hashing and the insertion.                             *)
THEOREM ConfirmedRuns == ReviewSpec => RunsAsConfirmed
<1> DEFINE AsPreviewed ==
      \A r \in Run :
        (run[r].status = "absent" /\ run'[r].status # "absent") =>
          /\ \E x \in Client : creator[x].plan = snapshot'[r]
          /\ snapshot'[r] = CopyPlan(decision', task'[Reviewed].config,
                                     snapshot'[r].settings)
<1>1. ASSUME ReviewInv, ReviewNext
      PROVE  AsPreviewed
  <2> SUFFICES ASSUME NEW r \in Run, run[r].status = "absent", run'[r].status # "absent"
               PROVE  /\ \E x \in Client : creator[x].plan = snapshot'[r]
                      /\ snapshot'[r] = CopyPlan(decision', task'[Reviewed].config,
                                                 snapshot'[r].settings)
    OBVIOUS
  <2>1. run' # run
    OBVIOUS
  <2>2. PICK x \in Client : InsertRun(x)
    BY <1>1, <2>1 DEF ReviewNext, ReviewStep, ReviewGateStep, AskDecision, WriteDecision,
         SetManualExclusions, PreviewExport, PlanExport, AbandonExport, DeleteReviewed,
         DeleteTask, RequestTerminate, vars
  <2>3. PICK q \in Run :
          /\ CompleteFirstCopyExport(Reviewed, q) \/ CreateExportRun(Reviewed, q)
          /\ snapshot' = [snapshot EXCEPT ![q] = creator[x].plan]
    BY <2>2 DEF InsertRun
  <2>4. run' = [run EXCEPT ![q].status = "queued"]
    BY <2>3 DEF CompleteFirstCopyExport, CreateExportRun
  <2>5. q = r
    BY <1>1, <2>4 DEF ReviewInv
  <2>6. snapshot'[r] = creator[x].plan
    BY <1>1, <2>3, <2>5 DEF ReviewInv
  <2>7. decision' = decision
    BY <2>2 DEF InsertRun
  <2>8. task'[Reviewed].config = task[Reviewed].config
    <3>1. \/ task' = task
          \/ task' = [task EXCEPT ![Reviewed].status = "completed", ![Reviewed].resume = None]
      BY <2>3 DEF CompleteFirstCopyExport, CreateExportRun
    <3> QED
      BY <1>1, <3>1, ReviewedIsTask DEF ReviewInv
  <2>9. CopyPlan(decision, task[Reviewed].config, creator[x].plan.settings)
          = creator[x].plan
    BY <2>2 DEF InsertRun, SamePlan, Fingerprint, CurrentPlan
  <2> QED
    BY <2>6, <2>7, <2>8, <2>9
<1>2. ASSUME UNCHANGED allreview
      PROVE  AsPreviewed
  BY <1>2 DEF allreview, vars
<1>3. ReviewInv /\ [ReviewNext]_allreview => [AsPreviewed]_allreview
  BY <1>1, <1>2
<1> QED
  BY <1>3, ReviewInvariance, PTL DEF ReviewSpec, RunsAsConfirmed, allreview
-----------------------------------------------------------------------------
(* What a plan takes.                                                      *)

(* A finite set has a best element, for any strict order, given by what is *)
(* better than each: the one with the fewest better ones.                  *)
LEMMA BestExists ==
  ASSUME NEW S, IsFiniteSet(S), S # {}, NEW Better \in [S -> SUBSET S],
         \A s \in S : s \notin Better[s],
         \A s \in S : \A u \in Better[s] : Better[u] \subseteq Better[s]
  PROVE  \E s \in S : Better[s] = {}
<1>1. \A s \in S : IsFiniteSet(Better[s]) /\ Cardinality(Better[s]) \in Nat
  BY FS_Subset, FS_CardinalityType
<1> DEFINE Sizes == {k \in Nat : \E s \in S : Cardinality(Better[s]) = k}
<1>2. Sizes \subseteq Nat /\ Sizes # {}
  BY <1>1
<1> HIDE DEF Sizes
<1>3. PICK n \in Sizes : \A k \in Sizes : ~(<<k, n>> \in OpToRel(<, Nat))
  BY <1>2, NatLessThanWellFounded, WFMin
<1>4. \A k \in Sizes : ~(k < n)
  BY <1>2, <1>3 DEF OpToRel
<1> PICK s \in S : n = Cardinality(Better[s])
  BY DEF Sizes
<1> SUFFICES ASSUME NEW u \in Better[s] PROVE FALSE
  OBVIOUS
<1>5. u \in S /\ Better[u] \in SUBSET Better[s] /\ Better[u] # Better[s]
  OBVIOUS
<1>6. Cardinality(Better[u]) <= Cardinality(Better[s])
      /\ Cardinality(Better[u]) # Cardinality(Better[s])
  BY <1>1, <1>5, FS_Subset
<1>7. Cardinality(Better[u]) \in Sizes
  BY <1>1, <1>5 DEF Sizes
<1>8. Cardinality(Better[u]) \in Nat /\ Cardinality(Better[s]) \in Nat
  BY <1>1, <1>5
<1> QED
  BY <1>4, <1>6, <1>7, <1>8

LEMMA MaxIs ==
  ASSUME NEW S, NEW m \in S, \A x \in S : m >= x
  PROVE  Max(S) \in S /\ \A x \in S : Max(S) >= x
BY DEF Max

(* The groups s is connected to, and what is closed under all groups.      *)
Closed(C) == \A g \in DuplicateGroup : g.members \cap C # {} => g.members \subseteq C

LEMMA ConnectedIsClosed ==
  ASSUME NEW s \in Sample
  PROVE  /\ Connected(s) \in SUBSET Sample /\ s \in Connected(s)
         /\ Closed(Connected(s))
         /\ \A C \in SUBSET Sample : s \in C /\ Closed(C) => Connected(s) \subseteq C
<1>1. \A u : u \in Connected(s) <=>
        u \in Sample /\ \A C \in SUBSET Sample : s \in C /\ Closed(C) => u \in C
  BY DEF Connected, Closed
<1>2. ASSUME NEW g \in DuplicateGroup, g.members \cap Connected(s) # {},
             NEW u \in g.members
      PROVE  u \in Connected(s)
  <2>1. u \in Sample
    BY FactsAssumption
  <2>2. ASSUME NEW C \in SUBSET Sample, s \in C, Closed(C)
        PROVE  u \in C
    BY <1>1, <1>2, <2>2 DEF Closed
  <2> QED
    BY <1>1, <2>1, <2>2
<1>3. Closed(Connected(s))
  BY <1>2 DEF Closed
<1> QED
  BY <1>1, <1>3

(* Two sets of duplicates that share a sample are one.                     *)
LEMMA SameSet ==
  ASSUME NEW s \in Sample, NEW t \in Connected(s)
  PROVE  Connected(t) = Connected(s)
<1>1. t \in Sample
  BY ConnectedIsClosed
<1>2. Connected(t) \subseteq Connected(s)
  BY <1>1, ConnectedIsClosed
<1>3. s \in Connected(t)
  <2> SUFFICES ASSUME s \notin Connected(t) PROVE FALSE
    OBVIOUS
  <2> PICK C : C = Sample \ Connected(t)
    OBVIOUS
  <2>1. Closed(C)
    <3>1. Closed(Connected(t)) /\ Connected(t) \in SUBSET Sample
      BY <1>1, ConnectedIsClosed
    <3> QED
      BY <3>1, FactsAssumption DEF Closed
  <2>2. s \in C /\ C \in SUBSET Sample
    OBVIOUS
  <2>3. t \in C
    BY <2>1, <2>2, ConnectedIsClosed
  <2> QED
    BY <1>1, <2>3, ConnectedIsClosed
<1>4. Connected(s) \subseteq Connected(t)
  BY <1>1, <1>3, ConnectedIsClosed
<1> QED
  BY <1>2, <1>4

LEMMA RepresentativeIsOne ==
  ASSUME NEW members, NEW candidates \in SUBSET Sample, candidates # {}
  PROVE  Representative(members, candidates) \in candidates
<1> DEFINE Beats(s, u) == \/ Facts[s].area > Facts[u].area
                          \/ Facts[s].area = Facts[u].area /\ s < u
<1>1. IsFiniteSet(candidates) /\ candidates \subseteq Nat
  BY SampleAssumption, FS_Subset
<1> PICK area : area = [s \in candidates |-> Facts[s].area]
  OBVIOUS
<1>2. \A s \in candidates : area[s] \in Nat /\ area[s] = Facts[s].area
  BY FactsAssumption
<1> DEFINE Higher(s, u) == area[s] > area[u] \/ (area[s] = area[u] /\ s < u)
<1>0. PICK Better \in [candidates -> SUBSET candidates] :
        \A s, u \in candidates : u \in Better[s] <=> Higher(u, s)
  <2> DEFINE B == [s \in candidates |-> {u \in candidates : Higher(u, s)}]
  <2>1. /\ B \in [candidates -> SUBSET candidates]
        /\ \A s, u \in candidates : u \in B[s] <=> Higher(u, s)
    OBVIOUS
  <2> QED
    BY <2>1
<1>3. \A s \in candidates : s \notin Better[s] /\ Better[s] \subseteq candidates
  BY <1>0, <1>1, <1>2
<1>4. ASSUME NEW s \in candidates, NEW u \in Better[s]
      PROVE  Better[u] \subseteq Better[s]
  <2> SUFFICES ASSUME NEW v \in Better[u] PROVE v \in Better[s]
    OBVIOUS
  <2>1. u \in candidates /\ v \in candidates /\ Higher(u, s) /\ Higher(v, u)
    BY <1>0, <1>4
  <2>2. area[s] \in Nat /\ area[u] \in Nat /\ area[v] \in Nat
        /\ s \in Nat /\ u \in Nat /\ v \in Nat
    BY <1>1, <1>2, <2>1
  <2>3. Higher(v, s)
    BY <2>1, <2>2
  <2> QED
    BY <1>0, <2>1, <2>3
<1>5. \A s \in candidates : \A u \in Better[s] : Better[u] \subseteq Better[s]
  BY <1>4
<1>6. PICK s \in candidates : Better[s] = {}
  <2> HIDE DEF Higher
  <2> QED
    BY <1>1, <1>3, <1>5, BestExists
<1>7. \A u \in candidates \ {s} : Beats(s, u)
  <2> TAKE u \in candidates \ {s}
  <2>1. area[s] \in Nat /\ area[u] \in Nat /\ s \in Nat /\ u \in Nat /\ s # u
    BY <1>1, <1>2
  <2>2. ~Higher(u, s)
    BY <1>0, <1>6
  <2>3. Higher(s, u)
    BY <2>1, <2>2
  <2> QED
    BY <1>2, <2>3
<1> QED
  BY <1>7 DEF Representative

LEMMA SetsAreApart ==
  ASSUME NEW m \in DuplicateSets, NEW n \in DuplicateSets, m \cap n # {}
  PROVE  m = n
<1>1. PICK s \in Sample : m = Connected(s)
  BY FactsAssumption DEF DuplicateSets
<1>2. PICK t \in Sample : n = Connected(t)
  BY FactsAssumption DEF DuplicateSets
<1>3. PICK u : u \in Connected(s) /\ u \in Connected(t)
  BY <1>1, <1>2
<1> QED
  BY <1>1, <1>2, <1>3, SameSet

(* With folders of any size kept, everything eligible is retained.         *)
LEMMA AllRetained ==
  ASSUME NEW eligible \in SUBSET Sample, NEW set, set.minimum_folder = 1
  PROVE  Retained(eligible, set) = eligible
<1> SUFFICES ASSUME NEW s \in eligible
             PROVE  Count(eligible, Facts[s].folder) >= 1
  BY DEF Retained
<1>1. IsFiniteSet(eligible)
  BY SampleAssumption, FS_Subset
<1> PICK M : M = Members(eligible, Facts[s].folder)
  OBVIOUS
<1>2. M \in SUBSET eligible /\ s \in M
  BY DEF Members
<1>3. IsFiniteSet(M) /\ M # {}
  BY <1>1, <1>2, FS_Subset
<1>4. Cardinality(M) \in Nat /\ Cardinality(M) # 0
  BY <1>3, FS_CardinalityType, FS_EmptySet
<1> QED
  BY <1>4 DEF Count

(* What the duplicate filter leaves of one set.                            *)
LEMMA KeepsOneOfEach ==
  ASSUME NEW rows, NEW p, p.settings.duplicates, p.settings.minimum_folder = 1,
         p.included = Retained(Eligible(rows, p.settings), p.settings)
  PROVE  OneOfEach(rows, p)
<1> PICK set : set = p.settings
  OBVIOUS
<1> DEFINE Passing(m) == {s \in m : Passes(rows, s, set)}
           Dropped(m) == IF Keeps(rows, m, set) # {} \/ Passing(m) = {} THEN {}
                         ELSE Passing(m) \ {Representative(m, Passing(m))}
<1>1. DuplicatesDropped(rows, set) = UNION {Dropped(m) : m \in DuplicateSets}
  BY DEF DuplicatesDropped
<1>2. Eligible(rows, set) \in SUBSET Sample
  BY DEF Eligible
<1>3. p.included = {s \in Sample : Passes(rows, s, set)} \ DuplicatesDropped(rows, set)
  BY <1>2, AllRetained DEF Eligible
<1> SUFFICES ASSUME NEW members \in DuplicateSets
             PROVE  LET kept  == {s \in Passing(members) : Verdict(rows, s) = "approved_keep"}
                        taken == members \cap p.included
                    IN IF kept # {} THEN kept \subseteq taken
                       ELSE Cardinality(taken) = IF Passing(members) = {} THEN 0 ELSE 1
  BY DEF OneOfEach
<1>4. members \in SUBSET Sample
  BY FactsAssumption, ConnectedIsClosed DEF DuplicateSets
<1>5. members \cap DuplicatesDropped(rows, set) = Dropped(members)
  <2>1. \A m \in DuplicateSets : Dropped(m) \subseteq m
    OBVIOUS
  <2> HIDE DEF Dropped
  <2>2. ASSUME NEW s \in members \cap DuplicatesDropped(rows, set)
        PROVE  s \in Dropped(members)
    <3>1. PICK m \in DuplicateSets : s \in Dropped(m)
      BY <1>1
    <3>2. m = members
      BY <2>1, <3>1, SetsAreApart
    <3> QED
      BY <3>1, <3>2
  <2> QED
    BY <1>1, <2>1, <2>2
<1>6. members \cap p.included = Passing(members) \ Dropped(members)
  BY <1>3, <1>4, <1>5
<1>7. {s \in Passing(members) : Verdict(rows, s) = "approved_keep"} = Keeps(rows, members, set)
  BY DEF Keeps, OutcomeDecision, Passes
<1>8. CASE Keeps(rows, members, set) # {}
  BY <1>6, <1>7, <1>8
<1>9. CASE Keeps(rows, members, set) = {} /\ Passing(members) = {}
  BY <1>6, <1>7, <1>9, FS_EmptySet
<1>10. CASE Keeps(rows, members, set) = {} /\ Passing(members) # {}
  <2> PICK r : r = Representative(members, Passing(members))
    OBVIOUS
  <2>1. r \in Passing(members)
    BY <1>4, <1>10, RepresentativeIsOne
  <2>2. members \cap p.included = {r}
    BY <1>6, <1>10, <2>1
  <2>3. Cardinality({r}) = 1
    BY FS_Singleton
  <2> QED
    BY <1>7, <1>10, <2>2, <2>3
<1> QED
  BY <1>8, <1>9, <1>10

-----------------------------------------------------------------------------
(* How often a plan shows a folder.                                        *)

LEMMA Division ==
  ASSUME NEW a \in Nat, NEW d \in Nat, d > 0
  PROVE  a \div d \in Nat /\ a < (a \div d + 1) * d
OBVIOUS

LEMMA Times ==
  ASSUME NEW a \in Nat, NEW b \in Nat, NEW c \in Nat, a <= b
  PROVE  a * c \in Nat /\ b * c \in Nat /\ a * c <= b * c
OBVIOUS

(* A bounded set of numbers has a largest.                                 *)
LEMMA LargestExists ==
  ASSUME NEW S \in SUBSET Nat, S # {}, NEW n \in Nat, \A x \in S : x <= n
  PROVE  Max(S) \in S /\ \A x \in S : Max(S) >= x
<1> DEFINE Gaps == {k \in Nat : \E x \in S : k = n - x}
<1>1. Gaps \subseteq Nat /\ Gaps # {}
  <2> PICK x \in S : TRUE
    OBVIOUS
  <2>1. n - x \in Nat
    OBVIOUS
  <2> QED
    BY <2>1
<1> HIDE DEF Gaps
<1>2. PICK k \in Gaps : \A j \in Gaps : ~(<<j, k>> \in OpToRel(<, Nat))
  BY <1>1, NatLessThanWellFounded, WFMin
<1>3. \A j \in Gaps : ~(j < k)
  BY <1>1, <1>2 DEF OpToRel
<1> PICK m \in S : k = n - m
  BY DEF Gaps
<1>4. \A x \in S : m >= x
  <2> TAKE x \in S
  <2>1. n - x \in Gaps /\ n - x \in Nat /\ x \in Nat /\ m \in Nat
    BY DEF Gaps
  <2> QED
    BY <1>3, <2>1
<1> QED
  BY <1>4, MaxIs

(* The repeat nearest to the target from below: one more would be too many.*)
LEMMA ClosestIsTight ==
  ASSUME NEW target \in Nat, NEW count \in Nat, NEW original \in Nat,
         count > 0, original > 0, original * count <= target
  PROVE  LET r == ClosestRepeat(target, count, original)
         IN r \in Nat /\ r * count <= target /\ target < r * count + count
<1> PICK q : q = (2 * target + count) \div (2 * count)
  OBVIOUS
<1>1. q \in Nat /\ 2 * target + count < (q + 1) * (2 * count)
  BY Division
<1> DEFINE P       == {1, q}
           rounded == Max(P)
           S       == {original} \cup {k \in 1..rounded : k = 1 \/ k * count <= target}
           r       == Max(S)
<1>3. ClosestRepeat(target, count, original) = r
  BY DEF ClosestRepeat
<1> HIDE DEF rounded
<1>2. rounded \in Nat /\ rounded >= 1 /\ rounded >= q
  <2>1. P \in SUBSET Nat /\ P # {} /\ \A x \in P : x <= q + 1
    BY <1>1
  <2>2. 1 \in P /\ q \in P /\ \A x \in P : x = 1 \/ x = q
    OBVIOUS
  <2> HIDE DEF P
  <2>3. q + 1 \in Nat
    BY <1>1
  <2>4. Max(P) \in P /\ \A x \in P : Max(P) >= x
    BY <2>1, <2>3, LargestExists
  <2>5. rounded = Max(P)
    BY DEF rounded
  <2>6. rounded \in P /\ rounded >= 1 /\ rounded >= q
    BY <2>2, <2>4, <2>5
  <2> QED
    BY <1>1, <2>2, <2>6
<1>8. /\ original \in S /\ S \in SUBSET Nat
      /\ \A x \in S : x = original \/ (x \in 1..rounded /\ (x = 1 \/ x * count <= target))
      /\ \A x \in 1..rounded : x * count <= target => x \in S
  BY <1>2
<1> HIDE DEF r, S
<1>4. r \in S /\ \A x \in S : r >= x
  <2>1. original + rounded \in Nat
    BY <1>2
  <2>2. \A x \in S : x <= original + rounded
    BY <1>2, <1>8
  <2> QED
    BY <1>8, <2>1, <2>2, LargestExists DEF r
<1>5. r \in Nat /\ r * count <= target
  <2>1. r = original \/ (r \in Nat /\ r = 1) \/ (r \in Nat /\ r * count <= target)
    BY <1>2, <1>4, <1>8
  <2>2. 1 * count <= original * count
    BY Times
  <2>3. original * count \in Nat /\ 1 * count \in Nat
    OBVIOUS
  <2> QED
    BY <2>1, <2>2, <2>3
<1>6. r * count \in Nat /\ (r + 1) * count = r * count + count
  BY <1>5
<1>7. ASSUME (r + 1) * count <= target
      PROVE  FALSE
  <2>1. r + 1 <= q
    <3> SUFFICES ASSUME q <= r PROVE FALSE
      BY <1>1, <1>5
    <3>1. (q + 1) * (2 * count) <= (r + 1) * (2 * count)
      BY <1>1, <1>5, Times
    <3>2. (r + 1) * (2 * count) = 2 * ((r + 1) * count)
      BY <1>5
    <3> PICK m : m = (r + 1) * count
      OBVIOUS
    <3> PICK n : n = (q + 1) * (2 * count)
      OBVIOUS
    <3>3. n \in Nat /\ m \in Nat
      BY <1>1, <1>5, <1>6
    <3>4. 2 * target + count < n /\ n <= 2 * m /\ m <= target
      BY <1>1, <1>7, <3>1, <3>2
    <3> QED
      BY <3>3, <3>4
  <2>2. r + 1 \in S
    BY <1>1, <1>2, <1>5, <1>7, <1>8, <2>1
  <2>3. r >= r + 1
    BY <1>4, <2>2
  <2> QED
    BY <1>5, <2>3
<1> QED
  BY <1>3, <1>5, <1>6, <1>7

LEMMA HeaviestExists ==
  ASSUME NEW S, IsFiniteSet(S), S # {}, NEW weight \in [S -> Nat]
  PROVE  \E s \in S : \A u \in S : weight[u] <= weight[s]
<1>1. PICK Better \in [S -> SUBSET S] :
        \A s, u \in S : u \in Better[s] <=> weight[u] > weight[s]
  <2> DEFINE B == [s \in S |-> {u \in S : weight[u] > weight[s]}]
  <2>1. B \in [S -> SUBSET S] /\ \A s, u \in S : u \in B[s] <=> weight[u] > weight[s]
    OBVIOUS
  <2> QED
    BY <2>1
<1>2. \A s \in S : s \notin Better[s]
  BY <1>1
<1>3. ASSUME NEW s \in S, NEW u \in Better[s]
      PROVE  Better[u] \subseteq Better[s]
  <2> SUFFICES ASSUME NEW v \in Better[u] PROVE v \in Better[s]
    OBVIOUS
  <2>1. u \in S /\ v \in S
    BY <1>1
  <2>2. weight[s] \in Nat /\ weight[u] \in Nat /\ weight[v] \in Nat
    BY <2>1
  <2> QED
    BY <1>1, <2>1, <2>2
<1>4. \A s \in S : \A u \in Better[s] : Better[u] \subseteq Better[s]
  BY <1>3
<1>5. PICK s \in S : Better[s] = {}
  BY <1>2, <1>4, BestExists
<1>6. \A u \in S : ~(weight[u] > weight[s])
  BY <1>1, <1>5
<1> QED
  BY <1>6

(* A folder that is retained keeps all of its images.                      *)
LEMMA RetainedWhole ==
  ASSUME NEW eligible \in SUBSET Sample, NEW set,
         NEW folder \in Folders(Retained(eligible, set))
  PROVE  /\ Members(Retained(eligible, set), folder) = Members(eligible, folder)
         /\ Count(eligible, folder) \in Nat /\ Count(eligible, folder) > 0
         /\ OriginalRepeat(folder) \in Nat /\ OriginalRepeat(folder) > 0
<1> PICK kept : kept = Retained(eligible, set)
  OBVIOUS
<1>1. \A s \in eligible : s \in kept <=> Count(eligible, Facts[s].folder) >= set.minimum_folder
  BY DEF Retained
<1>2. kept \subseteq eligible
  BY DEF Retained
<1>3. PICK s \in kept : folder = Facts[s].folder
  BY DEF Folders
<1>4. \A u \in Members(eligible, folder) : u \in kept
  BY <1>1, <1>2, <1>3 DEF Members
<1>5. Members(kept, folder) = Members(eligible, folder)
  BY <1>2, <1>4 DEF Members
<1>6. Count(eligible, folder) \in Nat /\ Count(eligible, folder) > 0
  <2> PICK M : M = Members(eligible, folder)
    OBVIOUS
  <2>1. M \in SUBSET Sample /\ s \in M
    BY <1>2, <1>3 DEF Members
  <2>2. IsFiniteSet(M)
    BY <2>1, SampleAssumption, FS_Subset
  <2>3. Cardinality(M) \in Nat /\ Cardinality(M) # 0
    BY <2>1, <2>2, FS_CardinalityType, FS_EmptySet
  <2> QED
    BY <2>3 DEF Count
<1>7. OriginalRepeat(folder) \in Nat /\ OriginalRepeat(folder) > 0
  <2> DEFINE P == {folder.prefix, 1}
  <2>1. folder.prefix \in Nat
    BY <1>2, <1>3, FactsAssumption
  <2>2. P \in SUBSET Nat /\ P # {} /\ 1 \in P /\ \A x \in P : x <= folder.prefix + 1
    BY <2>1
  <2>3. folder.prefix + 1 \in Nat
    BY <2>1
  <2>4. OriginalRepeat(folder) = Max(P)
    BY DEF OriginalRepeat
  <2> HIDE DEF P
  <2>5. Max(P) \in P /\ \A x \in P : Max(P) >= x
    BY <2>2, <2>3, LargestExists
  <2>6. OriginalRepeat(folder) \in Nat /\ OriginalRepeat(folder) >= 1
    BY <2>2, <2>4, <2>5
  <2> QED
    BY <2>6
<1> QED
  BY <1>5, <1>6, <1>7

(* What a folder would be shown without any balancing, by folder.          *)
Originally(samples) == {OriginalRepeat(g) * Count(samples, g) : g \in Folders(samples)}

Balanced(p) ==
  \A f \in DOMAIN p.repeats :
    LET seen(g) == p.repeats[g] * Count(p.included, g)
        most    == Max({OriginalRepeat(g) * Count(p.included, g) : g \in DOMAIN p.repeats})
    IN seen(f) <= most /\ most < seen(f) + Count(p.included, f)

LEMMA PlanIsBalanced ==
  ASSUME NEW rows, NEW config, NEW set, set.mode = "auto"
  PROVE  Balanced(CopyPlan(rows, config, set))
<1> PICK eligible : eligible = Eligible(rows, set)
  OBVIOUS
<1> PICK kept : kept = Retained(eligible, set)
  OBVIOUS
<1> PICK p : p = CopyPlan(rows, config, set)
  OBVIOUS
<1>1. eligible \in SUBSET Sample /\ kept \in SUBSET Sample
  BY DEF Eligible, Retained
<1>2. /\ p.included = kept /\ DOMAIN p.repeats = Folders(kept)
      /\ \A f \in Folders(kept) : p.repeats[f] = NewRepeat(eligible, f, set)
  BY DEF CopyPlan
<1>3. \A f \in Folders(kept) :
        /\ Count(kept, f) = Count(eligible, f)
        /\ Count(kept, f) \in Nat /\ Count(kept, f) > 0
        /\ OriginalRepeat(f) \in Nat /\ OriginalRepeat(f) > 0
  BY <1>1, RetainedWhole DEF Count
<1> PICK most : most = Max(Originally(kept))
  OBVIOUS
<1> SUFFICES ASSUME NEW f \in Folders(kept)
             PROVE  /\ p.repeats[f] * Count(kept, f) <= most
                    /\ most < p.repeats[f] * Count(kept, f) + Count(kept, f)
  BY <1>2 DEF Balanced, Originally
<1>4. kept # {} /\ IsFiniteSet(kept)
  BY <1>1, SampleAssumption, FS_Subset DEF Folders
<1>5. most \in Nat /\ \A g \in Folders(kept) : OriginalRepeat(g) * Count(kept, g) <= most
  <2> DEFINE weight == [s \in kept |-> OriginalRepeat(Facts[s].folder)
                                         * Count(kept, Facts[s].folder)]
  <2>1. \A s \in kept : Facts[s].folder \in Folders(kept)
    BY DEF Folders
  <2>2. \A g \in Folders(kept) : OriginalRepeat(g) * Count(kept, g) \in Nat
    BY <1>3
  <2>3. weight \in [kept -> Nat]
    BY <2>1, <2>2
  <2>4. PICK s \in kept : \A u \in kept : weight[u] <= weight[s]
    BY <1>4, <2>3, HeaviestExists
  <2> PICK g \in Folders(kept) : g = Facts[s].folder
    BY <2>1
  <2> PICK m : m = OriginalRepeat(g) * Count(kept, g)
    OBVIOUS
  <2>5. \A h \in Folders(kept) : OriginalRepeat(h) * Count(kept, h) <= m
    <3> TAKE h \in Folders(kept)
    <3>1. PICK u \in kept : h = Facts[u].folder
      BY DEF Folders
    <3>2. weight[u] <= weight[s]
      BY <2>4
    <3> QED
      BY <3>1, <3>2
  <2>6. m \in Originally(kept) /\ m \in Nat
    BY <2>2 DEF Originally
  <2>7. \A x \in Originally(kept) : x \in Nat /\ x <= m
    BY <2>2, <2>5 DEF Originally
  <2>8. \A x \in Originally(kept) : m >= x
    BY <2>6, <2>7
  <2>9. most \in Originally(kept) /\ \A x \in Originally(kept) : most >= x
    BY <2>6, <2>8, MaxIs
  <2>10. \A h \in Folders(kept) : OriginalRepeat(h) * Count(kept, h) \in Originally(kept)
    BY DEF Originally
  <2> QED
    BY <2>7, <2>9, <2>10
<1>6. Target(kept, set) = most
  BY <1>4 DEF Target, Originally
<1>7. ~(OriginalRepeat(f) * Count(eligible, f) > most)
  <2>1. OriginalRepeat(f) * Count(eligible, f) \in Nat
    BY <1>3
  <2> QED
    BY <1>3, <1>5, <2>1
<1>8. p.repeats[f] = ClosestRepeat(most, Count(kept, f), OriginalRepeat(f))
  BY <1>2, <1>3, <1>6, <1>7 DEF NewRepeat
<1>9. OriginalRepeat(f) * Count(kept, f) <= most
  BY <1>5
<1> QED
  BY <1>3, <1>5, <1>8, <1>9, ClosestIsTight

(* In the snapshot of every run that balances of itself, whole repeats     *)
(* bring each folder as close to the folder shown most as they can, never  *)
(* above it, for any samples, repeats and decisions.                       *)
THEOREM SnapshotsBalanced == ReviewSpec => []BalanceTight
<1>1. ReviewInit => BalanceTight
  BY DEF ReviewInit, OverlayInit, BalanceTight, Snapshots
<1>2. ASSUME ReviewInv, ReviewInv', BalanceTight, [ReviewNext]_allreview
      PROVE  BalanceTight'
  <2>1. BalanceTight <=>
          \A r \in Run : (snapshot[r] # None /\ snapshot[r].settings.mode = "auto")
                           => Balanced(snapshot[r])
    BY DEF BalanceTight, Snapshots, Balanced
  <2>2. BalanceTight' <=>
          \A r \in Run : (snapshot'[r] # None /\ snapshot'[r].settings.mode = "auto")
                           => Balanced(snapshot'[r])
    BY DEF BalanceTight, Snapshots, Balanced
  <2>3. CASE snapshot' = snapshot
    BY <1>2, <2>1, <2>2, <2>3
  <2>4. CASE snapshot' # snapshot
    <3>1. PICK x \in Client : InsertRun(x)
      BY <1>2, <2>4 DEF ReviewNext, ReviewStep, ReviewGateStep, AskDecision, WriteDecision,
           SetManualExclusions, PreviewExport, PlanExport, AbandonExport, DeleteReviewed,
           allreview, reviewvars
    <3> PICK plan : plan = creator[x].plan
      OBVIOUS
    <3>2. PICK q \in Run : snapshot' = [snapshot EXCEPT ![q] = plan]
      BY <3>1 DEF InsertRun
    <3>3. plan = CopyPlan(decision, task[Reviewed].config, plan.settings)
      BY <3>1 DEF InsertRun, SamePlan, Fingerprint, CurrentPlan
    <3>4. plan.settings.mode = "auto" => Balanced(plan)
      BY <3>3, PlanIsBalanced
    <3>5. snapshot'[q] = plan /\ \A r \in Run \ {q} : snapshot'[r] = snapshot[r]
      BY <1>2, <3>2 DEF ReviewInv
    <3> QED
      BY <1>2, <2>1, <2>2, <3>4, <3>5
  <2> QED
    BY <2>3, <2>4
<1> QED
  BY <1>1, <1>2, ReviewInvariance, PTL DEF ReviewSpec, allreview

(* A previewed plan without duplicates takes all a human kept of each set  *)
(* of duplicates, or one member if one passes, for any groups, evidence    *)
(* and decisions.                                                          *)
THEOREM DuplicatesLeaveOne == ReviewSpec => DuplicatesKeepOne
<1> DEFINE LeavesOne ==
      \A x \in Client :
        LET p == creator'[x].plan IN
          (creator[x].pc = "idle" /\ creator'[x].pc = "previewed"
           /\ p.settings.duplicates /\ p.settings.minimum_folder = 1)
             => OneOfEach(decision, p)
<1>1. ASSUME ReviewInv, ReviewNext
      PROVE  LeavesOne
  <2> SUFFICES ASSUME NEW x \in Client, creator[x].pc = "idle",
                      creator'[x].pc = "previewed", creator'[x].plan.settings.duplicates,
                      creator'[x].plan.settings.minimum_folder = 1
               PROVE  OneOfEach(decision, creator'[x].plan)
    OBVIOUS
  <2>1. creator' # creator
    OBVIOUS
  <2>2. PICK y \in Client : \/ PreviewExport(y) \/ PlanExport(y)
                            \/ InsertRun(y) \/ AbandonExport(y)
    BY <1>1, <2>1 DEF ReviewNext, ReviewStep, ReviewGateStep, AskDecision, WriteDecision,
         SetManualExclusions, DeleteReviewed, reviewvars
  <2>3. y = x
    BY <1>1, <2>2 DEF ReviewInv, PreviewExport, PlanExport, InsertRun, AbandonExport
  <2>4. PreviewExport(x)
    <3>1. ~PlanExport(x)
      BY <1>1 DEF ReviewInv, PlanExport
    <3>2. ~InsertRun(x) /\ ~AbandonExport(x)
      BY DEF InsertRun, AbandonExport
    <3> QED
      BY <2>2, <2>3, <3>1, <3>2
  <2>5. PICK set \in Setting :
          creator' = [creator EXCEPT ![x] = [NoPlan EXCEPT !.pc = "previewed",
                                                           !.plan = CurrentPlan(set)]]
    BY <2>4 DEF PreviewExport
  <2>6. creator'[x].plan = CurrentPlan(set)
    BY <1>1, <2>5 DEF ReviewInv, NoPlan
  <2>7. /\ CurrentPlan(set).settings = set
        /\ CurrentPlan(set).included = Retained(Eligible(decision, set), set)
    BY DEF CurrentPlan, CopyPlan
  <2> QED
    BY <2>6, <2>7, KeepsOneOfEach
<1>2. ASSUME UNCHANGED allreview
      PROVE  LeavesOne
  BY <1>2 DEF allreview, reviewvars
<1>3. ReviewInv /\ [ReviewNext]_allreview => [LeavesOne]_allreview
  BY <1>1, <1>2
<1> QED
  BY <1>3, ReviewInvariance, PTL DEF ReviewSpec, DuplicatesKeepOne, allreview
==============================================================================
