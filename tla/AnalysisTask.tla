----------------------------- MODULE AnalysisTask -----------------------------
(***************************************************************************)
(* One task on its way through the phases that read the source folder, and *)
(* what these phases share: the rows of the task, the checkpoints of each  *)
(* component, the files on disk and the memory of the workers.  The slot   *)
(* and the statuses are reduced to what the phases see of them             *)
(* (TaskLifecycle has them in full): a worker whose lease is lost loses the*)
(* slot and its commits are refused, but it lives on, and what it does to  *)
(* files before its next commit takes effect.                              *)
(*                                                                         *)
(* ScanRows, ScoringRows, StyleRows and ClusterRows add the components,    *)
(* AnalysisPipeline composes them.                                         *)
(***************************************************************************)
EXTENDS Naturals, FiniteSets

CONSTANTS
  Worker,    \* workers of this and other backend processes
  Config,    \* the values of tasks.config_hash
  NFiles,    \* media files of the source folder
  Settings,  \* what each config asks for, see below
  MaxUpsets, \* bound: pauses, crashes, lost leases, changes of source files
  None       \* SQL NULL

(* In the order of their paths, each in an artist or concept folder of its *)
(* own.                                                                    *)
File == 1..NFiles

Part == {"scan", "clip", "score", "style", "embed", "sae", "group"}

ASSUME AnalysisAssumption ==
  /\ NFiles \in Nat \ {0}
  /\ MaxUpsets \in Nat
  /\ None \notin Worker \cup Config

(* fits: files large enough for the config's resolutions; domain: files its*)
(* domain threshold accepts; core: files its style analysis keeps in their *)
(* artist's core; parts: its active components; scope: how it clusters - an*)
(* artist's core at a time, which needs style analysis, the files of a     *)
(* concept folder at a time, or all files together; roles: the profile     *)
(* character_concept, whose scope is always the concept folder; scorer: the*)
(* model it scores with.  All other models are the same for all configs.   *)
ASSUME SettingsAssumption ==
  /\ Settings \in [Config -> [fits : SUBSET File, domain : SUBSET File,
                              core : SUBSET File, parts : SUBSET Part,
                              scope : {"artist", "concept", "global"},
                              roles : BOOLEAN, scorer : Nat]]
  /\ \A c \in Config :
       /\ "scan" \in Settings[c].parts
       /\ "clip" \in Settings[c].parts <=> "score" \in Settings[c].parts
       /\ "embed" \in Settings[c].parts <=> "group" \in Settings[c].parts
       /\ "sae" \in Settings[c].parts => "embed" \in Settings[c].parts
       /\ Settings[c].scope = "artist" => "style" \in Settings[c].parts
       /\ Settings[c].roles => Settings[c].scope = "concept"

(* A manifest: who wrote it, and the version of each file, 0 if none.  The  *)
(* hashes of shards per file.  A cursor may carry one of them.             *)
Manifest == [by : Worker, list : [File -> Nat]]
Hashes   == [File -> Worker \cup {None}]

CursorRow(p) ==
  [units : SUBSET (0..NFiles), next : Nat, complete : BOOLEAN, prepared : BOOLEAN,
   sha : CASE p = "scan" -> Manifest [] p = "clip" -> Hashes [] OTHER -> {None}]

ASSUME NoneAssumption ==
  None \notin Part \cup Manifest \cup Hashes /\ \A p \in Part : None \notin CursorRow(p)

VARIABLES
  task,    \* the tasks row: status, phase in hand, config
  holder,  \* the worker whose commits the database accepts
  mem,     \* per worker: the component it runs and its place in it
  ckpt,    \* per config and component: the last checkpoint's cursor
  tree,    \* the source folder: the version of each file, 0 if deleted
  disk,    \* the task's data folder: manifests and shards
  rows,    \* the samples rows with their resolution assessments
  found,   \* evidence, model_results, artifacts and cluster_nodes rows
  hist     \* history and bounds: what happened that may explain a failure

vars == <<task, holder, mem, ckpt, tree, disk, rows, found, hist>>

Phase == {"scanning", "model_scoring", "style_analysis", "semantic_clustering"}

PhaseOf == [scan |-> "scanning", clip |-> "model_scoring", score |-> "model_scoring",
            style |-> "style_analysis", embed |-> "semantic_clustering",
            sae |-> "semantic_clustering", group |-> "semantic_clustering"]

(* The first component of a phase and the one that follows, None after the *)
(* last, and the order of the phases; cpu_metrics, after the first, has no *)
(* rows of its own.                                                        *)
FirstPart == [scanning |-> "scan", model_scoring |-> "clip",
              style_analysis |-> "style", semantic_clustering |-> "embed"]

PartAfter(c, part) ==
  CASE part = "clip"                                   -> "score"
    [] part = "embed" /\ "sae" \in Settings[c].parts    -> "sae"
    [] part = "embed" /\ "sae" \notin Settings[c].parts -> "group"
    [] part = "sae"                                    -> "group"
    [] OTHER                                           -> None

PhaseAfter == [scanning |-> "model_scoring", model_scoring |-> "style_analysis",
               style_analysis |-> "semantic_clustering",
               semantic_clustering |-> "evidence_review"]

-----------------------------------------------------------------------------
(* Rows, files and memory.                                                 *)

Idle == [pc |-> "idle", part |-> "scan", config |-> None, units |-> {},
         next |-> 0, at |-> 0, seen |-> [f \in File |-> None], list |-> None]

(* A sample: listed is the version of the file the scan recorded, judged   *)
(* the configs with resolution assessments of it, metrics the config whose *)
(* thresholds its scanner evidence has.                                    *)
NoRow == [state |-> "none", listed |-> 0, judged |-> {}, metrics |-> None]

(* manifests: the manifest artifact of a config; scores, style: the config *)
(* whose thresholds the evidence of a file has; scored, styled: the model_ *)
(* results rows; shards, codes: the bytes registered for the shard of a    *)
(* file and for the autoencoder of a set of files; nodes: cluster nodes per*)
(* scope, 0 being "__all__"; twins, roles: the duplicate evidence made for *)
(* a scope and the role evidence made for a file, with the config it is of.*)
NothingFound == [scores |-> [f \in File |-> None], scored |-> {},
                 style  |-> [f \in File |-> None], styled |-> {},
                 shards |-> [f \in File |-> None], codes |-> [S \in SUBSET File |-> None],
                 nodes  |-> [s \in 0..NFiles |-> None], twins |-> {}, roles |-> {},
                 manifests |-> [c \in Config |-> None]]

Init ==
  /\ \E c \in Config : task = [status |-> "queued", phase |-> "scanning", config |-> c]
  /\ holder = None
  /\ mem = [w \in Worker |-> Idle]
  /\ ckpt = [c \in Config |-> [p \in Part |-> None]]
  /\ tree = [f \in File |-> 1]
  /\ disk = [manifest |-> [c \in Config |-> None], clip |-> [f \in File |-> None],
             embed |-> [f \in File |-> None], sae |-> [S \in SUBSET File |-> None]]
  /\ rows = [f \in File |-> NoRow]
  /\ found = NothingFound
  /\ hist = [upsets |-> 0, causes |-> {},
             last |-> [p \in Phase |-> None]]

At(w, part, pc) == mem[w].part = part /\ mem[w].pc = pc

Holds(w) == holder = w

ConfigOf(w) == mem[w].config

CursorOf(w) == ckpt[ConfigOf(w)][mem[w].part]

Leave(w) == mem' = [mem EXCEPT ![w] = Idle]

(* The k-th of a set of files in the order of their paths.                 *)
Nth(S, k) == CHOOSE f \in S : Cardinality({g \in S : g <= f}) = k

(* The unit - batch, shard or scope, one file each - a worker is at.       *)
Current(w) == Nth(mem[w].units, mem[w].at + 1)

(* Units done but not committed.                                           *)
Pending(w) == {Nth(mem[w].units, k) : k \in mem[w].next + 1 .. mem[w].at}

(* Verified before each batch: the file is what the scan recorded.         *)
Unchanged(f) == tree[f] = rows[f].listed

-----------------------------------------------------------------------------
(* The slot and the requests.                                              *)

(* complete_phase: the slot is free, the next phase waits for a claim.     *)
Completed(t) ==
  IF t.phase = "semantic_clustering"
    THEN [t EXCEPT !.status = "review", !.phase = "evidence_review"]
    ELSE [t EXCEPT !.status = "queued", !.phase = PhaseAfter[t.phase]]

(* A phase without an active component is only passed.                     *)
Claim(w) ==
  LET first  == FirstPart[task.phase]
      active == first \in Settings[task.config].parts
  IN  /\ task.status = "queued"
      /\ holder = None
      /\ mem[w].pc = "idle"
      /\ task' = [task EXCEPT !.status = "working"]
      /\ holder' = w
      /\ mem' = [mem EXCEPT ![w] = [Idle EXCEPT !.pc = IF active THEN "begin" ELSE "pass",
                                               !.part = first]]
      /\ UNCHANGED <<ckpt, tree, disk, rows, found, hist>>

Upset == /\ hist.upsets < MaxUpsets
         /\ hist' = [hist EXCEPT !.upsets = @ + 1]

Pause ==
  /\ task.status \in {"queued", "working"}
  /\ task' = [task EXCEPT !.status = IF @ = "queued" THEN "paused" ELSE "pausing"]
  /\ Upset
  /\ UNCHANGED <<holder, mem, ckpt, tree, disk, rows, found>>

Resume ==
  /\ task.status = "paused"
  /\ task' = [task EXCEPT !.status = "queued"]
  /\ UNCHANGED <<holder, mem, ckpt, tree, disk, rows, found, hist>>

(* A config that already worked in this phase is back after another one.   *)
Returns(c) ==
  /\ hist.last[task.phase] \notin {None, c}
  /\ \E p \in Part : PhaseOf[p] = task.phase /\ ckpt[c][p] # None

(* A config, the last to work in a phase, that completed this component.   *)
Completes(c, p) ==
  /\ hist.last[PhaseOf[p]] = c
  /\ ckpt[c][p] # None
  /\ ckpt[c][p].complete

(* It needs style evidence, which is not made any more, of its own making. *)
Misses(c) ==
  /\ Settings[c].scope = "artist"
  /\ task.phase = "semantic_clustering"
  /\ ~Completes(c, "style")

Reconfigure ==
  /\ task.status = "paused"
  /\ \E c \in Config \ {task.config} :
       /\ task' = [task EXCEPT !.config = c]
       /\ hist' = [hist EXCEPT !.causes = @
                     \cup (IF Returns(c) THEN {"returned"} ELSE {})
                     \cup (IF Misses(c) THEN {"missed"} ELSE {})]
  /\ UNCHANGED <<holder, mem, ckpt, tree, disk, rows, found>>

(* Recovery of a task whose lease is gone.                                 *)
Recovered(t) == [t EXCEPT !.status = IF @ = "pausing" THEN "paused" ELSE "queued"]

LoseLease(w) ==
  /\ Holds(w)
  /\ task' = Recovered(task)
  /\ holder' = None
  /\ Upset

Crash(w) ==
  /\ LoseLease(w)
  /\ Leave(w)
  /\ UNCHANGED <<ckpt, tree, disk, rows, found>>

(* No heartbeat came in time; the worker does not know yet.                *)
Fence(w) ==
  /\ LoseLease(w)
  /\ UNCHANGED <<mem, ckpt, tree, disk, rows, found>>

(* The user changes or deletes a source file.                              *)
Edit ==
  /\ \E f \in File :
       /\ tree[f] # 0
       /\ tree' \in {[tree EXCEPT ![f] = @ + 1], [tree EXCEPT ![f] = 0]}
  /\ Upset
  /\ UNCHANGED <<task, holder, mem, ckpt, disk, rows, found>>

-----------------------------------------------------------------------------
(* Steps all components have in common.                                    *)

PauseHonored ==
  /\ task' = [task EXCEPT !.status = "paused"]
  /\ holder' = None

(* An error of the holder fails the task; a worker that lost the slot only *)
(* leaves.                                                                 *)
Raise(w) ==
  /\ IF Holds(w)
       THEN task' = [task EXCEPT !.status = "failed"] /\ holder' = None
       ELSE UNCHANGED <<task, holder>>
  /\ Leave(w)
  /\ UNCHANGED <<ckpt, tree, disk, rows, found, hist>>

(* A pause that comes before the scan or the passing of a phase has looked *)
(* at its task is refused as an illegal transition, which fails the task.  *)
Refuse(w) ==
  /\ At(w, "scan", "begin") \/ mem[w].pc = "pass"
  /\ Holds(w)
  /\ task.status = "pausing"
  /\ task' = [task EXCEPT !.status = "failed"]
  /\ holder' = None
  /\ hist' = [hist EXCEPT !.causes = @ \cup {"refused"}]
  /\ Leave(w)
  /\ UNCHANGED <<ckpt, tree, disk, rows, found>>

(* RegistryTaskRunner.run for a phase without active components.           *)
PassPhase(w) ==
  /\ mem[w].pc = "pass"
  /\ IF Holds(w) THEN task.status = "working" /\ task' = Completed(task) /\ holder' = None
     ELSE UNCHANGED <<task, holder>>
  /\ Leave(w)
  /\ UNCHANGED <<ckpt, tree, disk, rows, found, hist>>

(* honor_claimed_control_before_work: a component that meets a pause, or   *)
(* whose worker lost the slot, does not begin.  The scan does not ask.     *)
HonorControl(w) ==
  /\ mem[w].pc = "begin"
  /\ mem[w].part # "scan"
  /\ \/ ~Holds(w) /\ UNCHANGED <<task, holder>>
     \/ Holds(w) /\ task.status = "pausing" /\ PauseHonored
  /\ Leave(w)
  /\ UNCHANGED <<ckpt, tree, disk, rows, found, hist>>

(* The cursor of a component: units done, whether these were all, whether   *)
(* the rows of other configs were deleted before the first of its own, the *)
(* units it was made for, and hashes of the files it relies on.            *)
Cursor(units, next, prepared, sha) ==
  [units |-> units, next |-> next, complete |-> next = Cardinality(units),
   prepared |-> prepared, sha |-> sha]

(* The component is complete: on to the next one or to the end of the phase*)
Finish(w) ==
  LET next == PartAfter(task.config, mem[w].part) IN
    mem' = IF next = None
             THEN [mem EXCEPT ![w].pc = "finish"]
             ELSE [mem EXCEPT ![w] = [Idle EXCEPT !.pc = "begin", !.part = next]]

(* The worker enters its component, or passes it if it was complete.       *)
Enter(w, units, list) ==
  LET cursor == ckpt[task.config][mem[w].part]
      next   == IF cursor = None THEN 0 ELSE cursor.next
  IN  /\ IF cursor # None /\ cursor.complete
           THEN Finish(w)
           ELSE mem' = [mem EXCEPT ![w] =
                  [Idle EXCEPT !.part = mem[w].part, !.config = task.config,
                     !.units = units, !.next = next, !.at = next, !.list = list,
                     !.pc = IF units = {} THEN "commit" ELSE "work"]]
      /\ UNCHANGED <<task, holder, ckpt, tree, disk, rows, found, hist>>

(* One unit is done.  Batches may be gathered into one commit; the last    *)
(* unit and a control request end the gathering.                           *)
Gathered(w, seen) ==
  LET at == mem[w].at + 1 IN
    \E pc \in IF at = Cardinality(mem[w].units) \/ task.status = "pausing"
              THEN {"commit"} ELSE {"commit", "work"} :
      mem' = [mem EXCEPT ![w].at = at, ![w].seen[Current(w)] = seen, ![w].pc = pc]

(* The config has committed a batch that deleted what others left.         *)
Prepared(w) == CursorOf(w) # None /\ CursorOf(w).prepared

NewCursor(w, prepared, sha) == Cursor(mem[w].units, mem[w].at, prepared, sha)

Saved(w, cursor) ==
  /\ ckpt' = [ckpt EXCEPT ![ConfigOf(w)][mem[w].part] = cursor]
  /\ hist' = [hist EXCEPT !.last[task.phase] = ConfigOf(w)]

(* commit_batch: rows and cursor in one transaction, refused without the   *)
(* slot; a pause takes effect here.                                        *)
Commit(w, newRows, newFound, cursor) ==
  /\ mem[w].pc = "commit"
  /\ IF Holds(w)
       THEN /\ rows' = newRows
            /\ found' = newFound
            /\ Saved(w, cursor)
            /\ IF task.status = "pausing"
                 THEN PauseHonored /\ Leave(w)
                 ELSE /\ UNCHANGED <<task, holder>>
                      /\ IF cursor.complete
                           THEN Finish(w)
                           ELSE mem' = [mem EXCEPT ![w].next = mem[w].at,
                                          ![w].seen = Idle.seen, ![w].pc = "work"]
       ELSE Leave(w) /\ UNCHANGED <<task, holder, ckpt, rows, found, hist>>
  /\ UNCHANGED <<tree, disk>>

(* A control request seen inside a unit is committed without results.      *)
ControlCommit(w) ==
  /\ mem[w].pc = "work"
  /\ Holds(w)
  /\ task.status = "pausing"
  /\ Saved(w, Cursor(mem[w].units, mem[w].next, Prepared(w), None))
  /\ PauseHonored
  /\ Leave(w)
  /\ UNCHANGED <<tree, disk, rows, found>>

(* The components a phase cannot be completed without; whoever looks goes  *)
(* by the config the task has now.                                         *)
Unfinished(part) ==
  {p \in Settings[task.config].parts :
     /\ PhaseOf[p] = PhaseOf[part]
     /\ ckpt[task.config][p] = None \/ ~ckpt[task.config][p].complete}

(* complete_phase, or the pause that came first.                           *)
PhaseClosed(w) ==
  IF ~Holds(w) THEN UNCHANGED <<task, holder>>
  ELSE IF task.status = "pausing" THEN PauseHonored
  ELSE task' = Completed(task) /\ holder' = None

CompletePhase(w) ==
  /\ mem[w].pc = "finish"
  /\ IF Unfinished(mem[w].part) # {} THEN Raise(w)
     ELSE /\ PhaseClosed(w)
          /\ Leave(w)
          /\ UNCHANGED <<ckpt, tree, disk, rows, found, hist>>
=============================================================================
