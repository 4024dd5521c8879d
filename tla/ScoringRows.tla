----------------------------- MODULE ScoringRows -----------------------------
(***************************************************************************)
(* The components of model_scoring (app/modular_scoring.py) that work      *)
(* through a pair of files of one task: clip computes features and stores  *)
(* them in shards on disk, whose hashes its checkpoints register; score    *)
(* reads the shards and writes model_results and evidence.  A shard is     *)
(* named by the content of its files, so any worker of any config may find *)
(* it; it is written before the commit that registers it.                  *)
(*                                                                         *)
(* One scorer stands for the four; which model it runs is part of a config.*)
(* Batches and shards have one file each.  A file is verified and read at once.    *)
(***************************************************************************)
EXTENDS AnalysisTask

(* Faulty versions of definitions below, used by no specification.         *)

LastOnly(old, new) == new

(* The originals.                                                          *)

(* ScoringRepository.list_inputs: valid samples, and among them those large*)
(* enough for a resolution - of any config that has judged the sample.     *)
Inputs ==
  LET Eligible(f) == \E c \in rows[f].judged : f \in Settings[c].fits IN
    {f \in File : /\ rows[f].state = "valid"
                  /\ (\E g \in File : rows[g].judged # {}) => Eligible(f)}

(* Their paths are resolved, which needs the files to exist.               *)
Resolvable == \A f \in Inputs : tree[f] # 0

(* The descriptors of all checkpoints of a config.                         *)
Registered(old, new) == [f \in File |-> IF new[f] # None THEN new[f] ELSE old[f]]

ClipShas(c) ==
  IF ckpt[c]["clip"] = None \/ ckpt[c]["clip"].sha = None
    THEN Idle.seen ELSE ckpt[c]["clip"].sha

(* _registered_clip_model_digest: a scorer needs a checkpoint of clip.      *)
Supplied(w) == mem[w].part = "score" => ckpt[task.config]["clip"] # None

BeginScoring(w) ==
  /\ mem[w].part \in {"clip", "score"} /\ mem[w].pc = "begin"
  /\ Holds(w)
  /\ task.status = "working"
  /\ IF Resolvable /\ Supplied(w) THEN Enter(w, Inputs, None) ELSE Raise(w)

(* A shard that is there is taken, unless it is not the registered one.    *)
Extract(w) ==
  LET f == Current(w)
      registered == ClipShas(ConfigOf(w))[f]
  IN  /\ At(w, "clip", "work")
      /\ IF \/ ~Unchanged(f)
            \/ disk.clip[f] # None /\ registered \notin {None, disk.clip[f]}
           THEN Raise(w)
           ELSE /\ IF disk.clip[f] # None
                     THEN Gathered(w, disk.clip[f])
                     ELSE mem' = [mem EXCEPT ![w].pc = "write"]
                /\ UNCHANGED <<task, holder, ckpt, tree, disk, rows, found, hist>>

(* SafetensorFeatureStore.write replaces what is there.  The last bits of  *)
(* features vary from run to run.                                          *)
WriteClip(w) ==
  LET f == Current(w) IN
    /\ At(w, "clip", "write")
    /\ disk' = [disk EXCEPT !.clip[f] = w]
    /\ hist' = IF ~Holds(w) /\ disk.clip[f] \notin {None, w}
                 THEN [hist EXCEPT !.causes = @ \cup {"clobbered"}] ELSE hist
    /\ Gathered(w, w)
    /\ UNCHANGED <<task, holder, ckpt, tree, rows, found>>

CommitClip(w) ==
  /\ At(w, "clip", "commit")
  /\ Commit(w, rows, found,
            NewCursor(w, FALSE, Registered(ClipShas(ConfigOf(w)), mem[w].seen)))

(* The identity of what a config's scorer makes of a file.                 *)
Identity(c, f) == <<Settings[c].scorer, f>>

Cached(c, f) == Identity(c, f) \in found.scored

(* _infer: the file's shard must be there as registered.                   *)
Inferable(c, f) ==
  LET registered == ClipShas(c)[f] IN
    registered # None /\ disk.clip[f] = registered

Score(w) ==
  LET c == ConfigOf(w)
      f == Current(w)
  IN  /\ At(w, "score", "work")
      /\ IF Unchanged(f) /\ (Cached(c, f) \/ Inferable(c, f))
           THEN /\ Gathered(w, None)
                /\ UNCHANGED <<task, holder, ckpt, tree, disk, rows, found, hist>>
           ELSE Raise(w)

(* The scoring evidence before a batch: _prepare_task, before the first.   *)
Cleared(anew) == IF anew THEN NothingFound.scores ELSE found.scores

(* _upsert_model_result: one row per identity, whoever made it.            *)
Upserted(old, c, files) == old \cup {Identity(c, f) : f \in files}

(* persist_batch.                                                          *)
BatchScored(before, c, files) ==
  [found EXCEPT !.scores = [f \in File |-> IF f \in files THEN c ELSE before[f]],
                !.scored = Upserted(@, c, files)]

CommitScore(w) ==
  /\ At(w, "score", "commit")
  /\ Commit(w, rows, BatchScored(Cleared(~Prepared(w)), ConfigOf(w), Pending(w)),
            NewCursor(w, TRUE, None))

Scoring(w) ==
  \/ BeginScoring(w)
  \/ Extract(w) \/ WriteClip(w) \/ CommitClip(w)
  \/ Score(w) \/ CommitScore(w)
=============================================================================
