--------------------------- MODULE AnalysisPipeline ---------------------------
(***************************************************************************)
(* The phases of analysis one after the other, with the requests, crashes, *)
(* lost leases and changes of files that may come between any two steps.   *)
(***************************************************************************)
EXTENDS ScanRows, ClusterRows

Request == Pause \/ Resume \/ Reconfigure

Mishap(w) == Crash(w) \/ Fence(w)

Work(w) ==
  \/ Claim(w) \/ Refuse(w) \/ PassPhase(w) \/ HonorControl(w) \/ CompletePhase(w)
  \/ Scan(w) \/ Scoring(w) \/ Style(w) \/ Clustering(w)

Next == Request \/ Edit \/ \E w \in Worker : Mishap(w) \/ Work(w)

Spec == Init /\ [][Next]_vars

-----------------------------------------------------------------------------
(* Properties.                                                             *)

(* A task fails only for a reason a user can see: a file it had listed was *)
(* changed or deleted, or one of four things happened that the code cannot *)
(* tell from damage - a worker that had lost the slot replaced a manifest  *)
(* or a shard, a config came back to a phase another one had worked in, a  *)
(* config came to clusters of artists after style analysis had been passed *)
(* without it, or a pause met a scan that had not begun or a phase without *)
(* components.  So no combination of pauses, crashes, lost leases and      *)
(* shards left behind by any of them makes a resumed component mistrust its*)
(* own files and rows (_expected_clip_shard, _registered_shard,            *)
(* _validate_resume_identity, load_manifest).                              *)
ErrorsExplained ==
  task.status = "failed" =>
    \/ hist.causes # {}
    \/ \E f \in File : rows[f].listed # 0 /\ ~Unchanged(f)

ScanWhole(c) ==
  LET manifest == ckpt[c]["scan"].sha IN
    /\ found.manifests[c] = manifest
    /\ \A f \in File :
         IF manifest.list[f] = 0 THEN rows[f].state \in {"none", "missing"}
         ELSE /\ rows[f].listed = manifest.list[f]
              /\ rows[f].state \notin {"none", "missing"}
              /\ rows[f].metrics = c

ScoresWhole(c) ==
  found.scores = [f \in File |-> IF f \in Inputs THEN c ELSE None]

StyleWhole(c) ==
  found.style = [f \in File |-> IF f \in ckpt[c]["style"].units THEN c ELSE None]

GroupsWhole(c) ==
  LET scopes == ckpt[c]["group"].units IN
    /\ found.nodes = [s \in 0..NFiles |-> IF s \in scopes THEN c ELSE None]
    /\ found.twins = {<<c, s>> : s \in scopes}
    /\ found.roles = IF Settings[c].roles
                       THEN {<<c, f>> : f \in ckpt[c]["embed"].units} ELSE {}

(* The rows a completed phase leaves are those of one config and no other: *)
(* every file in the manifest has a row of its state at that time and every*)
(* other row is set aside; every sample of the config has its evidence, and*)
(* no evidence of a config that was stopped and replaced remains           *)
(* (prepare_scan, _prepare_task, persist_scope, persist_cluster_scope),    *)
(* however often the work was cut short.  A config that comes back to a    *)
(* phase another one worked in deletes nothing, see the README.            *)
EvidenceWhole ==
  "returned" \notin hist.causes =>
    \A c \in Config :
      /\ Completes(c, "scan")  => ScanWhole(c)
      /\ Completes(c, "score") => ScoresWhole(c)
      /\ Completes(c, "style") => StyleWhole(c)
      /\ Completes(c, "group") => GroupsWhole(c)
=============================================================================
