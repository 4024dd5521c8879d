------------------------------- MODULE ScanRows -------------------------------
(***************************************************************************)
(* The scan (scanner/service.py): it lists the media files of the source   *)
(* folder into a manifest, a file of the task's data folder named by the   *)
(* config, and decodes the files in the order of the manifest, in batches  *)
(* that become samples rows.  A resumed scan reads the manifest back.  The *)
(* manifest is written without regard to the slot.                         *)
(*                                                                         *)
(* Left out: a moved file that keeps the identity of its sample, files the *)
(* scan itself rejects, and the metrics of cpu_metrics, which the scan has *)
(* already computed.                                                       *)
(***************************************************************************)
EXTENDS AnalysisTask

(* Faulty versions of definitions below, used by no specification.         *)

SetAside == [f \in File |->
               IF rows[f].state = "none" THEN NoRow
               ELSE [rows[f] EXCEPT !.state = "missing"]]

AlwaysAside(anew) == SetAside

(* The originals.                                                          *)

(* What a file turns out to be when it is read.  A file that was deleted   *)
(* cannot be read, one that was changed is not decoded.                    *)
Decoded(f, listed) ==
  CASE tree[f] = listed -> "valid"
    [] tree[f] = 0      -> "decode_error"
    [] OTHER            -> "source_changed"

(* The manifest on disk is the one the checkpoint was committed with.      *)
SameManifest(c) == disk.manifest[c] = ckpt[c]["scan"].sha

(* Only the status is looked at, not the slot.                             *)
BeginScan(w) ==
  LET c == task.config IN
    /\ At(w, "scan", "begin")
    /\ task.status = "working"
    /\ task.phase = "scanning"
    /\ IF ckpt[c]["scan"] = None
         THEN /\ mem' = [mem EXCEPT ![w].pc = "list", ![w].config = c]
              /\ UNCHANGED <<task, holder, ckpt, tree, disk, rows, found, hist>>
         ELSE IF SameManifest(c)
                THEN Enter(w, ckpt[c]["scan"].units, disk.manifest[c])
                ELSE Raise(w)

(* A worker without the slot whose task is not being scanned raises.       *)
LeaveScan(w) ==
  /\ At(w, "scan", "begin")
  /\ ~Holds(w)
  /\ ~(task.status = "working" /\ task.phase = "scanning")
  /\ Raise(w)

(* build_manifest: discovery, then the file under its final name.  The     *)
(* time of writing is part of the file, so no two are equal.               *)
WriteManifest(w) ==
  LET c == ConfigOf(w)
      m == [by |-> w, list |-> tree]
      u == {f \in File : tree[f] # 0}
  IN  /\ At(w, "scan", "list")
      /\ disk' = [disk EXCEPT !.manifest[c] = m]
      /\ hist' = IF ~Holds(w) /\ disk.manifest[c] # None
                   THEN [hist EXCEPT !.causes = @ \cup {"clobbered"}] ELSE hist
      /\ mem' = [mem EXCEPT ![w].units = u, ![w].list = m,
                            ![w].pc = IF u = {} THEN "commit" ELSE "work"]
      /\ UNCHANGED <<task, holder, ckpt, tree, rows, found>>

Decode(w) ==
  /\ At(w, "scan", "work")
  /\ Gathered(w, Decoded(Current(w), mem[w].list.list[Current(w)]))
  /\ UNCHANGED <<task, holder, ckpt, tree, disk, rows, found, hist>>

(* The rows before a batch: prepare_scan, before the first of a config.    *)
Prepare(anew) == IF anew THEN SetAside ELSE rows

(* _replace_scanner_outputs: the scanner's evidence is replaced, whichever *)
(* config left it, the resolution assessments of this config only.         *)
Replaced(row, c, state) ==
  [row EXCEPT !.metrics = c,
              !.judged = (@ \ {c}) \cup (IF state = "valid" THEN {c} ELSE {})]

(* upsert_scanned_batch.                                                   *)
Scanned(w, before) ==
  [f \in File |->
     IF f \in Pending(w)
       THEN [Replaced(before[f], ConfigOf(w), mem[w].seen[f])
               EXCEPT !.state = mem[w].seen[f], !.listed = mem[w].list.list[f]]
       ELSE before[f]]

(* upsert_manifest_artifact, with the first batch of a config.             *)
ManifestRegistered(w) ==
  IF Prepared(w) THEN found
  ELSE [found EXCEPT !.manifests[ConfigOf(w)] = mem[w].list]

CommitScan(w) ==
  /\ At(w, "scan", "commit")
  /\ Commit(w, Scanned(w, Prepare(~Prepared(w))), ManifestRegistered(w),
            NewCursor(w, TRUE, mem[w].list))

Scan(w) ==
  \/ BeginScan(w) \/ LeaveScan(w) \/ WriteManifest(w)
  \/ Decode(w) \/ CommitScan(w)
=============================================================================
