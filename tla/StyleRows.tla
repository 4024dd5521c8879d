------------------------------ MODULE StyleRows ------------------------------
(***************************************************************************)
(* style_analysis (app/style_analysis.py): for each artist, a scope of one *)
(* file here, the model's assessment of the samples and the evidence made  *)
(* of it.  Every scope is a commit of its own; a control request seen      *)
(* between batches of a scope is committed at once, without the scope.     *)
(***************************************************************************)
EXTENDS ScoringRows

(* Samples whose probability of the domain is below the threshold written  *)
(* into their evidence, whichever config wrote it.                         *)
Outside ==
  {f \in File : found.scores[f] # None /\ f \notin Settings[found.scores[f]].domain}

Scopes == Inputs \ Outside

BeginStyle(w) ==
  LET last == ckpt[task.config]["style"] IN
    /\ At(w, "style", "begin")
    /\ Holds(w)
    /\ task.status = "working"
    /\ IF Resolvable /\ (last # None => last.units = Scopes)
         THEN Enter(w, Scopes, None) ELSE Raise(w)

(* cached_assessments: rows made for these samples and settings.           *)
Assessed(c, f) == <<c, f>> \in found.styled

Assess(w) ==
  LET f == Current(w) IN
    /\ At(w, "style", "work")
    /\ IF Assessed(ConfigOf(w), f) \/ Unchanged(f)
         THEN /\ mem' = [mem EXCEPT ![w].at = @ + 1, ![w].pc = "commit"]
              /\ UNCHANGED <<task, holder, ckpt, tree, disk, rows, found, hist>>
         ELSE Raise(w)

(* The style evidence before a scope: deleted before the first one.        *)
StyleCleared(anew) == IF anew THEN NothingFound.style ELSE found.style

(* persist_scope: the evidence of the samples is replaced, an assessment is *)
(* added if there is none for the settings.                                *)
ScopeStyled(before, c, files) ==
  [found EXCEPT !.style  = [f \in File |-> IF f \in files THEN c ELSE before[f]],
                !.styled = @ \cup {<<c, f>> : f \in files}]

CommitStyle(w) ==
  /\ At(w, "style", "commit")
  /\ Commit(w, rows,
            ScopeStyled(StyleCleared(~Prepared(w)), ConfigOf(w), Pending(w)),
            NewCursor(w, TRUE, None))

Style(w) ==
  \/ BeginStyle(w) \/ Assess(w) \/ CommitStyle(w)
  \/ mem[w].part = "style" /\ ControlCommit(w)
=============================================================================
