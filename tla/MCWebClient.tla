---------------------------- MODULE MCWebClient -----------------------------
(* WebClient on a small instance of statuses.                              *)
EXTENDS WebClient, TLC

CONSTANTS gated, exporting

(* One task is at the review gate, the other near its end.                 *)
OneStart == {(gated :> "evidence_review") @@ (exporting :> "exporting")}

SomeLeads ==
  [s \in {"exporting", "evidence_review", "completed", "failed"} |->
     CASE s = "exporting"       -> {"completed", "failed"}
       [] s = "evidence_review" -> {"exporting"}
       [] OTHER                 -> {}]

SomeControls ==
  [s \in DOMAIN SomeLeads |-> IF s = "evidence_review" THEN {"exporting"} ELSE {}]
=============================================================================
