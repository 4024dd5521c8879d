---------------------------- MODULE MCAuditPages ----------------------------
(* AuditPages on a small instance: two samples, one entry to a page.       *)
EXTENDS AuditPages, TLC

(* The two samples are duplicates of both kinds.  Sample 1 is an outlier   *)
(* of its style with informational risk evidence only; sample 2 is normal  *)
(* in style, below the aesthetic minimum and risky.                        *)
SomeItems ==
  [v \in View |-> IF v \in {"exact", "visual"} THEN <<{1, 2}>>
                  ELSE IF v = "style" THEN <<{1}, {2}>> ELSE <<{2}, {1}>>]

SomeAutomatic ==
  [v \in View |-> IF v \in {"exact", "visual"} THEN {1, 2}
                  ELSE IF v = "style" THEN {1} ELSE {2}]

SameRank == [s \in 1..2 |-> s]

(* Nothing decided, or sample 2 kept when its style was still an outlier.  *)
TwoOverlays ==
  {(1 :> NoRow) @@ (2 :> NoRow),
   (1 :> NoRow) @@ (2 :> [NoRow EXCEPT !.category = "style", !.decision = "approved_keep"])}
=============================================================================
