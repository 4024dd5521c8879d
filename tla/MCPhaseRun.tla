------------------------------ MODULE MCPhaseRun ------------------------------
(* PhaseRun on small instances: one task, one or two backends in turn.     *)
EXTENDS PhaseRun

CONSTANTS c1, c2

OneTask == {1}
NoRun == {}
TwoBackends == {101, 102}
OneBackend == {101}

(* c1 has two scoring components and no style analysis, c2 one of each.    *)
SmallPlans ==
  [c \in Config |-> [p \in WORKER_PHASES |->
     CASE p = "model_scoring"  -> IF c = c1 THEN 2 ELSE 1
       [] p = "style_analysis" -> IF c = c1 THEN 0 ELSE 1
       [] p = "exporting"      -> 0
       [] OTHER                -> 1]]

(* A task may be resumed once, in one of these phases or after it.         *)
ResumesOnce ==
  [p \in WORKER_PHASES |-> IF p = "model_scoring" THEN 2 ELSE 0]
=============================================================================
