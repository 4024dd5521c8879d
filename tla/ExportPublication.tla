-------------------------- MODULE ExportPublication --------------------------
(***************************************************************************)
(* What a copy export promises about its output directory: until a failed  *)
(* verdict it holds nothing of the run or all of it and goes from the one  *)
(* to the other in one step, never back; a run is reported completed only  *)
(* after that step, and a verdict is final.  A failed verdict says nothing *)
(* about the output.                                                       *)
(***************************************************************************)
VARIABLES
  verdict,  \* "open", "completed" or "failed"
  output    \* "none", "whole" or "partial"

vars == <<verdict, output>>

Init == verdict = "open" /\ output = "none"

Publish ==
  /\ output = "none"
  /\ output' = "whole"
  /\ UNCHANGED verdict

Complete ==
  /\ verdict = "open"
  /\ output = "whole"
  /\ verdict' = "completed"
  /\ UNCHANGED output

Fail ==
  /\ verdict = "open"
  /\ verdict' = "failed"
  /\ UNCHANGED output

(* Whoever had been fenced off before may still move what is left of the   *)
(* staging directory, which nobody reports as the export.                  *)
MoveLeftovers ==
  /\ verdict = "failed"
  /\ output = "none"
  /\ output' = "partial"
  /\ UNCHANGED verdict

Next == Publish \/ Complete \/ Fail \/ MoveLeftovers

Spec == Init /\ [][Next]_vars
=============================================================================
