--------------------------- MODULE MCRewriteExport ---------------------------
(* RewriteExport on small instances: three samples, two of them excluded.  *)
EXTENDS RewriteExport

CONSTANTS r1, k1

OneTask == {1}
NoRun == {}
TwoBackends == {101, 102}

OneEach == [c \in Config |-> [p \in WORKER_PHASES |-> 1]]

ThreeSamples == 1..3

(* 1 is kept, 2 is no valid image, 3 falls below the aesthetic minimum.    *)
ThreeFacts ==
  [s \in ThreeSamples |->
     [valid |-> s # 2, area |-> 1, folder |-> [prefix |-> 0, base |-> "a"],
      stem |-> <<s>>, suffix |-> "jpg", rendered |-> FALSE, domain |-> {},
      aesthetic |-> {[trusted |-> TRUE, value |-> IF s = 1 THEN 2 ELSE 1]},
      style |-> {}, ai |-> FALSE, outside |-> FALSE]]

MinimumTwo == [c \in Config |-> 2]

OnlyThree == {{3}}

ResumesTwice == [p \in WORKER_PHASES |-> IF p = "exporting" THEN 2 ELSE 0]
=============================================================================
