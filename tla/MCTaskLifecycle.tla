--------------------------- MODULE MCTaskLifecycle ---------------------------
(* TaskLifecycle on small instances; the cfg files choose the sizes.       *)
EXTENDS TaskLifecycle, TLC

CONSTANTS c1, c2, w1, w2

OneTask == {1}
TwoTasks == {1, 2}
OneRun == {11}

(* A paused task stays paused.                                             *)
NoResumes == [p \in WORKER_PHASES |-> 0]

(* Resumes up to three times in the first phase, up to twice in a later one*)
(* and in exporting.                                                       *)
ResumesAlong  == [p \in WORKER_PHASES |->
                    CASE p = "scanning"                      -> 3
                      [] p \in {"model_scoring", "exporting"} -> 2
                      [] OTHER                               -> 0]

Workers == {w1, w2}
WorkerSymmetry == Permutations(Workers)
=============================================================================
