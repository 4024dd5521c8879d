-------------------------- MODULE MCExportExecutor --------------------------
(* ExportExecutor on small instances; the cfg files choose the sizes.      *)
EXTENDS ExportExecutor, TLC

CONSTANTS w1, w2

OneWorker == {w1}
TwoWorkers == {w1, w2}
WorkerSymmetry == Permutations(TwoWorkers)

NoFaults == {}
AllFaults == {"io", "foreign", "staging"}
=============================================================================
