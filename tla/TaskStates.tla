----------------------------- MODULE TaskStates -----------------------------
(***************************************************************************)
(* The status vocabulary of a task and the tables that route it from one   *)
(* phase to the next: jobs/state_machine.py and database/enums.py.         *)
(* "absent" is a row that was never inserted, "deleted" one whose row is   *)
(* gone: ids are fresh UUIDs, so a deleted task never comes back.          *)
(***************************************************************************)

WORKER_PHASES == {"scanning", "cpu_metrics", "model_scoring", "style_analysis",
                  "semantic_clustering", "exporting"}

TERMINAL_STATES == {"completed", "terminated", "failed"}

CONTROL_STATES == {"pausing", "terminating"}

TaskStatus == WORKER_PHASES \cup TERMINAL_STATES \cup CONTROL_STATES
              \cup {"draft", "queued", "paused", "evidence_review"}

(* A task that owns the worker slot is in one of these.                    *)
ActiveStatus == WORKER_PHASES \cup CONTROL_STATES

PIPELINE_NEXT ==
  [p \in WORKER_PHASES |->
     CASE p = "scanning"            -> "cpu_metrics"
       [] p = "cpu_metrics"         -> "model_scoring"
       [] p = "model_scoring"       -> "style_analysis"
       [] p = "style_analysis"      -> "semantic_clustering"
       [] p = "semantic_clustering" -> "evidence_review"
       [] p = "exporting"           -> "completed"]

GATE_NEXT == [g \in {"evidence_review"} |-> "exporting"]

(* The phases whose work a task in phase p has already completed.          *)
PhasesBefore(p) ==
  CASE p = "scanning"            -> {}
    [] p = "cpu_metrics"         -> {"scanning"}
    [] p = "model_scoring"       -> {"scanning", "cpu_metrics"}
    [] p = "style_analysis"      -> {"scanning", "cpu_metrics", "model_scoring"}
    [] p = "semantic_clustering" -> {"scanning", "cpu_metrics", "model_scoring",
                                     "style_analysis"}
    [] OTHER                     -> WORKER_PHASES \ {"exporting"}

(* Export runs share the worker slot with the tasks.                       *)
RUN_ACTIVE == {"planning", "copying", "verifying", "publishing"}

RunStatus == RUN_ACTIVE \cup {"absent", "queued", "completed", "failed"}
=============================================================================
