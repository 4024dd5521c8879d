---------------------------- MODULE ReviewOverlay ----------------------------
(***************************************************************************)
(* The review of one task and the copy exports made from it: the active    *)
(* overlay of human decisions (reviews/service.py, workspace/service.py,   *)
(* database/review_overlay.py) and the way from a preview to the export_   *)
(* runs row that holds its snapshot (export_runs/service.py).              *)
(*                                                                         *)
(* A reviewer's call looks at the task in one transaction and writes in    *)
(* another; manual exclusions do both in one.  A client's create plans in  *)
(* one transaction, hashes files outside any and inserts in another.       *)
(***************************************************************************)
EXTENDS TaskLifecycle, ExportSelection

CONSTANTS
  Reviewer,     \* API threads that carry a decision of a review page
  Client,       \* API threads that preview and create copy exports
  Selection,    \* the sets of samples a caller may select
  Setting,      \* the settings a client may ask of a copy export
  MaxDecisions, \* bound: decision rows
  MetricsDone   \* the metrics.technical rows of component_runs are completed

ASSUME ReviewAssumption ==
  /\ Task # {}
  /\ Selection \subseteq SUBSET Sample
  /\ MaxDecisions \in Nat
  /\ MetricsDone \in BOOLEAN

VARIABLES
  decision,  \* the review_decisions table
  review,    \* per reviewer, the call between its two transactions
  creator,   \* per client, the plan it works with
  snapshot   \* per export run, the plan its row holds

reviewvars == <<decision, review, creator, snapshot>>

Reviewed == CHOOSE t \in Task : TRUE

NoRequest == [category |-> "none", samples |-> {}, decision |-> "none"]
NoPlan    == [pc |-> "idle", first |-> FALSE, plan |-> None]

(* A task whose five analysis phases are done, at the review gate.         *)
AtReviewGate(c) ==
  /\ task = [t \in Task |-> [status |-> "evidence_review", resume |-> None,
                             epoch |-> Cardinality(PhasesBefore("exporting")),
                             config |-> c, progress |-> 0]]
  /\ run = [r \in Run |-> [status |-> "absent", epoch |-> 0]]
  /\ lease = NoLease
  /\ ckpt = {[task |-> t, phase |-> p, config |-> c, batch |-> items - 1,
              items |-> items, epoch |-> Cardinality(PhasesBefore(p)) + 1]
             : t \in Task, p \in PhasesBefore("exporting"), items \in {NItems} \ {0}}
  /\ evidence = [t \in Task |-> [p \in EVIDENCE_PHASES |-> [u \in Unit |-> c]]]
  /\ worker = [w \in Worker |-> Idle]

OverlayInit ==
  /\ decision = {}
  /\ review = [v \in Reviewer |-> NoRequest]
  /\ creator = [x \in Client |-> NoPlan]
  /\ snapshot = [r \in Run |-> None]

-----------------------------------------------------------------------------
(* Faulty versions of definitions below, used by no specification.         *)

OfItsCategory(rows, s, category) ==
  {r \in ActiveOverlay(rows, s) : r.category = category}

AnyPlan(p, q) == TRUE

-----------------------------------------------------------------------------
(* Decisions.                                                              *)

(* The rows a new decision on s retires: every active one, whichever page  *)
(* it comes from.                                                          *)
Retires(rows, s, category) == ActiveOverlay(rows, s)

(* The body the four deciders share.                                       *)
Decided(rows, samples, category, verdict) ==
  LET changed == {s \in samples : Verdict(rows, s) # verdict}
      retired == UNION {Retires(rows, s, category) : s \in changed}
  IN (rows \ retired)
       \cup {[r EXCEPT !.active = FALSE] : r \in retired}
       \cup {[sample     |-> s,
              id         |-> Cardinality({r \in rows : r.sample = s}) + 1,
              category   |-> category,
              decision   |-> verdict,
              active     |-> TRUE,
              supersedes |-> NewestOverlay(rows, s).id] : s \in changed}

HasStyle(s) == Facts[s].valid /\ Facts[s].style # {}

(* The samples a page lets its caller decide: AI probabilities above the   *)
(* threshold; style outliers, and samples the style page decided before;   *)
(* for the aesthetic page what the minimum of the config leaves out, and   *)
(* samples any page decided before; for duplicates the members of a group. *)
Candidates(rows, category) ==
  CASE category = "ai_generated" ->
         {s \in Sample : Facts[s].ai}
    [] category = "style_outlier" ->
         {s \in Sample : HasStyle(s) /\
            (\/ \E e \in Facts[s].style : e.class # "normal"
             \/ \E r \in ActiveOverlay(rows, s) : r.category = "style_outlier")}
    [] category = "curated:aesthetic" ->
         LET minimum == AestheticMinimum[task[Reviewed].config] IN
           {s \in Sample : Facts[s].valid /\
              (\/ minimum # 0 /\ ~ScoreReaches(Facts[s].aesthetic, minimum)
               \/ ActiveOverlay(rows, s) # {})}
    [] category = "curated:duplicate" ->
         UNION {g.members : g \in DuplicateGroup}

Category == {"ai_generated", "style_outlier", "curated:aesthetic", "curated:duplicate"}
HumanVerdict == {"approved_keep", "approved_exclude"}
Request == [category : Category, samples : Selection, decision : HumanVerdict]

(* _require_curated_confirmation_window.                                   *)
InWindow ==
  \/ task[Reviewed].status \in {"completed", "evidence_review"}
  \/ task[Reviewed].status = "paused" /\ task[Reviewed].resume = "evidence_review"

AskDecision(v) ==
  /\ review[v] = NoRequest
  /\ InWindow
  /\ \E asked \in Request : review' = [review EXCEPT ![v] = asked]
  /\ UNCHANGED <<vars, decision, creator, snapshot>>

RowsFit(rows) == Cardinality(rows) <= MaxDecisions

(* The second transaction looks at no window.  A deleted task takes its    *)
(* samples and decisions with it, and the call then selects nothing.       *)
Write(asked) ==
  LET picked == IF task[Reviewed].status = "deleted" THEN {}
                ELSE asked.samples \cap Candidates(decision, asked.category)
  IN /\ decision' = Decided(decision, picked, asked.category, asked.decision)
     /\ RowsFit(decision')

WriteDecision(v) ==
  /\ review[v] # NoRequest
  /\ Write(review[v])
  /\ review' = [review EXCEPT ![v] = NoRequest]
  /\ UNCHANGED <<vars, creator, snapshot>>

(* set_manual_exclusions, of any samples of the task.                      *)
InManualWindow ==
  \/ task[Reviewed].status = "evidence_review"
  \/ /\ task[Reviewed].status = "paused"
     /\ task[Reviewed].resume \in {"evidence_review", "exporting"}

SetManualExclusions ==
  /\ InManualWindow
  /\ \E samples \in Selection, verdict \in HumanVerdict :
       decision' = Decided(decision, samples, "manual", verdict)
  /\ decision' # decision
  /\ RowsFit(decision')
  /\ UNCHANGED <<vars, review, creator, snapshot>>

(* delete_task: the rows go with the task.                                 *)
DeleteReviewed ==
  /\ DeleteTask(Reviewed)
  /\ decision' = {}
  /\ UNCHANGED <<review, creator, snapshot>>

-----------------------------------------------------------------------------
(* Copy exports.                                                           *)

CurrentPlan(set) == CopyPlan(decision, task[Reviewed].config, set)

CurrentPlanRaises(set) ==
  PlanRaises(decision, task[Reviewed].config, set, MetricsDone)

(* ExportRunPlanner.preview: before the gate is released and after.         *)
Previewable == task[Reviewed].status \in {"completed", "evidence_review"}

PreviewExport(x) ==
  /\ creator[x].pc = "idle"
  /\ Previewable
  /\ \E set \in Setting :
       /\ SettingValid(set)
       /\ ~CurrentPlanRaises(set)
       /\ creator' = [creator EXCEPT ![x] = [NoPlan EXCEPT !.pc = "previewed",
                                                           !.plan = CurrentPlan(set)]]
  /\ UNCHANGED <<vars, decision, review, snapshot>>

(* _assert_create_ready; first is the call that releases the review gate.  *)
CreateReady(first) ==
  IF first THEN /\ task[Reviewed].status = "evidence_review"
                /\ task[Reviewed].config \in CopyConfig
                /\ \A r \in Run : run[r].status = "absent"
           ELSE task[Reviewed].status = "completed"

SamePlan(p, q) == Fingerprint(p) = Fingerprint(q)

(* The read transaction and the hashing of the files; a plan that differs  *)
(* from the previewed one, or takes no sample, is refused.                 *)
PlanExport(x) ==
  LET c == creator[x] IN
  /\ c.pc = "previewed"
  /\ \E first \in BOOLEAN :
       /\ SettingValid(c.plan.settings)
       /\ CreateReady(first)
       /\ ~CurrentPlanRaises(c.plan.settings)
       /\ Fingerprint(CurrentPlan(c.plan.settings)) = Fingerprint(c.plan)
       /\ c.plan.included # {}
       /\ creator' = [creator EXCEPT ![x].pc = "planned", ![x].first = first]
  /\ UNCHANGED <<vars, decision, review, snapshot>>

(* The write transaction.                                                  *)
InsertRun(x) ==
  LET c == creator[x] IN
  /\ c.pc = "planned"
  /\ CreateReady(c.first)
  /\ ~CurrentPlanRaises(c.plan.settings)
  /\ SamePlan(CurrentPlan(c.plan.settings), c.plan)
  /\ \E r \in Run :
       /\ IF c.first THEN CompleteFirstCopyExport(Reviewed, r)
                     ELSE CreateExportRun(Reviewed, r)
       /\ snapshot' = [snapshot EXCEPT ![r] = c.plan]
  /\ creator' = [creator EXCEPT ![x] = NoPlan]
  /\ UNCHANGED <<decision, review>>

(* The client gives up, or its create was refused as stale or not ready.   *)
AbandonExport(x) ==
  /\ creator[x].pc # "idle"
  /\ creator' = [creator EXCEPT ![x] = NoPlan]
  /\ UNCHANGED <<vars, decision, review, snapshot>>

-----------------------------------------------------------------------------
ReviewStep ==
  \/ \E v \in Reviewer : AskDecision(v) \/ WriteDecision(v)
  \/ SetManualExclusions
  \/ \E x \in Client : \/ PreviewExport(x) \/ PlanExport(x)
                       \/ InsertRun(x) \/ AbandonExport(x)

(* The rest of the API at the review gate; no worker takes part.           *)
ReviewGateStep ==
  \/ \E force \in BOOLEAN : RequestTerminate(Reviewed, force) /\ UNCHANGED reviewvars
  \/ DeleteReviewed

ReviewInit == (\E c \in Config : AtReviewGate(c)) /\ OverlayInit

ReviewNext == ReviewStep \/ ReviewGateStep

ReviewSpec == ReviewInit /\ [][ReviewNext]_<<vars, reviewvars>>

-----------------------------------------------------------------------------
(* The decisions of a sample form one chain: each but the first supersedes *)
(* the one before it and says the opposite, and only the last is active,   *)
(* whatever pages, reviewers and windows they came from.  What an export   *)
(* reads as the human verdict is then never one of two.                    *)
DecisionChain ==
  \A r \in decision :
    /\ r.supersedes = r.id - 1
    /\ r.active <=> ~\E q \in decision : q.sample = r.sample /\ q.id > r.id
    /\ \A q \in decision :
         (q.sample = r.sample /\ q.id = r.supersedes) => q.decision # r.decision

(* A copy run is inserted with a snapshot somebody previewed, and that is  *)
(* still the selection by the decisions in force at that moment: no        *)
(* decision between preview, planning and insertion is lost or half taken. *)
RunsAsConfirmed ==
  [][\A r \in Run :
       (run[r].status = "absent" /\ run'[r].status # "absent") =>
         /\ \E x \in Client : creator[x].plan = snapshot'[r]
         /\ snapshot'[r] = CopyPlan(decision', task'[Reviewed].config,
                                    snapshot'[r].settings)]_<<vars, reviewvars>>

(* Removing duplicates never removes a picture: of each set of connected   *)
(* duplicates a plan takes everything a human kept; when nobody kept any,  *)
(* it takes one member if one passes the filters, and no second one.       *)
OneOfEach(rows, p) ==
  \A members \in DuplicateSets :
    LET passing == {s \in members : Passes(rows, s, p.settings)}
        kept    == {s \in passing : Verdict(rows, s) = "approved_keep"}
        taken   == members \cap p.included
    IN IF kept # {} THEN kept \subseteq taken
       ELSE Cardinality(taken) = IF passing = {} THEN 0 ELSE 1

DuplicatesKeepOne ==
  [][\A x \in Client :
       LET p == creator'[x].plan IN
         (creator[x].pc = "idle" /\ creator'[x].pc = "previewed"
          /\ p.settings.duplicates /\ p.settings.minimum_folder = 1)
            => OneOfEach(decision, p)]_<<vars, reviewvars>>

Snapshots == {snapshot[r] : r \in Run} \ {None}

(* Automatic balancing shows every folder as often as whole repeats allow: *)
(* never more than the folder shown most, and one repeat more would be too *)
(* many.                                                                   *)
BalanceTight ==
  \A p \in {q \in Snapshots : q.settings.mode = "auto"} :
    \A f \in DOMAIN p.repeats :
      LET seen(g) == p.repeats[g] * Count(p.included, g)
          most    == Max({OriginalRepeat(g) * Count(p.included, g) : g \in DOMAIN p.repeats})
      IN seen(f) <= most /\ most < seen(f) + Count(p.included, f)
=============================================================================
