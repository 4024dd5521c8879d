--------------------------- MODULE ExportSelection ---------------------------
(***************************************************************************)
(* What an export takes: pure functions of the samples, their evidence and *)
(* the human decisions.  Copy exports: export_runs/eligibility.py and the  *)
(* plan of export_runs/planner.py.  Rewrite exports: workspace/curated.py  *)
(* and adapters/dataset_workspace.py.  No state of its own.                *)
(*                                                                         *)
(* Samples are numbers in the order of their paths.  Scores are steps of a *)
(* small scale, 0 standing for a value that is missing, not finite or out  *)
(* of range.  Annotation files, byte contents and the reason recorded for  *)
(* an excluded sample are left out.  A name stands for all that differ     *)
(* only in case, which is how destinations are compared.                   *)
(***************************************************************************)
EXTENDS Naturals, FiniteSets, FiniteSetsExt, SequencesExt

CONSTANTS
  Sample,           \* the rows of the samples table
  Facts,            \* per sample, what scan and components stored about it
  DuplicateGroup,   \* duplicate evidence: its config and its members
  AestheticMinimum, \* per config, the curated minimum, 0 for none
  TopScore          \* the highest score of the scale

ASSUME SampleAssumption == Sample \subseteq Nat /\ IsFiniteSet(Sample) /\ TopScore \in Nat

(* A picture has a size, a folder a repeat; evidence is about samples.     *)
ASSUME FactsAssumption ==
  /\ \A s \in Sample : Facts[s].area \in Nat /\ Facts[s].folder.prefix \in Nat
  /\ \A g \in DuplicateGroup : g.members \subseteq Sample

(* The human decisions, one row each.  Newest is by created_at; no two  *)
(* rows of a sample are written in one transaction, so that a number per   *)
(* sample says as much.                                                    *)
NoDecision == [sample |-> 0, id |-> 0, category |-> "none", decision |-> "none",
               active |-> FALSE, supersedes |-> 0]

ActiveOverlay(rows, s) == {r \in rows : r.sample = s /\ r.active}

NewestOverlay(rows, s) ==
  IF ActiveOverlay(rows, s) = {} THEN NoDecision
  ELSE CHOOSE r \in ActiveOverlay(rows, s) :
         \A q \in ActiveOverlay(rows, s) : q.id <= r.id

Verdict(rows, s) == NewestOverlay(rows, s).decision

(* Faulty versions of definitions below, used by no specification.         *)

BestOfAll(members, candidates) ==
  CHOOSE s \in members :
    \A u \in members \ {s} : \/ Facts[s].area > Facts[u].area
                             \/ Facts[s].area = Facts[u].area /\ s < u

RoundedRepeat(target, count, original) ==
  Max({original, 1, (2 * target + count) \div (2 * count)})

-----------------------------------------------------------------------------
(* The smallest resolution a config or an export may ask for.              *)
SmallestTier == 1

(* Evidence.                                                               *)

(* _numeric_evidence, resolve_aesthetic_score: rows of another provenance, *)
(* unusable values and two different values make a sample fail, as none do.*)
ScoreReaches(rows, minimum) ==
  \E v \in Max({minimum, 1})..TopScore :
    rows # {} /\ \A r \in rows : r.trusted /\ r.value = v

(* _style_scope_identities: the samples the style analysis would compare s *)
(* with today.  Excluding one as AI-generated changes it for the others.   *)
StyleScope(rows, s) ==
  LET analysed == {u \in Sample :
        /\ Facts[u].valid /\ Facts[u].folder = Facts[s].folder
        /\ ~Facts[u].outside
        /\ ~\E r \in ActiveOverlay(rows, u) :
              r.category = "ai_generated" /\ r.decision = "approved_exclude"}
  IN IF s \in analysed THEN analysed ELSE {}

StyleIs(rows, s, classes) ==
  \E c \in classes : Facts[s].style # {} /\
    \A e \in Facts[s].style : e.class = c /\ e.scope = StyleScope(rows, s)

StylePasses(rows, s, mode) ==
  CASE mode = "off"    -> TRUE
    [] mode = "strong" -> StyleIs(rows, s, {"normal", "outlier"})
    [] mode = "all"    -> StyleIs(rows, s, {"normal"})

-----------------------------------------------------------------------------
(* EligibilityResolver.resolve.                                            *)

(* rows of plan_current: valid samples.  A human decision goes before all  *)
(* evidence, the resolution before any decision.                           *)
BigEnough(s, set) == Facts[s].valid /\ Facts[s].area >= set.minimum_area

Passes(rows, s, set) ==
  /\ BigEnough(s, set)
  /\ Verdict(rows, s) # "approved_exclude"
  /\ \/ Verdict(rows, s) = "approved_keep"
     \/ /\ set.domain = 0 \/ ScoreReaches(Facts[s].domain, set.domain)
        /\ set.aesthetic = 0 \/ ScoreReaches(Facts[s].aesthetic, set.aesthetic)
        /\ StylePasses(rows, s, set.style)

(* _UnionFind over the groups: what s is connected to through shared       *)
(* members is the least set that holds s and every group it meets.         *)
Connected(s) ==
  {u \in Sample : \A closed \in SUBSET Sample :
     (s \in closed /\ \A g \in DuplicateGroup :
        g.members \cap closed # {} => g.members \subseteq closed) => u \in closed}

DuplicateSets == {Connected(s) : s \in UNION {g.members : g \in DuplicateGroup}}

(* The decision a sample's outcome carries: none below the resolution.     *)
OutcomeDecision(rows, s, set) == IF BigEnough(s, set) THEN Verdict(rows, s) ELSE "none"

Keeps(rows, members, set) ==
  {s \in members : OutcomeDecision(rows, s, set) = "approved_keep"}

(* The largest candidate, the first in path order among equals.            *)
Representative(members, candidates) ==
  CHOOSE s \in candidates :
    \A u \in candidates \ {s} : \/ Facts[s].area > Facts[u].area
                                \/ Facts[s].area = Facts[u].area /\ s < u

(* _apply_duplicate_filter: nobody goes where a human kept somebody.       *)
DuplicatesDropped(rows, set) ==
  UNION {LET candidates == {s \in members : Passes(rows, s, set)}
         IN IF Keeps(rows, members, set) # {} \/ candidates = {} THEN {}
            ELSE candidates \ {Representative(members, candidates)}
           : members \in DuplicateSets}

(* Evidence of another config, a member that is no valid sample, or a group*)
(* that human decisions excluded as a whole make it raise; so does metrics *)
(* evidence that is not complete for the config.                           *)
DuplicatesRaise(rows, config, set, metricsDone) ==
  \/ ~metricsDone
  \/ \E g \in DuplicateGroup : g.config # config
                               \/ \E s \in g.members : ~Facts[s].valid
  \/ \E members \in DuplicateSets :
       \A s \in members : OutcomeDecision(rows, s, set) = "approved_exclude"

Eligible(rows, set) ==
  {s \in Sample : Passes(rows, s, set)}
    \ (IF set.duplicates THEN DuplicatesDropped(rows, set) ELSE {})

-----------------------------------------------------------------------------
(* ExportRunPlanner.plan_current: folders, repeats and destinations.       *)

(* A source folder is a pair: the repeat its name begins with, 0 for none, *)
(* and the rest of the name, which is one that every system allows.        *)
Folders(samples) == {Facts[s].folder : s \in samples}

Members(samples, folder) == {s \in samples : Facts[s].folder = folder}

Count(samples, folder) == Cardinality(Members(samples, folder))

OriginalRepeat(folder) == Max({folder.prefix, 1})

(* Folders below the minimum lose their images, yet keep their output name *)
(* for the collision check.                                                *)
Retained(eligible, set) ==
  {s \in eligible : Count(eligible, Facts[s].folder) >= set.minimum_folder}

Target(kept, set) ==
  CASE set.mode = "manual" -> set.target
    [] set.mode = "auto" /\ kept # {} ->
         Max({OriginalRepeat(f) * Count(kept, f) : f \in Folders(kept)})
    [] OTHER -> 0

(* _closest_repeat: round half up, then down while the target is exceeded. *)
ClosestRepeat(target, count, original) ==
  LET rounded == Max({1, (2 * target + count) \div (2 * count)})
  IN Max({original} \cup {k \in 1..rounded : k = 1 \/ k * count <= target})

NewRepeat(eligible, folder, set) ==
  LET kept  == Retained(eligible, set)
      count == Count(eligible, folder)
  IN IF \/ set.mode = "off"
        \/ folder \notin Folders(kept)
        \/ OriginalRepeat(folder) * count > Target(kept, set)
     THEN OriginalRepeat(folder)
     ELSE ClosestRepeat(Target(kept, set), count, OriginalRepeat(folder))

OutputFolder(eligible, folder, set) ==
  [prefix |-> IF set.mode # "off" THEN NewRepeat(eligible, folder, set)
              ELSE IF set.add_prefix THEN OriginalRepeat(folder) ELSE folder.prefix,
   base   |-> folder.base]

FoldersCollide(eligible, set) ==
  \E f, g \in Folders(eligible) :
    f # g /\ OutputFolder(eligible, f, set) = OutputFolder(eligible, g, set)

(* A file name is its stem, a sequence of dotted parts, a counter that is 1*)
(* unless a "_2" and so on ends the stem, and its suffix.                  *)
FileName(s) == [stem |-> Facts[s].stem, n |-> 1,
                suffix |-> IF Facts[s].rendered THEN "png" ELSE Facts[s].suffix]

(* _converted_destination: the stem alone, then the original suffix added  *)
(* to it, then a counter, whichever is the first the folder has not used.  *)
ConvertedName(s, format, k) ==
  IF k = 1 THEN [stem |-> Facts[s].stem, n |-> 1, suffix |-> format]
  ELSE [stem |-> Append(Facts[s].stem, Facts[s].suffix), n |-> k - 1, suffix |-> format]

NameIsFree(used, s, format, k) == ConvertedName(s, format, k) \notin used

PlaceConverted(files, s, format) ==
  LET used == {f.name : f \in files}
      k    == Min({j \in 1..(Cardinality(used) + 1) : NameIsFree(used, s, format, j)})
  IN files \cup {[sample |-> s, name |-> ConvertedName(s, format, k)]}

FilesOf(samples, set) ==
  IF set.format = "original"
    THEN {[sample |-> s, name |-> FileName(s)] : s \in samples}
    ELSE FoldLeft(LAMBDA files, s : PlaceConverted(files, s, set.format), {},
                  SetToSortSeq(samples, <))

(* _dedupe_files: two files for one destination.                           *)
FilesCollide(files) ==
  \E f, g \in files : f.sample # g.sample /\ f.name = g.name

(* What may be asked of a copy export.  The service checks it before it    *)
(* plans, the planner once more on the row of a run it is to execute.      *)
FilterValid(set) ==
  /\ set.domain \in 0..TopScore
  /\ set.aesthetic \in 0..TopScore
  /\ set.duplicates \in BOOLEAN
  /\ set.style \in {"off", "strong", "all"}
  /\ set.format \in {"original", "jpeg", "png", "webp"}
  /\ set.minimum_area >= SmallestTier

BalanceValid(set) ==
  /\ set.minimum_folder > 0
  /\ set.mode \in {"off", "auto", "manual"}
  /\ set.mode # "off" => set.add_prefix
  /\ set.target > 0 <=> set.mode = "manual"

SettingValid(set) == FilterValid(set) /\ BalanceValid(set)

CopyPlan(rows, config, set) ==
  LET eligible == Eligible(rows, set)
      kept     == Retained(eligible, set)
  IN [config    |-> config,
      settings  |-> set,
      decisions |-> [s \in {u \in Sample : BigEnough(u, set)} |->
                       NewestOverlay(rows, s).id],
      included  |-> kept,
      repeats   |-> [f \in Folders(kept) |-> NewRepeat(eligible, f, set)],
      files     |-> [f \in Folders(kept) |-> FilesOf(Members(kept, f), set)]]

PlanRaises(rows, config, set, metricsDone) ==
  \/ set.duplicates /\ DuplicatesRaise(rows, config, set, metricsDone)
  \/ LET eligible == Eligible(rows, set)
         kept     == Retained(eligible, set)
     IN \/ FoldersCollide(eligible, set)
        \/ \E f \in Folders(kept) : FilesCollide(FilesOf(Members(kept, f), set))

(* plan_fingerprint, and preview_digest as far as files do not change.     *)
Fingerprint(plan) == plan

-----------------------------------------------------------------------------
(* The curated workspace of a rewrite export: valid samples large enough   *)
(* for some configured resolution, under the human decisions and the       *)
(* config's aesthetic minimum.                                             *)

Broad == {s \in Sample : Facts[s].valid /\ Facts[s].area >= SmallestTier}

CuratedMembers(rows, config) ==
  {s \in Broad :
     \/ Verdict(rows, s) = "approved_keep"
     \/ /\ Verdict(rows, s) = "none"
        /\ \/ AestheticMinimum[config] = 0
           \/ ScoreReaches(Facts[s].aesthetic, AestheticMinimum[config])}
=============================================================================
