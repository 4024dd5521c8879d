----------------------------- MODULE AuditPages -----------------------------
(***************************************************************************)
(* The audit pages of the web client (pages/StylePage, AestheticsPage,     *)
(* DuplicatesPage, RisksPage) over the lists and decisions of the server   *)
(* (reviews/service.py, workspace/service.py).                             *)
(*                                                                         *)
(* A page asks for a list, shows the answer, lets its reader tick rows and *)
(* sends one decision for them.  Each call is served at a moment of its    *)
(* own, and answers may arrive in any order, late, or not at all.  The     *)
(* module follows one page; what the other pages, tabs and callers do at   *)
(* the same time reaches it through the decisions they leave.  Folder,     *)
(* score and reason filters act as the filters modelled here.              *)
(***************************************************************************)
EXTENDS Naturals, Sequences, FiniteSets, SequencesExt

CONSTANTS
  Opened,       \* the routes a behaviour may start on
  Asked,        \* the decision tabs a reader chooses from
  Sample,       \* samples of the task, numbered by relative path
  Items,        \* per view, its entries (sets of samples) in the order listed
  Automatic,    \* per view, the samples its evidence makes candidates
  Rank,         \* per sample, its place by falling pixel area and path
  Earlier,      \* the overlays earlier reviews may have left
  PageSize,     \* bound: entries of a page (the constant limit)
  MaxLoads,     \* bound: lists the page asks for
  MaxDecisions, \* bound: decisions that change something
  None          \* absent

Route    == {"style", "aesthetic", "duplicates", "risk"}
View     == {"style", "aesthetic", "exact", "visual", "risk"}
Verdict  == {"approved_keep", "approved_exclude"}
Decision == {"all", "pending_review"} \cup Verdict

NoRow == [category |-> "none", decision |-> None, at |-> 0, mine |-> FALSE, seen |-> 0]

EarlierRow ==
  {NoRow} \cup [category : View \cup {"manual"}, decision : Verdict, at : {0},
                mine : {FALSE}, seen : {0}]

(* Groups of duplicates of one kind are disjoint (clustering/dedupe.py),   *)
(* and all their members candidates.  Earlier decisions are not the page's.*)
ASSUME AuditAssumption ==
  /\ Opened \subseteq Route /\ Asked \subseteq Decision /\ None \notin Verdict
  /\ Sample \subseteq Nat
  /\ DOMAIN Items = View /\ DOMAIN Automatic = View
  /\ \A v \in View : Items[v] \in Seq(SUBSET Sample)
  /\ \A v \in {"exact", "visual"} : \A g \in ToSet(Items[v]) :
       /\ g \subseteq Automatic[v]
       /\ \A h \in ToSet(Items[v]) : g = h \/ g \cap h = {}
  /\ Earlier \subseteq [Sample -> EarlierRow]
  /\ PageSize \in Nat \ {0} /\ MaxLoads \in Nat /\ MaxDecisions \in Nat

VARIABLES
  overlay,  \* per sample, the active human decision and where it came from
  clock,    \* number of decision calls that changed something
  page,     \* the state of the page
  request,  \* list calls in flight
  sub,      \* decision calls in flight
  unsure    \* history: the page was told of a failure of a call that worked

auditvars == <<overlay, clock, page, request, sub, unsure>>

ViewsOf(route) ==
  IF route = "duplicates" THEN {"exact", "visual"} ELSE {route}

-----------------------------------------------------------------------------
(* Faulty versions of definitions below, used by no specification.         *)

AnyAnswer(p, r) == TRUE

AsItWas(p) == [p EXCEPT !.selected = {}, !.confirm = None, !.busy = FALSE]

GroupsTicked(p) ==
  {g \in ToSet(p.list.items) : g \subseteq p.selected}

OnlyCandidates(view, s) == s \in Automatic[view]

-----------------------------------------------------------------------------
(* The lists.                                                              *)

(* What a list says of a sample: the style list looks at the decisions of  *)
(* its own category, the others at those of every page.                    *)
ShownVerdict(view, s) ==
  IF view # "style" \/ overlay[s].category = "style" THEN overlay[s].decision ELSE None

ReviewEligible(view, s) == s \in Automatic[view] \/ ShownVerdict(view, s) # None

SampleMatches(view, decision, s) ==
  CASE decision = "all"            -> TRUE
    [] decision = "pending_review" ->
         ShownVerdict(view, s) = None /\ (view = "risk" \/ ReviewEligible(view, s))
    [] OTHER                       -> ShownVerdict(view, s) = decision

(* A group is listed under every state one of its members is in.           *)
Matching(view, decision) ==
  LET all == Items[view]
      kept[n \in 0..Len(all)] ==
        IF n = 0 THEN <<>>
        ELSE IF \E s \in all[n] : SampleMatches(view, decision, s)
             THEN Append(kept[n - 1], all[n]) ELSE kept[n - 1]
  IN kept[Len(all)]

PageOf(seq, offset) ==
  SubSeq(seq, offset + 1, IF offset + PageSize > Len(seq) THEN Len(seq) ELSE offset + PageSize)

(* list_curated_candidates of the evidence type risk, which the risk page  *)
(* asks beside its own list: real severities only, ordered by path.        *)
CuratedRisks(decision) ==
  SetToSortSeq({s \in Automatic["risk"] : SampleMatches("risk", decision, s)}, <)

(* The rows a page offers a tick box.                                      *)
Selectable(view, s) ==
  view = "risk" \/ ReviewEligible(view, s) \/ ShownVerdict(view, s) = "approved_exclude"

Members(items) == UNION ToSet(items)

-----------------------------------------------------------------------------
(* Decisions.                                                              *)

(* The samples a decision call accepts of those it is given.               *)
Decidable(view, s) ==
  CASE view = "style"     -> s \in Automatic[view] \/ overlay[s].category = "style"
    [] view = "aesthetic" -> s \in Automatic[view] \/ overlay[s] # NoRow
    [] OTHER              -> s \in Automatic[view]

(* The two transactions of a call; a refused or lost one changes nothing.  *)
CommitDecision(d) ==
  LET accepted == {s \in d.samples : Decidable(d.view, s)}
      changed  == {s \in accepted : overlay[s].decision # d.decision}
  IN /\ d.pc = "sent"
     /\ clock' = IF changed = {} THEN clock ELSE clock + 1
     /\ clock' <= MaxDecisions
     /\ overlay' = [s \in Sample |->
          IF s \in changed THEN [category |-> d.view, decision |-> d.decision,
                                 at |-> clock', mine |-> TRUE, seen |-> d.seen]
                           ELSE overlay[s]]
     /\ sub' = (sub \ {d}) \cup {[d EXCEPT !.pc = "done", !.accepted = accepted]}
     /\ UNCHANGED <<page, request, unsure>>

-----------------------------------------------------------------------------
(* A page asks for its list and shows it.                                  *)

Query(p) == [view |-> p.view, decision |-> p.decision, offset |-> p.offset]

(* The load effect: it runs after every change of what is asked for, and   *)
(* its cleanup cancels the call before.                                    *)
Asking(p) ==
  [p EXCEPT !.load = @ + 1,
            !.list = None,
            !.busy = IF p.route = "risk" THEN @ ELSE TRUE,
            !.selected = IF p.route \in {"style", "aesthetic"} THEN {} ELSE @]

Call(p) ==
  [load |-> p.load, query |-> Query(p), items |-> None, total |-> 0,
   ticks |-> {}, states |-> None, seen |-> 0]

(* The page goes on as p with a list call for it.                          *)
Reload(p) ==
  LET asking == Asking(p) IN
  /\ asking.load <= MaxLoads
  /\ page' = asking
  /\ request' = request \cup {Call(asking)}
  /\ unsure' = FALSE

(* The query of the list is answered.                                      *)
Listed(r) ==
  LET q    == r.query
      all  == Matching(q.view, q.decision)
      part == PageOf(all, q.offset)
  IN [r EXCEPT !.items = part,
               !.total = Len(all),
               !.ticks = {s \in Members(part) : Selectable(q.view, s)},
               !.seen = clock]

States(samples, view) == [s \in samples |-> ShownVerdict(view, s)]

ServeList(r) ==
  /\ r.items = None
  /\ request' = (request \ {r}) \cup
       {IF r.query.view = "risk" THEN Listed(r)
        ELSE LET answer == Listed(r) IN
          [answer EXCEPT !.states = States(Members(answer.items), r.query.view)]}
  /\ UNCHANGED <<overlay, clock, page, sub, unsure>>

(* The second list of the risk page, served before or after the first.     *)
ServeStates(r) ==
  /\ r.query.view = "risk" /\ r.states = None
  /\ LET rows == PageOf(CuratedRisks(r.query.decision), r.query.offset) IN
       request' = (request \ {r}) \cup {[r EXCEPT !.states = States(ToSet(rows), "risk")]}
  /\ UNCHANGED <<overlay, clock, page, sub, unsure>>

Answered(r) == r.items # None /\ r.states # None

(* The flag `canceled` of the effect that made the call.                   *)
IsCurrent(p, r) == r.load = p.load

ListArrives(r) ==
  /\ Answered(r)
  /\ request' = request \ {r}
  /\ page' = IF ~IsCurrent(page, r) THEN page
             ELSE [page EXCEPT !.list = r, !.busy = (page.route = "risk" /\ @)]
  /\ UNCHANGED <<overlay, clock, sub, unsure>>

(* The call fails; the page shows an error and no list.                    *)
ListFails(r) ==
  /\ request' = request \ {r}
  /\ page' = IF ~IsCurrent(page, r) THEN page
             ELSE [page EXCEPT !.busy = (page.route = "risk" /\ @)]
  /\ UNCHANGED <<overlay, clock, sub, unsure>>

-----------------------------------------------------------------------------
(* The reader of the page.  An open dialog covers it.                      *)

Free == page.confirm = None

(* The tabs of decisions and of duplicate kinds.  The load effect runs     *)
(* first with the old offset and is canceled in the same go, when the      *)
(* other effect has put the offset back to 0.                              *)
Choose ==
  /\ Free
  /\ \E v \in ViewsOf(page.route), d \in Asked :
       /\ <<v, d>> # <<page.view, page.decision>>
       /\ Reload([page EXCEPT !.view = v, !.decision = d, !.offset = 0, !.selected = {}])
  /\ UNCHANGED <<overlay, clock, sub>>

(* Pagination; without a list the total is 0.                              *)
Total == IF page.list = None THEN 0 ELSE page.list.total

TurnPage ==
  /\ Free
  /\ \/ /\ page.offset + PageSize < Total
        /\ Reload([page EXCEPT !.offset = @ + PageSize, !.selected = {}])
     \/ /\ page.offset > 0
        /\ Reload([page EXCEPT !.offset = @ - PageSize, !.selected = {}])
  /\ UNCHANGED <<overlay, clock, sub>>

Tick ==
  /\ Free /\ page.list # None
  /\ \E s \in page.list.ticks :
       page' = [page EXCEPT !.selected = (@ \ {s}) \cup ({s} \ @)]
  /\ UNCHANGED <<overlay, clock, request, sub, unsure>>

Representative(group) == CHOOSE s \in group : \A o \in group : Rank[s] <= Rank[o]

(* The box that ticks the page: all but the best of each duplicate group.  *)
TickAll ==
  /\ Free /\ page.list # None
  /\ page' = [page EXCEPT !.selected =
       IF page.route = "duplicates"
       THEN UNION {g \ {Representative(g)} : g \in ToSet(page.list.items)}
       ELSE page.list.ticks]
  /\ UNCHANGED <<overlay, clock, request, sub, unsure>>

(* groupsFullyExcludedBySelection, of the list on display.                 *)
FullyExcluded(p) ==
  {g \in ToSet(p.list.items) :
     \A s \in g : s \in p.selected \/ p.list.states[s] = "approved_exclude"}

Stopped(p, decision) ==
  /\ p.route = "duplicates" /\ decision = "approved_exclude"
  /\ FullyExcluded(p) # {}

Ask ==
  /\ Free /\ page.list # None /\ page.selected # {}
  /\ \E d \in Verdict :
       /\ ~Stopped(page, d)
       /\ page' = [page EXCEPT !.confirm = d]
  /\ UNCHANGED <<overlay, clock, request, sub, unsure>>

(* Escape or a click beside the dialog, also while the call is under way.  *)
Dismiss ==
  /\ ~Free
  /\ page' = [page EXCEPT !.confirm = None]
  /\ UNCHANGED <<overlay, clock, request, sub, unsure>>

Decide ==
  /\ ~Free /\ ~page.busy /\ page.selected # {}
  /\ ~Stopped(page, page.confirm)
  /\ page' = [page EXCEPT !.busy = TRUE]
  /\ sub' = sub \cup {[view |-> page.view, samples |-> page.selected,
                       decision |-> page.confirm, seen |-> page.list.seen,
                       load |-> page.load, pc |-> "sent", accepted |-> {}]}
  /\ UNCHANGED <<overlay, clock, request, unsure>>

(* The page after a decision that worked, whatever it shows by then.       *)
AfterDecision(p) == Asking([p EXCEPT !.selected = {}, !.confirm = None, !.busy = FALSE])

DecisionAnswered(d) ==
  LET after == AfterDecision(page) IN
  /\ d.pc = "done"
  /\ after.load <= MaxLoads
  /\ sub' = sub \ {d}
  /\ page' = after
  /\ request' = request \cup (IF after.load = page.load THEN {} ELSE {Call(after)})
  /\ unsure' = FALSE
  /\ UNCHANGED <<overlay, clock>>

(* Refused outside the review window, failed, or an answer that got lost:  *)
(* the page keeps its list, its ticks and its dialog.                      *)
DecisionFails(d) ==
  /\ sub' = sub \ {d}
  /\ page' = [page EXCEPT !.busy = FALSE]
  /\ unsure' = (unsure \/ d.pc = "done")
  /\ UNCHANGED <<overlay, clock, request>>

(* A decision on one sample from elsewhere: the style page of another tab, *)
(* or a manual exclusion, which stands for every other category.           *)
DecideElsewhere ==
  /\ clock < MaxDecisions
  /\ \E v \in {"style", "manual"}, d \in Verdict, s \in Sample :
       /\ v = "style" => Decidable(v, s)
       /\ overlay[s].decision # d
       /\ overlay' = [overlay EXCEPT ![s] = [NoRow EXCEPT !.category = v, !.decision = d,
                                                         !.at = clock + 1]]
  /\ clock' = clock + 1
  /\ UNCHANGED <<page, request, sub, unsure>>

-----------------------------------------------------------------------------
(* A page whose reader has just turned to it, or to its second entries.    *)
Opening(route, offset) ==
  Asking([route |-> route, view |-> CHOOSE v \in ViewsOf(route) : TRUE, decision |-> "all",
          offset |-> offset, load |-> 0, list |-> None, selected |-> {}, confirm |-> None,
          busy |-> FALSE])

Init ==
  /\ overlay \in Earlier
  /\ clock = 0
  /\ \E route \in Opened, offset \in {0, PageSize} : page = Opening(route, offset)
  /\ request = {Call(page)}
  /\ sub = {}
  /\ unsure = FALSE

ServerStep ==
  \/ \E r \in request : ServeList(r) \/ ServeStates(r)
  \/ \E d \in sub : CommitDecision(d)
  \/ DecideElsewhere

AnswerStep ==
  \/ \E r \in request : ListArrives(r) \/ ListFails(r)
  \/ \E d \in sub : DecisionAnswered(d) \/ DecisionFails(d)

ReaderStep == Choose \/ TurnPage \/ Tick \/ TickAll \/ Ask \/ Dismiss \/ Decide

Next == ServerStep \/ AnswerStep \/ ReaderStep

AuditSpec == Init /\ [][Next]_auditvars

-----------------------------------------------------------------------------
(* What a page shows is the answer to what it asks for now, and no older   *)
(* than its own decisions: a row whose decision in force came from this    *)
(* page says so, unless the page has a decision under way or was told that *)
(* one failed which had worked.                                            *)
ShownIsCurrent ==
  page.list # None =>
    /\ page.list.query = Query(page)
    /\ (~unsure /\ sub = {}) =>
         \A s \in Sample :
           s \in DOMAIN page.list.states /\ overlay[s].mine =>
             page.list.states[s] = overlay[s].decision

(* The duplicates page never excludes the last member of a group of the    *)
(* kind on display.  It looks at its list only: a member that was excluded *)
(* after the list was read, from another page or by a call of this page    *)
(* that was still under way, escapes it.                                   *)
KeepsOne ==
  \A v \in {"exact", "visual"} : \A g \in ToSet(Items[v]) :
    (\A s \in g : overlay[s].decision = "approved_exclude") =>
      \A s \in g :
        (/\ overlay[s].mine /\ overlay[s].category = v
         /\ \A o \in g : overlay[o].at <= overlay[s].at) =>
          \E o \in g : overlay[s].seen < overlay[o].at /\ overlay[o].at < overlay[s].at

(* The server decides every row a page let its reader tick, as the page's  *)
(* message says it did; all it may leave out are rows another decision     *)
(* changed after the list was read, and on the risk page samples whose     *)
(* evidence is informational.                                              *)
SubmissionsLand ==
  \A d \in sub :
    d.pc = "done" =>
      \A s \in d.samples \ d.accepted :
        \/ overlay[s].at > d.seen
        \/ d.view = "risk" /\ s \notin Automatic["risk"]
=============================================================================
