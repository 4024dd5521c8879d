-------------------------- MODULE AuditPagesProofs --------------------------
(***************************************************************************)
(* What an audit page shows and what its decisions do, for any samples,    *)
(* lists, groups of duplicates and decisions from elsewhere, and any order *)
(* in which calls are served and answered.                                 *)
(***************************************************************************)
EXTENDS AuditPages, WellFoundedInduction, SequenceTheorems, TLAPS

Duplicates == {"exact", "visual"}

Row == [category : View \cup {"none", "manual"}, decision : Verdict \cup {None},
        at : Nat, mine : BOOLEAN, seen : Nat]

Offsets == {k * PageSize : k \in Nat}

IsPage(p) ==
  /\ p = [route |-> p.route, view |-> p.view, decision |-> p.decision, offset |-> p.offset,
          load |-> p.load, list |-> p.list, selected |-> p.selected, confirm |-> p.confirm,
          busy |-> p.busy]
  /\ p.route \in Route /\ p.view \in ViewsOf(p.route)
  /\ p.load \in Nat /\ p.offset \in Offsets /\ p.confirm \in Verdict \cup {None}

IsRequest(r) ==
  /\ r = [load |-> r.load, query |-> r.query, items |-> r.items, total |-> r.total,
          ticks |-> r.ticks, states |-> r.states, seen |-> r.seen]
  /\ r.load \in Nat /\ r.query.view \in View /\ r.query.offset \in Nat

IsSubmission(d) ==
  /\ d = [view |-> d.view, samples |-> d.samples, decision |-> d.decision, seen |-> d.seen,
          load |-> d.load, pc |-> d.pc, accepted |-> d.accepted]
  /\ d.samples \subseteq Sample /\ d.decision \in Verdict /\ d.pc \in {"sent", "done"}

OverlaySound ==
  /\ clock \in Nat /\ overlay \in [Sample -> Row]
  /\ \A s \in Sample :
       /\ overlay[s].at <= clock /\ overlay[s].seen <= clock
       /\ overlay[s].mine => overlay[s].category \in ViewsOf(page.route)

(* The server takes a decision on s, or s was decided after a list at seen.*)
Lands(view, s, seen) ==
  Decidable(view, s) \/ overlay[s].at > seen \/ (view = "risk" /\ s \notin Automatic["risk"])

(* o was not known to be excluded in a list at seen.                       *)
NotExcluded(o, seen) == overlay[o].at <= seen => overlay[o].decision # "approved_exclude"

(* Each decision of the page on a duplicate left a member of its group out *)
(* that was not excluded in the list.                                      *)
Spared ==
  \A v \in Duplicates : \A g \in ToSet(Items[v]) : \A s \in g :
    overlay[s].mine /\ overlay[s].category = v /\ overlay[s].decision = "approved_exclude" =>
      \E o \in g : overlay[o].at # overlay[s].at /\ NotExcluded(o, overlay[s].seen)

(* An answer is what the server had then; a row that says otherwise was    *)
(* decided later.                                                          *)
ListSound(r) ==
  /\ r.items \in Seq(ToSet(Items[r.query.view]))
  /\ r.ticks \subseteq Members(r.items)
  /\ r.seen \in Nat /\ r.seen <= clock
  /\ \A s \in r.ticks : Lands(r.query.view, s, r.seen)
  /\ r.query.view # "risk" =>
       /\ Members(r.items) \subseteq DOMAIN r.states
       /\ \A s \in Sample : s \in DOMAIN r.states /\ overlay[s].at <= r.seen =>
            r.states[s] = ShownVerdict(r.query.view, s)

Quiet == ~unsure /\ \A d \in sub : d.pc = "sent"

(* With no decision of the page done and not answered, an answer knows of  *)
(* all of them.                                                            *)
Fresh(r) ==
  Quiet =>
    \A s \in Sample :
      s \in DOMAIN r.states /\ overlay[s].mine => r.states[s] = overlay[s].decision

RequestsSound ==
  \A r \in request :
    /\ IsRequest(r) /\ r.load <= page.load
    /\ r.items # None => ListSound(r)
    /\ r.load = page.load =>
         /\ r.query = Query(page) /\ page.list = None
         /\ r.states # None => Fresh(r)
         /\ \A k \in request : k.load = page.load => k = r

Offered(r) == IF page.route = "duplicates" THEN Members(r.items) ELSE r.ticks

PageSound ==
  /\ IsPage(page)
  /\ page.list # None =>
       IsRequest(page.list) /\ page.list.query = Query(page)
         /\ ListSound(page.list) /\ Fresh(page.list)
  /\ page.selected # {} => page.list # None /\ page.selected \subseteq Offered(page.list)

SubmissionSound(d) ==
  /\ IsSubmission(d) /\ d.view \in ViewsOf(page.route) /\ d.seen \in Nat /\ d.seen <= clock
  /\ d.pc = "sent" => \A s \in d.samples : Lands(d.view, s, d.seen)
  /\ d.pc = "done" => \A s \in d.samples \ d.accepted :
                        overlay[s].at > d.seen \/ (d.view = "risk" /\ s \notin Automatic["risk"])
  /\ d.pc = "sent" /\ d.view \in Duplicates /\ d.decision = "approved_exclude" =>
       \A g \in ToSet(Items[d.view]) :
         g \cap d.samples # {} => \E o \in g \ d.samples : NotExcluded(o, d.seen)

(* The three properties look at the rows a page decided long ago, or at an *)
(* answer served long ago.  They rest on the order of the server's clock:  *)
(* whatever an answer does not know was decided after it.                  *)
AuditInv ==
  /\ OverlaySound
  /\ Spared
  /\ RequestsSound
  /\ PageSound
  /\ \A d \in sub : SubmissionSound(d)

-----------------------------------------------------------------------------
(* The lists.                                                              *)

LEMMA Induct ==
  ASSUME NEW T, 0 \in T, \A n \in Nat : n \in T => n + 1 \in T
  PROVE  Nat \subseteq T
<1> SUFFICES ASSUME Nat \ T # {} PROVE FALSE
  OBVIOUS
<1>1. PICK m \in Nat \ T : \A n \in Nat \ T : ~(<<n, m>> \in OpToRel(<, Nat))
  BY NatLessThanWellFounded, WFMin
<1>2. \A n \in Nat \ T : ~(n < m)
  BY <1>1 DEF OpToRel
<1>3. m - 1 \in Nat /\ m = (m - 1) + 1
  OBVIOUS
<1> QED
  BY <1>2, <1>3

LEMMA MatchingSound ==
  ASSUME NEW view \in View, NEW decision
  PROVE  Matching(view, decision) \in Seq(ToSet(Items[view]))
<1> DEFINE Step(prior, n) ==
             IF \E s \in Items[view][n] : SampleMatches(view, decision, s)
             THEN Append(prior, Items[view][n]) ELSE prior
           Kept(f, k) == f = [n \in 0..k |-> IF n = 0 THEN <<>> ELSE Step(f[n - 1], n)]
           S == ToSet(Items[view])
           L == Len(Items[view])
<1>1. L \in Nat /\ \A n \in 1..L : Items[view][n] \in S
  BY AuditAssumption DEF ToSet
<1>2. \A k \in Nat : \E f : Kept(f, k)
  <2> PICK T : T = {k \in Nat : \E f : Kept(f, k)}
    OBVIOUS
  <2>1. 0 \in T
    <3>1. Kept([n \in 0..0 |-> <<>>], 0)
      OBVIOUS
    <3> QED
      BY <3>1
  <2>2. ASSUME NEW k \in Nat, k \in T PROVE k + 1 \in T
    <3>1. PICK f : Kept(f, k)
      BY <2>2
    <3>2. PICK g : g = [n \in 0..k + 1 |-> IF n = k + 1 THEN Step(f[k], k + 1) ELSE f[n]]
      OBVIOUS
    <3>3. ASSUME NEW n \in 0..k + 1
          PROVE  g[n] = IF n = 0 THEN <<>> ELSE Step(g[n - 1], n)
      <4>1. CASE n = 0
        <5>1. g[n] = f[n] /\ f[n] = <<>>
          BY <3>1, <3>2, <4>1
        <5> QED
          BY <4>1, <5>1
      <4>2. CASE n = k + 1
        <5>1. g[n] = Step(f[k], n) /\ g[k] = f[k] /\ n - 1 = k
          BY <3>2, <4>2
        <5> QED
          BY <4>2, <5>1
      <4>3. CASE n # 0 /\ n # k + 1
        <5>1. n \in 0..k /\ n - 1 \in 0..k
          BY <4>3
        <5>2. g[n] = f[n] /\ g[n - 1] = f[n - 1]
          BY <3>2, <4>3, <5>1
        <5>3. f[n] = Step(f[n - 1], n)
          BY <3>1, <4>3, <5>1
        <5> QED
          BY <4>3, <5>2, <5>3
      <4> QED
        BY <4>1, <4>2, <4>3
    <3>4. Kept(g, k + 1)
      BY <3>2, <3>3
    <3> QED
      BY <3>4
  <2> QED
    BY <2>1, <2>2, Induct
<1>3. PICK f : /\ f = [n \in 0..L |-> IF n = 0 THEN <<>> ELSE Step(f[n - 1], n)]
               /\ Matching(view, decision) = f[L]
  BY <1>1, <1>2 DEF Matching
<1>4. PICK R : R = S
  OBVIOUS
<1>5. ASSUME NEW x \in Seq(R), NEW n \in 1..L PROVE Step(x, n) \in Seq(R)
  <2>1. PICK a : a = Items[view][n]
    OBVIOUS
  <2>2. a \in R
    BY <1>1, <1>4, <2>1
  <2>3. Append(x, a) \in Seq(R)
    BY <2>2
  <2> QED
    BY <2>1, <2>3
<1> HIDE DEF Step
<1>6. PICK T : T = {k \in Nat : k <= L => f[k] \in Seq(R)}
  OBVIOUS
<1>7. 0 \in T
  <2>1. f[0] = <<>>
    BY <1>1, <1>3
  <2>2. <<>> \in Seq(R)
    OBVIOUS
  <2> QED
    BY <1>6, <2>1, <2>2
<1>8. ASSUME NEW k \in T PROVE k + 1 \in T
  <2>1. k \in Nat /\ (k <= L => f[k] \in Seq(R))
    BY <1>6
  <2>2. SUFFICES ASSUME k + 1 <= L PROVE f[k + 1] \in Seq(R)
    BY <1>6, <2>1
  <2>3. k + 1 \in 1..L /\ k + 1 \in 0..L /\ k + 1 # 0 /\ (k + 1) - 1 = k /\ k <= L
    BY <1>1, <2>1, <2>2
  <2>4. f[k + 1] = Step(f[k], k + 1)
    BY <1>3, <2>3
  <2>5. f[k] \in Seq(R)
    BY <2>1, <2>3
  <2> QED
    BY <1>5, <2>3, <2>4, <2>5
<1>9. Nat \subseteq T
  BY <1>7, <1>8, Induct
<1>10. L \in T /\ L <= L
  BY <1>1, <1>9
<1> QED
  BY <1>3, <1>4, <1>6, <1>10

LEMMA PageOfSound ==
  ASSUME NEW S, NEW seq \in Seq(S), NEW offset \in Nat
  PROVE  PageOf(seq, offset) \in Seq(S)
<1>1. PICK n : n = IF offset + PageSize > Len(seq) THEN Len(seq) ELSE offset + PageSize
  OBVIOUS
<1>2. n \in 0..Len(seq)
  BY <1>1, AuditAssumption
<1>3. \A i \in offset + 1 .. n : seq[i] \in S
  BY <1>2
<1> QED
  BY <1>1, <1>2, <1>3 DEF PageOf

LEMMA OffsetsSound ==
  /\ Offsets \subseteq Nat /\ {0, PageSize} \subseteq Offsets
  /\ \A o \in Offsets : o + PageSize \in Offsets /\ (o > 0 => o - PageSize \in Offsets)
<1>1. \A k \in Nat : k * PageSize \in Nat /\ (k + 1) * PageSize = k * PageSize + PageSize
  BY AuditAssumption
<1>2. 0 = 0 * PageSize /\ PageSize = 1 * PageSize
  BY AuditAssumption
<1>3. Offsets \subseteq Nat /\ {0, PageSize} \subseteq Offsets
  BY <1>1, <1>2 DEF Offsets
<1>4. ASSUME NEW o \in Offsets PROVE o + PageSize \in Offsets
  <2>1. PICK k \in Nat : o = k * PageSize
    BY DEF Offsets
  <2> QED
    BY <1>1, <2>1 DEF Offsets
<1>5. ASSUME NEW o \in Offsets, o > 0 PROVE o - PageSize \in Offsets
  <2>1. PICK k \in Nat : o = k * PageSize
    BY DEF Offsets
  <2>2. PICK j \in Nat : k = j + 1
    <3>1. k # 0
      BY <1>2, <1>5, <2>1
    <3>2. k - 1 \in Nat /\ k = (k - 1) + 1
      BY <3>1
    <3> QED
      BY <3>2
  <2>3. o = j * PageSize + PageSize
    BY <1>1, <2>1, <2>2
  <2>4. o - PageSize = j * PageSize
    BY <1>1, <2>3, AuditAssumption
  <2> QED
    BY <2>4 DEF Offsets
<1> QED
  BY <1>3, <1>4, <1>5

LEMMA ViewOfRoute == \A route \in Route : ViewsOf(route) \subseteq View /\ ViewsOf(route) # {}
  BY DEF Route, ViewsOf, View

LEMMA MembersSound ==
  ASSUME NEW view \in View, NEW items \in Seq(ToSet(Items[view]))
  PROVE  /\ Members(items) \subseteq Sample
         /\ view \in Duplicates => Members(items) \subseteq Automatic[view]
         /\ \A g \in ToSet(items) : g \in ToSet(Items[view])
<1>1. \A g \in ToSet(Items[view]) : g \subseteq Sample
  BY AuditAssumption DEF ToSet
<1>2. view \in Duplicates => \A g \in ToSet(Items[view]) : g \subseteq Automatic[view]
  BY AuditAssumption DEF Duplicates
<1>3. PICK S : S = ToSet(Items[view])
  OBVIOUS
<1>4. items \in Seq(S)
  BY <1>3
<1>5. \A g \in ToSet(items) : g \in S
  BY <1>4 DEF ToSet
<1> QED
  BY <1>1, <1>2, <1>3, <1>5 DEF Members

(* A row that may be ticked is one the server takes a decision on.         *)
LEMMA SelectableLands ==
  ASSUME OverlaySound, NEW view \in View, NEW s \in Sample, NEW seen, Selectable(view, s),
         view \in Duplicates => s \in Automatic[view]
  PROVE  Lands(view, s, seen)
<1>1. CASE view = "risk"
  BY <1>1 DEF Lands, Decidable
<1>2. CASE view \in Duplicates
  BY <1>2 DEF Lands, Decidable, Duplicates
<1>3. CASE view \in {"style", "aesthetic"} /\ s \in Automatic[view]
  BY <1>3 DEF Lands, Decidable
<1>4. CASE view \in {"style", "aesthetic"} /\ s \notin Automatic[view]
  <2>1. ShownVerdict(view, s) # None
    BY <1>4, AuditAssumption DEF Selectable, ReviewEligible, Verdict
  <2>2. view = "aesthetic" => overlay[s].decision # None
    BY <2>1 DEF ShownVerdict
  <2>3. view = "aesthetic" => overlay[s] # NoRow
    BY <2>2 DEF NoRow
  <2>4. view = "style" => overlay[s].category = "style"
    BY <2>1 DEF ShownVerdict
  <2> QED
    BY <1>4, <2>3, <2>4 DEF Lands, Decidable
<1> QED
  BY <1>1, <1>2, <1>3, <1>4 DEF View, Duplicates

Served(r) ==
  IF r.query.view = "risk" THEN Listed(r)
  ELSE [Listed(r) EXCEPT !.states = States(Members(Listed(r).items), r.query.view)]

LEMMA ServedSound ==
  ASSUME OverlaySound, NEW r, IsRequest(r)
  PROVE  /\ IsRequest(Served(r)) /\ ListSound(Served(r))
         /\ Served(r).load = r.load /\ Served(r).query = r.query
         /\ r.query.view = "risk" => Served(r).states = r.states
         /\ r.query.view # "risk" =>
              \A s \in DOMAIN Served(r).states :
                Served(r).states[s] = ShownVerdict(r.query.view, s)
<1>1. PICK view : view = r.query.view
  OBVIOUS
<1>2. view \in View
  BY <1>1 DEF IsRequest
<1>3. PICK items : items = PageOf(Matching(view, r.query.decision), r.query.offset)
  OBVIOUS
<1>4. items \in Seq(ToSet(Items[view]))
  BY <1>2, <1>3, MatchingSound, PageOfSound DEF IsRequest
<1>5. PICK ticks : ticks = {s \in Members(items) : Selectable(view, s)}
  OBVIOUS
<1>6. PICK total : total = Len(Matching(view, r.query.decision))
  OBVIOUS
<1>7. PICK states : states = IF view = "risk" THEN r.states ELSE States(Members(items), view)
  OBVIOUS
<1>8. Listed(r) = [load |-> r.load, query |-> r.query, items |-> items, total |-> total,
                   ticks |-> ticks, states |-> r.states, seen |-> clock]
  <2>1. Listed(r) = [r EXCEPT !.items = items, !.total = total, !.ticks = ticks, !.seen = clock]
    BY <1>1, <1>3, <1>5, <1>6 DEF Listed
  <2> QED
    BY <2>1 DEF IsRequest
<1>9. Served(r) = [load |-> r.load, query |-> r.query, items |-> items, total |-> total,
                   ticks |-> ticks, states |-> states, seen |-> clock]
  BY <1>1, <1>7, <1>8 DEF Served
<1>10. ticks \subseteq Members(items) /\ \A s \in ticks : s \in Sample /\ Lands(view, s, clock)
  BY <1>2, <1>4, <1>5, MembersSound, SelectableLands
<1>11. clock \in Nat /\ clock <= clock
  BY DEF OverlaySound
<1>12. view # "risk" => /\ DOMAIN states = Members(items)
                        /\ \A s \in DOMAIN states : states[s] = ShownVerdict(view, s)
  BY <1>7 DEF States
<1>13. IsRequest(Served(r)) /\ Served(r).load = r.load /\ Served(r).query = r.query
  BY <1>9 DEF IsRequest
<1>14. ListSound(Served(r))
  BY <1>1, <1>4, <1>9, <1>10, <1>11, <1>12 DEF ListSound
<1> QED
  BY <1>1, <1>7, <1>9, <1>12, <1>13, <1>14

-----------------------------------------------------------------------------
(* Decisions leave what an answer said true: a row they change is dated    *)
(* after every list served so far.                                         *)

Grows ==
  /\ clock' \in Nat /\ clock <= clock' /\ overlay' \in [Sample -> Row]
  /\ \A s \in Sample : overlay'[s] = overlay[s] \/ overlay'[s].at > clock

LEMMA VerdictsGrow ==
  ASSUME OverlaySound, Grows, NEW s \in Sample, NEW seen \in Nat, seen <= clock
  PROVE  /\ \A view \in View : Lands(view, s, seen) => Lands(view, s, seen)'
         /\ overlay[s].at > seen => overlay'[s].at > seen
         /\ NotExcluded(s, seen) => NotExcluded(s, seen)'
         /\ overlay'[s].at <= seen => overlay'[s] = overlay[s]
<1>1. overlay[s].at \in Nat /\ overlay'[s].at \in Nat /\ clock \in Nat
  BY DEF OverlaySound, Grows, Row
<1>2. CASE overlay'[s] = overlay[s]
  BY <1>1, <1>2 DEF Lands, NotExcluded, Decidable
<1>3. CASE overlay'[s].at > clock
  <2>1. overlay'[s].at > seen /\ ~(overlay'[s].at <= seen)
    BY <1>1, <1>3
  <2> QED
    BY <2>1 DEF Lands, NotExcluded
<1> QED
  BY <1>2, <1>3 DEF Grows

LEMMA ListsGrow ==
  ASSUME OverlaySound, Grows, NEW r, IsRequest(r), ListSound(r)
  PROVE  ListSound(r)'
<1>1. r.seen \in Nat /\ r.seen <= clock /\ r.seen <= clock' /\ r.query.view \in View
  BY DEF ListSound, Grows, OverlaySound, IsRequest
<1>2. r.ticks \subseteq Sample
  BY <1>1, MembersSound DEF ListSound
<1>3. \A s \in r.ticks : Lands(r.query.view, s, r.seen)'
  BY <1>1, <1>2, VerdictsGrow DEF ListSound
<1>4. ASSUME r.query.view # "risk", NEW s \in Sample, s \in DOMAIN r.states,
             overlay'[s].at <= r.seen
      PROVE  r.states[s] = ShownVerdict(r.query.view, s)'
  <2>1. overlay'[s] = overlay[s]
    BY <1>1, <1>4, VerdictsGrow
  <2>2. r.states[s] = ShownVerdict(r.query.view, s)
    BY <1>4, <2>1 DEF ListSound
  <2> QED
    BY <2>1, <2>2 DEF ShownVerdict
<1> QED
  BY <1>1, <1>3, <1>4 DEF ListSound

LEMMA SubmissionsGrow ==
  ASSUME OverlaySound, Grows, page.route \in Route, page'.route = page.route,
         NEW d, SubmissionSound(d)
  PROVE  SubmissionSound(d)'
<1>1. d.seen \in Nat /\ d.seen <= clock /\ d.seen <= clock' /\ d.samples \subseteq Sample
  BY DEF SubmissionSound, IsSubmission, Grows, OverlaySound
<1>2. IsSubmission(d)' /\ d.view \in ViewsOf(page.route)'
  BY DEF SubmissionSound, IsSubmission
<1>3. d.pc = "sent" => \A s \in d.samples : Lands(d.view, s, d.seen)'
  <2>1. SUFFICES ASSUME d.pc = "sent", NEW s \in d.samples PROVE Lands(d.view, s, d.seen)'
    OBVIOUS
  <2>2. s \in Sample /\ Lands(d.view, s, d.seen)
    BY <1>1, <2>1 DEF SubmissionSound
  <2>3. \A view \in View : Lands(view, s, d.seen) => Lands(view, s, d.seen)'
    BY <1>1, <2>2, VerdictsGrow
  <2>4. PICK v \in View : v = d.view
    BY ViewOfRoute DEF SubmissionSound
  <2>5. Lands(v, s, d.seen)'
    BY <2>2, <2>3, <2>4
  <2> QED
    BY <2>4, <2>5 DEF Lands, Decidable
<1>4. d.pc = "done" => \A s \in d.samples \ d.accepted :
                         overlay'[s].at > d.seen \/ (d.view = "risk" /\ s \notin Automatic["risk"])
  BY <1>1, VerdictsGrow DEF SubmissionSound
<1>5. d.pc = "sent" /\ d.view \in Duplicates /\ d.decision = "approved_exclude" =>
       \A g \in ToSet(Items[d.view]) :
         g \cap d.samples # {} => \E o \in g \ d.samples : NotExcluded(o, d.seen)'
  <2>1. d.view \in Duplicates => \A g \in ToSet(Items[d.view]) : g \subseteq Sample
    BY AuditAssumption DEF ToSet, Duplicates, View
  <2> QED
    BY <1>1, <2>1, VerdictsGrow DEF SubmissionSound
<1> QED
  BY <1>1, <1>2, <1>3, <1>4, <1>5 DEF SubmissionSound

(* What a step that keeps a fresh answer fresh may do.                     *)
Known ==
  Quiet' => /\ Quiet
            /\ \A s \in Sample : overlay'[s].mine =>
                 overlay[s].mine /\ overlay'[s].decision = overlay[s].decision

LEMMA FreshStands ==
  ASSUME Known, NEW r, Fresh(r)
  PROVE  Fresh(r)'
  BY DEF Known, Fresh

(* The list calls that are left when the page asks for the same list.      *)
LEMMA RequestsStand ==
  ASSUME OverlaySound, RequestsSound, Grows, Known, request' \subseteq request,
         page'.load = page.load, Query(page)' = Query(page),
         (\E r \in request' : r.load = page.load) => page'.list = page.list
  PROVE  RequestsSound'
<1>1. SUFFICES ASSUME NEW r \in request'
               PROVE  /\ IsRequest(r) /\ r.load <= page'.load
                      /\ r.items # None => ListSound(r)'
                      /\ r.load = page'.load =>
                           /\ r.query = Query(page)' /\ page'.list = None
                           /\ r.states # None => Fresh(r)'
                           /\ \A k \in request' : k.load = page'.load => k = r
  BY DEF RequestsSound, IsRequest
<1>2. /\ IsRequest(r) /\ r.load <= page.load
      /\ r.items # None => ListSound(r)
      /\ r.load = page.load =>
           /\ r.query = Query(page) /\ page.list = None
           /\ r.states # None => Fresh(r)
           /\ \A k \in request : k.load = page.load => k = r
  BY <1>1 DEF RequestsSound
<1>3. r.items # None => ListSound(r)'
  BY <1>2, ListsGrow
<1>4. r.load = page.load /\ r.states # None => Fresh(r)'
  BY <1>2, FreshStands
<1> QED
  BY <1>1, <1>2, <1>3, <1>4

LEMMA PageStands ==
  ASSUME OverlaySound, PageSound, Grows, Known, IsPage(page'),
         page'.list = page.list, Query(page)' = Query(page), page'.route = page.route,
         page'.selected # {} =>
           page.list # None /\ page'.selected \subseteq Offered(page.list)
  PROVE  PageSound'
<1>1. PICK l : l = page.list
  OBVIOUS
<1>2. l # None => IsRequest(l) /\ l.query = Query(page) /\ ListSound(l) /\ Fresh(l)
  BY <1>1 DEF PageSound
<1>3. l # None => ListSound(l)' /\ Fresh(l)'
  BY <1>2, ListsGrow, FreshStands
<1>4. page'.list # None =>
         /\ IsRequest(page'.list) /\ page'.list.query = Query(page)'
         /\ ListSound(page.list)' /\ Fresh(page.list)'
  BY <1>1, <1>2, <1>3
<1>5. page'.selected # {} => page'.list # None /\ page'.selected \subseteq Offered(page.list)'
  BY DEF Offered
<1> QED
  BY <1>4, <1>5 DEF PageSound, IsPage, IsRequest

LEMMA OverlayStands ==
  ASSUME AuditInv, UNCHANGED <<overlay, clock>>, page'.route = page.route
  PROVE  /\ OverlaySound' /\ Spared' /\ Grows
         /\ \A d : SubmissionSound(d) => SubmissionSound(d)'
<1>1. OverlaySound /\ Spared /\ page.route \in Route
  BY DEF AuditInv, PageSound, IsPage
<1>2. OverlaySound' /\ Grows
  BY <1>1 DEF OverlaySound, Grows
<1>3. Spared'
  BY <1>1 DEF Spared, NotExcluded
<1>4. ASSUME NEW d, SubmissionSound(d) PROVE SubmissionSound(d)'
  BY <1>1, <1>2, <1>4, SubmissionsGrow
<1> QED
  BY <1>2, <1>3, <1>4

-----------------------------------------------------------------------------
(* List calls.                                                             *)

(* One call changes: to a, which the server answered.                      *)
LEMMA CallAnswered ==
  ASSUME AuditInv, NEW r \in request, NEW a, IsRequest(a), a.load = r.load,
         a.query = r.query, a.items # None => ListSound(a),
         a.load = page.load /\ a.states # None => Fresh(a),
         request' = (request \ {r}) \cup {a},
         UNCHANGED <<overlay, clock, page, sub, unsure>>
  PROVE  AuditInv'
<1>1. OverlaySound /\ RequestsSound /\ PageSound
  BY DEF AuditInv
<1>2. OverlaySound' /\ Spared' /\ Grows /\ \A d : SubmissionSound(d) => SubmissionSound(d)'
  BY OverlayStands
<1>3. Known
  BY DEF Known, Quiet
<1>4. PageSound'
  <2>1. page.selected # {} => page.list # None /\ page.selected \subseteq Offered(page.list)
    BY <1>1 DEF PageSound
  <2>2. Query(page)' = Query(page) /\ IsPage(page')
    BY <1>1 DEF PageSound, IsPage
  <2> QED
    BY <1>1, <1>2, <1>3, <2>1, <2>2, PageStands
<1>5. a.items # None => ListSound(a)'
  BY <1>1, <1>2, ListsGrow
<1>6. a.load = page.load /\ a.states # None => Fresh(a)'
  BY <1>3, FreshStands
<1>7. /\ r.load <= page.load
      /\ r.load = page.load =>
           /\ r.query = Query(page) /\ page.list = None
           /\ \A k \in request : k.load = page.load => k = r
  BY <1>1 DEF RequestsSound
<1>8. ASSUME NEW k \in request, k # r
      PROVE  /\ IsRequest(k) /\ k.load <= page.load
             /\ k.items # None => ListSound(k)'
             /\ k.load = page.load =>
                  /\ k.query = Query(page) /\ page.list = None /\ r.load # page.load
                  /\ k.states # None => Fresh(k)'
                  /\ \A j \in request : j.load = page.load => j = k
  <2>1. /\ IsRequest(k) /\ k.load <= page.load
        /\ k.items # None => ListSound(k)
        /\ k.load = page.load =>
             /\ k.query = Query(page) /\ page.list = None
             /\ k.states # None => Fresh(k)
             /\ \A j \in request : j.load = page.load => j = k
    BY <1>1 DEF RequestsSound
  <2>2. k.items # None => ListSound(k)'
    BY <1>1, <1>2, <2>1, ListsGrow
  <2>3. k.load = page.load /\ k.states # None => Fresh(k)'
    BY <1>3, <2>1, FreshStands
  <2> QED
    BY <1>8, <2>1, <2>2, <2>3
<1>9. RequestsSound'
  <2>1. SUFFICES ASSUME NEW k \in request'
                 PROVE  /\ IsRequest(k) /\ k.load <= page'.load
                        /\ k.items # None => ListSound(k)'
                        /\ k.load = page'.load =>
                             /\ k.query = Query(page)' /\ page'.list = None
                             /\ k.states # None => Fresh(k)'
                             /\ \A j \in request' : j.load = page'.load => j = k
    BY DEF RequestsSound, IsRequest
  <2>2. page' = page /\ Query(page)' = Query(page)
    OBVIOUS
  <2>3. CASE k = a
    <3>1. k.load = page'.load => \A j \in request' : j.load = page'.load => j = k
      BY <1>7, <2>2, <2>3
    <3> QED
      BY <1>5, <1>6, <1>7, <2>2, <2>3, <3>1
  <2>4. CASE k # a
    <3>1. k \in request /\ k # r
      BY <2>1, <2>4
    <3>2. k.load = page'.load => \A j \in request' : j.load = page'.load => j = k
      BY <1>8, <2>2, <3>1
    <3> QED
      BY <1>8, <2>2, <3>1, <3>2
  <2> QED
    BY <2>3, <2>4
<1> QED
  BY <1>2, <1>4, <1>9 DEF AuditInv

LEMMA ServeListStep ==
  ASSUME AuditInv, NEW r \in request, ServeList(r)
  PROVE  AuditInv'
<1>1. OverlaySound /\ RequestsSound /\ PageSound /\ IsRequest(r)
  BY DEF AuditInv, RequestsSound
<1>2. PICK a : a = Served(r)
  OBVIOUS
<1>3. request' = (request \ {r}) \cup {a} /\ UNCHANGED <<overlay, clock, page, sub, unsure>>
  BY <1>2 DEF ServeList, Served
<1>4. /\ IsRequest(a) /\ ListSound(a) /\ a.load = r.load /\ a.query = r.query
      /\ r.query.view = "risk" => a.states = r.states
      /\ r.query.view # "risk" =>
           \A s \in DOMAIN a.states : a.states[s] = ShownVerdict(r.query.view, s)
  BY <1>1, <1>2, ServedSound
<1>5. ASSUME a.load = page.load, a.states # None PROVE Fresh(a)
  <2>1. r.query = Query(page) /\ (r.states # None => Fresh(r))
    BY <1>1, <1>4, <1>5 DEF RequestsSound
  <2>2. CASE r.query.view = "risk"
    <3>1. a.states = r.states /\ Fresh(r)
      BY <1>4, <1>5, <2>1, <2>2
    <3> QED
      BY <3>1 DEF Fresh
  <2>3. CASE r.query.view # "risk"
    <3>1. SUFFICES ASSUME NEW s \in Sample, s \in DOMAIN a.states, overlay[s].mine
                   PROVE  a.states[s] = overlay[s].decision
      BY DEF Fresh
    <3>2. a.states[s] = ShownVerdict(r.query.view, s)
      BY <1>4, <2>3, <3>1
    <3>3. r.query.view = page.view /\ page.view \in ViewsOf(page.route)
      BY <1>1, <2>1 DEF Query, PageSound, IsPage
    <3>4. overlay[s].category \in ViewsOf(page.route)
      BY <1>1, <3>1 DEF OverlaySound
    <3>5. r.query.view = "style" => overlay[s].category = "style"
      BY <3>3, <3>4 DEF ViewsOf
    <3> QED
      BY <3>2, <3>5 DEF ShownVerdict
  <2> QED
    BY <2>2, <2>3
<1> QED
  BY <1>3, <1>4, <1>5, CallAnswered

LEMMA ServeStatesStep ==
  ASSUME AuditInv, NEW r \in request, ServeStates(r)
  PROVE  AuditInv'
<1>1. PICK rows : rows = ToSet(PageOf(CuratedRisks(r.query.decision), r.query.offset))
  OBVIOUS
<1>2. PICK a : a = [r EXCEPT !.states = States(rows, "risk")]
  OBVIOUS
<1>3. request' = (request \ {r}) \cup {a} /\ UNCHANGED <<overlay, clock, page, sub, unsure>>
  BY <1>1, <1>2 DEF ServeStates
<1>4. r.query.view = "risk" /\ IsRequest(r) /\ (r.items # None => ListSound(r))
  BY DEF ServeStates, AuditInv, RequestsSound
<1>5. a = [load |-> r.load, query |-> r.query, items |-> r.items, total |-> r.total,
           ticks |-> r.ticks, states |-> States(rows, "risk"), seen |-> r.seen]
  BY <1>2, <1>4 DEF IsRequest
<1>6. IsRequest(a) /\ a.load = r.load /\ a.query = r.query
  BY <1>4, <1>5 DEF IsRequest
<1>7. a.items # None => ListSound(a)
  <2>1. a.items = r.items /\ a.ticks = r.ticks /\ a.seen = r.seen
    BY <1>5
  <2> QED
    BY <1>4, <1>6, <2>1 DEF ListSound
<1>8. Fresh(a)
  BY <1>5 DEF Fresh, States, ShownVerdict
<1> QED
  BY <1>3, <1>6, <1>7, <1>8, CallAnswered

LEMMA PageRecord ==
  ASSUME PageSound
  PROVE  page = [route |-> page.route, view |-> page.view, decision |-> page.decision,
                 offset |-> page.offset, load |-> page.load, list |-> page.list,
                 selected |-> page.selected, confirm |-> page.confirm, busy |-> page.busy]
  BY DEF PageSound, IsPage

LEMMA ListArrivesStep ==
  ASSUME AuditInv, NEW r \in request, ListArrives(r)
  PROVE  AuditInv'
<1>1. OverlaySound /\ RequestsSound /\ PageSound
  BY DEF AuditInv
<1>2. /\ request' = request \ {r} /\ UNCHANGED <<overlay, clock, sub, unsure>>
      /\ r.items # None /\ r.states # None
  BY DEF ListArrives, Answered
<1>3. Known
  BY <1>2 DEF Known, Quiet
<1>4. CASE r.load # page.load
  <2>1. page' = page
    BY <1>4 DEF ListArrives, IsCurrent
  <2>2. OverlaySound' /\ Spared' /\ Grows /\ \A d : SubmissionSound(d) => SubmissionSound(d)'
    BY <1>2, <2>1, OverlayStands
  <2>3. Query(page)' = Query(page)
    BY <2>1
  <2>4. RequestsSound'
    BY <1>1, <1>2, <1>3, <2>1, <2>2, <2>3, RequestsStand
  <2>5. PageSound'
    BY <1>1, <1>3, <2>1, <2>2, <2>3, PageStands DEF PageSound
  <2> QED
    BY <1>2, <2>2, <2>4, <2>5 DEF AuditInv
<1>5. CASE r.load = page.load
  <2>1. PICK busy : busy = (page.route = "risk" /\ page.busy)
    OBVIOUS
  <2>2. page' = [page EXCEPT !.list = r, !.busy = busy]
    BY <1>5, <2>1 DEF ListArrives, IsCurrent
  <2>3. page' = [route |-> page.route, view |-> page.view, decision |-> page.decision,
                 offset |-> page.offset, load |-> page.load, list |-> r,
                 selected |-> page.selected, confirm |-> page.confirm, busy |-> busy]
    BY <1>1, <2>2, PageRecord
  <2>4. /\ page'.route = page.route /\ page'.load = page.load /\ page'.list = r
        /\ page'.selected = page.selected /\ Query(page)' = Query(page) /\ IsPage(page')
    BY <1>1, <2>3 DEF PageSound, IsPage, Query
  <2>5. OverlaySound' /\ Spared' /\ Grows /\ \A d : SubmissionSound(d) => SubmissionSound(d)'
    BY <1>2, <2>4, OverlayStands
  <2>6. /\ IsRequest(r) /\ ListSound(r) /\ Fresh(r) /\ r.query = Query(page)
        /\ page.list = None /\ \A k \in request : k.load = page.load => k = r
    BY <1>1, <1>2, <1>5 DEF RequestsSound
  <2>7. ~\E k \in request' : k.load = page.load
    BY <1>2, <2>6
  <2>8. RequestsSound'
    BY <1>1, <1>2, <1>3, <2>4, <2>5, <2>7, RequestsStand
  <2>9. page.selected = {}
    BY <1>1, <2>6 DEF PageSound
  <2>10. ListSound(r)' /\ Fresh(r)'
    BY <1>1, <1>3, <2>5, <2>6, ListsGrow, FreshStands
  <2>11. ListSound(page.list)' /\ Fresh(page.list)'
    BY <2>4, <2>10 DEF ListSound, Fresh, Quiet, Lands, Decidable
  <2>12. PageSound'
    BY <2>4, <2>6, <2>9, <2>11 DEF PageSound, IsPage, IsRequest
  <2> QED
    BY <1>2, <2>5, <2>8, <2>12 DEF AuditInv
<1> QED
  BY <1>4, <1>5

(* The page keeps its list, its choices and its ticks.                     *)
LEMMA PageKept ==
  ASSUME AuditInv, UNCHANGED <<overlay, clock>>, request' \subseteq request, Known,
         NEW selected, NEW confirm \in Verdict \cup {None}, NEW busy,
         page' = [page EXCEPT !.selected = selected, !.confirm = confirm, !.busy = busy],
         selected # {} => page.list # None /\ selected \subseteq Offered(page.list),
         \A d \in sub' : SubmissionSound(d)
  PROVE  AuditInv'
<1>1. OverlaySound /\ RequestsSound /\ PageSound
  BY DEF AuditInv
<1>2. page' = [route |-> page.route, view |-> page.view, decision |-> page.decision,
               offset |-> page.offset, load |-> page.load, list |-> page.list,
               selected |-> selected, confirm |-> confirm, busy |-> busy]
  BY <1>1, PageRecord
<1>3. /\ page'.route = page.route /\ page'.load = page.load /\ page'.list = page.list
      /\ page'.selected = selected /\ Query(page)' = Query(page) /\ IsPage(page')
  BY <1>1, <1>2 DEF PageSound, IsPage, Query
<1>4. OverlaySound' /\ Spared' /\ Grows /\ \A d : SubmissionSound(d) => SubmissionSound(d)'
  BY <1>3, OverlayStands
<1>5. RequestsSound'
  BY <1>1, <1>3, <1>4, RequestsStand
<1>6. PageSound'
  BY <1>1, <1>3, <1>4, PageStands
<1> QED
  BY <1>4, <1>5, <1>6 DEF AuditInv

LEMMA ListFailsStep ==
  ASSUME AuditInv, NEW r \in request, ListFails(r)
  PROVE  AuditInv'
<1>1. PICK busy : busy = IF r.load # page.load THEN page.busy
                         ELSE (page.route = "risk" /\ page.busy)
  OBVIOUS
<1>2. request' \subseteq request /\ UNCHANGED <<overlay, clock, sub, unsure>>
  BY DEF ListFails
<1>3. page' = [page EXCEPT !.selected = page.selected, !.confirm = page.confirm, !.busy = busy]
  <2>1. page' = IF r.load # page.load THEN page ELSE [page EXCEPT !.busy = busy]
    BY <1>1 DEF ListFails, IsCurrent
  <2> QED
    BY <1>1, <2>1, PageRecord DEF AuditInv
<1>4. /\ page.confirm \in Verdict \cup {None}
      /\ page.selected # {} => page.list # None /\ page.selected \subseteq Offered(page.list)
  BY DEF AuditInv, PageSound, IsPage
<1>5. Known
  BY <1>2 DEF Known, Quiet
<1>6. \A d \in sub' : SubmissionSound(d)
  BY <1>2 DEF AuditInv
<1> QED
  BY <1>2, <1>3, <1>4, <1>5, <1>6, PageKept

-----------------------------------------------------------------------------
(* The reader.                                                             *)

LEMMA TicksOffered ==
  ASSUME PageSound, page.list # None
  PROVE  /\ page.list.ticks \subseteq Members(page.list.items)
         /\ page.list.ticks \subseteq Offered(page.list)
  BY DEF PageSound, ListSound, Offered

LEMMA ReaderTicks ==
  ASSUME AuditInv, Tick \/ TickAll \/ Ask \/ Dismiss
  PROVE  AuditInv'
<1>1. PageSound /\ page.confirm \in Verdict \cup {None}
  BY DEF AuditInv, PageSound, IsPage
<1>2. UNCHANGED <<overlay, clock, request, sub, unsure>>
  BY DEF Tick, TickAll, Ask, Dismiss
<1>3. Known /\ \A d \in sub' : SubmissionSound(d)
  BY <1>2 DEF Known, Quiet, AuditInv
<1>4. page.selected # {} => page.list # None /\ page.selected \subseteq Offered(page.list)
  BY <1>1 DEF PageSound
<1>5. CASE Tick
  <2>1. PICK s \in page.list.ticks :
          page' = [page EXCEPT !.selected = (@ \ {s}) \cup ({s} \ @)]
    BY <1>5 DEF Tick
  <2>2. PICK selected : selected = (page.selected \ {s}) \cup ({s} \ page.selected)
    OBVIOUS
  <2>3. page.list # None /\ selected \subseteq Offered(page.list)
    BY <1>1, <1>4, <1>5, <2>2, TicksOffered DEF Tick
  <2>4. page' = [page EXCEPT !.selected = selected, !.confirm = page.confirm, !.busy = page.busy]
    BY <1>1, <2>1, <2>2, PageRecord
  <2> QED
    BY <1>1, <1>2, <1>3, <2>3, <2>4, PageKept
<1>6. CASE TickAll
  <2>1. PICK selected : selected = IF page.route = "duplicates"
                                   THEN UNION {g \ {Representative(g)} : g \in ToSet(page.list.items)}
                                   ELSE page.list.ticks
    OBVIOUS
  <2>2. page.list # None /\ selected \subseteq Offered(page.list)
    <3>1. page.list # None
      BY <1>6 DEF TickAll
    <3>2. CASE page.route = "duplicates"
      BY <2>1, <3>1, <3>2 DEF Offered, Members
    <3>3. CASE page.route # "duplicates"
      BY <2>1, <3>1, <3>3 DEF Offered
    <3> QED
      BY <3>1, <3>2, <3>3
  <2>3. page' = [page EXCEPT !.selected = selected]
    BY <1>6, <2>1 DEF TickAll
  <2>4. page' = [page EXCEPT !.selected = selected, !.confirm = page.confirm, !.busy = page.busy]
    BY <1>1, <2>3, PageRecord
  <2> QED
    BY <1>1, <1>2, <1>3, <2>2, <2>4, PageKept
<1>7. CASE Ask \/ Dismiss
  <2>1. PICK confirm \in Verdict \cup {None} : page' = [page EXCEPT !.confirm = confirm]
    BY <1>7 DEF Ask, Dismiss
  <2>2. page' = [page EXCEPT !.selected = page.selected, !.confirm = confirm, !.busy = page.busy]
    BY <1>1, <2>1, PageRecord
  <2> QED
    BY <1>1, <1>2, <1>3, <1>4, <2>2, PageKept
<1> QED
  BY <1>5, <1>6, <1>7

(* What the page may send: the server will take it, and no group of        *)
(* duplicates loses its last member by it.                                 *)
LEMMA DecideSound ==
  ASSUME AuditInv, Decide,
         NEW d, d = [view |-> page.view, samples |-> page.selected, decision |-> page.confirm,
                     seen |-> page.list.seen, load |-> page.load, pc |-> "sent", accepted |-> {}]
  PROVE  SubmissionSound(d)
<1>1. OverlaySound /\ PageSound /\ page.view \in ViewsOf(page.route) /\ page.route \in Route
      /\ page.confirm \in Verdict
  BY DEF AuditInv, PageSound, IsPage, Decide, Free
<1>2. PICK l : l = page.list
  OBVIOUS
<1>3. page.list # None /\ page.selected \subseteq Offered(l)
  BY <1>1, <1>2 DEF Decide, PageSound
<1>4. IsRequest(l) /\ l.query = Query(page) /\ ListSound(l)
  BY <1>1, <1>2, <1>3 DEF PageSound
<1>5. PICK view \in View : view = page.view
  BY <1>1, ViewOfRoute
<1>6. l.query.view = view
  BY <1>4, <1>5 DEF Query
<1>7. l.items \in Seq(ToSet(Items[view])) /\ l.ticks \subseteq Members(l.items)
  BY <1>4, <1>6 DEF ListSound
<1>8. /\ Members(l.items) \subseteq Sample
      /\ view \in Duplicates => Members(l.items) \subseteq Automatic[view]
      /\ \A g \in ToSet(l.items) : g \in ToSet(Items[view])
  BY <1>7, MembersSound
<1>9. page.selected \subseteq Members(l.items)
  BY <1>3, <1>7 DEF Offered
<1>10. view \in Duplicates <=> page.route = "duplicates"
  BY <1>1, <1>5 DEF ViewsOf, Duplicates, Route
<1>11. ASSUME NEW s \in page.selected PROVE Lands(view, s, l.seen)
  <2>1. CASE view \in Duplicates
    <3>1. s \in Automatic[view]
      BY <1>8, <1>9, <1>11, <2>1
    <3> QED
      BY <2>1, <3>1 DEF Lands, Decidable, Duplicates
  <2>2. CASE view \notin Duplicates
    <3>1. s \in l.ticks
      BY <1>3, <1>10, <1>11, <2>2 DEF Offered
    <3> QED
      BY <1>4, <1>6, <3>1 DEF ListSound
  <2> QED
    BY <2>1, <2>2
<1>12. ASSUME view \in Duplicates, page.confirm = "approved_exclude",
              NEW g \in ToSet(Items[view]), g \cap page.selected # {}
       PROVE  \E o \in g \ page.selected : NotExcluded(o, l.seen)
  <2>1. PICK s : s \in g /\ s \in page.selected
    BY <1>12
  <2>2. PICK h \in ToSet(l.items) : s \in h
    BY <1>9, <2>1 DEF Members
  <2>3. g = h
    <3>1. h \in ToSet(Items[view]) /\ g \cap h # {}
      BY <1>8, <2>1, <2>2
    <3> QED
      BY <1>12, <3>1, AuditAssumption DEF Duplicates
  <2>4. FullyExcluded(page) = {}
    BY <1>10, <1>12 DEF Decide, Stopped
  <2>5. PICK o \in g : o \notin page.selected /\ page.list.states[o] # "approved_exclude"
    BY <1>2, <2>2, <2>3, <2>4 DEF FullyExcluded
  <2>6. o \in Members(l.items) /\ o \in Sample
    BY <1>8, <2>2, <2>3, <2>5 DEF Members
  <2>7. view # "risk" /\ view # "style"
    BY <1>12 DEF Duplicates
  <2>8. o \in DOMAIN l.states /\ (overlay[o].at <= l.seen => l.states[o] = ShownVerdict(view, o))
    BY <1>4, <1>6, <2>6, <2>7 DEF ListSound
  <2>9. overlay[o].at <= l.seen => overlay[o].decision # "approved_exclude"
    BY <1>2, <2>5, <2>7, <2>8 DEF ShownVerdict
  <2> QED
    BY <2>5, <2>9 DEF NotExcluded
<1>13. IsSubmission(d) /\ d.view = view /\ d.samples = page.selected /\ d.seen = l.seen
       /\ d.decision = page.confirm /\ d.pc = "sent"
  BY <1>1, <1>2, <1>5, <1>8, <1>9 DEF IsSubmission
<1>14. d.seen \in Nat /\ d.seen <= clock /\ d.view \in ViewsOf(page.route)
  BY <1>1, <1>4, <1>5, <1>13 DEF ListSound
<1> QED
  BY <1>11, <1>12, <1>13, <1>14 DEF SubmissionSound

LEMMA DecideStep ==
  ASSUME AuditInv, Decide
  PROVE  AuditInv'
<1>1. PageSound /\ page.confirm \in Verdict \cup {None}
  BY DEF AuditInv, PageSound, IsPage
<1>2. PICK d : d = [view |-> page.view, samples |-> page.selected, decision |-> page.confirm,
                    seen |-> page.list.seen, load |-> page.load, pc |-> "sent", accepted |-> {}]
  OBVIOUS
<1>3. sub' = sub \cup {d} /\ UNCHANGED <<overlay, clock, request, unsure>>
  BY <1>2 DEF Decide
<1>4. page' = [page EXCEPT !.selected = page.selected, !.confirm = page.confirm, !.busy = TRUE]
  BY <1>1, PageRecord DEF Decide
<1>5. Known
  BY <1>3 DEF Known, Quiet
<1>6. \A e \in sub' : SubmissionSound(e)
  BY <1>2, <1>3, DecideSound DEF AuditInv
<1>7. page.selected # {} => page.list # None /\ page.selected \subseteq Offered(page.list)
  BY <1>1 DEF PageSound
<1> QED
  BY <1>1, <1>3, <1>4, <1>5, <1>6, <1>7, PageKept

LEMMA DecisionFailsStep ==
  ASSUME AuditInv, NEW d \in sub, DecisionFails(d)
  PROVE  AuditInv'
<1>1. PageSound /\ page.confirm \in Verdict \cup {None}
  BY DEF AuditInv, PageSound, IsPage
<1>2. sub' = sub \ {d} /\ UNCHANGED <<overlay, clock, request>>
      /\ unsure' = (unsure \/ d.pc = "done")
  BY DEF DecisionFails
<1>3. page' = [page EXCEPT !.selected = page.selected, !.confirm = page.confirm, !.busy = FALSE]
  BY <1>1, PageRecord DEF DecisionFails
<1>4. Known
  <2>1. d.pc \in {"sent", "done"}
    BY DEF AuditInv, SubmissionSound, IsSubmission
  <2> QED
    BY <1>2, <2>1 DEF Known, Quiet
<1>5. \A e \in sub' : SubmissionSound(e)
  BY <1>2 DEF AuditInv
<1>6. page.selected # {} => page.list # None /\ page.selected \subseteq Offered(page.list)
  BY <1>1 DEF PageSound
<1> QED
  BY <1>1, <1>2, <1>3, <1>4, <1>5, <1>6, PageKept

(* The page asks anew: no answer under way is for what it asks now.        *)
LEMMA AskedAnew ==
  ASSUME AuditInv, NEW p, IsPage(p), p.route = page.route, p.load = page.load,
         p.selected = {}, UNCHANGED <<overlay, clock>>, sub' \subseteq sub,
         page' = Asking(p), request' = request \cup {Call(Asking(p))}
  PROVE  AuditInv'
<1>1. OverlaySound /\ RequestsSound /\ PageSound /\ page.load \in Nat /\ page.route \in Route
  BY DEF AuditInv, PageSound, IsPage
<1>2. PICK busy : busy = IF p.route = "risk" THEN p.busy ELSE TRUE
  OBVIOUS
<1>3. page' = [route |-> p.route, view |-> p.view, decision |-> p.decision, offset |-> p.offset,
               load |-> page.load + 1, list |-> None, selected |-> {}, confirm |-> p.confirm,
               busy |-> busy]
  <2>1. page' = [p EXCEPT !.load = page.load + 1, !.list = None, !.busy = busy, !.selected = {}]
    BY <1>2 DEF Asking
  <2> QED
    BY <2>1 DEF IsPage
<1>4. /\ IsPage(page') /\ page'.route = page.route /\ page'.load = page.load + 1
      /\ page'.list = None /\ page'.selected = {}
      /\ page'.view \in View /\ page'.offset \in Nat
  <2>1. p.view \in View /\ p.offset \in Nat
    BY <1>1, ViewOfRoute, OffsetsSound DEF IsPage
  <2> QED
    BY <1>1, <1>3, <2>1 DEF IsPage
<1>5. OverlaySound' /\ Spared' /\ Grows /\ \A d : SubmissionSound(d) => SubmissionSound(d)'
  BY <1>4, OverlayStands
<1>6. PICK c : c = Call(page')
  OBVIOUS
<1>7. request' = request \cup {c}
  BY <1>6
<1>8. c = [load |-> page.load + 1, query |-> Query(page'), items |-> None, total |-> 0,
           ticks |-> {}, states |-> None, seen |-> 0]
  BY <1>4, <1>6 DEF Call
<1>9. IsRequest(c) /\ c.load = page'.load /\ c.query = Query(page') /\ c.items = None
      /\ c.states = None
  <2>1. Query(page').view \in View /\ Query(page').offset \in Nat
    BY <1>4 DEF Query
  <2> QED
    BY <1>1, <1>4, <1>8, <2>1 DEF IsRequest
<1>10. ASSUME NEW r \in request
       PROVE  IsRequest(r) /\ r.load <= page'.load /\ r.load # page'.load
              /\ (r.items # None => ListSound(r)')
  <2>1. IsRequest(r) /\ r.load <= page.load /\ (r.items # None => ListSound(r))
    BY <1>1 DEF RequestsSound
  <2>2. r.load \in Nat
    BY <2>1 DEF IsRequest
  <2>3. r.items # None => ListSound(r)'
    BY <1>1, <1>5, <2>1, ListsGrow
  <2> QED
    BY <1>1, <1>4, <2>1, <2>2, <2>3
<1>11. RequestsSound'
  <2>1. SUFFICES ASSUME NEW r \in request'
                 PROVE  /\ IsRequest(r) /\ r.load <= page'.load
                        /\ r.items # None => ListSound(r)'
                        /\ r.load = page'.load =>
                             /\ r.query = Query(page)' /\ page'.list = None
                             /\ r.states # None => Fresh(r)'
                             /\ \A k \in request' : k.load = page'.load => k = r
    BY DEF RequestsSound, IsRequest
  <2>2. Query(page)' = Query(page')
    BY DEF Query
  <2>3. CASE r = c
    <3>1. \A k \in request' : k.load = page'.load => k = r
      BY <1>7, <1>10, <2>3
    <3>2. r.load <= page'.load
      BY <1>1, <1>4, <1>9, <2>3
    <3> QED
      BY <1>4, <1>9, <2>2, <2>3, <3>1, <3>2
  <2>4. CASE r # c
    BY <1>7, <1>10, <2>1, <2>4
  <2> QED
    BY <2>3, <2>4
<1>12. PageSound'
  BY <1>4 DEF PageSound, IsPage
<1> QED
  BY <1>5, <1>11, <1>12 DEF AuditInv

LEMMA ChooseStep ==
  ASSUME AuditInv, Choose \/ TurnPage
  PROVE  AuditInv'
<1>1. PageSound /\ IsPage(page) /\ page.route \in Route /\ page.offset \in Offsets
  BY DEF AuditInv, PageSound, IsPage
<1>2. UNCHANGED <<overlay, clock, sub>>
  BY DEF Choose, TurnPage
<1>3. ASSUME NEW view \in ViewsOf(page.route), NEW decision, NEW offset \in Offsets, NEW p,
             p = [route |-> page.route, view |-> view, decision |-> decision,
                  offset |-> offset, load |-> page.load, list |-> page.list, selected |-> {},
                  confirm |-> page.confirm, busy |-> page.busy],
             Reload(p)
      PROVE  AuditInv'
  <2>1. IsPage(p) /\ p.route = page.route /\ p.load = page.load /\ p.selected = {}
    BY <1>1, <1>3 DEF IsPage
  <2>2. page' = Asking(p) /\ request' = request \cup {Call(Asking(p))}
    BY <1>3 DEF Reload
  <2> QED
    BY <1>2, <2>1, <2>2, AskedAnew
<1>4. CASE Choose
  <2>1. PICK view \in ViewsOf(page.route), d \in Asked :
          Reload([page EXCEPT !.view = view, !.decision = d, !.offset = 0, !.selected = {}])
    BY <1>4 DEF Choose
  <2>2. PICK p : p = [page EXCEPT !.view = view, !.decision = d, !.offset = 0, !.selected = {}]
    OBVIOUS
  <2>3. p = [route |-> page.route, view |-> view, decision |-> d, offset |-> 0,
             load |-> page.load, list |-> page.list, selected |-> {},
             confirm |-> page.confirm, busy |-> page.busy]
    BY <1>1, <2>2, PageRecord
  <2>4. 0 \in Offsets /\ Reload(p)
    BY <2>1, <2>2, OffsetsSound
  <2> QED
    BY <1>3, <2>3, <2>4
<1>5. CASE TurnPage
  <2>1. \E o \in Offsets : Reload([page EXCEPT !.offset = o, !.selected = {}])
    <3>1. CASE Reload([page EXCEPT !.offset = @ + PageSize, !.selected = {}])
      BY <1>1, <3>1, OffsetsSound
    <3>2. CASE page.offset > 0 /\ Reload([page EXCEPT !.offset = @ - PageSize, !.selected = {}])
      BY <1>1, <3>2, OffsetsSound
    <3> QED
      BY <1>5, <3>1, <3>2 DEF TurnPage
  <2>2. PICK o \in Offsets : Reload([page EXCEPT !.offset = o, !.selected = {}])
    BY <2>1
  <2>3. PICK p : p = [page EXCEPT !.offset = o, !.selected = {}]
    OBVIOUS
  <2>4. p = [route |-> page.route, view |-> page.view, decision |-> page.decision,
             offset |-> o, load |-> page.load, list |-> page.list, selected |-> {},
             confirm |-> page.confirm, busy |-> page.busy]
    BY <1>1, <2>3, PageRecord
  <2>5. page.view \in ViewsOf(page.route) /\ Reload(p)
    BY <1>1, <2>2, <2>3 DEF IsPage
  <2> QED
    BY <1>3, <2>4, <2>5
<1> QED
  BY <1>4, <1>5

LEMMA DecisionAnsweredStep ==
  ASSUME AuditInv, NEW d \in sub, DecisionAnswered(d)
  PROVE  AuditInv'
<1>1. PageSound /\ IsPage(page) /\ page.load \in Nat
  BY DEF AuditInv, PageSound, IsPage
<1>2. PICK p : p = [page EXCEPT !.selected = {}, !.confirm = None, !.busy = FALSE]
  OBVIOUS
<1>3. p = [route |-> page.route, view |-> page.view, decision |-> page.decision,
           offset |-> page.offset, load |-> page.load, list |-> page.list, selected |-> {},
           confirm |-> None, busy |-> FALSE]
  BY <1>1, <1>2, PageRecord
<1>4. IsPage(p) /\ p.route = page.route /\ p.load = page.load /\ p.selected = {}
  BY <1>1, <1>3 DEF IsPage
<1>5. AfterDecision(page) = Asking(p)
  BY <1>2 DEF AfterDecision
<1>6. Asking(p).load = page.load + 1
  BY <1>3, <1>4 DEF Asking
<1>7. page' = Asking(p) /\ UNCHANGED <<overlay, clock>> /\ sub' \subseteq sub
  BY <1>5 DEF DecisionAnswered
<1>8. request' = request \cup {Call(Asking(p))}
  <2>1. Asking(p).load # page.load
    BY <1>1, <1>6
  <2> QED
    BY <1>5, <2>1 DEF DecisionAnswered
<1> QED
  BY <1>4, <1>7, <1>8, AskedAnew

-----------------------------------------------------------------------------
(* The server decides.                                                     *)

(* A row written by a decision, seen from the rules on lists and calls.    *)
LEMMA DecidedStep ==
  ASSUME AuditInv, OverlaySound', Grows, Known, Spared', UNCHANGED page,
         request' = request, \A d \in sub' : SubmissionSound(d)'
  PROVE  AuditInv'
<1>1. OverlaySound /\ RequestsSound /\ PageSound
  BY DEF AuditInv
<1>2. Query(page)' = Query(page)
  OBVIOUS
<1>3. RequestsSound'
  BY <1>1, <1>2, RequestsStand
<1>4. PageSound'
  BY <1>1, <1>2, PageStands DEF PageSound
<1> QED
  BY <1>3, <1>4 DEF AuditInv

LEMMA CommitStep ==
  ASSUME AuditInv, NEW d \in sub, CommitDecision(d)
  PROVE  AuditInv'
<1>1. OverlaySound /\ Spared /\ PageSound /\ SubmissionSound(d) /\ page.route \in Route
      /\ clock \in Nat
  BY DEF AuditInv, PageSound, IsPage, OverlaySound
<1>2. PICK accepted : accepted = {s \in d.samples : Decidable(d.view, s)}
  OBVIOUS
<1>3. PICK changed : changed = {s \in accepted : overlay[s].decision # d.decision}
  OBVIOUS
<1>4. /\ d.pc = "sent" /\ IsSubmission(d) /\ d.view \in ViewsOf(page.route)
      /\ d.seen \in Nat /\ d.seen <= clock /\ d.view \in View
      /\ changed \subseteq d.samples /\ d.samples \subseteq Sample /\ d.decision \in Verdict
  BY <1>1, <1>2, <1>3, ViewOfRoute DEF CommitDecision, SubmissionSound, IsSubmission
<1>5. PICK e : e = [d EXCEPT !.pc = "done", !.accepted = accepted]
  OBVIOUS
<1>6. /\ clock' = (IF changed = {} THEN clock ELSE clock + 1)
      /\ overlay' = [s \in Sample |->
           IF s \in changed THEN [category |-> d.view, decision |-> d.decision, at |-> clock',
                                  mine |-> TRUE, seen |-> d.seen]
                            ELSE overlay[s]]
      /\ sub' = (sub \ {d}) \cup {e} /\ UNCHANGED <<page, request, unsure>>
  BY <1>2, <1>3, <1>5 DEF CommitDecision
<1>7. /\ clock' \in Nat /\ clock <= clock'
      /\ changed # {} => clock < clock'
  BY <1>1, <1>6
<1>8. ASSUME NEW s \in Sample, s \notin changed PROVE overlay'[s] = overlay[s]
  BY <1>6, <1>8
<1>9. ASSUME NEW s \in changed
      PROVE  /\ overlay'[s] = [category |-> d.view, decision |-> d.decision, at |-> clock',
                                mine |-> TRUE, seen |-> d.seen]
             /\ s \in Sample /\ s \in d.samples
  BY <1>4, <1>6, <1>9
<1>10. \A s \in Sample : overlay[s] \in Row /\ overlay[s].at <= clock /\ overlay[s].seen <= clock
  BY <1>1 DEF OverlaySound
<1>11. Grows
  <2>1. \A s \in Sample : overlay'[s] \in Row
    <3>1. ASSUME NEW s \in changed PROVE overlay'[s] \in Row
      <4>1. ASSUME NEW v \in View, NEW verdict \in Verdict, NEW at \in Nat, NEW seen \in Nat
            PROVE  [category |-> v, decision |-> verdict, at |-> at, mine |-> TRUE,
                    seen |-> seen] \in Row
        BY DEF Row
      <4> QED
        BY <1>4, <1>7, <1>9, <3>1, <4>1
    <3> QED
      BY <1>8, <1>10, <3>1
  <2>2. overlay' \in [Sample -> Row]
    BY <1>6, <2>1
  <2>3. \A s \in Sample : overlay'[s] = overlay[s] \/ overlay'[s].at > clock
    <3>1. ASSUME NEW s \in changed PROVE overlay'[s].at > clock
      BY <1>1, <1>7, <1>9
    <3> QED
      BY <1>8, <3>1
  <2> QED
    BY <1>7, <2>2, <2>3 DEF Grows
<1>12. OverlaySound'
  <2>1. SUFFICES ASSUME NEW s \in Sample
                 PROVE  /\ overlay'[s].at <= clock' /\ overlay'[s].seen <= clock'
                        /\ overlay'[s].mine => overlay'[s].category \in ViewsOf(page.route)
    BY <1>6, <1>11 DEF OverlaySound, Grows
  <2>2. CASE s \in changed
    <3>1. /\ overlay'[s].at = clock' /\ overlay'[s].seen = d.seen
          /\ overlay'[s].category = d.view
      BY <1>9, <2>2
    <3> QED
      BY <1>1, <1>4, <1>7, <3>1
  <2>3. CASE s \notin changed
    <3>1. overlay'[s] = overlay[s] /\ overlay[s].at \in Nat /\ overlay[s].seen \in Nat
      BY <1>8, <1>10, <2>3 DEF Row
    <3> QED
      BY <1>1, <1>7, <3>1 DEF OverlaySound
  <2> QED
    BY <2>2, <2>3
<1>13. Spared'
  <2>1. SUFFICES ASSUME NEW v \in Duplicates, NEW g \in ToSet(Items[v]), NEW s \in g,
                        overlay'[s].mine, overlay'[s].category = v,
                        overlay'[s].decision = "approved_exclude"
                 PROVE  \E o \in g :
                          /\ overlay'[o].at # overlay'[s].at
                          /\ overlay'[o].at <= overlay'[s].seen =>
                               overlay'[o].decision # "approved_exclude"
    BY DEF Spared, NotExcluded
  <2>2. g \subseteq Sample
    BY AuditAssumption DEF ToSet, Duplicates, View
  <2>3. \A o \in g : overlay[o].at \in Nat /\ overlay[o].seen \in Nat
                     /\ overlay[o].at <= clock /\ overlay[o].seen <= clock
    BY <1>10, <2>2 DEF Row
  <2>4. CASE s \in changed
    <3>1. overlay'[s].at = clock' /\ overlay'[s].seen = d.seen /\ d.view = v
          /\ d.decision = "approved_exclude" /\ s \in d.samples /\ clock < clock'
      <4>1. PICK row : row = overlay'[s]
        OBVIOUS
      <4>2. row = [category |-> d.view, decision |-> d.decision, at |-> clock',
                   mine |-> TRUE, seen |-> d.seen]
        BY <1>9, <2>4, <4>1
      <4>3. row.at = clock' /\ row.seen = d.seen /\ row.category = d.view
            /\ row.decision = d.decision
        BY <4>2
      <4> QED
        BY <1>7, <1>9, <2>1, <2>4, <4>1, <4>3
    <3>2. PICK o \in g \ d.samples : NotExcluded(o, d.seen)
      BY <1>1, <1>4, <3>1 DEF SubmissionSound
    <3>3. overlay'[o] = overlay[o] /\ overlay[o].at # clock'
      BY <1>1, <1>4, <1>7, <1>8, <2>2, <2>3, <3>1, <3>2
    <3> QED
      BY <3>1, <3>2, <3>3 DEF NotExcluded
  <2>5. CASE s \notin changed
    <3>1. overlay'[s] = overlay[s]
      BY <1>8, <2>2, <2>5
    <3>2. PICK o \in g : overlay[o].at # overlay[s].at /\ NotExcluded(o, overlay[s].seen)
      BY <1>1, <2>1, <3>1 DEF Spared
    <3>3. CASE o \in changed
      <4>1. overlay'[o].at = clock' /\ clock < clock'
        BY <1>7, <1>9, <3>3
      <4>2. overlay'[o].at # overlay[s].at /\ ~(overlay'[o].at <= overlay[s].seen)
        BY <1>1, <1>7, <2>3, <4>1
      <4> QED
        BY <3>1, <4>2
    <3>4. CASE o \notin changed
      <4>1. overlay'[o] = overlay[o]
        BY <1>8, <2>2, <3>4
      <4> QED
        BY <3>1, <3>2, <4>1 DEF NotExcluded
    <3> QED
      BY <3>3, <3>4
  <2> QED
    BY <2>4, <2>5
<1>14. e = [view |-> d.view, samples |-> d.samples, decision |-> d.decision, seen |-> d.seen,
            load |-> d.load, pc |-> "done", accepted |-> accepted]
  BY <1>4, <1>5 DEF IsSubmission
<1>15. Known
  BY <1>6, <1>14 DEF Known, Quiet
<1>16. SubmissionSound(e)'
  <2>1. /\ IsSubmission(e) /\ e.view = d.view /\ e.seen = d.seen /\ e.pc = "done"
        /\ e.samples = d.samples /\ e.accepted = accepted
    BY <1>4, <1>14 DEF IsSubmission
  <2>2. ASSUME NEW s \in d.samples \ accepted
        PROVE  overlay'[s].at > d.seen \/ (d.view = "risk" /\ s \notin Automatic["risk"])
    <3>1. s \in Sample /\ s \notin changed /\ ~Decidable(d.view, s)
      BY <1>2, <1>3, <1>4, <2>2
    <3>2. Lands(d.view, s, d.seen)
      BY <1>1, <1>4, <2>2 DEF SubmissionSound
    <3> QED
      BY <1>8, <3>1, <3>2 DEF Lands
  <2>3. IsSubmission(e)' /\ e.view \in ViewsOf(page.route)' /\ e.seen <= clock'
    BY <1>1, <1>4, <1>6, <1>7, <2>1 DEF IsSubmission
  <2> QED
    BY <1>4, <2>1, <2>2, <2>3 DEF SubmissionSound
<1>17. ASSUME NEW f \in sub PROVE SubmissionSound(f)'
  BY <1>1, <1>6, <1>11, SubmissionsGrow DEF AuditInv
<1>18. \A f \in sub' : SubmissionSound(f)'
  BY <1>6, <1>16, <1>17
<1> QED
  BY <1>6, <1>11, <1>12, <1>13, <1>15, <1>18, DecidedStep

LEMMA ElsewhereStep ==
  ASSUME AuditInv, DecideElsewhere
  PROVE  AuditInv'
<1>1. OverlaySound /\ Spared /\ PageSound /\ page.route \in Route /\ clock \in Nat
  BY DEF AuditInv, PageSound, IsPage, OverlaySound
<1>2. PICK v \in {"style", "manual"}, d \in Verdict, s \in Sample :
        overlay' = [overlay EXCEPT ![s] = [NoRow EXCEPT !.category = v, !.decision = d,
                                                        !.at = clock + 1]]
  BY DEF DecideElsewhere
<1>3. clock' = clock + 1 /\ UNCHANGED <<page, request, sub, unsure>>
  BY DEF DecideElsewhere
<1>4. PICK row : row = [category |-> v, decision |-> d, at |-> clock + 1, mine |-> FALSE, seen |-> 0]
  OBVIOUS
<1>5. overlay' = [overlay EXCEPT ![s] = row]
  <2>1. ASSUME NEW e, NEW f, f = [e EXCEPT !.category = v, !.decision = d, !.at = clock + 1],
               e = [category |-> e.category, decision |-> e.decision, at |-> e.at,
                    mine |-> e.mine, seen |-> e.seen]
        PROVE  f = [category |-> v, decision |-> d, at |-> clock + 1, mine |-> e.mine,
                    seen |-> e.seen]
    BY <2>1
  <2>2. PICK e : e = NoRow
    OBVIOUS
  <2>3. /\ e = [category |-> e.category, decision |-> e.decision, at |-> e.at,
                mine |-> e.mine, seen |-> e.seen]
        /\ e.mine = FALSE /\ e.seen = 0
    BY <2>2 DEF NoRow
  <2>4. PICK f : f = [e EXCEPT !.category = v, !.decision = d, !.at = clock + 1]
    OBVIOUS
  <2>5. f = row
    BY <1>4, <2>1, <2>3, <2>4
  <2> QED
    BY <1>2, <2>2, <2>4, <2>5
<1>6. /\ overlay'[s] = row /\ \A o \in Sample : o # s => overlay'[o] = overlay[o]
      /\ row.at = clock + 1 /\ row.seen = 0 /\ row.mine = FALSE
  <2>1. row.at = clock + 1 /\ row.seen = 0 /\ row.mine = FALSE
    BY <1>4
  <2>2. overlay \in [Sample -> Row]
    BY <1>1 DEF OverlaySound
  <2> QED
    BY <1>5, <2>1, <2>2
<1>7. row \in Row
  BY <1>1, <1>4 DEF Row, View
<1>8. \A o \in Sample : /\ overlay[o].at \in Nat /\ overlay[o].at <= clock
                        /\ overlay[o].seen \in Nat /\ overlay[o].seen <= clock
  BY <1>1 DEF OverlaySound, Row
<1>9. Grows
  <2>1. overlay' \in [Sample -> Row] /\ clock' \in Nat /\ clock <= clock'
    BY <1>1, <1>3, <1>5, <1>7 DEF OverlaySound
  <2>2. \A o \in Sample : overlay'[o] = overlay[o] \/ overlay'[o].at > clock
    BY <1>1, <1>6
  <2> QED
    BY <2>1, <2>2 DEF Grows
<1>10. OverlaySound'
  <2>1. SUFFICES ASSUME NEW o \in Sample
                 PROVE  /\ overlay'[o].at <= clock' /\ overlay'[o].seen <= clock'
                        /\ overlay'[o].mine => overlay'[o].category \in ViewsOf(page.route)
    BY <1>3, <1>9 DEF OverlaySound, Grows
  <2>2. CASE o = s
    BY <1>1, <1>3, <1>6, <2>2
  <2>3. CASE o # s
    BY <1>1, <1>3, <1>6, <1>8, <2>3 DEF OverlaySound
  <2> QED
    BY <2>2, <2>3
<1>11. Spared'
  <2>1. SUFFICES ASSUME NEW w \in Duplicates, NEW g \in ToSet(Items[w]), NEW t \in g,
                        overlay'[t].mine, overlay'[t].category = w,
                        overlay'[t].decision = "approved_exclude"
                 PROVE  \E o \in g :
                          /\ overlay'[o].at # overlay'[t].at
                          /\ overlay'[o].at <= overlay'[t].seen =>
                               overlay'[o].decision # "approved_exclude"
    BY DEF Spared, NotExcluded
  <2>2. g \subseteq Sample
    BY AuditAssumption DEF ToSet, Duplicates, View
  <2>3. overlay'[t] = overlay[t]
    BY <1>6, <2>1, <2>2
  <2>4. PICK o \in g : overlay[o].at # overlay[t].at /\ NotExcluded(o, overlay[t].seen)
    BY <1>1, <2>1, <2>3 DEF Spared
  <2>5. CASE o = s
    <3>1. overlay'[o].at = clock + 1
      BY <1>6, <2>5
    <3>2. overlay'[o].at # overlay[t].at /\ ~(overlay'[o].at <= overlay[t].seen)
      BY <1>1, <1>8, <2>2, <3>1
    <3> QED
      BY <2>3, <3>2
  <2>6. CASE o # s
    <3>1. overlay'[o] = overlay[o]
      BY <1>6, <2>2, <2>6
    <3> QED
      BY <2>3, <2>4, <3>1 DEF NotExcluded
  <2> QED
    BY <2>5, <2>6
<1>12. Known
  BY <1>3, <1>6 DEF Known, Quiet
<1>13. \A e \in sub' : SubmissionSound(e)'
  BY <1>1, <1>3, <1>9, SubmissionsGrow DEF AuditInv
<1> QED
  BY <1>3, <1>9, <1>10, <1>11, <1>12, <1>13, DecidedStep

-----------------------------------------------------------------------------
LEMMA AuditInit ==
  ASSUME Init
  PROVE  AuditInv
<1>1. PICK route \in Opened, offset \in {0, PageSize} : page = Opening(route, offset)
  BY DEF Init
<1>2. overlay \in [Sample -> EarlierRow] /\ clock = 0 /\ request = {Call(page)} /\ sub = {}
      /\ unsure = FALSE /\ route \in Route /\ offset \in Offsets
  BY <1>1, AuditAssumption, OffsetsSound DEF Init
<1>3. \A e \in EarlierRow : e \in Row /\ e.at = 0 /\ e.seen = 0 /\ e.mine = FALSE
  <2>1. NoRow \in Row /\ NoRow.at = 0 /\ NoRow.seen = 0 /\ NoRow.mine = FALSE
    BY DEF NoRow, Row
  <2> QED
    BY <2>1 DEF EarlierRow, Row
<1>4. OverlaySound /\ Spared
  <2>1. \A s \in Sample : overlay[s] \in Row /\ overlay[s].at = 0 /\ overlay[s].seen = 0
                          /\ overlay[s].mine = FALSE
    BY <1>2, <1>3
  <2>2. overlay \in [Sample -> Row]
    BY <1>2, <2>1
  <2>3. OverlaySound
    BY <1>2, <2>1, <2>2 DEF OverlaySound
  <2>4. \A w \in Duplicates : \A g \in ToSet(Items[w]) : g \subseteq Sample
    BY AuditAssumption DEF ToSet, Duplicates, View
  <2> QED
    BY <2>1, <2>3, <2>4 DEF Spared
<1>5. PICK view \in ViewsOf(route) : view = CHOOSE v \in ViewsOf(route) : TRUE
  BY <1>2, ViewOfRoute
<1>6. PICK busy : busy = IF route = "risk" THEN FALSE ELSE TRUE
  OBVIOUS
<1>7. page = [route |-> route, view |-> view, decision |-> "all", offset |-> offset, load |-> 1,
              list |-> None, selected |-> {}, confirm |-> None, busy |-> busy]
  <2>1. PICK p : p = [route |-> route, view |-> view, decision |-> "all", offset |-> offset,
                      load |-> 0, list |-> None, selected |-> {}, confirm |-> None,
                      busy |-> FALSE]
    OBVIOUS
  <2>2. page = Asking(p)
    BY <1>1, <1>5, <2>1 DEF Opening
  <2>3. page = [p EXCEPT !.load = 1, !.list = None, !.busy = busy, !.selected = {}]
    BY <1>6, <2>1, <2>2 DEF Asking
  <2> QED
    BY <2>1, <2>3
<1>8. IsPage(page) /\ page.load = 1 /\ page.list = None /\ page.selected = {}
      /\ page.view \in View /\ page.offset \in Nat
  <2>1. page.route = route /\ page.view = view /\ page.offset = offset /\ page.load = 1
        /\ page.list = None /\ page.selected = {} /\ page.confirm = None
    BY <1>7
  <2>2. page.view \in View /\ page.offset \in Nat
    BY <1>2, <2>1, ViewOfRoute, OffsetsSound
  <2> QED
    BY <1>2, <1>7, <2>1, <2>2 DEF IsPage
<1>9. PageSound
  BY <1>8 DEF PageSound
<1>10. PICK c : c = Call(page)
  OBVIOUS
<1>11. c = [load |-> 1, query |-> Query(page), items |-> None, total |-> 0, ticks |-> {},
            states |-> None, seen |-> 0]
  BY <1>8, <1>10 DEF Call
<1>12. IsRequest(c) /\ c.load = page.load /\ c.query = Query(page) /\ c.items = None
       /\ c.states = None
  <2>1. Query(page).view \in View /\ Query(page).offset \in Nat
    BY <1>8 DEF Query
  <2> QED
    BY <1>8, <1>11, <2>1 DEF IsRequest
<1>13. RequestsSound
  BY <1>2, <1>8, <1>10, <1>12 DEF RequestsSound
<1> QED
  BY <1>2, <1>4, <1>9, <1>13 DEF AuditInv

LEMMA AuditNext ==
  ASSUME AuditInv, [Next]_auditvars
  PROVE  AuditInv'
<1>1. CASE ServerStep
  BY <1>1, ServeListStep, ServeStatesStep, CommitStep, ElsewhereStep DEF ServerStep
<1>2. CASE AnswerStep
  BY <1>2, ListArrivesStep, ListFailsStep, DecisionAnsweredStep, DecisionFailsStep DEF AnswerStep
<1>3. CASE ReaderStep
  BY <1>3, ChooseStep, ReaderTicks, DecideStep DEF ReaderStep
<1>4. CASE UNCHANGED auditvars
  <2>1. UNCHANGED <<overlay, clock, page, request, sub, unsure>>
    BY <1>4 DEF auditvars
  <2>2. Known /\ Grows /\ OverlaySound' /\ Spared'
    BY <2>1, OverlayStands DEF Known, Quiet
  <2>3. \A d \in sub' : SubmissionSound(d)'
    BY <2>1, OverlayStands DEF AuditInv
  <2> QED
    BY <2>1, <2>2, <2>3, DecidedStep
<1> QED
  BY <1>1, <1>2, <1>3, <1>4 DEF Next

LEMMA AuditInvariant == AuditSpec => []AuditInv
<1>1. Init => AuditInv
  BY AuditInit
<1>2. AuditInv /\ [Next]_auditvars => AuditInv'
  BY AuditNext
<1> QED
  BY <1>1, <1>2, PTL DEF AuditSpec

(* Calls of a page are canceled by number, and none outlives the query it  *)
(* was made for; what the answer does not know of the page's own decisions *)
(* is asked for again when they are answered.                              *)
THEOREM PageShowsItsDecisions == AuditSpec => []ShownIsCurrent
<1>1. AuditInv => ShownIsCurrent
  <2>1. SUFFICES ASSUME AuditInv, page.list # None
                 PROVE  /\ page.list.query = Query(page)
                        /\ (~unsure /\ sub = {}) =>
                             \A s \in Sample :
                               s \in DOMAIN page.list.states /\ overlay[s].mine =>
                                 page.list.states[s] = overlay[s].decision
    BY DEF ShownIsCurrent
  <2>2. page.list.query = Query(page) /\ Fresh(page.list)
    BY <2>1 DEF AuditInv, PageSound
  <2> QED
    BY <2>2 DEF Fresh, Quiet
<1> QED
  BY <1>1, AuditInvariant, PTL

(* The guard of the duplicates page looks at a list that may be old: each  *)
(* decision it lets through leaves out a member of every group it touches  *)
(* that the list did not show as excluded, so a group can only lose its    *)
(* last member through a decision made after the list was read.            *)
THEOREM GroupsKeepOne == AuditSpec => []KeepsOne
<1>1. AuditInv => KeepsOne
  <2>1. SUFFICES ASSUME AuditInv, NEW v \in {"exact", "visual"}, NEW g \in ToSet(Items[v]),
                        \A s \in g : overlay[s].decision = "approved_exclude",
                        NEW s \in g, overlay[s].mine, overlay[s].category = v,
                        \A o \in g : overlay[o].at <= overlay[s].at
                 PROVE  \E o \in g : overlay[s].seen < overlay[o].at
                                    /\ overlay[o].at < overlay[s].at
    BY DEF KeepsOne
  <2>2. g \subseteq Sample
    BY AuditAssumption DEF ToSet, View
  <2>3. \A o \in g : overlay[o].at \in Nat /\ overlay[o].seen \in Nat
    BY <2>1, <2>2 DEF AuditInv, OverlaySound, Row
  <2>4. PICK o \in g : overlay[o].at # overlay[s].at /\ NotExcluded(o, overlay[s].seen)
    BY <2>1 DEF AuditInv, Spared, Duplicates
  <2>5. ~(overlay[o].at <= overlay[s].seen)
    BY <2>1, <2>4 DEF NotExcluded
  <2>6. overlay[s].seen < overlay[o].at /\ overlay[o].at < overlay[s].at
    BY <2>1, <2>3, <2>4, <2>5
  <2> QED
    BY <2>6
<1> QED
  BY <1>1, AuditInvariant, PTL

(* The rows a page offers for ticking are rows the server decides on, and  *)
(* stay so until another decision changes them.                            *)
THEOREM TickedRowsLand == AuditSpec => []SubmissionsLand
<1>1. AuditInv => SubmissionsLand
  BY DEF AuditInv, SubmissionSound, SubmissionsLand
<1> QED
  BY <1>1, AuditInvariant, PTL
=============================================================================
