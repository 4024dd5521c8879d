---------------------------- MODULE AnalysisProofs ----------------------------
(***************************************************************************)
(* The rows of an analysis, for any files, workers, configs and upsets: a  *)
(* task fails only for a reason its user can see or one of four the code   *)
(* cannot tell from damage, and a completed component leaves the rows of   *)
(* its config and no other.                                                *)
(***************************************************************************)
EXTENDS AnalysisPipeline, FiniteSetTheorems, TLAPS

-----------------------------------------------------------------------------
(* Types.                                                                  *)

Place == {"idle", "begin", "pass", "list", "work", "write", "commit", "finish"}

State == {"none", "missing", "valid", "decode_error", "source_changed"}

MemRow == [pc : Place, part : Part, config : Config \cup {None},
           units : SUBSET (0..NFiles), next : Nat, at : Nat,
           seen : [File -> State \cup Worker \cup {None}],
           list : Manifest \cup Worker \cup {None}]

SampleRow == [state : State, listed : Nat, judged : SUBSET Config,
              metrics : Config \cup {None}]

MemTyped ==
  /\ mem \in [Worker -> MemRow]
  /\ \A w \in Worker :
       mem[w].part = "sae" /\ mem[w].pc \in {"work", "write"}
         => mem[w].config \in Config /\ ckpt[mem[w].config]["embed"] # None

RowsTyped ==
  /\ task \in [status : {"queued", "working", "pausing", "paused", "review", "failed"},
               phase : Phase \cup {"evidence_review"}, config : Config]
  /\ task.phase = "evidence_review" => task.status \in {"review", "failed"}
  /\ holder \in Worker \cup {None}
  /\ DOMAIN ckpt = Config
  /\ \A c \in Config : /\ DOMAIN ckpt[c] = Part
                       /\ \A p \in Part : ckpt[c][p] \in CursorRow(p) \cup {None}
  /\ tree \in [File -> Nat]
  /\ rows \in [File -> SampleRow]
  /\ hist \in [upsets : Nat, causes : SUBSET {"returned", "missed", "refused", "clobbered"},
               last : [Phase -> Config \cup {None}]]

DiskTyped ==
  /\ disk \in [manifest : [Config -> Manifest \cup {None}], clip : Hashes, embed : Hashes,
               sae : [SUBSET File -> Worker \cup {None}]]
  /\ DOMAIN found = DOMAIN NothingFound
  /\ found.scores \in [File -> Config \cup {None}]
  /\ found.style \in [File -> Config \cup {None}]
  /\ found.shards \in Hashes
  /\ found.codes \in [SUBSET File -> Worker \cup {None}]
  /\ found.nodes \in [0..NFiles -> Config \cup {None}]
  /\ DOMAIN found.manifests = Config

-----------------------------------------------------------------------------
(* The cursors.                                                            *)

(* The first n of a set of files, and those between two positions.         *)
Done(S, n) == {Nth(S, k) : k \in 1..n}

Between(S, m, n) == {Nth(S, k) : k \in m + 1 .. n}

Complete(c, p) == ckpt[c][p] # None /\ ckpt[c][p].complete

(* What a component works through: with the rows as they are for c.        *)
Listed(m) == {f \in File : m.list[f] # 0}

SamplesOf(c) ==
  IF Settings[c].scope = "artist" THEN {f \in Scopes : f \in Settings[found.style[f]].core}
  ELSE Scopes

UnitsOf(c, p) ==
  CASE p \in {"clip", "score"} -> Inputs
    [] p = "style" -> Scopes
    [] p = "embed" -> SamplesOf(c)
    [] p = "sae"   -> IF SamplesOf(c) = {} THEN {} ELSE {0}
    [] p = "group" -> IF Settings[c].scope \in {"artist", "concept"} \/ SamplesOf(c) = {}
                       THEN SamplesOf(c) ELSE {0}
    [] p = "scan"  -> Listed(ckpt[c]["scan"].sha)

(* The components before one of the same phase have been completed.        *)
Supported(c, p) ==
  /\ p = "score" => Complete(c, "clip")
  /\ p \in {"sae", "group"} => Complete(c, "embed")
  /\ p = "group" /\ "sae" \in Settings[c].parts => Complete(c, "sae")

(* A cursor is for the files the rows give, counts right, and is complete  *)
(* only with the rows of others deleted.                                   *)
CursorSound(c, p) ==
  LET k == ckpt[c][p] IN
    k # None =>
      /\ k.units = UnitsOf(c, p)
      /\ k.next <= Cardinality(k.units)
      /\ k.complete <=> k.next = Cardinality(k.units)
      /\ p = "clip" => \A f \in Done(k.units, k.next) : k.sha[f] # None
      /\ p \in {"scan", "score"} => k.prepared
      /\ p \in {"style", "group"} => k.prepared \/ (k.next = 0 /\ ~k.complete)
      /\ Supported(c, p)

CursorsSound == \A c \in Config, p \in Part : CursorSound(c, p)

(* Nothing has been done of the phases to come.                            *)
PhaseNo(ph) ==
  CASE ph = "scanning" -> 1 [] ph = "model_scoring" -> 2 [] ph = "style_analysis" -> 3
    [] ph = "semantic_clustering" -> 4 [] ph = "evidence_review" -> 5

NothingAhead ==
  /\ \A p \in Part : PhaseNo(PhaseOf[p]) > PhaseNo(task.phase)
       => \A c \in Config : ckpt[c][p] = None
  /\ \A ph \in Phase : PhaseNo(ph) > PhaseNo(task.phase) => hist.last[ph] = None

(* Whoever worked in a phase is known.                                     *)
LastKnown ==
  \A p \in Part : hist.last[PhaseOf[p]] = None => \A c \in Config : ckpt[c][p] = None

-----------------------------------------------------------------------------
(* The files on disk.                                                      *)

(* As long as nobody without the slot replaced a file, all that is         *)
(* registered is what is there.                                            *)
Clobbered == "clobbered" \in hist.causes

Vouched ==
  ~Clobbered =>
    /\ \A c \in Config : ckpt[c]["scan"] # None => SameManifest(c)
    /\ \A c \in Config, f \in File : ClipShas(c)[f] \in {None, disk.clip[f]}
    /\ \A f \in File : Intact(f)
    /\ \A S \in SUBSET File : found.codes[S] \in {None, disk.sae[S]}

(* Nobody has seen a version of a file that is still to come.              *)
NotNewer(list) == \A f \in File : tree[f] = 0 \/ list[f] <= tree[f]

VersionsSound ==
  /\ NotNewer([f \in File |-> rows[f].listed])
  /\ \A c \in Config : disk.manifest[c] # None => NotNewer(disk.manifest[c].list)
  /\ \A f \in File : rows[f].state = "valid" => rows[f].listed # 0

-----------------------------------------------------------------------------
(* The holder of the slot.                                                 *)

(* The units of the component it is in, and where its cursor says it is.   *)
Assigned(w) ==
  IF mem[w].part = "scan" THEN Listed(mem[w].list)
  ELSE UnitsOf(task.config, mem[w].part)

Reached(c, p) == IF ckpt[c][p] = None THEN 0 ELSE ckpt[c][p].next

Ready(w) ==
  /\ mem[w].part \in Settings[task.config].parts
  /\ Supported(task.config, mem[w].part)

(* In a component.                                                         *)
Positioned(w) ==
  LET c == task.config
      p == mem[w].part
  IN  /\ mem[w].config = c
      /\ ~Complete(c, p)
      /\ mem[w].units = Assigned(w)
      /\ mem[w].next = Reached(c, p)
      /\ mem[w].next <= mem[w].at
      /\ mem[w].at <= Cardinality(mem[w].units)
      /\ mem[w].pc # "commit" => mem[w].at < Cardinality(mem[w].units)
      /\ p = "scan" => /\ mem[w].list \in Manifest
                       /\ NotNewer(mem[w].list.list)
                       /\ ckpt[c]["scan"] # None => mem[w].list = ckpt[c]["scan"].sha

(* What it has seen and not committed.                                     *)
Sighted(w) ==
  LET p == mem[w].part IN
    /\ p = "scan" => \A f \in Pending(w) : mem[w].seen[f] \in State \ {"none", "missing"}
    /\ p \in {"clip", "embed"} =>
         \A f \in File : mem[w].seen[f] \in Worker \cup {None}
    /\ p = "clip" => \A f \in File : f \in Pending(w) <=> mem[w].seen[f] # None
    /\ p = "embed" => \A f \in File : mem[w].seen[f] # None => f \in Pending(w)
    /\ p = "sae" /\ Pending(w) # {} => mem[w].list \in Worker

(* Its files are there, and what it is to write is registered by no one.   *)
Backed(w) ==
  LET p == mem[w].part IN
    /\ p = "scan" => mem[w].list = disk.manifest[task.config]
    /\ p = "clip" => \A f \in Pending(w) : mem[w].seen[f] = disk.clip[f]
    /\ p = "embed" => \A f \in File : mem[w].seen[f] \in {None, disk.embed[f]}
    /\ p = "sae" /\ Pending(w) # {} => mem[w].list = disk.sae[CodeKey(w)]
    /\ mem[w].pc = "write" =>
         /\ p = "clip" => \A c \in Config : ClipShas(c)[Current(w)] = None
         /\ p = "embed" => found.shards[Current(w)] = None
         /\ p = "sae" => found.codes[CodeKey(w)] = None

Fresh(w) == mem[w].seen = Idle.seen /\ mem[w].next = 0 /\ mem[w].at = 0

HandOf(w) ==
  /\ task.status \in {"working", "pausing"}
  /\ task.phase = PhaseOf[mem[w].part]
  /\ mem[w].pc # "idle"
  /\ mem[w].pc = "pass" => /\ mem[w].part = FirstPart[task.phase]
                           /\ mem[w].part \notin Settings[task.config].parts
  /\ mem[w].pc # "pass" => Ready(w)
  /\ mem[w].pc = "list" => /\ mem[w].part = "scan"
                           /\ mem[w].config = task.config
                           /\ ckpt[task.config]["scan"] = None
  /\ mem[w].pc \in {"begin", "list"} => Fresh(w)
  /\ mem[w].pc \in {"work", "write", "commit"} =>
       Positioned(w) /\ Sighted(w) /\ (~Clobbered => Backed(w))
  /\ mem[w].pc = "write" => mem[w].part \in {"clip", "embed", "sae"}
  /\ mem[w].pc = "finish" => /\ mem[w].part \in {"scan", "score", "style", "group"}
                             /\ Complete(task.config, mem[w].part)

Hand ==
  IF holder = None THEN task.status \notin {"working", "pausing"} ELSE HandOf(holder)

-----------------------------------------------------------------------------
(* The rows that components have left.                                     *)

ScanDone(c) ==
  LET k == ckpt[c]["scan"] IN
    /\ found.manifests[c] = k.sha
    /\ \A f \in File :
         IF f \in Done(k.units, k.next)
           THEN /\ rows[f].listed = k.sha.list[f]
                /\ rows[f].state \notin {"none", "missing"}
                /\ rows[f].metrics = c
           ELSE rows[f].state \in {"none", "missing"}

ScoresDone(c) ==
  LET k == ckpt[c]["score"] IN
    found.scores = [f \in File |-> IF f \in Done(k.units, k.next) THEN c ELSE None]

StyleDone(c) ==
  LET k == ckpt[c]["style"] IN
    found.style = [f \in File |-> IF f \in Done(k.units, k.next) THEN c ELSE None]

GroupsDone(c) ==
  LET k    == ckpt[c]["group"]
      done == Done(k.units, k.next)
  IN  /\ found.nodes = [s \in 0..NFiles |-> IF s \in done THEN c ELSE None]
      /\ found.twins = {<<c, s>> : s \in done}
      /\ found.roles = IF Settings[c].roles
                         THEN {<<c, f>> : f \in UNION {Members(c, s) : s \in done}} ELSE {}

Worked(c, p) ==
  hist.last[PhaseOf[p]] = c /\ ckpt[c][p] # None /\ ckpt[c][p].prepared

(* No config came back to a phase another one had worked in.               *)
Returned == "returned" \in hist.causes

EvidenceSound ==
  ~Returned =>
    /\ \A p \in Part :
         /\ PhaseOf[p] = task.phase
         /\ hist.last[task.phase] # task.config
         => ckpt[task.config][p] = None
    /\ \A c \in Config : /\ Worked(c, "scan")  => ScanDone(c)
                         /\ Worked(c, "score") => ScoresDone(c)
                         /\ Worked(c, "style") => StyleDone(c)
                         /\ Worked(c, "group") => GroupsDone(c)

(* A config that clusters by artist has its style evidence.                *)
StyleThere ==
  (hist.causes = {} /\ task.phase = "semantic_clustering" /\ Settings[task.config].scope = "artist")
    => Completes(task.config, "style")

RowInv ==
  /\ RowsTyped /\ DiskTyped
  /\ CursorsSound /\ NothingAhead /\ LastKnown
  /\ Vouched /\ VersionsSound
  /\ EvidenceSound /\ StyleThere
  /\ ErrorsExplained

AnalysisInv == MemTyped /\ Hand /\ RowInv

-----------------------------------------------------------------------------
(* Counting through a set of files.                                        *)

Rank(S, f) == Cardinality({g \in S : g <= f})

LEMMA RankSound ==
  ASSUME NEW S \in SUBSET Nat, IsFiniteSet(S)
  PROVE  /\ \A f \in S : Rank(S, f) \in 1..Cardinality(S)
         /\ \A f, g \in S : Rank(S, f) = Rank(S, g) => f = g
<1> DEFINE Below(f) == {g \in S : g <= f}
<1>1. \A f : Below(f) \in SUBSET S
  OBVIOUS
<1>2. \A f : IsFiniteSet(Below(f)) /\ Cardinality(Below(f)) <= Cardinality(S)
  BY <1>1, FS_Subset
<1>3. \A f : Cardinality(Below(f)) \in Nat /\ Cardinality(S) \in Nat
  BY <1>2, FS_CardinalityType
<1>4. ASSUME NEW f \in S PROVE Cardinality(Below(f)) # 0
  <2>1. f \in Below(f)
    OBVIOUS
  <2> QED
    BY <2>1, <1>2, FS_EmptySet
<1>5. ASSUME NEW f \in S, NEW g \in S, f < g, Cardinality(Below(f)) = Cardinality(Below(g))
      PROVE  FALSE
  <2>1. Below(f) \in SUBSET Below(g)
    <3> SUFFICES ASSUME NEW h \in S, h <= f PROVE h <= g
      OBVIOUS
    <3> QED
      BY <1>5
  <2>2. IsFiniteSet(Below(g)) /\ Cardinality(Below(g)) = Cardinality(Below(f))
    BY <1>2, <1>5
  <2> HIDE DEF Below
  <2>4. Below(g) = Below(f)
    BY <2>1, <2>2, FS_Subset
  <2> USE DEF Below
  <2>3. g \in Below(g) /\ g \notin Below(f)
    BY <1>5
  <2> QED
    BY <2>4, <2>3
<1>6. \A f \in S : Cardinality(Below(f)) \in 1..Cardinality(S)
  BY <1>2, <1>3, <1>4
<1>7. \A f, g \in S : Cardinality(Below(f)) = Cardinality(Below(g)) => f = g
  <2> SUFFICES ASSUME NEW f \in S, NEW g \in S, Cardinality(Below(f)) = Cardinality(Below(g)),
                      f # g
               PROVE  FALSE
    OBVIOUS
  <2>1. f < g \/ g < f
    OBVIOUS
  <2> QED
    BY <2>1, <1>5
<1> QED
  BY <1>6, <1>7 DEF Rank

LEMMA NthSound ==
  ASSUME NEW S \in SUBSET Nat, IsFiniteSet(S)
  PROVE  /\ Cardinality(S) \in Nat
         /\ \A k \in 1..Cardinality(S) : Nth(S, k) \in S /\ Rank(S, Nth(S, k)) = k
         /\ \A f \in S : Nth(S, Rank(S, f)) = f
<1> DEFINE rank == [f \in S |-> Rank(S, f)]
           T    == 1..Cardinality(S)
<1>1. Cardinality(S) \in Nat
  BY FS_CardinalityType
<1>2. rank \in Injection(S, T)
  BY RankSound DEF Injection, IsInjective
<1>3. IsFiniteSet(T) /\ Cardinality(T) = Cardinality(S)
  BY <1>1, FS_Interval
<1>4. rank \in Surjection(S, T)
  BY <1>2, <1>3, FS_Injection
<1>5. \A k \in T : \E f \in S : Rank(S, f) = k
  BY <1>4 DEF Surjection
<1>6. \A k : Nth(S, k) = CHOOSE f \in S : Rank(S, f) = k
  BY DEF Nth, Rank
<1>7. \A k \in T : Nth(S, k) \in S /\ Rank(S, Nth(S, k)) = k
  BY <1>5, <1>6
<1>8. ASSUME NEW f \in S PROVE Nth(S, Rank(S, f)) = f
  <2> PICK k : k = Rank(S, f)
    OBVIOUS
  <2>1. k \in T
    BY RankSound
  <2>2. Nth(S, k) \in S /\ Rank(S, Nth(S, k)) = Rank(S, f)
    BY <1>7, <2>1
  <2> QED
    BY <2>2, RankSound
<1> QED
  BY <1>1, <1>7, <1>8

LEMMA DoneSound ==
  ASSUME NEW S \in SUBSET Nat, IsFiniteSet(S), NEW n \in 0..Cardinality(S)
  PROVE  /\ Done(S, n) \subseteq S
         /\ Done(S, 0) = {}
         /\ n = Cardinality(S) => Done(S, n) = S
         /\ \A m \in 0..n : /\ Done(S, n) = Done(S, m) \cup Between(S, m, n)
                            /\ Between(S, m, n) \subseteq S
                            /\ Done(S, m) \cap Between(S, m, n) = {}
<1>1. Cardinality(S) \in Nat
  BY FS_CardinalityType
<1>2. Done(S, n) \subseteq S
  BY <1>1, NthSound DEF Done
<1>3. Done(S, 0) = {}
  BY DEF Done
<1>4. n = Cardinality(S) => Done(S, n) = S
  BY <1>1, <1>2, NthSound, RankSound DEF Done
<1>5. ASSUME NEW m \in 0..n
      PROVE  /\ Done(S, n) = Done(S, m) \cup Between(S, m, n)
             /\ Between(S, m, n) \subseteq S
             /\ Done(S, m) \cap Between(S, m, n) = {}
  <2>1. 1..n = 1..m \cup m + 1 .. n
    BY <1>1
  <2>2. Done(S, n) = Done(S, m) \cup Between(S, m, n)
    BY <2>1 DEF Done, Between
  <2>3. \A j \in 1..m, k \in m + 1 .. n : Nth(S, j) # Nth(S, k)
    <3> SUFFICES ASSUME NEW j \in 1..m, NEW k \in m + 1 .. n, Nth(S, j) = Nth(S, k)
                 PROVE  FALSE
      OBVIOUS
    <3>1. j \in 1..Cardinality(S) /\ k \in 1..Cardinality(S) /\ j # k
      BY <1>1
    <3> QED
      BY <3>1, NthSound
  <2> QED
    BY <1>2, <2>2, <2>3 DEF Done, Between
<1> QED
  BY <1>2, <1>3, <1>4, <1>5

LEMMA BetweenGrows ==
  ASSUME NEW S \in SUBSET Nat, IsFiniteSet(S), NEW m \in Nat, NEW n \in Nat,
         m <= n, n < Cardinality(S)
  PROVE  /\ Between(S, m, m) = {}
         /\ Nth(S, n + 1) \in S
         /\ Between(S, m, n + 1) = Between(S, m, n) \cup {Nth(S, n + 1)}
         /\ Nth(S, n + 1) \notin Between(S, m, n)
<1>1. Cardinality(S) \in Nat /\ n + 1 \in 1..Cardinality(S)
  BY FS_CardinalityType
<1>2. Between(S, m, m) = {}
  BY DEF Between
<1>3. m + 1 .. n + 1 = (m + 1 .. n) \cup {n + 1}
  OBVIOUS
<1>4. Between(S, m, n + 1) = Between(S, m, n) \cup {Nth(S, n + 1)}
  BY <1>3 DEF Between
<1>5. ASSUME NEW k \in m + 1 .. n, Nth(S, n + 1) = Nth(S, k)
      PROVE  FALSE
  <2>1. k \in 1..Cardinality(S) /\ k # n + 1
    BY <1>1
  <2> QED
    BY <1>1, <1>5, <2>1, NthSound
<1> QED
  BY <1>1, <1>2, <1>4, <1>5, NthSound DEF Between

(* The units of a component are such a set.                                *)
LEMMA UnitsFinite ==
  ASSUME NEW S \in SUBSET (0..NFiles)
  PROVE  S \in SUBSET Nat /\ IsFiniteSet(S) /\ Cardinality(S) \in Nat
<1>1. NFiles \in Nat
  BY AnalysisAssumption
<1>2. IsFiniteSet(0..NFiles)
  BY <1>1, FS_Interval
<1>3. IsFiniteSet(S)
  BY <1>2, FS_Subset
<1> QED
  BY <1>1, <1>3, FS_CardinalityType

LEMMA FileUnits == /\ File \subseteq 0..NFiles
                   /\ File \subseteq Nat
                   /\ 0 \notin File
BY AnalysisAssumption DEF File

-----------------------------------------------------------------------------
(* Steps that touch neither rows nor files.                                *)

RowCore ==
  /\ CursorsSound /\ NothingAhead /\ LastKnown
  /\ Vouched /\ VersionsSound
  /\ EvidenceSound /\ StyleThere

LEMMA InitSound == Init => AnalysisInv
<1> SUFFICES ASSUME Init PROVE AnalysisInv
  OBVIOUS
<1>1. PICK c \in Config : task = [status |-> "queued", phase |-> "scanning", config |-> c]
  BY DEF Init
<1>2. NFiles \in Nat /\ File \subseteq 0..NFiles
  BY AnalysisAssumption, FileUnits
<1>3. MemTyped
  BY <1>2 DEF Init, MemTyped, Idle, MemRow, Place, Part, State
<1>4. RowsTyped
  <2>1. ckpt = [d \in Config |-> [p \in Part |-> None]] /\ tree = [f \in File |-> 1]
        /\ holder = None /\ rows = [f \in File |-> NoRow]
        /\ hist = [upsets |-> 0, causes |-> {}, last |-> [p \in Phase |-> None]]
    BY DEF Init
  <2> QED
    BY <1>1, <2>1 DEF RowsTyped, NoRow, SampleRow, State, Phase
<1>5. DiskTyped
  <2>1. disk = [manifest |-> [d \in Config |-> None], clip |-> [f \in File |-> None],
                embed |-> [f \in File |-> None], sae |-> [S \in SUBSET File |-> None]]
    BY DEF Init
  <2>2. disk \in [manifest : [Config -> Manifest \cup {None}], clip : Hashes, embed : Hashes,
                  sae : [SUBSET File -> Worker \cup {None}]]
    BY <2>1 DEF Hashes
  <2>3. found = NothingFound
    BY DEF Init
  <2> QED
    BY <2>2, <2>3 DEF DiskTyped, NothingFound, Hashes
<1>6. \A c1 \in Config, p \in Part : ckpt[c1][p] = None
  BY DEF Init
<1>7. CursorsSound /\ NothingAhead /\ LastKnown
  BY <1>6 DEF CursorsSound, CursorSound, NothingAhead, LastKnown, Init, Phase, PhaseNo
<1>8. Vouched
  <2>1. \A c1 \in Config : ckpt[c1]["scan"] = None /\ ClipShas(c1) = [f \in File |-> None]
    BY <1>6 DEF ClipShas, Idle, Part
  <2>2. found.shards = [f \in File |-> None] /\ found.codes = [S \in SUBSET File |-> None]
    BY DEF Init, NothingFound
  <2> QED
    BY <2>1, <2>2 DEF Vouched, Intact
<1>9. VersionsSound
  BY DEF VersionsSound, NotNewer, Init, NoRow
<1>10. EvidenceSound /\ StyleThere /\ ErrorsExplained
  BY <1>1, <1>6 DEF EvidenceSound, Worked, StyleThere, ErrorsExplained, Part, Init
<1>11. Hand
  BY <1>1 DEF Hand, Init
<1> QED
  BY <1>3, <1>4, <1>5, <1>7, <1>8, <1>9, <1>10, <1>11 DEF AnalysisInv, RowInv

(* The task's status, the slot and the memory of workers may change, and   *)
(* what happened is noted.                                                 *)
TaskMoves ==
  /\ UNCHANGED <<ckpt, tree, disk, rows, found>>
  /\ hist'.last = hist.last /\ hist.causes \subseteq hist'.causes
  /\ task'.phase = task.phase /\ task'.config = task.config

LEMMA CursorsKept ==
  ASSUME CursorsSound, UNCHANGED <<ckpt, rows, found>>
  PROVE  CursorsSound'
<1> SUFFICES ASSUME NEW c \in Config, NEW p \in Part PROVE CursorSound(c, p)'
  BY DEF CursorsSound
<1>1. UnitsOf(c, p)' = UnitsOf(c, p)
  BY DEF UnitsOf, SamplesOf, Scopes, Outside, Inputs, Listed
<1>2. Supported(c, p)' = Supported(c, p)
  BY DEF Supported, Complete
<1>3. CursorSound(c, p)
  BY DEF CursorsSound
<1> QED
  BY <1>1, <1>2, <1>3 DEF CursorSound

LEMMA EvidenceKept ==
  ASSUME UNCHANGED <<ckpt, rows, found>>, hist'.last = hist.last
  PROVE  \A c \in Config :
          /\ Worked(c, "scan")' = Worked(c, "scan") /\ Worked(c, "score")' = Worked(c, "score")
          /\ Worked(c, "style")' = Worked(c, "style") /\ Worked(c, "group")' = Worked(c, "group")
          /\ ScanDone(c)' = ScanDone(c) /\ ScoresDone(c)' = ScoresDone(c)
          /\ StyleDone(c)' = StyleDone(c) /\ GroupsDone(c)' = GroupsDone(c)
BY DEF Worked, ScanDone, ScoresDone, StyleDone, GroupsDone, Done, Nth, Members

LEMMA CoreKept == RowCore /\ TaskMoves => RowCore'
<1> SUFFICES ASSUME RowCore, TaskMoves PROVE RowCore'
  OBVIOUS
<1> USE DEF TaskMoves
<1>1. CursorsSound'
  BY CursorsKept DEF RowCore
<1>2. NothingAhead' /\ LastKnown'
  BY DEF RowCore, NothingAhead, LastKnown
<1>3. Vouched'
  BY DEF RowCore, Vouched, Clobbered, SameManifest, ClipShas, Intact
<1>4. VersionsSound'
  BY DEF RowCore, VersionsSound, NotNewer
<1>5. EvidenceSound'
  BY EvidenceKept DEF RowCore, EvidenceSound, Returned
<1>6. StyleThere'
  BY DEF RowCore, StyleThere, Completes
<1> QED
  BY <1>1, <1>2, <1>3, <1>4, <1>5, <1>6 DEF RowCore

(* A holder that did not move holds on.                                    *)
LEMMA HandKept ==
  ASSUME NEW w \in Worker, HandOf(w), TaskMoves, mem'[w] = mem[w],
         task'.status \in {"working", "pausing"}
  PROVE  HandOf(w)'
<1> USE DEF TaskMoves
<1>1. Ready(w)' = Ready(w)
  BY DEF Ready, Supported, Complete
<1>2. UnitsOf(task.config, mem[w].part)' = UnitsOf(task.config, mem[w].part)
  BY DEF UnitsOf, SamplesOf, Scopes, Outside, Inputs, Listed
<1>3. Positioned(w)' = Positioned(w)
  BY <1>2 DEF Positioned, Assigned, Complete, Reached, Listed, NotNewer
<1>4. Pending(w)' = Pending(w) /\ Current(w)' = Current(w) /\ CodeKey(w)' = CodeKey(w)
  BY DEF Pending, Current, CodeKey, ConfigOf, Nth
<1>5. Sighted(w)' = Sighted(w)
  BY <1>4 DEF Sighted
<1>6. Backed(w)' = Backed(w)
  BY <1>4 DEF Backed, ClipShas
<1>7. ~Clobbered' => ~Clobbered
  BY DEF Clobbered
<1> QED
  BY <1>1, <1>3, <1>5, <1>6, <1>7 DEF HandOf, Fresh, Complete

(* What excuses a failed task.                                             *)
Excused ==
  \/ hist.causes # {}
  \/ \E f \in File : rows[f].listed # 0 /\ ~Unchanged(f)

CauseSet == {"returned", "missed", "refused", "clobbered"}

LEMMA TypesKept ==
  ASSUME RowsTyped, DiskTyped, TaskMoves, holder' \in Worker \cup {None},
         hist' = [hist EXCEPT !.upsets = hist'.upsets, !.causes = hist'.causes],
         hist'.upsets \in Nat, hist'.causes \subseteq CauseSet,
         task' = [task EXCEPT !.status = task'.status, !.config = task'.config],
         task'.config \in Config,
         task'.status \in {"queued", "working", "pausing", "paused", "review", "failed"},
         task.phase = "evidence_review" => task'.status \in {"review", "failed"}
  PROVE  RowsTyped' /\ DiskTyped'
<1>1. task' \in [status : {"queued", "working", "pausing", "paused", "review", "failed"},
                 phase : Phase \cup {"evidence_review"}, config : Config]
  BY DEF RowsTyped
<1>2. hist' \in [upsets : Nat, causes : SUBSET CauseSet, last : [Phase -> Config \cup {None}]]
  BY DEF RowsTyped, CauseSet
<1>3. RowsTyped'
  BY <1>1, <1>2 DEF RowsTyped, TaskMoves, CauseSet
<1> QED
  BY <1>3 DEF DiskTyped, TaskMoves

LEMMA IdleRow == Idle \in MemRow
BY DEF Idle, MemRow, Place, Part, State

LEMMA LeaveTyped ==
  ASSUME MemTyped, NEW w \in Worker, Leave(w), ckpt' = ckpt
  PROVE  /\ MemTyped'
         /\ mem'[w] = Idle
         /\ \A x \in Worker \ {w} : mem'[x] = mem[x]
<1>1. mem' \in [Worker -> MemRow]
  BY IdleRow DEF MemTyped, Leave
<1>2. mem'[w] = Idle /\ \A x \in Worker \ {w} : mem'[x] = mem[x]
  BY DEF MemTyped, Leave
<1> QED
  BY <1>1, <1>2 DEF MemTyped, Idle

(* The slot is given back, the phase not left.                             *)
LEMMA Released ==
  ASSUME AnalysisInv, TaskMoves, MemTyped', holder' = None,
         hist' = [hist EXCEPT !.upsets = hist'.upsets, !.causes = hist'.causes],
         hist'.upsets \in Nat, hist'.causes \subseteq CauseSet,
         task' = [task EXCEPT !.status = task'.status], holder # None,
         task'.status \in {"queued", "paused", "failed"},
         task'.status = "failed" => Excused'
  PROVE  AnalysisInv'
<1>1. task.phase # "evidence_review"
  <2>1. holder \in Worker /\ HandOf(holder)
    BY DEF AnalysisInv, Hand, RowInv, RowsTyped
  <2> QED
    BY <2>1 DEF HandOf, AnalysisInv, RowInv, RowsTyped
<1>2. RowsTyped' /\ DiskTyped'
  <2>1. task'.config \in Config /\ RowsTyped /\ DiskTyped
    BY DEF AnalysisInv, RowInv, RowsTyped, TaskMoves
  <2>2. task' = [task EXCEPT !.status = task'.status, !.config = task'.config]
    BY <2>1 DEF RowsTyped
  <2> QED
    BY <1>1, <2>1, <2>2, TypesKept
<1>3. RowCore'
  BY CoreKept DEF AnalysisInv, RowInv, RowCore
<1>4. Hand'
  BY DEF Hand
<1>5. ErrorsExplained'
  BY DEF ErrorsExplained, Excused
<1> QED
  BY <1>2, <1>3, <1>4, <1>5 DEF AnalysisInv, RowInv, RowCore

(* One worker goes on in its memory, nothing else changes.                 *)
LEMMA MemMoves ==
  ASSUME AnalysisInv, UNCHANGED <<task, holder, ckpt, tree, disk, rows, found, hist>>,
         NEW w \in Worker, MemTyped', \A x \in Worker \ {w} : mem'[x] = mem[x],
         holder = w => HandOf(w)'
  PROVE  AnalysisInv'
<1>1. TaskMoves
  BY DEF TaskMoves
<1>2. RowCore'
  BY <1>1, CoreKept DEF AnalysisInv, RowInv, RowCore
<1>3. RowsTyped' /\ DiskTyped' /\ ErrorsExplained'
  BY DEF AnalysisInv, RowInv, RowsTyped, DiskTyped, ErrorsExplained, Unchanged
<1>4. Hand'
  <2>1. CASE holder = None
    BY <2>1 DEF AnalysisInv, Hand
  <2>2. CASE holder = w
    <3>1. w # None
      BY AnalysisAssumption
    <3> QED
      BY <2>2, <3>1 DEF Hand
  <2>3. CASE holder \notin {None, w}
    <3>1. holder \in Worker \ {w} /\ HandOf(holder)
      BY <2>3 DEF AnalysisInv, RowInv, RowsTyped, Hand
    <3>2. PICK x \in Worker \ {w} : x = holder
      BY <3>1
    <3>3. HandOf(x)
      BY <3>1, <3>2
    <3>4. task.status \in {"working", "pausing"}
      BY <3>3 DEF HandOf
    <3>5. HandOf(x)'
      BY <1>1, <3>3, <3>4, HandKept
    <3> QED
      BY <2>3, <3>2, <3>5 DEF Hand
  <2> QED
    BY <2>1, <2>2, <2>3
<1> QED
  BY <1>2, <1>3, <1>4 DEF AnalysisInv, RowInv, RowCore

LEMMA LeaveKeeps ==
  ASSUME AnalysisInv, NEW w \in Worker, Leave(w), ~Holds(w),
         UNCHANGED <<task, holder, ckpt, tree, disk, rows, found, hist>>
  PROVE  AnalysisInv'
<1>1. MemTyped' /\ \A x \in Worker \ {w} : mem'[x] = mem[x]
  BY LeaveTyped DEF AnalysisInv
<1> QED
  BY <1>1, MemMoves DEF Holds

(* An error that the holder has an excuse for.                             *)
LEMMA RaiseKeeps ==
  ASSUME AnalysisInv, NEW w \in Worker, Raise(w), Holds(w) => Excused
  PROVE  AnalysisInv'
<1>1. CASE ~Holds(w)
  BY <1>1, LeaveKeeps DEF Raise
<1>2. CASE Holds(w)
  <2>1. TaskMoves /\ holder' = None /\ hist' = hist
        /\ task' = [task EXCEPT !.status = "failed"]
    BY <1>2 DEF Raise, TaskMoves, AnalysisInv, RowInv, RowsTyped
  <2>2. task'.status = "failed"
    BY <2>1 DEF AnalysisInv, RowInv, RowsTyped
  <2>3. MemTyped'
    BY LeaveTyped DEF Raise, AnalysisInv
  <2>4. holder # None
    BY <1>2, AnalysisAssumption DEF Holds
  <2>5. Excused'
    BY <1>2, <2>1 DEF Excused, Unchanged, TaskMoves
  <2>6. hist'.upsets \in Nat /\ hist'.causes \subseteq CauseSet
        /\ hist' = [hist EXCEPT !.upsets = hist'.upsets, !.causes = hist'.causes]
    BY <2>1 DEF AnalysisInv, RowInv, RowsTyped, CauseSet
  <2> QED
    BY <2>1, <2>2, <2>3, <2>4, <2>5, <2>6, Released
<1> QED
  BY <1>1, <1>2

LEMMA UpsetSound ==
  ASSUME AnalysisInv, Upset
  PROVE  /\ hist'.upsets \in Nat /\ hist'.causes = hist.causes /\ hist'.last = hist.last
         /\ hist'.causes \subseteq CauseSet
         /\ hist' = [hist EXCEPT !.upsets = hist'.upsets, !.causes = hist'.causes]
<1>1. hist \in [upsets : Nat, causes : SUBSET CauseSet, last : [Phase -> Config \cup {None}]]
  BY DEF AnalysisInv, RowInv, RowsTyped, CauseSet
<1>2. hist' = [hist EXCEPT !.upsets = hist.upsets + 1]
  BY DEF Upset
<1>3. hist'.upsets = hist.upsets + 1 /\ hist'.causes = hist.causes /\ hist'.last = hist.last
  BY <1>1, <1>2
<1>4. hist' = [hist EXCEPT !.upsets = hist'.upsets, !.causes = hist.causes]
  <2>1. hist' = [upsets |-> hist.upsets + 1, causes |-> hist.causes, last |-> hist.last]
    BY <1>1, <1>2
  <2> QED
    BY <1>1, <1>3, <2>1
<1> QED
  BY <1>1, <1>3, <1>4

LEMMA LoseLeaseKeeps ==
  ASSUME AnalysisInv, NEW w \in Worker, Crash(w) \/ Fence(w)
  PROVE  AnalysisInv'
<1> USE DEF LoseLease, Crash, Fence
<1>1. holder = w /\ holder' = None /\ holder # None
  BY AnalysisAssumption DEF Holds
<1>2. MemTyped'
  <2>1. CASE Crash(w)
    BY <2>1, LeaveTyped DEF AnalysisInv
  <2>2. CASE Fence(w)
    BY <2>2 DEF AnalysisInv, MemTyped
  <2> QED
    BY <2>1, <2>2
<1>3. /\ task' = [task EXCEPT !.status = task'.status]
      /\ task'.status \in {"queued", "paused"}
      /\ task'.phase = task.phase /\ task'.config = task.config
  BY DEF Recovered, AnalysisInv, RowInv, RowsTyped
<1>4. TaskMoves
  BY <1>3, UpsetSound DEF TaskMoves
<1> QED
  BY <1>1, <1>2, <1>3, <1>4, UpsetSound, Released

LEMMA RefuseKeeps ==
  ASSUME AnalysisInv, NEW w \in Worker, Refuse(w)
  PROVE  AnalysisInv'
<1>1. holder = w /\ holder' = None /\ holder # None
  BY AnalysisAssumption DEF Refuse, Holds
<1>2. MemTyped'
  BY LeaveTyped DEF AnalysisInv, Refuse
<1>3. task' = [task EXCEPT !.status = task'.status] /\ task'.status = "failed"
      /\ task'.phase = task.phase /\ task'.config = task.config
  BY DEF Refuse, AnalysisInv, RowInv, RowsTyped
<1>4. /\ hist' = [hist EXCEPT !.upsets = hist'.upsets, !.causes = hist'.causes]
      /\ hist'.upsets \in Nat /\ hist'.causes = hist.causes \cup {"refused"}
      /\ hist'.causes \subseteq CauseSet /\ hist'.last = hist.last
  BY DEF Refuse, AnalysisInv, RowInv, RowsTyped, CauseSet
<1>5. TaskMoves
  BY <1>3, <1>4 DEF TaskMoves, Refuse
<1>6. Excused'
  BY <1>4 DEF Excused
<1> QED
  BY <1>1, <1>2, <1>3, <1>4, <1>5, <1>6, Released

LEMMA PauseSound ==
  ASSUME AnalysisInv, NEW w \in Worker, Holds(w), PauseHonored
  PROVE  /\ holder' = None /\ holder # None
         /\ task' = [task EXCEPT !.status = task'.status] /\ task'.status = "paused"
         /\ task'.phase = task.phase /\ task'.config = task.config
BY AnalysisAssumption DEF PauseHonored, Holds, AnalysisInv, RowInv, RowsTyped

LEMMA SameHist ==
  ASSUME AnalysisInv, hist' = hist
  PROVE  /\ hist' = [hist EXCEPT !.upsets = hist'.upsets, !.causes = hist'.causes]
         /\ hist'.upsets \in Nat /\ hist'.causes \subseteq CauseSet
         /\ hist.causes \subseteq hist'.causes /\ hist'.last = hist.last
<1>1. hist \in [upsets : Nat, causes : SUBSET CauseSet, last : [Phase -> Config \cup {None}]]
  BY DEF AnalysisInv, RowInv, RowsTyped, CauseSet
<1>2. hist = [hist EXCEPT !.upsets = hist.upsets, !.causes = hist.causes]
  BY <1>1
<1> QED
  BY <1>1, <1>2

LEMMA HonorControlKeeps ==
  ASSUME AnalysisInv, NEW w \in Worker, HonorControl(w)
  PROVE  AnalysisInv'
<1>1. CASE ~Holds(w)
  BY <1>1, LeaveKeeps DEF HonorControl
<1>2. CASE Holds(w)
  <2>1. PauseHonored /\ Leave(w) /\ UNCHANGED <<ckpt, tree, disk, rows, found, hist>>
    BY <1>2 DEF HonorControl
  <2>2. TaskMoves
    BY <1>2, <2>1, PauseSound, SameHist DEF TaskMoves
  <2>3. MemTyped'
    BY <2>1, LeaveTyped DEF AnalysisInv
  <2> QED
    BY <1>2, <2>1, <2>2, <2>3, PauseSound, SameHist, Released
<1> QED
  BY <1>1, <1>2

(* A phase is passed by the holder.                                        *)
LEMMA PhaseLeft ==
  ASSUME AnalysisInv, NEW w \in Worker, Holds(w), MemTyped',
         UNCHANGED <<ckpt, tree, disk, rows, found, hist>>,
         task' = Completed(task), holder' = None,
         (hist.causes = {} /\ task.phase = "style_analysis" /\ Settings[task.config].scope = "artist")
           => Completes(task.config, "style")
  PROVE  AnalysisInv'
<1>1. task.phase \in Phase /\ task.status \in {"working", "pausing"}
  BY AnalysisAssumption DEF AnalysisInv, Hand, HandOf, Holds, RowInv, RowsTyped, Phase
<1>2. /\ task'.config = task.config
      /\ task'.status \in {"review", "queued"}
      /\ task.phase = "semantic_clustering" =>
           task'.phase = "evidence_review" /\ task'.status = "review"
      /\ task.phase = "scanning" => task'.phase = "model_scoring"
      /\ task.phase = "model_scoring" => task'.phase = "style_analysis"
      /\ task.phase = "style_analysis" => task'.phase = "semantic_clustering"
      /\ task' \in [status : {"queued", "review"}, phase : Phase \cup {"evidence_review"},
                    config : Config]
  <2>1. task \in [status : {"queued", "working", "pausing", "paused", "review", "failed"},
                  phase : Phase \cup {"evidence_review"}, config : Config]
    BY DEF AnalysisInv, RowInv, RowsTyped
  <2>2. CASE task.phase = "semantic_clustering"
    BY <1>1, <2>1, <2>2 DEF Completed, Phase
  <2>3. CASE task.phase # "semantic_clustering"
    <3>1. task' = [task EXCEPT !.status = "queued", !.phase = PhaseAfter[task.phase]]
      BY <2>3 DEF Completed
    <3>2. task.phase \in {"scanning", "model_scoring", "style_analysis"}
      BY <1>1, <2>3 DEF Phase
    <3>3. /\ task'.phase = PhaseAfter[task.phase] /\ task'.status = "queued"
          /\ task'.config = task.config
      BY <2>1, <3>1
    <3>4. PhaseAfter[task.phase] \in Phase
      BY <3>2 DEF PhaseAfter, Phase
    <3>5. task' \in [status : {"queued", "review"}, phase : Phase \cup {"evidence_review"},
                     config : Config]
      BY <2>1, <3>1, <3>4
    <3> QED
      BY <2>3, <3>2, <3>3, <3>5 DEF PhaseAfter
  <2> QED
    BY <2>2, <2>3
<1>3. RowsTyped' /\ DiskTyped'
  BY <1>1, <1>2 DEF AnalysisInv, RowInv, RowsTyped, DiskTyped, Phase
<1>4. Hand'
  BY <1>2 DEF Hand
<1>5. ErrorsExplained'
  BY <1>2 DEF ErrorsExplained
<1> DEFINE Same == [task EXCEPT !.status = task'.status]
<1>6. CursorsSound'
  BY CursorsKept DEF AnalysisInv, RowInv
<1>7. NothingAhead' /\ LastKnown'
  <2>1. NothingAhead /\ LastKnown
    BY DEF AnalysisInv, RowInv
  <2>2. \A ph \in Phase : PhaseNo(ph) > PhaseNo(task'.phase) => PhaseNo(ph) > PhaseNo(task.phase)
    BY <1>1, <1>2 DEF Phase, PhaseNo
  <2>3. \A p \in Part : PhaseOf[p] \in Phase
    BY DEF Part, PhaseOf, Phase
  <2> QED
    BY <2>1, <2>2, <2>3 DEF NothingAhead, LastKnown
<1>8. Vouched' /\ VersionsSound'
  BY DEF AnalysisInv, RowInv, Vouched, Clobbered, SameManifest, ClipShas, Intact,
     VersionsSound, NotNewer
<1>9. \A p \in Part : PhaseOf[p] = task'.phase => ckpt[task'.config][p] = None
  <2> SUFFICES ASSUME NEW p \in Part, PhaseOf[p] = task'.phase
               PROVE  ckpt[task'.config][p] = None
    OBVIOUS
  <2>1. PhaseNo(PhaseOf[p]) > PhaseNo(task.phase)
    BY <1>1, <1>2 DEF Part, PhaseOf, Phase, PhaseNo
  <2> QED
    BY <1>2, <2>1 DEF AnalysisInv, RowInv, NothingAhead, RowsTyped
<1>10. EvidenceSound'
  BY <1>9, EvidenceKept DEF AnalysisInv, RowInv, EvidenceSound, Returned
<1>11. StyleThere'
  BY <1>1, <1>2 DEF StyleThere, Completes, Phase
<1> QED
  BY <1>3, <1>4, <1>5, <1>6, <1>7, <1>8, <1>10, <1>11 DEF AnalysisInv, RowInv

LEMMA PassPhaseKeeps ==
  ASSUME AnalysisInv, NEW w \in Worker, PassPhase(w)
  PROVE  AnalysisInv'
<1>1. CASE ~Holds(w)
  BY <1>1, LeaveKeeps DEF PassPhase
<1>2. CASE Holds(w)
  <2>1. w # None /\ HandOf(w)
    BY <1>2, AnalysisAssumption DEF AnalysisInv, Hand, Holds
  <2>2. FirstPart[task.phase] \notin Settings[task.config].parts
    BY <2>1 DEF HandOf, PassPhase
  <2>3. task.phase = "style_analysis" => Settings[task.config].scope # "artist"
    <3>1. task.config \in Config
      BY DEF AnalysisInv, RowInv, RowsTyped
    <3>2. Settings[task.config].scope = "artist" => "style" \in Settings[task.config].parts
      BY <3>1, SettingsAssumption
    <3> QED
      BY <2>2, <3>2 DEF FirstPart
  <2>4. MemTyped'
    BY LeaveTyped DEF PassPhase, AnalysisInv
  <2> QED
    BY <1>2, <2>3, <2>4, PhaseLeft DEF PassPhase
<1> QED
  BY <1>1, <1>2

LEMMA CompletePhaseKeeps ==
  ASSUME AnalysisInv, NEW w \in Worker, CompletePhase(w)
  PROVE  AnalysisInv'
<1>1. CASE ~Holds(w)
  BY <1>1, LeaveKeeps, RaiseKeeps DEF CompletePhase, PhaseClosed
<1>2. CASE Holds(w)
  <2>1. w # None /\ HandOf(w)
    BY <1>2, AnalysisAssumption DEF AnalysisInv, Hand, Holds
  <2>2. /\ mem[w].part \in {"scan", "score", "style", "group"}
        /\ Complete(task.config, mem[w].part) /\ Ready(w)
        /\ task.phase = PhaseOf[mem[w].part]
    BY <2>1 DEF HandOf, CompletePhase
  <2>3. Unfinished(mem[w].part) = {}
    <3> SUFFICES ASSUME NEW p \in Settings[task.config].parts, PhaseOf[p] = PhaseOf[mem[w].part]
                 PROVE  Complete(task.config, p)
      BY DEF Unfinished, Complete
    <3>1. p \in Part
      BY SettingsAssumption DEF AnalysisInv, RowInv, RowsTyped
    <3>2. \/ p = mem[w].part
          \/ mem[w].part = "score" /\ p = "clip"
          \/ mem[w].part = "group" /\ p \in {"embed", "sae"}
      BY <2>2, <3>1 DEF Part, PhaseOf
    <3> QED
      BY <2>2, <3>2 DEF Ready, Supported
  <2>4. PhaseClosed(w) /\ Leave(w) /\ UNCHANGED <<ckpt, tree, disk, rows, found, hist>>
    BY <2>3 DEF CompletePhase
  <2>5. MemTyped'
    BY <2>4, LeaveTyped DEF AnalysisInv
  <2>6. CASE PauseHonored
    <3>1. TaskMoves
      BY <1>2, <2>4, <2>6, PauseSound, SameHist DEF TaskMoves
    <3> QED
      BY <1>2, <2>4, <2>5, <2>6, <3>1, PauseSound, SameHist, Released
  <2>7. CASE task' = Completed(task) /\ holder' = None
    <3>1. ASSUME hist.causes = {}, task.phase = "style_analysis"
          PROVE  Completes(task.config, "style")
      <4>1. mem[w].part = "style"
        BY <2>2, <3>1 DEF PhaseOf, Part
      <4>2. ckpt[task.config]["style"] # None /\ ckpt[task.config]["style"].complete
        BY <2>2, <4>1 DEF Complete
      <4>3. hist.last["style_analysis"] = task.config
        BY <3>1, <4>2 DEF AnalysisInv, RowInv, EvidenceSound, Returned, Part, PhaseOf
      <4> QED
        BY <4>2, <4>3 DEF Completes, PhaseOf, Part
    <3> QED
      BY <1>2, <2>4, <2>5, <2>7, <3>1, PhaseLeft
  <2> QED
    BY <1>2, <2>4, <2>6, <2>7 DEF PhaseClosed
<1> QED
  BY <1>1, <1>2

LEMMA ClaimKeeps ==
  ASSUME AnalysisInv, NEW w \in Worker, Claim(w)
  PROVE  AnalysisInv'
<1> DEFINE first  == FirstPart[task.phase]
           active == first \in Settings[task.config].parts
           fresh  == [Idle EXCEPT !.pc = IF active THEN "begin" ELSE "pass", !.part = first]
<1>1. /\ holder' = w /\ w # None /\ task' = [task EXCEPT !.status = "working"]
      /\ UNCHANGED <<ckpt, tree, disk, rows, found, hist>>
      /\ mem' = [mem EXCEPT ![w] = fresh]
  BY AnalysisAssumption DEF Claim
<1>2. task.phase \in Phase
  BY DEF Claim, AnalysisInv, RowInv, RowsTyped
<1>3. first \in {"scan", "clip", "style", "embed"} /\ PhaseOf[first] = task.phase
  BY <1>2 DEF Phase, FirstPart, PhaseOf, Part
<1>4. fresh \in MemRow /\ fresh.pc \in {"begin", "pass"} /\ fresh.part = first
      /\ (fresh.pc = "begin" <=> active)
      /\ fresh.seen = Idle.seen /\ fresh.next = 0 /\ fresh.at = 0
  BY <1>3, IdleRow DEF MemRow, Place, Part, Idle
<1>5. mem'[w] = fresh /\ \A x \in Worker \ {w} : mem'[x] = mem[x]
  BY <1>1 DEF AnalysisInv, MemTyped
<1> HIDE DEF fresh, active, first
<1>6. MemTyped'
  <2>1. mem' \in [Worker -> MemRow]
    BY <1>1, <1>4 DEF AnalysisInv, MemTyped
  <2> QED
    BY <1>1, <1>4, <1>5, <2>1 DEF AnalysisInv, MemTyped
<1>7. TaskMoves /\ task'.status = "working"
  BY <1>1 DEF TaskMoves, AnalysisInv, RowInv, RowsTyped
<1>8. RowsTyped' /\ DiskTyped'
  <2>1. task' = [task EXCEPT !.status = task'.status, !.config = task'.config]
    BY <1>1, <1>7 DEF AnalysisInv, RowInv, RowsTyped, TaskMoves
  <2>2. task'.config \in Config /\ task.phase # "evidence_review" /\ RowsTyped /\ DiskTyped
    BY <1>2, <1>7 DEF AnalysisInv, RowInv, RowsTyped, TaskMoves, Phase
  <2> QED
    BY <1>1, <1>7, <2>1, <2>2, SameHist, TypesKept
<1>9. RowCore'
  BY <1>7, CoreKept DEF AnalysisInv, RowInv, RowCore
<1>10. ErrorsExplained'
  BY <1>7 DEF ErrorsExplained
<1>11. HandOf(w)'
  <2>1. task'.phase = PhaseOf[first] /\ task'.config = task.config
    BY <1>3, <1>7 DEF TaskMoves
  <2>2. active => Ready(w)'
    BY <1>3, <1>4, <1>5, <2>1 DEF Ready, Supported, active
  <2> QED
    BY <1>3, <1>4, <1>5, <1>7, <2>1, <2>2 DEF HandOf, Fresh, active, first
<1> QED
  BY <1>1, <1>6, <1>8, <1>9, <1>10, <1>11 DEF AnalysisInv, RowInv, RowCore, Hand

-----------------------------------------------------------------------------
(* Requests, and the user at the source folder.                            *)

LEMMA PauseKeeps == AnalysisInv /\ Pause => AnalysisInv'
<1> SUFFICES ASSUME AnalysisInv, Pause PROVE AnalysisInv'
  OBVIOUS
<1>1. UNCHANGED <<holder, mem, ckpt, tree, disk, rows, found>> /\ Upset
  BY DEF Pause
<1>2. /\ task' = [task EXCEPT !.status = task'.status, !.config = task'.config]
      /\ task'.config = task.config /\ task'.phase = task.phase /\ task.config \in Config
      /\ task.status = "queued" => task'.status = "paused"
      /\ task.status = "working" => task'.status = "pausing"
      /\ task.status \in {"queued", "working"}
      /\ task.phase # "evidence_review"
  BY DEF Pause, AnalysisInv, RowInv, RowsTyped
<1>3. TaskMoves
  BY <1>1, <1>2, UpsetSound DEF TaskMoves
<1>4. RowsTyped' /\ DiskTyped'
  <2>1. RowsTyped /\ DiskTyped /\ holder' \in Worker \cup {None}
    BY <1>1 DEF AnalysisInv, RowInv, RowsTyped
  <2> QED
    BY <1>1, <1>2, <1>3, <2>1, UpsetSound, TypesKept
<1>5. RowCore' /\ ErrorsExplained'
  BY <1>2, <1>3, CoreKept DEF AnalysisInv, RowInv, RowCore, ErrorsExplained
<1>6. MemTyped'
  BY <1>1 DEF AnalysisInv, MemTyped
<1>7. Hand'
  <2>1. CASE holder = None
    BY <1>1, <1>2, <2>1 DEF AnalysisInv, Hand
  <2>2. CASE holder # None
    <3>1. PICK x \in Worker : x = holder
      BY <2>2 DEF AnalysisInv, RowInv, RowsTyped
    <3>2. HandOf(x)
      BY <2>2, <3>1 DEF AnalysisInv, Hand
    <3>3. task'.status = "pausing"
      BY <1>2, <3>2 DEF HandOf
    <3>4. mem'[x] = mem[x]
      BY <1>1
    <3>5. HandOf(x)'
      BY <1>3, <3>2, <3>3, <3>4, HandKept
    <3> QED
      BY <1>1, <2>2, <3>1, <3>5 DEF Hand
  <2> QED
    BY <2>1, <2>2
<1> QED
  BY <1>4, <1>5, <1>6, <1>7 DEF AnalysisInv, RowInv, RowCore

LEMMA ResumeKeeps == AnalysisInv /\ Resume => AnalysisInv'
<1> SUFFICES ASSUME AnalysisInv, Resume PROVE AnalysisInv'
  OBVIOUS
<1>1. UNCHANGED <<holder, mem, ckpt, tree, disk, rows, found, hist>>
  BY DEF Resume
<1>2. /\ task' = [task EXCEPT !.status = task'.status, !.config = task'.config]
      /\ task'.config = task.config /\ task'.phase = task.phase /\ task.config \in Config
      /\ task'.status = "queued" /\ task.status = "paused"
      /\ task.phase # "evidence_review"
  BY DEF Resume, AnalysisInv, RowInv, RowsTyped
<1>3. TaskMoves
  BY <1>1, <1>2, SameHist DEF TaskMoves
<1>4. RowsTyped' /\ DiskTyped'
  <2>1. RowsTyped /\ DiskTyped /\ holder' \in Worker \cup {None}
    BY <1>1 DEF AnalysisInv, RowInv, RowsTyped
  <2> QED
    BY <1>1, <1>2, <1>3, <2>1, SameHist, TypesKept
<1>5. RowCore' /\ ErrorsExplained'
  BY <1>2, <1>3, CoreKept DEF AnalysisInv, RowInv, RowCore, ErrorsExplained
<1>6. MemTyped'
  BY <1>1 DEF AnalysisInv, MemTyped
<1>7. Hand'
  <2>1. holder = None
    BY <1>2 DEF AnalysisInv, Hand, HandOf
  <2> QED
    BY <1>1, <1>2, <2>1 DEF Hand
<1> QED
  BY <1>4, <1>5, <1>6, <1>7 DEF AnalysisInv, RowInv, RowCore

LEMMA ReconfigureKeeps == AnalysisInv /\ Reconfigure => AnalysisInv'
<1> SUFFICES ASSUME AnalysisInv, Reconfigure PROVE AnalysisInv'
  OBVIOUS
<1>1. PICK c \in Config \ {task.config} :
        /\ task' = [task EXCEPT !.config = c]
        /\ hist' = [hist EXCEPT !.causes = @
                      \cup (IF Returns(c) THEN {"returned"} ELSE {})
                      \cup (IF Misses(c) THEN {"missed"} ELSE {})]
  BY DEF Reconfigure
<1>2. UNCHANGED <<holder, mem, ckpt, tree, disk, rows, found>> /\ task.status = "paused"
  BY DEF Reconfigure
<1>3. task \in [status : {"queued", "working", "pausing", "paused", "review", "failed"},
                phase : Phase \cup {"evidence_review"}, config : Config]
  BY DEF AnalysisInv, RowInv, RowsTyped
<1>4. /\ task'.status = "paused" /\ task'.phase = task.phase /\ task'.config = c
      /\ task' \in [status : {"paused"}, phase : Phase \cup {"evidence_review"}, config : Config]
      /\ task.phase \in Phase
  BY <1>1, <1>2, <1>3 DEF AnalysisInv, RowInv, RowsTyped
<1>5. hist \in [upsets : Nat, causes : SUBSET CauseSet, last : [Phase -> Config \cup {None}]]
  BY DEF AnalysisInv, RowInv, RowsTyped, CauseSet
<1>6. /\ hist'.last = hist.last /\ hist'.upsets = hist.upsets
      /\ hist'.causes = hist.causes \cup (IF Returns(c) THEN {"returned"} ELSE {})
                                    \cup (IF Misses(c) THEN {"missed"} ELSE {})
  BY <1>1, <1>5
<1>7. hist' \in [upsets : Nat, causes : SUBSET CauseSet, last : [Phase -> Config \cup {None}]]
  BY <1>1, <1>5 DEF CauseSet
<1>8. RowsTyped' /\ DiskTyped' /\ MemTyped'
  BY <1>2, <1>4, <1>7 DEF AnalysisInv, RowInv, RowsTyped, DiskTyped, MemTyped, CauseSet, Phase
<1>9. Hand' /\ ErrorsExplained'
  BY <1>2, <1>4 DEF AnalysisInv, Hand, HandOf, ErrorsExplained
<1>10. CursorsSound' /\ NothingAhead' /\ LastKnown' /\ VersionsSound' /\ Vouched'
  <2>1. CursorsSound'
    BY <1>2, CursorsKept DEF AnalysisInv, RowInv
  <2>2. NothingAhead' /\ LastKnown' /\ VersionsSound'
    BY <1>2, <1>4, <1>6 DEF AnalysisInv, RowInv, NothingAhead, LastKnown, VersionsSound, NotNewer
  <2>3. Vouched'
    BY <1>2, <1>6 DEF AnalysisInv, RowInv, Vouched, Clobbered, SameManifest, ClipShas, Intact
  <2> QED
    BY <2>1, <2>2, <2>3
<1>11. EvidenceSound'
  <2>1. SUFFICES ASSUME ~Returned' PROVE EvidenceSound'
    BY DEF EvidenceSound
  <2>2. ~Returned /\ ~Returns(c)
    BY <1>6, <2>1 DEF Returned
  <2>3. ASSUME NEW p \in Part, PhaseOf[p] = task.phase, hist.last[task.phase] # c
        PROVE  ckpt[c][p] = None
    <3>1. CASE hist.last[task.phase] = None
      BY <2>3, <3>1 DEF AnalysisInv, RowInv, LastKnown
    <3>2. CASE hist.last[task.phase] # None
      BY <2>2, <2>3, <3>2 DEF Returns
    <3> QED
      BY <3>1, <3>2
  <2> QED
    BY <1>2, <1>4, <1>6, <2>2, <2>3, EvidenceKept DEF AnalysisInv, RowInv, EvidenceSound
<1>12. StyleThere'
  <2>1. SUFFICES ASSUME hist'.causes = {}, task.phase = "semantic_clustering", Settings[c].scope = "artist"
                 PROVE  Completes(c, "style")'
    BY <1>4 DEF StyleThere
  <2>2. ~Misses(c)
    BY <1>6, <2>1
  <2> QED
    BY <1>2, <1>6, <2>1, <2>2 DEF Misses, Completes
<1> QED
  BY <1>8, <1>9, <1>10, <1>11, <1>12 DEF AnalysisInv, RowInv

LEMMA EditKeeps == AnalysisInv /\ Edit => AnalysisInv'
<1> SUFFICES ASSUME AnalysisInv, Edit PROVE AnalysisInv'
  OBVIOUS
<1>1. UNCHANGED <<task, holder, mem, ckpt, disk, rows, found>> /\ Upset
  BY DEF Edit
<1>2. PICK f \in File : /\ tree[f] # 0
                        /\ tree' \in {[tree EXCEPT ![f] = @ + 1], [tree EXCEPT ![f] = 0]}
  BY DEF Edit
<1>3. tree \in [File -> Nat]
  BY DEF AnalysisInv, RowInv, RowsTyped
<1>4. /\ tree' \in [File -> Nat]
      /\ \A g \in File : tree[g] = 0 => tree'[g] = 0
      /\ \A g \in File : tree'[g] = 0 \/ tree'[g] >= tree[g]
  BY <1>2, <1>3
<1>5. ASSUME NEW list \in [File -> Nat], \A g \in File : tree[g] = 0 \/ list[g] <= tree[g]
      PROVE  \A g \in File : tree'[g] = 0 \/ list[g] <= tree'[g]
  BY <1>3, <1>4, <1>5
<1>6. hist \in [upsets : Nat, causes : SUBSET CauseSet, last : [Phase -> Config \cup {None}]]
  BY DEF AnalysisInv, RowInv, RowsTyped, CauseSet
<1>7. hist' \in [upsets : Nat, causes : SUBSET CauseSet, last : [Phase -> Config \cup {None}]]
      /\ hist'.causes = hist.causes /\ hist'.last = hist.last
  BY <1>1, <1>6 DEF Upset
<1>8. RowsTyped' /\ DiskTyped' /\ MemTyped'
  BY <1>1, <1>4, <1>7 DEF AnalysisInv, RowInv, RowsTyped, DiskTyped, MemTyped, CauseSet
<1>9. CursorsSound' /\ NothingAhead' /\ LastKnown' /\ Vouched' /\ StyleThere'
  <2>1. CursorsSound'
    BY <1>1, CursorsKept DEF AnalysisInv, RowInv
  <2>2. NothingAhead' /\ LastKnown' /\ StyleThere'
    BY <1>1, <1>7 DEF AnalysisInv, RowInv, NothingAhead, LastKnown, StyleThere, Completes
  <2>3. Vouched'
    BY <1>1, <1>7 DEF AnalysisInv, RowInv, Vouched, Clobbered, SameManifest, ClipShas, Intact
  <2> QED
    BY <2>1, <2>2, <2>3
<1>10. EvidenceSound'
  BY <1>1, <1>7, EvidenceKept DEF AnalysisInv, RowInv, EvidenceSound, Returned
<1>11. VersionsSound'
  <2>1. [g \in File |-> rows[g].listed] \in [File -> Nat]
    BY DEF AnalysisInv, RowInv, RowsTyped, SampleRow
  <2>2. \A c \in Config : disk.manifest[c] # None => disk.manifest[c].list \in [File -> Nat]
    <3>1. disk.manifest \in [Config -> Manifest \cup {None}]
      BY DEF AnalysisInv, RowInv, DiskTyped
    <3> QED
      BY <3>1 DEF Manifest
  <2>3. VersionsSound
    BY DEF AnalysisInv, RowInv
  <2>4. NotNewer([g \in File |-> rows[g].listed])'
    BY <1>1, <1>5, <2>1, <2>3 DEF VersionsSound, NotNewer
  <2>5. \A c \in Config : disk'.manifest[c] # None => NotNewer(disk.manifest[c].list)'
    BY <1>1, <1>5, <2>2, <2>3 DEF VersionsSound, NotNewer
  <2> QED
    BY <1>1, <2>3, <2>4, <2>5 DEF VersionsSound
<1>12. ErrorsExplained'
  <2>1. SUFFICES ASSUME task.status = "failed", hist.causes = {}
                 PROVE  \E g \in File : rows[g].listed # 0 /\ tree'[g] # rows[g].listed
    BY <1>1, <1>7 DEF ErrorsExplained, Unchanged
  <2>2. PICK g \in File : rows[g].listed # 0 /\ tree[g] # rows[g].listed
    BY <2>1 DEF AnalysisInv, RowInv, ErrorsExplained, Unchanged
  <2>3. tree[g] = 0 \/ rows[g].listed <= tree[g]
    BY DEF AnalysisInv, RowInv, VersionsSound, NotNewer
  <2>4. rows[g].listed \in Nat /\ tree[g] \in Nat /\ tree'[g] \in Nat
    BY <1>3, <1>4 DEF AnalysisInv, RowInv, RowsTyped, SampleRow
  <2> QED
    BY <1>4, <2>2, <2>3, <2>4
<1>13. Hand'
  <2>1. CASE holder = None
    BY <1>1, <2>1 DEF AnalysisInv, Hand
  <2>2. CASE holder # None
    <3>1. PICK w \in Worker : w = holder
      BY <2>2 DEF AnalysisInv, RowInv, RowsTyped
    <3>2. HandOf(w)
      BY <2>2, <3>1 DEF AnalysisInv, Hand
    <3>3. Ready(w)' = Ready(w)
      BY <1>1 DEF Ready, Supported, Complete
    <3>4. UnitsOf(task.config, mem[w].part)' = UnitsOf(task.config, mem[w].part)
      BY <1>1 DEF UnitsOf, SamplesOf, Scopes, Outside, Inputs, Listed
    <3>5. mem[w].list \in Manifest => mem[w].list.list \in [File -> Nat]
      BY DEF Manifest
    <3>6. Positioned(w) => Positioned(w)'
      BY <1>1, <1>5, <3>4, <3>5 DEF Positioned, NotNewer, Assigned, Complete, Reached, Listed
    <3>7. Pending(w)' = Pending(w) /\ Current(w)' = Current(w) /\ CodeKey(w)' = CodeKey(w)
      BY <1>1 DEF Pending, Current, CodeKey, ConfigOf
    <3>8. Sighted(w)' = Sighted(w) /\ Backed(w)' = Backed(w) /\ Clobbered' = Clobbered
      BY <1>1, <1>7, <3>7 DEF Sighted, Backed, ClipShas, Clobbered
    <3>9. HandOf(w)'
      BY <1>1, <3>2, <3>3, <3>6, <3>8 DEF HandOf, Fresh, Complete
    <3> QED
      BY <1>1, <2>2, <3>1, <3>9 DEF Hand
  <2> QED
    BY <2>1, <2>2
<1> QED
  BY <1>8, <1>9, <1>10, <1>11, <1>12, <1>13 DEF AnalysisInv, RowInv

-----------------------------------------------------------------------------
(* A worker comes to a component.                                          *)

LEMMA OneMoves ==
  ASSUME MemTyped, NEW w \in Worker, NEW r \in MemRow, mem' = [mem EXCEPT ![w] = r],
         r.part = "sae" /\ r.pc \in {"work", "write"}
           => r.config \in Config /\ ckpt'[r.config]["embed"] # None,
         \A c \in Config : ckpt[c]["embed"] # None => ckpt'[c]["embed"] # None
  PROVE  /\ MemTyped'
         /\ mem'[w] = r
         /\ \A x \in Worker \ {w} : mem'[x] = mem[x]
<1>1. mem' \in [Worker -> MemRow]
  BY DEF MemTyped
<1>2. mem'[w] = r /\ \A x \in Worker \ {w} : mem'[x] = mem[x]
  BY DEF MemTyped
<1>3. ASSUME NEW x \in Worker, mem'[x].part = "sae", mem'[x].pc \in {"work", "write"}
      PROVE  mem'[x].config \in Config /\ ckpt'[mem'[x].config]["embed"] # None
  <2>1. CASE x = w
    BY <1>2, <1>3, <2>1
  <2>2. CASE x # w
    BY <1>2, <1>3, <2>2 DEF MemTyped
  <2> QED
    BY <2>1, <2>2
<1> QED
  BY <1>1, <1>2, <1>3 DEF MemTyped

LEMMA PartAfterSound ==
  ASSUME NEW c \in Config, NEW p \in Part
  PROVE  /\ PartAfter(c, p) = None => p \in {"scan", "score", "style", "group"}
         /\ PartAfter(c, p) # None => PartAfter(c, p) \in Part
         /\ PartAfter(c, p) # None /\ p \in Settings[c].parts
              => /\ PartAfter(c, p) \in Settings[c].parts
                 /\ PhaseOf[PartAfter(c, p)] = PhaseOf[p]
                 /\ \/ p = "clip" /\ PartAfter(c, p) = "score"
                    \/ p = "embed" /\ PartAfter(c, p) = "sae"
                    \/ p = "embed" /\ PartAfter(c, p) = "group" /\ "sae" \notin Settings[c].parts
                    \/ p = "sae" /\ PartAfter(c, p) = "group"
<1>0. None \notin Part
  BY NoneAssumption
<1>1. Settings[c] \in [fits : SUBSET File, domain : SUBSET File, core : SUBSET File,
                       parts : SUBSET Part, scope : {"artist", "concept", "global"},
                       roles : BOOLEAN, scorer : Nat]
  BY SettingsAssumption
<1>2. /\ "clip" \in Settings[c].parts => "score" \in Settings[c].parts
      /\ "embed" \in Settings[c].parts => "group" \in Settings[c].parts
      /\ "sae" \in Settings[c].parts => "embed" \in Settings[c].parts
  BY SettingsAssumption
<1>3. CASE p = "clip"
  <2>1. PartAfter(c, p) = "score"
    BY <1>3 DEF PartAfter
  <2> QED
    BY <1>2, <1>3, <2>1, <1>0 DEF PhaseOf, Part
<1>4. CASE p = "embed" /\ "sae" \in Settings[c].parts
  <2>1. PartAfter(c, p) = "sae"
    BY <1>4 DEF PartAfter
  <2> QED
    BY <1>2, <1>4, <2>1, <1>0 DEF PhaseOf, Part
<1>5. CASE p = "embed" /\ "sae" \notin Settings[c].parts
  <2>1. PartAfter(c, p) = "group"
    BY <1>5 DEF PartAfter
  <2> QED
    BY <1>2, <1>5, <2>1, <1>0 DEF PhaseOf, Part
<1>6. CASE p = "sae"
  <2>1. PartAfter(c, p) = "group"
    BY <1>6 DEF PartAfter
  <2> QED
    BY <1>2, <1>6, <2>1, <1>0 DEF PhaseOf, Part
<1>7. CASE p \in {"scan", "score", "style", "group"}
  BY <1>7 DEF PartAfter
<1> QED
  BY <1>3, <1>4, <1>5, <1>6, <1>7 DEF Part

LEMMA FinishTyped ==
  ASSUME AnalysisInv, NEW w \in Worker, Finish(w),
         \A c \in Config : ckpt[c]["embed"] # None => ckpt'[c]["embed"] # None
  PROVE  /\ MemTyped'
         /\ \A x \in Worker \ {w} : mem'[x] = mem[x]
         /\ PartAfter(task.config, mem[w].part) = None
              => mem'[w].pc = "finish" /\ mem'[w].part = mem[w].part
         /\ PartAfter(task.config, mem[w].part) # None
              => /\ mem'[w].pc = "begin" /\ mem'[w].part = PartAfter(task.config, mem[w].part)
                 /\ Fresh(w)'
<1> DEFINE next == PartAfter(task.config, mem[w].part)
<1>1. task.config \in Config /\ mem[w] \in MemRow /\ MemTyped
  BY DEF AnalysisInv, RowInv, RowsTyped, MemTyped
<1>2. mem[w].part \in Part
  BY <1>1 DEF MemRow
<1>3. CASE next = None
  <2>1. PICK r : r = [mem[w] EXCEPT !.pc = "finish"]
    OBVIOUS
  <2>2. r \in MemRow /\ r.pc = "finish" /\ r.part = mem[w].part
    BY <1>1, <2>1 DEF MemRow, Place
  <2>3. mem' = [mem EXCEPT ![w] = r]
    BY <1>1, <1>3, <2>1 DEF Finish, MemTyped
  <2> QED
    BY <1>1, <1>3, <2>2, <2>3, OneMoves
<1>4. CASE next # None
  <2>1. PICK r : r = [Idle EXCEPT !.pc = "begin", !.part = next]
    OBVIOUS
  <2>2. next \in Part
    BY <1>1, <1>2, <1>4, PartAfterSound
  <2>3. /\ r \in MemRow /\ r.pc = "begin" /\ r.part = next
        /\ r.seen = Idle.seen /\ r.next = 0 /\ r.at = 0
    BY <2>1, <2>2, IdleRow DEF MemRow, Place, Idle
  <2>4. mem' = [mem EXCEPT ![w] = r]
    BY <1>4, <2>1 DEF Finish
  <2> QED
    BY <1>1, <1>4, <2>3, <2>4, OneMoves DEF Fresh
<1> QED
  BY <1>3, <1>4

LEMMA FinishSound ==
  ASSUME AnalysisInv, NEW w \in Worker, Finish(w), task' = task,
         \A c \in Config : ckpt[c]["embed"] # None => ckpt'[c]["embed"] # None,
         task.status \in {"working", "pausing"}, task.phase = PhaseOf[mem[w].part],
         NEW c \in Config, c = task.config, NEW p \in Part, p = mem[w].part,
         p \in Settings[c].parts, Complete(c, p)', Supported(c, p)'
  PROVE  HandOf(w)'
<1> DEFINE next == PartAfter(c, p)
<1>2. CASE next = None
  <2>1. mem'[w].pc = "finish" /\ mem'[w].part = p
    BY <1>2, FinishTyped
  <2>2. p \in {"scan", "score", "style", "group"}
    BY <1>2, PartAfterSound
  <2> QED
    BY <2>1, <2>2 DEF HandOf, Ready, Complete
<1>3. CASE next # None
  <2>1. mem'[w].pc = "begin" /\ mem'[w].part = next /\ Fresh(w)'
    BY <1>3, FinishTyped
  <2> HIDE DEF next
  <2>2. /\ next \in Settings[c].parts
        /\ PhaseOf[next] = PhaseOf[p]
        /\ \/ p = "clip" /\ next = "score"
           \/ p = "embed" /\ next = "sae"
           \/ p = "embed" /\ next = "group" /\ "sae" \notin Settings[c].parts
           \/ p = "sae" /\ next = "group"
    BY <1>3, PartAfterSound DEF next
  <2>3. Supported(c, next)'
    BY <2>2 DEF Supported, Complete
  <2>4. Ready(w)'
    BY <2>1, <2>2, <2>3 DEF Ready, Supported, Complete
  <2> QED
    BY <2>1, <2>2, <2>4 DEF HandOf
<1> QED
  BY <1>2, <1>3

LEMMA UnitsTyped ==
  ASSUME NEW c \in Config, NEW p \in Part
  PROVE  UnitsOf(c, p) \in SUBSET (0..NFiles)
<1>1. File \subseteq 0..NFiles /\ 0 \in 0..NFiles
  BY FileUnits, AnalysisAssumption
<1>2. Inputs \subseteq File /\ Scopes \subseteq File /\ SamplesOf(c) \subseteq File
  BY DEF Inputs, Scopes, SamplesOf
<1> QED
  BY <1>1, <1>2 DEF UnitsOf, Listed, Part

(* The holder enters a component with its units as the rows give them.     *)
LEMMA EnterKeeps ==
  ASSUME AnalysisInv, NEW w \in Worker,
         NEW c \in Config, c = task.config, NEW p \in Part, p = mem[w].part,
         mem[w].pc = "begin",
         NEW units \in SUBSET (0..NFiles), NEW list \in Manifest \cup {None},
         Enter(w, units, list),
         p = "sae" => ckpt[c]["embed"] # None,
         p = "scan" => /\ ckpt[c]["scan"] # None
                       /\ list = ckpt[c]["scan"].sha
                       /\ list = disk.manifest[c],
         Holds(w) => units = UnitsOf(c, p)
  PROVE  AnalysisInv'
<1>1. UNCHANGED <<task, holder, ckpt, tree, disk, rows, found, hist>>
  BY DEF Enter
<1>2. w # None
  BY AnalysisAssumption
<1>3. Holds(w) => HandOf(w) /\ Ready(w)
  BY <1>2 DEF AnalysisInv, Hand, Holds, HandOf
<1>4. Holds(w) => /\ task.status \in {"working", "pausing"}
                  /\ task.phase = PhaseOf[p]
                  /\ p \in Settings[c].parts
                  /\ Supported(c, p)
  BY <1>3 DEF HandOf, Ready
<1>5. Complete(c, p)' = Complete(c, p) /\ Supported(c, p)' = Supported(c, p)
  BY <1>1 DEF Complete, Supported
<1>6. CASE Complete(c, p)
  <2>1. Finish(w)
    BY <1>6 DEF Enter, Complete
  <2>2. MemTyped' /\ \A x \in Worker \ {w} : mem'[x] = mem[x]
    BY <1>1, <2>1, FinishTyped
  <2>3. Holds(w) => HandOf(w)'
    BY <1>1, <1>4, <1>5, <1>6, <2>1, FinishSound
  <2> QED
    BY <1>1, <2>2, <2>3, MemMoves DEF Holds
<1>7. CASE ~Complete(c, p)
  <2>1. PICK next : next = Reached(c, p)
    OBVIOUS
  <2>2. ckpt[c][p] \in CursorRow(p) \cup {None} /\ CursorSound(c, p)
    BY DEF AnalysisInv, RowInv, RowsTyped, CursorsSound
  <2>3. next \in Nat
    BY <2>1, <2>2 DEF Reached, CursorRow
  <2>4. PICK r : r = [Idle EXCEPT !.part = p, !.config = c, !.units = units,
                        !.next = next, !.at = next, !.list = list,
                        !.pc = IF units = {} THEN "commit" ELSE "work"]
    OBVIOUS
  <2>5. mem' = [mem EXCEPT ![w] = r]
    <3>1. ~(ckpt[c][p] # None /\ ckpt[c][p].complete)
      BY <1>7 DEF Complete
    <3> QED
      BY <2>1, <2>4, <3>1 DEF Enter, Reached
  <2>6. /\ r \in MemRow /\ r.part = p /\ r.config = c /\ r.units = units /\ r.next = next
        /\ r.at = next /\ r.list = list /\ r.seen = [f \in File |-> None]
        /\ r.pc \in {"work", "commit"} /\ (r.pc = "work" <=> units # {})
    BY <2>3, <2>4, IdleRow DEF MemRow, Place, Idle
  <2>7. MemTyped' /\ mem'[w] = r /\ \A x \in Worker \ {w} : mem'[x] = mem[x]
    BY <1>1, <2>5, <2>6, OneMoves DEF AnalysisInv
  <2>8. ASSUME Holds(w) PROVE HandOf(w)'
    <3>1. units = UnitsOf(c, p) /\ UnitsOf(c, p)' = UnitsOf(c, p)
      BY <1>1, <2>8 DEF UnitsOf, SamplesOf, Scopes, Outside, Inputs, Listed
    <3>2. Cardinality(units) \in Nat /\ (units # {} => Cardinality(units) # 0)
      BY UnitsFinite, FS_EmptySet
    <3>3. next <= Cardinality(units) /\ (units # {} => next < Cardinality(units))
      <4>1. CASE ckpt[c][p] = None
        BY <2>1, <3>2, <4>1 DEF Reached
      <4>2. CASE ckpt[c][p] # None
        BY <1>7, <2>1, <2>2, <2>3, <3>1, <3>2, <4>2 DEF Reached, CursorSound, Complete
      <4> QED
        BY <4>1, <4>2
    <3>4. Assigned(w)' = units
      BY <1>1, <2>6, <2>7, <3>1 DEF Assigned, UnitsOf
    <3>5. Reached(c, p)' = next
      BY <1>1, <2>1 DEF Reached
    <3>6. p = "scan" => list \in Manifest /\ NotNewer(list.list)
      BY NoneAssumption DEF AnalysisInv, RowInv, VersionsSound, RowsTyped, CursorRow
    <3>7. Positioned(w)'
      BY <1>1, <1>5, <1>7, <2>3, <2>6, <2>7, <3>3, <3>4, <3>5, <3>6 DEF Positioned, NotNewer
    <3>8. Pending(w)' = {}
      <4>1. \A k : k \notin next + 1 .. next
        BY <2>3
      <4> QED
        BY <2>6, <2>7, <4>1 DEF Pending
    <3>9. Sighted(w)'
      BY <2>6, <2>7, <3>8 DEF Sighted
    <3>10. Backed(w)'
      BY <1>1, <2>6, <2>7, <3>8 DEF Backed
    <3>11. Ready(w)'
      BY <1>1, <1>4, <1>5, <2>6, <2>7, <2>8 DEF Ready
    <3> QED
      BY <1>1, <1>4, <2>6, <2>7, <2>8, <3>7, <3>9, <3>10, <3>11 DEF HandOf
  <2> QED
    BY <1>1, <2>7, <2>8, MemMoves DEF Holds
<1> QED
  BY <1>6, <1>7

-----------------------------------------------------------------------------
(* What a component asks for when it begins is there, or there is an       *)
(* excuse.                                                                 *)

LEMMA HolderKnown ==
  ASSUME AnalysisInv, NEW w \in Worker, Holds(w)
  PROVE  HandOf(w)
BY AnalysisAssumption DEF AnalysisInv, Hand, Holds

LEMMA ResolvableSound ==
  ASSUME AnalysisInv
  PROVE  Resolvable \/ Excused
<1> SUFFICES ASSUME NEW f \in Inputs, tree[f] = 0 PROVE Excused
  BY DEF Resolvable
<1>1. f \in File /\ rows[f].state = "valid"
  BY DEF Inputs
<1>2. rows[f].listed # 0
  BY <1>1 DEF AnalysisInv, RowInv, VersionsSound
<1> QED
  BY <1>1, <1>2 DEF Excused, Unchanged

(* The style evidence of a config whose style analysis is complete.        *)
LEMMA StyleKnown ==
  ASSUME AnalysisInv, ~Returned, NEW c \in Config, Completes(c, "style")
  PROVE  found.style = [f \in File |-> IF f \in Scopes THEN c ELSE None]
<1> DEFINE k == ckpt[c]["style"]
<1>1. k # None /\ k.complete /\ hist.last["style_analysis"] = c
  BY DEF Completes, PhaseOf, Part
<1>2. k \in CursorRow("style") /\ CursorSound(c, "style")
  BY <1>1 DEF AnalysisInv, RowInv, RowsTyped, CursorsSound, Part
<1>3. k.units = Scopes /\ k.next = Cardinality(k.units) /\ k.prepared
  BY <1>1, <1>2 DEF CursorSound, UnitsOf, CursorRow
<1>4. StyleDone(c)
  BY <1>1, <1>3 DEF AnalysisInv, RowInv, EvidenceSound, Worked, PhaseOf, Part
<1>5. PICK S \in SUBSET (0..NFiles) : S = k.units
  BY <1>2 DEF CursorRow
<1>6. PICK n \in Nat : n = Cardinality(S)
  BY UnitsFinite
<1>7. Done(S, n) = S
  BY <1>6, UnitsFinite, DoneSound
<1> QED
  BY <1>3, <1>4, <1>5, <1>6, <1>7 DEF StyleDone

LEMMA ListableSound ==
  ASSUME AnalysisInv, task.phase = "semantic_clustering"
  PROVE  Listable \/ Excused
<1> SUFFICES ASSUME ~Excused PROVE Listable
  OBVIOUS
<1>1. Resolvable
  BY ResolvableSound
<1>2. ASSUME Settings[task.config].scope = "artist", NEW f \in Scopes
      PROVE  found.style[f] # None
  <2>1. hist.causes = {} /\ ~Returned
    BY DEF Excused, Returned
  <2>2. task.config \in Config /\ None \notin Config
    BY AnalysisAssumption DEF AnalysisInv, RowInv, RowsTyped
  <2>3. PICK c \in Config : c = task.config
    BY <2>2
  <2>4. Completes(c, "style")
    BY <1>2, <2>1, <2>3 DEF AnalysisInv, RowInv, StyleThere
  <2>5. f \in File
    BY DEF Scopes, Inputs
  <2> QED
    BY <2>1, <2>2, <2>4, <2>5, StyleKnown
<1> QED
  BY <1>1, <1>2 DEF Listable

LEMMA EmbeddedSound ==
  ASSUME AnalysisInv, NEW c \in Config, c = task.config, Complete(c, "embed")
  PROVE  Embedded(c) \/ Excused
<1>1. CursorSound(c, "embed")
  BY DEF AnalysisInv, RowInv, CursorsSound, Part
<1>2. ckpt[c]["embed"].units = Samples
  BY <1>1 DEF CursorSound, Complete, UnitsOf, SamplesOf, Samples
<1>3. Samples \subseteq File
  BY DEF Samples, Scopes, Inputs
<1>4. Loadable(Samples) \/ Excused
  BY <1>3 DEF AnalysisInv, RowInv, Vouched, Clobbered, Loadable, Excused
<1> QED
  BY <1>2, <1>4 DEF Embedded, Complete

-----------------------------------------------------------------------------
(* The first step of each component.                                       *)

LEMMA BeginScanKeeps ==
  ASSUME AnalysisInv, NEW w \in Worker, BeginScan(w)
  PROVE  AnalysisInv'
<1>1. PICK c \in Config : c = task.config
  BY DEF AnalysisInv, RowInv, RowsTyped
<1>2. /\ mem[w].part = "scan" /\ mem[w].pc = "begin"
      /\ task.status = "working" /\ task.phase = "scanning"
      /\ ckpt[c]["scan"] \in CursorRow("scan") \cup {None}
      /\ mem[w] \in MemRow
  BY DEF BeginScan, At, AnalysisInv, RowInv, RowsTyped, Part, MemTyped
<1>3. CASE ckpt[c]["scan"] = None
  <2>1. PICK r : r = [mem[w] EXCEPT !.pc = "list", !.config = c]
    OBVIOUS
  <2>2. mem' = [mem EXCEPT ![w] = r]
        /\ UNCHANGED <<task, holder, ckpt, tree, disk, rows, found, hist>>
    BY <1>1, <1>2, <1>3, <2>1 DEF BeginScan, AnalysisInv, MemTyped
  <2>3. /\ r \in MemRow /\ r.pc = "list" /\ r.config = c /\ r.part = "scan"
        /\ r.seen = mem[w].seen /\ r.next = mem[w].next /\ r.at = mem[w].at
    BY <1>2, <2>1 DEF MemRow, Place
  <2>4. MemTyped' /\ mem'[w] = r /\ \A x \in Worker \ {w} : mem'[x] = mem[x]
    BY <2>2, <2>3, OneMoves DEF AnalysisInv
  <2>5. ASSUME Holds(w) PROVE HandOf(w)'
    <3>1. HandOf(w)
      BY <2>5, HolderKnown
    <3>2. Fresh(w) /\ Ready(w)
      BY <1>2, <3>1 DEF HandOf
    <3>3. Fresh(w)' /\ Ready(w)'
      BY <1>2, <2>2, <2>3, <2>4, <3>2 DEF Fresh, Ready, Supported, Complete
    <3> QED
      BY <1>1, <1>2, <1>3, <2>2, <2>3, <2>4, <3>3 DEF HandOf, PhaseOf, Part
  <2> QED
    BY <2>2, <2>4, <2>5, MemMoves DEF Holds
<1>4. CASE ckpt[c]["scan"] # None /\ SameManifest(c)
  <2>1. PICK units : units = ckpt[c]["scan"].units
    OBVIOUS
  <2>2. PICK list : list = disk.manifest[c]
    OBVIOUS
  <2>3. units \in SUBSET (0..NFiles) /\ list \in Manifest /\ list = ckpt[c]["scan"].sha
    BY <1>2, <1>4, <2>1, <2>2 DEF CursorRow, SameManifest
  <2>4. units = UnitsOf(c, "scan")
    BY <1>4, <2>1 DEF AnalysisInv, RowInv, CursorsSound, CursorSound, Part
  <2>5. Enter(w, units, list)
    BY <1>1, <1>4, <2>1, <2>2 DEF BeginScan
  <2> QED
    BY <1>1, <1>2, <1>4, <2>2, <2>3, <2>4, <2>5, EnterKeeps DEF Part
<1>5. CASE ckpt[c]["scan"] # None /\ ~SameManifest(c)
  <2>1. Raise(w)
    BY <1>1, <1>5 DEF BeginScan
  <2>2. Excused
    BY <1>5 DEF AnalysisInv, RowInv, Vouched, Clobbered, Excused
  <2> QED
    BY <2>1, <2>2, RaiseKeeps
<1> QED
  BY <1>3, <1>4, <1>5

LEMMA LeaveScanKeeps ==
  ASSUME AnalysisInv, NEW w \in Worker, LeaveScan(w)
  PROVE  AnalysisInv'
BY RaiseKeeps DEF LeaveScan

LEMMA BeginScoringKeeps ==
  ASSUME AnalysisInv, NEW w \in Worker, BeginScoring(w)
  PROVE  AnalysisInv'
<1>1. PICK c \in Config : c = task.config
  BY DEF AnalysisInv, RowInv, RowsTyped
<1>2. PICK p \in {"clip", "score"} : p = mem[w].part
  BY DEF BeginScoring
<1>3. mem[w].pc = "begin" /\ Holds(w)
  BY DEF BeginScoring
<1>4. CASE Resolvable /\ Supplied(w)
  <2>1. PICK units : units = Inputs
    OBVIOUS
  <2>2. units = UnitsOf(c, p) /\ p \in Part
    BY <2>1 DEF UnitsOf, Part
  <2>3. units \in SUBSET (0..NFiles)
    BY <2>2, UnitsTyped
  <2>4. Enter(w, units, None)
    BY <1>4, <2>1 DEF BeginScoring
  <2> QED
    BY <1>1, <1>2, <1>3, <2>2, <2>3, <2>4, EnterKeeps
<1>5. CASE ~(Resolvable /\ Supplied(w))
  <2>1. Supplied(w)
    <3>1. Ready(w)
      BY <1>3, HolderKnown DEF HandOf
    <3> QED
      BY <3>1 DEF Ready, Supported, Supplied, Complete
  <2>2. Excused
    BY <1>5, <2>1, ResolvableSound
  <2> QED
    BY <1>5, <2>2, RaiseKeeps DEF BeginScoring
<1> QED
  BY <1>4, <1>5

LEMMA BeginStyleKeeps ==
  ASSUME AnalysisInv, NEW w \in Worker, BeginStyle(w)
  PROVE  AnalysisInv'
<1>1. PICK c \in Config : c = task.config
  BY DEF AnalysisInv, RowInv, RowsTyped
<1>2. mem[w].part = "style" /\ mem[w].pc = "begin" /\ Holds(w)
  BY DEF BeginStyle, At
<1>3. ckpt[c]["style"] # None => ckpt[c]["style"].units = Scopes
  BY DEF AnalysisInv, RowInv, CursorsSound, CursorSound, UnitsOf, Part
<1>4. CASE Resolvable
  <2>1. PICK units : units = Scopes
    OBVIOUS
  <2>2. units = UnitsOf(c, "style")
    BY <2>1 DEF UnitsOf
  <2>3. units \in SUBSET (0..NFiles)
    BY <2>2, UnitsTyped DEF Part
  <2>4. Enter(w, units, None)
    BY <1>1, <1>3, <1>4, <2>1 DEF BeginStyle
  <2> QED
    BY <1>1, <1>2, <2>2, <2>3, <2>4, EnterKeeps DEF Part
<1>5. CASE ~Resolvable
  BY <1>5, ResolvableSound, RaiseKeeps DEF BeginStyle
<1> QED
  BY <1>4, <1>5

LEMMA BeginEmbedKeeps ==
  ASSUME AnalysisInv, NEW w \in Worker, BeginEmbed(w)
  PROVE  AnalysisInv'
<1>1. PICK c \in Config : c = task.config
  BY DEF AnalysisInv, RowInv, RowsTyped
<1>2. mem[w].part = "embed" /\ mem[w].pc = "begin" /\ Holds(w)
  BY DEF BeginEmbed, At
<1>3. Samples = UnitsOf(c, "embed")
  BY <1>1 DEF UnitsOf, Samples, SamplesOf
<1>4. ckpt[c]["embed"] # None => ckpt[c]["embed"].units = Samples
  BY <1>3 DEF AnalysisInv, RowInv, CursorsSound, CursorSound, Part
<1>5. CASE Listable
  <2>1. PICK units : units = Samples
    OBVIOUS
  <2>2. units \in SUBSET (0..NFiles)
    BY <1>3, <2>1, UnitsTyped DEF Part
  <2>3. Enter(w, units, None)
    BY <1>1, <1>4, <1>5, <2>1 DEF BeginEmbed
  <2> QED
    BY <1>1, <1>2, <1>3, <2>1, <2>2, <2>3, EnterKeeps DEF Part
<1>6. CASE ~Listable
  <2>1. task.phase = "semantic_clustering"
    BY <1>2, HolderKnown DEF HandOf, PhaseOf, Part
  <2> QED
    BY <1>6, <2>1, ListableSound, RaiseKeeps DEF BeginEmbed
<1> QED
  BY <1>5, <1>6

LEMMA BeginSaeKeeps ==
  ASSUME AnalysisInv, NEW w \in Worker, BeginSae(w)
  PROVE  AnalysisInv'
<1>1. PICK c \in Config : c = task.config
  BY DEF AnalysisInv, RowInv, RowsTyped
<1>2. mem[w].part = "sae" /\ mem[w].pc = "begin" /\ Holds(w)
  BY DEF BeginSae, At
<1>3. Ready(w) /\ task.phase = "semantic_clustering"
  BY <1>2, HolderKnown DEF HandOf, PhaseOf, Part
<1>4. Complete(c, "embed")
  BY <1>1, <1>2, <1>3 DEF Ready, Supported
<1>5. CASE Listable /\ Embedded(c)
  <2>1. PICK units : units = IF Samples = {} THEN {} ELSE {0}
    OBVIOUS
  <2>2. units = UnitsOf(c, "sae")
    BY <1>1, <2>1 DEF UnitsOf, Samples, SamplesOf
  <2>3. units \in SUBSET (0..NFiles)
    BY <2>2, UnitsTyped DEF Part
  <2>4. Enter(w, units, None)
    BY <1>1, <1>5, <2>1 DEF BeginSae
  <2> QED
    BY <1>1, <1>2, <1>4, <2>2, <2>3, <2>4, EnterKeeps DEF Part, Complete
<1>6. CASE ~(Listable /\ Embedded(c))
  BY <1>1, <1>3, <1>4, <1>6, ListableSound, EmbeddedSound, RaiseKeeps DEF BeginSae
<1> QED
  BY <1>5, <1>6

LEMMA BeginGroupKeeps ==
  ASSUME AnalysisInv, NEW w \in Worker, BeginGroup(w)
  PROVE  AnalysisInv'
<1>1. PICK c \in Config : c = task.config
  BY DEF AnalysisInv, RowInv, RowsTyped
<1>2. mem[w].part = "group" /\ mem[w].pc = "begin" /\ Holds(w)
  BY DEF BeginGroup, At
<1>3. Ready(w) /\ task.phase = "semantic_clustering"
  BY <1>2, HolderKnown DEF HandOf, PhaseOf, Part
<1>4. Complete(c, "embed") /\ SaeDone(c)
  BY <1>1, <1>2, <1>3 DEF Ready, Supported, SaeDone, Complete
<1>5. CASE Listable /\ Embedded(c)
  <2>1. PICK units : units = ClusterScopes
    OBVIOUS
  <2>2. units = UnitsOf(c, "group")
    BY <1>1, <2>1 DEF UnitsOf, Samples, SamplesOf, ClusterScopes
  <2>3. units \in SUBSET (0..NFiles)
    BY <2>2, UnitsTyped DEF Part
  <2>4. Enter(w, units, None)
    BY <1>1, <1>4, <1>5, <2>1 DEF BeginGroup
  <2> QED
    BY <1>1, <1>2, <2>2, <2>3, <2>4, EnterKeeps DEF Part
<1>6. CASE ~(Listable /\ Embedded(c))
  BY <1>1, <1>3, <1>4, <1>6, ListableSound, EmbeddedSound, RaiseKeeps DEF BeginGroup
<1> QED
  BY <1>5, <1>6

-----------------------------------------------------------------------------
(* A unit of a component.                                                  *)

(* One more unit is done.                                                  *)
Advances(w) ==
  /\ mem'[w].part = mem[w].part /\ mem'[w].config = mem[w].config
  /\ mem'[w].units = mem[w].units /\ mem'[w].next = mem[w].next
  /\ mem'[w].at = mem[w].at + 1
  /\ mem'[w].pc \in {"work", "commit"}
  /\ mem'[w].pc = "work" => mem'[w].at # Cardinality(mem[w].units)

LEMMA HolderWorks ==
  ASSUME AnalysisInv, NEW w \in Worker, Holds(w), mem[w].pc \in {"work", "write", "commit"}
  PROVE  /\ HandOf(w) /\ Ready(w) /\ Positioned(w) /\ Sighted(w)
         /\ ~Clobbered => Backed(w)
         /\ task.config \in Config /\ ConfigOf(w) = task.config
         /\ mem[w] \in MemRow /\ mem[w].part \in Part
         /\ mem[w].units \in SUBSET (0..NFiles)
         /\ task.phase = PhaseOf[mem[w].part]
         /\ task.status \in {"working", "pausing"}
<1>1. HandOf(w)
  BY HolderKnown
<1>2. mem[w] \in MemRow /\ task.config \in Config
  BY DEF AnalysisInv, MemTyped, RowInv, RowsTyped
<1>3. Positioned(w)
  BY <1>1 DEF HandOf
<1> QED
  BY <1>1, <1>2, <1>3 DEF HandOf, Positioned, ConfigOf, MemRow

LEMMA CurrentSound ==
  ASSUME AnalysisInv, NEW w \in Worker, Holds(w), mem[w].pc \in {"work", "write"}
  PROVE  /\ Current(w) \in mem[w].units
         /\ Current(w) \notin Pending(w)
         /\ Pending(w) \subseteq mem[w].units
         /\ Advances(w) => Pending(w)' = Pending(w) \cup {Current(w)}
<1>1. PICK S \in SUBSET (0..NFiles) : S = mem[w].units
  BY HolderWorks
<1>2. PICK m \in Nat, n \in Nat : m = mem[w].next /\ n = mem[w].at
  BY HolderWorks DEF MemRow
<1>3. m <= n /\ n < Cardinality(S)
  BY <1>1, <1>2, HolderWorks DEF Positioned
<1>4. S \in SUBSET Nat /\ IsFiniteSet(S) /\ Cardinality(S) \in Nat
  BY UnitsFinite
<1>5. Pending(w) = Between(S, m, n) /\ Current(w) = Nth(S, n + 1)
  BY <1>1, <1>2 DEF Pending, Current, Between
<1>6. Advances(w) => Pending(w)' = Between(S, m, n + 1)
  BY <1>1, <1>2 DEF Advances, Pending, Between
<1>7. n \in 0..Cardinality(S) /\ m \in 0..n
  BY <1>3, <1>4
<1>8. Between(S, m, n) \subseteq S
  BY <1>4, <1>7, DoneSound
<1> QED
  BY <1>1, <1>3, <1>4, <1>5, <1>6, <1>8, BetweenGrows

LEMMA PendingSound ==
  ASSUME AnalysisInv, NEW w \in Worker, Holds(w), mem[w].pc \in {"work", "write", "commit"}
  PROVE  Pending(w) \subseteq mem[w].units
<1>1. PICK S \in SUBSET (0..NFiles) : S = mem[w].units
  BY HolderWorks
<1>2. PICK m \in Nat, n \in Nat : m = mem[w].next /\ n = mem[w].at
  BY HolderWorks DEF MemRow
<1>3. m <= n /\ n <= Cardinality(S)
  BY <1>1, <1>2, HolderWorks DEF Positioned
<1>4. S \in SUBSET Nat /\ IsFiniteSet(S) /\ Cardinality(S) \in Nat
  BY UnitsFinite
<1>5. Pending(w) = Between(S, m, n)
  BY <1>1, <1>2 DEF Pending, Between
<1>6. n \in 0..Cardinality(S) /\ m \in 0..n
  BY <1>3, <1>4
<1> QED
  BY <1>1, <1>4, <1>5, <1>6, DoneSound

LEMMA InputsSound ==
  ASSUME AnalysisInv, NEW f \in Inputs
  PROVE  f \in File /\ (~Unchanged(f) => Excused)
<1>1. f \in File /\ rows[f].state = "valid"
  BY DEF Inputs
<1>2. rows[f].listed # 0
  BY <1>1 DEF AnalysisInv, RowInv, VersionsSound
<1> QED
  BY <1>1, <1>2 DEF Excused

LEMMA UnitsWithin ==
  ASSUME NEW c \in Config
  PROVE  /\ UnitsOf(c, "clip") = Inputs /\ UnitsOf(c, "score") = Inputs
         /\ UnitsOf(c, "style") = Scopes /\ UnitsOf(c, "embed") = SamplesOf(c)
         /\ SamplesOf(c) \subseteq Scopes /\ Scopes \subseteq Inputs /\ Inputs \subseteq File
BY DEF UnitsOf, SamplesOf, Scopes, Inputs

LEMMA AssignedKnown ==
  ASSUME AnalysisInv, NEW w \in Worker, Holds(w), mem[w].pc \in {"work", "write", "commit"}
  PROVE  /\ mem[w].part # "scan" => mem[w].units = UnitsOf(task.config, mem[w].part)
         /\ mem[w].part = "scan" => mem[w].units = Listed(mem[w].list)
BY HolderWorks DEF Positioned, Assigned

(* Whoever it is: the step is one of the types.                            *)
LEMMA RowAdvances ==
  ASSUME AnalysisInv, NEW w \in Worker, NEW r \in MemRow, mem' = [mem EXCEPT ![w] = r],
         ckpt' = ckpt, mem[w].pc \in {"work", "write"},
         r.part = mem[w].part, r.config = mem[w].config, r.units = mem[w].units,
         r.next = mem[w].next, r.at = mem[w].at + 1, r.pc \in {"work", "commit"},
         r.pc = "work" => r.at # Cardinality(mem[w].units)
  PROVE  /\ MemTyped'
         /\ mem'[w] = r
         /\ \A x \in Worker \ {w} : mem'[x] = mem[x]
         /\ Advances(w)
<1>1. r.part = "sae" /\ r.pc \in {"work", "write"}
        => r.config \in Config /\ ckpt'[r.config]["embed"] # None
  BY DEF AnalysisInv, MemTyped
<1>2. MemTyped' /\ mem'[w] = r /\ \A x \in Worker \ {w} : mem'[x] = mem[x]
  BY <1>1, OneMoves DEF AnalysisInv
<1> QED
  BY <1>2 DEF Advances

LEMMA GatheredSound ==
  ASSUME AnalysisInv, NEW w \in Worker,
         NEW v, Current(w) \in File => v \in State \cup Worker \cup {None},
         Gathered(w, v), ckpt' = ckpt, mem[w].pc \in {"work", "write"}
  PROVE  /\ MemTyped'
         /\ \A x \in Worker \ {w} : mem'[x] = mem[x]
         /\ Advances(w)
         /\ mem'[w].list = mem[w].list
         /\ mem'[w].seen = [mem[w].seen EXCEPT ![Current(w)] = v]
<1>1. mem[w] \in MemRow /\ mem \in [Worker -> MemRow]
  BY DEF AnalysisInv, MemTyped
<1>2. PICK pc \in {"work", "commit"} :
        /\ pc = "work" => mem[w].at + 1 # Cardinality(mem[w].units)
        /\ mem' = [mem EXCEPT ![w].at = mem[w].at + 1, ![w].seen[Current(w)] = v, ![w].pc = pc]
  BY DEF Gathered
<1>3. PICK r : r = [mem[w] EXCEPT !.at = mem[w].at + 1, !.seen[Current(w)] = v, !.pc = pc]
  OBVIOUS
<1>4. mem' = [mem EXCEPT ![w] = r]
  BY <1>1, <1>2, <1>3
<1>5. /\ r.part = mem[w].part /\ r.config = mem[w].config /\ r.units = mem[w].units
      /\ r.next = mem[w].next /\ r.at = mem[w].at + 1 /\ r.pc = pc
      /\ r.list = mem[w].list /\ r.seen = [mem[w].seen EXCEPT ![Current(w)] = v]
  BY <1>1, <1>3 DEF MemRow
<1>6. r \in MemRow
  <2>1. PICK x : x = Current(w)
    OBVIOUS
  <2>2. mem[w].seen \in [File -> State \cup Worker \cup {None}] /\ mem[w].at \in Nat
    BY <1>1 DEF MemRow
  <2>3. r.at \in Nat
    BY <1>5, <2>2
  <2>4. PICK seen, T : seen = mem[w].seen /\ T = State \cup Worker \cup {None}
    OBVIOUS
  <2>5. seen \in [File -> T] /\ (x \in File => v \in T)
    BY <2>1, <2>2, <2>4
  <2>6. [seen EXCEPT ![x] = v] \in [File -> T]
    BY <2>5
  <2>7. r.seen \in [File -> State \cup Worker \cup {None}]
    BY <1>5, <2>1, <2>4, <2>6
  <2> QED
    BY <1>1, <1>3, <1>5, <2>3, <2>7 DEF MemRow, Place
<1> QED
  BY <1>2, <1>4, <1>5, <1>6, RowAdvances

LEMMA PositionGrows ==
  ASSUME AnalysisInv, NEW w \in Worker, Holds(w), mem[w].pc \in {"work", "write"},
         Advances(w), UNCHANGED <<task, ckpt, tree, rows, found>>,
         mem[w].part = "scan" => mem'[w].list = mem[w].list
  PROVE  Positioned(w)'
<1>1. Positioned(w) /\ mem[w].units \in SUBSET (0..NFiles) /\ mem[w] \in MemRow
  BY HolderWorks
<1>2. mem[w].at \in Nat /\ mem[w].next \in Nat /\ Cardinality(mem[w].units) \in Nat
  BY <1>1, UnitsFinite DEF MemRow
<1>3. Assigned(w)' = Assigned(w)
  <2>1. UnitsOf(task.config, mem[w].part)' = UnitsOf(task.config, mem[w].part)
    BY DEF Advances, UnitsOf, SamplesOf, Scopes, Outside, Inputs, Listed
  <2> QED
    BY <2>1 DEF Advances, Assigned, Listed
<1>4. /\ mem[w].at < Cardinality(mem[w].units) /\ mem[w].next <= mem[w].at
      /\ mem'[w].at = mem[w].at + 1
  BY <1>1 DEF Positioned, Advances
<1>5. /\ mem'[w].next <= mem'[w].at /\ mem'[w].at <= Cardinality(mem'[w].units)
      /\ mem'[w].pc # "commit" => mem'[w].at < Cardinality(mem'[w].units)
  BY <1>2, <1>4 DEF Advances
<1> QED
  BY <1>1, <1>3, <1>5 DEF Positioned, Advances, Complete, Reached, NotNewer

(* A unit done that writes no file.                                        *)
LEMMA AdvanceKeeps ==
  ASSUME AnalysisInv, NEW w \in Worker, mem[w].pc \in {"work", "write"},
         UNCHANGED <<task, holder, ckpt, tree, disk, rows, found, hist>>,
         MemTyped', \A x \in Worker \ {w} : mem'[x] = mem[x], Advances(w),
         mem[w].part = "scan" => mem'[w].list = mem[w].list,
         Holds(w) => Sighted(w)' /\ (~Clobbered => Backed(w)')
  PROVE  AnalysisInv'
<1>1. ASSUME Holds(w) PROVE HandOf(w)'
  <2>1. HandOf(w) /\ Ready(w)
    BY <1>1, HolderWorks
  <2>2. Positioned(w)'
    BY <1>1, PositionGrows
  <2>3. Ready(w)' /\ Clobbered' = Clobbered
    BY <2>1 DEF Ready, Supported, Complete, Advances, Clobbered
  <2> QED
    BY <1>1, <2>1, <2>2, <2>3 DEF HandOf, Advances
<1> QED
  BY <1>1, MemMoves DEF Holds

(* A file is to be written for the unit.                                   *)
Unregistered(w) ==
  /\ mem[w].part = "clip" => \A c \in Config : ClipShas(c)[Current(w)] = None
  /\ mem[w].part = "embed" => found.shards[Current(w)] = None
  /\ mem[w].part = "sae" => found.codes[CodeKey(w)] = None

LEMMA ToWriteKeeps ==
  ASSUME AnalysisInv, NEW w \in Worker, mem[w].pc = "work",
         mem[w].part \in {"clip", "embed", "sae"},
         mem' = [mem EXCEPT ![w].pc = "write"],
         UNCHANGED <<task, holder, ckpt, tree, disk, rows, found, hist>>,
         Holds(w) /\ ~Clobbered => Unregistered(w)
  PROVE  AnalysisInv'
<1>1. mem[w] \in MemRow /\ mem \in [Worker -> MemRow] /\ MemTyped
  BY DEF AnalysisInv, MemTyped
<1>2. PICK r : r = [mem[w] EXCEPT !.pc = "write"]
  OBVIOUS
<1>3. r \in MemRow /\ mem' = [mem EXCEPT ![w] = r]
  BY <1>1, <1>2 DEF MemRow, Place
<1>4. /\ r.pc = "write" /\ r.part = mem[w].part /\ r.config = mem[w].config
      /\ r.units = mem[w].units /\ r.next = mem[w].next /\ r.at = mem[w].at
      /\ r.seen = mem[w].seen /\ r.list = mem[w].list
  BY <1>1, <1>2 DEF MemRow
<1>5. MemTyped' /\ mem'[w] = r /\ \A x \in Worker \ {w} : mem'[x] = mem[x]
  <2>1. r.part = "sae" /\ r.pc \in {"work", "write"}
          => r.config \in Config /\ ckpt'[r.config]["embed"] # None
    BY <1>1, <1>4 DEF MemTyped
  <2> QED
    BY <1>1, <1>3, <2>1, OneMoves
<1>6. ASSUME Holds(w) PROVE HandOf(w)'
  <2>1. /\ HandOf(w) /\ Ready(w) /\ Positioned(w) /\ Sighted(w)
        /\ ~Clobbered => Backed(w)
    BY <1>6, HolderWorks
  <2>2. Assigned(w)' = Assigned(w)
    <3>1. UnitsOf(task.config, mem[w].part)' = UnitsOf(task.config, mem[w].part)
      BY <1>4, <1>5 DEF UnitsOf, SamplesOf, Scopes, Outside, Inputs, Listed
    <3> QED
      BY <1>4, <1>5, <3>1 DEF Assigned, Listed
  <2>3. Positioned(w)'
    BY <1>4, <1>5, <2>1, <2>2 DEF Positioned, Complete, Reached, NotNewer
  <2>4. Pending(w)' = Pending(w) /\ Current(w)' = Current(w) /\ CodeKey(w)' = CodeKey(w)
    BY <1>4, <1>5 DEF Pending, Current, CodeKey, ConfigOf
  <2>5. Sighted(w)'
    BY <1>4, <1>5, <2>1, <2>4 DEF Sighted
  <2>6. ~Clobbered' => Backed(w)'
    BY <1>4, <1>5, <1>6, <2>1, <2>4 DEF Backed, Clobbered, Unregistered, ClipShas
  <2>7. Ready(w)'
    BY <1>4, <1>5, <2>1 DEF Ready, Supported, Complete
  <2> QED
    BY <1>4, <1>5, <2>1, <2>3, <2>5, <2>6, <2>7 DEF HandOf
<1> QED
  BY <1>5, <1>6, MemMoves DEF Holds

LEMMA DecodeKeeps ==
  ASSUME AnalysisInv, NEW w \in Worker, Decode(w)
  PROVE  AnalysisInv'
<1>1. mem[w].part = "scan" /\ mem[w].pc = "work"
      /\ UNCHANGED <<task, holder, ckpt, tree, disk, rows, found, hist>>
  BY DEF Decode, At
<1>2. PICK v : v = Decoded(Current(w), mem[w].list.list[Current(w)])
  OBVIOUS
<1>3. v \in State \ {"none", "missing"}
  BY <1>2 DEF Decoded, State
<1>4. Gathered(w, v)
  BY <1>2 DEF Decode
<1>5. /\ MemTyped' /\ \A x \in Worker \ {w} : mem'[x] = mem[x]
      /\ Advances(w) /\ mem'[w].list = mem[w].list
      /\ mem'[w].seen = [mem[w].seen EXCEPT ![Current(w)] = v]
  BY <1>1, <1>3, <1>4, GatheredSound
<1>6. ASSUME Holds(w) PROVE Sighted(w)' /\ (~Clobbered => Backed(w)')
  <2>1. /\ Sighted(w) /\ (~Clobbered => Backed(w)) /\ mem[w] \in MemRow
        /\ Current(w) \in mem[w].units /\ Pending(w) \subseteq mem[w].units
        /\ Pending(w)' = Pending(w) \cup {Current(w)}
    BY <1>1, <1>5, <1>6, HolderWorks, CurrentSound
  <2>2. mem[w].units \subseteq File
    BY <1>1, <1>6, AssignedKnown DEF Listed
  <2>3. \A f \in Pending(w)' : mem'[w].seen[f] \in State \ {"none", "missing"}
    BY <1>1, <1>3, <1>5, <2>1, <2>2 DEF Sighted, MemRow
  <2>4. mem'[w].part = "scan" /\ mem'[w].pc # "write"
    BY <1>1, <1>5 DEF Advances
  <2> QED
    BY <1>1, <1>5, <2>1, <2>3, <2>4 DEF Sighted, Backed
<1> QED
  BY <1>1, <1>5, <1>6, AdvanceKeeps

(* The shards of the files a scorer reads.                                 *)
LEMMA ClipKnown ==
  ASSUME AnalysisInv, NEW c \in Config, Complete(c, "clip"), NEW f \in Inputs
  PROVE  ClipShas(c)[f] # None
<1> DEFINE k == ckpt[c]["clip"]
<1>1. k \in CursorRow("clip") /\ CursorSound(c, "clip") /\ k # None /\ k.complete
  BY DEF AnalysisInv, RowInv, RowsTyped, CursorsSound, Complete, Part
<1>2. k.sha \in Hashes /\ k.units \in SUBSET (0..NFiles)
  BY <1>1 DEF CursorRow
<1>3. PICK S \in SUBSET (0..NFiles) : S = k.units
  BY <1>2
<1>4. PICK n \in Nat : n = Cardinality(S)
  BY UnitsFinite
<1>5. k.next = n /\ S = Inputs
  BY <1>1, <1>3, <1>4 DEF CursorSound, UnitsOf
<1>6. Done(S, n) = S
  BY <1>4, UnitsFinite, DoneSound
<1>7. k.sha[f] # None
  BY <1>1, <1>3, <1>5, <1>6 DEF CursorSound
<1>8. k.sha # None
  BY <1>2, NoneAssumption
<1> QED
  BY <1>1, <1>7, <1>8 DEF ClipShas

LEMMA ClipShasTyped ==
  ASSUME AnalysisInv, NEW c \in Config
  PROVE  ClipShas(c) \in Hashes
<1>1. ckpt[c]["clip"] \in CursorRow("clip") \cup {None}
  BY DEF AnalysisInv, RowInv, RowsTyped, Part
<1>2. CASE ckpt[c]["clip"] = None \/ ckpt[c]["clip"].sha = None
  BY <1>2 DEF ClipShas, Idle, Hashes
<1>3. CASE ~(ckpt[c]["clip"] = None \/ ckpt[c]["clip"].sha = None)
  BY <1>1, <1>3 DEF ClipShas, CursorRow
<1> QED
  BY <1>2, <1>3

LEMMA ExtractKeeps ==
  ASSUME AnalysisInv, NEW w \in Worker, Extract(w)
  PROVE  AnalysisInv'
<1>1. mem[w].part = "clip" /\ mem[w].pc = "work"
  BY DEF Extract, At
<1>2. PICK f : f = Current(w)
  OBVIOUS
<1>3. Holds(w) => /\ f \in Inputs /\ f \in File
                  /\ ConfigOf(w) \in Config
                  /\ ~Unchanged(f) => Excused
  BY <1>1, <1>2, CurrentSound, AssignedKnown, HolderWorks, UnitsWithin, InputsSound
<1>4. Holds(w) /\ ~Clobbered => \A c \in Config : ClipShas(c)[f] \in {None, disk.clip[f]}
  BY <1>3 DEF AnalysisInv, RowInv, Vouched
<1>5. CASE \/ ~Unchanged(f)
           \/ disk.clip[f] # None /\ ClipShas(ConfigOf(w))[f] \notin {None, disk.clip[f]}
  <2>1. Raise(w)
    BY <1>2, <1>5 DEF Extract
  <2>2. Holds(w) => Excused
    BY <1>3, <1>4, <1>5 DEF Excused, Clobbered
  <2> QED
    BY <2>1, <2>2, RaiseKeeps
<1>6. CASE /\ Unchanged(f)
           /\ disk.clip[f] # None /\ ClipShas(ConfigOf(w))[f] \in {None, disk.clip[f]}
  <2>1. PICK v : v = disk.clip[f]
    OBVIOUS
  <2>2. Gathered(w, v) /\ UNCHANGED <<task, holder, ckpt, tree, disk, rows, found, hist>>
    BY <1>2, <1>6, <2>1 DEF Extract
  <2>3. (f \in File => v \in Worker) /\ v # None
    BY <1>6, <2>1 DEF AnalysisInv, RowInv, DiskTyped, Hashes
  <2>4. /\ MemTyped' /\ \A x \in Worker \ {w} : mem'[x] = mem[x]
        /\ Advances(w) /\ mem'[w].list = mem[w].list
        /\ mem'[w].seen = [mem[w].seen EXCEPT ![f] = v]
    BY <1>1, <1>2, <2>2, <2>3, GatheredSound
  <2>5. ASSUME Holds(w) PROVE Sighted(w)' /\ (~Clobbered => Backed(w)')
    <3>1. /\ Sighted(w) /\ (~Clobbered => Backed(w)) /\ mem[w] \in MemRow
          /\ f \notin Pending(w) /\ Pending(w)' = Pending(w) \cup {f}
      BY <1>1, <1>2, <2>4, <2>5, HolderWorks, CurrentSound
    <3>2. mem'[w].part = "clip" /\ mem'[w].pc # "write" /\ f \in File
      BY <1>1, <1>3, <2>4, <2>5 DEF Advances
    <3>3. /\ mem'[w].seen[f] = v
          /\ \A g \in File \ {f} : mem'[w].seen[g] = mem[w].seen[g]
      BY <2>4, <3>1, <3>2 DEF MemRow
    <3>4. Sighted(w)'
      BY <1>1, <2>3, <3>1, <3>2, <3>3 DEF Sighted
    <3>5. Pending(w) \subseteq File
      BY <1>1, <2>5, CurrentSound, AssignedKnown, HolderWorks, UnitsWithin
    <3>6. ~Clobbered => Backed(w)'
      BY <1>1, <2>1, <2>2, <3>1, <3>2, <3>3, <3>5 DEF Backed
    <3> QED
      BY <3>4, <3>6
  <2> QED
    BY <1>1, <2>2, <2>4, <2>5, AdvanceKeeps
<1>7. CASE Unchanged(f) /\ disk.clip[f] = None
  <2>1. mem' = [mem EXCEPT ![w].pc = "write"]
        /\ UNCHANGED <<task, holder, ckpt, tree, disk, rows, found, hist>>
    BY <1>2, <1>7 DEF Extract
  <2>2. Holds(w) /\ ~Clobbered => Unregistered(w)
    BY <1>1, <1>2, <1>4, <1>7 DEF Unregistered
  <2> QED
    BY <1>1, <2>1, <2>2, ToWriteKeeps
<1> QED
  BY <1>5, <1>6, <1>7

LEMMA ScoreKeeps ==
  ASSUME AnalysisInv, NEW w \in Worker, Score(w)
  PROVE  AnalysisInv'
<1>1. mem[w].part = "score" /\ mem[w].pc = "work"
  BY DEF Score, At
<1>2. PICK f : f = Current(w)
  OBVIOUS
<1>3. CASE Unchanged(f) /\ (Cached(ConfigOf(w), f) \/ Inferable(ConfigOf(w), f))
  <2>1. Gathered(w, None) /\ UNCHANGED <<task, holder, ckpt, tree, disk, rows, found, hist>>
    BY <1>2, <1>3 DEF Score
  <2>2. MemTyped' /\ Advances(w) /\ \A x \in Worker \ {w} : mem'[x] = mem[x]
    BY <1>1, <2>1, GatheredSound
  <2>3. ASSUME Holds(w) PROVE Sighted(w)' /\ Backed(w)'
    BY <1>1, <2>2 DEF Advances, Sighted, Backed
  <2> QED
    BY <1>1, <2>1, <2>2, <2>3, AdvanceKeeps
<1>4. CASE ~(Unchanged(f) /\ (Cached(ConfigOf(w), f) \/ Inferable(ConfigOf(w), f)))
  <2>1. Raise(w)
    BY <1>2, <1>4 DEF Score
  <2>2. ASSUME Holds(w) PROVE Excused
    <3>1. /\ f \in Inputs /\ f \in File /\ ConfigOf(w) \in Config
          /\ ~Unchanged(f) => Excused
      BY <1>1, <1>2, <2>2, CurrentSound, AssignedKnown, HolderWorks, UnitsWithin, InputsSound
    <3>2. Complete(ConfigOf(w), "clip")
      BY <1>1, <2>2, HolderWorks DEF Ready, Supported
    <3>3. ClipShas(ConfigOf(w))[f] # None
      BY <3>1, <3>2, ClipKnown
    <3>4. ~Clobbered => Inferable(ConfigOf(w), f)
      BY <3>1, <3>3 DEF AnalysisInv, RowInv, Vouched, Inferable
    <3> QED
      BY <1>4, <3>1, <3>4 DEF Excused, Clobbered
  <2> QED
    BY <2>1, <2>2, RaiseKeeps
<1> QED
  BY <1>3, <1>4

LEMMA AssessKeeps ==
  ASSUME AnalysisInv, NEW w \in Worker, Assess(w)
  PROVE  AnalysisInv'
<1>1. mem[w].part = "style" /\ mem[w].pc = "work" /\ mem[w] \in MemRow
  BY DEF Assess, At, AnalysisInv, MemTyped
<1>2. PICK f : f = Current(w)
  OBVIOUS
<1>3. CASE Assessed(ConfigOf(w), f) \/ Unchanged(f)
  <2>0. PICK n : n = mem[w].at + 1
    OBVIOUS
  <2>1. PICK r : r = [mem[w] EXCEPT !.at = n, !.pc = "commit"]
    OBVIOUS
  <2>2. /\ r \in MemRow /\ r.part = "style" /\ r.config = mem[w].config
        /\ r.units = mem[w].units /\ r.next = mem[w].next /\ r.at = mem[w].at + 1
        /\ r.pc = "commit"
    <3>1. mem[w].at \in Nat
      BY <1>1 DEF MemRow
    <3>2. n \in Nat
      BY <2>0, <3>1
    <3> QED
      BY <1>1, <2>0, <2>1, <3>2 DEF MemRow, Place
  <2>3. mem' = [mem EXCEPT ![w] = r]
        /\ UNCHANGED <<task, holder, ckpt, tree, disk, rows, found, hist>>
    BY <1>2, <1>3, <2>0, <2>1 DEF Assess, AnalysisInv, MemTyped
  <2>4. MemTyped' /\ Advances(w) /\ mem'[w] = r /\ \A x \in Worker \ {w} : mem'[x] = mem[x]
    BY <1>1, <2>2, <2>3, RowAdvances
  <2>5. Sighted(w)' /\ Backed(w)'
    <3>1. mem'[w].part = r.part /\ mem'[w].pc = "commit"
      BY <2>2, <2>4
    <3> QED
      BY <2>2, <3>1 DEF Sighted, Backed
  <2> QED
    BY <1>1, <2>3, <2>4, <2>5, AdvanceKeeps
<1>4. CASE ~(Assessed(ConfigOf(w), f) \/ Unchanged(f))
  <2>1. Holds(w) => f \in Inputs
    BY <1>1, <1>2, CurrentSound, AssignedKnown, HolderWorks, UnitsWithin
  <2> QED
    BY <1>2, <1>4, <2>1, InputsSound, RaiseKeeps DEF Assess
<1> QED
  BY <1>3, <1>4

LEMMA EmbedKeeps ==
  ASSUME AnalysisInv, NEW w \in Worker, Embed(w)
  PROVE  AnalysisInv'
<1>1. mem[w].part = "embed" /\ mem[w].pc = "work" /\ mem[w] \in MemRow
  BY DEF Embed, At, AnalysisInv, MemTyped
<1>2. PICK f : f = Current(w)
  OBVIOUS
<1>3. Holds(w) => f \in Inputs /\ f \in File
  BY <1>1, <1>2, CurrentSound, AssignedKnown, HolderWorks, UnitsWithin
<1>4. Holds(w) /\ ~Clobbered => Intact(f)
  BY <1>3 DEF AnalysisInv, RowInv, Vouched
<1>5. CASE ~Intact(f) \/ (found.shards[f] = None /\ ~Unchanged(f))
  <2>1. Holds(w) => Excused
    BY <1>3, <1>4, <1>5, InputsSound DEF Excused, Clobbered
  <2> QED
    BY <1>2, <1>5, <2>1, RaiseKeeps DEF Embed
<1>6. CASE Intact(f) /\ found.shards[f] # None
  <2>1. PICK v : v = found.shards[f]
    OBVIOUS
  <2>2. PICK r : r = [mem[w] EXCEPT !.at = mem[w].at + 1, !.pc = "commit", !.seen[f] = v]
    OBVIOUS
  <2>3. f \in File => v \in Worker
    BY <1>6, <2>1 DEF AnalysisInv, RowInv, DiskTyped, Hashes
  <2>4. /\ r.part = "embed" /\ r.config = mem[w].config
        /\ r.units = mem[w].units /\ r.next = mem[w].next /\ r.at = mem[w].at + 1
        /\ r.pc = "commit" /\ r.list = mem[w].list /\ r.seen = [mem[w].seen EXCEPT ![f] = v]
    BY <1>1, <2>2 DEF MemRow
  <2>5. r \in MemRow
    <3>1. PICK seen, T : seen = mem[w].seen /\ T = State \cup Worker \cup {None}
      OBVIOUS
    <3>2. seen \in [File -> T] /\ (f \in File => v \in T)
      BY <1>1, <2>3, <3>1 DEF MemRow
    <3>3. [seen EXCEPT ![f] = v] \in [File -> T]
      BY <3>2
    <3>4. r.seen \in [File -> State \cup Worker \cup {None}] /\ r.at \in Nat
      BY <1>1, <2>4, <3>1, <3>3 DEF MemRow
    <3> QED
      BY <1>1, <2>2, <2>4, <3>4 DEF MemRow, Place
  <2>6. mem' = [mem EXCEPT ![w] = r]
        /\ UNCHANGED <<task, holder, ckpt, tree, disk, rows, found, hist>>
    <3>1. mem' = [mem EXCEPT ![w].at = @ + 1, ![w].pc = "commit",
                             ![w].seen[f] = found.shards[f]]
          /\ UNCHANGED <<task, holder, ckpt, tree, disk, rows, found, hist>>
      BY <1>2, <1>6 DEF Embed
    <3> QED
      BY <2>1, <2>2, <3>1 DEF AnalysisInv, MemTyped
  <2>7. MemTyped' /\ Advances(w) /\ mem'[w] = r /\ \A x \in Worker \ {w} : mem'[x] = mem[x]
    BY <1>1, <2>4, <2>5, <2>6, RowAdvances
  <2>8. ASSUME Holds(w) PROVE Sighted(w)' /\ (~Clobbered => Backed(w)')
    <3>1. /\ Sighted(w) /\ (~Clobbered => Backed(w))
          /\ Pending(w)' = Pending(w) \cup {f}
      BY <1>1, <1>2, <2>7, <2>8, HolderWorks, CurrentSound
    <3>2. /\ mem'[w].seen[f] = v
          /\ \A g \in File \ {f} : mem'[w].seen[g] = mem[w].seen[g]
      BY <1>1, <1>3, <2>4, <2>7, <2>8 DEF MemRow
    <3>3. Sighted(w)'
      BY <1>1, <1>3, <2>3, <2>4, <2>7, <2>8, <3>1, <3>2 DEF Sighted
    <3>4. ~Clobbered => Backed(w)'
      BY <1>1, <1>6, <2>1, <2>4, <2>6, <2>7, <3>1, <3>2 DEF Backed, Intact
    <3> QED
      BY <3>3, <3>4
  <2> QED
    BY <1>1, <2>6, <2>7, <2>8, AdvanceKeeps
<1>7. CASE Intact(f) /\ found.shards[f] = None /\ Unchanged(f)
  <2>1. mem' = [mem EXCEPT ![w].pc = "write"]
        /\ UNCHANGED <<task, holder, ckpt, tree, disk, rows, found, hist>>
    BY <1>2, <1>7 DEF Embed
  <2>2. Unregistered(w)
    BY <1>1, <1>2, <1>7 DEF Unregistered
  <2> QED
    BY <1>1, <2>1, <2>2, ToWriteKeeps
<1> QED
  BY <1>5, <1>6, <1>7

(* The autoencoder a worker is at is one of files.                         *)
LEMMA KeySound ==
  ASSUME AnalysisInv, NEW c \in Config, ckpt[c]["embed"] # None
  PROVE  ckpt[c]["embed"].units \in SUBSET File
BY DEF AnalysisInv, RowInv, CursorsSound, CursorSound, UnitsOf, SamplesOf, Scopes, Inputs, Part

LEMMA TrainKeeps ==
  ASSUME AnalysisInv, NEW w \in Worker, Train(w)
  PROVE  AnalysisInv'
<1>1. mem[w].part = "sae" /\ mem[w].pc = "work" /\ mem[w] \in MemRow
  BY DEF Train, At, AnalysisInv, MemTyped
<1>2. PICK key : key = CodeKey(w)
  OBVIOUS
<1>3. key \in SUBSET File
  BY <1>1, <1>2, KeySound DEF CodeKey, ConfigOf, AnalysisInv, MemTyped
<1>4. ~Clobbered => Loadable(key) /\ found.codes[key] \in {None, disk.sae[key]}
  BY <1>3 DEF AnalysisInv, RowInv, Vouched, Loadable
<1>5. CASE \/ found.codes[key] \notin {None, disk.sae[key]}
           \/ found.codes[key] = None /\ ~Loadable(key)
  BY <1>2, <1>4, <1>5, RaiseKeeps DEF Train, Excused, Clobbered
<1>6. CASE found.codes[key] = disk.sae[key] /\ found.codes[key] # None
  <2>1. PICK v : v = found.codes[key]
    OBVIOUS
  <2>0. PICK n : n = mem[w].at + 1
    OBVIOUS
  <2>2. PICK r : r = [mem[w] EXCEPT !.at = n, !.pc = "commit", !.list = v]
    OBVIOUS
  <2>3. v \in Worker
    BY <1>3, <1>6, <2>1 DEF AnalysisInv, RowInv, DiskTyped
  <2>4. /\ r \in MemRow /\ r.part = "sae" /\ r.config = mem[w].config
        /\ r.units = mem[w].units /\ r.next = mem[w].next /\ r.at = mem[w].at + 1
        /\ r.pc = "commit" /\ r.list = v
    <3>1. mem[w].at \in Nat
      BY <1>1 DEF MemRow
    <3>2. n \in Nat
      BY <2>0, <3>1
    <3> QED
      BY <1>1, <2>0, <2>2, <2>3, <3>2 DEF MemRow, Place
  <2>5. mem' = [mem EXCEPT ![w] = r]
        /\ UNCHANGED <<task, holder, ckpt, tree, disk, rows, found, hist>>
    <3>1. mem' = [mem EXCEPT ![w].at = @ + 1, ![w].pc = "commit", ![w].list = found.codes[key]]
          /\ UNCHANGED <<task, holder, ckpt, tree, disk, rows, found, hist>>
      BY <1>2, <1>6 DEF Train
    <3> QED
      BY <2>0, <2>1, <2>2, <3>1 DEF AnalysisInv, MemTyped
  <2>6. MemTyped' /\ Advances(w) /\ mem'[w] = r /\ \A x \in Worker \ {w} : mem'[x] = mem[x]
    BY <1>1, <2>4, <2>5, RowAdvances
  <2>7. CodeKey(w)' = key
    BY <1>2, <2>4, <2>5, <2>6 DEF CodeKey, ConfigOf
  <2>8. Sighted(w)' /\ Backed(w)'
    <3>1. mem'[w].part = "sae" /\ mem'[w].pc = "commit" /\ mem'[w].list = v
      BY <2>4, <2>6
    <3>2. v = disk'.sae[key]
      BY <1>6, <2>1, <2>5
    <3> QED
      BY <2>3, <2>7, <3>1, <3>2 DEF Sighted, Backed
  <2> QED
    BY <1>1, <2>5, <2>6, <2>8, AdvanceKeeps
<1>7. CASE found.codes[key] = None /\ Loadable(key)
  <2>1. mem' = [mem EXCEPT ![w].pc = "write"]
        /\ UNCHANGED <<task, holder, ckpt, tree, disk, rows, found, hist>>
    BY <1>2, <1>7 DEF Train
  <2>2. Unregistered(w)
    BY <1>1, <1>2, <1>7 DEF Unregistered
  <2> QED
    BY <1>1, <2>1, <2>2, ToWriteKeeps
<1> QED
  BY <1>5, <1>6, <1>7

LEMMA GroupKeeps ==
  ASSUME AnalysisInv, NEW w \in Worker, Group(w)
  PROVE  AnalysisInv'
<1>1. mem[w].part = "group" /\ mem[w].pc = "work" /\ mem[w] \in MemRow
  BY DEF Group, At, AnalysisInv, MemTyped
<1>2. PICK s : s = Current(w)
  OBVIOUS
<1>3. CASE Loadable(Members(ConfigOf(w), s))
  <2>0. PICK n : n = mem[w].at + 1
    OBVIOUS
  <2>1. PICK r : r = [mem[w] EXCEPT !.at = n, !.pc = "commit"]
    OBVIOUS
  <2>2. /\ r \in MemRow /\ r.part = "group" /\ r.config = mem[w].config
        /\ r.units = mem[w].units /\ r.next = mem[w].next /\ r.at = mem[w].at + 1
        /\ r.pc = "commit"
    <3>1. mem[w].at \in Nat
      BY <1>1 DEF MemRow
    <3>2. n \in Nat
      BY <2>0, <3>1
    <3> QED
      BY <1>1, <2>0, <2>1, <3>2 DEF MemRow, Place
  <2>3. mem' = [mem EXCEPT ![w] = r]
        /\ UNCHANGED <<task, holder, ckpt, tree, disk, rows, found, hist>>
    BY <1>2, <1>3, <2>0, <2>1 DEF Group, AnalysisInv, MemTyped
  <2>4. MemTyped' /\ Advances(w) /\ mem'[w] = r /\ \A x \in Worker \ {w} : mem'[x] = mem[x]
    BY <1>1, <2>2, <2>3, RowAdvances
  <2>5. Sighted(w)' /\ Backed(w)'
    <3>1. mem'[w].part = r.part /\ mem'[w].pc = "commit"
      BY <2>2, <2>4
    <3> QED
      BY <2>2, <3>1 DEF Sighted, Backed
  <2> QED
    BY <1>1, <2>3, <2>4, <2>5, AdvanceKeeps
<1>4. CASE ~Loadable(Members(ConfigOf(w), s))
  <2>1. ASSUME Holds(w) PROVE Excused
    <3>1. /\ s \in 0..NFiles /\ ConfigOf(w) \in Config
      BY <1>1, <1>2, <2>1, CurrentSound, HolderWorks
    <3>2. ckpt[ConfigOf(w)]["embed"] # None
      BY <1>1, <2>1, HolderWorks DEF Ready, Supported, Complete
    <3>3. s # 0 => s \in File
      BY <3>1, AnalysisAssumption DEF File
    <3>4. Members(ConfigOf(w), s) \subseteq File
      BY <3>1, <3>2, <3>3, KeySound DEF Members
    <3>5. ~Clobbered => Loadable(Members(ConfigOf(w), s))
      BY <3>4 DEF AnalysisInv, RowInv, Vouched, Loadable
    <3> QED
      BY <1>4, <3>5 DEF Excused, Clobbered
  <2> QED
    BY <1>2, <1>4, <2>1, RaiseKeeps DEF Group
<1> QED
  BY <1>3, <1>4

-----------------------------------------------------------------------------
(* Files are written, by whoever is at it.                                 *)

(* A worker without the slot replaces a file of another one: noted.        *)
LEMMA ClobberSound ==
  ASSUME AnalysisInv, NEW P \in BOOLEAN,
         hist' = IF P THEN [hist EXCEPT !.causes = @ \cup {"clobbered"}] ELSE hist
  PROVE  /\ hist' \in [upsets : Nat, causes : SUBSET CauseSet, last : [Phase -> Config \cup {None}]]
         /\ hist'.last = hist.last /\ hist.causes \subseteq hist'.causes
         /\ "returned" \in hist'.causes <=> "returned" \in hist.causes
         /\ ~Clobbered' => ~Clobbered /\ ~P
         /\ hist'.causes = {} => hist.causes = {}
<1>1. hist \in [upsets : Nat, causes : SUBSET CauseSet, last : [Phase -> Config \cup {None}]]
  BY DEF AnalysisInv, RowInv, RowsTyped, CauseSet
<1>2. CASE P
  <2>1. hist' = [hist EXCEPT !.causes = hist.causes \cup {"clobbered"}]
    BY <1>2
  <2>2. hist'.causes = hist.causes \cup {"clobbered"} /\ hist'.last = hist.last
        /\ hist'.upsets = hist.upsets
    BY <1>1, <2>1
  <2> QED
    BY <1>1, <1>2, <2>1, <2>2 DEF Clobbered, CauseSet
<1>3. CASE ~P
  BY <1>1, <1>3 DEF Clobbered
<1> QED
  BY <1>2, <1>3

LEMMA DiskMoves ==
  ASSUME AnalysisInv, NEW w \in Worker, UNCHANGED <<task, holder, ckpt, tree, rows, found>>,
         NEW P \in BOOLEAN,
         hist' = IF P THEN [hist EXCEPT !.causes = @ \cup {"clobbered"}] ELSE hist,
         MemTyped', \A x \in Worker \ {w} : mem'[x] = mem[x],
         disk' \in [manifest : [Config -> Manifest \cup {None}], clip : Hashes, embed : Hashes,
                    sae : [SUBSET File -> Worker \cup {None}]],
         Vouched', \A c \in Config : disk'.manifest[c] # None => NotNewer(disk'.manifest[c].list),
         Holds(w) => HandOf(w)',
         \A x \in Worker \ {w} :
           /\ Holds(x) /\ ~Clobbered'
           /\ mem[x].pc \in {"work", "write", "commit"}
           /\ Positioned(x) /\ Sighted(x) /\ Backed(x)
           => Backed(x)'
  PROVE  AnalysisInv'
<1>1. /\ hist' \in [upsets : Nat, causes : SUBSET CauseSet, last : [Phase -> Config \cup {None}]]
      /\ hist'.last = hist.last /\ hist.causes \subseteq hist'.causes
      /\ "returned" \in hist'.causes <=> "returned" \in hist.causes
      /\ ~Clobbered' => ~Clobbered
      /\ hist'.causes = {} => hist.causes = {}
  BY ClobberSound
<1>2. RowsTyped' /\ DiskTyped'
  BY <1>1 DEF AnalysisInv, RowInv, RowsTyped, DiskTyped, CauseSet
<1>3. CursorsSound' /\ NothingAhead' /\ LastKnown' /\ StyleThere'
  <2>1. CursorsSound'
    BY CursorsKept DEF AnalysisInv, RowInv
  <2> QED
    BY <1>1, <2>1 DEF AnalysisInv, RowInv, NothingAhead, LastKnown, StyleThere, Completes
<1>4. EvidenceSound'
  BY <1>1, EvidenceKept DEF AnalysisInv, RowInv, EvidenceSound, Returned
<1>5. VersionsSound'
  BY DEF AnalysisInv, RowInv, VersionsSound, NotNewer
<1>6. ErrorsExplained'
  BY <1>1 DEF AnalysisInv, RowInv, ErrorsExplained, Unchanged
<1>7. Hand'
  <2>1. CASE holder = None
    BY <2>1 DEF AnalysisInv, Hand
  <2>2. CASE holder = w
    <3>1. w # None
      BY AnalysisAssumption
    <3> QED
      BY <2>2, <3>1 DEF Hand, Holds
  <2>3. CASE holder \notin {None, w}
    <3>1. PICK x \in Worker \ {w} : x = holder
      BY <2>3 DEF AnalysisInv, RowInv, RowsTyped
    <3>2. HandOf(x) /\ Holds(x)
      BY <2>3, <3>1 DEF AnalysisInv, Hand, Holds
    <3>3. mem'[x] = mem[x]
      OBVIOUS
    <3>4. Ready(x)' = Ready(x)
      BY <3>3 DEF Ready, Supported, Complete
    <3>5. UnitsOf(task.config, mem[x].part)' = UnitsOf(task.config, mem[x].part)
      BY <3>3 DEF UnitsOf, SamplesOf, Scopes, Outside, Inputs, Listed
    <3>6. Positioned(x)' = Positioned(x)
      BY <3>3, <3>5 DEF Positioned, Assigned, Complete, Reached, Listed, NotNewer
    <3>7. Pending(x)' = Pending(x)
      BY <3>3 DEF Pending
    <3>8. Sighted(x)' = Sighted(x)
      BY <3>3, <3>7 DEF Sighted
    <3>9. mem[x].pc \in {"work", "write", "commit"} /\ ~Clobbered' => Backed(x)'
      BY <1>1, <3>2 DEF HandOf
    <3>10. HandOf(x)'
      BY <3>2, <3>3, <3>4, <3>6, <3>8, <3>9 DEF HandOf, Fresh, Complete
    <3> QED
      BY <2>3, <3>1, <3>10 DEF Hand
  <2> QED
    BY <2>1, <2>2, <2>3
<1> QED
  BY <1>2, <1>3, <1>4, <1>5, <1>6, <1>7 DEF AnalysisInv, RowInv

LEMMA WriteManifestKeeps ==
  ASSUME AnalysisInv, NEW w \in Worker, WriteManifest(w)
  PROVE  AnalysisInv'
<1>1. PICK c \in Config \cup {None} : c = ConfigOf(w)
  BY DEF ConfigOf, AnalysisInv, MemTyped, MemRow
<1>2. PICK m, u : m = [by |-> w, list |-> tree] /\ u = {f \in File : tree[f] # 0}
  OBVIOUS
<1>3. PICK P \in BOOLEAN : P = (~Holds(w) /\ disk.manifest[c] # None)
  OBVIOUS
<1>4. /\ mem[w].part = "scan" /\ mem[w].pc = "list"
      /\ disk' = [disk EXCEPT !.manifest[c] = m]
      /\ hist' = IF P THEN [hist EXCEPT !.causes = @ \cup {"clobbered"}] ELSE hist
      /\ UNCHANGED <<task, holder, ckpt, tree, rows, found>>
  BY <1>1, <1>2, <1>3 DEF WriteManifest, At
<1>5. PICK r : r = [mem[w] EXCEPT !.units = u, !.list = m,
                                  !.pc = IF u = {} THEN "commit" ELSE "work"]
  OBVIOUS
<1>6. mem' = [mem EXCEPT ![w] = r]
  <2>1. mem' = [mem EXCEPT ![w].units = u, ![w].list = m,
                           ![w].pc = IF u = {} THEN "commit" ELSE "work"]
    BY <1>2 DEF WriteManifest
  <2> QED
    BY <1>5, <2>1 DEF AnalysisInv, MemTyped
<1>7. mem[w] \in MemRow /\ m \in Manifest /\ u \in SUBSET (0..NFiles) /\ u = Listed(m)
  BY <1>2, FileUnits DEF AnalysisInv, MemTyped, RowInv, RowsTyped, Manifest, Listed
<1>8. /\ r \in MemRow /\ r.part = "scan" /\ r.config = c /\ r.units = u /\ r.list = m
      /\ r.next = mem[w].next /\ r.at = mem[w].at /\ r.seen = mem[w].seen
      /\ r.pc \in {"commit", "work"} /\ (r.pc = "work" <=> u # {})
  BY <1>1, <1>4, <1>5, <1>7 DEF MemRow, Place, ConfigOf
<1>9. MemTyped' /\ mem'[w] = r /\ \A x \in Worker \ {w} : mem'[x] = mem[x]
  BY <1>4, <1>6, <1>8, OneMoves DEF AnalysisInv
<1>10. disk \in [manifest : [Config -> Manifest \cup {None}], clip : Hashes, embed : Hashes,
                 sae : [SUBSET File -> Worker \cup {None}]]
  BY DEF AnalysisInv, RowInv, DiskTyped
<1>11. /\ disk' \in [manifest : [Config -> Manifest \cup {None}], clip : Hashes, embed : Hashes,
                     sae : [SUBSET File -> Worker \cup {None}]]
       /\ disk'.clip = disk.clip /\ disk'.embed = disk.embed /\ disk'.sae = disk.sae
       /\ \A d \in Config : disk'.manifest[d] = IF d = c THEN m ELSE disk.manifest[d]
  BY <1>4, <1>7, <1>10
<1>12. \A d \in Config : disk'.manifest[d] # None => NotNewer(disk'.manifest[d].list)
  <2>1. NotNewer(m.list)
    BY <1>2 DEF NotNewer, AnalysisInv, RowInv, RowsTyped
  <2> QED
    BY <1>11, <2>1 DEF AnalysisInv, RowInv, VersionsSound
<1>13. Holds(w) => HandOf(w) /\ c = task.config /\ ckpt[c]["scan"] = None /\ Fresh(w) /\ Ready(w)
  BY <1>1, <1>4, HolderKnown DEF HandOf, ConfigOf
<1>14. ~Clobbered' => /\ ~Clobbered
                      /\ Holds(w) \/ disk.manifest[c] = None
  BY <1>3, <1>4, ClobberSound
<1>15. Vouched'
  <2>1. SUFFICES ASSUME ~Clobbered' PROVE Vouched'
    BY DEF Vouched
  <2>2. ASSUME NEW d \in Config, ckpt[d]["scan"] # None
        PROVE  disk'.manifest[d] = ckpt[d]["scan"].sha
    <3>1. disk.manifest[d] = ckpt[d]["scan"].sha
      BY <1>14, <2>1, <2>2 DEF AnalysisInv, RowInv, Vouched, SameManifest
    <3>2. ckpt[d]["scan"].sha # None
      BY <2>2, NoneAssumption DEF AnalysisInv, RowInv, RowsTyped, CursorRow, Part
    <3>3. d # c
      BY <1>13, <1>14, <2>1, <2>2, <3>1, <3>2
    <3> QED
      BY <1>11, <3>1, <3>3
  <2> QED
    BY <1>4, <1>11, <1>14, <2>1, <2>2 DEF AnalysisInv, RowInv, Vouched, SameManifest, ClipShas,
       Intact
<1>16. ASSUME Holds(w) PROVE HandOf(w)'
  <2>1. Reached(c, "scan")' = 0 /\ ~Complete(c, "scan")'
    BY <1>4, <1>13, <1>16 DEF Reached, Complete
  <2>2. r.next = 0 /\ r.at = 0
    BY <1>8, <1>13, <1>16 DEF Fresh
  <2>3. Cardinality(u) \in Nat /\ (u # {} => Cardinality(u) # 0)
    BY <1>7, UnitsFinite, FS_EmptySet
  <2>4. NotNewer(m.list)'
    BY <1>2, <1>4 DEF NotNewer, AnalysisInv, RowInv, RowsTyped
  <2>5. Positioned(w)'
    <3>1. /\ mem'[w].part = "scan" /\ mem'[w].config = c /\ mem'[w].units = u
          /\ mem'[w].list = m /\ mem'[w].next = 0 /\ mem'[w].at = 0
          /\ mem'[w].pc # "commit" => u # {}
          /\ task'.config = c /\ ckpt'[c]["scan"] = None
      BY <1>4, <1>8, <1>9, <1>13, <1>16, <2>2
    <3>2. Assigned(w)' = u
      BY <1>7, <3>1 DEF Assigned, Listed
    <3> QED
      BY <1>7, <2>1, <2>3, <2>4, <3>1, <3>2 DEF Positioned
  <2>6. Pending(w)' = {}
    <3>1. \A k : k \notin 0 + 1 .. 0
      OBVIOUS
    <3> QED
      BY <1>9, <2>2, <3>1 DEF Pending
  <2>7. Sighted(w)' /\ Backed(w)'
    <3>1. /\ mem'[w].part = "scan" /\ mem'[w].list = m /\ mem'[w].pc # "write"
          /\ task'.config = c
      BY <1>4, <1>8, <1>9, <1>13, <1>16
    <3>2. disk'.manifest[c] = m
      BY <1>11, <1>13, <1>16 DEF AnalysisInv, RowInv, RowsTyped
    <3> QED
      BY <2>6, <3>1, <3>2 DEF Sighted, Backed
  <2>8. Ready(w)'
    BY <1>4, <1>8, <1>9, <1>13, <1>16 DEF Ready, Supported, Complete
  <2> QED
    BY <1>4, <1>8, <1>9, <1>13, <1>16, <2>5, <2>7, <2>8 DEF HandOf
<1>17. ASSUME NEW x \in Worker \ {w}, Holds(x), ~Clobbered', Positioned(x), Backed(x)
       PROVE  Backed(x)'
  <2>1. ~Holds(w)
    BY <1>17 DEF Holds
  <2>2. disk.manifest[c] = None
    BY <1>14, <1>17, <2>1
  <2>3. mem[x].part = "scan" => disk.manifest[task.config] # None
    BY <1>17, NoneAssumption DEF Positioned, Backed
  <2>4. task.config \in Config
    BY DEF AnalysisInv, RowInv, RowsTyped
  <2>5. mem[x].part = "scan" => disk'.manifest[task.config] = disk.manifest[task.config]
    BY <1>11, <2>2, <2>3, <2>4
  <2>6. mem'[x] = mem[x] /\ Pending(x)' = Pending(x) /\ Current(x)' = Current(x)
        /\ CodeKey(x)' = CodeKey(x)
    BY <1>4, <1>9 DEF Pending, Current, CodeKey, ConfigOf
  <2> QED
    BY <1>4, <1>11, <1>17, <2>5, <2>6 DEF Backed, ClipShas
<1> QED
  BY <1>4, <1>9, <1>11, <1>12, <1>15, <1>16, <1>17, DiskMoves

LEMMA WriteClipKeeps ==
  ASSUME AnalysisInv, NEW w \in Worker, WriteClip(w)
  PROVE  AnalysisInv'
<1>1. PICK f : f = Current(w)
  OBVIOUS
<1>2. PICK P \in BOOLEAN : P = (~Holds(w) /\ disk.clip[f] \notin {None, w})
  OBVIOUS
<1>3. /\ mem[w].part = "clip" /\ mem[w].pc = "write"
      /\ disk' = [disk EXCEPT !.clip[f] = w]
      /\ hist' = IF P THEN [hist EXCEPT !.causes = @ \cup {"clobbered"}] ELSE hist
      /\ UNCHANGED <<task, holder, ckpt, tree, rows, found>>
      /\ Gathered(w, w)
  BY <1>1, <1>2 DEF WriteClip, At
<1>4. /\ MemTyped' /\ \A x \in Worker \ {w} : mem'[x] = mem[x]
      /\ Advances(w) /\ mem'[w].list = mem[w].list
      /\ mem'[w].seen = [mem[w].seen EXCEPT ![f] = w]
  BY <1>1, <1>3, GatheredSound
<1>5. disk \in [manifest : [Config -> Manifest \cup {None}], clip : Hashes, embed : Hashes,
                sae : [SUBSET File -> Worker \cup {None}]]
  BY DEF AnalysisInv, RowInv, DiskTyped
<1>6. /\ disk' = [disk EXCEPT !.clip = [disk.clip EXCEPT ![f] = w]]
      /\ disk.clip \in Hashes /\ [disk.clip EXCEPT ![f] = w] \in Hashes
  <2>1. disk.clip \in [File -> Worker \cup {None}]
    BY <1>5 DEF Hashes
  <2>2. [disk.clip EXCEPT ![f] = w] \in [File -> Worker \cup {None}]
    BY <2>1
  <2> QED
    BY <1>3, <1>5, <2>1, <2>2 DEF Hashes
<1>7. /\ disk' \in [manifest : [Config -> Manifest \cup {None}], clip : Hashes, embed : Hashes,
                    sae : [SUBSET File -> Worker \cup {None}]]
      /\ disk'.manifest = disk.manifest /\ disk'.embed = disk.embed /\ disk'.sae = disk.sae
      /\ disk'.clip = [disk.clip EXCEPT ![f] = w]
  BY <1>5, <1>6
<1>8. \A g \in File : disk'.clip[g] = IF g = f THEN w ELSE disk.clip[g]
  BY <1>6, <1>7 DEF Hashes
<1>9. /\ ~Clobbered' => ~Clobbered /\ (Holds(w) \/ disk.clip[f] \in {None, w})
      /\ Holds(w) => Clobbered' = Clobbered
  BY <1>2, <1>3, ClobberSound DEF Clobbered
<1>10. Holds(w) => /\ f \in File /\ Sighted(w) /\ mem[w] \in MemRow /\ Ready(w) /\ HandOf(w)
                   /\ f \notin Pending(w) /\ Pending(w)' = Pending(w) \cup {f}
                   /\ Pending(w) \subseteq File
                   /\ ~Clobbered => Backed(w)
  BY <1>1, <1>3, <1>4, HolderWorks, CurrentSound, AssignedKnown, UnitsWithin
<1>11. Vouched'
  <2>1. SUFFICES ASSUME ~Clobbered' PROVE Vouched'
    BY DEF Vouched
  <2>2. ASSUME NEW c \in Config, NEW g \in File PROVE ClipShas(c)[g] \in {None, disk'.clip[g]}
    <3>1. ClipShas(c)[g] \in {None, disk.clip[g]}
      BY <1>9, <2>1 DEF AnalysisInv, RowInv, Vouched
    <3>2. Holds(w) => ClipShas(c)[f] = None
      BY <1>1, <1>3, <1>9, <1>10, <2>1 DEF Backed
    <3> QED
      BY <1>8, <1>9, <2>1, <3>1, <3>2
  <2>3. \A c \in Config : ClipShas(c)' = ClipShas(c)
    BY <1>3 DEF ClipShas
  <2> QED
    BY <1>3, <1>7, <1>9, <2>1, <2>2, <2>3 DEF AnalysisInv, RowInv, Vouched, SameManifest, Intact
<1>12. \A c \in Config : disk'.manifest[c] # None => NotNewer(disk'.manifest[c].list)
  BY <1>7 DEF AnalysisInv, RowInv, VersionsSound
<1>13. ASSUME Holds(w) PROVE HandOf(w)'
  <2>1. /\ mem'[w].seen[f] = w
        /\ \A g \in File \ {f} : mem'[w].seen[g] = mem[w].seen[g]
    BY <1>4, <1>10, <1>13 DEF MemRow
  <2>2. mem'[w].part = "clip" /\ mem'[w].pc \in {"work", "commit"}
    BY <1>3, <1>4 DEF Advances
  <2>3. Sighted(w)'
    BY <1>3, <1>10, <1>13, <2>1, <2>2, AnalysisAssumption DEF Sighted
  <2>4. ~Clobbered => Backed(w)'
    BY <1>3, <1>8, <1>10, <1>13, <2>1, <2>2 DEF Backed
  <2>5. Positioned(w)'
    BY <1>3, <1>4, <1>13, PositionGrows
  <2>6. Ready(w)'
    BY <1>3, <1>10, <1>13, <2>2 DEF Ready, Supported, Complete
  <2> QED
    BY <1>3, <1>9, <1>10, <1>13, <2>2, <2>3, <2>4, <2>5, <2>6 DEF HandOf
<1>14. ASSUME NEW x \in Worker \ {w}, Holds(x), ~Clobbered', Sighted(x), Backed(x),
              mem[x].pc \in {"work", "write", "commit"}
       PROVE  Backed(x)'
  <2>1. ~Holds(w)
    BY <1>14 DEF Holds
  <2>2. disk.clip[f] \in {None, w}
    BY <1>9, <1>14, <2>1
  <2>3. ASSUME mem[x].part = "clip", NEW g \in Pending(x) PROVE mem[x].seen[g] = disk'.clip[g]
    <3>1. g \in File
      BY <1>14, <2>3, HolderWorks, AssignedKnown, UnitsWithin, PendingSound
    <3>2. mem[x].seen[g] = disk.clip[g] /\ mem[x].seen[g] # None
      BY <1>14, <2>3, <3>1 DEF Backed, Sighted
    <3> QED
      BY <1>8, <2>2, <3>1, <3>2
  <2>4. mem'[x] = mem[x] /\ Pending(x)' = Pending(x) /\ Current(x)' = Current(x)
        /\ CodeKey(x)' = CodeKey(x)
    BY <1>3, <1>4 DEF Pending, Current, CodeKey, ConfigOf
  <2> QED
    BY <1>3, <1>7, <1>14, <2>3, <2>4 DEF Backed, ClipShas
<1> QED
  BY <1>3, <1>4, <1>7, <1>11, <1>12, <1>13, <1>14, DiskMoves

LEMMA WriteEmbedKeeps ==
  ASSUME AnalysisInv, NEW w \in Worker, WriteEmbed(w)
  PROVE  AnalysisInv'
<1>1. PICK f : f = Current(w)
  OBVIOUS
<1>2. PICK P \in BOOLEAN : P = (~Holds(w) /\ disk.embed[f] \notin {None, w})
  OBVIOUS
<1>3. /\ mem[w].part = "embed" /\ mem[w].pc = "write"
      /\ disk' = [disk EXCEPT !.embed[f] = w]
      /\ hist' = IF P THEN [hist EXCEPT !.causes = @ \cup {"clobbered"}] ELSE hist
      /\ UNCHANGED <<task, holder, ckpt, tree, rows, found>>
      /\ mem' = [mem EXCEPT ![w].at = @ + 1, ![w].pc = "commit", ![w].seen[f] = w]
  BY <1>1, <1>2 DEF WriteEmbed, At
<1>4. /\ MemTyped' /\ \A x \in Worker \ {w} : mem'[x] = mem[x]
      /\ Advances(w) /\ mem'[w].pc = "commit"
      /\ mem'[w].seen = [mem[w].seen EXCEPT ![f] = w]
  <2>1. PICK r : r = [mem[w] EXCEPT !.at = mem[w].at + 1, !.pc = "commit", !.seen[f] = w]
    OBVIOUS
  <2>2. mem[w] \in MemRow
    BY DEF AnalysisInv, MemTyped
  <2>3. /\ r.part = "embed" /\ r.config = mem[w].config
        /\ r.units = mem[w].units /\ r.next = mem[w].next /\ r.at = mem[w].at + 1
        /\ r.pc = "commit" /\ r.list = mem[w].list /\ r.seen = [mem[w].seen EXCEPT ![f] = w]
    BY <1>3, <2>1, <2>2 DEF MemRow
  <2>4. r \in MemRow
    <3>1. PICK seen, T : seen = mem[w].seen /\ T = State \cup Worker \cup {None}
      OBVIOUS
    <3>2. seen \in [File -> T] /\ w \in T
      BY <2>2, <3>1 DEF MemRow
    <3>3. [seen EXCEPT ![f] = w] \in [File -> T]
      BY <3>2
    <3>4. r.seen \in [File -> State \cup Worker \cup {None}] /\ r.at \in Nat
      BY <2>2, <2>3, <3>1, <3>3 DEF MemRow
    <3> QED
      BY <2>1, <2>2, <2>3, <3>4 DEF MemRow, Place
  <2>5. mem' = [mem EXCEPT ![w] = r]
    BY <1>3, <2>1 DEF AnalysisInv, MemTyped
  <2>6. ckpt' = ckpt /\ mem[w].part = "embed" /\ mem[w].pc = "write"
    BY <1>3
  <2>7. MemTyped' /\ Advances(w) /\ mem'[w] = r /\ \A x \in Worker \ {w} : mem'[x] = mem[x]
    BY <2>3, <2>4, <2>5, <2>6, RowAdvances
  <2> QED
    BY <2>3, <2>7
<1>5. disk \in [manifest : [Config -> Manifest \cup {None}], clip : Hashes, embed : Hashes,
                sae : [SUBSET File -> Worker \cup {None}]]
  BY DEF AnalysisInv, RowInv, DiskTyped
<1>6. /\ disk' = [disk EXCEPT !.embed = [disk.embed EXCEPT ![f] = w]]
      /\ disk.embed \in Hashes /\ [disk.embed EXCEPT ![f] = w] \in Hashes
  <2>1. disk.embed \in [File -> Worker \cup {None}]
    BY <1>5 DEF Hashes
  <2>2. [disk.embed EXCEPT ![f] = w] \in [File -> Worker \cup {None}]
    BY <2>1
  <2> QED
    BY <1>3, <1>5, <2>1, <2>2 DEF Hashes
<1>7. /\ disk' \in [manifest : [Config -> Manifest \cup {None}], clip : Hashes, embed : Hashes,
                    sae : [SUBSET File -> Worker \cup {None}]]
      /\ disk'.manifest = disk.manifest /\ disk'.clip = disk.clip /\ disk'.sae = disk.sae
      /\ disk'.embed = [disk.embed EXCEPT ![f] = w]
  BY <1>5, <1>6
<1>8. \A g \in File : disk'.embed[g] = IF g = f THEN w ELSE disk.embed[g]
  BY <1>6, <1>7 DEF Hashes
<1>9. /\ ~Clobbered' => ~Clobbered /\ (Holds(w) \/ disk.embed[f] \in {None, w})
      /\ Holds(w) => Clobbered' = Clobbered
  BY <1>2, <1>3, ClobberSound DEF Clobbered
<1>10. Holds(w) => /\ f \in File /\ Sighted(w) /\ mem[w] \in MemRow /\ Ready(w) /\ HandOf(w)
                   /\ f \notin Pending(w) /\ Pending(w)' = Pending(w) \cup {f}
                   /\ ~Clobbered => Backed(w)
  BY <1>1, <1>3, <1>4, HolderWorks, CurrentSound, AssignedKnown, UnitsWithin
<1>11. Vouched'
  <2>1. SUFFICES ASSUME ~Clobbered' PROVE Vouched'
    BY DEF Vouched
  <2>2. ASSUME NEW g \in File PROVE found.shards[g] \in {None, disk'.embed[g]}
    <3>1. found.shards[g] \in {None, disk.embed[g]}
      BY <1>9, <2>1 DEF AnalysisInv, RowInv, Vouched, Intact
    <3>2. Holds(w) => found.shards[f] = None
      BY <1>1, <1>3, <1>9, <1>10, <2>1 DEF Backed
    <3> QED
      BY <1>8, <1>9, <2>1, <3>1, <3>2
  <2>3. \A c \in Config : ClipShas(c)' = ClipShas(c)
    BY <1>3 DEF ClipShas
  <2> QED
    BY <1>3, <1>7, <1>9, <2>1, <2>2, <2>3 DEF AnalysisInv, RowInv, Vouched, SameManifest, Intact
<1>12. \A c \in Config : disk'.manifest[c] # None => NotNewer(disk'.manifest[c].list)
  BY <1>7 DEF AnalysisInv, RowInv, VersionsSound
<1>13. ASSUME Holds(w) PROVE HandOf(w)'
  <2>1. /\ mem'[w].seen[f] = w
        /\ \A g \in File \ {f} : mem'[w].seen[g] = mem[w].seen[g]
    BY <1>4, <1>10, <1>13 DEF MemRow
  <2>2. mem'[w].part = "embed" /\ mem'[w].pc = "commit"
    BY <1>3, <1>4 DEF Advances
  <2>3. Sighted(w)'
    BY <1>3, <1>10, <1>13, <2>1, <2>2 DEF Sighted
  <2>4. ~Clobbered => Backed(w)'
    BY <1>3, <1>8, <1>10, <1>13, <2>1, <2>2 DEF Backed
  <2>5. Positioned(w)'
    BY <1>3, <1>4, <1>13, PositionGrows
  <2>6. Ready(w)'
    BY <1>3, <1>10, <1>13, <2>2 DEF Ready, Supported, Complete
  <2> QED
    BY <1>3, <1>9, <1>10, <1>13, <2>2, <2>3, <2>4, <2>5, <2>6 DEF HandOf
<1>14. ASSUME NEW x \in Worker \ {w}, Holds(x), ~Clobbered', Backed(x)
       PROVE  Backed(x)'
  <2>1. ~Holds(w)
    BY <1>14 DEF Holds
  <2>2. disk.embed[f] \in {None, w}
    BY <1>9, <1>14, <2>1
  <2>3. ASSUME mem[x].part = "embed", NEW g \in File PROVE mem[x].seen[g] \in {None, disk'.embed[g]}
    BY <1>8, <1>14, <2>2, <2>3 DEF Backed
  <2>4. UNCHANGED <<task, ckpt, found>> /\ mem'[x] = mem[x]
    BY <1>3, <1>4
  <2>5. Pending(x)' = Pending(x) /\ Current(x)' = Current(x) /\ CodeKey(x)' = CodeKey(x)
    BY <2>4 DEF Pending, Current, CodeKey, ConfigOf
  <2> QED
    BY <1>7, <1>14, <2>3, <2>4, <2>5 DEF Backed, ClipShas
<1>15. UNCHANGED <<task, holder, ckpt, tree, rows, found>>
  BY <1>3
<1>16. hist' = IF P THEN [hist EXCEPT !.causes = @ \cup {"clobbered"}] ELSE hist
  BY <1>3
<1> QED
  BY <1>4, <1>7, <1>11, <1>12, <1>13, <1>14, <1>15, <1>16, DiskMoves

LEMMA WriteSaeKeeps ==
  ASSUME AnalysisInv, NEW w \in Worker, WriteSae(w)
  PROVE  AnalysisInv'
<1>1. PICK key : key = CodeKey(w)
  OBVIOUS
<1>2. PICK P \in BOOLEAN : P = (~Holds(w) /\ disk.sae[key] \notin {None, w})
  OBVIOUS
<1>3. /\ mem[w].part = "sae" /\ mem[w].pc = "write"
      /\ disk' = [disk EXCEPT !.sae[key] = w]
      /\ hist' = IF P THEN [hist EXCEPT !.causes = @ \cup {"clobbered"}] ELSE hist
      /\ UNCHANGED <<task, holder, ckpt, tree, rows, found>>
      /\ mem' = [mem EXCEPT ![w].at = @ + 1, ![w].pc = "commit", ![w].list = w]
  BY <1>1, <1>2 DEF WriteSae, At
<1>4. /\ MemTyped' /\ \A x \in Worker \ {w} : mem'[x] = mem[x]
      /\ Advances(w) /\ mem'[w].pc = "commit" /\ mem'[w].list = w
  <2>1. PICK n : n = mem[w].at + 1
    OBVIOUS
  <2>2. PICK r : r = [mem[w] EXCEPT !.at = n, !.pc = "commit", !.list = w]
    OBVIOUS
  <2>3. mem[w] \in MemRow
    BY DEF AnalysisInv, MemTyped
  <2>4. mem[w].at \in Nat
    BY <2>3 DEF MemRow
  <2>5. n \in Nat
    BY <2>1, <2>4
  <2>6. /\ r \in MemRow /\ r.part = "sae" /\ r.config = mem[w].config
        /\ r.units = mem[w].units /\ r.next = mem[w].next /\ r.at = n
        /\ r.pc = "commit" /\ r.list = w
    BY <1>3, <2>2, <2>3, <2>5 DEF MemRow, Place
  <2>7. mem' = [mem EXCEPT ![w] = r]
    BY <1>3, <2>1, <2>2 DEF AnalysisInv, MemTyped
  <2>8. ckpt' = ckpt /\ mem[w].part = "sae" /\ mem[w].pc = "write"
    BY <1>3
  <2>9. MemTyped' /\ Advances(w) /\ mem'[w] = r /\ \A x \in Worker \ {w} : mem'[x] = mem[x]
    BY <2>1, <2>6, <2>7, <2>8, RowAdvances
  <2> QED
    BY <2>6, <2>9
<1>5. disk \in [manifest : [Config -> Manifest \cup {None}], clip : Hashes, embed : Hashes,
                sae : [SUBSET File -> Worker \cup {None}]]
  BY DEF AnalysisInv, RowInv, DiskTyped
<1>6. key \in SUBSET File
  BY <1>1, <1>3, KeySound DEF CodeKey, ConfigOf, AnalysisInv, MemTyped
<1>7. /\ disk' \in [manifest : [Config -> Manifest \cup {None}], clip : Hashes, embed : Hashes,
                    sae : [SUBSET File -> Worker \cup {None}]]
      /\ disk'.manifest = disk.manifest /\ disk'.clip = disk.clip /\ disk'.embed = disk.embed
      /\ disk'.sae = [disk.sae EXCEPT ![key] = w]
  <2>1. disk' = [disk EXCEPT !.sae = [disk.sae EXCEPT ![key] = w]]
    BY <1>3, <1>5
  <2>2. [disk.sae EXCEPT ![key] = w] \in [SUBSET File -> Worker \cup {None}]
    BY <1>5
  <2> QED
    BY <1>5, <2>1, <2>2
<1>8. \A S \in SUBSET File : disk'.sae[S] = IF S = key THEN w ELSE disk.sae[S]
  BY <1>5, <1>7
<1>9. /\ ~Clobbered' => ~Clobbered /\ (Holds(w) \/ disk.sae[key] \in {None, w})
      /\ Holds(w) => Clobbered' = Clobbered
  BY <1>2, <1>3, ClobberSound DEF Clobbered
<1>10. Holds(w) => /\ Ready(w) /\ HandOf(w) /\ (~Clobbered => Backed(w))
  BY <1>3, HolderWorks
<1>11. Vouched'
  <2>1. SUFFICES ASSUME ~Clobbered' PROVE Vouched'
    BY DEF Vouched
  <2>2. ASSUME NEW S \in SUBSET File PROVE found.codes[S] \in {None, disk'.sae[S]}
    <3>1. found.codes[S] \in {None, disk.sae[S]}
      BY <1>9, <2>1 DEF AnalysisInv, RowInv, Vouched
    <3>2. Holds(w) => found.codes[key] = None
      BY <1>1, <1>3, <1>9, <1>10, <2>1 DEF Backed
    <3> QED
      BY <1>8, <1>9, <2>1, <3>1, <3>2
  <2>3. \A c \in Config : ClipShas(c)' = ClipShas(c)
    BY <1>3 DEF ClipShas
  <2> QED
    BY <1>3, <1>7, <1>9, <2>1, <2>2, <2>3 DEF AnalysisInv, RowInv, Vouched, SameManifest, Intact
<1>12. \A c \in Config : disk'.manifest[c] # None => NotNewer(disk'.manifest[c].list)
  BY <1>7 DEF AnalysisInv, RowInv, VersionsSound
<1>13. ASSUME Holds(w) PROVE HandOf(w)'
  <2>1. mem'[w].part = "sae" /\ mem'[w].pc = "commit" /\ mem'[w].list = w
    BY <1>3, <1>4 DEF Advances
  <2>2. CodeKey(w)' = key
    BY <1>1, <1>3, <1>4 DEF Advances, CodeKey, ConfigOf
  <2>3. Sighted(w)' /\ Backed(w)'
    BY <1>6, <1>8, <2>1, <2>2 DEF Sighted, Backed
  <2>4. Positioned(w)'
    BY <1>3, <1>4, <1>13, PositionGrows
  <2>5. Ready(w)'
    BY <1>3, <1>10, <1>13, <2>1 DEF Ready, Supported, Complete
  <2> QED
    BY <1>3, <1>9, <1>10, <1>13, <2>1, <2>3, <2>4, <2>5 DEF HandOf
<1>14. ASSUME NEW x \in Worker \ {w}, Holds(x), ~Clobbered', Sighted(x), Backed(x),
              mem[x].pc \in {"work", "write", "commit"}
       PROVE  Backed(x)'
  <2>1. ~Holds(w)
    BY <1>14 DEF Holds
  <2>2. disk.sae[key] \in {None, w}
    BY <1>9, <1>14, <2>1
  <2>3. ASSUME mem[x].part = "sae", Pending(x) # {} PROVE mem[x].list = disk'.sae[CodeKey(x)]
    <3>1. mem[x].list = disk.sae[CodeKey(x)] /\ mem[x].list # None
      BY <1>14, <2>3, AnalysisAssumption DEF Backed, Sighted
    <3>2. CodeKey(x) \in SUBSET File
      BY <1>14, <2>3, HolderWorks, KeySound DEF CodeKey, Ready, Supported, Complete
    <3> QED
      BY <1>8, <2>2, <3>1, <3>2
  <2>4. UNCHANGED <<task, ckpt, found>> /\ mem'[x] = mem[x]
    BY <1>3, <1>4
  <2>5. Pending(x)' = Pending(x) /\ Current(x)' = Current(x) /\ CodeKey(x)' = CodeKey(x)
    BY <2>4 DEF Pending, Current, CodeKey, ConfigOf
  <2> QED
    BY <1>7, <1>14, <2>3, <2>4, <2>5 DEF Backed, ClipShas
<1>15. UNCHANGED <<task, holder, ckpt, tree, rows, found>>
  BY <1>3
<1>16. hist' = IF P THEN [hist EXCEPT !.causes = @ \cup {"clobbered"}] ELSE hist
  BY <1>3
<1> QED
  BY <1>4, <1>7, <1>11, <1>12, <1>13, <1>14, <1>15, <1>16, DiskMoves

-----------------------------------------------------------------------------
(* Rows and a cursor are stored, by the holder.                            *)

(* A component stores rows of its own only.                                *)
OwnRows(p) ==
  /\ p # "scan" => rows' = rows /\ found'.manifests = found.manifests
  /\ p # "score" => found'.scores = found.scores
  /\ p # "style" => found'.style = found.style
  /\ p # "group" => /\ found'.nodes = found.nodes
                    /\ found'.twins = found.twins
                    /\ found'.roles = found.roles

(* They are all there are, if those of others were deleted.                *)
DoneBy(c, p) ==
  ckpt[c][p].prepared =>
    /\ p = "scan"  => ScanDone(c)
    /\ p = "score" => ScoresDone(c)
    /\ p = "style" => StyleDone(c)
    /\ p = "group" => GroupsDone(c)

(* The cursor of one component of one config is replaced.                  *)
OneCursor(c, p, k) ==
  /\ ckpt'[c][p] = k
  /\ \A d \in Config, q \in Part : d # c \/ q # p => ckpt'[d][q] = ckpt[d][q]
  /\ hist'.last[PhaseOf[p]] = c
  /\ \A ph \in Phase : ph # PhaseOf[p] => hist'.last[ph] = hist.last[ph]
  /\ hist'.causes = hist.causes

LEMMA SavedSound ==
  ASSUME AnalysisInv, NEW w \in Worker, Holds(w), mem[w].pc \in {"work", "write", "commit"},
         NEW c \in Config, c = task.config, NEW p \in Part, p = mem[w].part,
         NEW k \in CursorRow(p), Saved(w, k)
  PROVE  /\ OneCursor(c, p, k)
         /\ DOMAIN ckpt' = Config
         /\ \A d \in Config : /\ DOMAIN ckpt'[d] = Part
                              /\ \A q \in Part : ckpt'[d][q] \in CursorRow(q) \cup {None}
         /\ hist' \in [upsets : Nat, causes : SUBSET CauseSet,
                       last : [Phase -> Config \cup {None}]]
<1>1. ConfigOf(w) = c /\ task.phase = PhaseOf[p]
  BY HolderWorks
<1>2. ckpt' = [ckpt EXCEPT ![c][p] = k] /\ hist' = [hist EXCEPT !.last[PhaseOf[p]] = c]
  BY <1>1 DEF Saved
<1>3. hist \in [upsets : Nat, causes : SUBSET CauseSet, last : [Phase -> Config \cup {None}]]
  BY DEF AnalysisInv, RowInv, RowsTyped, CauseSet
<1>4. DOMAIN ckpt = Config
      /\ \A d \in Config : /\ DOMAIN ckpt[d] = Part
                           /\ \A q \in Part : ckpt[d][q] \in CursorRow(q) \cup {None}
  BY DEF AnalysisInv, RowInv, RowsTyped
<1>5. PhaseOf[p] \in Phase
  BY DEF PhaseOf, Phase, Part
<1>6. /\ hist' \in [upsets : Nat, causes : SUBSET CauseSet,
                    last : [Phase -> Config \cup {None}]]
      /\ hist'.causes = hist.causes
      /\ hist'.last[PhaseOf[p]] = c
      /\ \A ph \in Phase : ph # PhaseOf[p] => hist'.last[ph] = hist.last[ph]
  <2>1. PICK ph \in Phase : ph = PhaseOf[p]
    BY <1>5
  <2>2. PICK last : last = [hist.last EXCEPT ![ph] = c]
    OBVIOUS
  <2>3. hist.last \in [Phase -> Config \cup {None}]
    BY <1>3
  <2>4. last \in [Phase -> Config \cup {None}] /\ last[ph] = c
        /\ \A q \in Phase : q # ph => last[q] = hist.last[q]
    BY <2>2, <2>3
  <2>5. hist' = [hist EXCEPT !.last = last]
    BY <1>2, <2>1, <2>2
  <2>6. hist'.last = last /\ hist'.causes = hist.causes
    BY <1>3, <2>5
  <2>7. hist' \in [upsets : Nat, causes : SUBSET CauseSet, last : [Phase -> Config \cup {None}]]
    BY <1>3, <2>4, <2>5
  <2> QED
    BY <2>1, <2>4, <2>6, <2>7
<1>7. /\ DOMAIN ckpt' = Config
      /\ ckpt'[c] = [ckpt[c] EXCEPT ![p] = k]
      /\ \A d \in Config : d # c => ckpt'[d] = ckpt[d]
  BY <1>2, <1>4
<1>8. /\ DOMAIN ckpt'[c] = Part /\ ckpt'[c][p] = k
      /\ \A q \in Part : q # p => ckpt'[c][q] = ckpt[c][q]
  BY <1>4, <1>7
<1>9. OneCursor(c, p, k)
  BY <1>6, <1>7, <1>8 DEF OneCursor
<1>10. \A d \in Config : /\ DOMAIN ckpt'[d] = Part
                         /\ \A q \in Part : ckpt'[d][q] \in CursorRow(q) \cup {None}
  <2> SUFFICES ASSUME NEW d \in Config, NEW q \in Part
               PROVE  DOMAIN ckpt'[d] = Part /\ ckpt'[d][q] \in CursorRow(q) \cup {None}
    OBVIOUS
  <2>1. DOMAIN ckpt'[d] = Part
    BY <1>4, <1>7, <1>8
  <2>2. CASE d = c /\ q = p
    BY <1>8, <2>1, <2>2
  <2>3. CASE d # c \/ q # p
    <3>1. ckpt'[d][q] = ckpt[d][q]
      BY <1>9, <2>3 DEF OneCursor
    <3> QED
      BY <1>4, <2>1, <3>1
  <2> QED
    BY <2>2, <2>3
<1> QED
  BY <1>6, <1>7, <1>9, <1>10

LEMMA OtherCursors ==
  ASSUME AnalysisInv, NEW c \in Config, NEW p \in Part, NEW k,
         OneCursor(c, p, k), OwnRows(p), ~Complete(c, p), task.phase = PhaseOf[p],
         NEW d \in Config, NEW q \in Part, d # c \/ q # p
  PROVE  CursorSound(d, q)'
<1>1. ckpt'[d][q] = ckpt[d][q]
  BY DEF OneCursor
<1> SUFFICES ASSUME ckpt[d][q] # None PROVE CursorSound(d, q)'
  BY <1>1 DEF CursorSound
<1>2. CursorSound(d, q)
  BY DEF AnalysisInv, RowInv, CursorsSound
<1>3. ~(PhaseNo(PhaseOf[q]) > PhaseNo(PhaseOf[p]))
  BY DEF AnalysisInv, RowInv, NothingAhead
<1>4. q \in {"clip", "score", "style", "embed", "sae", "group"} => Inputs' = Inputs
  <2>1. q \in {"clip", "score", "style", "embed", "sae", "group"} => p # "scan"
    BY <1>3 DEF PhaseNo, PhaseOf, Part
  <2> QED
    BY <2>1 DEF OwnRows, Inputs
<1>5. q \in {"style", "embed", "sae", "group"} => Scopes' = Scopes
  <2>1. q \in {"style", "embed", "sae", "group"} => p # "score"
    BY <1>3 DEF PhaseNo, PhaseOf, Part
  <2> QED
    BY <1>4, <2>1 DEF OwnRows, Scopes, Outside
<1>6. q \in {"embed", "sae", "group"} => SamplesOf(d)' = SamplesOf(d)
  <2>1. q \in {"embed", "sae", "group"} => p # "style"
    BY <1>3 DEF PhaseNo, PhaseOf, Part
  <2> QED
    BY <1>5, <2>1 DEF OwnRows, SamplesOf
<1>7. UnitsOf(d, q)' = UnitsOf(d, q)
  BY <1>1, <1>4, <1>5, <1>6 DEF UnitsOf, Part, Listed
<1>8. Supported(d, q)'
  <2>1. \A r \in Part : Complete(d, r) => Complete(d, r)'
    BY DEF OneCursor, Complete
  <2> QED
    BY <1>2, <2>1 DEF CursorSound, Supported, Part
<1> QED
  BY <1>1, <1>2, <1>7, <1>8 DEF CursorSound

LEMMA EvidenceStored ==
  ASSUME AnalysisInv, NEW c \in Config, c = task.config, NEW p \in Part, NEW k,
         OneCursor(c, p, k), OwnRows(p), ~Complete(c, p), task.phase = PhaseOf[p],
         task'.phase = task.phase, task'.config = c,
         k # None, ~Returned => DoneBy(c, p)'
  PROVE  EvidenceSound'
<1> SUFFICES ASSUME ~Returned, NEW d \in Config
             PROVE  /\ Worked(d, "scan")'  => ScanDone(d)'
                    /\ Worked(d, "score")' => ScoresDone(d)'
                    /\ Worked(d, "style")' => StyleDone(d)'
                    /\ Worked(d, "group")' => GroupsDone(d)'
  <2>1. Returned' = Returned
    BY DEF Returned, OneCursor
  <2>2. hist'.last[task'.phase] = task'.config
    BY DEF OneCursor
  <2> QED
    BY <2>1, <2>2 DEF EvidenceSound
<1>1. DoneBy(c, p)'
  OBVIOUS
<1>2. c # None /\ d # None
  BY AnalysisAssumption
<1>3. ASSUME NEW q \in Part, q # p, Worked(d, q)'
      PROVE  Worked(d, q) /\ ckpt'[d][q] = ckpt[d][q]
  <2>1. ckpt'[d][q] = ckpt[d][q] /\ PhaseOf[q] \in Phase
    BY <1>3 DEF OneCursor, PhaseOf, Part, Phase
  <2>2. CASE PhaseOf[q] = task.phase
    <3>1. d = c
      BY <1>3, <2>2 DEF Worked, OneCursor
    <3>2. hist.last[task.phase] = c
      BY <1>3, <2>1, <2>2, <3>1 DEF AnalysisInv, RowInv, EvidenceSound, Worked
    <3> QED
      BY <1>3, <2>1, <2>2, <3>1, <3>2 DEF Worked
  <2>3. CASE PhaseOf[q] # task.phase
    BY <1>3, <2>1, <2>3 DEF Worked, OneCursor
  <2> QED
    BY <2>2, <2>3
<1>4. ASSUME Worked(d, p)' PROVE d = c /\ ckpt'[c][p].prepared
  BY <1>4 DEF Worked, OneCursor
<1>5. Worked(d, "scan")' => ScanDone(d)'
  <2>1. CASE p = "scan"
    BY <1>1, <1>4, <2>1 DEF DoneBy
  <2>2. CASE p # "scan"
    <3>1. ASSUME Worked(d, "scan")' PROVE ScanDone(d)'
      <4>1. ScanDone(d) /\ ckpt'[d]["scan"] = ckpt[d]["scan"]
        BY <1>3, <2>2, <3>1 DEF AnalysisInv, RowInv, EvidenceSound, Part
      <4>2. Done(ckpt[d]["scan"].units, ckpt[d]["scan"].next)'
              = Done(ckpt[d]["scan"].units, ckpt[d]["scan"].next)
        BY <4>1 DEF Done, Nth
      <4> QED
        BY <2>2, <4>1, <4>2 DEF ScanDone, OwnRows
    <3> QED
      BY <3>1
  <2> QED
    BY <2>1, <2>2
<1>6. Worked(d, "score")' => ScoresDone(d)'
  <2>1. CASE p = "score"
    BY <1>1, <1>4, <2>1 DEF DoneBy
  <2>2. CASE p # "score"
    <3>1. ASSUME Worked(d, "score")' PROVE ScoresDone(d)'
      <4>1. ScoresDone(d) /\ ckpt'[d]["score"] = ckpt[d]["score"]
        BY <1>3, <2>2, <3>1 DEF AnalysisInv, RowInv, EvidenceSound, Part
      <4>2. Done(ckpt[d]["score"].units, ckpt[d]["score"].next)'
              = Done(ckpt[d]["score"].units, ckpt[d]["score"].next)
        BY <4>1 DEF Done, Nth
      <4> QED
        BY <2>2, <4>1, <4>2 DEF ScoresDone, OwnRows
    <3> QED
      BY <3>1
  <2> QED
    BY <2>1, <2>2
<1>7. Worked(d, "style")' => StyleDone(d)'
  <2>1. CASE p = "style"
    BY <1>1, <1>4, <2>1 DEF DoneBy
  <2>2. CASE p # "style"
    <3>1. ASSUME Worked(d, "style")' PROVE StyleDone(d)'
      <4>1. StyleDone(d) /\ ckpt'[d]["style"] = ckpt[d]["style"]
        BY <1>3, <2>2, <3>1 DEF AnalysisInv, RowInv, EvidenceSound, Part
      <4>2. Done(ckpt[d]["style"].units, ckpt[d]["style"].next)'
              = Done(ckpt[d]["style"].units, ckpt[d]["style"].next)
        BY <4>1 DEF Done, Nth
      <4> QED
        BY <2>2, <4>1, <4>2 DEF StyleDone, OwnRows
    <3> QED
      BY <3>1
  <2> QED
    BY <2>1, <2>2
<1>8. Worked(d, "group")' => GroupsDone(d)'
  <2>1. CASE p = "group"
    BY <1>1, <1>4, <2>1 DEF DoneBy
  <2>2. CASE p # "group"
    <3>1. ASSUME Worked(d, "group")' PROVE GroupsDone(d)'
      <4>1. /\ GroupsDone(d) /\ ckpt'[d]["group"] = ckpt[d]["group"]
            /\ ckpt[d]["group"] # None
        BY <1>3, <2>2, <3>1 DEF AnalysisInv, RowInv, EvidenceSound, Part, Worked
      <4>2. Complete(d, "embed")
        BY <4>1 DEF AnalysisInv, RowInv, CursorsSound, CursorSound, Supported, Part
      <4>3. ckpt'[d]["embed"] = ckpt[d]["embed"]
        BY <4>2 DEF OneCursor, Part
      <4>4. Done(ckpt[d]["group"].units, ckpt[d]["group"].next)'
              = Done(ckpt[d]["group"].units, ckpt[d]["group"].next)
        BY <4>1 DEF Done, Nth
      <4>5. \A s : Members(d, s)' = Members(d, s)
        BY <4>3 DEF Members
      <4>6. PICK done : done = Done(ckpt[d]["group"].units, ckpt[d]["group"].next)
        OBVIOUS
      <4>7. UNION {Members(d, s)' : s \in done} = UNION {Members(d, s) : s \in done}
        BY <4>5
      <4>8. UNCHANGED <<found.nodes, found.twins, found.roles>>
        BY <2>2 DEF OwnRows
      <4>9. /\ found'.nodes = [s \in 0..NFiles |-> IF s \in done THEN d ELSE None]
            /\ found'.twins = {<<d, s>> : s \in done}
        BY <4>1, <4>6, <4>8 DEF GroupsDone
      <4>10. found'.roles = IF Settings[d].roles
                             THEN {<<d, f>> : f \in UNION {Members(d, s)' : s \in done}}
                             ELSE {}
        BY <4>1, <4>6, <4>7, <4>8 DEF GroupsDone
      <4> QED
        BY <4>4, <4>6, <4>9, <4>10 DEF GroupsDone
    <3> QED
      BY <3>1
  <2> QED
    BY <2>1, <2>2
<1> QED
  BY <1>5, <1>6, <1>7, <1>8

(* A commit of the holder, before its worker goes on or leaves.            *)
LEMMA CommitSound ==
  ASSUME AnalysisInv, NEW w \in Worker, Holds(w), mem[w].pc \in {"work", "commit"},
         NEW c \in Config, c = task.config, NEW p \in Part, p = mem[w].part,
         NEW k \in CursorRow(p), Saved(w, k), UNCHANGED <<tree, disk>>,
         rows' \in [File -> SampleRow], DiskTyped', OwnRows(p),
         CursorSound(c, p)', Vouched', VersionsSound', ~Returned => DoneBy(c, p)',
         MemTyped',
         PauseHonored \/ (UNCHANGED <<task, holder>> /\ HandOf(w)')
  PROVE  AnalysisInv'
<1>1. /\ OneCursor(c, p, k)
      /\ DOMAIN ckpt' = Config
      /\ \A d \in Config : /\ DOMAIN ckpt'[d] = Part
                           /\ \A q \in Part : ckpt'[d][q] \in CursorRow(q) \cup {None}
      /\ hist' \in [upsets : Nat, causes : SUBSET CauseSet,
                    last : [Phase -> Config \cup {None}]]
  BY SavedSound
<1>2. /\ HandOf(w) /\ task.phase = PhaseOf[p] /\ ~Complete(c, p)
      /\ task.status \in {"working", "pausing"}
  BY HolderWorks DEF Positioned
<1>3. k # None /\ c # None /\ w # None
  BY NoneAssumption, AnalysisAssumption
<1>4. task \in [status : {"queued", "working", "pausing", "paused", "review", "failed"},
                phase : Phase \cup {"evidence_review"}, config : Config]
  BY DEF AnalysisInv, RowInv, RowsTyped
<1>5. PhaseOf[p] \in Phase /\ PhaseOf[p] # "evidence_review"
  BY DEF PhaseOf, Phase, Part
<1>6. /\ task' \in [status : {"queued", "working", "pausing", "paused", "review", "failed"},
                    phase : Phase \cup {"evidence_review"}, config : Config]
      /\ task'.phase = task.phase /\ task'.config = c /\ task'.status # "failed"
      /\ holder' \in {None, w}
      /\ holder' = None => task'.status \notin {"working", "pausing"}
      /\ holder' = w => HandOf(w)'
  <2>1. CASE PauseHonored
    BY <1>3, <1>4, <2>1 DEF PauseHonored
  <2>2. CASE UNCHANGED <<task, holder>> /\ HandOf(w)'
    BY <1>2, <1>3, <1>4, <2>2 DEF Holds
  <2> QED
    BY <2>1, <2>2
<1>7. RowsTyped'
  BY <1>1, <1>2, <1>5, <1>6 DEF RowsTyped, CauseSet, AnalysisInv, RowInv
<1>8. CursorsSound'
  <2> SUFFICES ASSUME NEW d \in Config, NEW q \in Part PROVE CursorSound(d, q)'
    BY DEF CursorsSound
  <2>1. CASE d = c /\ q = p
    BY <2>1
  <2>2. CASE d # c \/ q # p
    BY <1>1, <1>2, <2>2, OtherCursors
  <2> QED
    BY <2>1, <2>2
<1>9. NothingAhead'
  <2>1. ASSUME NEW q \in Part, PhaseNo(PhaseOf[q]) > PhaseNo(task'.phase), NEW d \in Config
        PROVE  ckpt'[d][q] = None
    <3>1. q # p
      BY <1>2, <1>6, <2>1 DEF PhaseNo, PhaseOf, Part
    <3> QED
      BY <1>1, <1>6, <2>1, <3>1 DEF OneCursor, AnalysisInv, RowInv, NothingAhead
  <2>2. ASSUME NEW ph \in Phase, PhaseNo(ph) > PhaseNo(task'.phase) PROVE hist'.last[ph] = None
    <3>1. ph # PhaseOf[p]
      BY <1>2, <1>6, <2>2 DEF PhaseNo, PhaseOf, Part
    <3> QED
      BY <1>1, <1>6, <2>2, <3>1 DEF OneCursor, AnalysisInv, RowInv, NothingAhead
  <2> QED
    BY <2>1, <2>2 DEF NothingAhead
<1>10. LastKnown'
  <2> SUFFICES ASSUME NEW q \in Part, hist'.last[PhaseOf[q]] = None, NEW d \in Config
               PROVE  ckpt'[d][q] = None
    BY DEF LastKnown
  <2>1. PhaseOf[q] \in Phase /\ PhaseOf[q] # PhaseOf[p]
    BY <1>1, <1>3 DEF OneCursor, PhaseOf, Phase, Part
  <2> QED
    BY <1>1, <2>1 DEF OneCursor, AnalysisInv, RowInv, LastKnown
<1>11. EvidenceSound'
  BY <1>1, <1>2, <1>3, <1>6, EvidenceStored
<1>12. StyleThere'
  <2> SUFFICES ASSUME hist'.causes = {}, task'.phase = "semantic_clustering",
                      Settings[task'.config].scope = "artist"
               PROVE  Completes(c, "style")'
    BY <1>6 DEF StyleThere
  <2>1. Completes(c, "style")
    BY <1>1, <1>6 DEF OneCursor, AnalysisInv, RowInv, StyleThere
  <2>2. p # "style" /\ PhaseOf["style"] \in Phase /\ PhaseOf["style"] # PhaseOf[p]
    BY <1>2, <1>6 DEF PhaseOf, Phase, Part
  <2> QED
    BY <1>1, <2>1, <2>2 DEF Completes, OneCursor, Part
<1>13. ErrorsExplained'
  BY <1>6 DEF ErrorsExplained
<1>14. Hand'
  BY <1>3, <1>6 DEF Hand
<1> QED
  BY <1>7, <1>8, <1>9, <1>10, <1>11, <1>12, <1>13, <1>14 DEF AnalysisInv, RowInv

(* A commit as the components make it, by whoever holds the slot: all it   *)
(* depends on the component for are its rows and its cursor.               *)
LEMMA CommitKeeps ==
  ASSUME AnalysisInv, NEW w \in Worker, Holds(w),
         NEW c \in Config, c = task.config, NEW p \in Part, p = mem[w].part,
         NEW k \in CursorRow(p), NEW R, NEW F, Commit(w, R, F, k),
         k.units = mem[w].units, k.next = mem[w].at,
         p = "scan" => k.sha = mem[w].list,
         rows' \in [File -> SampleRow], DiskTyped', OwnRows(p),
         CursorSound(c, p)', Vouched', VersionsSound', ~Returned => DoneBy(c, p)'
  PROVE  AnalysisInv'
<1>1. /\ mem[w].pc = "commit" /\ Saved(w, k) /\ UNCHANGED <<tree, disk>>
      /\ IF task.status = "pausing"
           THEN PauseHonored /\ Leave(w)
           ELSE /\ UNCHANGED <<task, holder>>
                /\ IF k.complete
                     THEN Finish(w)
                     ELSE mem' = [mem EXCEPT ![w].next = mem[w].at,
                                    ![w].seen = Idle.seen, ![w].pc = "work"]
  BY DEF Commit
<1>2. OneCursor(c, p, k)
  BY <1>1, SavedSound
<1>3. k # None
  BY NoneAssumption
<1>4. /\ mem[w] \in MemRow /\ mem[w].config = c /\ Ready(w) /\ Positioned(w)
      /\ ~Clobbered => Backed(w)
      /\ task.status \in {"working", "pausing"} /\ task.phase = PhaseOf[p]
  BY <1>1, HolderWorks DEF ConfigOf
<1>5. \A d \in Config : ckpt[d]["embed"] # None => ckpt'[d]["embed"] # None
  BY <1>2, <1>3 DEF OneCursor, Part
<1>6. /\ ckpt'[c][p] = k /\ Supported(c, p)' /\ (Complete(c, p)' <=> k.complete)
      /\ k.units = UnitsOf(c, p)' /\ k.next <= Cardinality(k.units)
      /\ k.complete <=> k.next = Cardinality(k.units)
  BY <1>2, <1>3 DEF OneCursor, CursorSound, Complete
<1>7. p \in Settings[c].parts
  BY <1>4 DEF Ready
<1>8. CASE task.status = "pausing"
  <2>1. mem' = [mem EXCEPT ![w] = Idle] /\ PauseHonored
    BY <1>1, <1>8 DEF Leave
  <2>2. Idle.pc = "idle"
    BY DEF Idle
  <2>3. MemTyped'
    BY <1>5, <2>1, <2>2, IdleRow, OneMoves DEF AnalysisInv
  <2> QED
    BY <1>1, <2>1, <2>3, CommitSound
<1>9. CASE task.status # "pausing" /\ k.complete
  <2>1. Finish(w) /\ UNCHANGED <<task, holder>>
    BY <1>1, <1>9
  <2>2. MemTyped'
    BY <1>5, <2>1, FinishTyped
  <2>3. HandOf(w)'
    BY <1>4, <1>5, <1>6, <1>7, <1>9, <2>1, FinishSound
  <2> QED
    BY <1>1, <2>1, <2>2, <2>3, CommitSound
<1>10. CASE task.status # "pausing" /\ ~k.complete
  <2>1. PICK n : n = mem[w].at
    OBVIOUS
  <2>2. PICK r : r = [mem[w] EXCEPT !.next = n, !.seen = Idle.seen, !.pc = "work"]
    OBVIOUS
  <2>3. n \in Nat /\ Idle.seen = [f \in File |-> None]
    BY <1>4, <2>1 DEF MemRow, Idle
  <2>4. /\ r.part = p /\ r.config = c /\ r.units = mem[w].units /\ r.next = n /\ r.at = n
        /\ r.list = mem[w].list /\ r.seen = [f \in File |-> None] /\ r.pc = "work"
    BY <1>4, <2>1, <2>2, <2>3 DEF MemRow
  <2>5. r \in MemRow
    <3>1. r.seen \in [File -> State \cup Worker \cup {None}]
      BY <2>4
    <3> QED
      BY <1>4, <2>2, <2>3, <2>4, <3>1 DEF MemRow, Place
  <2>6. mem' = [mem EXCEPT ![w] = r] /\ UNCHANGED <<task, holder>>
    BY <1>1, <1>10, <2>1, <2>2 DEF AnalysisInv, MemTyped
  <2>7. r.part = "sae" => r.config \in Config /\ ckpt'[r.config]["embed"] # None
    BY <1>4, <1>5, <2>4 DEF Ready, Supported, Complete
  <2>8. MemTyped' /\ mem'[w] = r
    BY <1>5, <2>5, <2>6, <2>7, OneMoves DEF AnalysisInv
  <2>9. Pending(w)' = {}
    <3>1. \A j : j \notin n + 1 .. n
      BY <2>3
    <3> QED
      BY <2>4, <2>8, <3>1 DEF Pending
  <2>10. Sighted(w)'
    BY <2>4, <2>8, <2>9 DEF Sighted
  <2>11. Clobbered' = Clobbered
    BY <1>2 DEF Clobbered, OneCursor
  <2>12. ~Clobbered => Backed(w)'
    BY <1>1, <1>4, <2>4, <2>6, <2>8, <2>9 DEF Backed
  <2>13. Positioned(w)'
    <3>1. Reached(c, p)' = n
      BY <1>3, <1>6, <2>1 DEF Reached
    <3>2. Assigned(w)' = mem[w].units
      <4>1. mem'[w].part = p /\ mem'[w].list = mem[w].list /\ task'.config = c
        BY <2>4, <2>6, <2>8
      <4>2. CASE p = "scan"
        <5>1. mem[w].units = Listed(mem[w].list)
          BY <1>1, <4>2, AssignedKnown
        <5> QED
          BY <4>1, <4>2, <5>1 DEF Assigned, Listed
      <4>3. CASE p # "scan"
        BY <1>6, <4>1, <4>3 DEF Assigned
      <4> QED
        BY <4>2, <4>3
    <3>3. Cardinality(mem[w].units) \in Nat
      BY <1>4, UnitsFinite DEF MemRow
    <3>4. n <= Cardinality(mem[w].units) /\ n < Cardinality(mem[w].units)
      BY <1>6, <1>10, <2>1, <2>3, <3>3
    <3>5. p = "scan" => mem[w].list \in Manifest /\ NotNewer(mem[w].list.list)
      BY <1>4 DEF Positioned
    <3>6. p = "scan" => ckpt'[c]["scan"].sha = mem[w].list
      BY <1>6
    <3>7. /\ mem'[w].config = c /\ mem'[w].part = p /\ task'.config = c
          /\ mem'[w].units = mem[w].units /\ mem'[w].next = n /\ mem'[w].at = n
          /\ mem'[w].list = mem[w].list /\ n <= n
      BY <2>3, <2>4, <2>6, <2>8
    <3>8. p = "scan" => NotNewer(mem[w].list.list)'
      BY <1>1, <3>5, <3>7 DEF NotNewer
    <3>9. ~Complete(c, p)'
      BY <1>6, <1>10
    <3> QED
      BY <3>1, <3>2, <3>4, <3>5, <3>6, <3>7, <3>8, <3>9 DEF Positioned
  <2>14. Ready(w)'
    BY <1>6, <1>7, <2>4, <2>6, <2>8 DEF Ready
  <2>15. HandOf(w)'
    BY <1>4, <2>4, <2>6, <2>8, <2>10, <2>11, <2>12, <2>13, <2>14 DEF HandOf
  <2> QED
    BY <1>1, <2>6, <2>8, <2>15, CommitSound
<1> QED
  BY <1>8, <1>9, <1>10

-----------------------------------------------------------------------------
(* What a component commits.                                               *)

(* What it did since the last checkpoint follows on what was done then.    *)
LEMMA PlaceKnown ==
  ASSUME AnalysisInv, NEW w \in Worker, Holds(w), mem[w].pc \in {"work", "write", "commit"},
         NEW c \in Config, c = task.config, NEW p \in Part, p = mem[w].part
  PROVE  /\ Done(mem[w].units, mem[w].at) = Done(mem[w].units, mem[w].next) \cup Pending(w)
         /\ Done(mem[w].units, mem[w].next) \cap Pending(w) = {}
         /\ Done(mem[w].units, mem[w].at) \subseteq mem[w].units
         /\ Done(mem[w].units, 0) = {}
         /\ mem[w].at \in Nat /\ mem[w].next \in Nat /\ Cardinality(mem[w].units) \in Nat
         /\ mem[w].next <= mem[w].at /\ mem[w].at <= Cardinality(mem[w].units)
         /\ ckpt[c][p] # None => /\ ckpt[c][p] \in CursorRow(p) /\ CursorSound(c, p)
                                 /\ ckpt[c][p].units = mem[w].units
                                 /\ ckpt[c][p].next = mem[w].next
                                 /\ p = "scan" => ckpt[c][p].sha = mem[w].list
         /\ ckpt[c][p] = None => mem[w].next = 0
<1>1. PICK S \in SUBSET (0..NFiles) : S = mem[w].units
  BY HolderWorks
<1>2. PICK m \in Nat, n \in Nat : m = mem[w].next /\ n = mem[w].at
  BY HolderWorks DEF MemRow
<1>3. m <= n /\ n <= Cardinality(S)
  BY <1>1, <1>2, HolderWorks DEF Positioned
<1>4. S \in SUBSET Nat /\ IsFiniteSet(S) /\ Cardinality(S) \in Nat
  BY UnitsFinite
<1>5. Pending(w) = Between(S, m, n)
  BY <1>1, <1>2 DEF Pending, Between
<1>6. n \in 0..Cardinality(S) /\ m \in 0..n
  BY <1>3, <1>4
<1>7. /\ Done(S, n) = Done(S, m) \cup Pending(w) /\ Done(S, m) \cap Pending(w) = {}
      /\ Done(S, n) \subseteq S /\ Done(S, 0) = {}
  <2>1. Done(S, n) \subseteq S /\ Done(S, 0) = {}
    BY <1>4, <1>6, DoneSound
  <2>2. /\ Done(S, n) = Done(S, m) \cup Between(S, m, n)
        /\ Done(S, m) \cap Between(S, m, n) = {}
    BY <1>4, <1>6, DoneSound
  <2> QED
    BY <1>5, <2>1, <2>2
<1>8. /\ mem[w].next = Reached(c, p)
      /\ p = "scan" /\ ckpt[c][p] # None => mem[w].list = ckpt[c][p].sha
  BY HolderWorks DEF Positioned
<1>9. ASSUME ckpt[c][p] # None
      PROVE  /\ ckpt[c][p] \in CursorRow(p) /\ CursorSound(c, p)
             /\ ckpt[c][p].units = S
  <2>1. ckpt[c][p] \in CursorRow(p) /\ CursorSound(c, p)
    BY <1>9 DEF AnalysisInv, RowInv, RowsTyped, CursorsSound
  <2>2. ckpt[c][p].units = UnitsOf(c, p)
    BY <1>9, <2>1 DEF CursorSound
  <2>3. CASE p = "scan"
    BY <1>1, <1>8, <1>9, <2>1, <2>2, <2>3, AssignedKnown DEF UnitsOf
  <2>4. CASE p # "scan"
    BY <1>1, <2>1, <2>2, <2>4, AssignedKnown
  <2> QED
    BY <2>3, <2>4
<1> QED
  BY <1>1, <1>2, <1>3, <1>4, <1>7, <1>8, <1>9 DEF Reached

(* Unless a config returned, what it prepared is there whole.              *)
LEMMA BeforeKnown ==
  ASSUME AnalysisInv, NEW w \in Worker, Holds(w), mem[w].pc \in {"work", "write", "commit"},
         NEW c \in Config, c = task.config, NEW p \in Part, p = mem[w].part,
         p \in {"scan", "score", "style", "group"}
  PROVE  /\ Prepared(w) <=> ckpt[c][p] # None /\ ckpt[c][p].prepared
         /\ Prepared(w) \in BOOLEAN
         /\ ~Prepared(w) => Done(mem[w].units, mem[w].next) = {}
         /\ Prepared(w) /\ ~Returned
              => /\ p = "scan"  => ScanDone(c)
                 /\ p = "score" => ScoresDone(c)
                 /\ p = "style" => StyleDone(c)
                 /\ p = "group" => GroupsDone(c)
<1>1. ConfigOf(w) = c /\ task.phase = PhaseOf[p]
  BY HolderWorks
<1>2. /\ Prepared(w) <=> ckpt[c][p] # None /\ ckpt[c][p].prepared
      /\ Prepared(w) \in BOOLEAN
  BY <1>1, PlaceKnown DEF Prepared, CursorOf, CursorRow
<1>3. ~Prepared(w) => mem[w].next = 0
  BY <1>2, PlaceKnown DEF CursorSound
<1>4. ASSUME Prepared(w), ~Returned PROVE Worked(c, p)
  BY <1>1, <1>2, <1>4 DEF Worked, AnalysisInv, RowInv, EvidenceSound
<1> QED
  BY <1>2, <1>3, <1>4, PlaceKnown DEF AnalysisInv, RowInv, EvidenceSound

(* The rows a component works through are not of its own making.           *)
LEMMA UnitsStay ==
  ASSUME NEW c \in Config, NEW p \in Part \ {"scan"}, OwnRows(p)
  PROVE  UnitsOf(c, p)' = UnitsOf(c, p)
<1>1. Inputs' = Inputs
  BY DEF Inputs, OwnRows
<1>2. p # "score" => Scopes' = Scopes
  BY <1>1 DEF Scopes, Outside, OwnRows
<1>3. p \notin {"score", "style"} => SamplesOf(c)' = SamplesOf(c)
  BY <1>2 DEF SamplesOf, OwnRows
<1> QED
  BY <1>1, <1>2, <1>3 DEF UnitsOf, Part

LEMMA MadeSound ==
  ASSUME NEW c \in Config, NEW p \in Part, NEW k \in CursorRow(p), OneCursor(c, p, k),
         k.units = UnitsOf(c, p)', k.next <= Cardinality(k.units),
         k.complete <=> k.next = Cardinality(k.units),
         p = "clip" => \A f \in Done(k.units, k.next) : k.sha[f] # None,
         p \in {"scan", "score"} => k.prepared,
         p \in {"style", "group"} => k.prepared \/ (k.next = 0 /\ ~k.complete),
         Supported(c, p)
  PROVE  CursorSound(c, p)'
<1>1. ckpt'[c][p] = k
  BY DEF OneCursor
<1>2. Supported(c, p)'
  BY DEF OneCursor, Supported, Complete, Part
<1>3. p = "clip" => \A f \in Done(k.units, k.next)' : k.sha[f] # None
  BY DEF Done, Nth
<1>4. /\ k.next <= Cardinality(k.units)
      /\ k.complete <=> k.next = Cardinality(k.units)
      /\ p \in {"scan", "score"} => k.prepared
      /\ p \in {"style", "group"} => k.prepared \/ (k.next = 0 /\ ~k.complete)
  OBVIOUS
<1> QED
  BY <1>1, <1>2, <1>3, <1>4 DEF CursorSound

(* The cursor of a commit.                                                 *)
LEMMA CursorMade ==
  ASSUME AnalysisInv, NEW w \in Worker, Holds(w), mem[w].pc \in {"work", "commit"},
         NEW c \in Config, c = task.config, NEW p \in Part, p = mem[w].part,
         NEW n \in {mem[w].next, mem[w].at}, NEW prepared \in BOOLEAN, NEW sha,
         p = "scan" => sha \in Manifest, p = "clip" => sha \in Hashes,
         p \notin {"scan", "clip"} => sha = None,
         NEW k, k = Cursor(mem[w].units, n, prepared, sha)
  PROVE  /\ k \in CursorRow(p) /\ k.units = mem[w].units /\ k.next = n /\ k.sha = sha
         /\ k.prepared = prepared
         /\ k.next <= Cardinality(k.units) /\ (k.complete <=> k.next = Cardinality(k.units))
<1>1. /\ k.units = mem[w].units /\ k.next = n /\ k.sha = sha /\ k.prepared = prepared
      /\ k.complete = (n = Cardinality(mem[w].units))
  BY DEF Cursor
<1>2. n \in Nat /\ n <= Cardinality(mem[w].units)
  BY PlaceKnown
<1>3. mem[w].units \in SUBSET (0..NFiles)
  BY HolderWorks
<1>4. PICK T : T = CASE p = "scan" -> Manifest [] p = "clip" -> Hashes [] OTHER -> {None}
  OBVIOUS
<1>5. sha \in T
  BY <1>4
<1>6. k \in [units : SUBSET (0..NFiles), next : Nat, complete : BOOLEAN, prepared : BOOLEAN,
             sha : T]
  BY <1>1, <1>2, <1>3, <1>5 DEF Cursor
<1> QED
  BY <1>1, <1>2, <1>4, <1>6 DEF CursorRow

(* The holder commits the units done in a component, with rows R and F.    *)
Stores(w, c, p, prepared, sha, R, F) ==
  /\ Holds(w)
  /\ c \in Config /\ c = task.config
  /\ p \in Part /\ p = mem[w].part
  /\ prepared \in BOOLEAN
  /\ p = "scan" => sha = mem[w].list
  /\ p = "clip" => sha \in Hashes
  /\ p \notin {"scan", "clip"} => sha = None
  /\ Commit(w, R, F, NewCursor(w, prepared, sha))

(* What is left to show are the rows.                                      *)
LEMMA UnitsCommitted ==
  ASSUME AnalysisInv, NEW w \in Worker, NEW c, NEW p, NEW prepared, NEW sha, NEW R, NEW F,
         Stores(w, c, p, prepared, sha, R, F),
         p = "clip" => \A f \in Done(mem[w].units, mem[w].at) : sha[f] # None,
         p \in {"scan", "score", "style", "group"} => prepared,
         rows' \in [File -> SampleRow], DiskTyped', OwnRows(p), Vouched', VersionsSound',
         ~Returned => DoneBy(c, p)'
  PROVE  AnalysisInv'
<1> USE DEF Stores
<1>1. PICK k : k = Cursor(mem[w].units, mem[w].at, prepared, sha)
  OBVIOUS
<1>2. mem[w].pc = "commit" /\ Commit(w, R, F, k)
  BY <1>1 DEF Commit, NewCursor
<1>3. Positioned(w) /\ Ready(w)
  BY <1>2, HolderWorks
<1>4. p = "scan" => sha \in Manifest
  BY <1>3 DEF Positioned
<1>5. /\ k \in CursorRow(p) /\ k.units = mem[w].units /\ k.next = mem[w].at /\ k.sha = sha
      /\ k.prepared = prepared
      /\ k.next <= Cardinality(k.units) /\ (k.complete <=> k.next = Cardinality(k.units))
  BY <1>1, <1>2, <1>4, CursorMade
<1>6. Saved(w, k)
  BY <1>2 DEF Commit
<1>7. OneCursor(c, p, k)
  BY <1>2, <1>5, <1>6, SavedSound
<1>8. Supported(c, p)
  BY <1>3 DEF Ready
<1>9. k.units = UnitsOf(c, p)'
  <2>1. CASE p = "scan"
    <3>1. ckpt'[c]["scan"].sha = mem[w].list
      BY <1>5, <1>7, <2>1 DEF OneCursor
    <3> QED
      BY <1>2, <1>5, <2>1, <3>1, AssignedKnown DEF UnitsOf, Listed
  <2>2. CASE p # "scan"
    BY <1>2, <1>5, <2>2, AssignedKnown, UnitsStay
  <2> QED
    BY <2>1, <2>2
<1>10. CursorSound(c, p)'
  BY <1>5, <1>7, <1>8, <1>9, MadeSound
<1> QED
  BY <1>2, <1>5, <1>10, CommitKeeps

(* A pause is honored inside a unit, which is not stored.                  *)
LEMMA ControlCommitKeeps ==
  ASSUME AnalysisInv, NEW w \in Worker, ControlCommit(w),
         mem[w].part \in {"style", "embed", "sae", "group"}
  PROVE  AnalysisInv'
<1>1. /\ mem[w].pc = "work" /\ Holds(w) /\ PauseHonored /\ Leave(w)
      /\ UNCHANGED <<tree, disk, rows, found>>
  BY DEF ControlCommit
<1>2. PICK c \in Config, p \in Part : c = task.config /\ p = mem[w].part
  BY <1>1, HolderWorks
<1>3. PICK k : k = Cursor(mem[w].units, mem[w].next, Prepared(w), None)
  OBVIOUS
<1>4. /\ ConfigOf(w) = c /\ task.phase = PhaseOf[p] /\ Ready(w) /\ Positioned(w)
  BY <1>1, <1>2, HolderWorks
<1>5. /\ Prepared(w) <=> ckpt[c][p] # None /\ ckpt[c][p].prepared
      /\ Prepared(w) \in BOOLEAN
  BY <1>1, <1>2, <1>4, PlaceKnown DEF Prepared, CursorOf, CursorRow
<1>6. /\ k \in CursorRow(p) /\ k.units = mem[w].units /\ k.next = mem[w].next
      /\ k.prepared = Prepared(w)
      /\ k.next <= Cardinality(k.units) /\ (k.complete <=> k.next = Cardinality(k.units))
  <2>1. PICK b \in BOOLEAN : b = Prepared(w)
    BY <1>5
  <2> QED
    BY <1>1, <1>2, <1>3, <2>1, CursorMade
<1>7. ~k.complete
  BY <1>1, <1>2, <1>6, PlaceKnown, <1>4 DEF Positioned
<1>8. Saved(w, k)
  BY <1>3 DEF ControlCommit
<1>9. OneCursor(c, p, k)
  BY <1>1, <1>2, <1>6, <1>8, SavedSound
<1>10. OwnRows(p)
  BY <1>1 DEF OwnRows
<1>11. k.units = UnitsOf(c, p)'
  BY <1>1, <1>2, <1>6, <1>10, AssignedKnown, UnitsStay
<1>12. p \in {"style", "group"} => k.prepared \/ (k.next = 0 /\ ~k.complete)
  BY <1>1, <1>2, <1>5, <1>6, <1>7, PlaceKnown DEF CursorSound
<1>13. CursorSound(c, p)'
  BY <1>2, <1>4, <1>6, <1>9, <1>11, <1>12, MadeSound DEF Ready
<1>14. DiskTyped' /\ rows' \in [File -> SampleRow]
  BY <1>1 DEF AnalysisInv, RowInv, DiskTyped, RowsTyped
<1>15. Vouched'
  <2>1. Clobbered' = Clobbered
    BY <1>9 DEF Clobbered, OneCursor
  <2>2. \A d \in Config : ckpt'[d]["scan"] = ckpt[d]["scan"] /\ ckpt'[d]["clip"] = ckpt[d]["clip"]
    BY <1>2, <1>9 DEF OneCursor, Part
  <2> QED
    BY <1>1, <2>1, <2>2 DEF AnalysisInv, RowInv, Vouched, SameManifest, ClipShas, Intact
<1>16. VersionsSound'
  BY <1>1 DEF AnalysisInv, RowInv, VersionsSound, NotNewer
<1>17. ASSUME ~Returned PROVE DoneBy(c, p)'
  <2>1. SUFFICES ASSUME k.prepared, p \in {"style", "group"}
                 PROVE  (p = "style" => StyleDone(c)') /\ (p = "group" => GroupsDone(c)')
    BY <1>2, <1>9 DEF DoneBy, OneCursor
  <2>2. Prepared(w) /\ ckpt[c][p] # None
    BY <1>5, <1>6, <2>1
  <2>3. ckpt[c][p].units = k.units /\ ckpt[c][p].next = k.next
    BY <1>1, <1>2, <1>6, <2>2, PlaceKnown
  <2>4. Done(k.units, k.next)' = Done(k.units, k.next)
    BY DEF Done, Nth
  <2>5. ASSUME p = "style" PROVE StyleDone(c)'
    <3>1. StyleDone(c)
      BY <1>1, <1>2, <1>17, <2>2, <2>5, BeforeKnown
    <3> QED
      BY <1>1, <1>9, <2>3, <2>4, <2>5, <3>1 DEF StyleDone, OneCursor
  <2>6. ASSUME p = "group" PROVE GroupsDone(c)'
    <3>1. GroupsDone(c)
      BY <1>1, <1>2, <1>17, <2>2, <2>6, BeforeKnown
    <3>2. \A s : Members(c, s)' = Members(c, s)
      BY <1>9, <2>6 DEF Members, OneCursor, Part
    <3>3. PICK done : done = Done(k.units, k.next)
      OBVIOUS
    <3>4. ckpt'[c]["group"] = k
      BY <1>9, <2>6 DEF OneCursor
    <3>5. UNION {Members(c, s)' : s \in done} = UNION {Members(c, s) : s \in done}
      BY <3>2
    <3>6. /\ found'.nodes = [s \in 0..NFiles |-> IF s \in done THEN c ELSE None]
          /\ found'.twins = {<<c, s>> : s \in done}
      BY <1>1, <2>3, <2>6, <3>1, <3>3 DEF GroupsDone
    <3>7. found'.roles = IF Settings[c].roles
                           THEN {<<c, f>> : f \in UNION {Members(c, s)' : s \in done}}
                           ELSE {}
      BY <1>1, <2>3, <2>6, <3>1, <3>3, <3>5 DEF GroupsDone
    <3> QED
      BY <2>4, <3>3, <3>4, <3>6, <3>7 DEF GroupsDone
  <2> QED
    BY <2>5, <2>6
<1>18. MemTyped'
  <2>1. mem' = [mem EXCEPT ![w] = Idle]
    BY <1>1 DEF Leave
  <2>2. Idle.pc = "idle"
    BY DEF Idle
  <2>3. k # None
    BY <1>6, NoneAssumption
  <2>4. \A d \in Config : ckpt[d]["embed"] # None => ckpt'[d]["embed"] # None
    BY <1>9, <2>3 DEF OneCursor, Part
  <2> QED
    BY <2>1, <2>2, <2>4, IdleRow, OneMoves DEF AnalysisInv
<1> QED
  BY <1>1, <1>2, <1>6, <1>8, <1>10, <1>13, <1>14, <1>15, <1>16, <1>17, <1>18, CommitSound

(* What such a commit leaves.                                              *)
LEMMA UnitsStored ==
  ASSUME AnalysisInv, NEW w \in Worker, NEW c, NEW p, NEW prepared, NEW sha, NEW R, NEW F,
         Stores(w, c, p, prepared, sha, R, F)
  PROVE  /\ mem[w].pc = "commit" /\ rows' = R /\ found' = F /\ UNCHANGED <<tree, disk>>
         /\ ConfigOf(w) = c
         /\ OneCursor(c, p, ckpt'[c][p])
         /\ ckpt'[c][p].units = mem[w].units /\ ckpt'[c][p].next = mem[w].at
         /\ ckpt'[c][p].sha = sha /\ ckpt'[c][p].prepared = prepared
         /\ ckpt'[c][p] # None /\ Clobbered' = Clobbered
<1> USE DEF Stores
<1>1. PICK k : k = Cursor(mem[w].units, mem[w].at, prepared, sha)
  OBVIOUS
<1>2. /\ mem[w].pc = "commit" /\ Saved(w, k)
      /\ rows' = R /\ found' = F /\ UNCHANGED <<tree, disk>>
  BY <1>1 DEF Commit, NewCursor
<1>3. p = "scan" => sha \in Manifest
  BY <1>2, HolderWorks DEF Positioned
<1>4. k \in CursorRow(p) /\ k.units = mem[w].units /\ k.next = mem[w].at /\ k.sha = sha
      /\ k.prepared = prepared
  BY <1>1, <1>2, <1>3, CursorMade
<1>5. OneCursor(c, p, k) /\ ConfigOf(w) = c
  BY <1>2, <1>4, SavedSound, HolderWorks
<1>6. k # None
  BY <1>4, NoneAssumption
<1>7. ckpt'[c][p] = k /\ Clobbered' = Clobbered
  BY <1>5 DEF OneCursor, Clobbered
<1> QED
  BY <1>2, <1>4, <1>5, <1>6, <1>7

LEMMA VouchedKept ==
  ASSUME AnalysisInv, NEW c \in Config, NEW p \in Part \ {"scan", "clip"}, NEW k,
         OneCursor(c, p, k), disk' = disk,
         found'.shards = found.shards, found'.codes = found.codes
  PROVE  Vouched'
<1>1. Clobbered' = Clobbered
  BY DEF Clobbered, OneCursor
<1>2. \A d \in Config : ckpt'[d]["scan"] = ckpt[d]["scan"] /\ ckpt'[d]["clip"] = ckpt[d]["clip"]
  BY DEF OneCursor, Part
<1> QED
  BY <1>1, <1>2 DEF AnalysisInv, RowInv, Vouched, SameManifest, ClipShas, Intact

LEMMA VersionsKept ==
  ASSUME AnalysisInv, UNCHANGED <<tree, disk, rows>>
  PROVE  VersionsSound' /\ rows' \in [File -> SampleRow]
BY DEF AnalysisInv, RowInv, RowsTyped, VersionsSound, NotNewer

LEMMA CommitScoreKeeps ==
  ASSUME AnalysisInv, NEW w \in Worker, CommitScore(w)
  PROVE  AnalysisInv'
<1>1. mem[w].part = "score" /\ mem[w].pc = "commit"
  BY DEF CommitScore, At
<1>2. PICK old : old = Cleared(~Prepared(w))
  OBVIOUS
<1>3. PICK b, R, F : /\ b = TRUE /\ R = rows
                     /\ F = BatchScored(old, ConfigOf(w), Pending(w))
  OBVIOUS
<1>4. Commit(w, R, F, NewCursor(w, b, None))
  BY <1>2, <1>3 DEF CommitScore
<1>5. CASE ~Holds(w)
  BY <1>4, <1>5, LeaveKeeps DEF Commit
<1>6. CASE Holds(w)
  <2>1. PICK c \in Config : c = task.config
    BY DEF AnalysisInv, RowInv, RowsTyped
  <2>2. "score" \in Part
    BY DEF Part
  <2>3. Stores(w, c, "score", b, None, R, F)
    BY <1>1, <1>3, <1>4, <1>6, <2>1, <2>2 DEF Stores
  <2>4. /\ rows' = R /\ found' = F /\ UNCHANGED <<tree, disk>>
        /\ ConfigOf(w) = c /\ OneCursor(c, "score", ckpt'[c]["score"])
        /\ ckpt'[c]["score"].units = mem[w].units /\ ckpt'[c]["score"].next = mem[w].at
    BY <2>3, UnitsStored
  <2>5. rows' = rows /\ found' = F /\ UNCHANGED <<tree, disk>>
    BY <1>3, <2>4
  <2>6. /\ DOMAIN found = DOMAIN NothingFound /\ DiskTyped
        /\ found.scores \in [File -> Config \cup {None}]
    BY DEF AnalysisInv, RowInv, DiskTyped
  <2>7. /\ DOMAIN F = DOMAIN NothingFound
        /\ F.scores = [f \in File |-> IF f \in Pending(w) THEN c ELSE old[f]]
        /\ F.style = found.style /\ F.shards = found.shards /\ F.codes = found.codes
        /\ F.nodes = found.nodes /\ F.twins = found.twins /\ F.roles = found.roles
        /\ F.manifests = found.manifests
    BY <1>3, <2>4, <2>6 DEF BatchScored, NothingFound
  <2>8. old \in [File -> Config \cup {None}]
    BY <1>2, <2>6 DEF Cleared, NothingFound
  <2>9. F.scores \in [File -> Config \cup {None}]
    BY <2>7, <2>8
  <2>10. DiskTyped'
    BY <2>5, <2>6, <2>7, <2>9 DEF DiskTyped
  <2>11. OwnRows("score")
    BY <2>5, <2>7 DEF OwnRows
  <2>12. Vouched'
    BY <2>2, <2>4, <2>7, VouchedKept
  <2>13. VersionsSound' /\ rows' \in [File -> SampleRow]
    BY <2>5, VersionsKept
  <2>14. ASSUME ~Returned PROVE ScoresDone(c)'
    <3>1. /\ Done(mem[w].units, mem[w].at) = Done(mem[w].units, mem[w].next) \cup Pending(w)
          /\ ckpt[c]["score"] # None => /\ ckpt[c]["score"].units = mem[w].units
                                        /\ ckpt[c]["score"].next = mem[w].next
      BY <1>1, <1>6, <2>1, <2>2, PlaceKnown
    <3>2. /\ Prepared(w) <=> ckpt[c]["score"] # None /\ ckpt[c]["score"].prepared
          /\ ~Prepared(w) => Done(mem[w].units, mem[w].next) = {}
          /\ Prepared(w) => ScoresDone(c)
      BY <1>1, <1>6, <2>1, <2>2, <2>14, BeforeKnown
    <3>3. PICK S : S = Done(mem[w].units, mem[w].next)
      OBVIOUS
    <3>4. old = [f \in File |-> IF f \in S THEN c ELSE None]
      <4>1. CASE Prepared(w)
        BY <1>2, <3>1, <3>2, <3>3, <4>1 DEF Cleared, ScoresDone
      <4>2. CASE ~Prepared(w)
        BY <1>2, <3>2, <3>3, <4>2 DEF Cleared, NothingFound
      <4> QED
        BY <4>1, <4>2
    <3>5. PICK T : T = Done(mem[w].units, mem[w].at)
      OBVIOUS
    <3>6. found'.scores = [f \in File |-> IF f \in T THEN c ELSE None]
      BY <2>5, <2>7, <3>1, <3>3, <3>4, <3>5
    <3>7. Done(ckpt[c]["score"].units, ckpt[c]["score"].next)' = T
      BY <2>4, <3>5 DEF Done, Nth
    <3> QED
      BY <3>6, <3>7 DEF ScoresDone
  <2>15. ~Returned => DoneBy(c, "score")'
    BY <2>14 DEF DoneBy
  <2> QED
    BY <1>3, <2>3, <2>10, <2>11, <2>12, <2>13, <2>15, UnitsCommitted
<1> QED
  BY <1>5, <1>6

LEMMA CommitStyleKeeps ==
  ASSUME AnalysisInv, NEW w \in Worker, CommitStyle(w)
  PROVE  AnalysisInv'
<1>1. mem[w].part = "style" /\ mem[w].pc = "commit"
  BY DEF CommitStyle, At
<1>2. PICK old : old = StyleCleared(~Prepared(w))
  OBVIOUS
<1>3. PICK b, R, F : /\ b = TRUE /\ R = rows
                     /\ F = ScopeStyled(old, ConfigOf(w), Pending(w))
  OBVIOUS
<1>4. Commit(w, R, F, NewCursor(w, b, None))
  BY <1>2, <1>3 DEF CommitStyle
<1>5. CASE ~Holds(w)
  BY <1>4, <1>5, LeaveKeeps DEF Commit
<1>6. CASE Holds(w)
  <2>1. PICK c \in Config : c = task.config
    BY DEF AnalysisInv, RowInv, RowsTyped
  <2>2. "style" \in Part
    BY DEF Part
  <2>3. Stores(w, c, "style", b, None, R, F)
    BY <1>1, <1>3, <1>4, <1>6, <2>1, <2>2 DEF Stores
  <2>4. /\ rows' = R /\ found' = F /\ UNCHANGED <<tree, disk>>
        /\ ConfigOf(w) = c /\ OneCursor(c, "style", ckpt'[c]["style"])
        /\ ckpt'[c]["style"].units = mem[w].units /\ ckpt'[c]["style"].next = mem[w].at
    BY <2>3, UnitsStored
  <2>5. rows' = rows /\ found' = F /\ UNCHANGED <<tree, disk>>
    BY <1>3, <2>4
  <2>6. /\ DOMAIN found = DOMAIN NothingFound /\ DiskTyped
        /\ found.style \in [File -> Config \cup {None}]
    BY DEF AnalysisInv, RowInv, DiskTyped
  <2>7. /\ DOMAIN F = DOMAIN NothingFound
        /\ F.style = [f \in File |-> IF f \in Pending(w) THEN c ELSE old[f]]
        /\ F.scores = found.scores /\ F.shards = found.shards /\ F.codes = found.codes
        /\ F.nodes = found.nodes /\ F.twins = found.twins /\ F.roles = found.roles
        /\ F.manifests = found.manifests
    BY <1>3, <2>4, <2>6 DEF ScopeStyled, NothingFound
  <2>8. old \in [File -> Config \cup {None}]
    BY <1>2, <2>6 DEF StyleCleared, NothingFound
  <2>9. F.style \in [File -> Config \cup {None}]
    BY <2>7, <2>8
  <2>10. DiskTyped'
    BY <2>5, <2>6, <2>7, <2>9 DEF DiskTyped
  <2>11. OwnRows("style")
    BY <2>5, <2>7 DEF OwnRows
  <2>12. Vouched'
    BY <2>2, <2>4, <2>7, VouchedKept
  <2>13. VersionsSound' /\ rows' \in [File -> SampleRow]
    BY <2>5, VersionsKept
  <2>14. ASSUME ~Returned PROVE StyleDone(c)'
    <3>1. /\ Done(mem[w].units, mem[w].at) = Done(mem[w].units, mem[w].next) \cup Pending(w)
          /\ ckpt[c]["style"] # None => /\ ckpt[c]["style"].units = mem[w].units
                                        /\ ckpt[c]["style"].next = mem[w].next
      BY <1>1, <1>6, <2>1, <2>2, PlaceKnown
    <3>2. /\ Prepared(w) <=> ckpt[c]["style"] # None /\ ckpt[c]["style"].prepared
          /\ ~Prepared(w) => Done(mem[w].units, mem[w].next) = {}
          /\ Prepared(w) => StyleDone(c)
      BY <1>1, <1>6, <2>1, <2>2, <2>14, BeforeKnown
    <3>3. PICK S : S = Done(mem[w].units, mem[w].next)
      OBVIOUS
    <3>4. old = [f \in File |-> IF f \in S THEN c ELSE None]
      <4>1. CASE Prepared(w)
        BY <1>2, <3>1, <3>2, <3>3, <4>1 DEF StyleCleared, StyleDone
      <4>2. CASE ~Prepared(w)
        BY <1>2, <3>2, <3>3, <4>2 DEF StyleCleared, NothingFound
      <4> QED
        BY <4>1, <4>2
    <3>5. PICK T : T = Done(mem[w].units, mem[w].at)
      OBVIOUS
    <3>6. found'.style = [f \in File |-> IF f \in T THEN c ELSE None]
      BY <2>5, <2>7, <3>1, <3>3, <3>4, <3>5
    <3>7. Done(ckpt[c]["style"].units, ckpt[c]["style"].next)' = T
      BY <2>4, <3>5 DEF Done, Nth
    <3> QED
      BY <3>6, <3>7 DEF StyleDone
  <2>15. ~Returned => DoneBy(c, "style")'
    BY <2>14 DEF DoneBy
  <2> QED
    BY <1>3, <2>3, <2>10, <2>11, <2>12, <2>13, <2>15, UnitsCommitted
<1> QED
  BY <1>5, <1>6

(* A cursor that vouches for no file, and files that are as registered.    *)
LEMMA VouchedAnew ==
  ASSUME AnalysisInv, NEW c \in Config, NEW p \in Part \ {"scan", "clip"}, NEW k,
         OneCursor(c, p, k), disk' = disk,
         ~Clobbered => /\ \A f \in File : found'.shards[f] \in {None, disk.embed[f]}
                       /\ \A S \in SUBSET File : found'.codes[S] \in {None, disk.sae[S]}
  PROVE  Vouched'
<1>1. Clobbered' = Clobbered
  BY DEF Clobbered, OneCursor
<1>2. \A d \in Config : ckpt'[d]["scan"] = ckpt[d]["scan"] /\ ckpt'[d]["clip"] = ckpt[d]["clip"]
  BY DEF OneCursor, Part
<1> QED
  BY <1>1, <1>2 DEF AnalysisInv, RowInv, Vouched, SameManifest, ClipShas, Intact

LEMMA CommitEmbedKeeps ==
  ASSUME AnalysisInv, NEW w \in Worker, CommitEmbed(w)
  PROVE  AnalysisInv'
<1>1. mem[w].part = "embed" /\ mem[w].pc = "commit"
  BY DEF CommitEmbed, At
<1>2. PICK b, R, F : b = FALSE /\ R = rows /\ F = ShardsRegistered(w)
  OBVIOUS
<1>3. Commit(w, R, F, NewCursor(w, b, None))
  BY <1>2 DEF CommitEmbed
<1>4. CASE ~Holds(w)
  BY <1>3, <1>4, LeaveKeeps DEF Commit
<1>5. CASE Holds(w)
  <2>1. PICK c \in Config : c = task.config
    BY DEF AnalysisInv, RowInv, RowsTyped
  <2>2. "embed" \in Part
    BY DEF Part
  <2>3. Stores(w, c, "embed", b, None, R, F)
    BY <1>1, <1>2, <1>3, <1>5, <2>1, <2>2 DEF Stores
  <2>4. /\ rows' = R /\ found' = F /\ UNCHANGED <<tree, disk>>
        /\ OneCursor(c, "embed", ckpt'[c]["embed"])
    BY <2>3, UnitsStored
  <2>5. rows' = rows /\ found' = F /\ UNCHANGED <<tree, disk>>
    BY <1>2, <2>4
  <2>6. DOMAIN found = DOMAIN NothingFound /\ DiskTyped /\ found.shards \in Hashes
    BY DEF AnalysisInv, RowInv, DiskTyped
  <2>7. /\ DOMAIN F = DOMAIN NothingFound
        /\ F.shards = Registered(found.shards, mem[w].seen)
        /\ F.scores = found.scores /\ F.style = found.style /\ F.codes = found.codes
        /\ F.nodes = found.nodes /\ F.twins = found.twins /\ F.roles = found.roles
        /\ F.manifests = found.manifests
    BY <1>2, <2>6 DEF ShardsRegistered, NothingFound
  <2>8. Sighted(w) /\ (~Clobbered => Backed(w))
    BY <1>1, <1>5, HolderWorks
  <2>9. F.shards \in Hashes
    <3>1. \A f \in File : mem[w].seen[f] \in Worker \cup {None}
      BY <1>1, <2>8 DEF Sighted
    <3> QED
      BY <2>6, <2>7, <3>1 DEF Registered, Hashes
  <2>10. DiskTyped'
    BY <2>5, <2>6, <2>7, <2>9 DEF DiskTyped
  <2>11. OwnRows("embed")
    BY <2>5, <2>7 DEF OwnRows
  <2>12. Vouched'
    <3>1. ASSUME ~Clobbered, NEW f \in File
          PROVE  F.shards[f] \in {None, disk.embed[f]}
      <4>1. found.shards[f] \in {None, disk.embed[f]}
        BY <3>1 DEF AnalysisInv, RowInv, Vouched, Intact
      <4>2. mem[w].seen[f] \in {None, disk.embed[f]}
        BY <1>1, <2>8, <3>1 DEF Backed
      <4> QED
        BY <2>7, <4>1, <4>2 DEF Registered
    <3>2. ~Clobbered => \A S \in SUBSET File : F.codes[S] \in {None, disk.sae[S]}
      BY <2>7 DEF AnalysisInv, RowInv, Vouched
    <3> QED
      BY <2>2, <2>4, <3>1, <3>2, VouchedAnew
  <2>13. VersionsSound' /\ rows' \in [File -> SampleRow]
    BY <2>5, VersionsKept
  <2>14. DoneBy(c, "embed")'
    BY DEF DoneBy
  <2> QED
    BY <2>3, <2>10, <2>11, <2>12, <2>13, <2>14, UnitsCommitted
<1> QED
  BY <1>4, <1>5

LEMMA CommitSaeKeeps ==
  ASSUME AnalysisInv, NEW w \in Worker, CommitSae(w)
  PROVE  AnalysisInv'
<1>1. mem[w].part = "sae" /\ mem[w].pc = "commit"
  BY DEF CommitSae, At
<1>2. PICK b, R, F : b = FALSE /\ R = rows /\ F = CodesRegistered(w)
  OBVIOUS
<1>3. Commit(w, R, F, NewCursor(w, b, None))
  BY <1>2 DEF CommitSae
<1>4. CASE ~Holds(w)
  BY <1>3, <1>4, LeaveKeeps DEF Commit
<1>5. CASE Holds(w)
  <2>1. PICK c \in Config : c = task.config
    BY DEF AnalysisInv, RowInv, RowsTyped
  <2>2. "sae" \in Part
    BY DEF Part
  <2>3. Stores(w, c, "sae", b, None, R, F)
    BY <1>1, <1>2, <1>3, <1>5, <2>1, <2>2 DEF Stores
  <2>4. /\ rows' = R /\ found' = F /\ UNCHANGED <<tree, disk>>
        /\ OneCursor(c, "sae", ckpt'[c]["sae"])
    BY <2>3, UnitsStored
  <2>5. rows' = rows /\ found' = F /\ UNCHANGED <<tree, disk>>
    BY <1>2, <2>4
  <2>6. /\ DOMAIN found = DOMAIN NothingFound /\ DiskTyped
        /\ found.codes \in [SUBSET File -> Worker \cup {None}]
    BY DEF AnalysisInv, RowInv, DiskTyped
  <2>7. PICK key : key = CodeKey(w)
    OBVIOUS
  <2>8. /\ DOMAIN F = DOMAIN NothingFound
        /\ F.codes = IF Pending(w) = {} THEN found.codes
                     ELSE [found.codes EXCEPT ![key] = mem[w].list]
        /\ F.scores = found.scores /\ F.style = found.style /\ F.shards = found.shards
        /\ F.nodes = found.nodes /\ F.twins = found.twins /\ F.roles = found.roles
        /\ F.manifests = found.manifests
    BY <1>2, <2>6, <2>7 DEF CodesRegistered, NothingFound
  <2>9. Sighted(w) /\ (~Clobbered => Backed(w))
    BY <1>1, <1>5, HolderWorks
  <2>10. Pending(w) # {} => /\ mem[w].list \in Worker
                            /\ ~Clobbered => mem[w].list = disk.sae[key]
    BY <1>1, <2>7, <2>9 DEF Sighted, Backed
  <2>11. F.codes \in [SUBSET File -> Worker \cup {None}]
    BY <2>6, <2>8, <2>10
  <2>12. DiskTyped'
    BY <2>5, <2>6, <2>8, <2>11 DEF DiskTyped
  <2>13. OwnRows("sae")
    BY <2>5, <2>8 DEF OwnRows
  <2>14. Vouched'
    <3>1. ASSUME ~Clobbered, NEW S \in SUBSET File
          PROVE  F.codes[S] \in {None, disk.sae[S]}
      <4>1. found.codes[S] \in {None, disk.sae[S]}
        BY <3>1 DEF AnalysisInv, RowInv, Vouched
      <4> QED
        BY <2>6, <2>8, <2>10, <3>1, <4>1
    <3>2. ~Clobbered => \A f \in File : F.shards[f] \in {None, disk.embed[f]}
      BY <2>8 DEF AnalysisInv, RowInv, Vouched, Intact
    <3> QED
      BY <2>2, <2>4, <3>1, <3>2, VouchedAnew
  <2>15. VersionsSound' /\ rows' \in [File -> SampleRow]
    BY <2>5, VersionsKept
  <2>16. DoneBy(c, "sae")'
    BY DEF DoneBy
  <2> QED
    BY <2>3, <2>12, <2>13, <2>14, <2>15, <2>16, UnitsCommitted
<1> QED
  BY <1>4, <1>5

LEMMA CommitClipKeeps ==
  ASSUME AnalysisInv, NEW w \in Worker, CommitClip(w)
  PROVE  AnalysisInv'
<1>1. mem[w].part = "clip" /\ mem[w].pc = "commit"
  BY DEF CommitClip, At
<1>2. PICK b, R, F, sha : /\ b = FALSE /\ R = rows /\ F = found
                          /\ sha = Registered(ClipShas(ConfigOf(w)), mem[w].seen)
  OBVIOUS
<1>3. Commit(w, R, F, NewCursor(w, b, sha))
  BY <1>2 DEF CommitClip
<1>4. CASE ~Holds(w)
  BY <1>3, <1>4, LeaveKeeps DEF Commit
<1>5. CASE Holds(w)
  <2>1. PICK c \in Config : c = task.config
    BY DEF AnalysisInv, RowInv, RowsTyped
  <2>2. "clip" \in Part
    BY DEF Part
  <2>3. Sighted(w) /\ (~Clobbered => Backed(w)) /\ ConfigOf(w) = c
    BY <1>1, <1>5, <2>1, HolderWorks
  <2>4. /\ \A f \in File : mem[w].seen[f] \in Worker \cup {None}
        /\ \A f \in File : f \in Pending(w) <=> mem[w].seen[f] # None
        /\ ~Clobbered => \A f \in Pending(w) : mem[w].seen[f] = disk.clip[f]
    BY <1>1, <2>3 DEF Sighted, Backed
  <2>5. ClipShas(c) \in Hashes
    BY ClipShasTyped
  <2>6. /\ sha \in Hashes
        /\ \A f \in File : sha[f] = IF mem[w].seen[f] # None THEN mem[w].seen[f]
                                    ELSE ClipShas(c)[f]
    BY <1>2, <2>3, <2>4, <2>5 DEF Registered, Hashes
  <2>7. Stores(w, c, "clip", b, sha, R, F)
    BY <1>1, <1>2, <1>3, <1>5, <2>1, <2>2, <2>6 DEF Stores
  <2>8. /\ rows' = R /\ found' = F /\ UNCHANGED <<tree, disk>>
        /\ OneCursor(c, "clip", ckpt'[c]["clip"])
        /\ ckpt'[c]["clip"] # None /\ ckpt'[c]["clip"].sha = sha
        /\ Clobbered' = Clobbered
    BY <2>7, UnitsStored
  <2>9. rows' = rows /\ found' = found /\ UNCHANGED <<tree, disk>>
    BY <1>2, <2>8
  <2>10. DiskTyped' /\ OwnRows("clip")
    BY <2>9 DEF AnalysisInv, RowInv, DiskTyped, OwnRows
  <2>11. VersionsSound' /\ rows' \in [File -> SampleRow]
    BY <2>9, VersionsKept
  <2>12. Vouched'
    <3> SUFFICES ASSUME ~Clobbered PROVE Vouched'
      BY <2>8 DEF Vouched
    <3>1. sha # None
      BY <2>6, NoneAssumption
    <3>2. ClipShas(c)' = sha
      BY <2>8, <3>1 DEF ClipShas
    <3>3. \A d \in Config \ {c} : ClipShas(d)' = ClipShas(d)
      BY <2>2, <2>8 DEF OneCursor, ClipShas
    <3>4. ASSUME NEW d \in Config, NEW f \in File PROVE ClipShas(d)'[f] \in {None, disk.clip[f]}
      <4>1. ClipShas(d)[f] \in {None, disk.clip[f]}
        BY DEF AnalysisInv, RowInv, Vouched
      <4> QED
        BY <2>4, <2>6, <3>2, <3>3, <4>1
    <3>5. \A d \in Config : ckpt'[d]["scan"] = ckpt[d]["scan"]
      BY <2>2, <2>8 DEF OneCursor, Part
    <3> QED
      BY <2>9, <3>4, <3>5 DEF AnalysisInv, RowInv, Vouched, SameManifest, Intact
  <2>13. \A f \in Done(mem[w].units, mem[w].at) : sha[f] # None
    <3>1. /\ Done(mem[w].units, mem[w].at) = Done(mem[w].units, mem[w].next) \cup Pending(w)
          /\ Done(mem[w].units, mem[w].at) \subseteq mem[w].units
          /\ Done(mem[w].units, 0) = {}
          /\ ckpt[c]["clip"] # None => /\ ckpt[c]["clip"] \in CursorRow("clip")
                                       /\ CursorSound(c, "clip")
                                       /\ ckpt[c]["clip"].units = mem[w].units
                                       /\ ckpt[c]["clip"].next = mem[w].next
          /\ ckpt[c]["clip"] = None => mem[w].next = 0
      BY <1>1, <1>5, <2>1, <2>2, PlaceKnown
    <3>2. mem[w].units \subseteq File
      BY <1>1, <1>5, <2>1, AssignedKnown, UnitsWithin
    <3>3. ASSUME NEW f \in Done(mem[w].units, mem[w].next) PROVE ClipShas(c)[f] # None
      <4>1. ckpt[c]["clip"] # None
        BY <3>1, <3>3
      <4>2. ckpt[c]["clip"].sha \in Hashes /\ ckpt[c]["clip"].sha[f] # None
        BY <3>1, <3>3, <4>1 DEF CursorRow, CursorSound
      <4>3. ckpt[c]["clip"].sha # None
        BY <4>2, NoneAssumption
      <4> QED
        BY <4>1, <4>2, <4>3 DEF ClipShas
    <3> QED
      BY <2>4, <2>6, <3>1, <3>2, <3>3
  <2>14. DoneBy(c, "clip")'
    BY DEF DoneBy
  <2> QED
    BY <2>7, <2>10, <2>11, <2>12, <2>13, <2>14, UnitsCommitted
<1> QED
  BY <1>4, <1>5

(* The rows before a batch of the scan.                                    *)
LEMMA AsideSound ==
  ASSUME AnalysisInv, NEW w \in Worker, NEW before, before = Prepare(~Prepared(w))
  PROVE  /\ before \in [File -> SampleRow]
         /\ \A f \in File : before[f].listed \in {0, rows[f].listed}
         /\ \A f \in File : before[f].state = "valid" => before[f].listed # 0
         /\ Prepared(w) => before = rows
         /\ ~Prepared(w) => \A f \in File : before[f].state \in {"none", "missing"}
<1>1. rows \in [File -> SampleRow]
  BY DEF AnalysisInv, RowInv, RowsTyped
<1>2. NoRow \in SampleRow /\ NoRow.state = "none" /\ NoRow.listed = 0
  BY DEF NoRow, SampleRow, State
<1>3. CASE Prepared(w)
  BY <1>1, <1>3 DEF Prepare, AnalysisInv, RowInv, VersionsSound
<1>4. CASE ~Prepared(w)
  <2>1. before = SetAside
    BY <1>4 DEF Prepare
  <2>2. ASSUME NEW f \in File
        PROVE  /\ before[f] \in SampleRow /\ before[f].listed \in {0, rows[f].listed}
               /\ before[f].state \in {"none", "missing"}
    <3>1. PICK r \in SampleRow : r = rows[f]
      BY <1>1
    <3>2. PICK s : s = [r EXCEPT !.state = "missing"]
      OBVIOUS
    <3>3. s \in SampleRow /\ s.listed = r.listed /\ s.state = "missing"
      BY <3>2 DEF SampleRow, State
    <3>4. before[f] \in {NoRow, s}
      BY <2>1, <3>1, <3>2 DEF SetAside
    <3> QED
      BY <1>2, <3>1, <3>3, <3>4
  <2>3. before \in [File -> SampleRow]
    BY <2>1, <2>2 DEF SetAside
  <2> QED
    BY <1>4, <2>2, <2>3
<1> QED
  BY <1>3, <1>4

LEMMA CommitScanKeeps ==
  ASSUME AnalysisInv, NEW w \in Worker, CommitScan(w)
  PROVE  AnalysisInv'
<1>1. mem[w].part = "scan" /\ mem[w].pc = "commit"
  BY DEF CommitScan, At
<1>2. PICK before : before = Prepare(~Prepared(w))
  OBVIOUS
<1>3. PICK b, R, F, list : /\ b = TRUE /\ R = Scanned(w, before) /\ F = ManifestRegistered(w)
                           /\ list = mem[w].list
  OBVIOUS
<1>4. Commit(w, R, F, NewCursor(w, b, list))
  BY <1>2, <1>3 DEF CommitScan
<1>5. CASE ~Holds(w)
  BY <1>4, <1>5, LeaveKeeps DEF Commit
<1>6. CASE Holds(w)
  <2>1. PICK c \in Config : c = task.config
    BY DEF AnalysisInv, RowInv, RowsTyped
  <2>2. "scan" \in Part
    BY DEF Part
  <2>3. Stores(w, c, "scan", b, list, R, F)
    BY <1>1, <1>3, <1>4, <1>6, <2>1, <2>2 DEF Stores
  <2>4. /\ rows' = R /\ found' = F /\ UNCHANGED <<tree, disk>>
        /\ ConfigOf(w) = c /\ OneCursor(c, "scan", ckpt'[c]["scan"])
        /\ ckpt'[c]["scan"].units = mem[w].units /\ ckpt'[c]["scan"].next = mem[w].at
        /\ ckpt'[c]["scan"] # None /\ ckpt'[c]["scan"].sha = list /\ Clobbered' = Clobbered
    BY <2>3, UnitsStored
  <2>5. /\ Sighted(w) /\ (~Clobbered => Backed(w)) /\ Positioned(w)
        /\ mem[w].units = Listed(list)
    BY <1>1, <1>3, <1>6, HolderWorks, AssignedKnown
  <2>6. /\ list \in Manifest /\ NotNewer(list.list) /\ list.list \in [File -> Nat]
        /\ \A f \in Pending(w) : mem[w].seen[f] \in State \ {"none", "missing"}
        /\ ~Clobbered => list = disk.manifest[c]
    BY <1>1, <1>3, <2>1, <2>5 DEF Positioned, Sighted, Backed, Manifest
  <2>7. /\ Done(mem[w].units, mem[w].at) = Done(mem[w].units, mem[w].next) \cup Pending(w)
        /\ Done(mem[w].units, mem[w].at) \subseteq mem[w].units
        /\ ckpt[c]["scan"] # None => /\ ckpt[c]["scan"].units = mem[w].units
                                     /\ ckpt[c]["scan"].next = mem[w].next
                                     /\ ckpt[c]["scan"].sha = list
    BY <1>1, <1>3, <1>6, <2>1, <2>2, PlaceKnown
  <2>8. /\ Prepared(w) <=> ckpt[c]["scan"] # None /\ ckpt[c]["scan"].prepared
        /\ ~Prepared(w) => Done(mem[w].units, mem[w].next) = {}
        /\ Prepared(w) /\ ~Returned => ScanDone(c)
    BY <1>1, <1>6, <2>1, <2>2, BeforeKnown
  <2>9. /\ before \in [File -> SampleRow]
        /\ \A f \in File : before[f].listed \in {0, rows[f].listed}
        /\ \A f \in File : before[f].state = "valid" => before[f].listed # 0
        /\ Prepared(w) => before = rows
        /\ ~Prepared(w) => \A f \in File : before[f].state \in {"none", "missing"}
    BY <1>2, AsideSound
  <2>10. Pending(w) \subseteq File /\ \A f \in Pending(w) : list.list[f] # 0
    BY <2>5, <2>7 DEF Listed
  <2>11. ASSUME NEW f \in Pending(w)
         PROVE  /\ R[f] \in SampleRow /\ R[f].state = mem[w].seen[f]
                /\ R[f].listed = list.list[f] /\ R[f].metrics = c
    <3>1. f \in File /\ before[f] \in SampleRow
      BY <2>9, <2>10
    <3>2. PICK r, s : r = before[f] /\ s = mem[w].seen[f]
      OBVIOUS
    <3>3. r \in SampleRow /\ s \in State
      BY <2>6, <3>1, <3>2
    <3>4. PICK judged : judged = (r.judged \ {c}) \cup (IF s = "valid" THEN {c} ELSE {})
      OBVIOUS
    <3>5. judged \in SUBSET Config
      BY <3>3, <3>4 DEF SampleRow
    <3>6. PICK n \in Nat : n = list.list[f]
      BY <2>6, <3>1
    <3>7. R[f] = [[r EXCEPT !.metrics = c, !.judged = judged] EXCEPT !.state = s, !.listed = n]
      BY <1>3, <2>4, <3>1, <3>2, <3>3, <3>4, <3>6 DEF Scanned, Replaced, SampleRow
    <3>8. R[f] = [state |-> s, listed |-> n, judged |-> judged, metrics |-> c]
      BY <3>3, <3>7 DEF SampleRow
    <3> QED
      BY <3>2, <3>3, <3>5, <3>6, <3>8 DEF SampleRow
  <2>12. \A f \in File \ Pending(w) : R[f] = before[f]
    BY <1>3 DEF Scanned
  <2>13. R \in [File -> SampleRow]
    <3>1. R = [f \in File |-> R[f]]
      BY <1>3 DEF Scanned
    <3>2. \A f \in File : R[f] \in SampleRow
      BY <2>9, <2>11, <2>12
    <3> QED
      BY <3>1, <3>2
  <2>14. DOMAIN found = DOMAIN NothingFound /\ DiskTyped /\ DOMAIN found.manifests = Config
    BY DEF AnalysisInv, RowInv, DiskTyped
  <2>15. /\ DOMAIN F = DOMAIN NothingFound
         /\ F.manifests = IF Prepared(w) THEN found.manifests
                          ELSE [found.manifests EXCEPT ![c] = list]
         /\ F.scores = found.scores /\ F.style = found.style /\ F.shards = found.shards
         /\ F.codes = found.codes
         /\ F.nodes = found.nodes /\ F.twins = found.twins /\ F.roles = found.roles
    BY <1>3, <2>4, <2>14 DEF ManifestRegistered, NothingFound
  <2>16. DOMAIN F.manifests = Config
    BY <2>14, <2>15
  <2>17. DiskTyped'
    BY <2>4, <2>14, <2>15, <2>16 DEF DiskTyped
  <2>18. OwnRows("scan")
    BY <2>4, <2>15 DEF OwnRows
  <2>19. Vouched'
    <3> SUFFICES ASSUME ~Clobbered PROVE Vouched'
      BY <2>4 DEF Vouched
    <3>1. \A d \in Config : ckpt'[d]["scan"] # None => SameManifest(d)'
      <4> SUFFICES ASSUME NEW d \in Config, ckpt'[d]["scan"] # None PROVE SameManifest(d)'
        OBVIOUS
      <4>1. CASE d = c
        BY <2>4, <2>6, <4>1 DEF SameManifest
      <4>2. CASE d # c
        <5>1. ckpt'[d]["scan"] = ckpt[d]["scan"]
          BY <2>2, <2>4, <4>2 DEF OneCursor
        <5> QED
          BY <2>4, <5>1 DEF AnalysisInv, RowInv, Vouched, SameManifest
      <4> QED
        BY <4>1, <4>2
    <3>2. \A d \in Config : ckpt'[d]["clip"] = ckpt[d]["clip"]
      BY <2>2, <2>4 DEF OneCursor, Part
    <3> QED
      BY <2>4, <2>15, <3>1, <3>2 DEF AnalysisInv, RowInv, Vouched, ClipShas, Intact
  <2>20. VersionsSound'
    <3>1. ASSUME NEW f \in File PROVE tree[f] = 0 \/ R[f].listed <= tree[f]
      <4>1. CASE f \in Pending(w)
        BY <2>6, <2>11, <4>1 DEF NotNewer
      <4>2. CASE f \notin Pending(w)
        <5>1. R[f].listed \in {0, rows[f].listed}
          BY <2>9, <2>12, <4>2
        <5>2. tree[f] = 0 \/ rows[f].listed <= tree[f]
          BY DEF AnalysisInv, RowInv, VersionsSound, NotNewer
        <5>3. tree[f] \in Nat
          BY DEF AnalysisInv, RowInv, RowsTyped
        <5> QED
          BY <5>1, <5>2, <5>3
      <4> QED
        BY <4>1, <4>2
    <3>2. \A f \in File : R[f].state = "valid" => R[f].listed # 0
      BY <2>9, <2>10, <2>11, <2>12
    <3> QED
      BY <2>4, <3>1, <3>2 DEF AnalysisInv, RowInv, VersionsSound, NotNewer
  <2>21. ASSUME ~Returned PROVE ScanDone(c)'
    <3>1. F.manifests[c] = list
      <4>1. CASE Prepared(w)
        BY <2>7, <2>8, <2>15, <2>21, <4>1 DEF ScanDone
      <4>2. CASE ~Prepared(w)
        BY <2>14, <2>15, <4>2
      <4> QED
        BY <4>1, <4>2
    <3>2. PICK S, T : /\ S = Done(mem[w].units, mem[w].next)
                      /\ T = Done(mem[w].units, mem[w].at)
      OBVIOUS
    <3>3. ASSUME NEW f \in File
          PROVE  IF f \in T
                   THEN /\ R[f].listed = list.list[f]
                        /\ R[f].state \notin {"none", "missing"}
                        /\ R[f].metrics = c
                   ELSE R[f].state \in {"none", "missing"}
      <4>1. CASE f \in Pending(w)
        BY <2>6, <2>7, <2>11, <3>2, <4>1
      <4>2. CASE f \notin Pending(w) /\ Prepared(w)
        BY <2>7, <2>8, <2>9, <2>12, <2>21, <3>2, <4>2 DEF ScanDone
      <4>3. CASE f \notin Pending(w) /\ ~Prepared(w)
        BY <2>7, <2>8, <2>9, <2>12, <3>2, <4>3
      <4> QED
        BY <4>1, <4>2, <4>3
    <3>4. Done(ckpt[c]["scan"].units, ckpt[c]["scan"].next)' = T
      BY <2>4, <3>2 DEF Done, Nth
    <3> QED
      BY <2>4, <3>1, <3>3, <3>4 DEF ScanDone
  <2>22. ~Returned => DoneBy(c, "scan")'
    BY <2>21 DEF DoneBy
  <2> QED
    BY <1>3, <2>3, <2>4, <2>13, <2>17, <2>18, <2>19, <2>20, <2>22, UnitsCommitted
<1> QED
  BY <1>5, <1>6

LEMMA CommitGroupKeeps ==
  ASSUME AnalysisInv, NEW w \in Worker, CommitGroup(w)
  PROVE  AnalysisInv'
<1>1. mem[w].part = "group" /\ mem[w].pc = "commit"
  BY DEF CommitGroup, At
<1>2. PICK before : before = NodesCleared(~Prepared(w))
  OBVIOUS
<1>3. PICK b, R, F : /\ b = TRUE /\ R = rows
                     /\ F = ScopePersisted(before, ConfigOf(w), Pending(w))
  OBVIOUS
<1>4. PICK taken \in BOOLEAN : taken = \E s \in Pending(w) : before.nodes[s] # None
  OBVIOUS
<1>5. IF Holds(w) /\ taken THEN Raise(w) ELSE Commit(w, R, F, NewCursor(w, b, None))
  BY <1>2, <1>3, <1>4 DEF CommitGroup
<1>6. CASE ~Holds(w)
  BY <1>5, <1>6, LeaveKeeps DEF Commit
<1>7. CASE Holds(w)
  <2>1. PICK c \in Config : c = task.config
    BY DEF AnalysisInv, RowInv, RowsTyped
  <2>2. "group" \in Part
    BY DEF Part
  <2>3. /\ DOMAIN found = DOMAIN NothingFound /\ DiskTyped
        /\ found.nodes \in [0..NFiles -> Config \cup {None}]
    BY DEF AnalysisInv, RowInv, DiskTyped
  <2>4. PICK S, P, T : /\ S = Done(mem[w].units, mem[w].next) /\ P = Pending(w)
                       /\ T = Done(mem[w].units, mem[w].at)
    OBVIOUS
  <2>5. /\ T = S \cup P /\ S \cap P = {} /\ P \subseteq 0..NFiles
        /\ ckpt[c]["group"] # None => /\ ckpt[c]["group"].units = mem[w].units
                                      /\ ckpt[c]["group"].next = mem[w].next
    <3>1. mem[w].units \subseteq 0..NFiles
      BY <1>1, <1>7, HolderWorks
    <3> QED
      BY <1>1, <1>7, <2>1, <2>2, <2>4, <3>1, PlaceKnown
  <2>6. /\ Prepared(w) <=> ckpt[c]["group"] # None /\ ckpt[c]["group"].prepared
        /\ ~Prepared(w) => S = {}
        /\ Prepared(w) /\ ~Returned => GroupsDone(c)
    BY <1>1, <1>7, <2>1, <2>2, <2>4, BeforeKnown
  <2>7. /\ DOMAIN before = DOMAIN NothingFound
        /\ before.scores = found.scores /\ before.style = found.style
        /\ before.shards = found.shards /\ before.codes = found.codes
        /\ before.manifests = found.manifests
        /\ before.nodes \in [0..NFiles -> Config \cup {None}]
    BY <1>2, <2>3 DEF NodesCleared, NothingFound
  <2>8. PICK U, V : U = UNION {Members(c, s) : s \in S} /\ V = UNION {Members(c, s) : s \in P}
    OBVIOUS
  <2>9. ASSUME ~Returned
        PROVE  /\ before.nodes = [s \in 0..NFiles |-> IF s \in S THEN c ELSE None]
               /\ before.twins = {<<c, s>> : s \in S}
               /\ before.roles = IF Settings[c].roles THEN {<<c, f>> : f \in U} ELSE {}
    <3>1. CASE Prepared(w)
      <4>1. before = found
        BY <1>2, <3>1 DEF NodesCleared
      <4>2. GroupsDone(c) /\ S = Done(ckpt[c]["group"].units, ckpt[c]["group"].next)
        BY <2>4, <2>5, <2>6, <2>9, <3>1
      <4> QED
        BY <2>8, <4>1, <4>2 DEF GroupsDone
    <3>2. CASE ~Prepared(w)
      <4>1. /\ before.nodes = [s \in 0..NFiles |-> None]
            /\ before.twins = {} /\ before.roles = {}
        BY <1>2, <2>3, <3>2 DEF NodesCleared, NothingFound
      <4>2. S = {} /\ U = {}
        BY <2>6, <2>8, <3>2
      <4> QED
        BY <4>1, <4>2
    <3> QED
      BY <3>1, <3>2
  <2>10. CASE taken
    <3>1. PICK s \in P : before.nodes[s] # None
      BY <1>4, <2>4, <2>10
    <3>2. Returned
      BY <2>5, <2>9, <3>1
    <3> QED
      BY <1>5, <1>7, <2>10, <3>2, RaiseKeeps DEF Excused, Returned
  <2>11. CASE ~taken
    <3>1. Stores(w, c, "group", b, None, R, F)
      BY <1>1, <1>3, <1>5, <1>7, <2>1, <2>2, <2>11 DEF Stores
    <3>2. /\ rows' = R /\ found' = F /\ UNCHANGED <<tree, disk>>
          /\ ConfigOf(w) = c /\ OneCursor(c, "group", ckpt'[c]["group"])
          /\ ckpt'[c]["group"].units = mem[w].units /\ ckpt'[c]["group"].next = mem[w].at
      BY <3>1, UnitsStored
    <3>3. rows' = rows /\ found' = F /\ UNCHANGED <<tree, disk>>
      BY <1>3, <3>2
    <3>4. /\ DOMAIN F = DOMAIN NothingFound
          /\ F.nodes = [s \in 0..NFiles |-> IF s \in P THEN c ELSE before.nodes[s]]
          /\ F.twins = TwinsFound(before.twins, c, P)
          /\ F.roles = RolesFound(before.roles, c, V)
          /\ F.scores = found.scores /\ F.style = found.style /\ F.shards = found.shards
          /\ F.codes = found.codes /\ F.manifests = found.manifests
      BY <1>3, <2>4, <2>7, <2>8, <3>2 DEF ScopePersisted, NothingFound
    <3>5. F.nodes \in [0..NFiles -> Config \cup {None}]
      BY <2>7, <3>4
    <3>6. DiskTyped'
      BY <2>3, <3>3, <3>4, <3>5 DEF DiskTyped
    <3>7. OwnRows("group")
      BY <3>3, <3>4 DEF OwnRows
    <3>8. Vouched'
      BY <2>2, <3>2, <3>4, VouchedKept
    <3>9. VersionsSound' /\ rows' \in [File -> SampleRow]
      BY <3>3, VersionsKept
    <3>10. ASSUME ~Returned PROVE GroupsDone(c)'
      <4>1. F.nodes = [s \in 0..NFiles |-> IF s \in T THEN c ELSE None]
        BY <2>5, <2>9, <3>4, <3>10
      <4>2. F.twins = {<<c, s>> : s \in T}
        BY <2>5, <2>9, <3>4, <3>10 DEF TwinsFound
      <4>3. PICK W : W = UNION {Members(c, s) : s \in T}
        OBVIOUS
      <4>4. W = U \cup V
        BY <2>5, <2>8, <4>3
      <4>5. F.roles = IF Settings[c].roles THEN {<<c, f>> : f \in W} ELSE {}
        <5>1. CASE Settings[c].roles
          <6>1. before.roles = {<<c, f>> : f \in U}
            BY <2>9, <3>10, <5>1
          <6>2. F.roles = {e \in before.roles : e[2] \notin V} \cup {<<c, f>> : f \in V}
            BY <3>4, <5>1 DEF RolesFound
          <6>3. \A e : e \in F.roles <=> e \in {<<c, f>> : f \in W}
            BY <4>4, <6>1, <6>2
          <6> QED
            BY <5>1, <6>3
        <5>2. CASE ~Settings[c].roles
          BY <2>9, <3>4, <3>10, <5>2 DEF RolesFound
        <5> QED
          BY <5>1, <5>2
      <4>6. \A s : Members(c, s)' = Members(c, s)
        BY <2>2, <3>2 DEF Members, OneCursor, Part
      <4>7. UNION {Members(c, s)' : s \in T} = W
        BY <4>3, <4>6
      <4>8. Done(ckpt[c]["group"].units, ckpt[c]["group"].next)' = T
        BY <2>4, <3>2 DEF Done, Nth
      <4>9. found'.roles = IF Settings[c].roles
                             THEN {<<c, f>> : f \in UNION {Members(c, s)' : s \in T}} ELSE {}
        BY <3>3, <4>5, <4>7
      <4> QED
        BY <3>3, <4>1, <4>2, <4>8, <4>9 DEF GroupsDone
    <3>11. ~Returned => DoneBy(c, "group")'
      BY <3>10 DEF DoneBy
    <3> QED
      BY <1>3, <3>1, <3>6, <3>7, <3>8, <3>9, <3>11, UnitsCommitted
  <2> QED
    BY <2>10, <2>11
<1> QED
  BY <1>6, <1>7

-----------------------------------------------------------------------------
(* Every step.                                                             *)

LEMMA ScanKeeps == ASSUME AnalysisInv, NEW w \in Worker, Scan(w) PROVE AnalysisInv'
BY BeginScanKeeps, LeaveScanKeeps, WriteManifestKeeps, DecodeKeeps, CommitScanKeeps DEF Scan

LEMMA ScoringKeeps == ASSUME AnalysisInv, NEW w \in Worker, Scoring(w) PROVE AnalysisInv'
BY BeginScoringKeeps, ExtractKeeps, WriteClipKeeps, CommitClipKeeps, ScoreKeeps,
   CommitScoreKeeps DEF Scoring

LEMMA StyleKeeps == ASSUME AnalysisInv, NEW w \in Worker, Style(w) PROVE AnalysisInv'
BY BeginStyleKeeps, AssessKeeps, CommitStyleKeeps, ControlCommitKeeps DEF Style

LEMMA ClusteringKeeps == ASSUME AnalysisInv, NEW w \in Worker, Clustering(w) PROVE AnalysisInv'
<1>1. CASE Computing(w) /\ ControlCommit(w)
  BY <1>1, ControlCommitKeeps DEF Computing, At
<1>2. CASE BeginEmbed(w) \/ Embed(w) \/ WriteEmbed(w) \/ CommitEmbed(w)
  BY <1>2, BeginEmbedKeeps, EmbedKeeps, WriteEmbedKeeps, CommitEmbedKeeps
<1>3. CASE BeginSae(w) \/ Train(w) \/ WriteSae(w) \/ CommitSae(w)
  BY <1>3, BeginSaeKeeps, TrainKeeps, WriteSaeKeeps, CommitSaeKeeps
<1>4. CASE BeginGroup(w) \/ Group(w) \/ CommitGroup(w)
  BY <1>4, BeginGroupKeeps, GroupKeeps, CommitGroupKeeps
<1> QED
  BY <1>1, <1>2, <1>3, <1>4 DEF Clustering

LEMMA WorkKeeps == ASSUME AnalysisInv, NEW w \in Worker, Work(w) PROVE AnalysisInv'
<1>1. CASE Claim(w) \/ Refuse(w) \/ PassPhase(w) \/ HonorControl(w) \/ CompletePhase(w)
  BY <1>1, ClaimKeeps, RefuseKeeps, PassPhaseKeeps, HonorControlKeeps, CompletePhaseKeeps
<1>2. CASE Scan(w) \/ Scoring(w) \/ Style(w) \/ Clustering(w)
  BY <1>2, ScanKeeps, ScoringKeeps, StyleKeeps, ClusteringKeeps
<1> QED
  BY <1>1, <1>2 DEF Work

LEMMA StutterKeeps == AnalysisInv /\ UNCHANGED vars => AnalysisInv'
<1> SUFFICES ASSUME AnalysisInv, UNCHANGED vars PROVE AnalysisInv'
  OBVIOUS
<1>1. UNCHANGED <<task, holder, mem, ckpt, tree, disk, rows, found, hist>>
  BY DEF vars
<1>2. MemTyped'
  BY <1>1 DEF AnalysisInv, MemTyped
<1>3. TaskMoves
  BY <1>1 DEF TaskMoves
<1>4. RowCore'
  BY <1>3, CoreKept DEF AnalysisInv, RowInv, RowCore
<1>5. RowsTyped' /\ DiskTyped' /\ ErrorsExplained'
  BY <1>1 DEF AnalysisInv, RowInv, RowsTyped, DiskTyped, ErrorsExplained, Unchanged
<1>6. Hand'
  <2>1. CASE holder = None
    BY <1>1, <2>1 DEF AnalysisInv, Hand
  <2>2. CASE holder # None
    <3>1. PICK x \in Worker : x = holder
      BY <2>2 DEF AnalysisInv, RowInv, RowsTyped
    <3>2. HandOf(x) /\ mem'[x] = mem[x]
      BY <1>1, <2>2, <3>1 DEF AnalysisInv, Hand
    <3>3. task'.status \in {"working", "pausing"}
      BY <1>1, <3>2 DEF HandOf
    <3>4. HandOf(x)'
      BY <1>3, <3>2, <3>3, HandKept
    <3> QED
      BY <1>1, <2>2, <3>1, <3>4 DEF Hand
  <2> QED
    BY <2>1, <2>2
<1> QED
  BY <1>2, <1>4, <1>5, <1>6 DEF AnalysisInv, RowInv, RowCore

LEMMA StepSound == AnalysisInv /\ [Next]_vars => AnalysisInv'
<1> SUFFICES ASSUME AnalysisInv, [Next]_vars PROVE AnalysisInv'
  OBVIOUS
<1>1. CASE Request \/ Edit
  BY <1>1, PauseKeeps, ResumeKeeps, ReconfigureKeeps, EditKeeps DEF Request
<1>2. CASE \E w \in Worker : Mishap(w) \/ Work(w)
  BY <1>2, LoseLeaseKeeps, WorkKeeps DEF Mishap
<1>3. CASE UNCHANGED vars
  BY <1>3, StutterKeeps
<1> QED
  BY <1>1, <1>2, <1>3 DEF Next

LEMMA Invariance == Spec => []AnalysisInv
BY InitSound, StepSound, PTL DEF Spec

-----------------------------------------------------------------------------
(* What follows.                                                           *)

(* A completed component has gone through all of its units, and has the    *)
(* rows of no other config beside its own.                                 *)
LEMMA CompletedSound ==
  ASSUME AnalysisInv, NEW c \in Config, NEW p \in {"scan", "score", "style", "group"},
         Completes(c, p)
  PROVE  /\ Worked(c, p)
         /\ CursorSound(c, p) /\ ckpt[c][p] # None
         /\ Done(ckpt[c][p].units, ckpt[c][p].next) = ckpt[c][p].units
<1>1. p \in Part /\ ckpt[c][p] # None /\ ckpt[c][p].complete /\ hist.last[PhaseOf[p]] = c
  BY DEF Completes, Part
<1>2. ckpt[c][p] \in CursorRow(p) /\ CursorSound(c, p)
  BY <1>1 DEF AnalysisInv, RowInv, RowsTyped, CursorsSound
<1>3. ckpt[c][p].prepared /\ ckpt[c][p].next = Cardinality(ckpt[c][p].units)
  BY <1>1, <1>2 DEF CursorSound
<1>4. PICK S \in SUBSET (0..NFiles) : S = ckpt[c][p].units
  BY <1>2 DEF CursorRow
<1>5. PICK n \in Nat : n = Cardinality(S)
  BY UnitsFinite
<1>6. Done(S, n) = S
  BY <1>5, UnitsFinite, DoneSound
<1> QED
  BY <1>1, <1>2, <1>3, <1>4, <1>5, <1>6 DEF Worked

LEMMA WholeSound == AnalysisInv => EvidenceWhole
<1> SUFFICES ASSUME AnalysisInv, ~Returned, NEW c \in Config
             PROVE  /\ Completes(c, "scan")  => ScanWhole(c)
                    /\ Completes(c, "score") => ScoresWhole(c)
                    /\ Completes(c, "style") => StyleWhole(c)
                    /\ Completes(c, "group") => GroupsWhole(c)
  BY DEF EvidenceWhole, Returned
<1>1. ASSUME Completes(c, "scan") PROVE ScanWhole(c)
  <2>1. ScanDone(c) /\ CursorSound(c, "scan") /\ ckpt[c]["scan"] # None
        /\ Done(ckpt[c]["scan"].units, ckpt[c]["scan"].next) = ckpt[c]["scan"].units
    BY <1>1, CompletedSound DEF AnalysisInv, RowInv, EvidenceSound
  <2>2. ckpt[c]["scan"].units = Listed(ckpt[c]["scan"].sha)
    BY <2>1 DEF CursorSound, UnitsOf
  <2> QED
    BY <2>1, <2>2 DEF ScanDone, ScanWhole, Listed
<1>2. ASSUME Completes(c, "score") PROVE ScoresWhole(c)
  <2>1. ScoresDone(c) /\ CursorSound(c, "score") /\ ckpt[c]["score"] # None
        /\ Done(ckpt[c]["score"].units, ckpt[c]["score"].next) = ckpt[c]["score"].units
    BY <1>2, CompletedSound DEF AnalysisInv, RowInv, EvidenceSound
  <2>2. ckpt[c]["score"].units = Inputs
    BY <2>1 DEF CursorSound, UnitsOf
  <2> QED
    BY <2>1, <2>2 DEF ScoresDone, ScoresWhole
<1>3. ASSUME Completes(c, "style") PROVE StyleWhole(c)
  <2>1. StyleDone(c)
        /\ Done(ckpt[c]["style"].units, ckpt[c]["style"].next) = ckpt[c]["style"].units
    BY <1>3, CompletedSound DEF AnalysisInv, RowInv, EvidenceSound
  <2> QED
    BY <2>1 DEF StyleDone, StyleWhole
<1>4. ASSUME Completes(c, "group") PROVE GroupsWhole(c)
  <2>1. GroupsDone(c) /\ CursorSound(c, "group") /\ ckpt[c]["group"] # None
        /\ Done(ckpt[c]["group"].units, ckpt[c]["group"].next) = ckpt[c]["group"].units
    BY <1>4, CompletedSound DEF AnalysisInv, RowInv, EvidenceSound
  <2>2. PICK scopes, members : /\ scopes = ckpt[c]["group"].units
                               /\ members = ckpt[c]["embed"].units
    OBVIOUS
  <2>3. Complete(c, "embed") /\ CursorSound(c, "embed")
    BY <2>1 DEF CursorSound, Supported, AnalysisInv, RowInv, CursorsSound, Part
  <2>4. members = SamplesOf(c) /\ members \subseteq File
    BY <2>2, <2>3, UnitsWithin DEF CursorSound, UnitsOf, Complete
  <2>5. scopes = IF Settings[c].scope \in {"artist", "concept"} \/ members = {}
                   THEN members ELSE {0}
    BY <2>1, <2>2, <2>4 DEF CursorSound, UnitsOf
  <2>6. UNION {Members(c, s) : s \in scopes} = members
    <3>1. CASE scopes = members
      <4>1. \A s \in members : Members(c, s) = {s}
        BY <2>4, FileUnits DEF Members
      <4> QED
        BY <3>1, <4>1
    <3>2. CASE scopes = {0}
      BY <2>2, <3>2 DEF Members
    <3> QED
      BY <2>5, <3>1, <3>2
  <2> QED
    BY <2>1, <2>2, <2>6 DEF GroupsDone, GroupsWhole
<1> QED
  BY <1>1, <1>2, <1>3, <1>4

(* Whatever the workers, the configs and their settings, and whenever      *)
(* pauses, crashes, lost leases and changes of files come: a task fails    *)
(* only if a file its scan had listed was changed or deleted, or if one of *)
(* four things happened that are named.  No resumed component mistrusts    *)
(* its own checkpoint, rows, manifest, shards or autoencoder.              *)
THEOREM FailuresExplained == Spec => []ErrorsExplained
<1>1. AnalysisInv => ErrorsExplained
  BY DEF AnalysisInv, RowInv
<1> QED
  BY <1>1, Invariance, PTL

(* However often its work was cut short and by whomever it was resumed, a  *)
(* component that a config completed last has left the rows of every unit  *)
(* it had, and none that another config had made, unless a config returned *)
(* to a phase another had worked in.                                       *)
THEOREM RowsAreWhole == Spec => []EvidenceWhole
BY Invariance, WholeSound, PTL
=============================================================================
