--------------------------- MODULE WebClientProofs ---------------------------
(***************************************************************************)
(* What the web client announces and shows in detail, for any tasks, any   *)
(* statuses in which a completed task stays completed until it is deleted, *)
(* and any number of changes, clicks and faults.                           *)
(***************************************************************************)
EXTENDS WebClient, TLAPS

Status == DOMAIN Leads \cup {"deleted"}

Version == [status : Status, n : Nat]

Key == Task \X Status \X Nat

AppState ==
  [tasks : [Task -> Version \cup {None}], ready : BOOLEAN, selected : Task \cup {None},
   page : Page, data : Task \cup {None}, read : Nat, observed : [Task -> Status \cup {None}],
   seen : SUBSET Key, prompt : Key \cup {None}, sounds : [Task -> Nat]]

WatchState ==
  [task : Task \cup {None}, stream : {"none", "connecting", "open", "down", "closed"},
   cursor : Nat, running : BOOLEAN, queued : BOOLEAN, timer : BOOLEAN]

LoadState == [task : Task, by : {"start", "refresh", "other"}, current : BOOLEAN, since : Nat]

ListState == [rows : [Task -> Version \cup {None}] \cup {None}, then : Task \cup {None}]

CallState ==
  [task : Task, n : Nat, delete : BOOLEAN, pc : {"sent", "done"}, row : Version \cup {None}]

(* A task goes on after it completed only to be deleted, and after that    *)
(* not at all.                                                             *)
HistorySound ==
  /\ server \in [Task -> Seq(Status)]
  /\ \A t \in Task :
       /\ Len(server[t]) > 0
       /\ \A i \in 1..Len(server[t]) - 1 :
            /\ server[t][i] # "deleted"
            /\ server[t][i] = "completed" => i = Len(server[t]) - 1 /\ Gone(t)

(* Every row that goes about is one the task had and was not deleted in.   *)
Had(t, row) ==
  row.n \in 1..Len(server[t]) /\ row.status = server[t][row.n] /\ row.status # "deleted"

RowsSound(rows) == \A t \in Task : rows[t] # None => Had(t, rows[t])

(* What the client may be in, at the server's present state.               *)
Announced(a) ==
  \A t \in Task :
    /\ a.sounds[t] <= 1
    /\ a.sounds[t] > 0 =>
         \E i \in 1..Len(server[t]) :
           server[t][i] = "completed" /\ <<t, "completed", i>> \in a.seen

Details(a) == a.data # None => a.data = a.selected /\ a.read <= Len(server[a.data])

AppSound == app \in AppState /\ RowsSound(app.tasks) /\ Announced(app) /\ Details(app)

ListsSound == \A c \in lists : c \in ListState /\ (c.rows # None => RowsSound(c.rows))

CallSound ==
  call # None =>
    /\ call \in CallState
    /\ call.n \in 1..Len(server[call.task]) /\ server[call.task][call.n] # "deleted"
    /\ call.pc = "done" /\ ~call.delete => call.row \in Version /\ Had(call.task, call.row)

(* One load is current, and was asked for after what is shown was read.    *)
LoadsFit(calls, w, a) ==
  \A l \in calls :
    /\ l \in LoadState
    /\ l.by # "other" => w.task # None
    /\ l.current => /\ l.since > 0
                    /\ l.task = a.data => a.read <= l.since
                    /\ \A k \in calls : k.current => k = l

LoadsSound == LoadsFit(loads, watch, app)

WatchSound ==
  /\ watch \in WatchState
  /\ watch.timer \/ watch.stream # "none" => watch.task # None

(* That a completion is announced once rests on the server: of all rows    *)
(* that may still come, only one version of a task is a completed one.     *)
(* That details do not go back rests on the order of the current load and  *)
(* the one shown.                                                          *)
ClientInv ==
  HistorySound /\ AppSound /\ ListsSound /\ CallSound /\ LoadsSound /\ WatchSound

Advances == (app.data # None /\ app'.data = app.data) => app.read <= app'.read

-----------------------------------------------------------------------------
(* The screen.                                                             *)

LEMMA RenderedRow ==
  ASSUME NEW a \in AppState
  PROVE  LET r == Rendered(a) IN
         /\ r \in AppState
         /\ r.tasks = a.tasks /\ r.ready = a.ready /\ r.selected = a.selected
         /\ r.data = a.data /\ r.read = a.read
         /\ a.seen \subseteq r.seen
         /\ \A t \in Task :
              \/ r.sounds[t] = a.sounds[t]
              \/ /\ Shown(a) # None /\ t = a.selected /\ Shown(a).status = "completed"
                 /\ <<t, "completed", Shown(a).n>> \in r.seen \ a.seen
                 /\ a.sounds[t] < 2 => r.sounds[t] = a.sounds[t] + 1
<1>1. CASE Shown(a) = None
  BY <1>1 DEF Rendered, AppState
<1>2. CASE Shown(a) # None
  <2>1. PICK t \in Task : t = a.selected
    BY <1>2 DEF Shown, AppState
  <2>2. Shown(a) \in Version /\ Shown(a) = a.tasks[t]
    BY <1>2, <2>1, ClientAssumption DEF Shown, AppState
  <2>3. PICK status \in Status : status = Shown(a).status
    BY <2>2 DEF Version
  <2>4. PICK key \in Key : key = <<t, status, Shown(a).n>>
    BY <2>2, <2>3 DEF Version, Key
  <2>5. PICK b \in AppState : b = [a EXCEPT !.observed[t] = status]
    BY <2>1, <2>3 DEF AppState
  <2>6. /\ b.tasks = a.tasks /\ b.ready = a.ready /\ b.selected = a.selected
        /\ b.data = a.data /\ b.read = a.read /\ b.seen = a.seen /\ b.sounds = a.sounds
    BY <2>5 DEF AppState
  <2>7. KeepOnly(b, key) \in AppState /\ [b EXCEPT !.prompt = None] \in AppState
    BY <2>4, <2>5 DEF KeepOnly, AppState
  <2>8. /\ KeepOnly(b, key).tasks = a.tasks /\ KeepOnly(b, key).ready = a.ready
        /\ KeepOnly(b, key).selected = a.selected /\ KeepOnly(b, key).data = a.data
        /\ KeepOnly(b, key).read = a.read /\ KeepOnly(b, key).seen = a.seen
        /\ KeepOnly(b, key).sounds = a.sounds
    BY <2>6 DEF KeepOnly, AppState
  <2>9. PICK c \in AppState : c = Announce(b, key)
    BY <2>4, <2>5 DEF Announce, AppState
  <2>10. /\ c.tasks = a.tasks /\ c.ready = a.ready /\ c.selected = a.selected
         /\ c.data = a.data /\ c.read = a.read /\ c.sounds = a.sounds
         /\ c.seen = a.seen \cup {key}
    BY <2>6, <2>9 DEF Announce, AppState
  <2>11. CASE status = "completed" /\ EntersCompleted(a.observed[t]) /\ ~Seen(b, key)
    <3>1. Rendered(a) = [c EXCEPT !.sounds[t] = IF @ < 2 THEN @ + 1 ELSE @]
      BY <1>2, <2>1, <2>3, <2>4, <2>5, <2>9, <2>11 DEF Rendered
    <3>2. key \notin a.seen /\ key = <<t, "completed", Shown(a).n>>
      BY <2>4, <2>6, <2>11 DEF Seen
    <3>3. /\ Rendered(a) \in AppState
          /\ Rendered(a).tasks = c.tasks /\ Rendered(a).ready = c.ready
          /\ Rendered(a).selected = c.selected /\ Rendered(a).data = c.data
          /\ Rendered(a).read = c.read /\ Rendered(a).seen = c.seen
          /\ \A u \in Task \ {t} : Rendered(a).sounds[u] = c.sounds[u]
          /\ c.sounds[t] < 2 => Rendered(a).sounds[t] = c.sounds[t] + 1
      BY <3>1, <2>9 DEF AppState
    <3> QED
      BY <1>2, <2>1, <2>3, <2>10, <2>11, <3>2, <3>3
  <2>12. CASE ~(status = "completed" /\ EntersCompleted(a.observed[t]) /\ ~Seen(b, key))
    <3>1. Rendered(a) \in {KeepOnly(b, key), c, [b EXCEPT !.prompt = None]}
      BY <1>2, <2>1, <2>3, <2>4, <2>5, <2>9, <2>12 DEF Rendered
    <3>2. CASE Rendered(a) = KeepOnly(b, key)
      BY <3>2, <2>7, <2>8
    <3>3. CASE Rendered(a) = c
      BY <3>3, <2>9, <2>10
    <3>4. CASE Rendered(a) = [b EXCEPT !.prompt = None]
      BY <3>4, <2>6, <2>7 DEF AppState
    <3> QED
      BY <3>1, <3>2, <3>3, <3>4
  <2> QED
    BY <2>11, <2>12
<1> QED
  BY <1>1, <1>2

(* A task has one completed version at most.                               *)
LEMMA CompletedOnce ==
  ASSUME HistorySound, NEW t \in Task,
         NEW i \in 1..Len(server[t]), NEW j \in 1..Len(server[t]),
         server[t][i] = "completed", server[t][j] = "completed"
  PROVE  i = j
<1>1. Len(server[t]) \in Nat
  BY DEF HistorySound
<1>2. ASSUME NEW k \in 1..Len(server[t]), server[t][k] = "completed"
      PROVE  k = IF Gone(t) THEN Len(server[t]) - 1 ELSE Len(server[t])
  <2>1. k = Len(server[t]) => ~Gone(t)
    BY <1>2 DEF Gone, Row, RowAt
  <2> QED
    BY <1>1, <1>2, <2>1 DEF HistorySound
<1> QED
  BY <1>2

(* Showing what the client has become announces no completion twice.       *)
LEMMA RenderedSound ==
  ASSUME HistorySound, NEW a \in AppState, RowsSound(a.tasks), Announced(a), Details(a)
  PROVE  LET r == Rendered(a) IN
         /\ r \in AppState /\ RowsSound(r.tasks) /\ Announced(r) /\ Details(r)
         /\ r.ready = a.ready /\ r.selected = a.selected /\ r.data = a.data /\ r.read = a.read
<1> PICK r \in AppState : r = Rendered(a)
  BY RenderedRow
<1>1. /\ r.tasks = a.tasks /\ r.ready = a.ready /\ r.selected = a.selected
      /\ r.data = a.data /\ r.read = a.read /\ a.seen \subseteq r.seen
  BY RenderedRow
<1>2. RowsSound(r.tasks) /\ Details(r)
  BY <1>1 DEF Details
<1>3. ASSUME NEW t \in Task
      PROVE  /\ r.sounds[t] <= 1
             /\ r.sounds[t] > 0 =>
                  \E i \in 1..Len(server[t]) :
                    server[t][i] = "completed" /\ <<t, "completed", i>> \in r.seen
  <2>1. CASE r.sounds[t] = a.sounds[t]
    BY <1>1, <2>1 DEF Announced
  <2>2. CASE r.sounds[t] # a.sounds[t]
    <3>1. /\ Shown(a) # None /\ t = a.selected /\ Shown(a).status = "completed"
          /\ <<t, "completed", Shown(a).n>> \in r.seen
          /\ <<t, "completed", Shown(a).n>> \notin a.seen
          /\ a.sounds[t] < 2 => r.sounds[t] = a.sounds[t] + 1
      BY <2>2, RenderedRow
    <3>2. Had(t, Shown(a))
      BY <3>1 DEF Shown, RowsSound
    <3>3. PICK n \in 1..Len(server[t]) : n = Shown(a).n /\ server[t][n] = "completed"
      BY <3>1, <3>2 DEF Had
    <3>4. ~(a.sounds[t] > 0)
      BY <3>1, <3>3, CompletedOnce DEF Announced
    <3>5. a.sounds[t] \in Nat
      BY DEF AppState
    <3>6. r.sounds[t] = 1
      BY <3>1, <3>4, <3>5
    <3> QED
      BY <3>1, <3>3, <3>6
  <2> QED
    BY <2>1, <2>2
<1> QED
  BY <1>1, <1>2, <1>3 DEF Announced

-----------------------------------------------------------------------------
(* The calls of the client.                                                *)

LEMMA VersionNow ==
  ASSUME HistorySound, NEW t \in Task, ~Gone(t)
  PROVE  Row(t) \in Version /\ Had(t, Row(t)) /\ Row(t).status \in DOMAIN Leads
<1>1. /\ Len(server[t]) \in 1..Len(server[t])
      /\ server[t][Len(server[t])] \in Status /\ Len(server[t]) \in Nat
  BY DEF HistorySound
<1> QED
  BY <1>1 DEF Gone, Row, RowAt, Had, Version, Status

LEMMA LoadFits ==
  ASSUME HistorySound, NEW w, NEW a, NEW t \in Task,
         NEW by \in {"start", "refresh", "other"}, by # "other" => w.task # None,
         t = a.data => a.read <= Len(server[t])
  PROVE  /\ LoadsFit({Load(t, by)}, w, a)
         /\ LET n == Load(t, by) IN n \in LoadState /\ n.current
<1>1. Len(server[t]) \in Nat /\ Len(server[t]) > 0
  BY DEF HistorySound
<1>2. PICK n : n = Load(t, by)
  OBVIOUS
<1>3. /\ n \in LoadState /\ n.by = by /\ n.task = t /\ n.current /\ n.since = Len(server[t])
  BY <1>1, <1>2 DEF Load, LoadState
<1>4. LoadsFit({n}, w, a)
  BY <1>1, <1>3 DEF LoadsFit
<1> QED
  BY <1>2, <1>3, <1>4

(* The new call is the only current one.                                   *)
LEMMA AskFits ==
  ASSUME HistorySound, NEW calls, NEW w, NEW a,
         \A l \in calls : l \in LoadState /\ (l.by # "other" => w.task # None),
         NEW t \in Task,
         NEW by \in {"start", "refresh", "other"}, by # "other" => w.task # None,
         t = a.data => a.read <= Len(server[t])
  PROVE  LoadsFit(Ask(calls, t, by), w, a)
<1>1. PICK n : n = Load(t, by)
  OBVIOUS
<1>2. LoadsFit({n}, w, a) /\ n \in LoadState /\ n.current
  BY <1>1, LoadFits
<1>3. ASSUME NEW k \in calls, NEW l, l = [k EXCEPT !.current = FALSE, !.since = 0]
      PROVE  l \in LoadState /\ ~l.current /\ (l.by # "other" => w.task # None)
  BY <1>3 DEF LoadState
<1>4. ASSUME NEW l \in Ask(calls, t, by)
      PROVE  \/ l = n
             \/ l \in LoadState /\ ~l.current /\ (l.by # "other" => w.task # None)
  <2>1. CASE l = n
    BY <2>1
  <2>2. CASE \E k \in calls : l = [k EXCEPT !.current = FALSE, !.since = 0]
    BY <1>3, <2>2
  <2> QED
    BY <1>1, <1>4, <2>1, <2>2 DEF Ask
<1> QED
  BY <1>2, <1>4 DEF LoadsFit

(* The caller of a load goes on, with a client that is as it was, or has   *)
(* just read the current load.                                             *)
LEMMA ContinueFits ==
  ASSUME HistorySound, LoadsSound, WatchSound, NEW a, Details(a), a.data \in Task \cup {None},
         NEW l \in loads, NEW after \in Nat \cup {None}, Continue(l, after),
         l.current \/ (a.data = app.data /\ a.read = app.read)
  PROVE  LoadsFit(loads', watch', a) /\ WatchSound'
<1>1. PICK w : w = IF l.by = "other" THEN watch ELSE Connected(watch, after)
  OBVIOUS
<1>2. /\ w \in WatchState /\ w.task = watch.task /\ w.timer = watch.timer
      /\ w.stream # "none" => w.task # None
  BY <1>1 DEF Connected, WatchSound, WatchState, LoadsSound, LoadsFit
<1>3. PICK rest : rest = loads \ {l}
  OBVIOUS
<1>4. \A k \in rest : k \in LoadState /\ (k.by # "other" => w.task # None)
  BY <1>2, <1>3 DEF LoadsSound, LoadsFit
<1>5. LoadsFit(rest, w, a)
  BY <1>2, <1>3 DEF LoadsSound, LoadsFit
<1>6. CASE l.by = "refresh" /\ Again(w)
  <2>1. watch' = [w EXCEPT !.queued = FALSE] /\ loads' = Ask(rest, w.task, "refresh")
    BY <1>1, <1>3, <1>6 DEF Continue
  <2>2. watch' \in WatchState /\ watch'.task = w.task
    BY <1>2, <2>1 DEF WatchState
  <2>3. w.task \in Task /\ w.task # None
    BY <1>2, <1>6 DEF LoadsSound, LoadsFit, WatchState
  <2>4. w.task = a.data => a.read <= Len(server[w.task])
    BY <2>3 DEF Details
  <2>5. LoadsFit(Ask(rest, w.task, "refresh"), watch', a)
    BY <1>4, <2>2, <2>3, <2>4, AskFits
  <2> QED
    BY <2>1, <2>2, <2>3, <2>5 DEF WatchSound
<1>7. CASE ~(l.by = "refresh" /\ Again(w))
  <2>1. watch' = (IF l.by = "refresh" THEN [w EXCEPT !.running = FALSE] ELSE w) /\ loads' = rest
    BY <1>1, <1>3, <1>7 DEF Continue
  <2>2. /\ watch' \in WatchState /\ watch'.task = w.task
        /\ watch'.timer = w.timer /\ watch'.stream = w.stream
    BY <1>2, <2>1 DEF WatchState
  <2>3. WatchSound'
    BY <1>2, <2>2 DEF WatchSound
  <2> QED
    BY <1>5, <2>1, <2>2, <2>3 DEF LoadsFit
<1> QED
  BY <1>6, <1>7

(* The client is shown other rows, or turns to another task.               *)
LEMMA BecomeSound ==
  ASSUME ClientInv, server' = server, NEW a \in AppState, NEW calls,
         RowsSound(a.tasks), a.sounds = app.sounds, a.seen = app.seen,
         a.data = app.data, a.read = app.read,
         LoadsFit(calls, watch, app),
         Become(a, calls)
  PROVE  HistorySound' /\ AppSound' /\ LoadsSound' /\ WatchSound' /\ Advances
<1> PICK kept : kept = [a EXCEPT !.data = IF a.selected # app.selected THEN None ELSE @]
  OBVIOUS
<1>1. /\ kept \in AppState /\ kept.tasks = a.tasks /\ kept.selected = a.selected
      /\ kept.sounds = app.sounds /\ kept.seen = app.seen /\ kept.read = app.read
      /\ kept.ready = a.ready
      /\ kept.data = IF a.selected # app.selected THEN None ELSE app.data
  BY DEF AppState
<1>2. HistorySound /\ AppSound /\ LoadsSound /\ WatchSound
  BY DEF ClientInv
<1>3. RowsSound(kept.tasks) /\ Announced(kept) /\ Details(kept)
  BY <1>1, <1>2 DEF AppSound, Announced, Details
<1>4. app' = Rendered(kept)
  BY DEF Become
<1>5. /\ app' \in AppState /\ RowsSound(app'.tasks) /\ Announced(app') /\ Details(app')
      /\ app'.ready = a.ready /\ app'.selected = a.selected
      /\ app'.data = kept.data /\ app'.read = app.read
  BY <1>1, <1>2, <1>3, <1>4, RenderedSound
<1>6. HistorySound' /\ AppSound'
  BY <1>2, <1>5 DEF HistorySound, AppSound, RowsSound, Announced, Details, Had, Gone, Row, RowAt
<1>7. Advances
  BY <1>1, <1>2, <1>5 DEF Advances, AppSound, AppState
<1>8. CASE <<a.ready, a.selected>> = <<app.ready, app.selected>>
  <2>1. watch' = watch /\ loads' = calls
    BY <1>8 DEF Become
  <2>2. app'.data = app.data
    BY <1>1, <1>5, <1>8
  <2>3. LoadsFit(loads', watch', app')
    BY <1>5, <2>1, <2>2 DEF LoadsFit
  <2> QED
    BY <1>2, <1>6, <1>7, <2>1, <2>3 DEF LoadsSound, WatchSound
<1>9. CASE <<a.ready, a.selected>> # <<app.ready, app.selected>> /\ a.ready /\ a.selected # None
  <2>1. watch' = [NoWatch EXCEPT !.task = a.selected] /\ loads' = {Load(a.selected, "start")}
    BY <1>9 DEF Become
  <2>2. a.selected \in Task
    BY <1>9 DEF AppState
  <2>3. watch' \in WatchState /\ watch'.task = a.selected
    BY <2>1, <2>2 DEF NoWatch, WatchState
  <2>4. a.selected = app'.data => app'.read <= Len(server[a.selected])
    BY <1>5, <1>9 DEF Details
  <2>5. LoadsFit(loads', watch', app')
    BY <1>2, <1>9, <2>1, <2>2, <2>3, <2>4, LoadFits
  <2> QED
    BY <1>6, <1>7, <1>9, <2>3, <2>5 DEF LoadsSound, WatchSound
<1>10. CASE <<a.ready, a.selected>> # <<app.ready, app.selected>> /\ ~(a.ready /\ a.selected # None)
  <2>1. watch' = NoWatch /\ loads' = {}
    BY <1>10 DEF Become
  <2>2. watch' \in WatchState /\ ~watch'.timer /\ watch'.stream = "none"
    BY <2>1 DEF NoWatch, WatchState
  <2> QED
    BY <1>6, <1>7, <2>1, <2>2 DEF LoadsSound, LoadsFit, WatchSound
<1> QED
  BY <1>8, <1>9, <1>10

-----------------------------------------------------------------------------
(* The steps.                                                              *)

LEMMA ServerStays ==
  ASSUME ClientInv, server' = server
  PROVE  /\ HistorySound'
         /\ lists' = lists => ListsSound'
         /\ call' \in {call, None} => CallSound'
         /\ app' = app => AppSound'
         /\ loads' = loads /\ app' = app /\ watch'.task = watch.task => LoadsSound'
         /\ watch' = watch => WatchSound'
<1> USE DEF ClientInv
<1>1. HistorySound'
  BY DEF HistorySound, Gone, Row, RowAt
<1>2. lists' = lists => ListsSound'
  BY DEF ListsSound, RowsSound, Had
<1>3. call' \in {call, None} => CallSound'
  BY DEF CallSound, Had
<1>4. app' = app => AppSound'
  BY DEF AppSound, RowsSound, Announced, Details, Had
<1>5. loads' = loads /\ app' = app /\ watch'.task = watch.task => LoadsSound'
  BY DEF LoadsSound, LoadsFit
<1>6. watch' = watch => WatchSound'
  BY DEF WatchSound
<1> QED
  BY <1>1, <1>2, <1>3, <1>4, <1>5, <1>6

LEMMA AdvancesAsWas ==
  ASSUME ClientInv, app'.data = app.data, app'.read = app.read
  PROVE  Advances
BY DEF ClientInv, AppSound, AppState, Advances

LEMMA ServeListsSound ==
  ASSUME ClientInv, NEW c \in lists, ServeLists(c)
  PROVE  ClientInv' /\ Advances
<1> PICK rows : rows = [t \in Task |-> IF Gone(t) THEN None ELSE Row(t)]
  OBVIOUS
<1> PICK d : d = [c EXCEPT !.rows = rows]
  OBVIOUS
<1>1. rows \in [Task -> Version \cup {None}] /\ RowsSound(rows)
  BY VersionNow DEF RowsSound, ClientInv
<1>2. d \in ListState /\ d.rows = rows
  BY <1>1 DEF ClientInv, ListsSound, ListState
<1>3. lists' = (lists \ {c}) \cup {d} /\ UNCHANGED <<server, app, watch, loads, call>>
  BY DEF ServeLists
<1>4. ASSUME NEW k \in lists'
      PROVE  k \in ListState /\ (k.rows # None => RowsSound(k.rows))
  BY <1>1, <1>2, <1>3, <1>4 DEF ClientInv, ListsSound
<1>5. ListsSound'
  BY <1>3, <1>4 DEF ListsSound, RowsSound, Had
<1> QED
  BY <1>3, <1>5, ServerStays, AdvancesAsWas DEF ClientInv

LEMMA LoadArrivesSound ==
  ASSUME ClientInv, NEW l \in loads, LoadArrives(l)
  PROVE  ClientInv' /\ Advances
<1>1. HistorySound /\ AppSound /\ LoadsSound /\ WatchSound
  BY DEF ClientInv
<1>2. l.current /\ l \in LoadState /\ l.since > 0 /\ UNCHANGED <<server, lists, call>>
  BY <1>1 DEF LoadArrives, LoadsSound, LoadsFit
<1>3. PICK i \in Readings(l), events \in Readings(l) :
        LET next == [Upserted(app, l.task, RowAt(l.task, i), FALSE)
                       EXCEPT !.data = l.task, !.read = events]
        IN \/ IsLatest(l) /\ app' = Rendered(next) /\ Continue(l, events)
           \/ ~IsLatest(l) /\ app' = app /\ Continue(l, None)
  BY DEF LoadArrives
<1>4. PICK t \in Task : t = l.task
  BY <1>2 DEF LoadState
<1>5. /\ i \in 1..Len(server[t]) /\ events \in 1..Len(server[t]) /\ events >= l.since
      /\ server[t][i] # "deleted" /\ Len(server[t]) \in Nat /\ server[t][i] \in Status
  BY <1>1, <1>2, <1>4 DEF Readings, LoadState, HistorySound
<1>6. PICK row : row = RowAt(t, i)
  OBVIOUS
<1>7. row \in Version /\ Had(t, row)
  <2>1. i \in Nat
    BY <1>5
  <2> QED
    BY <1>5, <1>6, <2>1 DEF RowAt, Had, Version
<1>8. CASE IsLatest(l)
  <2> PICK next : next = [Upserted(app, t, row, FALSE) EXCEPT !.data = t, !.read = events]
    OBVIOUS
  <2>1. PICK up : up = Upserted(app, t, row, FALSE)
    OBVIOUS
  <2>2. /\ up \in AppState /\ up.selected = app.selected
        /\ up.sounds = app.sounds /\ up.seen = app.seen
        /\ up.tasks \in {app.tasks, [app.tasks EXCEPT ![t] = row]}
    BY <1>1, <1>7, <2>1 DEF Upserted, AppSound, AppState
  <2>3. RowsSound(up.tasks)
    BY <1>1, <1>7, <2>2 DEF AppSound, AppState, RowsSound
  <2>4. events \in Nat /\ events <= Len(server[t]) /\ app.selected = t
    BY <1>4, <1>5, <1>8 DEF IsLatest
  <2>5. /\ next \in AppState /\ next.tasks = up.tasks /\ next.selected = t
        /\ next.sounds = app.sounds /\ next.seen = app.seen /\ next.data = t /\ next.read = events
    BY <2>1, <2>2, <2>4 DEF AppState
  <2>6. Announced(next)
    BY <1>1, <2>5 DEF AppSound, Announced
  <2>7. Details(next)
    BY <2>4, <2>5 DEF Details
  <2>8. app' = Rendered(next) /\ Continue(l, events)
    BY <1>3, <1>4, <1>6, <1>8
  <2>9. PICK a : a = app'
    OBVIOUS
  <2>10. /\ a \in AppState /\ RowsSound(a.tasks) /\ Announced(a) /\ Details(a)
         /\ a.data = t /\ a.read = events
    BY <1>1, <2>3, <2>5, <2>6, <2>7, <2>8, <2>9, RenderedSound
  <2>11. AppSound'
    BY <1>2, <2>9, <2>10 DEF AppSound, RowsSound, Announced, Details, Had
  <2>12. LoadsFit(loads', watch', a) /\ WatchSound'
    BY <1>1, <1>2, <2>4, <2>8, <2>10, ContinueFits DEF AppState
  <2>13. app.data = t => app.read <= l.since
    BY <1>1, <1>2, <1>4 DEF LoadsSound, LoadsFit
  <2>14. Advances
    BY <1>1, <1>2, <1>5, <2>4, <2>9, <2>10, <2>13 DEF Advances, LoadState, AppSound, AppState
  <2> QED
    BY <1>2, <2>9, <2>11, <2>12, <2>14, ServerStays DEF ClientInv, LoadsSound
<1>9. CASE ~IsLatest(l)
  <2>1. app' = app /\ Continue(l, None)
    BY <1>3, <1>9
  <2>2. LoadsFit(loads', watch', app) /\ WatchSound'
    BY <1>1, <2>1, ContinueFits DEF AppSound, AppState
  <2> QED
    BY <1>2, <2>1, <2>2, ServerStays, AdvancesAsWas DEF ClientInv, LoadsSound
<1> QED
  BY <1>8, <1>9

LEMMA LoadEnds ==
  ASSUME ClientInv, NEW l \in loads, LateLoadArrives(l) \/ LoadFails(l)
  PROVE  ClientInv' /\ Advances
<1>1. Continue(l, None) /\ UNCHANGED <<server, app, lists, call>>
  BY DEF LateLoadArrives, LoadFails
<1>2. LoadsFit(loads', watch', app) /\ WatchSound'
  BY <1>1, ContinueFits DEF ClientInv, AppSound, AppState
<1> QED
  BY <1>1, <1>2, ServerStays, AdvancesAsWas DEF ClientInv, LoadsSound

(* What a list's caller asks for afterwards.                               *)
LEMMA AfterwardsFits ==
  ASSUME ClientInv, NEW c \in lists
  PROVE  LoadsFit(Afterwards(c), watch, app)
<1>1. CASE c.then = None
  BY <1>1 DEF Afterwards, ClientInv, LoadsSound
<1>2. CASE c.then # None
  <2>1. PICK t \in Task : t = c.then
    BY <1>2 DEF ClientInv, ListsSound, ListState
  <2>2. t = app.data => app.read <= Len(server[t])
    BY ClientAssumption DEF ClientInv, AppSound, Details
  <2>3. \A l \in loads : l \in LoadState /\ (l.by # "other" => watch.task # None)
    BY DEF ClientInv, LoadsSound, LoadsFit
  <2>4. LoadsFit(Ask(loads, t, "other"), watch, app)
    BY <2>2, <2>3, AskFits DEF ClientInv
  <2> QED
    BY <1>2, <2>1, <2>4 DEF Afterwards
<1> QED
  BY <1>1, <1>2

LEMMA ListArrivesSound ==
  ASSUME ClientInv, NEW c \in lists, ListArrives(c)
  PROVE  ClientInv' /\ Advances
<1> PICK a : a = [app EXCEPT !.tasks = c.rows, !.ready = TRUE]
  OBVIOUS
<1> PICK next : next = Reconciled(a)
  OBVIOUS
<1>1. c.rows \in [Task -> Version \cup {None}] /\ RowsSound(c.rows) /\ app \in AppState
  BY DEF ListArrives, ClientInv, ListsSound, ListState, AppSound
<1>2. /\ a \in AppState /\ a.tasks = c.rows /\ a.sounds = app.sounds /\ a.seen = app.seen
      /\ a.data = app.data /\ a.read = app.read
  BY <1>1 DEF AppState
<1>3. /\ next \in AppState /\ next.tasks = a.tasks /\ next.sounds = a.sounds
      /\ next.seen = a.seen /\ next.data = a.data /\ next.read = a.read
  BY <1>2 DEF Reconciled, AppState
<1>4. Become(next, Afterwards(c)) /\ lists' = lists \ {c} /\ UNCHANGED <<server, call>>
  BY DEF ListArrives
<1>5. HistorySound' /\ AppSound' /\ LoadsSound' /\ WatchSound' /\ Advances
  BY <1>1, <1>2, <1>3, <1>4, AfterwardsFits, BecomeSound
<1>6. ListsSound'
  BY <1>4 DEF ClientInv, ListsSound, RowsSound, Had
<1> QED
  BY <1>4, <1>5, <1>6, ServerStays DEF ClientInv

LEMMA ListFailsSound ==
  ASSUME ClientInv, NEW c \in lists, ListFails(c)
  PROVE  ClientInv' /\ Advances
<1>1. /\ lists' = lists \ {c} /\ loads' = Afterwards(c)
      /\ UNCHANGED <<server, app, watch, call>>
  BY DEF ListFails
<1>2. ListsSound'
  BY <1>1 DEF ClientInv, ListsSound, RowsSound, Had
<1>3. LoadsSound'
  BY <1>1, AfterwardsFits DEF LoadsSound, LoadsFit
<1> QED
  BY <1>1, <1>2, <1>3, ServerStays, AdvancesAsWas DEF ClientInv

(* The timers and the stream.                                              *)
LEMMA TimerFiresSound ==
  ASSUME ClientInv, TimerFires
  PROVE  ClientInv' /\ Advances
<1>1. UNCHANGED <<server, app, lists, call>> /\ watch.task \in Task /\ watch.task # None
  BY DEF TimerFires, ClientInv, WatchSound, WatchState
<1>2. watch' \in {[watch EXCEPT !.timer = FALSE, !.queued = TRUE],
                   [watch EXCEPT !.timer = FALSE, !.running = TRUE]}
  BY DEF TimerFires
<1>3. watch'.task = watch.task /\ WatchSound'
  BY <1>1, <1>2 DEF ClientInv, WatchSound, WatchState
<1>4. CASE loads' = loads
  BY <1>1, <1>3, <1>4, ServerStays, AdvancesAsWas DEF ClientInv
<1>5. CASE loads' = Ask(loads, watch.task, "refresh")
  <2>1. watch.task = app.data => app.read <= Len(server[watch.task])
    BY <1>1 DEF ClientInv, AppSound, Details
  <2>2. \A l \in loads : l \in LoadState /\ (l.by # "other" => watch'.task # None)
    BY <1>3 DEF ClientInv, LoadsSound, LoadsFit
  <2>3. LoadsFit(Ask(loads, watch.task, "refresh"), watch', app)
    BY <1>1, <1>3, <2>1, <2>2, AskFits DEF ClientInv
  <2> QED
    BY <1>1, <1>3, <1>5, <2>3, ServerStays, AdvancesAsWas DEF ClientInv, LoadsSound
<1> QED
  BY <1>4, <1>5 DEF TimerFires

LEMMA WatchSteps ==
  ASSUME ClientInv, Fallback \/ Stream \/ StreamBreaks
  PROVE  ClientInv' /\ Advances
<1>1. UNCHANGED <<server, app, loads, lists, call>>
  BY DEF Fallback, Stream, StreamOpens, StreamDelivers, StreamBreaks
<1>2. watch.task # None
  BY DEF Fallback, Stream, StreamOpens, StreamDelivers, StreamBreaks, ClientInv, WatchSound
<1>3. PICK n : n = Len(server[watch.task])
  OBVIOUS
<1>4. n \in Nat
  BY <1>2, <1>3 DEF ClientInv, HistorySound, WatchSound, WatchState
<1>5. \/ watch' = [watch EXCEPT !.timer = TRUE]
      \/ watch' = [watch EXCEPT !.cursor = n, !.timer = TRUE]
      \/ \E state \in {"open", "down", "closed"} : watch' = [watch EXCEPT !.stream = state]
  BY <1>3 DEF Fallback, Stream, StreamOpens, StreamDelivers, StreamBreaks
<1>6. watch'.task = watch.task /\ watch' \in WatchState
  BY <1>4, <1>5 DEF ClientInv, WatchSound, WatchState
<1>7. WatchSound'
  BY <1>2, <1>6 DEF WatchSound
<1> QED
  BY <1>1, <1>6, <1>7, ServerStays, AdvancesAsWas DEF ClientInv

(* The history of one task goes on.                                        *)
LEMMA HistoryGrows ==
  ASSUME ClientInv, NEW t \in Task, NEW status \in Status, server' = Changed(t, status),
         ~Gone(t), Row(t).status = "completed" => status = "deleted"
  PROVE  /\ HistorySound'
         /\ Len(server'[t]) = Len(server[t]) + 1 /\ server'[t][Len(server[t]) + 1] = status
         /\ \A u \in Task : /\ Len(server'[u]) \in Nat /\ Len(server'[u]) >= Len(server[u])
                            /\ \A i \in 1..Len(server[u]) : server'[u][i] = server[u][i]
<1>1. /\ HistorySound /\ server[t] \in Seq(Status) /\ Len(server[t]) \in Nat
      /\ server \in [Task -> Seq(Status)]
  BY DEF ClientInv, HistorySound
<1>2. server' = [server EXCEPT ![t] = Append(server[t], status)]
  BY DEF Changed
<1>3. PICK new : new = Append(server[t], status)
  OBVIOUS
<1>4. /\ new \in Seq(Status) /\ Len(new) = Len(server[t]) + 1 /\ new[Len(server[t]) + 1] = status
      /\ \A i \in 1..Len(server[t]) : new[i] = server[t][i]
  BY <1>1, <1>3
<1>5. server' \in [Task -> Seq(Status)] /\ server'[t] = new
      /\ \A u \in Task \ {t} : server'[u] = server[u]
  BY <1>1, <1>2, <1>3, <1>4
<1>6. \A u \in Task : /\ Len(server'[u]) \in Nat /\ Len(server'[u]) >= Len(server[u])
                      /\ \A i \in 1..Len(server[u]) : server'[u][i] = server[u][i]
  <2>1. ASSUME NEW u \in Task \ {t}
        PROVE  /\ Len(server'[u]) \in Nat /\ Len(server'[u]) >= Len(server[u])
               /\ \A i \in 1..Len(server[u]) : server'[u][i] = server[u][i]
    <3>1. server'[u] = server[u] /\ Len(server[u]) \in Nat
      BY <1>1, <1>5
    <3> QED
      BY <3>1
  <2>2. /\ Len(server'[t]) \in Nat /\ Len(server'[t]) >= Len(server[t])
        /\ \A i \in 1..Len(server[t]) : server'[t][i] = server[t][i]
    <3>1. Len(new) \in Nat /\ Len(new) >= Len(server[t])
      BY <1>1, <1>4
    <3> QED
      BY <1>4, <1>5, <3>1
  <2> QED
    BY <2>1, <2>2
<1>7. Gone(t)' <=> status = "deleted"
  BY <1>4, <1>5 DEF Gone, Row, RowAt
<1>8. ASSUME NEW i \in 1..Len(server[t])
      PROVE  /\ server[t][i] # "deleted"
             /\ server[t][i] = "completed" => i = Len(server[t]) /\ status = "deleted"
  BY <1>1 DEF HistorySound, Gone, Row, RowAt
<1>9. ASSUME NEW u \in Task
      PROVE  /\ Len(server'[u]) > 0
             /\ \A i \in 1..Len(server'[u]) - 1 :
                  /\ server'[u][i] # "deleted"
                  /\ server'[u][i] = "completed" => i = Len(server'[u]) - 1 /\ Gone(u)'
  <2>1. CASE u = t
    <3>1. Len(new) > 0 /\ Len(new) - 1 = Len(server[t])
      BY <1>1, <1>4
    <3> QED
      BY <1>4, <1>5, <1>7, <1>8, <2>1, <3>1
  <2>2. CASE u # t
    BY <1>1, <1>5, <2>2 DEF HistorySound, Gone, Row, RowAt
  <2> QED
    BY <2>1, <2>2
<1>10. HistorySound'
  BY <1>5, <1>9 DEF HistorySound
<1> QED
  BY <1>4, <1>5, <1>6, <1>10

LEMMA ServerGrows ==
  ASSUME ClientInv, NEW t \in Task, NEW status \in Status, server' = Changed(t, status),
         ~Gone(t), Row(t).status = "completed" => status = "deleted",
         UNCHANGED <<app, watch, loads, lists>>
  PROVE  /\ HistorySound' /\ AppSound' /\ ListsSound' /\ LoadsSound' /\ WatchSound' /\ Advances
         /\ UNCHANGED call => CallSound'
<1>1. /\ HistorySound'
      /\ \A u \in Task : /\ Len(server'[u]) \in Nat /\ Len(server'[u]) >= Len(server[u])
                         /\ \A i \in 1..Len(server[u]) : server'[u][i] = server[u][i]
  BY HistoryGrows
<1>2. \A u \in Task : Len(server[u]) \in Nat
  BY DEF ClientInv, HistorySound
<1>3. ASSUME NEW u \in Task, NEW row, Had(u, row)
      PROVE  Had(u, row)'
  BY <1>1, <1>2, <1>3 DEF Had
<1>4. AppSound'
  <2>1. RowsSound(app.tasks)'
    BY <1>3 DEF RowsSound, ClientInv, AppSound
  <2>2. Announced(app)'
    <3>1. ASSUME NEW u \in Task, app.sounds[u] > 0
          PROVE  \E i \in 1..Len(server'[u]) :
                   server'[u][i] = "completed" /\ <<u, "completed", i>> \in app.seen
      <4>1. PICK i \in 1..Len(server[u]) :
              server[u][i] = "completed" /\ <<u, "completed", i>> \in app.seen
        BY <3>1 DEF ClientInv, AppSound, Announced
      <4>2. i \in 1..Len(server'[u])
        BY <1>1, <1>2
      <4> QED
        BY <1>1, <4>1, <4>2
    <3> QED
      BY <3>1 DEF Announced, ClientInv, AppSound
  <2>3. Details(app)'
    <3>1. app.data # None => app.data \in Task /\ app.read \in Nat
      BY DEF ClientInv, AppSound, AppState
    <3> QED
      BY <1>1, <1>2, <3>1 DEF Details, ClientInv, AppSound
  <2> QED
    BY <2>1, <2>2, <2>3 DEF ClientInv, AppSound, RowsSound, Had, Announced, Details
<1>5. ListsSound'
  BY <1>3 DEF ClientInv, ListsSound, RowsSound
<1>6. LoadsSound' /\ WatchSound'
  BY DEF ClientInv, LoadsSound, LoadsFit, WatchSound
<1>7. UNCHANGED call => CallSound'
  <2> SUFFICES ASSUME UNCHANGED call, call # None
               PROVE  CallSound'
    BY DEF CallSound
  <2> PICK u, n, row : u = call.task /\ n = call.n /\ row = call.row
    OBVIOUS
  <2>1. u \in Task /\ n \in 1..Len(server[u]) /\ server[u][n] # "deleted"
    BY DEF ClientInv, CallSound, CallState
  <2>2. n \in 1..Len(server'[u]) /\ server'[u][n] = server[u][n]
    BY <1>1, <1>2, <2>1
  <2>3. call.pc = "done" /\ ~call.delete => row \in Version /\ Had(u, row)'
    BY <1>3, <2>1 DEF ClientInv, CallSound
  <2> QED
    BY <2>1, <2>2, <2>3 DEF ClientInv, CallSound, Had
<1> QED
  BY <1>1, <1>4, <1>5, <1>6, <1>7, AdvancesAsWas

LEMMA ServerChangesSound ==
  ASSUME ClientInv, NEW t \in Task, ServerChanges(t)
  PROVE  ClientInv' /\ Advances
<1>1. ~Gone(t) /\ \E status \in Status :
                    /\ server' = Changed(t, status)
                    /\ Row(t).status = "completed" => status = "deleted"
  <2>1. CASE ~Gone(t) /\ \E status \in Leads[Row(t).status] : server' = Changed(t, status)
    BY <2>1, VersionNow, ClientAssumption DEF ClientInv, Status
  <2>2. CASE Row(t).status \in Removable /\ server' = Changed(t, "deleted")
    BY <2>2, ClientAssumption DEF Gone, Status
  <2> QED
    BY <2>1, <2>2 DEF ServerChanges
<1> QED
  BY <1>1, ServerGrows DEF ServerChanges, ClientInv

LEMMA CallCommitsSound ==
  ASSUME ClientInv, CallCommits
  PROVE  ClientInv' /\ Advances
<1>1. call \in CallState /\ call # None /\ UNCHANGED <<app, watch, loads, lists>>
  BY DEF CallCommits, ClientInv, CallSound
<1>2. PICK t \in Task : t = call.task
  BY <1>1 DEF CallState
<1>3. PICK status \in Accepted(call) :
        /\ server' = Changed(t, status)
        /\ call' = [call EXCEPT !.pc = "done", !.row = [status |-> status, n |-> call.n + 1]]
  BY <1>2 DEF CallCommits
<1>4. call.n = Len(server[t]) /\ Len(server[t]) \in Nat /\ call.n \in Nat
  BY <1>1, <1>2 DEF CallCommits, Row, RowAt, ClientInv, HistorySound, CallState
<1>5. ~Gone(t)
  BY <1>1, <1>2, <1>4 DEF ClientInv, CallSound, Gone, Row, RowAt
<1>6. /\ status \in Status /\ (Row(t).status = "completed" => status = "deleted")
      /\ ~call.delete => status # "deleted"
  BY <1>2, <1>3, <1>5, VersionNow, ClientAssumption DEF Accepted, Status, ClientInv
<1>7. /\ Len(server'[t]) = Len(server[t]) + 1 /\ server'[t][Len(server[t]) + 1] = status
      /\ \A i \in 1..Len(server[t]) : server'[t][i] = server[t][i]
  BY <1>3, <1>5, <1>6, HistoryGrows
<1>8. PICK row : row = [status |-> status, n |-> call.n + 1]
  OBVIOUS
<1>9. row \in Version /\ row.n = call.n + 1 /\ row.status = status
  BY <1>4, <1>6, <1>8 DEF Version
<1>10. /\ call' \in CallState /\ call'.n = call.n /\ call'.task = t /\ call'.row = row
       /\ call'.delete = call.delete
  BY <1>1, <1>2, <1>3, <1>8, <1>9 DEF CallState
<1>11. call.n \in 1..Len(server[t]) /\ server[t][call.n] # "deleted"
  BY <1>1, <1>2 DEF ClientInv, CallSound
<1>12. call'.n \in 1..Len(server'[t]) /\ server'[t][call'.n] # "deleted"
  BY <1>4, <1>7, <1>10, <1>11
<1>13. ~call.delete => Had(t, row)'
  BY <1>4, <1>6, <1>7, <1>9 DEF Had
<1>14. CallSound'
  BY <1>9, <1>10, <1>12, <1>13 DEF CallSound, Had
<1> QED
  BY <1>1, <1>3, <1>5, <1>6, <1>14, ServerGrows DEF ClientInv

LEMMA UserSteps ==
  ASSUME ClientInv, Select \/ Navigate \/ ClosePrompt \/ Refresh
  PROVE  ClientInv' /\ Advances
<1>1. UNCHANGED <<server, call>> /\ app \in AppState
  BY DEF Select, Navigate, ClosePrompt, Refresh, ClientInv, AppSound
<1>2. CASE Select
  <2>1. PICK t \in Task \cup {None} : Become([app EXCEPT !.selected = t], loads)
    BY <1>2 DEF Select
  <2>2. PICK a : a = [app EXCEPT !.selected = t]
    OBVIOUS
  <2>3. /\ a \in AppState /\ a.tasks = app.tasks /\ a.sounds = app.sounds /\ a.seen = app.seen
        /\ a.data = app.data /\ a.read = app.read
    BY <1>1, <2>2 DEF AppState
  <2>4. HistorySound' /\ AppSound' /\ LoadsSound' /\ WatchSound' /\ Advances
    BY <1>1, <2>1, <2>2, <2>3, BecomeSound DEF ClientInv, AppSound, LoadsSound
  <2> QED
    BY <1>1, <1>2, <2>4, ServerStays DEF ClientInv, Select
<1>3. CASE Navigate \/ ClosePrompt
  <2>1. UNCHANGED <<watch, loads, lists>>
    BY <1>3 DEF Navigate, ClosePrompt
  <2>2. PICK a \in AppState :
          /\ app' \in {a, Rendered(a)}
          /\ a.tasks = app.tasks /\ a.sounds = app.sounds /\ a.seen = app.seen
          /\ a.selected = app.selected /\ a.data = app.data /\ a.read = app.read
    <3>1. CASE Navigate
      <4>1. PICK p \in Page : app' = Rendered([app EXCEPT !.page = p])
        BY <3>1 DEF Navigate
      <4>2. PICK a : a = [app EXCEPT !.page = p]
        OBVIOUS
      <4>3. /\ a \in AppState
            /\ a.tasks = app.tasks /\ a.sounds = app.sounds /\ a.seen = app.seen
            /\ a.selected = app.selected /\ a.data = app.data /\ a.read = app.read
        BY <1>1, <4>2 DEF AppState
      <4> QED
        BY <4>1, <4>2, <4>3
    <3>2. CASE ClosePrompt
      <4>1. PICK p \in Page : \/ app' = [app EXCEPT !.prompt = None]
                              \/ app' = Rendered([app EXCEPT !.prompt = None, !.page = p])
        <5>1. (IF app.prompt[2] = "evidence_review" THEN "audit" ELSE "other") \in Page
          BY DEF Page
        <5> QED
          BY <3>2, <5>1 DEF ClosePrompt
      <4>2. PICK a : a \in {[app EXCEPT !.prompt = None],
                           [app EXCEPT !.prompt = None, !.page = p]} /\ app' \in {a, Rendered(a)}
        BY <4>1
      <4>3. /\ a \in AppState
            /\ a.tasks = app.tasks /\ a.sounds = app.sounds /\ a.seen = app.seen
            /\ a.selected = app.selected /\ a.data = app.data /\ a.read = app.read
        BY <1>1, <4>2 DEF AppState
      <4> QED
        BY <4>2, <4>3
    <3> QED
      BY <1>3, <3>1, <3>2
  <2>3. RowsSound(a.tasks) /\ Announced(a) /\ Details(a)
    BY <2>2 DEF ClientInv, AppSound, Announced, Details
  <2>4. PICK b : b = app'
    OBVIOUS
  <2>5. /\ b \in AppState /\ RowsSound(b.tasks) /\ Announced(b) /\ Details(b)
        /\ b.data = app.data /\ b.read = app.read
    BY <2>2, <2>3, <2>4, RenderedSound DEF ClientInv
  <2>6. AppSound'
    BY <1>1, <2>4, <2>5 DEF AppSound, RowsSound, Announced, Details, Had
  <2>7. LoadsSound'
    BY <2>1, <2>4, <2>5 DEF ClientInv, LoadsSound, LoadsFit
  <2> QED
    BY <1>1, <2>1, <2>4, <2>5, <2>6, <2>7, ServerStays, AdvancesAsWas DEF ClientInv
<1>4. CASE Refresh
  <2>1. /\ UNCHANGED <<app, watch>> /\ lists' \in {lists, lists \cup {ListCall(None)}}
        /\ loads' = IF app.selected = None THEN loads ELSE Ask(loads, app.selected, "other")
    BY <1>4 DEF Refresh
  <2>2. ListCall(None) \in ListState /\ ListCall(None).rows = None
    BY DEF ListCall, ListState
  <2>3. ListsSound'
    BY <1>1, <2>1, <2>2 DEF ClientInv, ListsSound, RowsSound, Had
  <2>4. LoadsFit(loads', watch, app)
    <3>1. CASE app.selected = None
      BY <2>1, <3>1 DEF ClientInv, LoadsSound
    <3>2. CASE app.selected # None
      <4>1. PICK t \in Task : t = app.selected
        BY <1>1, <3>2 DEF AppState
      <4>2. t = app.data => app.read <= Len(server[t])
        BY <3>2, <4>1 DEF ClientInv, AppSound, Details
      <4>3. \A l \in loads : l \in LoadState /\ (l.by # "other" => watch.task # None)
        BY DEF ClientInv, LoadsSound, LoadsFit
      <4>4. LoadsFit(Ask(loads, t, "other"), watch, app)
        BY <4>2, <4>3, AskFits DEF ClientInv
      <4> QED
        BY <2>1, <3>2, <4>1, <4>4
    <3> QED
      BY <3>1, <3>2
  <2> QED
    BY <1>1, <2>1, <2>3, <2>4, ServerStays, AdvancesAsWas DEF ClientInv, LoadsSound
<1> QED
  BY <1>2, <1>3, <1>4

LEMMA PressSound ==
  ASSUME ClientInv, NEW t \in Task, Press(t)
  PROVE  ClientInv' /\ Advances
<1>1. UNCHANGED <<server, app, watch, loads, lists>> /\ app.tasks[t] # None
  BY DEF Press
<1>2. PICK row : row = app.tasks[t]
  OBVIOUS
<1>3. row \in Version /\ Had(t, row)
  BY <1>1, <1>2 DEF ClientInv, AppSound, AppState, RowsSound
<1>4. PICK delete \in BOOLEAN :
        call' = [task |-> t, n |-> row.n, delete |-> delete, pc |-> "sent", row |-> None]
  BY <1>2 DEF Press
<1>5. CallSound'
  BY <1>1, <1>3, <1>4 DEF CallSound, CallState, Had, Version
<1> QED
  BY <1>1, <1>5, ServerStays, AdvancesAsWas DEF ClientInv

LEMMA CallAnsweredSound ==
  ASSUME ClientInv, CallAnswered
  PROVE  ClientInv' /\ Advances
<1>1. UNCHANGED server /\ call' = None /\ call # None /\ call.pc = "done" /\ call \in CallState
  BY DEF CallAnswered, ClientInv, CallSound
<1>2. PICK t \in Task : t = call.task
  BY <1>1 DEF CallState
<1>3. PICK then \in Task \cup {None} : lists' = lists \cup {ListCall(then)}
  BY <1>2 DEF CallAnswered
<1>4. ListCall(then) \in ListState /\ ListCall(then).rows = None
  BY DEF ListCall, ListState
<1>5. ListsSound'
  BY <1>1, <1>3, <1>4 DEF ClientInv, ListsSound, RowsSound, Had
<1>6. app \in AppState /\ RowsSound(app.tasks)
  BY DEF ClientInv, AppSound
<1>7. PICK a : a = IF call.delete THEN [app EXCEPT !.selected = IF @ = t THEN None ELSE @]
                 ELSE [Upserted(app, t, call.row, TRUE) EXCEPT !.selected = t]
  OBVIOUS
<1>8. Become(a, loads)
  BY <1>2, <1>7 DEF CallAnswered
<1>9. /\ a \in AppState /\ RowsSound(a.tasks) /\ a.sounds = app.sounds /\ a.seen = app.seen
      /\ a.data = app.data /\ a.read = app.read
  <2>1. CASE call.delete
    BY <1>6, <1>7, <2>1 DEF AppState
  <2>2. CASE ~call.delete
    <3>1. call.row \in Version /\ Had(t, call.row)
      BY <1>1, <1>2, <2>2 DEF ClientInv, CallSound
    <3>2. a = [[app EXCEPT !.tasks[t] = call.row] EXCEPT !.selected = t]
      BY <1>7, <2>2 DEF Upserted
    <3>3. /\ a \in AppState /\ a.tasks = [app.tasks EXCEPT ![t] = call.row]
          /\ a.sounds = app.sounds /\ a.seen = app.seen
          /\ a.data = app.data /\ a.read = app.read
      BY <1>6, <3>1, <3>2 DEF AppState
    <3>4. RowsSound(a.tasks)
      BY <1>6, <3>1, <3>3 DEF RowsSound, AppState
    <3> QED
      BY <3>3, <3>4
  <2> QED
    BY <2>1, <2>2
<1>10. HistorySound' /\ AppSound' /\ LoadsSound' /\ WatchSound' /\ Advances
  BY <1>1, <1>8, <1>9, BecomeSound DEF ClientInv, LoadsSound
<1> QED
  BY <1>1, <1>5, <1>10, ServerStays DEF ClientInv

LEMMA ClientStep ==
  ASSUME ClientInv, [Next]_clientvars
  PROVE  ClientInv' /\ Advances
<1>1. CASE Serve
  BY <1>1, ServeListsSound DEF Serve
<1>2. CASE Arrive
  BY <1>2, LoadArrivesSound, LoadEnds, ListArrivesSound, ListFailsSound DEF Arrive
<1>3. CASE Stream \/ StreamBreaks \/ Timer
  BY <1>3, WatchSteps, TimerFiresSound DEF Timer
<1>4. CASE ServerStep
  BY <1>4, ServerChangesSound, CallCommitsSound DEF ServerStep
<1>5. CASE UserStep
  <2>1. CASE CallFails
    BY <2>1, ServerStays, AdvancesAsWas DEF CallFails, ClientInv
  <2> QED
    BY <1>5, <2>1, UserSteps, PressSound, CallAnsweredSound DEF UserStep
<1>6. CASE UNCHANGED clientvars
  BY <1>6, ServerStays, AdvancesAsWas DEF clientvars, ClientInv
<1> QED
  BY <1>1, <1>2, <1>3, <1>4, <1>5, <1>6 DEF Next

LEMMA ClientInvInit == Init => ClientInv
<1> SUFFICES ASSUME Init PROVE ClientInv
  OBVIOUS
<1>1. PICK status \in [Task -> DOMAIN Leads] : server = [t \in Task |-> <<status[t]>>]
  BY ClientAssumption DEF Init
<1>2. ASSUME NEW t \in Task
      PROVE  server[t] \in Seq(Status) /\ Len(server[t]) = 1
  <2>1. PICK x \in Status : x = status[t]
    BY DEF Status
  <2>2. server[t] = <<x>>
    BY <1>1, <2>1
  <2> QED
    BY <2>2
<1>3. HistorySound
  BY <1>1, <1>2 DEF HistorySound
<1>4. /\ app \in AppState /\ app.data = None
      /\ \A t \in Task : app.sounds[t] = 0 /\ app.tasks[t] = None
  BY ClientAssumption DEF Init, AppState, Page
<1>5. AppSound
  BY <1>4 DEF AppSound, RowsSound, Announced, Details
<1>6. ListsSound
  BY DEF Init, ListsSound, ListCall, ListState
<1>7. watch \in WatchState /\ ~watch.timer /\ watch.stream = "none"
  BY DEF Init, NoWatch, WatchState
<1> QED
  BY <1>3, <1>5, <1>6, <1>7 DEF Init, ClientInv, CallSound, LoadsSound, LoadsFit, WatchSound

LEMMA ClientInvariance == ClientSpec => []ClientInv
<1>1. ClientInv /\ [Next]_clientvars => ClientInv'
  BY ClientStep
<1> QED
  BY <1>1, ClientInvInit, PTL DEF ClientSpec

(* The completion of a task is announced once, for any tasks, statuses,    *)
(* faults and orders in which answers come.                                *)
THEOREM CompletionAnnouncedOnce == ClientSpec => []AnnouncedOnce
<1>1. ClientInv => AnnouncedOnce
  BY DEF ClientInv, AppSound, Announced, AnnouncedOnce
<1> QED
  BY <1>1, ClientInvariance, PTL

(* No late answer takes the details of the selected task back.             *)
THEOREM NoDetailsGoBack == ClientSpec => DetailsAdvance
<1>1. ClientInv /\ [Next]_clientvars => [Advances]_clientvars
  BY ClientStep
<1>2. [][Advances]_clientvars => DetailsAdvance
  BY PTL DEF Advances, DetailsAdvance
<1> QED
  BY <1>1, <1>2, ClientInvariance, PTL DEF ClientSpec
=============================================================================
