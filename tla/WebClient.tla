------------------------------ MODULE WebClient ------------------------------
(***************************************************************************)
(* What the web client shows of the tasks (App.tsx and its hooks), kept    *)
(* up to date by answers of the server that may come late, in any order,   *)
(* or not at all: the list of all tasks, the five reads of the selected    *)
(* task, answers to control calls, and the task's event stream with its    *)
(* fallback timer.                                                         *)
(*                                                                         *)
(* Of the server the module has, per task, the statuses it went through;   *)
(* their number stands for row_version and for the sequence of the last    *)
(* event, which every change of a status advances together                 *)
(* (jobs/service.py).  Which status follows which is the business of       *)
(* TaskLifecycle and a constant here.                                      *)
(***************************************************************************)
EXTENDS Naturals, Sequences

CONSTANTS
  Task,
  Starts,     \* the statuses of the tasks when the client opens
  Remembered, \* the selected task that local storage may hold, or None
  Leads,      \* per status, what the worker or another client may make of it
  Controls,   \* per status, what a control call of this client may make of it
  Removable,  \* the statuses in which a task may be deleted
  MaxEvents,  \* bound: changes at the server, of all tasks together
  MaxClicks,  \* bound: what the user of the client does
  MaxFaults,  \* bound: calls that fail and streams that break
  MaxTrouble, \* bound: clicks and faults together
  None        \* absent

Page == {"audit", "other"}

(* A completed task stays completed until it is deleted.                   *)
ASSUME ClientAssumption ==
  /\ None \notin Task
  /\ "deleted" \notin DOMAIN Leads /\ DOMAIN Controls = DOMAIN Leads
  /\ \A s \in DOMAIN Leads :
       /\ Leads[s] \cup Controls[s] \subseteq DOMAIN Leads
       /\ s = "completed" => Leads[s] \cup Controls[s] = {}
  /\ Starts \subseteq [Task -> DOMAIN Leads]
  /\ Remembered \subseteq Task \cup {None}
  /\ Removable \subseteq DOMAIN Leads
  /\ MaxEvents \in Nat /\ MaxClicks \in Nat /\ MaxFaults \in Nat /\ MaxTrouble \in Nat

VARIABLES
  server,   \* per task, its statuses so far, "deleted" at last
  app,      \* the state of App.tsx and its hooks
  watch,    \* the refresh lifecycle of the selected task
  loads,    \* loadTaskData calls in flight
  lists,    \* reloadTasks calls in flight
  call,     \* the control or delete call in flight, or None
  excused,  \* history: the client fell behind in a way CatchesUp names
  spent     \* changes, clicks and faults so far

clientvars == <<server, app, watch, loads, lists, call, excused, spent>>

NoWatch == [task |-> None, stream |-> "none", cursor |-> 0,
            running |-> FALSE, queued |-> FALSE, timer |-> FALSE]

Spend(kind, bound) ==
  /\ spent[kind] < bound
  /\ kind # "events" => spent["clicks"] + spent["faults"] < MaxTrouble
  /\ spent' = [spent EXCEPT ![kind] = @ + 1]

(* The row of a task as it was after its i-th change.                      *)
RowAt(t, i) == [status |-> server[t][i], n |-> i]

Row(t) == RowAt(t, Len(server[t]))

Gone(t) == Row(t).status = "deleted"

Shown(a) == IF a.selected = None THEN None ELSE a.tasks[a.selected]

(* The answer shown for the selected task is the server's latest.          *)
UpToDate == app.selected # None => Shown(app) = Row(app.selected)

(* History: an excuse lasts until the client is up to date, or turns to    *)
(* another task.                                                           *)
Note(excuse) ==
  excused' = /\ app'.selected = app.selected
             /\ ~UpToDate'
             /\ excused \/ excuse

(* History: a list replaces the status on display by an older one.         *)
WentBack(a) ==
  /\ a.selected = app.selected /\ Shown(a) # None /\ Shown(app) # None
  /\ Shown(a).n < Shown(app).n

-----------------------------------------------------------------------------
(* Faulty versions of definitions below, used by no specification.         *)

AskBeside(calls, t, by) ==
  calls \cup {[task |-> t, by |-> by, current |-> TRUE, since |-> Len(server[t])]}

NeverAgain(w) == FALSE

NeverSeen(a, key) == FALSE

-----------------------------------------------------------------------------
(* The effect of App.tsx that follows the selected task: prompts at the    *)
(* review gate and, with a sound, for a completion the client saw happen.  *)

Seen(a, key) == key \in a.seen

Announce(a, key) == [a EXCEPT !.seen = @ \cup {key}, !.prompt = key]

KeepOnly(a, key) == [a EXCEPT !.prompt = IF @ = key THEN @ ELSE None]

(* isCompletionTransition                                                  *)
EntersCompleted(previous) == previous \notin {None, "completed"}

Rendered(a) ==
  IF Shown(a) = None THEN [a EXCEPT !.prompt = None]
  ELSE LET t      == a.selected
           status == Shown(a).status
           key    == <<t, status, Shown(a).n>>
           b      == [a EXCEPT !.observed[t] = status]
       IN CASE status = "evidence_review" /\ a.page = "audit" -> [b EXCEPT !.prompt = None]
            [] status = "evidence_review" /\ a.page # "audit" ->
                 IF Seen(b, key) THEN KeepOnly(b, key) ELSE Announce(b, key)
            [] status = "completed" ->
                 IF EntersCompleted(a.observed[t]) /\ ~Seen(b, key)
                 THEN [Announce(b, key) EXCEPT !.sounds[t] = IF @ < 2 THEN @ + 1 ELSE @]
                 ELSE KeepOnly(b, key)
            [] OTHER -> [b EXCEPT !.prompt = None]

-----------------------------------------------------------------------------
(* Loads of the selected task and its refresh lifecycle.                   *)

(* A load was asked for when its task had changed since times.             *)
Load(t, by) ==
  [task |-> t, by |-> by, current |-> TRUE,
   since |-> Len(server[t])]

(* A call of loadTaskData takes the next request number, so that the one   *)
(* before it is no longer current.  A superseded call is followed on only  *)
(* for the refresh that waits for it; what it reads is left out.           *)
Ask(calls, t, by) ==
  {[l EXCEPT !.current = FALSE, !.since = 0] : l \in {k \in calls : k.by = "refresh"}}
    \cup {Load(t, by)}

(* The client becomes a.  A change of the selected task disposes of the    *)
(* lifecycle, whose loads come to nothing, and starts a new one.           *)
Become(a, calls) ==
  LET changed == <<a.ready, a.selected>> # <<app.ready, app.selected>>
      kept    == [a EXCEPT !.data = IF a.selected # app.selected THEN None ELSE @]
  IN /\ app' = Rendered(kept)
     /\ IF ~changed THEN watch' = watch /\ loads' = calls
        ELSE IF a.ready /\ a.selected # None
        THEN /\ watch' = [NoWatch EXCEPT !.task = a.selected]
             /\ loads' = {Load(a.selected, "start")}
        ELSE watch' = NoWatch /\ loads' = {}

(* The guard of loadTaskData after its reads.                              *)
IsLatest(l) == l.current /\ l.task = app.selected

(* connectStream, unless there is one; after is None for a load that       *)
(* failed or came too late.                                                *)
Connected(w, after) ==
  IF after = None \/ w.stream # "none" THEN w
  ELSE [w EXCEPT !.stream = "connecting", !.cursor = after]

(* The loop of refresh: once more if asked for meanwhile.                  *)
Again(w) == w.queued

(* What the caller of the load l does with what it returns.                *)
Continue(l, after) ==
  LET rest == loads \ {l}
      w    == IF l.by = "other" THEN watch ELSE Connected(watch, after)
  IN IF l.by = "refresh" /\ Again(w)
     THEN /\ watch' = [w EXCEPT !.queued = FALSE]
          /\ loads' = Ask(rest, w.task, "refresh")
     ELSE /\ watch' = IF l.by = "refresh" THEN [w EXCEPT !.running = FALSE] ELSE w
          /\ loads' = rest

Upserted(a, t, row, insert) ==
  IF a.tasks[t] = None /\ ~insert THEN a ELSE [a EXCEPT !.tasks[t] = row]

Readings(l) ==
  {i \in l.since..Len(server[l.task]) : server[l.task][i] # "deleted"}

(* The five reads were served at any moments since the load was asked for: *)
(* row is what the task was read as, events stands for the four others.  A *)
(* load that opens the stream past a change its row has not seen leaves    *)
(* the row behind.                                                         *)
LoadArrives(l) ==
  /\ l.current
  /\ \E i, events \in Readings(l) :
       LET next == [Upserted(app, l.task, RowAt(l.task, i), FALSE)
                      EXCEPT !.data = l.task, !.read = events]
       IN IF IsLatest(l)
          THEN /\ app' = Rendered(next)
               /\ Continue(l, events)
               /\ UNCHANGED <<server, lists, call, spent>>
               /\ Note(/\ watch.stream = "none" /\ watch'.stream = "connecting"
                       /\ i < events)
          ELSE /\ Continue(l, None)
               /\ UNCHANGED <<server, app, lists, call, excused, spent>>

(* A superseded load comes to nothing but lets its refresh go on.          *)
LateLoadArrives(l) ==
  /\ ~l.current
  /\ Continue(l, None)
  /\ UNCHANGED <<server, app, lists, call, excused, spent>>

(* One of the reads fails, for good when the task is gone.                 *)
LoadFails(l) ==
  /\ IF Gone(l.task) THEN UNCHANGED spent ELSE Spend("faults", MaxFaults)
  /\ l.current
  /\ Continue(l, None)
  /\ UNCHANGED <<server, app, lists, call>>
  /\ Note(IsLatest(l) /\ watch.stream # "none")

(* refresh, when the timer of 120 ms has run out.                          *)
TimerFires ==
  /\ watch.timer
  /\ IF watch.running
     THEN /\ watch' = [watch EXCEPT !.timer = FALSE, !.queued = TRUE]
          /\ UNCHANGED loads
     ELSE /\ watch' = [watch EXCEPT !.timer = FALSE, !.running = TRUE]
          /\ loads' = Ask(loads, watch.task, "refresh")
  /\ UNCHANGED <<server, app, lists, call, excused, spent>>

(* The fallback timer runs whenever the stream is not open.                *)
Fallback ==
  /\ watch.task # None /\ watch.stream # "open" /\ ~watch.timer
  /\ watch' = [watch EXCEPT !.timer = TRUE]
  /\ UNCHANGED <<server, app, loads, lists, call, excused, spent>>

(* An EventSource connects again by itself after an error, and says which  *)
(* event it had last; the answer 404 closes it for good.                   *)
StreamOpens ==
  /\ watch.stream \in {"connecting", "down"} /\ ~Gone(watch.task)
  /\ watch' = [watch EXCEPT !.stream = "open"]
  /\ UNCHANGED <<server, app, loads, lists, call, excused, spent>>

StreamBreaks ==
  /\ \/ /\ watch.stream = "open"
        /\ IF Gone(watch.task) THEN UNCHANGED spent ELSE Spend("faults", MaxFaults)
        /\ watch' = [watch EXCEPT !.stream = "down"]
     \/ /\ watch.stream \in {"connecting", "down"} /\ Gone(watch.task)
        /\ watch' = [watch EXCEPT !.stream = "closed"]
        /\ UNCHANGED spent
  /\ UNCHANGED <<server, app, loads, lists, call, excused>>

(* The server looks once a second for events after the cursor.             *)
StreamDelivers ==
  /\ watch.stream = "open" /\ ~Gone(watch.task)
  /\ watch.cursor < Len(server[watch.task])
  /\ watch' = [watch EXCEPT !.cursor = Len(server[watch.task]), !.timer = TRUE]
  /\ UNCHANGED <<server, app, loads, lists, call, excused, spent>>

-----------------------------------------------------------------------------
(* The list of all tasks.                                                  *)

(* reloadTasks; then is the task whose data the caller loads afterwards.   *)
ListCall(then) == [rows |-> None, then |-> then]

ServeLists(c) ==
  /\ c.rows = None
  /\ lists' = (lists \ {c}) \cup {[c EXCEPT !.rows = [t \in Task |-> IF Gone(t) THEN None ELSE Row(t)]]}
  /\ UNCHANGED <<server, app, watch, loads, call, excused, spent>>

(* reconcileSelectedTask                                                   *)
Reconciled(a) ==
  [a EXCEPT !.selected = IF @ # None /\ a.tasks[@] = None THEN None ELSE @]

(* What the caller loads supersedes a load of the selected task.           *)
Afterwards(c) == IF c.then = None THEN loads ELSE Ask(loads, c.then, "other")

Overtakes(c) ==
  /\ c.then \notin {None, app.selected} /\ watch.stream # "none"
  /\ \E l \in loads : IsLatest(l)

ListArrives(c) ==
  LET next == Reconciled([app EXCEPT !.tasks = c.rows, !.ready = TRUE]) IN
  /\ c.rows # None
  /\ lists' = lists \ {c}
  /\ Become(next, Afterwards(c))
  /\ UNCHANGED <<server, call, spent>>
  /\ Note(WentBack(next) \/ Overtakes(c))

ListFails(c) ==
  /\ Spend("faults", MaxFaults)
  /\ lists' = lists \ {c}
  /\ loads' = Afterwards(c)
  /\ UNCHANGED <<server, app, watch, call>>
  /\ Note(Overtakes(c))

-----------------------------------------------------------------------------
(* The server.                                                             *)

Changed(t, status) == [server EXCEPT ![t] = Append(@, status)]

ServerChanges(t) ==
  /\ Spend("events", MaxEvents)
  /\ \/ ~Gone(t) /\ \E status \in Leads[Row(t).status] : server' = Changed(t, status)
     \/ Row(t).status \in Removable /\ server' = Changed(t, "deleted")
  /\ UNCHANGED <<app, watch, loads, lists, call, excused>>

(* A control or delete call reaches the server, with the version the user  *)
(* saw (expected_version).                                                 *)
Accepted(c) ==
  LET status == Row(c.task).status IN
  IF c.delete THEN IF status \in Removable THEN {"deleted"} ELSE {} ELSE Controls[status]

CallCommits ==
  /\ call # None /\ call.pc = "sent" /\ Row(call.task).n = call.n
  /\ Spend("events", MaxEvents)
  /\ \E status \in Accepted(call) :
       /\ server' = Changed(call.task, status)
       /\ call' = [call EXCEPT !.pc = "done", !.row = [status |-> status, n |-> call.n + 1]]
  /\ UNCHANGED <<app, watch, loads, lists, excused>>

-----------------------------------------------------------------------------
(* The user.                                                               *)

Select ==
  /\ Spend("clicks", MaxClicks)
  /\ \E t \in Task \cup {None} :
       /\ t # app.selected /\ (t # None => app.tasks[t] # None)
       /\ Become([app EXCEPT !.selected = t], loads)
  /\ UNCHANGED <<server, lists, call>>
  /\ Note(FALSE)

Navigate ==
  /\ Spend("clicks", MaxClicks)
  /\ \E p \in Page : p # app.page /\ app' = Rendered([app EXCEPT !.page = p])
  /\ UNCHANGED <<server, watch, loads, lists, call, excused>>

(* The buttons of the prompt; the second also turns to the page it names.  *)
ClosePrompt ==
  /\ Spend("clicks", MaxClicks)
  /\ app.prompt # None
  /\ \/ app' = [app EXCEPT !.prompt = None]
     \/ app' = Rendered([app EXCEPT !.prompt = None,
                          !.page = IF app.prompt[2] = "evidence_review" THEN "audit" ELSE "other"])
  /\ UNCHANGED <<server, watch, loads, lists, call, excused>>

(* refreshAll, and onAuditChanged, which only loads.                       *)
Refresh ==
  /\ Spend("clicks", MaxClicks)
  /\ \/ lists' = lists \cup {ListCall(None)}
     \/ app.selected # None /\ UNCHANGED lists
  /\ loads' = IF app.selected = None THEN loads ELSE Ask(loads, app.selected, "other")
  /\ UNCHANGED <<server, app, watch, call, excused>>

Press(t) ==
  /\ Spend("clicks", MaxClicks)
  /\ call = None /\ app.tasks[t] # None
  /\ LET row == app.tasks[t] IN
     \E delete \in BOOLEAN :
       /\ IF delete THEN row.status \in Removable ELSE Controls[row.status] # {}
       /\ call' = [task |-> t, n |-> row.n, delete |-> delete, pc |-> "sent", row |-> None]
  /\ UNCHANGED <<server, app, watch, loads, lists, excused>>

(* onTaskChanged and onTaskDeleted.                                        *)
CallAnswered ==
  /\ call # None /\ call.pc = "done"
  /\ call' = None
  /\ LET t    == call.task
         next == IF call.delete
                 THEN [app EXCEPT !.selected = IF @ = t THEN None ELSE @]
                 ELSE [Upserted(app, t, call.row, TRUE) EXCEPT !.selected = t]
     IN /\ Become(next, loads)
        /\ lists' = lists \cup {ListCall(IF call.delete THEN None ELSE t)}
        /\ UNCHANGED <<server, spent>>
        /\ Note(FALSE)

(* The call is refused, or fails, or its answer is lost: a message only.   *)
CallFails ==
  /\ call # None
  /\ IF call.pc = "sent" THEN UNCHANGED spent ELSE Spend("faults", MaxFaults)
  /\ call' = None
  /\ UNCHANGED <<server, app, watch, loads, lists, excused>>

-----------------------------------------------------------------------------
(* The client opens with the task it remembers and asks for the list.      *)
Init ==
  /\ \E status \in Starts : server = [t \in Task |-> <<status[t]>>]
  /\ \E t \in Remembered :
       app = [tasks |-> [u \in Task |-> None], ready |-> FALSE, selected |-> t,
              page |-> "other", data |-> None, read |-> 0,
              observed |-> [u \in Task |-> None], seen |-> {}, prompt |-> None,
              sounds |-> [u \in Task |-> 0]]
  /\ watch = NoWatch
  /\ loads = {}
  /\ lists = {ListCall(None)}
  /\ call = None
  /\ excused = FALSE
  /\ spent = [events |-> 0, clicks |-> 0, faults |-> 0]

Serve == \E c \in lists : ServeLists(c)

Arrive == \/ \E l \in loads : LoadArrives(l) \/ LateLoadArrives(l) \/ LoadFails(l)
          \/ \E c \in lists : ListArrives(c) \/ ListFails(c)

Stream == StreamOpens \/ StreamDelivers

Timer == TimerFires \/ Fallback

ServerStep == CallCommits \/ \E t \in Task : ServerChanges(t)

UserStep == \/ Select \/ Navigate \/ ClosePrompt \/ Refresh
            \/ \E t \in Task : Press(t)
            \/ CallAnswered \/ CallFails

Next == Serve \/ Arrive \/ Stream \/ StreamBreaks \/ Timer \/ ServerStep \/ UserStep

(* Calls are served and answered, timers fire, and the stream connects and *)
(* delivers, in the end.                                                   *)
ClientFairness ==
  /\ WF_clientvars(Serve)
  /\ WF_clientvars(Arrive)
  /\ WF_clientvars(Stream)
  /\ WF_clientvars(Timer)

ClientSpec == Init /\ [][Next]_clientvars /\ ClientFairness

-----------------------------------------------------------------------------
(* The details of the selected task (events, counts, component runs) never *)
(* go back to an older reading, in whatever order loads are answered.      *)
DetailsAdvance ==
  [][(app.data # None /\ app'.data = app.data) => app.read <= app'.read]_clientvars

(* The completion of a task is announced once, also when an older answer   *)
(* shows the task at work again and the next one shows it completed anew.  *)
AnnouncedOnce == \A t \in Task : app.sounds[t] <= 1

(* Once nothing changes any more, the client shows the selected task as it *)
(* is at the server, unless it was deleted there or the client fell behind *)
(* in one of three ways, after which only a further event or a click       *)
(* helps: it opened the stream past a change its task row was read before; *)
(* an older list replaced a newer row; a load failed, or was superseded by *)
(* the load of a task no longer selected, with the stream there.           *)
CatchesUp ==
  <>[](app.ready /\ app.selected # None /\ ~Gone(app.selected) => UpToDate \/ excused)
=============================================================================
