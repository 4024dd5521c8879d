---------------------------- MODULE ModelDownloads ----------------------------
(***************************************************************************)
(* The model assets of one backend: downloads and verifications started by *)
(* the API (model_adapters/downloads.py), the files they leave on disk     *)
(* (storage.py), and the worker thread that waits for the models of its    *)
(* component and loads them (service.py, scoring/coordinator.py).          *)
(*                                                                         *)
(* An operation is a thread; one at a time works, the others wait for the  *)
(* semaphore.  Its steps are the file operations, the places where it asks *)
(* whether it is canceled, and the changes of its status.  The requests of *)
(* the API, the loads of the worker and a crash come between any two.      *)
(*                                                                         *)
(* Left out: custom models, and changes of files by others while an        *)
(* operation on their model is under way.                                  *)
(***************************************************************************)
EXTENDS Naturals, Sequences, SequencesExt

CONSTANTS
  Model,      \* the models of the registry
  NFiles,     \* NFiles[m]: how many files m has
  Order,      \* Order[m]: m and its dependencies, each after its own
  Wanted,     \* the models the components ask for
  Size,       \* chunks of a file
  Faults,     \* what the surroundings do, see below
  MaxRequest, \* bound: requests of the API and waits of the worker
  MaxRestart, \* bound: starts of the backend after the first
  Spoils      \* bound: others change these files, <<m, f>>, once each

ASSUME FilesAssumption == NFiles \in [Model -> Nat \ {0}]
ASSUME OrderAssumption ==
  \A m \in Model : Order[m] \in Seq(Model) \ {<<>>} /\ Last(Order[m]) = m
ASSUME WantedAssumption == Wanted \subseteq Model /\ Wanted # {}
ASSUME BoundAssumption == MaxRequest \in Nat /\ MaxRestart \in Nat
ASSUME SizeAssumption == Size \in Nat \ {0}

(* "refused": no usable answer; "cut": the answer ends or breaks early;    *)
(* "wrong": wrong or too many bytes; "restart": the server ignores Range;  *)
(* "crash": the backend is killed.                                         *)
ASSUME FaultsAssumption ==
  Faults \subseteq {"refused", "cut", "wrong", "restart", "crash"}

VARIABLES
  final,    \* final[m][f]: the content under the file's own name
  part,     \* part[m][f]: the .part file beside it
  listed,   \* files that .installation.json lists as they are on disk
  op,       \* the last operation of each model in this process
  stopping, \* the manager is shutting down
  verified, \* models verified for use by this process
  unseen,   \* history: files changed by others after that
  waiter,   \* the worker thread
  count     \* requests and restarts so far, files changed by others

disk == <<final, part, listed>>
vars == <<final, part, listed, op, stopping, verified, unseen, waiter, count>>

File(m) == 1..NFiles[m]

(* "bad": as long as the registered file, other bytes; "edited" and        *)
(* "cut": changed by others, "cut" to another length.                      *)
Content == {"none", "good", "bad", "edited", "cut"}

Part == [here : BOOLEAN, size : 0..Size + 1, good : BOOLEAN]
NoPart == [here |-> FALSE, size |-> 0, good |-> TRUE]
EmptyPart == [NoPart EXCEPT !.here = TRUE]

(* The places of an operation's thread; at "ending" its status is final,   *)
(* and only that matters afterwards.                                       *)
Place == {"queue", "next", "final", "checkFinal", "part", "checkPart", "open",
          "read", "close", "checkNew", "verify", "write", "finish", "canceled",
          "failed", "ending", "none"}

(* "active": queued, downloading or verifying.                             *)
Operation == [kind   : {"download", "verify"},
              status : {"none", "active", "ready", "canceled", "failed"},
              cancel : BOOLEAN,
              pc     : Place,
              at     : Nat]

NoOperation == [kind |-> "download", status |-> "none", cancel |-> FALSE,
                pc |-> "none", at |-> 1]

Idle == [pc |-> "idle", model |-> CHOOSE m \in Wanted : TRUE, at |-> 1]

TypeOK ==
  /\ \A m \in Model : final[m] \in [File(m) -> Content]
  /\ \A m \in Model : part[m] \in [File(m) -> Part]
  /\ \A m \in Model : listed[m] \subseteq File(m)
  /\ op \in [Model -> Operation]
  /\ stopping \in BOOLEAN
  /\ verified \subseteq Model
  /\ unseen \subseteq Model
  /\ waiter \in [pc : {"idle", "waits", "loads", "runs", "failed"},
                 model : Model, at : Nat]
  /\ count \in [request : 0..MaxRequest, restart : 0..MaxRestart, spoiled : SUBSET Spoils]

Init ==
  /\ final = [m \in Model |-> ([f \in File(m) |-> "none"])]
  /\ part = [m \in Model |-> ([f \in File(m) |-> NoPart])]
  /\ listed = [m \in Model |-> {}]
  /\ op = [m \in Model |-> NoOperation]
  /\ stopping = FALSE
  /\ verified = {}
  /\ unseen = {}
  /\ waiter = Idle
  /\ count = [request |-> 0, restart |-> 0, spoiled |-> {}]

-----------------------------------------------------------------------------
(* Faulty versions of definitions below, used by no specification.         *)

SizeMatches(content) == content # "none"

InvalidatesAll(m, f) == File(m)

TrustsManifest(m) == TRUE

CanceledIsNoFailure == {"corrupt", "failed"}

(* The originals.                                                          *)

(* validate_expected_file: size, digest and container.                     *)
Passes(content) == content = "good"

(* _registry_file_status and _derived_status.                              *)
FileState(m, f) ==
  CASE final[m][f] = "cut" -> "corrupt"
    [] final[m][f] \in {"good", "bad", "edited"} ->
         IF f \in listed[m] THEN "ready" ELSE "verification_required"
    [] final[m][f] = "none" ->
         IF ~part[m][f].here THEN "missing"
         ELSE IF part[m][f].size \in 1..Size THEN "partial" ELSE "corrupt"

DiskStatus(m) ==
  LET states == {FileState(m, f) : f \in File(m)} IN
  IF states = {"ready"} THEN "ready"
  ELSE IF "corrupt" \in states THEN "corrupt"
  ELSE IF "verification_required" \in states THEN "verification_required"
  ELSE IF "partial" \in states THEN "partial"
  ELSE "missing"

(* What the API and the worker see: an operation that did not end well     *)
(* hides the disk.                                                         *)
Shown(m) ==
  IF op[m].status \in {"none", "ready"} THEN DiskStatus(m) ELSE op[m].status

RuntimeReady(m) == \A d \in ToSet(Order[m]) : Shown(d) = "ready"

Alive(m) == op[m].pc # "none"

Working == {m \in Model : op[m].pc \notin {"queue", "canceled", "failed",
                                            "ending", "none"}}

-----------------------------------------------------------------------------
(* Requests.                                                               *)

(* _start finds a live operation of the same kind good enough.             *)
Refuses(m, kind) == stopping \/ (Alive(m) /\ op[m].kind # kind)

Started(m, kind) ==
  LET new == [NoOperation EXCEPT !.kind = kind] IN
  CASE Alive(m) -> op[m]
    [] ~Alive(m) /\ kind = "download" /\ DiskStatus(m) = "ready" ->
         [NoOperation EXCEPT !.status = "ready"]
    [] OTHER -> [new EXCEPT !.status = "active", !.pc = "queue"]

(* The models of a list are started in turn, up to the first refused one.  *)
Starts(models, kind) ==
  LET i(m)  == CHOOSE k \in DOMAIN models : models[k] = m
      begun == {m \in ToSet(models) : \A k \in 1..i(m) : ~Refuses(models[k], kind)}
  IN op' = [m \in Model |-> IF m \in begun THEN Started(m, kind) ELSE op[m]]

MayAsk ==
  /\ count.request < MaxRequest
  /\ count' = [count EXCEPT !.request = @ + 1]

(* With its dependencies, without them, or everything the registry has.    *)
StartDownload(m) ==
  /\ MayAsk
  /\ Starts(Order[m], "download") \/ Starts(<<m>>, "download")
  /\ UNCHANGED <<disk, stopping, verified, unseen, waiter>>

StartVerify(m) ==
  /\ MayAsk
  /\ Starts(<<m>>, "verify")
  /\ UNCHANGED <<disk, stopping, verified, unseen, waiter>>

(* A thread that will not ask again is canceled in vain.                   *)
AsksAgain(m) == op[m].pc \notin {"write", "finish", "canceled", "failed",
                                   "ending", "none"}

Cancel(m) ==
  /\ AsksAgain(m)
  /\ op' = [op EXCEPT ![m].cancel = TRUE]
  /\ UNCHANGED <<disk, stopping, verified, unseen, waiter, count>>

Shutdown ==
  /\ ~stopping /\ count.restart < MaxRestart
  /\ stopping' = TRUE
  /\ op' = [m \in Model |-> [op[m] EXCEPT !.cancel = @ \/ AsksAgain(m)]]
  /\ UNCHANGED <<disk, verified, unseen, waiter, count>>

(* The process ends, its daemon threads wherever they are, and is started  *)
(* again.                                                                  *)
Restart ==
  /\ count.restart < MaxRestart
  /\ stopping \/ "crash" \in Faults
  /\ op' = [m \in Model |-> NoOperation]
  /\ stopping' = FALSE
  /\ verified' = {}
  /\ unseen' = {}
  /\ waiter' = Idle
  /\ count' = [count EXCEPT !.restart = @ + 1]
  /\ UNCHANGED disk

(* A file is changed by others; its modification time tells, or, while the *)
(* length stays, not.                                                      *)
Spoil(m, f) ==
  /\ <<m, f>> \in Spoils \ count.spoiled
  /\ ~Alive(m)
  /\ final[m][f] # "none"
  /\ \/ /\ \E content \in {"edited", "cut"} :
             final' = [final EXCEPT ![m][f] = content]
        /\ listed' = [listed EXCEPT ![m] = @ \ {f}]
     \/ /\ final' = [final EXCEPT ![m][f] = "edited"]
        /\ UNCHANGED listed
  /\ unseen' = unseen \cup ({m} \cap verified)
  /\ count' = [count EXCEPT !.spoiled = @ \cup {<<m, f>>}]
  /\ UNCHANGED <<part, op, stopping, verified, waiter>>

-----------------------------------------------------------------------------
(* The thread of an operation.                                             *)

others == <<stopping, verified, unseen, waiter, count>>

EndsAs(m, status) ==
  op' = [op EXCEPT ![m] = [NoOperation EXCEPT !.kind = op[m].kind,
                             !.status = status, !.pc = "ending"]]

Goes(m, pc) == op' = [op EXCEPT ![m].pc = pc]

(* _check_canceled, before the step that takes the thread to pc.           *)
UnlessCanceled(m, pc) == Goes(m, IF op[m].cancel THEN "canceled" ELSE pc)

(* The file is recorded as installed, and the next one is looked at.       *)
RecordsFile(m) ==
  op' = [op EXCEPT ![m].at = @ + 1, ![m].pc = "next"]

Acquires(m) ==
  /\ op[m].pc = "queue" /\ Working = {}
  /\ UnlessCanceled(m, IF op[m].kind = "verify" THEN "verify" ELSE "next")
  /\ UNCHANGED <<disk, others>>

(* The head of the loop over the files, and its end.                       *)
NextFile(m) ==
  /\ op[m].pc = "next"
  /\ UnlessCanceled(m, IF op[m].at \in File(m) THEN "final" ELSE "write")
  /\ UNCHANGED <<disk, others>>

(* A file under its own name is verified, and if it passes it is kept.     *)
LooksAtFinal(m) ==
  /\ op[m].pc = "final"
  /\ Goes(m, IF final[m][op[m].at] = "none" THEN "part" ELSE "checkFinal")
  /\ UNCHANGED <<disk, others>>

(* A verification asks after every chunk; one canceled is handled like one *)
(* that failed: ModelDownloadCanceled is a ModelRegistryError.             *)
KeepsFinal(m) ==
  /\ op[m].pc = "checkFinal" /\ Passes(final[m][op[m].at])
  /\ RecordsFile(m)
  /\ UNCHANGED <<disk, others>>

RejectsFinal(m) ==
  /\ op[m].pc = "checkFinal"
  /\ op[m].cancel \/ ~Passes(final[m][op[m].at])
  /\ final' = [final EXCEPT ![m][op[m].at] = "none"]
  /\ listed' = [listed EXCEPT ![m] = @ \ {op[m].at}]
  /\ Goes(m, "part")
  /\ UNCHANGED <<part, others>>

(* A .part file of the full size is verified, a longer one is discarded.   *)
LooksAtPart(m) ==
  LET size == part[m][op[m].at].size IN
  /\ op[m].pc = "part"
  /\ Goes(m, IF size = Size THEN "checkPart" ELSE "open")
  /\ part' = IF size > Size THEN [part EXCEPT ![m][op[m].at] = NoPart] ELSE part
  /\ UNCHANGED <<final, listed, others>>

PartContent(m) == IF part[m][op[m].at].good THEN "good" ELSE "bad"

(* os.replace puts the verified .part file under the file's own name.      *)
InstallsPart(m) ==
  /\ op[m].pc \in {"checkPart", "checkNew"} /\ Passes(PartContent(m))
  /\ final' = [final EXCEPT ![m][op[m].at] = PartContent(m)]
  /\ part' = [part EXCEPT ![m][op[m].at] = NoPart]
  /\ listed' = [listed EXCEPT ![m] = @ \ {op[m].at}]
  /\ RecordsFile(m)
  /\ UNCHANGED others

RejectsPart(m) ==
  /\ op[m].pc \in {"checkPart", "checkNew"}
  /\ \/ op[m].cancel /\ Goes(m, IF op[m].pc = "checkPart" THEN "open" ELSE "canceled")
     \/ /\ ~Passes(PartContent(m))
        /\ Goes(m, IF op[m].pc = "checkPart" THEN "open" ELSE "failed")
  /\ part' = [part EXCEPT ![m][op[m].at] = NoPart]
  /\ UNCHANGED <<final, listed, others>>

(* The answer continues the .part file (206 to a Range request), starts it *)
(* anew (200), or is refused.                                              *)
Opens(m) ==
  LET old == part[m][op[m].at] IN
  /\ op[m].pc = "open"
  /\ \E new \in {IF old.size > 0 THEN old ELSE EmptyPart}
               \cup (IF "restart" \in Faults THEN {EmptyPart} ELSE {}) :
       part' = [part EXCEPT ![m][op[m].at] = new]
  /\ Goes(m, "read")
  /\ UNCHANGED <<final, listed, others>>

RequestFails(m) ==
  /\ op[m].pc \in {"open", "read"} /\ "refused" \in Faults
  /\ Goes(m, "failed")
  /\ UNCHANGED <<disk, others>>

(* A chunk is written; one that is too much discards the file.             *)
Reads(m) ==
  LET p == part[m][op[m].at] IN
  /\ op[m].pc = "read" /\ ~op[m].cancel
  /\ \E good \in {TRUE} \cup (IF "wrong" \in Faults THEN {FALSE} ELSE {}) :
       /\ p.size < Size \/ ~good
       /\ part' = [part EXCEPT ![m][op[m].at] =
                     IF p.size < Size
                     THEN [p EXCEPT !.size = @ + 1, !.good = @ /\ good] ELSE NoPart]
  /\ Goes(m, IF p.size < Size THEN "read" ELSE "failed")
  /\ UNCHANGED <<final, listed, others>>

(* The answer ends, where it should or before; the .part file stays.       *)
Closes(m) ==
  LET size == part[m][op[m].at].size IN
  /\ op[m].pc = "read"
  /\ op[m].cancel \/ size = Size \/ "cut" \in Faults
  /\ UnlessCanceled(m, IF size = Size THEN "checkNew" ELSE "failed")
  /\ UNCHANGED <<disk, others>>

(* A file that fails the verification of an installed model is discarded,  *)
(* and with it what the manifest says.                                     *)
Invalidated(m, f) == {f}

Discards(m, f) ==
  /\ final' = [final EXCEPT ![m] =
                 [g \in File(m) |-> IF g \in Invalidated(m, f) THEN "none" ELSE @[g]]]
  /\ listed' = [listed EXCEPT ![m] = {}]

VerifiesFile(m) ==
  /\ op[m].pc = "verify" /\ op[m].at \in File(m)
  /\ Passes(final[m][op[m].at]) /\ ~op[m].cancel
  /\ op' = [op EXCEPT ![m].at = @ + 1]
  /\ UNCHANGED <<disk, others>>

VerifyFails(m) ==
  /\ op[m].pc = "verify" /\ op[m].at \in File(m)
  /\ \/ /\ op[m].cancel /\ final[m][op[m].at] \notin {"none", "cut"}
        /\ Goes(m, "canceled")
        /\ UNCHANGED disk
     \/ /\ ~Passes(final[m][op[m].at])
        /\ Discards(m, op[m].at)
        /\ Goes(m, "failed")
        /\ UNCHANGED part
  /\ UNCHANGED others

VerifiesAll(m) ==
  /\ op[m].pc = "verify" /\ op[m].at \notin File(m)
  /\ Goes(m, "write")
  /\ UNCHANGED <<disk, others>>

(* write_registry_manifest: all files are listed, unless one is gone again.*)
WritesManifest(m) ==
  /\ op[m].pc = "write"
  /\ IF \A f \in File(m) : final[m][f] # "none"
     THEN listed' = [listed EXCEPT ![m] = File(m)] /\ Goes(m, "finish")
     ELSE Goes(m, "failed") /\ UNCHANGED listed
  /\ UNCHANGED <<final, part, others>>

Finishes(m) ==
  /\ op[m].pc = "finish"
  /\ EndsAs(m, "ready")
  /\ UNCHANGED <<disk, others>>

(* The semaphore is free before the status says how it ended.              *)
GivesUp(m) ==
  /\ op[m].pc \in {"canceled", "failed"}
  /\ EndsAs(m, op[m].pc)
  /\ UNCHANGED <<disk, others>>

Ends(m) ==
  /\ op[m].pc = "ending"
  /\ op' = [op EXCEPT ![m] = [NoOperation EXCEPT !.status = op[m].status]]
  /\ UNCHANGED <<disk, others>>

OperationStep(m) ==
  \/ Acquires(m) \/ NextFile(m) \/ LooksAtFinal(m) \/ KeepsFinal(m)
  \/ RejectsFinal(m) \/ LooksAtPart(m) \/ InstallsPart(m) \/ RejectsPart(m)
  \/ Opens(m) \/ RequestFails(m) \/ Reads(m) \/ Closes(m) \/ VerifiesFile(m)
  \/ VerifyFails(m) \/ VerifiesAll(m) \/ WritesManifest(m) \/ Finishes(m)
  \/ GivesUp(m) \/ Ends(m)

-----------------------------------------------------------------------------
(* The worker thread.                                                      *)

(* wait_for_model_ids starts what is missing; a refusal is not an error.   *)
Asks(m) ==
  /\ m \in Wanted /\ waiter.pc = "idle"
  /\ MayAsk
  /\ IF RuntimeReady(m) THEN UNCHANGED op ELSE Starts(Order[m], "download")
  /\ waiter' = [pc |-> "waits", model |-> m, at |-> 1]
  /\ UNCHANGED <<disk, stopping, verified, unseen>>

WaitFailures == {"canceled", "corrupt", "failed"}

(* A poll: everything is ready, or the model asked for has failed.         *)
Polls ==
  /\ waiter.pc = "waits"
  /\ \/ RuntimeReady(waiter.model) /\ waiter' = [waiter EXCEPT !.pc = "loads"]
     \/ /\ Shown(waiter.model) \in WaitFailures
        /\ waiter' = [waiter EXCEPT !.pc = "failed"]
  /\ UNCHANGED <<disk, op, stopping, verified, unseen, count>>

(* The task was paused or terminated.                                      *)
Leaves ==
  /\ waiter.pc = "waits"
  /\ waiter' = Idle
  /\ UNCHANGED <<disk, op, stopping, verified, unseen, count>>

(* A model verified once in this process is not verified again.            *)
AlreadyVerified(m) == m \in verified

(* require_ready, for the models of Order one after the other.             *)
Loads ==
  LET d    == Order[waiter.model][waiter.at]
      fail == waiter' = [waiter EXCEPT !.pc = "failed", !.at = 1]
      next == waiter' = [waiter EXCEPT !.at = @ + 1]
      bad  == {f \in File(d) : ~Passes(final[d][f])}
  IN
  /\ waiter.pc = "loads" /\ waiter.at <= Len(Order[waiter.model])
  /\ \/ ~RuntimeReady(d) /\ Starts(Order[d], "download") /\ fail
        /\ UNCHANGED <<disk, verified>>
     \/ RuntimeReady(d) /\ AlreadyVerified(d) /\ next
        /\ UNCHANGED <<disk, op, verified>>
     \/ /\ RuntimeReady(d) /\ ~AlreadyVerified(d) /\ bad = {}
        /\ listed' = [listed EXCEPT ![d] = File(d)]
        /\ verified' = verified \cup {d}
        /\ next
        /\ UNCHANGED <<final, part, op>>
     \/ /\ RuntimeReady(d) /\ ~AlreadyVerified(d)
        /\ \E f \in bad : (\A g \in bad : f <= g) /\ Discards(d, f)
        /\ fail
        /\ UNCHANGED <<part, op, verified>>
  /\ UNCHANGED <<stopping, unseen, count>>

Runs ==
  /\ waiter.pc = "loads" /\ waiter.at > Len(Order[waiter.model])
  /\ waiter' = [waiter EXCEPT !.pc = "runs"]
  /\ UNCHANGED <<disk, op, stopping, verified, unseen, count>>

ComponentEnds ==
  /\ waiter.pc \in {"runs", "failed"}
  /\ waiter' = Idle
  /\ UNCHANGED <<disk, op, stopping, verified, unseen, count>>

Next ==
  \/ \E m \in Model : \/ StartDownload(m) \/ StartVerify(m) \/ Cancel(m)
                      \/ OperationStep(m) \/ Asks(m)
                      \/ \E f \in File(m) : Spoil(m, f)
  \/ Shutdown \/ Restart
  \/ Polls \/ Leaves \/ Loads \/ Runs \/ ComponentEnds

Spec == Init /\ [][Next]_vars

(* Threads run and requests are answered or time out (request_timeout); the*)
(* worker goes on polling; a backend that shuts down ends.                 *)
Fairness ==
  /\ \A m \in Model : WF_vars(OperationStep(m))
  /\ WF_vars(Polls \/ Loads \/ Runs)
  /\ WF_vars(stopping /\ Restart)

FairSpec == Spec /\ Fairness

-----------------------------------------------------------------------------
(* Whatever the server sends, wherever a download is canceled, killed and  *)
(* resumed: bytes other than the registered ones never get under a file's  *)
(* own name, and a model is shown as ready only with all its files there.  *)
InstalledWhole ==
  \A m \in Model :
    /\ \A f \in File(m) : final[m][f] # "bad"
    /\ Shown(m) = "ready" => \A f \in File(m) : final[m][f] \in {"good", "edited"}

(* What a step may cost: a good file, or a good part of one.               *)
CanceledAt(m) == op[m].cancel /\ op[m].pc \in {"checkFinal", "checkPart", "checkNew"}

FinalKept(m, f) ==
  final[m][f] = "good" =>
    final'[m][f] = "good" \/ CanceledAt(m) \/ count'.spoiled # count.spoiled

PartKept(m, f) ==
  LET p == part[m][f] IN
  (p.here /\ p.good /\ part'[m][f].size < p.size) =>
    \/ final'[m][f] = "good" \/ CanceledAt(m)
    \/ op[m].pc = "open" \/ (op[m].pc = "read" /\ p.size = Size)

Kept == \A m \in Model : \A f \in File(m) : FinalKept(m, f) /\ PartKept(m, f)

(* Good bytes are given up only when the server starts the file anew or    *)
(* sends more than the file has, or when an operation is canceled while it *)
(* verifies them: neither a failed request, nor a verification that finds  *)
(* another file bad, nor a restart costs a file or a part of one.          *)
DownloadedKept == [][Kept]_vars

(* The inference that gets the models' paths finds the registered bytes,   *)
(* unless they were changed after this process had verified them: a        *)
(* manifest of an earlier process is not believed.                         *)
RunsOnWhole ==
  waiter.pc = "runs" =>
    \A m \in ToSet(Order[waiter.model]) \ unseen :
      \A f \in File(m) : final[m][f] = "good"

(* The exceptions to WaitEnds: a dependency of the model is lost, the model*)
(* was not even started because a dependency was refused, or it was changed*)
(* by others while the worker waits; nothing of this is looked at.         *)
Overlooked ==
  LET m == waiter.model IN
  \/ \E d \in ToSet(Order[m]) \ {m} : ~Alive(d) /\ Shown(d) # "ready"
  \/ op[m].status = "none" /\ Shown(m) # "ready"
  \/ Shown(m) = "verification_required"

(* A worker that waits for a model gets it or is told that it will not,    *)
(* however its operation ends.                                             *)
WaitEnds == (waiter.pc = "waits") ~> (waiter.pc # "waits" \/ Overlooked)
=============================================================================
