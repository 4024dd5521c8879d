---------------------------- MODULE DownloadProofs ----------------------------
(***************************************************************************)
(* What ModelDownloads keeps of the bytes, for any models, files, orders of*)
(* dependencies, faults and bounds: type correctness, that no other bytes  *)
(* than the registered ones are installed, that the inference runs on them,*)
(* and that good bytes are not given up.                                   *)
(***************************************************************************)
EXTENDS ModelDownloads, TLAPS

(* The places where the thread holds the file at, and where a verification *)
(* can be.                                                                 *)
FilePlace == {"final", "checkFinal", "part", "checkPart", "open", "read", "close",
              "checkNew"}
VerifyPlace == {"queue", "verify", "write", "finish", "canceled", "failed", "ending",
                "none"}
Over == {"ending", "none"}

(* No bytes but the registered ones were installed, and no .part file grew *)
(* longer than its file.                                                   *)
FilesSound(m) ==
  /\ final[m] \in [File(m) -> Content]
  /\ part[m] \in [File(m) -> Part]
  /\ listed[m] \subseteq File(m)
  /\ \A f \in File(m) : final[m][f] # "bad" /\ part[m][f].size <= Size

(* The status of an operation, its kind and its place agree.               *)
OperationSound(m) ==
  /\ (op[m].status = "active") <=> (op[m].pc \notin Over)
  /\ op[m].kind = "verify" => op[m].pc \in VerifyPlace
  /\ op[m].pc \in FilePlace => op[m].at \in File(m)

(* A model verified in this process has its files, all of them listed, and *)
(* as long as it is so no download of it gets past its start: DiskStatus is*)
(* "ready" then.  Others may change it later; that is what unseen is for.  *)
Settled(m) ==
  /\ \A f \in File(m) : final[m][f] = "good"
  /\ listed[m] = File(m)
  /\ op[m].kind = "download" => op[m].pc \in Over

VerifiedSound(m) == m \in verified \ unseen => Settled(m)

(* The worker has verified the models it is past.                          *)
WaiterSound ==
  /\ waiter.at # 0
  /\ waiter.pc = "waits" => waiter.at = 1
  /\ waiter.pc = "loads" =>
       \A k \in DOMAIN Order[waiter.model] :
         k < waiter.at => Order[waiter.model][k] \in verified
  /\ waiter.pc = "runs" => ToSet(Order[waiter.model]) \subseteq verified

(* RunsOnWhole alone is not inductive: it needs to know what every verified*)
(* model has and what threads are doing to it.                             *)
IInv ==
  /\ TypeOK
  /\ DOMAIN final = Model /\ DOMAIN part = Model /\ DOMAIN listed = Model
  /\ \A m \in Model : FilesSound(m) /\ OperationSound(m) /\ VerifiedSound(m)
  /\ WaiterSound

(* The last two parts of TypeOK.                                           *)
WaiterTyped ==
  waiter \in [pc : {"idle", "waits", "loads", "runs", "failed"}, model : Model, at : Nat]
CountTyped ==
  count \in [request : 0..MaxRequest, restart : 0..MaxRestart, spoiled : SUBSET Spoils]

-----------------------------------------------------------------------------
(* The operators of the model.                                             *)

LEMMA OwnModel == \A m \in Model : m \in ToSet(Order[m])
BY OrderAssumption DEF ToSet, Last

LEMMA OneFile == \A m \in Model : 1 \in File(m) /\ File(m) \subseteq Nat
BY FilesAssumption DEF File

LEMMA IdleType ==
  Idle \in [pc : {"idle", "waits", "loads", "runs", "failed"}, model : Model, at : Nat]
BY WantedAssumption DEF Idle

LEMMA NoOperationType ==
  /\ NoOperation \in Operation
  /\ NoOperation.pc = "none" /\ NoOperation.status = "none"
  /\ NoOperation.kind = "download" /\ NoOperation.at = 1 /\ ~NoOperation.cancel
BY DEF NoOperation, Operation, Place

LEMMA PartKinds ==
  /\ NoPart \in Part /\ NoPart.size = 0 /\ NoPart.good
  /\ EmptyPart \in Part /\ EmptyPart.size = 0 /\ EmptyPart.good
<1>1. NoPart \in Part /\ NoPart.size = 0 /\ NoPart.good
  BY SizeAssumption DEF NoPart, Part
<1>2. EmptyPart \in Part /\ EmptyPart.size = 0 /\ EmptyPart.good
  <2>1. EmptyPart \in Part
    BY <1>1 DEF EmptyPart, Part
  <2>2. EmptyPart.size = NoPart.size /\ EmptyPart.good = NoPart.good
    BY <1>1 DEF EmptyPart, Part
  <2> QED
    BY <1>1, <2>1, <2>2
<1> QED
  BY <1>1, <1>2

(* A model whose files are all there and listed needs no download, and one *)
(* shown as ready has no thread at work.                                   *)
LEMMA SettledIsReady ==
  ASSUME NEW m \in Model, Settled(m)
  PROVE  DiskStatus(m) = "ready"
<1>1. ASSUME NEW f \in File(m) PROVE FileState(m, f) = "ready"
  <2>1. final[m][f] = "good" /\ f \in listed[m]
    BY DEF Settled
  <2> QED
    BY <2>1 DEF FileState
<1>2. {FileState(m, f) : f \in File(m)} = {"ready"}
  BY <1>1, OneFile
<1> QED
  BY <1>2 DEF DiskStatus

LEMMA ReadyIsWhole ==
  ASSUME IInv, NEW m \in Model, Shown(m) = "ready"
  PROVE  /\ op[m].pc \in Over
         /\ \A f \in File(m) : final[m][f] \in {"good", "edited"} /\ f \in listed[m]
<1>1. op[m].status \in {"none", "ready"} /\ DiskStatus(m) = "ready"
  BY DEF Shown, IInv
<1>2. {FileState(m, f) : f \in File(m)} = {"ready"}
  BY <1>1 DEF DiskStatus
<1>3. ASSUME NEW f \in File(m)
      PROVE  final[m][f] \in {"good", "edited"} /\ f \in listed[m]
  <2>1. FileState(m, f) = "ready"
    BY <1>2
  <2>2. final[m][f] \in Content \ {"bad"}
    BY DEF IInv, FilesSound
  <2> QED
    BY <2>1, <2>2 DEF FileState, Content
<1> QED
  BY <1>1, <1>3 DEF IInv, OperationSound

-----------------------------------------------------------------------------
(* Steps in general.                                                       *)

(* Everything but the rows of m stays.                                     *)
RowsOf(m) ==
  \A k \in Model \ {m} :
    final'[k] = final[k] /\ part'[k] = part[k] /\ listed'[k] = listed[k] /\ op'[k] = op[k]

Domains ==
  /\ DOMAIN final' = Model /\ DOMAIN part' = Model /\ DOMAIN listed' = Model
  /\ op' \in [Model -> Operation]

ModelSound(m) == FilesSound(m) /\ OperationSound(m) /\ VerifiedSound(m)

(* A step of the thread of m.                                              *)
LEMMA ThreadStep ==
  ASSUME IInv, NEW m \in Model, Domains, RowsOf(m), ModelSound(m)',
         UNCHANGED others
  PROVE  IInv'
<1>1. ASSUME NEW k \in Model \ {m} PROVE ModelSound(k)'
  BY DEF IInv, ModelSound, FilesSound, OperationSound, VerifiedSound, Settled, RowsOf, others
<1>2. \A k \in Model : ModelSound(k)'
  BY <1>1
<1>3. TypeOK'
  BY <1>2 DEF IInv, TypeOK, Domains, ModelSound, FilesSound, others
<1>4. WaiterSound'
  BY DEF IInv, WaiterSound, others
<1> QED
  BY <1>2, <1>3, <1>4 DEF IInv, Domains, ModelSound

(* A thread goes on.                                                       *)
LEMMA GoesRow ==
  ASSUME IInv, NEW m \in Model, NEW pc \in Place, Goes(m, pc)
  PROVE  /\ op' \in [Model -> Operation]
         /\ \A k \in Model \ {m} : op'[k] = op[k]
         /\ op'[m].kind = op[m].kind /\ op'[m].status = op[m].status
         /\ op'[m].cancel = op[m].cancel /\ op'[m].at = op[m].at /\ op'[m].pc = pc
<1>1. op \in [Model -> Operation] /\ op' = [op EXCEPT ![m].pc = pc]
  BY DEF IInv, TypeOK, Goes
<1>2. [op[m] EXCEPT !.pc = pc] \in Operation
  BY <1>1 DEF Operation
<1>3. op'[m] = [op[m] EXCEPT !.pc = pc]
  BY <1>1
<1>4. \A k \in Model \ {m} : op'[k] = op[k]
  BY <1>1
<1>5. op' \in [Model -> Operation]
  BY <1>1, <1>2
<1> QED
  BY <1>1, <1>3, <1>4, <1>5 DEF Operation

(* It goes on to a place fit for its kind, whatever it did to files of a   *)
(* download that was not verified.                                         *)
LEMMA GoesSound ==
  ASSUME IInv, NEW m \in Model, NEW pc \in Place, Goes(m, pc),
         op[m].pc \notin Over, pc \notin Over,
         op[m].kind = "verify" => pc \in VerifyPlace,
         pc \in FilePlace => op[m].at \in File(m)
  PROVE  OperationSound(m)'
BY GoesRow DEF IInv, OperationSound, File

(* While a thread works on the files of a model to download it, the model  *)
(* is not settled.                                                         *)
LEMMA DownloadUnsettles ==
  ASSUME IInv, NEW m \in Model, op[m].pc \in FilePlace \cup {"next"}
  PROVE  m \notin verified \ unseen /\ op[m].kind = "download"
<1>1. op[m].kind = "download"
  BY DEF IInv, TypeOK, Operation, OperationSound, FilePlace, VerifyPlace
<1> QED
  BY <1>1 DEF IInv, VerifiedSound, Settled, FilePlace, Over

(* Steps that move the thread and nothing else.                            *)
LEMMA JustGoes ==
  ASSUME IInv, NEW m \in Model, NEW pc \in Place, Goes(m, pc),
         op[m].pc \notin Over, pc \notin Over,
         op[m].kind = "verify" => pc \in VerifyPlace,
         pc \in FilePlace => op[m].at \in File(m),
         UNCHANGED <<disk, others>>
  PROVE  IInv'
<1>1. Domains /\ RowsOf(m)
  BY GoesRow DEF IInv, TypeOK, Domains, RowsOf, disk
<1>2. FilesSound(m)'
  BY DEF IInv, FilesSound, disk, File
<1>3. VerifiedSound(m)'
  BY GoesRow DEF IInv, VerifiedSound, Settled, disk, others, File
<1> QED
  BY <1>1, <1>2, <1>3, GoesSound, ThreadStep DEF ModelSound, others

(* Changes of the files of one model.                                      *)
LEMMA FinalRow ==
  ASSUME IInv, NEW m \in Model, NEW f \in File(m), NEW content \in Content,
         final' = [final EXCEPT ![m][f] = content]
  PROVE  /\ DOMAIN final' = Model
         /\ \A k \in Model \ {m} : final'[k] = final[k]
         /\ final'[m] \in [File(m) -> Content]
         /\ final'[m][f] = content
         /\ \A g \in File(m) \ {f} : final'[m][g] = final[m][g]
<1>1. DOMAIN final = Model /\ final[m] \in [File(m) -> Content]
  BY DEF IInv, FilesSound
<1>2. final'[m] = [final[m] EXCEPT ![f] = content]
  BY <1>1
<1> QED
  BY <1>1, <1>2

LEMMA PartRow ==
  ASSUME IInv, NEW m \in Model, NEW f \in File(m), NEW p \in Part,
         part' = [part EXCEPT ![m][f] = p]
  PROVE  /\ DOMAIN part' = Model
         /\ \A k \in Model \ {m} : part'[k] = part[k]
         /\ part'[m] \in [File(m) -> Part]
         /\ part'[m][f] = p
         /\ \A g \in File(m) \ {f} : part'[m][g] = part[m][g]
<1>1. DOMAIN part = Model /\ part[m] \in [File(m) -> Part]
  BY DEF IInv, FilesSound
<1>2. part'[m] = [part[m] EXCEPT ![f] = p]
  BY <1>1
<1> QED
  BY <1>1, <1>2

LEMMA ListedRow ==
  ASSUME IInv, NEW m \in Model, NEW S \in SUBSET File(m),
         listed' = [listed EXCEPT ![m] = S]
  PROVE  /\ DOMAIN listed' = Model
         /\ \A k \in Model \ {m} : listed'[k] = listed[k]
         /\ listed'[m] = S
BY DEF IInv

LEMMA ListedShrinks ==
  ASSUME IInv, NEW m \in Model, NEW f,
         listed' = [listed EXCEPT ![m] = @ \ {f}]
  PROVE  /\ DOMAIN listed' = Model
         /\ \A k \in Model \ {m} : listed'[k] = listed[k]
         /\ listed'[m] = listed[m] \ {f}
BY DEF IInv

(* A download at work on a file.                                           *)
LEMMA FileStep ==
  ASSUME IInv, NEW m \in Model, op[m].pc \in FilePlace,
         Domains, RowsOf(m), FilesSound(m)', OperationSound(m)', UNCHANGED others
  PROVE  IInv'
<1>1. VerifiedSound(m)'
  BY DownloadUnsettles DEF VerifiedSound, others
<1> QED
  BY <1>1, ThreadStep DEF ModelSound

LEMMA Places ==
  /\ FilePlace \cup VerifyPlace \cup {"next"} \subseteq Place
  /\ FilePlace \cap Over = {} /\ {"queue", "next", "verify", "write"} \cap Over = {}
  /\ {"finish", "canceled", "failed"} \cap Over = {}
BY DEF FilePlace, VerifyPlace, Place, Over

(* RecordsFile: the thread goes back to the head of the loop.              *)
LEMMA RecordsRow ==
  ASSUME IInv, NEW m \in Model, op[m].pc \in FilePlace, RecordsFile(m)
  PROVE  /\ op' \in [Model -> Operation]
         /\ \A k \in Model \ {m} : op'[k] = op[k]
         /\ OperationSound(m)'
<1>1. op \in [Model -> Operation]
  BY DEF IInv, TypeOK
<1>2. PICK o : o = [op[m] EXCEPT !.at = @ + 1, !.pc = "next"]
  OBVIOUS
<1>3. o \in Operation
  <2>1. op[m] \in Operation /\ op[m].at + 1 \in Nat /\ "next" \in Place
    BY <1>1, Places DEF Operation
  <2> QED
    BY <2>1, <1>2 DEF Operation
<1>4. op' = [op EXCEPT ![m] = o]
  BY <1>1, <1>2 DEF RecordsFile
<1>5. o.pc = "next" /\ o.status = op[m].status /\ o.kind = op[m].kind
  BY <1>1, <1>2 DEF Operation
<1>6. op'[m] = o
  BY <1>1, <1>4
<1>7. op[m].status = "active" /\ op[m].kind = "download"
  BY DownloadUnsettles, Places DEF IInv, OperationSound
<1>8. OperationSound(m)'
  BY <1>5, <1>6, <1>7, Places DEF OperationSound, FilePlace
<1> QED
  BY <1>1, <1>3, <1>4, <1>8

-----------------------------------------------------------------------------
(* The steps of a thread, one by one.                                      *)

LEMMA AcquiresSound ==
  ASSUME IInv, NEW m \in Model, Acquires(m)
  PROVE  IInv'
<1> PICK pc : pc = IF op[m].cancel THEN "canceled"
                   ELSE IF op[m].kind = "verify" THEN "verify" ELSE "next"
  OBVIOUS
<1>1. Goes(m, pc)
  BY DEF Acquires, UnlessCanceled
<1>2. pc \in Place \ (Over \cup FilePlace) /\ (op[m].kind = "verify" => pc \in VerifyPlace)
  BY DEF Place, Over, FilePlace, VerifyPlace
<1>3. op[m].pc \notin Over
  BY DEF Acquires, Over
<1> QED
  BY <1>1, <1>2, <1>3, JustGoes DEF Acquires

LEMMA NextFileSound ==
  ASSUME IInv, NEW m \in Model, NextFile(m)
  PROVE  IInv'
<1> PICK pc : pc = IF op[m].cancel THEN "canceled"
                   ELSE IF op[m].at \in File(m) THEN "final" ELSE "write"
  OBVIOUS
<1>1. Goes(m, pc)
  BY DEF NextFile, UnlessCanceled
<1>2. pc \in Place \ Over /\ (pc \in FilePlace => op[m].at \in File(m))
  BY DEF Place, Over, FilePlace
<1>3. op[m].pc = "next" /\ op[m].pc \notin Over
  BY DEF NextFile, Over
<1>4. op[m].kind # "verify"
  BY <1>3, DownloadUnsettles
<1> QED
  BY <1>1, <1>2, <1>3, <1>4, JustGoes DEF NextFile

(* Between places that hold a file.                                        *)
LEMMA FileGoes ==
  ASSUME IInv, NEW m \in Model, op[m].pc \in FilePlace,
         NEW pc \in FilePlace \cup {"failed", "canceled"}, Goes(m, pc)
  PROVE  /\ op' \in [Model -> Operation]
         /\ \A k \in Model \ {m} : op'[k] = op[k]
         /\ OperationSound(m)'
         /\ op[m].at \in File(m)
<1>1. pc \in Place /\ op[m].pc \notin Over /\ pc \notin Over
  BY DEF FilePlace, Place, Over
<1>2. op[m].kind # "verify" /\ op[m].at \in File(m)
  BY DownloadUnsettles DEF IInv, OperationSound
<1> QED
  BY <1>1, <1>2, GoesRow, GoesSound

LEMMA JustFileGoes ==
  ASSUME IInv, NEW m \in Model, op[m].pc \in FilePlace,
         NEW pc \in FilePlace \cup {"failed", "canceled"}, Goes(m, pc),
         UNCHANGED <<disk, others>>
  PROVE  IInv'
<1>1. pc \in Place /\ op[m].pc \notin Over /\ pc \notin Over
  BY DEF FilePlace, Place, Over
<1>2. op[m].kind # "verify" /\ op[m].at \in File(m)
  BY DownloadUnsettles DEF IInv, OperationSound
<1> QED
  BY <1>1, <1>2, JustGoes

LEMMA LooksAtFinalSound ==
  ASSUME IInv, NEW m \in Model, LooksAtFinal(m)
  PROVE  IInv'
<1> PICK pc : pc = IF final[m][op[m].at] = "none" THEN "part" ELSE "checkFinal"
  OBVIOUS
<1>1. pc \in FilePlace /\ op[m].pc \in FilePlace /\ Goes(m, pc)
  BY DEF LooksAtFinal, FilePlace
<1> QED
  BY <1>1, JustFileGoes DEF LooksAtFinal

LEMMA KeepsFinalSound ==
  ASSUME IInv, NEW m \in Model, KeepsFinal(m)
  PROVE  IInv'
<1>1. op[m].pc \in FilePlace /\ RecordsFile(m) /\ UNCHANGED <<disk, others>>
  BY DEF KeepsFinal, FilePlace
<1>2. Domains /\ RowsOf(m)
  BY <1>1, RecordsRow DEF IInv, Domains, RowsOf, disk
<1>3. FilesSound(m)'
  BY <1>1 DEF IInv, FilesSound, disk, File
<1> QED
  BY <1>1, <1>2, <1>3, RecordsRow, FileStep

LEMMA RejectsFinalSound ==
  ASSUME IInv, NEW m \in Model, RejectsFinal(m)
  PROVE  IInv'
<1>1. /\ op[m].pc \in FilePlace /\ Goes(m, "part") /\ "part" \in FilePlace
      /\ part' = part /\ UNCHANGED others
  BY DEF RejectsFinal, FilePlace
<1>2. op[m].at \in File(m)
  BY <1>1, FileGoes
<1>3. "none" \in Content
  BY DEF Content
<1>4. /\ final' = [final EXCEPT ![m][op[m].at] = "none"]
      /\ listed' = [listed EXCEPT ![m] = @ \ {op[m].at}]
  BY DEF RejectsFinal
<1>5. Domains /\ RowsOf(m)
  BY <1>1, <1>2, <1>3, <1>4, FileGoes, FinalRow, ListedShrinks DEF IInv, Domains, RowsOf
<1>6. FilesSound(m)'
  BY <1>1, <1>2, <1>3, <1>4, FinalRow, ListedShrinks DEF IInv, FilesSound, File
<1> QED
  BY <1>1, <1>5, <1>6, FileGoes, FileStep

LEMMA LooksAtPartSound ==
  ASSUME IInv, NEW m \in Model, LooksAtPart(m)
  PROVE  IInv'
<1> PICK f : f = op[m].at
  OBVIOUS
<1> PICK pc : pc = IF part[m][f].size = Size THEN "checkPart" ELSE "open"
  OBVIOUS
<1>1. /\ op[m].pc \in FilePlace /\ pc \in FilePlace /\ Goes(m, pc)
      /\ UNCHANGED <<final, listed>> /\ UNCHANGED others
  BY DEF LooksAtPart, FilePlace
<1>2. f \in File(m)
  BY <1>1, FileGoes
<1>3. ~(part[m][f].size > Size)
  BY <1>2, SizeAssumption DEF IInv, FilesSound, Part
<1>4. UNCHANGED disk
  BY <1>1, <1>3 DEF LooksAtPart, disk
<1> QED
  BY <1>1, <1>4, JustFileGoes

LEMMA PassingPart ==
  ASSUME NEW m, Passes(PartContent(m))
  PROVE  PartContent(m) = "good" /\ part[m][op[m].at].good
BY DEF Passes, PartContent

LEMMA InstallsPartSound ==
  ASSUME IInv, NEW m \in Model, InstallsPart(m)
  PROVE  IInv'
<1>1. op[m].pc \in FilePlace /\ RecordsFile(m) /\ UNCHANGED others
  BY DEF InstallsPart, FilePlace
<1> PICK f : f = op[m].at
  OBVIOUS
<1>2. f \in File(m)
  BY <1>1 DEF IInv, OperationSound
<1>3. "good" \in Content
  BY DEF Content
<1>4. /\ final' = [final EXCEPT ![m][f] = "good"]
      /\ part' = [part EXCEPT ![m][f] = NoPart]
      /\ listed' = [listed EXCEPT ![m] = @ \ {f}]
  BY PassingPart DEF InstallsPart
<1>5. Domains /\ RowsOf(m)
  <2>1. op' \in [Model -> Operation] /\ \A k \in Model \ {m} : op'[k] = op[k]
    BY <1>1, RecordsRow
  <2>2. DOMAIN final' = Model /\ \A k \in Model \ {m} : final'[k] = final[k]
    BY <1>2, <1>3, <1>4, FinalRow
  <2>3. DOMAIN part' = Model /\ \A k \in Model \ {m} : part'[k] = part[k]
    BY <1>2, <1>4, PartKinds, PartRow
  <2>4. DOMAIN listed' = Model /\ \A k \in Model \ {m} : listed'[k] = listed[k]
    BY <1>4, ListedShrinks
  <2> QED
    BY <2>1, <2>2, <2>3, <2>4 DEF Domains, RowsOf
<1>6. FilesSound(m)'
  <2>1. /\ final'[m] \in [File(m) -> Content] /\ part'[m] \in [File(m) -> Part]
        /\ listed'[m] = listed[m] \ {f}
    BY <1>2, <1>3, <1>4, FinalRow, PartRow, PartKinds, ListedShrinks
  <2>2. ASSUME NEW g \in File(m)
        PROVE  final'[m][g] # "bad" /\ part'[m][g].size <= Size
    BY <1>2, <1>3, <1>4, FinalRow, PartRow, PartKinds, SizeAssumption DEF IInv, FilesSound
  <2> QED
    BY <2>1, <2>2 DEF IInv, FilesSound, File
<1> QED
  BY <1>1, <1>5, <1>6, RecordsRow, FileStep

(* Steps that write the .part file.                                        *)
LEMMA PartStep ==
  ASSUME IInv, NEW m \in Model, op[m].pc \in FilePlace,
         NEW pc \in FilePlace \cup {"failed", "canceled"}, Goes(m, pc),
         NEW p \in Part, p.size <= Size, part' = [part EXCEPT ![m][op[m].at] = p],
         UNCHANGED <<final, listed>>, UNCHANGED others
  PROVE  IInv'
<1> PICK f : f = op[m].at
  OBVIOUS
<1>1. f \in File(m)
  BY FileGoes
<1>2. Domains /\ RowsOf(m)
  BY <1>1, FileGoes, PartRow DEF IInv, Domains, RowsOf
<1>3. FilesSound(m)'
  <2>1. part'[m] \in [File(m) -> Part]
    BY <1>1, PartRow
  <2>2. ASSUME NEW g \in File(m) PROVE part'[m][g].size <= Size
    BY <1>1, PartRow DEF IInv, FilesSound
  <2> QED
    BY <2>1, <2>2 DEF IInv, FilesSound, File
<1> QED
  BY <1>2, <1>3, FileGoes, FileStep

LEMMA RejectsPartSound ==
  ASSUME IInv, NEW m \in Model, RejectsPart(m)
  PROVE  IInv'
<1>1. /\ op[m].pc \in FilePlace
      /\ part' = [part EXCEPT ![m][op[m].at] = NoPart]
      /\ UNCHANGED <<final, listed>> /\ UNCHANGED others
  BY DEF RejectsPart, FilePlace
<1>2. PICK pc \in FilePlace \cup {"failed", "canceled"} : Goes(m, pc)
  BY DEF RejectsPart, FilePlace
<1>3. NoPart \in Part /\ NoPart.size <= Size
  BY PartKinds, SizeAssumption
<1> QED
  BY <1>1, <1>2, <1>3, PartStep

LEMMA OpensSound ==
  ASSUME IInv, NEW m \in Model, Opens(m)
  PROVE  IInv'
<1>1. /\ op[m].pc \in FilePlace /\ Goes(m, "read") /\ "read" \in FilePlace
      /\ UNCHANGED <<final, listed>> /\ UNCHANGED others
  BY DEF Opens, FilePlace
<1>2. op[m].at \in File(m)
  BY <1>1, FileGoes
<1>3. PICK p \in {part[m][op[m].at], EmptyPart} : part' = [part EXCEPT ![m][op[m].at] = p]
  BY DEF Opens
<1>4. p \in Part /\ p.size <= Size
  BY <1>2, PartKinds, SizeAssumption DEF IInv, FilesSound
<1> QED
  BY <1>1, <1>3, <1>4, PartStep

(* A chunk more, which spoils the file if it is not the right one.         *)
LEMMA ReadsSound ==
  ASSUME IInv, NEW m \in Model, Reads(m)
  PROVE  IInv'
<1> PICK f : f = op[m].at
  OBVIOUS
<1> PICK old : old = part[m][f]
  OBVIOUS
<1>0. op[m].pc \in FilePlace /\ UNCHANGED <<final, listed>> /\ UNCHANGED others
  BY DEF Reads, FilePlace
<1>1. PICK pc \in FilePlace \cup {"failed", "canceled"} : Goes(m, pc)
  BY DEF Reads, FilePlace
<1>2. f \in File(m)
  BY <1>0 DEF IInv, OperationSound
<1>3. old \in Part /\ old.size <= Size
  BY <1>2 DEF IInv, FilesSound
<1>4. PICK good \in BOOLEAN :
        part' = [part EXCEPT ![m][f] =
                   IF old.size < Size
                   THEN [old EXCEPT !.size = @ + 1, !.good = @ /\ good] ELSE NoPart]
  BY DEF Reads
<1>5. CASE old.size < Size
  <2> PICK p : p = [old EXCEPT !.size = @ + 1, !.good = @ /\ good]
    OBVIOUS
  <2>1. old.size + 1 \in 0..Size + 1 /\ old.size + 1 <= Size /\ (old.good /\ good) \in BOOLEAN
    BY <1>3, <1>5, SizeAssumption DEF Part
  <2>2. p \in Part /\ p.size = old.size + 1
    BY <1>3, <2>1 DEF Part
  <2>3. part' = [part EXCEPT ![m][op[m].at] = p]
    BY <1>4, <1>5
  <2>4. p.size <= Size
    BY <2>1, <2>2
  <2> QED
    BY <1>0, <1>1, <2>2, <2>3, <2>4, PartStep
<1>6. CASE ~(old.size < Size)
  <2>1. part' = [part EXCEPT ![m][op[m].at] = NoPart]
    BY <1>4, <1>6
  <2>2. NoPart \in Part /\ NoPart.size <= Size
    BY PartKinds, SizeAssumption
  <2> QED
    BY <1>0, <1>1, <2>1, <2>2, PartStep
<1> QED
  BY <1>5, <1>6

LEMMA RequestFailsSound ==
  ASSUME IInv, NEW m \in Model, RequestFails(m)
  PROVE  IInv'
<1>1. op[m].pc \in FilePlace /\ Goes(m, "failed") /\ UNCHANGED <<disk, others>>
  BY DEF RequestFails, FilePlace
<1> QED
  BY <1>1, JustFileGoes

LEMMA ClosesSound ==
  ASSUME IInv, NEW m \in Model, Closes(m)
  PROVE  IInv'
<1> PICK pc : pc = IF op[m].cancel THEN "canceled"
                   ELSE IF part[m][op[m].at].size = Size THEN "checkNew" ELSE "failed"
  OBVIOUS
<1>1. /\ op[m].pc \in FilePlace /\ Goes(m, pc) /\ UNCHANGED <<disk, others>>
      /\ pc \in FilePlace \cup {"failed", "canceled"}
  BY DEF Closes, UnlessCanceled, FilePlace
<1> QED
  BY <1>1, JustFileGoes

(* The thread of a verification.                                           *)
LEMMA VerifiesFileSound ==
  ASSUME IInv, NEW m \in Model, VerifiesFile(m)
  PROVE  IInv'
<1>1. op \in [Model -> Operation] /\ op[m].pc = "verify" /\ op[m].at + 1 \in Nat
  BY DEF VerifiesFile, IInv, TypeOK, Operation
<1> PICK o : o = [op[m] EXCEPT !.at = @ + 1]
  OBVIOUS
<1>2. o \in Operation /\ o.pc = "verify" /\ o.status = op[m].status /\ o.kind = op[m].kind
  BY <1>1 DEF Operation
<1>3. op' = [op EXCEPT ![m] = o] /\ UNCHANGED <<disk, others>>
  BY <1>1 DEF VerifiesFile
<1>4. op'[m] = o /\ op' \in [Model -> Operation] /\ \A k \in Model \ {m} : op'[k] = op[k]
  BY <1>1, <1>2, <1>3
<1>5. Domains /\ RowsOf(m)
  BY <1>3, <1>4 DEF IInv, Domains, RowsOf, disk
<1>6. FilesSound(m)'
  BY <1>3 DEF IInv, FilesSound, disk, File
<1>7. OperationSound(m)'
  BY <1>1, <1>2, <1>4 DEF IInv, OperationSound, FilePlace
<1>8. VerifiedSound(m)'
  BY <1>1, <1>2, <1>3, <1>4 DEF IInv, VerifiedSound, Settled, Over, disk, others, File
<1> QED
  BY <1>3, <1>5, <1>6, <1>7, <1>8, ThreadStep DEF ModelSound, others

(* Discarding one file, which was not a good one.                          *)
LEMMA DiscardsRow ==
  ASSUME IInv, NEW m \in Model, NEW f \in File(m), Discards(m, f)
  PROVE  /\ DOMAIN final' = Model /\ DOMAIN listed' = Model
         /\ \A k \in Model \ {m} : final'[k] = final[k] /\ listed'[k] = listed[k]
         /\ final'[m] \in [File(m) -> Content] /\ listed'[m] = {}
         /\ final'[m][f] = "none"
         /\ \A g \in File(m) \ {f} : final'[m][g] = final[m][g]
<1>1. DOMAIN final = Model /\ final[m] \in [File(m) -> Content] /\ "none" \in Content
  BY DEF IInv, FilesSound, Content
<1>2. final' = [final EXCEPT ![m] =
                  [g \in File(m) |-> IF g = f THEN "none" ELSE final[m][g]]]
  BY DEF Discards, Invalidated
<1>3. final'[m] = [g \in File(m) |-> IF g = f THEN "none" ELSE final[m][g]]
  BY <1>1, <1>2
<1>4. DOMAIN final' = Model /\ \A k \in Model \ {m} : final'[k] = final[k]
  BY <1>1, <1>2
<1>5. final'[m] \in [File(m) -> Content]
  BY <1>1, <1>3
<1>6. listed' = [listed EXCEPT ![m] = {}]
  BY DEF Discards
<1> QED
  BY <1>3, <1>4, <1>5, <1>6 DEF IInv

LEMMA DiscardsSound ==
  ASSUME IInv, NEW m \in Model, NEW f \in File(m), Discards(m, f), UNCHANGED part
  PROVE  FilesSound(m)'
BY DiscardsRow DEF IInv, FilesSound, File

LEMMA BadUnsettles ==
  ASSUME IInv, NEW m \in Model, NEW f \in File(m), ~Passes(final[m][f])
  PROVE  m \notin verified \ unseen
BY DEF IInv, VerifiedSound, Settled, Passes

LEMMA VerifyFailsSound ==
  ASSUME IInv, NEW m \in Model, VerifyFails(m)
  PROVE  IInv'
<1>0. op[m].pc = "verify" /\ op[m].pc \notin Over /\ op[m].at \in File(m) /\ UNCHANGED others
  BY DEF VerifyFails, Over
<1>1. CASE Goes(m, "canceled") /\ UNCHANGED disk
  <2>1. "canceled" \in Place \ (Over \cup FilePlace) /\ "canceled" \in VerifyPlace
    BY DEF Place, Over, FilePlace, VerifyPlace
  <2> QED
    BY <1>0, <1>1, <2>1, JustGoes
<1>2. CASE /\ ~Passes(final[m][op[m].at]) /\ Discards(m, op[m].at)
           /\ Goes(m, "failed") /\ UNCHANGED part
  <2>1. "failed" \in Place \ (Over \cup FilePlace) /\ "failed" \in VerifyPlace
    BY DEF Place, Over, FilePlace, VerifyPlace
  <2>2. OperationSound(m)'
    BY <1>0, <1>2, <2>1, GoesSound
  <2>3. Domains /\ RowsOf(m)
    BY <1>0, <1>2, <2>1, GoesRow, DiscardsRow DEF IInv, Domains, RowsOf
  <2>4. FilesSound(m)'
    BY <1>0, <1>2, DiscardsSound
  <2>5. VerifiedSound(m)'
    BY <1>0, <1>2, BadUnsettles DEF VerifiedSound, others
  <2> QED
    BY <1>0, <2>2, <2>3, <2>4, <2>5, ThreadStep DEF ModelSound
<1> QED
  BY <1>1, <1>2 DEF VerifyFails

LEMMA VerifiesAllSound ==
  ASSUME IInv, NEW m \in Model, VerifiesAll(m)
  PROVE  IInv'
<1>1. "write" \in Place \ (Over \cup FilePlace) /\ "write" \in VerifyPlace
  BY DEF Place, Over, FilePlace, VerifyPlace
<1>2. op[m].pc \notin Over /\ Goes(m, "write") /\ UNCHANGED <<disk, others>>
  BY DEF VerifiesAll, Over
<1> QED
  BY <1>1, <1>2, JustGoes

LEMMA WritesManifestSound ==
  ASSUME IInv, NEW m \in Model, WritesManifest(m)
  PROVE  IInv'
<1>0. op[m].pc = "write" /\ op[m].pc \notin Over /\ UNCHANGED others
      /\ UNCHANGED <<final, part>>
  BY DEF WritesManifest, Over
<1>1. {"finish", "failed"} \subseteq Place \ (Over \cup FilePlace)
      /\ {"finish", "failed"} \subseteq VerifyPlace
  BY DEF Place, Over, FilePlace, VerifyPlace
<1>2. CASE listed' = [listed EXCEPT ![m] = File(m)] /\ Goes(m, "finish")
  <2>1. OperationSound(m)'
    BY <1>0, <1>1, <1>2, GoesSound
  <2>2. Domains /\ RowsOf(m)
    BY <1>0, <1>1, <1>2, GoesRow, ListedRow DEF IInv, Domains, RowsOf
  <2>3. FilesSound(m)' /\ listed'[m] = File(m)
    BY <1>0, <1>2, ListedRow DEF IInv, FilesSound, File
  <2>4. VerifiedSound(m)'
    BY <1>0, <1>1, <1>2, <2>3, GoesRow DEF IInv, VerifiedSound, Settled, others, File, Over
  <2> QED
    BY <1>0, <2>1, <2>2, <2>3, <2>4, ThreadStep DEF ModelSound
<1>3. CASE Goes(m, "failed") /\ UNCHANGED listed
  BY <1>0, <1>1, <1>3, JustGoes DEF disk
<1> QED
  BY <1>2, <1>3 DEF WritesManifest

(* The end of an operation.                                                *)
LEMMA OverStep ==
  ASSUME IInv, NEW m \in Model, NEW o \in Operation, o.pc \in Over, o.status # "active",
         op' = [op EXCEPT ![m] = o], UNCHANGED <<disk, others>>
  PROVE  IInv'
<1>1. op'[m] = o /\ op' \in [Model -> Operation] /\ \A k \in Model \ {m} : op'[k] = op[k]
  BY DEF IInv, TypeOK
<1>2. Domains /\ RowsOf(m)
  BY <1>1 DEF IInv, Domains, RowsOf, disk
<1>3. FilesSound(m)'
  BY DEF IInv, FilesSound, disk, File
<1>4. OperationSound(m)'
  BY <1>1 DEF OperationSound, Over, FilePlace, VerifyPlace
<1>5. VerifiedSound(m)'
  BY <1>1 DEF IInv, VerifiedSound, Settled, disk, others, File
<1> QED
  BY <1>2, <1>3, <1>4, <1>5, ThreadStep DEF ModelSound, others

LEMMA EndsAsRow ==
  ASSUME IInv, NEW m \in Model, NEW status \in {"ready", "canceled", "failed"},
         EndsAs(m, status), UNCHANGED <<disk, others>>
  PROVE  IInv'
<1> PICK o : o = [NoOperation EXCEPT !.kind = op[m].kind, !.status = status, !.pc = "ending"]
  OBVIOUS
<1>1. op[m].kind \in {"download", "verify"} /\ "ending" \in Place
  BY DEF IInv, TypeOK, Operation, Place
<1>2. o \in Operation /\ o.pc = "ending" /\ o.status = status
  BY <1>1, NoOperationType DEF Operation
<1>3. op' = [op EXCEPT ![m] = o]
  BY DEF EndsAs
<1> QED
  BY <1>2, <1>3, OverStep DEF Over

LEMMA EndsSound ==
  ASSUME IInv, NEW m \in Model, Finishes(m) \/ GivesUp(m) \/ Ends(m)
  PROVE  IInv'
<1>1. CASE Finishes(m)
  BY <1>1, EndsAsRow DEF Finishes
<1>2. CASE GivesUp(m)
  BY <1>2, EndsAsRow DEF GivesUp
<1>3. CASE Ends(m)
  <2> PICK o : o = [NoOperation EXCEPT !.status = op[m].status]
    OBVIOUS
  <2>1. op[m].status \in {"none", "active", "ready", "canceled", "failed"}
        /\ op[m].status # "active"
    BY <1>3 DEF Ends, IInv, TypeOK, Operation, OperationSound, Over
  <2>2. o \in Operation /\ o.pc = "none" /\ o.status = op[m].status
    BY <2>1, NoOperationType DEF Operation
  <2>3. op' = [op EXCEPT ![m] = o] /\ UNCHANGED <<disk, others>>
    BY <1>3 DEF Ends
  <2> QED
    BY <2>1, <2>2, <2>3, OverStep DEF Over
<1> QED
  BY <1>1, <1>2, <1>3

LEMMA OperationStepSound ==
  ASSUME IInv, NEW m \in Model, OperationStep(m)
  PROVE  IInv'
BY AcquiresSound, NextFileSound, LooksAtFinalSound, KeepsFinalSound, RejectsFinalSound,
   LooksAtPartSound, InstallsPartSound, RejectsPartSound, OpensSound, RequestFailsSound,
   ReadsSound, ClosesSound, VerifiesFileSound, VerifyFailsSound, VerifiesAllSound,
   WritesManifestSound, EndsSound DEF OperationStep

-----------------------------------------------------------------------------
(* Requests.                                                               *)

(* A step that leaves the files alone and starts or cancels operations.    *)
LEMMA OperationsStep ==
  ASSUME IInv, UNCHANGED <<disk, verified, unseen>>, op' \in [Model -> Operation],
         \A k \in Model : OperationSound(k)' /\ (Settled(k) => Settled(k)'),
         stopping' \in BOOLEAN, WaiterTyped', CountTyped', WaiterSound'
  PROVE  IInv'
<1>1. \A k \in Model : FilesSound(k)'
  BY DEF IInv, FilesSound, disk, File
<1>2. \A k \in Model : VerifiedSound(k)'
  BY DEF IInv, VerifiedSound
<1>3. TypeOK'
  BY <1>1 DEF IInv, TypeOK, FilesSound, WaiterTyped, CountTyped
<1> QED
  BY <1>1, <1>2, <1>3 DEF IInv, disk

(* A start replaces an operation only if its thread is over, and starts no *)
(* download of a settled model.                                            *)
LEMMA StartedRow ==
  ASSUME IInv, NEW k \in Model, NEW kind \in {"download", "verify"}, ~Alive(k)
  PROVE  /\ Started(k, kind) \in Operation
         /\ Started(k, kind).status = "ready" =>
              Started(k, kind).pc = "none" /\ Started(k, kind).kind = "download"
         /\ Started(k, kind).status # "ready" =>
              /\ Started(k, kind).status = "active" /\ Started(k, kind).pc = "queue"
              /\ Started(k, kind).kind = kind
              /\ kind = "download" => DiskStatus(k) # "ready"
<1>1. CASE kind = "download" /\ DiskStatus(k) = "ready"
  <2>1. Started(k, kind) = [NoOperation EXCEPT !.status = "ready"]
    BY <1>1 DEF Started
  <2>2. [NoOperation EXCEPT !.status = "ready"] \in Operation
    BY NoOperationType DEF Operation
  <2>3. /\ [NoOperation EXCEPT !.status = "ready"].status = "ready"
        /\ [NoOperation EXCEPT !.status = "ready"].pc = "none"
        /\ [NoOperation EXCEPT !.status = "ready"].kind = "download"
    BY NoOperationType DEF Operation
  <2> QED
    BY <2>1, <2>2, <2>3
<1>2. CASE ~(kind = "download" /\ DiskStatus(k) = "ready")
  <2> PICK new : new = [NoOperation EXCEPT !.kind = kind]
    OBVIOUS
  <2>1. new \in Operation /\ new.kind = kind
    BY NoOperationType DEF Operation
  <2> PICK o : o = [new EXCEPT !.status = "active", !.pc = "queue"]
    OBVIOUS
  <2>2. o \in Operation /\ o.kind = kind /\ o.status = "active" /\ o.pc = "queue"
    BY <2>1 DEF Operation, Place
  <2>3. Started(k, kind) = o
    BY <1>2 DEF Started
  <2> QED
    BY <1>2, <2>2, <2>3
<1> QED
  BY <1>1, <1>2

LEMMA StartsSound ==
  ASSUME IInv, NEW models, NEW kind \in {"download", "verify"}, Starts(models, kind),
         UNCHANGED disk
  PROVE  /\ op' \in [Model -> Operation]
         /\ \A k \in Model : OperationSound(k)' /\ (Settled(k) => Settled(k)')
<1>1. ASSUME NEW k \in Model
      PROVE  op'[k] = op[k] \/ (~Alive(k) /\ op'[k] = Started(k, kind))
  <2>1. op'[k] = op[k] \/ op'[k] = Started(k, kind)
    BY DEF Starts
  <2>2. Alive(k) => Started(k, kind) = op[k]
    BY DEF Started
  <2> QED
    BY <2>1, <2>2
<1>2. ASSUME NEW k \in Model PROVE op'[k] \in Operation
  BY <1>1, StartedRow DEF IInv, TypeOK
<1>3. op' \in [Model -> Operation]
  <2>1. PICK S : op' = [k \in Model |-> IF k \in S THEN Started(k, kind) ELSE op[k]]
    BY DEF Starts
  <2> QED
    BY <1>2, <2>1
<1>4. ASSUME NEW k \in Model PROVE OperationSound(k)'
  <2>1. CASE op'[k] = op[k]
    BY <2>1 DEF IInv, OperationSound, File
  <2>2. CASE ~Alive(k) /\ op'[k] = Started(k, kind)
    BY <2>2, StartedRow DEF OperationSound, Over, FilePlace, VerifyPlace
  <2> QED
    BY <1>1, <2>1, <2>2
<1>5. ASSUME NEW k \in Model, Settled(k) PROVE Settled(k)'
  <2>1. CASE op'[k] = op[k]
    BY <1>5, <2>1 DEF Settled, disk, File
  <2>2. CASE ~Alive(k) /\ op'[k] = Started(k, kind)
    <3>1. op'[k].kind = "download" => op'[k].pc \in Over
      BY <1>5, <2>2, StartedRow, SettledIsReady DEF Over
    <3> QED
      BY <1>5, <3>1 DEF Settled, disk, File
  <2> QED
    BY <1>1, <2>1, <2>2
<1> QED
  BY <1>3, <1>4, <1>5

LEMMA MayAskType ==
  ASSUME IInv, MayAsk
  PROVE  CountTyped'
<1>1. /\ count \in [request : 0..MaxRequest, restart : 0..MaxRestart, spoiled : SUBSET Spoils]
      /\ count.request < MaxRequest /\ count' = [count EXCEPT !.request = @ + 1]
  BY DEF IInv, TypeOK, MayAsk
<1>2. count.request + 1 \in 0..MaxRequest
  BY <1>1, BoundAssumption
<1> QED
  BY <1>1, <1>2 DEF CountTyped

LEMMA WaiterStays ==
  ASSUME IInv, UNCHANGED <<verified, waiter>>
  PROVE  WaiterSound' /\ WaiterTyped'
BY DEF IInv, WaiterSound, TypeOK, WaiterTyped

LEMMA StartRequestSound ==
  ASSUME IInv, NEW m \in Model, StartDownload(m) \/ StartVerify(m)
  PROVE  IInv'
<1>1. /\ MayAsk /\ UNCHANGED disk /\ UNCHANGED <<stopping, verified, unseen, waiter>>
      /\ \E models \in {Order[m], <<m>>}, kind \in {"download", "verify"} : Starts(models, kind)
  BY DEF StartDownload, StartVerify
<1>2. /\ op' \in [Model -> Operation]
      /\ \A k \in Model : OperationSound(k)' /\ (Settled(k) => Settled(k)')
  BY <1>1, StartsSound
<1>3. stopping' \in BOOLEAN
  BY <1>1 DEF IInv, TypeOK
<1>4. UNCHANGED <<disk, verified, unseen>>
  BY <1>1
<1> QED
  BY <1>1, <1>2, <1>3, <1>4, MayAskType, WaiterStays, OperationsStep

(* Canceling changes nothing but the flag.                                 *)
LEMMA CancelsSound ==
  ASSUME IInv, UNCHANGED disk, op' \in [Model -> Operation],
         \A k \in Model : /\ op'[k].kind = op[k].kind /\ op'[k].status = op[k].status
                          /\ op'[k].pc = op[k].pc /\ op'[k].at = op[k].at
  PROVE  \A k \in Model : OperationSound(k)' /\ (Settled(k) => Settled(k)')
BY DEF IInv, OperationSound, Settled, disk, File

LEMMA CancelSound ==
  ASSUME IInv, NEW m \in Model, Cancel(m)
  PROVE  IInv'
<1>1. op \in [Model -> Operation] /\ op' = [op EXCEPT ![m].cancel = TRUE]
      /\ UNCHANGED disk /\ UNCHANGED <<stopping, verified, unseen, waiter, count>>
  BY DEF IInv, TypeOK, Cancel
<1> PICK o : o = [op[m] EXCEPT !.cancel = TRUE]
  OBVIOUS
<1>2. /\ o \in Operation /\ o.kind = op[m].kind /\ o.status = op[m].status
      /\ o.pc = op[m].pc /\ o.at = op[m].at
  BY <1>1 DEF Operation
<1>3. op' \in [Model -> Operation] /\ op'[m] = o /\ \A k \in Model \ {m} : op'[k] = op[k]
  BY <1>1, <1>2
<1>4. \A k \in Model : OperationSound(k)' /\ (Settled(k) => Settled(k)')
  BY <1>1, <1>2, <1>3, CancelsSound
<1>5. stopping' \in BOOLEAN /\ CountTyped'
  BY <1>1 DEF IInv, TypeOK, CountTyped
<1> QED
  BY <1>1, <1>3, <1>4, <1>5, WaiterStays, OperationsStep

LEMMA ShutdownSound ==
  ASSUME IInv, Shutdown
  PROVE  IInv'
<1>1. op' = [k \in Model |-> [op[k] EXCEPT !.cancel = @ \/ AsksAgain(k)]]
      /\ UNCHANGED disk /\ UNCHANGED <<verified, unseen, waiter, count>> /\ stopping' = TRUE
  BY DEF Shutdown
<1>2. ASSUME NEW k \in Model
      PROVE  /\ op'[k] \in Operation /\ op'[k].kind = op[k].kind
             /\ op'[k].status = op[k].status /\ op'[k].pc = op[k].pc /\ op'[k].at = op[k].at
  <2>1. op[k] \in Operation /\ (op[k].cancel \/ AsksAgain(k)) \in BOOLEAN
    BY DEF IInv, TypeOK, AsksAgain, Operation
  <2>2. op'[k] = [op[k] EXCEPT !.cancel = op[k].cancel \/ AsksAgain(k)]
    BY <1>1
  <2> QED
    BY <2>1, <2>2 DEF Operation
<1>3. op' \in [Model -> Operation]
  BY <1>1, <1>2
<1>4. \A k \in Model : OperationSound(k)' /\ (Settled(k) => Settled(k)')
  BY <1>1, <1>2, <1>3, CancelsSound
<1>5. stopping' \in BOOLEAN /\ CountTyped'
  BY <1>1 DEF IInv, TypeOK, CountTyped
<1> QED
  BY <1>1, <1>3, <1>4, <1>5, WaiterStays, OperationsStep

(* Nothing of the old process is left.                                     *)
LEMMA RestartSound ==
  ASSUME IInv, Restart
  PROVE  IInv'
<1>1. /\ op' = [k \in Model |-> NoOperation] /\ stopping' = FALSE /\ verified' = {}
      /\ unseen' = {} /\ waiter' = Idle /\ UNCHANGED disk
      /\ count' = [count EXCEPT !.restart = @ + 1] /\ count.restart < MaxRestart
  BY DEF Restart
<1>2. op' \in [Model -> Operation] /\ \A k \in Model : OperationSound(k)'
  BY <1>1, NoOperationType DEF OperationSound, Over, FilePlace, VerifyPlace
<1>3. \A k \in Model : FilesSound(k)' /\ VerifiedSound(k)'
  BY <1>1 DEF IInv, FilesSound, VerifiedSound, disk, File
<1>4. WaiterTyped' /\ WaiterSound'
  BY <1>1, IdleType DEF WaiterTyped, WaiterSound, Idle
<1>5. CountTyped'
  <2>1. CountTyped /\ count.restart + 1 \in 0..MaxRestart
    BY <1>1, BoundAssumption DEF IInv, TypeOK, CountTyped
  <2> QED
    BY <1>1, <2>1 DEF CountTyped
<1>6. TypeOK'
  BY <1>1, <1>2, <1>3, <1>4, <1>5 DEF TypeOK, FilesSound, WaiterTyped, CountTyped
<1> QED
  BY <1>1, <1>2, <1>3, <1>4, <1>6 DEF IInv, disk

(* A model changed by others after it was verified is settled no more.     *)
LEMMA SpoilSound ==
  ASSUME IInv, NEW m \in Model, NEW f \in File(m), Spoil(m, f)
  PROVE  IInv'
<1>1. PICK content \in {"edited", "cut"} : final' = [final EXCEPT ![m][f] = content]
  BY DEF Spoil
<1>2. content \in Content /\ content # "bad"
  BY <1>1 DEF Content
<1>3. /\ UNCHANGED <<part, op, stopping, verified, waiter>>
      /\ unseen' = unseen \cup ({m} \cap verified)
      /\ count' = [count EXCEPT !.spoiled = @ \cup {<<m, f>>}] /\ <<m, f>> \in Spoils
      /\ UNCHANGED listed \/ listed' = [listed EXCEPT ![m] = @ \ {f}]
  BY DEF Spoil
<1>4. /\ DOMAIN listed' = Model /\ listed'[m] \subseteq File(m)
      /\ \A k \in Model \ {m} : listed'[k] = listed[k]
  BY <1>3, ListedShrinks DEF IInv, FilesSound
<1>5. ASSUME NEW k \in Model PROVE FilesSound(k)'
  BY <1>1, <1>2, <1>3, <1>4, FinalRow DEF IInv, FilesSound, File
<1>6. ASSUME NEW k \in Model PROVE OperationSound(k)'
  BY <1>3 DEF IInv, OperationSound, File
<1>7. ASSUME NEW k \in Model PROVE VerifiedSound(k)'
  <2>1. CASE k = m
    BY <1>3, <2>1 DEF VerifiedSound
  <2>2. CASE k # m
    BY <1>1, <1>2, <1>3, <1>4, <2>2, FinalRow DEF IInv, VerifiedSound, Settled, File
  <2> QED
    BY <2>1, <2>2
<1>8. CountTyped'
  BY <1>3 DEF IInv, TypeOK, CountTyped
<1>9. TypeOK'
  BY <1>3, <1>5, <1>8 DEF IInv, TypeOK, FilesSound, CountTyped
<1> QED
  BY <1>1, <1>2, <1>3, <1>4, <1>5, <1>6, <1>7, <1>9, FinalRow, WaiterStays DEF IInv

-----------------------------------------------------------------------------
(* The worker.                                                             *)

(* Steps of the worker that touch nothing else.                            *)
LEMMA WaiterStep ==
  ASSUME IInv, UNCHANGED <<disk, op, stopping, verified, unseen, count>>,
         WaiterTyped', WaiterSound'
  PROVE  IInv'
<1>1. \A k \in Model : Settled(k)' <=> Settled(k)
  BY DEF Settled, disk, File
<1>2. \A k \in Model : OperationSound(k)' <=> OperationSound(k)
  BY DEF OperationSound, File
<1>3. op' \in [Model -> Operation] /\ stopping' \in BOOLEAN /\ CountTyped'
  BY DEF IInv, TypeOK, CountTyped
<1> QED
  BY <1>1, <1>2, <1>3, OperationsStep DEF IInv

LEMMA AsksSound ==
  ASSUME IInv, NEW m \in Model, Asks(m)
  PROVE  IInv'
<1>1. /\ MayAsk /\ UNCHANGED disk /\ UNCHANGED <<stopping, verified, unseen>>
      /\ waiter' = [pc |-> "waits", model |-> m, at |-> 1]
      /\ UNCHANGED op \/ Starts(Order[m], "download")
  BY DEF Asks
<1>2. /\ op' \in [Model -> Operation]
      /\ \A k \in Model : OperationSound(k)' /\ (Settled(k) => Settled(k)')
  <2>1. CASE UNCHANGED op
    BY <1>1, <2>1 DEF IInv, TypeOK, OperationSound, Settled, disk, File
  <2> QED
    BY <1>1, <2>1, StartsSound
<1>3. WaiterTyped' /\ WaiterSound'
  BY <1>1 DEF WaiterTyped, WaiterSound
<1>4. stopping' \in BOOLEAN
  BY <1>1 DEF IInv, TypeOK
<1> QED
  BY <1>1, <1>2, <1>3, <1>4, MayAskType, OperationsStep

LEMMA PollsSound ==
  ASSUME IInv, Polls
  PROVE  IInv'
<1>1. waiter \in [pc : {"idle", "waits", "loads", "runs", "failed"}, model : Model, at : Nat]
  BY DEF IInv, TypeOK
<1>2. PICK pc \in {"loads", "failed"} : waiter' = [waiter EXCEPT !.pc = pc]
  BY DEF Polls
<1>3. /\ WaiterTyped' /\ waiter'.pc = pc /\ waiter'.at = waiter.at
  BY <1>1, <1>2 DEF WaiterTyped
<1>4. waiter'.at = 1
  BY <1>3 DEF IInv, WaiterSound, Polls
<1>5. WaiterSound'
  <2>1. waiter'.model \in Model
    BY <1>3 DEF WaiterTyped
  <2>2. \A k \in DOMAIN Order[waiter'.model] : ~(k < 1)
    BY <2>1, OrderAssumption
  <2> QED
    BY <1>2, <1>3, <1>4, <2>2 DEF WaiterSound
<1> QED
  BY <1>3, <1>5, WaiterStep DEF Polls

LEMMA IdleAgainSound ==
  ASSUME IInv, Leaves \/ ComponentEnds
  PROVE  IInv'
<1>1. waiter' = Idle /\ UNCHANGED <<disk, op, stopping, verified, unseen, count>>
  BY DEF Leaves, ComponentEnds
<1>2. WaiterTyped' /\ WaiterSound'
  BY <1>1, IdleType DEF WaiterTyped, WaiterSound, Idle
<1> QED
  BY <1>1, <1>2, WaiterStep

(* The worker gives up.                                                    *)
LEMMA LoadFails ==
  ASSUME IInv, waiter' = [waiter EXCEPT !.pc = "failed", !.at = 1]
  PROVE  WaiterTyped' /\ WaiterSound'
<1>1. waiter \in [pc : {"idle", "waits", "loads", "runs", "failed"}, model : Model, at : Nat]
  BY DEF IInv, TypeOK
<1>2. WaiterTyped' /\ waiter'.pc = "failed" /\ waiter'.at = 1
  BY <1>1 DEF WaiterTyped
<1> QED
  BY <1>2 DEF WaiterSound

(* The worker goes on to the next model when it has this one.              *)
LEMMA LoadGoesOn ==
  ASSUME IInv, waiter.pc = "loads", waiter' = [waiter EXCEPT !.at = @ + 1],
         verified \subseteq verified', Order[waiter.model][waiter.at] \in verified'
  PROVE  WaiterTyped' /\ WaiterSound'
<1>1. waiter \in [pc : {"idle", "waits", "loads", "runs", "failed"}, model : Model, at : Nat]
  BY DEF IInv, TypeOK
<1>2. /\ WaiterTyped' /\ waiter'.pc = "loads" /\ waiter'.model = waiter.model
      /\ waiter'.at = waiter.at + 1
  BY <1>1 DEF WaiterTyped
<1>3. ASSUME NEW k \in DOMAIN Order[waiter.model], k < waiter.at + 1
      PROVE  Order[waiter.model][k] \in verified'
  <2>1. k \in Nat
    BY <1>1, OrderAssumption
  <2>2. CASE k = waiter.at
    BY <2>2
  <2>3. CASE k < waiter.at
    BY <2>3 DEF IInv, WaiterSound
  <2> QED
    BY <1>1, <1>3, <2>1, <2>2, <2>3
<1>4. waiter.at + 1 # 0
  BY <1>1
<1> QED
  BY <1>2, <1>3, <1>4 DEF WaiterSound

LEMMA LoadsModel ==
  ASSUME IInv, Loads
  PROVE  /\ waiter.pc = "loads" /\ Order[waiter.model][waiter.at] \in Model
         /\ waiter.model \in Model /\ UNCHANGED <<stopping, unseen, count>>
         /\ waiter.at \in DOMAIN Order[waiter.model]
<1>1. waiter.pc = "loads" /\ waiter.at <= Len(Order[waiter.model])
      /\ UNCHANGED <<stopping, unseen, count>>
  BY DEF Loads
<1>2. waiter.model \in Model /\ waiter.at \in Nat
  BY DEF IInv, TypeOK
<1>3. Order[waiter.model] \in Seq(Model)
  BY <1>2, OrderAssumption
<1>4. waiter.at \in 1..Len(Order[waiter.model])
  BY <1>1, <1>2, <1>3 DEF IInv, WaiterSound
<1> QED
  BY <1>1, <1>2, <1>3, <1>4

(* A model that is shown as ready and passes is settled from then on: what *)
(* still ran of an operation on it is over.                                *)
LEMMA LoadVerifies ==
  ASSUME IInv, NEW d \in Model, RuntimeReady(d),
         \A f \in File(d) : Passes(final[d][f]),
         listed' = [listed EXCEPT ![d] = File(d)], verified' = verified \cup {d},
         UNCHANGED <<final, part, op>>, UNCHANGED <<stopping, unseen, count>>,
         WaiterTyped', WaiterSound'
  PROVE  IInv'
<1>1. /\ DOMAIN listed' = Model /\ listed'[d] = File(d)
      /\ \A k \in Model \ {d} : listed'[k] = listed[k]
  BY ListedRow
<1>2. \A k \in Model : FilesSound(k)'
  BY <1>1 DEF IInv, FilesSound, File
<1>3. \A k \in Model : OperationSound(k)'
  BY DEF IInv, OperationSound, File
<1>4. op[d].pc \in Over
  BY OwnModel, ReadyIsWhole DEF RuntimeReady
<1>5. Settled(d)'
  BY <1>1, <1>4 DEF Settled, Passes, File
<1>6. ASSUME NEW k \in Model PROVE VerifiedSound(k)'
  <2>1. CASE k = d
    BY <1>5, <2>1 DEF VerifiedSound
  <2>2. CASE k # d
    BY <1>1, <2>2 DEF IInv, VerifiedSound, Settled, File
  <2> QED
    BY <2>1, <2>2
<1>7. TypeOK'
  BY <1>2 DEF IInv, TypeOK, FilesSound, WaiterTyped
<1> QED
  BY <1>1, <1>2, <1>3, <1>6, <1>7 DEF IInv

LEMMA LoadDiscards ==
  ASSUME IInv, NEW d \in Model, NEW f \in File(d), ~Passes(final[d][f]), Discards(d, f),
         UNCHANGED <<part, op, verified>>, UNCHANGED <<stopping, unseen, count>>,
         WaiterTyped', WaiterSound'
  PROVE  IInv'
<1>1. FilesSound(d)'
  BY DiscardsSound
<1>2. \A k \in Model : FilesSound(k)'
  BY <1>1, DiscardsRow DEF IInv, FilesSound, File
<1>3. \A k \in Model : OperationSound(k)'
  BY DEF IInv, OperationSound, File
<1>4. ASSUME NEW k \in Model PROVE VerifiedSound(k)'
  <2>1. CASE k = d
    BY <2>1, BadUnsettles DEF VerifiedSound
  <2>2. CASE k # d
    BY <2>2, DiscardsRow DEF IInv, VerifiedSound, Settled, File
  <2> QED
    BY <2>1, <2>2
<1>5. TypeOK'
  BY <1>2 DEF IInv, TypeOK, FilesSound, WaiterTyped
<1> QED
  BY <1>2, <1>3, <1>4, <1>5, DiscardsRow DEF IInv

LEMMA LoadsSound ==
  ASSUME IInv, Loads
  PROVE  IInv'
<1> PICK d \in Model : d = Order[waiter.model][waiter.at]
  BY LoadsModel
<1> PICK bad : bad = {f \in File(d) : ~Passes(final[d][f])}
  OBVIOUS
<1>0. waiter.pc = "loads" /\ UNCHANGED <<stopping, unseen, count>>
  BY LoadsModel
<1>1. CASE /\ ~RuntimeReady(d) /\ Starts(Order[d], "download")
           /\ waiter' = [waiter EXCEPT !.pc = "failed", !.at = 1]
           /\ UNCHANGED <<disk, verified>>
  <2>1. /\ op' \in [Model -> Operation]
        /\ \A k \in Model : OperationSound(k)' /\ (Settled(k) => Settled(k)')
    BY <1>1, StartsSound
  <2>2. stopping' \in BOOLEAN /\ CountTyped'
    BY <1>0 DEF IInv, TypeOK, CountTyped
  <2> QED
    BY <1>0, <1>1, <2>1, <2>2, LoadFails, OperationsStep
<1>2. CASE /\ RuntimeReady(d) /\ AlreadyVerified(d)
           /\ waiter' = [waiter EXCEPT !.at = @ + 1] /\ UNCHANGED <<disk, op, verified>>
  <2>1. WaiterTyped' /\ WaiterSound'
    BY <1>0, <1>2, LoadGoesOn DEF AlreadyVerified
  <2> QED
    BY <1>0, <1>2, <2>1, WaiterStep
<1>3. CASE /\ RuntimeReady(d) /\ ~AlreadyVerified(d) /\ bad = {}
           /\ listed' = [listed EXCEPT ![d] = File(d)]
           /\ verified' = verified \cup {d}
           /\ waiter' = [waiter EXCEPT !.at = @ + 1] /\ UNCHANGED <<final, part, op>>
  <2>1. WaiterTyped' /\ WaiterSound'
    BY <1>0, <1>3, LoadGoesOn
  <2>2. \A f \in File(d) : Passes(final[d][f])
    BY <1>3
  <2> QED
    BY <1>0, <1>3, <2>1, <2>2, LoadVerifies
<1>4. CASE /\ \E f \in bad : (\A g \in bad : f <= g) /\ Discards(d, f)
           /\ waiter' = [waiter EXCEPT !.pc = "failed", !.at = 1]
           /\ UNCHANGED <<part, op, verified>>
  <2>1. PICK f \in bad : Discards(d, f)
    BY <1>4
  <2>2. WaiterTyped' /\ WaiterSound'
    BY <1>4, LoadFails
  <2> QED
    BY <1>0, <1>4, <2>1, <2>2, LoadDiscards
<1> QED
  BY <1>1, <1>2, <1>3, <1>4 DEF Loads

LEMMA RunsSound ==
  ASSUME IInv, Runs
  PROVE  IInv'
<1>1. waiter \in [pc : {"idle", "waits", "loads", "runs", "failed"}, model : Model, at : Nat]
  BY DEF IInv, TypeOK
<1>2. /\ waiter.pc = "loads" /\ waiter.at > Len(Order[waiter.model])
      /\ waiter' = [waiter EXCEPT !.pc = "runs"]
      /\ UNCHANGED <<disk, op, stopping, verified, unseen, count>>
  BY DEF Runs
<1>3. /\ WaiterTyped' /\ waiter'.pc = "runs" /\ waiter'.model = waiter.model
      /\ waiter'.at = waiter.at
  BY <1>1, <1>2 DEF WaiterTyped
<1>4. ASSUME NEW k \in DOMAIN Order[waiter.model] PROVE Order[waiter.model][k] \in verified
  <2>1. k < waiter.at
    BY <1>1, <1>2, OrderAssumption
  <2> QED
    BY <1>2, <2>1 DEF IInv, WaiterSound
<1>5. WaiterSound'
  BY <1>2, <1>3, <1>4 DEF IInv, WaiterSound, ToSet
<1> QED
  BY <1>2, <1>3, <1>5, WaiterStep

-----------------------------------------------------------------------------
LEMMA InitSound == Init => IInv
<1> SUFFICES ASSUME Init PROVE IInv
  OBVIOUS
<1>1. \A m \in Model : FilesSound(m)
  BY PartKinds, SizeAssumption DEF Init, FilesSound, Content
<1>2. \A m \in Model : OperationSound(m) /\ VerifiedSound(m)
  BY NoOperationType DEF Init, OperationSound, VerifiedSound, Over, FilePlace, VerifyPlace
<1>3. WaiterSound
  BY DEF Init, WaiterSound, Idle
<1>4. TypeOK
  <2>1. op \in [Model -> Operation] /\ WaiterTyped
    BY NoOperationType, IdleType DEF Init, WaiterTyped
  <2>2. CountTyped
    BY BoundAssumption DEF Init, CountTyped
  <2> QED
    BY <1>1, <2>1, <2>2 DEF Init, TypeOK, FilesSound, WaiterTyped, CountTyped
<1>5. DOMAIN final = Model /\ DOMAIN part = Model /\ DOMAIN listed = Model
  BY DEF Init
<1> QED
  BY <1>1, <1>2, <1>3, <1>4, <1>5 DEF IInv

LEMMA NextSound ==
  ASSUME IInv, [Next]_vars
  PROVE  IInv'
<1>1. CASE \E m \in Model : OperationStep(m)
  BY <1>1, OperationStepSound
<1>2. CASE \E m \in Model : StartDownload(m) \/ StartVerify(m)
  BY <1>2, StartRequestSound
<1>3. CASE \E m \in Model : Cancel(m)
  BY <1>3, CancelSound
<1>4. CASE \E m \in Model : Asks(m)
  BY <1>4, AsksSound
<1>5. CASE \E m \in Model : \E f \in File(m) : Spoil(m, f)
  BY <1>5, SpoilSound
<1>6. CASE Shutdown \/ Restart
  BY <1>6, ShutdownSound, RestartSound
<1>7. CASE Polls \/ Leaves \/ Loads \/ Runs \/ ComponentEnds
  BY <1>7, PollsSound, IdleAgainSound, LoadsSound, RunsSound
<1>8. CASE UNCHANGED vars
  BY <1>8, WaiterStep, WaiterStays DEF vars, disk
<1> QED
  BY <1>1, <1>2, <1>3, <1>4, <1>5, <1>6, <1>7, <1>8 DEF Next

LEMMA Invariance == Spec => []IInv
BY InitSound, NextSound, PTL DEF Spec

-----------------------------------------------------------------------------
(* What a step costs: the files of a model stay, or what was there is lost *)
(* for one of the reasons DownloadedKept names.                            *)

LEMMA UntouchedKept ==
  ASSUME IInv, NEW m \in Model, NEW f \in File(m),
         final'[m][f] = final[m][f], part'[m][f] = part[m][f]
  PROVE  FinalKept(m, f) /\ PartKept(m, f)
<1>1. part[m][f].size \in Nat
  BY SizeAssumption DEF IInv, FilesSound, Part
<1> QED
  BY <1>1 DEF FinalKept, PartKept

LEMMA DiskKept ==
  ASSUME IInv, UNCHANGED <<final, part>>
  PROVE  Kept
BY UntouchedKept DEF Kept

(* Only the file at hand is touched by the thread of a download.           *)
LEMMA FinalWriteKept ==
  ASSUME IInv, NEW m \in Model, NEW f \in File(m), NEW content \in Content,
         final' = [final EXCEPT ![m][f] = content], UNCHANGED part, FinalKept(m, f)
  PROVE  Kept
<1>1. ASSUME NEW k \in Model, NEW g \in File(k), k # m \/ g # f
      PROVE  FinalKept(k, g) /\ PartKept(k, g)
  BY <1>1, FinalRow, UntouchedKept
<1>2. PartKept(m, f)
  <2>1. part[m][f].size \in Nat
    BY SizeAssumption DEF IInv, FilesSound, Part
  <2> QED
    BY <2>1 DEF PartKept
<1> QED
  BY <1>1, <1>2 DEF Kept

LEMMA PartWriteKept ==
  ASSUME IInv, NEW m \in Model, NEW f \in File(m), NEW p \in Part,
         part' = [part EXCEPT ![m][f] = p], UNCHANGED final, PartKept(m, f)
  PROVE  Kept
<1>1. ASSUME NEW k \in Model, NEW g \in File(k), k # m \/ g # f
      PROVE  FinalKept(k, g) /\ PartKept(k, g)
  BY <1>1, PartRow, UntouchedKept
<1>2. FinalKept(m, f)
  BY DEF FinalKept
<1> QED
  BY <1>1, <1>2 DEF Kept

LEMMA DiscardsKept ==
  ASSUME IInv, NEW m \in Model, NEW f \in File(m), ~Passes(final[m][f]), Discards(m, f),
         UNCHANGED part
  PROVE  Kept
<1>1. ASSUME NEW k \in Model, NEW g \in File(k), k # m \/ g # f
      PROVE  FinalKept(k, g) /\ PartKept(k, g)
  BY <1>1, DiscardsRow, UntouchedKept
<1>2. FinalKept(m, f)
  BY DEF FinalKept, Passes
<1>3. PartKept(m, f)
  <2>1. part[m][f].size \in Nat
    BY SizeAssumption DEF IInv, FilesSound, Part
  <2> QED
    BY <2>1 DEF PartKept
<1> QED
  BY <1>1, <1>2, <1>3 DEF Kept

LEMMA AtFile ==
  ASSUME IInv, NEW m \in Model, op[m].pc \in FilePlace
  PROVE  /\ op[m].at \in File(m)
         /\ part[m][op[m].at] \in Part /\ part[m][op[m].at].size <= Size
         /\ final[m][op[m].at] \in Content
BY DEF IInv, OperationSound, FilesSound

LEMMA InstallsKept ==
  ASSUME IInv, NEW m \in Model, InstallsPart(m)
  PROVE  Kept
<1> PICK f : f = op[m].at
  OBVIOUS
<1>1. op[m].pc \in FilePlace /\ f \in File(m) /\ "good" \in Content
  BY AtFile DEF InstallsPart, FilePlace, Content
<1>2. /\ final' = [final EXCEPT ![m][f] = "good"]
      /\ part' = [part EXCEPT ![m][f] = NoPart]
  BY PassingPart DEF InstallsPart
<1>3. ASSUME NEW k \in Model, NEW g \in File(k), k # m \/ g # f
      PROVE  FinalKept(k, g) /\ PartKept(k, g)
  BY <1>1, <1>2, <1>3, FinalRow, PartRow, PartKinds, UntouchedKept
<1>4. FinalKept(m, f) /\ PartKept(m, f)
  BY <1>1, <1>2, FinalRow DEF FinalKept, PartKept
<1> QED
  BY <1>3, <1>4 DEF Kept

LEMMA RejectsFinalKept ==
  ASSUME IInv, NEW m \in Model, RejectsFinal(m)
  PROVE  Kept
<1> PICK f : f = op[m].at
  OBVIOUS
<1>1. /\ f \in File(m) /\ "none" \in Content /\ UNCHANGED part
      /\ final' = [final EXCEPT ![m][f] = "none"]
  BY AtFile DEF RejectsFinal, FilePlace, Content
<1>2. FinalKept(m, f)
  BY DEF RejectsFinal, FinalKept, CanceledAt, Passes
<1> QED
  BY <1>1, <1>2, FinalWriteKept

LEMMA PartStepKept ==
  ASSUME IInv, NEW m \in Model, LooksAtPart(m) \/ RejectsPart(m) \/ Opens(m) \/ Reads(m)
  PROVE  Kept
<1> PICK f : f = op[m].at
  OBVIOUS
<1> PICK old : old = part[m][f]
  OBVIOUS
<1>0. op[m].pc \in FilePlace /\ UNCHANGED final
  BY DEF LooksAtPart, RejectsPart, Opens, Reads, FilePlace
<1>1. /\ f \in File(m) /\ old \in Part /\ old.size <= Size /\ UNCHANGED final
      /\ old.size \in Nat
  BY <1>0, AtFile, SizeAssumption DEF Part
<1>2. CASE LooksAtPart(m)
  <2>1. UNCHANGED part
    BY <1>1, <1>2, SizeAssumption DEF LooksAtPart
  <2> QED
    BY <1>1, <2>1, DiskKept
<1>3. CASE RejectsPart(m)
  <2>1. part' = [part EXCEPT ![m][f] = NoPart]
    BY <1>3 DEF RejectsPart
  <2>2. PartKept(m, f)
    BY <1>3 DEF RejectsPart, PartKept, CanceledAt, Passes, PartContent
  <2> QED
    BY <1>1, <2>1, <2>2, PartKinds, PartWriteKept
<1>4. CASE Opens(m)
  <2>1. PICK p \in {old, EmptyPart} : part' = [part EXCEPT ![m][f] = p]
    BY <1>4 DEF Opens
  <2>2. PartKept(m, f)
    BY <1>4 DEF Opens, PartKept
  <2> QED
    BY <1>1, <2>1, <2>2, PartKinds, PartWriteKept
<1>5. CASE Reads(m)
  <2>0. op[m].pc = "read"
    BY <1>5 DEF Reads
  <2>1. PICK good \in BOOLEAN :
          part' = [part EXCEPT ![m][f] =
                     IF old.size < Size
                     THEN [old EXCEPT !.size = @ + 1, !.good = @ /\ good] ELSE NoPart]
    BY <1>5 DEF Reads
  <2>2. CASE old.size < Size
    <3> PICK p : p = [old EXCEPT !.size = @ + 1, !.good = @ /\ good]
      OBVIOUS
    <3>1. old.size + 1 \in 0..Size + 1 /\ (old.good /\ good) \in BOOLEAN
      BY <1>1, <2>2, SizeAssumption DEF Part
    <3>2. p \in Part /\ p.size = old.size + 1
      BY <1>1, <3>1 DEF Part
    <3>3. part' = [part EXCEPT ![m][f] = p]
      BY <2>1, <2>2
    <3>4. part'[m][f] = p
      BY <1>1, <3>2, <3>3, PartRow
    <3>5. PartKept(m, f)
      BY <1>1, <3>2, <3>4 DEF PartKept
    <3> QED
      BY <1>1, <3>2, <3>3, <3>5, PartWriteKept
  <2>3. CASE ~(old.size < Size)
    <3>1. part' = [part EXCEPT ![m][f] = NoPart] /\ old.size = Size
      BY <1>1, <2>1, <2>3, SizeAssumption
    <3>2. PartKept(m, f)
      BY <2>0, <3>1 DEF PartKept
    <3> QED
      BY <1>1, <3>1, <3>2, PartKinds, PartWriteKept
  <2> QED
    BY <2>2, <2>3
<1> QED
  BY <1>2, <1>3, <1>4, <1>5

LEMMA OperationStepKept ==
  ASSUME IInv, NEW m \in Model, OperationStep(m)
  PROVE  Kept
<1>1. CASE InstallsPart(m) \/ RejectsFinal(m)
  BY <1>1, InstallsKept, RejectsFinalKept
<1>2. CASE LooksAtPart(m) \/ RejectsPart(m) \/ Opens(m) \/ Reads(m)
  BY <1>2, PartStepKept
<1>3. CASE VerifyFails(m)
  <2>1. CASE UNCHANGED disk
    BY <2>1, DiskKept DEF disk
  <2>2. CASE ~UNCHANGED disk
    BY <1>3, <2>2, DiscardsKept DEF VerifyFails
  <2> QED
    BY <2>1, <2>2
<1>4. CASE \/ Acquires(m) \/ NextFile(m) \/ LooksAtFinal(m) \/ KeepsFinal(m)
           \/ RequestFails(m) \/ Closes(m) \/ VerifiesFile(m) \/ VerifiesAll(m)
           \/ WritesManifest(m) \/ Finishes(m) \/ GivesUp(m) \/ Ends(m)
  <2>1. UNCHANGED <<final, part>>
    BY <1>4 DEF Acquires, NextFile, LooksAtFinal, KeepsFinal, RequestFails, Closes,
       VerifiesFile, VerifiesAll, WritesManifest, Finishes, GivesUp, Ends, disk
  <2> QED
    BY <2>1, DiskKept
<1> QED
  BY <1>1, <1>2, <1>3, <1>4 DEF OperationStep

LEMMA LoadsKept ==
  ASSUME IInv, Loads
  PROVE  Kept
<1> PICK d \in Model : d = Order[waiter.model][waiter.at]
  BY LoadsModel
<1>1. CASE UNCHANGED <<final, part>>
  BY <1>1, DiskKept
<1>2. CASE ~UNCHANGED <<final, part>>
  <2>1. UNCHANGED part
    BY DEF Loads, disk
  <2>2. \E f \in {g \in File(d) : ~Passes(final[d][g])} : Discards(d, f)
    BY <1>2 DEF Loads, disk
  <2> QED
    BY <2>1, <2>2, DiscardsKept
<1> QED
  BY <1>1, <1>2

LEMMA SpoilKept ==
  ASSUME IInv, NEW m \in Model, NEW f \in File(m), Spoil(m, f)
  PROVE  Kept
<1>1. /\ count \in [request : 0..MaxRequest, restart : 0..MaxRestart, spoiled : SUBSET Spoils]
      /\ <<m, f>> \notin count.spoiled
      /\ count' = [count EXCEPT !.spoiled = @ \cup {<<m, f>>}]
  BY DEF IInv, TypeOK, Spoil
<1>2. count'.spoiled # count.spoiled
  BY <1>1
<1>3. \E content \in {"edited", "cut"} : final' = [final EXCEPT ![m][f] = content]
  BY DEF Spoil
<1>4. {"edited", "cut"} \subseteq Content /\ UNCHANGED part
  BY DEF Content, Spoil
<1> QED
  BY <1>2, <1>3, <1>4, FinalWriteKept DEF FinalKept

LEMMA NextKept ==
  ASSUME IInv, [Next]_vars
  PROVE  Kept
<1>1. CASE \E m \in Model : OperationStep(m)
  BY <1>1, OperationStepKept
<1>2. CASE \E m \in Model : \E f \in File(m) : Spoil(m, f)
  BY <1>2, SpoilKept
<1>3. CASE Loads
  BY <1>3, LoadsKept
<1>4. CASE \/ \E m \in Model : StartDownload(m) \/ StartVerify(m) \/ Cancel(m) \/ Asks(m)
           \/ Shutdown \/ Restart \/ Polls \/ Leaves \/ Runs \/ ComponentEnds
           \/ UNCHANGED vars
  <2>1. UNCHANGED <<final, part>>
    BY <1>4 DEF StartDownload, StartVerify, Cancel, Asks, Shutdown, Restart, Polls,
       Leaves, Runs, ComponentEnds, vars, disk
  <2> QED
    BY <2>1, DiskKept
<1> QED
  BY <1>1, <1>2, <1>3, <1>4 DEF Next

-----------------------------------------------------------------------------
(* The theorems.                                                           *)

(* Files, operations, their places and the worker are well typed, for any  *)
(* registry of models, whatever the server and the surroundings do.        *)
THEOREM DownloadsTypeCorrect == Spec => []TypeOK
<1>1. IInv => TypeOK
  BY DEF IInv
<1> QED
  BY <1>1, Invariance, PTL

(* Whatever the server sends, and wherever a download is canceled, killed  *)
(* and resumed, no bytes but the registered ones get under a file's own    *)
(* name, and a model is shown as ready only with all its files there.      *)
THEOREM NothingElseInstalled == Spec => []InstalledWhole
<1>1. IInv => InstalledWhole
  <2> SUFFICES ASSUME IInv, NEW m \in Model
               PROVE  /\ \A f \in File(m) : final[m][f] # "bad"
                      /\ Shown(m) = "ready" =>
                           \A f \in File(m) : final[m][f] \in {"good", "edited"}
    BY DEF InstalledWhole
  <2> QED
    BY ReadyIsWhole DEF IInv, FilesSound
<1> QED
  BY <1>1, Invariance, PTL

(* The inference runs on the registered bytes of its model and of all that *)
(* this one needs, unless others changed them after they were verified: no *)
(* download, verification or cancel that was started meanwhile hurts them. *)
THEOREM InferenceRunsOnWhole == Spec => []RunsOnWhole
<1>1. IInv => RunsOnWhole
  <2> SUFFICES ASSUME IInv, waiter.pc = "runs",
                      NEW m \in ToSet(Order[waiter.model]) \ unseen
               PROVE  \A f \in File(m) : final[m][f] = "good"
    BY DEF RunsOnWhole
  <2>1. m \in verified
    BY DEF IInv, WaiterSound
  <2>2. m \in Model
    BY <2>1 DEF IInv, TypeOK
  <2> QED
    BY <2>1, <2>2 DEF IInv, VerifiedSound, Settled
<1> QED
  BY <1>1, Invariance, PTL

(* No step of anybody costs a good file or a good part of one, except those*)
(* DownloadedKept names: a server that starts over or sends too much, a    *)
(* cancel during a verification, and others.                               *)
THEOREM GoodBytesKept == Spec => DownloadedKept
<1>1. IInv /\ [Next]_vars => [Kept]_vars
  BY NextKept
<1> QED
  BY <1>1, Invariance, PTL DEF Spec, DownloadedKept
=============================================================================
