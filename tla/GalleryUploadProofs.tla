-------------------------- MODULE GalleryUploadProofs --------------------------
(***************************************************************************)
(* Proofs about the gallery upload: its types, what the shown statuses     *)
(* promise, that no image is lost or stored twice, that what is called     *)
(* completed is, that the upload implements ImageDelivery, and what is     *)
(* shown when all is at rest.                                              *)
(***************************************************************************)
EXTENDS MCGallery, FiniteSetTheorems, SequenceTheorems, TLAPS

-----------------------------------------------------------------------------
(* Types.  The records stay unexpanded: lemmas say what a change of a      *)
(* field leaves of them, and each part of TypeOK has a lemma with one case *)
(* per action.                                                             *)

\* Sets of images have a size.
LEMMA NumImages == /\ Cardinality(Images) \in Nat /\ Cardinality(Accepted) \in Nat
                   /\ \A S \in SUBSET Images : Cardinality(S) \in Nat
<1>1. \A S \in SUBSET Images : IsFiniteSet(S) /\ Cardinality(S) \in Nat
  BY ImagesAssumption, FS_Subset, FS_CardinalityType
<1>. QED
  BY <1>1, ImagesAssumption DEF Accepted

\* The names of the statuses are statuses.
LEMMA StatusNames ==
  /\ "ready" \in Status /\ "queued" \in Status /\ "uploading" \in Status
  /\ "completed" \in Status /\ "incomplete" \in Status /\ "failed" \in Status
  /\ "upload_failed" \in Status /\ "scanning" \in Status /\ "scan_failed" \in Status
  BY DEF Status

\* The fields of an item, and what a change of one leaves.
LEMMA ItemFields ==
  ASSUME NEW it \in Item
  PROVE  /\ it.status \in Status /\ it.gid \in BOOLEAN /\ it.done \in SUBSET Images
         /\ it.counted \in Nat /\ it.total \in Nat
         /\ \A s \in Status : [it EXCEPT !.status = s] \in Item
         /\ \A i \in Images : [it EXCEPT !.done = @ \cup {i}] \in Item
  BY DEF Item

\* A write of one status keeps the items' type.
LEMMA WithStatusType ==
  ASSUME ItemsOK, NEW g \in Galleries, NEW s \in Status
  PROVE  WithStatus(g, s) \in [Galleries -> Item]
  BY ItemFields DEF WithStatus, ItemsOK

\* The fields of the worker; a busy one has a gallery.
LEMMA AtWork ==
  ASSUME WorkerOK
  PROVE  /\ worker.pc # "idle" => worker.g \in Galleries
         /\ worker.g \in Galleries \cup {None}
         /\ worker.pc \in Pc /\ worker.base \in Nat /\ worker.succ \in Nat /\ worker.tot \in Nat
         /\ worker.todo \in SUBSET Images /\ worker.flying \in SUBSET Images
         /\ worker.up \in SUBSET Images /\ worker.failed \in SUBSET Images /\ worker.pass \in Nat
  BY DEF WorkerOK, Worker

\* What the user does keeps the items' type.
LEMMA ItemsByUser ==
  ASSUME TypeOK, NEW g \in Galleries, User(g)
  PROVE  ItemsOK'
<1>1. CASE StartItem(g)
  BY <1>1, WithStatusType, StatusNames DEF TypeOK, StartItem, ItemsOK
<1>2. CASE CancelItem(g)
  BY <1>2, WithStatusType, StatusNames DEF TypeOK, CancelItem, ItemsOK
<1>3. CASE RetryFailed(g)
  BY <1>3, StatusNames DEF TypeOK, RetryFailed, ItemsOK, Item
<1>4. CASE ResetGallery(g)
  BY <1>4, StatusNames DEF TypeOK, ResetGallery, ItemsOK, Item
<1>5. CASE Rescan(g)
  BY <1>5 DEF TypeOK, Rescan, ItemsOK
<1>. QED
  BY <1>1, <1>2, <1>3, <1>4, <1>5 DEF User

\* So do pauses, stops, scans, timers and restarts.
LEMMA ItemsByOthers ==
  ASSUME TypeOK,
         \/ PauseAll \/ (\E g \in Galleries : StopItem(g)) \/ Scan \/ LateReady
         \/ TimerFires \/ WriterWrites \/ Crash
  PROVE  ItemsOK'
<1>1. CASE PauseAll
  BY <1>1, ItemFields, StatusNames DEF TypeOK, PauseAll, ItemsOK
<1>2. CASE \E g \in Galleries : StopItem(g)
  BY <1>2, WithStatusType, StatusNames DEF TypeOK, StopItem, ItemsOK
<1>3. CASE Scan
  <2>1. CASE ScanBegin
    <3>1. scans # <<>> /\ Head(scans) \in Galleries
      BY <2>1 DEF ScanBegin, TypeOK, QueuesOK
    <3>2. [item[Head(scans)] EXCEPT !.status = "scanning", !.total = Cardinality(Images)] \in Item
      BY <3>1, NumImages, StatusNames DEF TypeOK, ItemsOK, Item
    <3>. QED
      BY <2>1, <3>1, <3>2 DEF ScanBegin, TypeOK, ItemsOK
  <2>2. CASE ScanFinds
    <3>1. scanning \in Galleries
      BY <2>2 DEF ScanFinds, TypeOK, QueuesOK
    <3>. QED
      BY <2>2, <3>1, WithStatusType, StatusNames DEF ScanFinds, TypeOK, ItemsOK
  <2>3. CASE ScanFails
    <3>1. scanning \in Galleries
      BY <2>3 DEF ScanFails, TypeOK, QueuesOK
    <3>. QED
      BY <2>3, <3>1, WithStatusType, StatusNames DEF ScanFails, TypeOK, ItemsOK
  <2>. QED
    BY <1>3, <2>1, <2>2, <2>3 DEF Scan
<1>4. CASE LateReady
  BY <1>4, WithStatusType, StatusNames DEF LateReady, TypeOK, ItemsOK, QueuesOK
<1>5. CASE TimerFires \/ WriterWrites
  BY <1>5 DEF TimerFires, WriterWrites, TypeOK, ItemsOK
<1>6. CASE Crash
  <2>1. \A row \in Row : Loaded(row) \in Item
    BY NumImages, StatusNames DEF Loaded, Item, Row
  <2>. QED
    BY <1>6, <2>1 DEF Crash, Reload, TypeOK, ItemsOK, SavesOK
<1>. QED
  BY <1>1, <1>2, <1>3, <1>4, <1>5, <1>6

\* A stored image.
LEMMA StoredType ==
  ASSUME TypeOK, NEW g \in Galleries, NEW i \in Images, Stored(g, i)
  PROVE  ItemsOK' /\ SentOK'
<1>1. ItemsOK'
  BY ItemFields DEF Stored, Arrives, TypeOK, ItemsOK
<1>2. SentOK'
  BY DEF Stored, Arrives, TypeOK, SentOK
<1>. QED
  BY <1>1, <1>2

\* So does every step of the worker.
LEMMA ItemsByWorker ==
  ASSUME TypeOK, WorkerStep
  PROVE  ItemsOK'
<1>1. CASE TakeItem \/ Drop \/ LowDisk \/ EnterEngine \/ Resume \/ NextPass
  BY <1>1 DEF TypeOK, ItemsOK, TakeItem, Drop, LowDisk, EnterEngine, Resume, NextPass, queueVars
<1>2. CASE BeginFails \/ Begin \/ EarlyStop \/ FolderGone \/ CreateFails
  <2>1. worker.g \in Galleries
    BY <1>2, AtWork DEF TypeOK, BeginFails, Begin, EarlyStop, FolderGone, CreateFails
  <2>2. \E s \in Status : item' = WithStatus(worker.g, s)
    BY <1>2, StatusNames DEF BeginFails, Begin, EarlyStop, FolderGone, CreateFails, GivesUp, Becomes
  <2>. QED
    BY <2>1, <2>2, WithStatusType DEF TypeOK, ItemsOK
<1>3. CASE CreateGallery
  <2>1. worker.g \in Galleries
    BY <1>3, AtWork DEF TypeOK, CreateGallery
  <2>2. \E i \in Images : Stored(worker.g, i)
    BY <1>3 DEF CreateGallery, Left, Accepted
  <2>. QED
    BY <2>1, <2>2, StoredType
<1>4. CASE \E i \in Images : Image(i)
  <2>1. worker.g \in Galleries
    BY <1>4, AtWork DEF TypeOK, Image, ImageUploaded, ImageFails
  <2>2. (\E i \in Images : Stored(worker.g, i)) \/ item' = item
    BY <1>4 DEF Image, ImageUploaded, ImageFails, queueVars
  <2>. QED
    BY <2>1, <2>2, StoredType DEF TypeOK, ItemsOK
<1>5. CASE Report
  <2>1. worker.g \in Galleries /\ item[worker.g] \in Item
    BY <1>5, AtWork DEF TypeOK, Report, ItemsOK
  <2>2. \E s \in Status : item' = [item EXCEPT ![worker.g].gid = TRUE, ![worker.g].status = s]
    BY <1>5, <2>1, StatusNames, ItemFields DEF Report, Current
  <2>3. \A s \in Status : [item[worker.g] EXCEPT !.gid = TRUE, !.status = s] \in Item
    BY <2>1 DEF Item
  <2>. QED
    BY <2>1, <2>2, <2>3 DEF TypeOK, ItemsOK
<1>6. CASE Finish
  <2>1. worker.g \in Galleries
    BY <1>6, AtWork DEF TypeOK, Finish
  <2>2. Outcome \in Status
    BY StatusNames DEF Outcome
  <2>. QED
    BY <1>6, <2>1, <2>2, WithStatusType DEF Finish, TypeOK, ItemsOK
<1>. QED
  BY <1>1, <1>2, <1>3, <1>4, <1>5, <1>6 DEF WorkerStep

\* The next signal is about a gallery.
LEMMA FirstSignal ==
  ASSUME SignalsOK, signals # <<>>
  PROVE  /\ Head(signals) \in SignalSet /\ Tail(signals) \in Seq(SignalSet)
         /\ Head(signals).g \in Galleries
         /\ Head(signals).n \in Nat /\ Head(signals).total \in Nat
<1>1. Head(signals) \in SignalSet /\ Tail(signals) \in Seq(SignalSet)
  BY DEF SignalsOK
<1>. QED
  BY <1>1 DEF SignalSet

\* So do the handlers of the main thread.
LEMMA ItemsByMainThread ==
  ASSUME TypeOK, MainThread
  PROVE  ItemsOK'
<1>1. CASE HandleSignal
  <2>. DEFINE s == Head(signals)
  <2>1. s.g \in Galleries /\ s.n \in Nat /\ s.total \in Nat
    BY <1>1, FirstSignal DEF HandleSignal, TypeOK
  <2>2. item[s.g] \in Item
    BY <2>1 DEF TypeOK, ItemsOK
  <2>3. Started(s) \/ Progressed(s) \/ Completed(s) \/ Failed(s)
    BY <1>1 DEF HandleSignal
  <2>. HIDE DEF s
  <2>4. CASE Started(s)
    <3>1. [item[s.g] EXCEPT !.total = s.total, !.counted = 0] \in Item
      BY <2>1, <2>2 DEF Item
    <3>. QED
      BY <2>1, <2>4, <3>1 DEF Started, TypeOK, ItemsOK
  <2>5. CASE Progressed(s)
    <3>1. [item[s.g] EXCEPT !.counted = s.n, !.total = s.total] \in Item
      BY <2>1, <2>2 DEF Item
    <3>. QED
      BY <2>1, <2>5, <3>1 DEF Progressed, TypeOK, ItemsOK
  <2>6. CASE Completed(s)
    <3>1. \A t \in Nat, st \in Status :
             [item[s.g] EXCEPT !.status = st, !.counted = s.n, !.total = t, !.gid = TRUE] \in Item
      BY <2>1, <2>2 DEF Item
    <3>2. item[s.g].total \in Nat
      BY <2>2, ItemFields
    <3>3. \E t \in Nat, st \in Status : item' = [item EXCEPT ![s.g] =
             [@ EXCEPT !.status = st, !.counted = s.n, !.total = t, !.gid = TRUE]]
      BY <2>1, <2>6, <3>2, StatusNames DEF Completed
    <3>. QED
      BY <2>1, <3>1, <3>3 DEF TypeOK, ItemsOK
  <2>7. CASE Failed(s)
    BY <2>1, <2>7, WithStatusType, StatusNames DEF Failed, TypeOK, ItemsOK
  <2>. QED
    BY <2>3, <2>4, <2>5, <2>6, <2>7
<1>2. CASE FlushBatch
  BY <1>2, ItemFields, StatusNames DEF FlushBatch, TypeOK, ItemsOK
<1>. QED
  BY <1>1, <1>2 DEF MainThread

-----------------------------------------------------------------------------
UserSteps == \E g \in Galleries : User(g)
Timers == TimerFires \/ WriterWrites

\* Every step keeps the type of the two queues, scan and timers.
LEMMA QueuesNext ==
  ASSUME TypeOK, Next
  PROVE  QueuesOK'
<1>1. CASE UserSteps
  <2>1. PICK g \in Galleries : User(g)
    BY <1>1 DEF UserSteps
  <2>2. queue' \in Seq(Galleries)
    BY <2>1 DEF User, StartItem, CancelItem, RetryFailed, ResetGallery, Rescan, Put, TypeOK, QueuesOK
  <2>3. scans' \in Seq(Galleries)
    BY <2>1 DEF User, StartItem, CancelItem, RetryFailed, ResetGallery, Rescan, scanVars,
       TypeOK, QueuesOK
  <2>4. scanning' = scanning /\ late' \in SUBSET Galleries
    BY <2>1 DEF User, StartItem, CancelItem, RetryFailed, ResetGallery, Rescan, scanVars,
       TypeOK, QueuesOK
  <2>. QED
    BY <2>2, <2>3, <2>4 DEF TypeOK, QueuesOK
<1>2. CASE PauseAll \/ (\E g \in Galleries : StopItem(g)) \/ Timers
  BY <1>2 DEF PauseAll, StopItem, Timers, TimerFires, WriterWrites, scanVars, TypeOK, QueuesOK
<1>3. CASE Scan
  <2>1. CASE ScanBegin
    BY <2>1 DEF ScanBegin, TypeOK, QueuesOK
  <2>2. CASE ScanFinds
    BY <2>2 DEF ScanFinds, Put, TypeOK, QueuesOK
  <2>3. CASE ScanFails
    BY <2>3 DEF ScanFails, TypeOK, QueuesOK
  <2>. QED
    BY <1>3, <2>1, <2>2, <2>3 DEF Scan
<1>4. CASE LateReady
  BY <1>4 DEF LateReady, TypeOK, QueuesOK
<1>5. CASE WorkerStep
  <2>1. CASE TakeItem \/ Drop \/ LowDisk
    BY <2>1 DEF TakeItem, Drop, LowDisk, scanVars, TypeOK, QueuesOK
  <2>2. CASE BeginFails \/ Begin \/ EarlyStop \/ EnterEngine \/ FolderGone \/ Resume
             \/ CreateGallery \/ CreateFails
    BY <2>2 DEF BeginFails, Begin, EarlyStop, EnterEngine, FolderGone, Resume, CreateGallery,
       CreateFails, GivesUp, scanVars, queueVars, TypeOK, QueuesOK
  <2>3. CASE (\E i \in Images : Image(i)) \/ NextPass \/ Report \/ Finish
    BY <2>3 DEF Image, ImageUploaded, ImageFails, NextPass, Report, Finish, scanVars, queueVars,
       TypeOK, QueuesOK
  <2>. QED
    BY <1>5, <2>1, <2>2, <2>3 DEF WorkerStep
<1>6. CASE MainThread
  BY <1>6 DEF MainThread, HandleSignal, FlushBatch, scanVars, TypeOK, QueuesOK
<1>7. CASE Crash
  BY <1>7 DEF Crash, Reload, TypeOK, QueuesOK
<1>. QED
  BY <1>1, <1>2, <1>3, <1>4, <1>5, <1>6, <1>7 DEF Next, Steps, UserSteps, Timers

\* What is saved of an item is a row.
LEMMA RowType == \A it \in Item : RowOf(it) \in Row
  BY DEF RowOf, Row, Item

\* The ways to save.
LEMMA SaveKinds ==
  ASSUME TypeOK
  PROVE  /\ \A g \in Galleries : Debounced(g) \/ DebouncedElsewhere(g) => SavesOK'
         /\ NotSaved => SavesOK'
         /\ \A g \in Galleries, it \in Item : SavedAtOnce(g, it) => SavesOK'
<1>1. \A g \in Galleries : Debounced(g) \/ DebouncedElsewhere(g) => SavesOK'
  BY DEF TypeOK, SavesOK, Debounced, DebouncedElsewhere, Pending
<1>2. NotSaved => SavesOK'
  BY DEF TypeOK, SavesOK, NotSaved, saveVars
<1>3. \A g \in Galleries, it \in Item : SavedAtOnce(g, it) => SavesOK'
  BY RowType DEF TypeOK, SavesOK, SavedAtOnce
<1>. QED
  BY <1>1, <1>2, <1>3

\* Every step keeps the type of what is saved and to be saved.
LEMMA SavesNext ==
  ASSUME TypeOK, Next, ItemsOK'
  PROVE  SavesOK'
<1>1. CASE UserSteps
  BY <1>1, SaveKinds DEF UserSteps, User, StartItem, CancelItem, RetryFailed, ResetGallery,
     Rescan, NotSaved
<1>2. CASE PauseAll \/ (\E g \in Galleries : StopItem(g)) \/ MainThread
  BY <1>2, SaveKinds DEF PauseAll, StopItem, MainThread, HandleSignal, FlushBatch
<1>3. CASE Timers
  <2>1. CASE TimerFires
    <3>1. timer \in Galleries /\ item[timer] \in Item
      BY <2>1 DEF TimerFires, TypeOK, SavesOK, ItemsOK
    <3>2. [g |-> timer, row |-> RowOf(item[timer])] \in Save
      BY <3>1, RowType DEF Save
    <3>3. \A s \in Save : Append(writes, s) \in Seq(Save)
      BY DEF TypeOK, SavesOK
    <3>4. writes' \in Seq(Save)
      BY <2>1, <3>2, <3>3 DEF TimerFires, TypeOK, SavesOK
    <3>. QED
      BY <2>1, <3>4 DEF TimerFires, TypeOK, SavesOK
  <2>2. CASE WriterWrites
    <3>1. Head(writes) \in Save /\ Tail(writes) \in Seq(Save)
      BY <2>2 DEF WriterWrites, TypeOK, SavesOK
    <3>2. Head(writes).g \in Galleries /\ Head(writes).row \in Row
      BY <3>1 DEF Save
    <3>. QED
      BY <2>2, <3>1, <3>2 DEF WriterWrites, TypeOK, SavesOK
  <2>. QED
    BY <1>3, <2>1, <2>2 DEF Timers
<1>4. CASE Scan \/ LateReady
  <2>1. scanning # None => scanning \in Galleries
    BY DEF TypeOK, QueuesOK
  <2>2. late \subseteq Galleries
    BY DEF TypeOK, QueuesOK
  <2>. QED
    BY <1>4, <2>1, <2>2, SaveKinds DEF Scan, ScanBegin, ScanFinds, ScanFails, LateReady
<1>5. CASE WorkerStep
  <2>1. CASE TakeItem \/ Drop \/ EnterEngine \/ Resume \/ CreateGallery \/ NextPass
             \/ \E i \in Images : Image(i)
    BY <2>1, SaveKinds DEF TakeItem, Drop, EnterEngine, Resume, CreateGallery, NextPass,
       Image, ImageUploaded, ImageFails, queueVars, saveVars, NotSaved
  <2>2. CASE LowDisk
    <3>1. Head(queue) \in Galleries
      BY <2>2 DEF LowDisk, TypeOK, QueuesOK
    <3>. QED
      BY <2>2, <3>1, SaveKinds DEF LowDisk
  <2>3. CASE BeginFails \/ Begin \/ EarlyStop \/ FolderGone \/ CreateFails
    <3>1. worker.g \in Galleries
      BY <2>3, AtWork DEF TypeOK, BeginFails, Begin, EarlyStop, FolderGone, CreateFails
    <3>. QED
      BY <2>3, <3>1, SaveKinds DEF BeginFails, Begin, EarlyStop, FolderGone, CreateFails,
         GivesUp, Becomes
  <2>4. CASE Report
    <3>1. worker.g \in Galleries
      BY <2>4, AtWork DEF TypeOK, Report
    <3>2. DebouncedElsewhere(worker.g) \/ NotSaved
      BY <2>4 DEF Report
    <3>. QED
      BY <3>1, <3>2, SaveKinds
  <2>5. CASE Finish
    <3>1. worker.g \in Galleries /\ item'[worker.g] \in Item
      BY <2>5, AtWork DEF TypeOK, Finish, ItemsOK
    <3>. QED
      BY <2>5, <3>1, SaveKinds DEF Finish
  <2>. QED
    BY <1>5, <2>1, <2>2, <2>3, <2>4, <2>5 DEF WorkerStep
<1>6. CASE Crash
  BY <1>6 DEF Crash, Reload, TypeOK, SavesOK
<1>. QED
  BY <1>1, <1>2, <1>3, <1>4, <1>5, <1>6 DEF Next, Steps, UserSteps, Timers

\* Every step keeps the type of the host's store.
LEMMA SentNext ==
  ASSUME TypeOK, Next
  PROVE  SentOK'
<1>1. CASE UserSteps \/ PauseAll \/ (\E g \in Galleries : StopItem(g)) \/ Timers \/ Scan \/ LateReady
           \/ MainThread
  <2>. sent' = sent
    BY <1>1 DEF UserSteps, User, StartItem, CancelItem, RetryFailed, ResetGallery, Rescan, PauseAll,
       StopItem, Timers, TimerFires, WriterWrites, Scan, ScanBegin, ScanFinds, ScanFails, LateReady,
       MainThread, HandleSignal, FlushBatch
  <2>. QED
    BY DEF TypeOK, SentOK
<1>2. CASE WorkerStep
  <2>1. CASE CreateGallery \/ \E i \in Images : ImageUploaded(i)
    <3>1. worker.g \in Galleries
      BY <2>1, AtWork DEF TypeOK, CreateGallery, ImageUploaded
    <3>2. \E i \in Images : Stored(worker.g, i)
      BY <2>1 DEF CreateGallery, ImageUploaded, Left, Accepted
    <3>. QED
      BY <3>1, <3>2, StoredType
  <2>2. CASE sent' = sent
    BY <2>2 DEF TypeOK, SentOK
  <2>3. CASE \E i \in Images : ImageFails(i)
    BY <2>3 DEF ImageFails, Arrives, TypeOK, SentOK
  <2>. QED
    BY <1>2, <2>1, <2>2, <2>3 DEF WorkerStep, TakeItem, Drop, LowDisk, BeginFails, Begin, EarlyStop,
       EnterEngine, FolderGone, Resume, CreateFails, GivesUp, Image, NextPass, Report,
       Finish, queueVars
<1>3. CASE Crash
  BY <1>3 DEF Crash, TypeOK, SentOK
<1>. QED
  BY <1>1, <1>2, <1>3 DEF Next, Steps, UserSteps, Timers

\* A worker between two galleries.
LEMMA IdleType == \A g \in Galleries \cup {None} : Idle(g) \in Worker /\ Idle(g).g = g /\ Idle(g).pc = "idle"
  BY DEF Idle, Worker, Pc

\* What Primed and Submitted need of the record they start from.
LEMMA PrimedType ==
  ASSUME NEW w \in Worker, Primed(w)
  PROVE  worker' \in Worker /\ worker'.g = w.g /\ worker'.pc = "pool"
  BY DEF Primed, Worker, Pc

\* So does the image that takes a place in the pool.
LEMMA SubmittedType ==
  ASSUME NEW w \in Worker, Submitted(w)
  PROVE  worker' \in Worker /\ worker'.g = w.g /\ worker'.pc = w.pc
<1>1. CASE worker' = w
  BY <1>1
<1>2. CASE \E i \in w.todo : worker' = [w EXCEPT !.flying = @ \cup {i}, !.todo = @ \ {i}]
  <2>1. PICK i \in w.todo : worker' = [w EXCEPT !.flying = @ \cup {i}, !.todo = @ \ {i}]
    BY <1>2
  <2>2. i \in Images
    BY <2>1 DEF Worker
  <2>. QED
    BY <2>1, <2>2 DEF Worker
<1>. QED
  BY <1>1, <1>2 DEF Submitted

\* Every step keeps the type of the worker.
LEMMA WorkerNext ==
  ASSUME TypeOK, Next
  PROVE  WorkerOK'
<1>1. CASE UNCHANGED workerVars
  BY <1>1 DEF workerVars, TypeOK, WorkerOK
<1>2. CASE (\E g \in Galleries : StopItem(g)) \/ MainThread
  BY <1>2 DEF StopItem, MainThread, HandleSignal, FlushBatch, workerVars, TypeOK, WorkerOK
<1>3. CASE Crash
  BY <1>3, IdleType DEF Crash, WorkerOK
<1>4. CASE WorkerStep
  <2>. worker \in Worker /\ soft \in Galleries \cup {None}
    BY DEF TypeOK, WorkerOK
  <2>1. CASE TakeItem \/ Drop \/ LowDisk
    <3>1. Head(queue) \in Galleries
      BY <2>1 DEF TakeItem, Drop, LowDisk, TypeOK, QueuesOK
    <3>2. [Idle(Head(queue)) EXCEPT !.pc = "taken"] \in Worker
      BY <3>1 DEF Idle, Worker, Pc
    <3>3. [Idle(Head(queue)) EXCEPT !.pc = "taken"].g = Head(queue)
      BY DEF Idle
    <3>. QED
      BY <2>1, <3>1, <3>2, <3>3, NoneAssumption DEF TakeItem, Drop, LowDisk, workerVars, TypeOK, WorkerOK
  <2>2. CASE BeginFails \/ EarlyStop \/ FolderGone \/ CreateFails \/ Finish
    <3>1. worker' = Idle(worker.g) /\ soft' = soft
      BY <2>2 DEF BeginFails, EarlyStop, FolderGone, CreateFails, Finish, GivesUp, Leaves
    <3>. QED
      BY <3>1, AtWork, IdleType DEF TypeOK, WorkerOK
  <2>3. CASE Begin \/ EnterEngine
    <3>1. worker.g # None
      BY <2>3 DEF Begin, EnterEngine, TypeOK, WorkerOK
    <3>2. worker' \in Worker /\ worker'.g = worker.g
      BY <2>3 DEF Begin, EnterEngine, SetPc, Worker, Pc
    <3>. QED
      BY <2>3, <3>1, <3>2 DEF Begin, EnterEngine, WorkerOK
  <2>4. CASE Resume \/ CreateGallery \/ NextPass
    <3>1. worker.g # None /\ soft' = soft
      BY <2>4 DEF Resume, CreateGallery, NextPass, TypeOK, WorkerOK
    <3>2. worker' \in Worker /\ worker'.g = worker.g
      <4>1. CASE Resume
        <5>1. item[worker.g].done \in SUBSET Images /\ Left(Current) \in SUBSET Images
          BY <3>1, ItemFields DEF TypeOK, WorkerOK, ItemsOK, Worker, Left, Accepted, Current
        <5>2. Cardinality(Current.done) \in Nat
          BY <5>1, NumImages DEF Current
        <5>3. [worker EXCEPT !.todo = Left(Current), !.base = Cardinality(Current.done)] \in Worker
          BY <5>1, <5>2 DEF Worker
        <5>4. [worker EXCEPT !.todo = Left(Current), !.base = Cardinality(Current.done)].g = worker.g
          BY DEF Worker
        <5>. QED
          BY <4>1, <5>3, <5>4, PrimedType DEF Resume
      <4>2. CASE CreateGallery
        <5>1. PICK i \in Left(Current) :
                 Primed([worker EXCEPT !.todo = Left(Current) \ {i}, !.base = 1])
          BY <4>2 DEF CreateGallery
        <5>2. Left(Current) \ {i} \in SUBSET Images
          BY DEF Left, Accepted
        <5>3. /\ [worker EXCEPT !.todo = Left(Current) \ {i}, !.base = 1] \in Worker
              /\ [worker EXCEPT !.todo = Left(Current) \ {i}, !.base = 1].g = worker.g
          BY <5>2 DEF Worker
        <5>. QED
          BY <5>1, <5>3, PrimedType
      <4>3. CASE NextPass
        <5>1. worker.failed \in SUBSET Images /\ worker.pass + 1 \in Nat
          BY AtWork DEF TypeOK
        <5>2. /\ [worker EXCEPT !.todo = worker.failed, !.failed = {}, !.pass = @ + 1] \in Worker
              /\ [worker EXCEPT !.todo = worker.failed, !.failed = {}, !.pass = @ + 1].g = worker.g
          BY <5>1 DEF Worker
        <5>. QED
          BY <4>3, <5>2, PrimedType DEF NextPass
      <4>. QED
        BY <2>4, <4>1, <4>2, <4>3
    <3>. QED
      BY <3>1, <3>2 DEF WorkerOK
  <2>5. CASE \E i \in Images : Image(i)
    <3>1. PICK i \in Images : Image(i)
      BY <2>5
    <3>2. worker.g # None /\ soft' = soft
      BY <3>1 DEF Image, ImageUploaded, ImageFails, TypeOK, WorkerOK
    <3>3. /\ [worker EXCEPT !.flying = @ \ {i}, !.up = @ \cup {i}] \in Worker
          /\ [worker EXCEPT !.flying = @ \ {i}, !.failed = @ \cup {i}] \in Worker
          /\ [worker EXCEPT !.flying = @ \ {i}, !.up = @ \cup {i}].g = worker.g
          /\ [worker EXCEPT !.flying = @ \ {i}, !.failed = @ \cup {i}].g = worker.g
      BY DEF Worker
    <3>4. worker' \in Worker /\ worker'.g = worker.g
      BY <3>1, <3>3, SubmittedType DEF Image, ImageUploaded, ImageFails
    <3>. QED
      BY <3>2, <3>4 DEF WorkerOK
  <2>6. CASE Report
    <3>1. worker.g \in Galleries /\ soft' = soft
      BY <2>6, AtWork DEF Report, TypeOK
    <3>2. Successful \in Nat /\ Total \in Nat
      <4>1. item[worker.g].done \in SUBSET Images
        BY <3>1, ItemFields DEF TypeOK, ItemsOK
      <4>2. worker.base + Cardinality(worker.up) \in Nat
        BY AtWork, NumImages DEF TypeOK
      <4>3. Cardinality(Current.done) \in Nat
        BY <4>1, NumImages DEF Current
      <4>. QED
        BY <4>2, <4>3, NumImages DEF Successful, Total
    <3>3. [worker EXCEPT !.pc = "finish", !.succ = Successful, !.tot = Total] \in Worker
      BY <3>2 DEF Worker, Pc
    <3>4. worker' = Idle(worker.g)
          \/ worker' = [worker EXCEPT !.pc = "finish", !.succ = Successful, !.tot = Total]
      BY <2>6 DEF Report, Leaves
    <3>5. worker' \in Worker /\ worker'.g = worker.g
      <4>1. [worker EXCEPT !.pc = "finish", !.succ = Successful, !.tot = Total].g = worker.g
        BY DEF Worker
      <4>. QED
        BY <3>1, <3>3, <3>4, <4>1, IdleType
    <3>. QED
      BY <3>1, <3>5, NoneAssumption DEF WorkerOK
  <2>. QED
    BY <1>4, <2>1, <2>2, <2>3, <2>4, <2>5, <2>6 DEF WorkerStep
<1>. QED
  BY <1>1, <1>2, <1>3, <1>4 DEF Next, Steps

\* A signal that is emitted.
LEMMA EmitType ==
  ASSUME TypeOK, worker.g \in Galleries, NEW n \in Nat, NEW total \in Nat,
         NEW kind \in {"started", "progress", "completed", "failed"}, Emit(kind, n, total)
  PROVE  signals' \in Seq(SignalSet)
<1>1. Signal(kind, n, total) \in SignalSet
  BY DEF Signal, SignalSet
<1>2. \A s \in SignalSet : Append(signals, s) \in Seq(SignalSet)
  BY DEF TypeOK, SignalsOK
<1>. QED
  BY <1>1, <1>2 DEF Emit

\* Every step keeps the type of signals and batch.
LEMMA SignalsNext ==
  ASSUME TypeOK, Next, WorkerOK'
  PROVE  SignalsOK'
<1>1. CASE UNCHANGED <<signals, batch>>
  BY <1>1 DEF TypeOK, SignalsOK
<1>2. CASE HandleSignal
  <2>1. signals # <<>> /\ Head(signals).g \in Galleries /\ signals' \in Seq(SignalSet)
    BY <1>2, FirstSignal DEF HandleSignal, TypeOK
  <2>2. \A g \in Galleries, final \in BOOLEAN :
           [batch EXCEPT ![g] = IF final THEN "final" ELSE "some"] \in [Galleries -> Update]
    BY DEF TypeOK, SignalsOK, Update
  <2>3. batch' \in [Galleries -> Update]
    BY <1>2, <2>1, <2>2 DEF HandleSignal, Started, Progressed, Completed, Failed, BatchUpdate,
       TypeOK, SignalsOK
  <2>. QED
    BY <2>1, <2>3 DEF SignalsOK
<1>3. CASE FlushBatch
  BY <1>3 DEF FlushBatch, workerVars, TypeOK, SignalsOK, Update
<1>4. CASE Crash
  BY <1>4 DEF Crash, SignalsOK, Update
<1>5. CASE WorkerStep /\ UNCHANGED batch
  <2>. batch' \in [Galleries -> Update]
    BY <1>5 DEF TypeOK, SignalsOK
  <2>1. CASE signals' = signals
    BY <2>1 DEF TypeOK, SignalsOK
  <2>2. CASE BeginFails \/ FolderGone \/ CreateFails
    <3>1. worker.g \in Galleries /\ Emit("failed", 0, 0)
      BY <2>2, AtWork DEF BeginFails, FolderGone, CreateFails, GivesUp, TypeOK
    <3>. QED
      BY <3>1, EmitType DEF SignalsOK
  <2>3. CASE Begin
    <3>1. worker.g \in Galleries /\ Emit("started", 0, Current.total)
      BY <2>3, AtWork DEF Begin, TypeOK
    <3>2. Current.total \in Nat
      BY <3>1, ItemFields DEF Current, TypeOK, ItemsOK
    <3>. QED
      BY <3>1, <3>2, EmitType DEF SignalsOK
  <2>4. CASE Resume \/ CreateGallery \/ \E i \in Images : Image(i)
    <3>1. worker.g \in Galleries
      BY <2>4, AtWork DEF Resume, CreateGallery, Image, ImageUploaded, ImageFails, TypeOK
    <3>2. Cardinality(Current.done) \in Nat
      BY <3>1, ItemFields, NumImages DEF Current, TypeOK, ItemsOK
    <3>3. \A i \in worker.flying : 
             /\ worker.base + Cardinality(worker.up \cup {i}) \in Nat
             /\ worker.base + Cardinality(worker.up) \in Nat
      <4>1. \A i \in worker.flying : worker.up \cup {i} \in SUBSET Images
        BY AtWork DEF TypeOK
      <4>. QED
        BY <4>1, AtWork, NumImages DEF TypeOK
    <3>4. \E n \in Nat : Emit("progress", n, Cardinality(Accepted))
      <4>1. CASE Resume
        BY <4>1, <3>2 DEF Resume
      <4>2. CASE CreateGallery
        BY <4>2 DEF CreateGallery
      <4>3. CASE \E i \in Images : Image(i)
        <5>1. PICK i \in Images : Image(i)
          BY <4>3
        <5>2. i \in worker.flying
          BY <5>1 DEF Image, ImageUploaded, ImageFails
        <5>3. CASE ImageUploaded(i)
          <6>1. /\ [worker EXCEPT !.flying = @ \ {i}, !.up = @ \cup {i}].base = worker.base
                /\ [worker EXCEPT !.flying = @ \ {i}, !.up = @ \cup {i}].up = worker.up \cup {i}
            BY DEF TypeOK, WorkerOK, Worker
          <6>. QED
            BY <5>2, <5>3, <6>1, <3>3 DEF ImageUploaded, Progress
        <5>4. CASE ImageFails(i)
          <6>1. /\ [worker EXCEPT !.flying = @ \ {i}, !.failed = @ \cup {i}].base = worker.base
                /\ [worker EXCEPT !.flying = @ \ {i}, !.failed = @ \cup {i}].up = worker.up
            BY DEF TypeOK, WorkerOK, Worker
          <6>. QED
            BY <5>2, <5>4, <6>1, <3>3 DEF ImageFails, Progress
        <5>. QED
          BY <5>1, <5>3, <5>4 DEF Image
      <4>. QED
        BY <2>4, <4>1, <4>2, <4>3
    <3>. QED
      BY <3>1, <3>4, NumImages, EmitType DEF SignalsOK
  <2>5. CASE Finish
    <3>1. worker.g \in Galleries /\ Emit("completed", worker.succ, worker.tot)
      BY <2>5, AtWork DEF Finish, TypeOK
    <3>. QED
      BY <3>1, AtWork, EmitType DEF TypeOK, SignalsOK
  <2>. QED
    BY <1>5, <2>1, <2>2, <2>3, <2>4, <2>5 DEF WorkerStep, TakeItem, Drop, LowDisk, EarlyStop,
       EnterEngine, NextPass, Report, workerVars
<1>6. CASE (\E g \in Galleries : StopItem(g)) /\ UNCHANGED batch
  BY <1>6 DEF StopItem, TypeOK, SignalsOK
<1>. QED
  BY <1>1, <1>2, <1>3, <1>4, <1>5, <1>6 DEF Next, Steps, MainThread, workerVars

\* Every step keeps the items' type.
LEMMA ItemsNext ==
  ASSUME TypeOK, Next
  PROVE  ItemsOK'
  BY ItemsByUser, ItemsByOthers, ItemsByWorker, ItemsByMainThread DEF Next, Steps

\* The first state has the types.
LEMMA TypeInit == Init => TypeOK
<1>. SUFFICES ASSUME Init PROVE TypeOK
  OBVIOUS
<1>1. ItemsOK
  BY NumImages, StatusNames DEF Init, QueueInit, ItemsOK, Item
<1>2. QueuesOK /\ SentOK
  BY DEF Init, QueueInit, QueuesOK, SentOK
<1>3. SavesOK
  <2>1. saved = [g \in Galleries |-> RowOf(item[g])] /\ \A g \in Galleries : item[g] \in Item
    BY <1>1 DEF Init, QueueInit, ItemsOK
  <2>2. \A g \in Galleries : RowOf(item[g]) \in Row
    BY <2>1, RowType
  <2>3. timer \in Galleries \cup {None} /\ writes \in Seq(Save)
    BY DEF Init, QueueInit
  <2>. QED
    BY <2>1, <2>2, <2>3 DEF SavesOK
<1>4. WorkerOK
  BY IdleType DEF Init, WorkerInit, WorkerOK
<1>5. SignalsOK
  BY DEF Init, WorkerInit, SignalsOK, Update
<1>. QED
  BY <1>1, <1>2, <1>3, <1>4, <1>5 DEF TypeOK

\* Every step keeps them.
LEMMA TypeNext == TypeOK /\ [Next]_vars => TypeOK'
<1>. SUFFICES ASSUME TypeOK, [Next]_vars PROVE TypeOK'
  OBVIOUS
<1>1. CASE Next
  BY <1>1, ItemsNext, QueuesNext, SavesNext, SentNext, WorkerNext, SignalsNext DEF TypeOK
<1>2. CASE UNCHANGED vars
  BY <1>2 DEF vars, queueVars, scanVars, saveVars, workerVars, TypeOK, ItemsOK, QueuesOK, SavesOK, SentOK, WorkerOK,
     SignalsOK
<1>. QED
  BY <1>1, <1>2

\* Every variable keeps its type, whatever the galleries, images and bounds.
THEOREM TypeCorrect == Spec => []TypeOK
<1>1. Init => TypeOK
  BY TypeInit
<1>2. TypeOK /\ [Next]_vars => TypeOK'
  BY TypeNext
<1>. QED
  BY <1>1, <1>2, PTL DEF Spec

-----------------------------------------------------------------------------
\* Where a gallery's status comes from.

\* A write of one gallery's status.
LEMMA WriteStatus ==
  ASSUME ItemsOK, NEW g \in Galleries, NEW h \in Galleries, NEW s \in Status
  PROVE  WithStatus(h, s)[g].status = IF g = h THEN s ELSE item[g].status
<1>1. CASE g = h
  BY <1>1 DEF WithStatus, ItemsOK, Item
<1>2. CASE g # h
  BY <1>2 DEF WithStatus, ItemsOK
<1>. QED
  BY <1>1, <1>2

\* Queued comes with an entry, uploading from the worker.
StatusFrom(g) ==
  /\ item'[g].status = "queued" => item[g].status = "queued" \/ queue' = Append(queue, g)
  /\ item'[g].status = "uploading" => item[g].status = "uploading" \/ (Begin /\ g = worker.g)

\* Neither does the user set it otherwise,
LEMMA StatusByUser ==
  ASSUME TypeOK, NEW g \in Galleries, NEW h \in Galleries, User(h)
  PROVE  StatusFrom(g)
<1>1. CASE StartItem(h)
  BY <1>1, WriteStatus, StatusNames DEF StartItem, Put, StatusFrom, TypeOK
<1>2. CASE CancelItem(h)
  BY <1>2, WriteStatus, StatusNames DEF CancelItem, StatusFrom, TypeOK
<1>3. CASE RetryFailed(h)
  BY <1>3 DEF RetryFailed, StatusFrom, TypeOK, ItemsOK, Item
<1>4. CASE ResetGallery(h)
  BY <1>4 DEF ResetGallery, StatusFrom, TypeOK, ItemsOK
<1>5. CASE Rescan(h)
  BY <1>5 DEF Rescan, StatusFrom
<1>. QED
  BY <1>1, <1>2, <1>3, <1>4, <1>5 DEF User

\* nor pauses, stops, scans and restarts,
LEMMA StatusByOthers ==
  ASSUME TypeOK, NEW g \in Galleries,
         \/ PauseAll \/ (\E h \in Galleries : StopItem(h)) \/ Scan \/ LateReady
         \/ TimerFires \/ WriterWrites \/ Crash
  PROVE  StatusFrom(g)
<1>1. CASE PauseAll
  BY <1>1 DEF PauseAll, StatusFrom, TypeOK, ItemsOK, Item
<1>2. CASE \E h \in Galleries : StopItem(h)
  BY <1>2, WriteStatus, StatusNames DEF StopItem, StatusFrom, TypeOK
<1>3. CASE Scan
  <2>1. CASE ScanBegin
    <3>1. scans # <<>> /\ Head(scans) \in Galleries
      BY <2>1 DEF ScanBegin, TypeOK, QueuesOK
    <3>. QED
      BY <2>1, <3>1 DEF ScanBegin, StatusFrom, TypeOK, ItemsOK, Item
  <2>2. CASE ScanFinds
    <3>1. scanning \in Galleries
      BY <2>2 DEF ScanFinds, TypeOK, QueuesOK
    <3>. QED
      BY <2>2, <3>1, WriteStatus, StatusNames DEF ScanFinds, Put, StatusFrom, TypeOK
  <2>3. CASE ScanFails
    <3>1. scanning \in Galleries
      BY <2>3 DEF ScanFails, TypeOK, QueuesOK
    <3>. QED
      BY <2>3, <3>1, WriteStatus, StatusNames DEF ScanFails, StatusFrom, TypeOK
  <2>. QED
    BY <1>3, <2>1, <2>2, <2>3 DEF Scan
<1>4. CASE LateReady
  <2>1. PICK h \in late : item' = WithStatus(h, "ready")
    BY <1>4 DEF LateReady
  <2>2. h \in Galleries
    BY <2>1 DEF TypeOK, QueuesOK
  <2>. QED
    BY <2>1, <2>2, WriteStatus, StatusNames DEF StatusFrom, TypeOK
<1>5. CASE TimerFires \/ WriterWrites
  BY <1>5 DEF TimerFires, WriterWrites, StatusFrom
<1>6. CASE Crash
  <2>1. item'[g] = Loaded(saved[g])
    BY <1>6 DEF Crash, Reload
  <2>2. item'[g].status \notin {"queued", "uploading"}
    BY <2>1 DEF Loaded
  <2>. QED
    BY <2>2 DEF StatusFrom
<1>. QED
  BY <1>1, <1>2, <1>3, <1>4, <1>5, <1>6

\* nor the worker,
LEMMA StatusByWorker ==
  ASSUME TypeOK, NEW g \in Galleries, WorkerStep
  PROVE  StatusFrom(g)
<1>1. CASE item' = item
  BY <1>1 DEF StatusFrom
<1>2. CASE BeginFails \/ Begin \/ EarlyStop \/ FolderGone \/ CreateFails
  <2>1. worker.g \in Galleries
    BY <1>2, AtWork DEF TypeOK, BeginFails, Begin, EarlyStop, FolderGone, CreateFails
  <2>2. Begin \/ \E s \in {"upload_failed", "incomplete"} : item' = WithStatus(worker.g, s)
    BY <1>2 DEF BeginFails, EarlyStop, FolderGone, CreateFails, GivesUp, Becomes
  <2>3. CASE Begin
    BY <2>1, <2>3, WriteStatus, StatusNames DEF Begin, Becomes, StatusFrom, TypeOK
  <2>4. CASE \E s \in {"upload_failed", "incomplete"} : item' = WithStatus(worker.g, s)
    BY <2>1, <2>4, WriteStatus, StatusNames DEF StatusFrom, TypeOK
  <2>. QED
    BY <2>2, <2>3, <2>4
<1>3. CASE CreateGallery \/ \E i \in Images : ImageUploaded(i)
  <2>1. worker.g \in Galleries
    BY <1>3, AtWork DEF TypeOK, CreateGallery, ImageUploaded
  <2>2. PICK i \in Images : Stored(worker.g, i)
    BY <1>3 DEF CreateGallery, ImageUploaded, Left, Accepted
  <2>3. item'[g].status = item[g].status
    BY <2>1, <2>2 DEF Stored, Arrives, TypeOK, ItemsOK, Item
  <2>. QED
    BY <2>3 DEF StatusFrom
<1>4. CASE Report
  <2>1. worker.g \in Galleries /\ item[worker.g] \in Item
    BY <1>4, AtWork DEF TypeOK, Report, ItemsOK
  <2>2. PICK s \in {"incomplete", item[worker.g].status} :
           item' = [item EXCEPT ![worker.g].gid = TRUE, ![worker.g].status = s]
    BY <1>4 DEF Report, Current
  <2>3. [item[worker.g] EXCEPT !.gid = TRUE, !.status = s].status = s
    BY <2>1 DEF Item
  <2>4. item'[g].status \in {"incomplete", item[g].status}
    BY <2>1, <2>2, <2>3 DEF TypeOK, ItemsOK
  <2>. QED
    BY <2>4 DEF StatusFrom
<1>5. CASE Finish
  <2>1. worker.g \in Galleries
    BY <1>5, AtWork DEF TypeOK, Finish
  <2>2. Outcome \in Status \ {"queued", "uploading"}
    BY DEF Outcome, Status
  <2>3. item'[g].status = IF g = worker.g THEN Outcome ELSE item[g].status
    BY <1>5, <2>1, <2>2, WriteStatus DEF Finish, TypeOK
  <2>. QED
    BY <2>2, <2>3 DEF StatusFrom
<1>. QED
  BY <1>1, <1>2, <1>3, <1>4, <1>5 DEF WorkerStep, TakeItem, Drop, LowDisk, EnterEngine, Resume, Image,
     ImageFails, NextPass, queueVars

\* nor a late signal or batch.
LEMMA StatusByMainThread ==
  ASSUME TypeOK, NEW g \in Galleries, MainThread
  PROVE  StatusFrom(g)
<1>1. CASE HandleSignal
  <2>. DEFINE s == Head(signals)
  <2>1. s.g \in Galleries
    BY <1>1, FirstSignal DEF HandleSignal, TypeOK
  <2>2. item[s.g] \in Item /\ item[g] \in Item
    BY <2>1 DEF TypeOK, ItemsOK
  <2>3. Started(s) \/ Progressed(s) \/ Completed(s) \/ Failed(s)
    BY <1>1 DEF HandleSignal
  <2>. HIDE DEF s
  <2>4. CASE Started(s) \/ Progressed(s)
    <3>1. item'[g].status = item[g].status
      BY <2>1, <2>2, <2>4 DEF Started, Progressed, TypeOK, ItemsOK, Item
    <3>. QED
      BY <3>1 DEF StatusFrom
  <2>5. CASE Completed(s)
    <3>1. item'[g].status \in {"completed", "failed", item[g].status}
      BY <2>1, <2>2, <2>5 DEF Completed, TypeOK, ItemsOK, Item
    <3>. QED
      BY <3>1 DEF StatusFrom
  <2>6. CASE Failed(s)
    BY <2>1, <2>6, WriteStatus, StatusNames DEF Failed, StatusFrom, TypeOK
  <2>. QED
    BY <2>3, <2>4, <2>5, <2>6
<1>2. CASE FlushBatch
  <2>1. item'[g].status \in {"completed", "failed", item[g].status}
    BY <1>2 DEF FlushBatch, TypeOK, ItemsOK, Item
  <2>. QED
    BY <2>1 DEF StatusFrom
<1>. QED
  BY <1>1, <1>2 DEF MainThread

\* A gallery becomes queued only with an entry in the queue, and uploading only
\* by the worker's hand.
LEMMA StatusNext ==
  ASSUME TypeOK, Next, NEW g \in Galleries
  PROVE  StatusFrom(g)
  BY StatusByUser, StatusByOthers, StatusByWorker, StatusByMainThread DEF Next, Steps

-----------------------------------------------------------------------------
\* A gallery that the worker leaves no longer uploads.
LEMMA NothingUploads ==
  ASSUME TypeOK, WorkerStep, worker.pc \notin {"idle", "taken"}
  PROVE  \/ worker'.g = worker.g /\ worker'.pc \notin {"idle", "taken"}
         \/ worker.g \in Galleries /\ item'[worker.g].status # "uploading"
<1>1. worker.g \in Galleries /\ item[worker.g] \in Item /\ worker \in Worker
  BY AtWork DEF TypeOK, ItemsOK, WorkerOK
<1>2. CASE TakeItem \/ Drop \/ LowDisk \/ BeginFails \/ Begin
  BY <1>2 DEF TakeItem, Drop, LowDisk, BeginFails, Begin
<1>3. CASE EarlyStop \/ FolderGone \/ CreateFails
  BY <1>1, <1>3, WriteStatus, StatusNames DEF EarlyStop, FolderGone, CreateFails, GivesUp, Becomes, TypeOK
<1>4. CASE EnterEngine
  BY <1>1, <1>4 DEF EnterEngine, SetPc, Worker
<1>5. CASE Resume \/ CreateGallery \/ NextPass
  BY <1>1, <1>5 DEF Resume, CreateGallery, NextPass, Primed, Worker
<1>6. CASE \E i \in Images : Image(i)
  BY <1>1, <1>6 DEF Image, ImageUploaded, ImageFails, Submitted, Worker
<1>7. CASE Report
  <2>. DEFINE stopped == soft = worker.g /\ Successful < Current.total
  <2>1. CASE stopped
    <3>1. [item[worker.g] EXCEPT !.gid = TRUE, !.status = "incomplete"].status = "incomplete"
      BY <1>1 DEF Item
    <3>. QED
      BY <1>1, <1>7, <2>1, <3>1 DEF Report, TypeOK, ItemsOK
  <2>2. CASE ~stopped
    BY <1>1, <1>7, <2>2 DEF Report, Worker
  <2>. QED
    BY <2>1, <2>2
<1>8. CASE Finish
  <2>1. Outcome \in Status \ {"uploading"}
    BY DEF Outcome, Status
  <2>. QED
    BY <1>1, <1>8, <2>1, WriteStatus DEF Finish, TypeOK
<1>. QED
  BY <1>2, <1>3, <1>4, <1>5, <1>6, <1>7, <1>8 DEF WorkerStep

\* UploadingIsHeld is inductive, given the types.
LEMMA UploadingNext == TypeOK /\ UploadingIsHeld /\ [Next]_vars => UploadingIsHeld'
<1>. SUFFICES ASSUME TypeOK, UploadingIsHeld, Next, NEW g \in Galleries,
                     item'[g].status = "uploading"
              PROVE  worker'.g = g /\ worker'.pc \notin {"idle", "taken"}
  BY DEF UploadingIsHeld, vars, queueVars, workerVars
<1>1. CASE Begin /\ g = worker.g
  BY <1>1 DEF Begin, TypeOK, WorkerOK, Worker
<1>2. CASE item[g].status = "uploading"
  <2>1. worker.g = g /\ worker.pc \notin {"idle", "taken"}
    BY <1>2 DEF UploadingIsHeld
  <2>2. CASE worker' = worker
    BY <2>1, <2>2
  <2>3. CASE Crash
    <3>1. item'[g] = Loaded(saved[g])
      BY <2>3 DEF Crash, Reload
    <3>. QED
      BY <3>1 DEF Loaded
  <2>4. CASE WorkerStep
    BY <2>1, <2>4, NothingUploads
  <2>. QED
    BY <2>2, <2>3, <2>4 DEF Next, Steps, StopItem, MainThread, HandleSignal, FlushBatch, workerVars
<1>. QED
  BY <1>1, <1>2, StatusNext DEF StatusFrom

\* A gallery is shown as uploading only while the worker is at it, whatever
\* the user, late signals, batches, scans and restarts do.
THEOREM UploadingGalleriesAreHeld == Spec => []UploadingIsHeld
<1>1. Init => UploadingIsHeld
  BY DEF Init, QueueInit, UploadingIsHeld
<1>2. TypeOK /\ UploadingIsHeld /\ [Next]_vars => UploadingIsHeld'
  BY UploadingNext
<1>. QED
  BY <1>1, <1>2, TypeCorrect, PTL DEF Spec

-----------------------------------------------------------------------------
\* The gallery has an entry.
InQueue(q, g) == \E k \in 1 .. Len(q) : q[k] = g

\* Entries after an append and after the first is taken.
LEMMA InQueueFacts ==
  ASSUME NEW q \in Seq(Galleries), NEW g \in Galleries
  PROVE  /\ InQueue(Append(q, g), g)
         /\ \A h \in Galleries : InQueue(q, g) => InQueue(Append(q, h), g)
         /\ InQueue(q, g) /\ Head(q) # g => InQueue(Tail(q), g)
<1>1. InQueue(Append(q, g), g)
  BY DEF InQueue
<1>2. ASSUME NEW h \in Galleries, InQueue(q, g) PROVE InQueue(Append(q, h), g)
  BY <1>2 DEF InQueue
<1>3. ASSUME InQueue(q, g), Head(q) # g PROVE InQueue(Tail(q), g)
  <2>1. PICK k \in 1 .. Len(q) : q[k] = g
    BY <1>3 DEF InQueue
  <2>2. k # 1
    BY <1>3, <2>1
  <2>3. k - 1 \in 1 .. Len(Tail(q)) /\ Tail(q)[k - 1] = g
    BY <2>1, <2>2
  <2>. QED
    BY <2>3 DEF InQueue
<1>. QED
  BY <1>1, <1>2, <1>3

\* What a step does to the queue.
LEMMA QueueChanges ==
  ASSUME TypeOK, Next, "disk" \notin Acts
  PROVE  \/ queue' = queue
         \/ \E h \in Galleries : queue' = Append(queue, h)
         \/ TakeItem \/ Drop \/ Crash
<1>1. CASE Scan
  BY <1>1 DEF Scan, ScanBegin, ScanFinds, ScanFails, Put, TypeOK, QueuesOK
<1>2. CASE WorkerStep
  BY <1>2 DEF WorkerStep, LowDisk, BeginFails, Begin, EarlyStop, EnterEngine,
     FolderGone, Resume, CreateGallery, CreateFails, GivesUp, Image, ImageUploaded, ImageFails,
     NextPass, Report, Finish, queueVars
<1>. QED
  BY <1>1, <1>2 DEF Next, Steps, User, StartItem, CancelItem, RetryFailed, ResetGallery, Rescan, Put, PauseAll,
     StopItem, LateReady, TimerFires, WriterWrites, MainThread, HandleSignal, FlushBatch

\* A worker that has taken a gallery goes on to upload it or gives it up.
LEMMA TakenEnds ==
  ASSUME TypeOK, Next, worker.pc = "taken"
  PROVE  \/ worker' = worker
         \/ worker.g \in Galleries /\ item'[worker.g].status # "queued"
         \/ Crash
<1>1. worker.g \in Galleries
  BY AtWork DEF TypeOK
<1>2. CASE BeginFails \/ Begin
  BY <1>1, <1>2, WriteStatus, StatusNames DEF BeginFails, Begin, GivesUp, Becomes, TypeOK
<1>. QED
  BY <1>2 DEF Next, Steps, WorkerStep, TakeItem, Drop, LowDisk, EarlyStop, EnterEngine,
     FolderGone, Resume, CreateGallery, CreateFails, Image, ImageUploaded, ImageFails,
     NextPass, Report, Finish, StopItem, MainThread, HandleSignal, FlushBatch, workerVars

\* QueuedIsInQueue is inductive, given the types.
LEMMA QueuedNext ==
  ASSUME TypeOK, QueuedIsInQueue, [Next]_vars, "disk" \notin Acts
  PROVE  QueuedIsInQueue'
<1>. SUFFICES ASSUME Next, NEW g \in Galleries, item'[g].status = "queued"
              PROVE  InQueue(queue', g) \/ (worker'.g = g /\ worker'.pc = "taken")
  BY DEF QueuedIsInQueue, InQueue, vars, queueVars, workerVars
<1>. queue \in Seq(Galleries)
  BY DEF TypeOK, QueuesOK
<1>1. CASE queue' = Append(queue, g)
  BY <1>1, InQueueFacts
<1>2. CASE Crash
  <2>1. item'[g] = Loaded(saved[g])
    BY <1>2 DEF Crash, Reload
  <2>. QED
    BY <2>1 DEF Loaded
<1>3. CASE item[g].status = "queued" /\ ~Crash
  <2>1. InQueue(queue, g) \/ (worker.g = g /\ worker.pc = "taken")
    BY <1>3 DEF QueuedIsInQueue, InQueue
  <2>2. CASE worker.g = g /\ worker.pc = "taken"
    BY <1>3, <2>2, TakenEnds
  <2>3. CASE InQueue(queue, g)
    <3>1. CASE queue' = queue \/ \E h \in Galleries : queue' = Append(queue, h)
      BY <2>3, <3>1 DEF InQueue
    <3>2. CASE TakeItem
      <4>1. CASE Head(queue) = g
        <5>1. /\ [Idle(Head(queue)) EXCEPT !.pc = "taken"].g = Head(queue)
              /\ [Idle(Head(queue)) EXCEPT !.pc = "taken"].pc = "taken"
          BY DEF Idle
        <5>. QED
          BY <3>2, <4>1, <5>1 DEF TakeItem
      <4>2. CASE Head(queue) # g
        BY <2>3, <3>2, <4>2, InQueueFacts DEF TakeItem
      <4>. QED
        BY <4>1, <4>2
    <3>3. CASE Drop
      <4>1. Head(queue) # g
        BY <1>3, <3>3 DEF Drop
      <4>. QED
        BY <2>3, <3>3, <4>1, InQueueFacts DEF Drop
    <3>. QED
      BY <1>3, <3>1, <3>2, <3>3, QueueChanges
  <2>. QED
    BY <2>1, <2>2, <2>3
<1>. QED
  BY <1>1, <1>2, <1>3, StatusNext DEF StatusFrom

\* Unless the disk runs low, a gallery shown as queued has its entry in the
\* worker's queue or was just taken from it.
THEOREM QueuedGalleriesAreInQueue ==
  ASSUME "disk" \notin Acts
  PROVE  Spec => []QueuedIsInQueue
<1>1. Init => QueuedIsInQueue
  BY DEF Init, QueueInit, QueuedIsInQueue
<1>2. TypeOK /\ QueuedIsInQueue /\ [Next]_vars => QueuedIsInQueue'
  BY QueuedNext
<1>. QED
  BY <1>1, <1>2, TypeCorrect, PTL DEF Spec

-----------------------------------------------------------------------------
\* Where the images of an upload are, as every step of it needs it: no set
\* overlaps another, and images are left over only after a stop.
Passes(it, w, stop) ==
  /\ w.pc \in {"pool", "finish"} =>
        /\ Accepted = it[w.g].done \cup w.todo \cup w.flying \cup w.failed
        /\ it[w.g].done \cap (w.todo \cup w.flying \cup w.failed) = {}
        /\ w.todo \cap w.flying = {}
        /\ (w.todo \cup w.flying) \cap w.failed = {}
        /\ w.todo # {} /\ w.flying = {} => stop = w.g
  /\ w.pc \notin {"pool", "finish"} => w.failed = {}

DoneAccepted == \A g \in Galleries : item[g].done \subseteq Accepted

ImagesInv == DoneAccepted /\ Passes(item, worker, soft)

\* The step resets no gallery.
Unreset == \A g \in Galleries : ~ResetGallery(g)

LEMMA NeverReset == ASSUME "reset" \notin Acts PROVE Unreset
  BY DEF Unreset, ResetGallery

\* Only a stored image, a reset and a restart change what is uploaded.
LEMMA DoneKept ==
  ASSUME TypeOK, Next, Unreset, ~Crash, ~WorkerStep, NEW g \in Galleries
  PROVE  item'[g].done = item[g].done
<1>. item[g] \in Item /\ item \in [Galleries -> Item]
  BY DEF TypeOK, ItemsOK
<1>1. CASE UserSteps
  <2>1. PICK h \in Galleries : User(h)
    BY <1>1 DEF UserSteps
  <2>2. CASE StartItem(h) \/ CancelItem(h)
    <3>1. \E s : item' = WithStatus(h, s)
      BY <2>2 DEF StartItem, CancelItem
    <3>2. \A s : WithStatus(h, s)[g].done = item[g].done
      BY DEF WithStatus, Item
    <3>. QED
      BY <3>1, <3>2
  <2>3. CASE RetryFailed(h)
    <3>1. CASE g # h
      BY <2>3, <3>1 DEF RetryFailed
    <3>2. CASE g = h
      <4>1. item'[g] = IF item[g].gid /\ item[g].counted > 0
                       THEN [item[g] EXCEPT !.status = "incomplete"]
                       ELSE [item[g] EXCEPT !.status = "ready", !.counted = 0]
        BY <2>3, <3>2 DEF RetryFailed
      <4>. QED
        BY <4>1 DEF Item
    <3>. QED
      BY <3>1, <3>2
  <2>4. CASE ResetGallery(h) \/ Rescan(h)
    BY <2>4 DEF Unreset, Rescan
  <2>. QED
    BY <2>1, <2>2, <2>3, <2>4 DEF User
<1>2. CASE PauseAll \/ (\E h \in Galleries : StopItem(h)) \/ Timers
  BY <1>2 DEF PauseAll, StopItem, Timers, TimerFires, WriterWrites, WithStatus, Item
<1>3. CASE Scan \/ LateReady
  BY <1>3 DEF Scan, ScanBegin, ScanFinds, ScanFails, LateReady, WithStatus, Item
<1>4. CASE MainThread
  <2>1. CASE HandleSignal
    <3>. DEFINE s == Head(signals)
    <3>1. Started(s) \/ Progressed(s) \/ Completed(s) \/ Failed(s)
      BY <2>1 DEF HandleSignal
    <3>. HIDE DEF s
    <3>2. CASE Started(s) \/ Progressed(s)
      BY <3>2 DEF Started, Progressed, Item
    <3>3. CASE Completed(s)
      BY <3>3 DEF Completed, Item
    <3>4. CASE Failed(s)
      BY <3>4 DEF Failed, WithStatus, Item
    <3>. QED
      BY <3>1, <3>2, <3>3, <3>4
  <2>2. CASE FlushBatch
    BY <2>2 DEF FlushBatch, Item
  <2>. QED
    BY <1>4, <2>1, <2>2 DEF MainThread
<1>. QED
  BY <1>1, <1>2, <1>3, <1>4 DEF Next, Steps, UserSteps, Timers

\* Stored adds one image to one gallery.
LEMMA StoredDone ==
  ASSUME TypeOK, NEW h \in Galleries, NEW i \in Images, Stored(h, i)
  PROVE  \A g \in Galleries :
            item'[g].done = IF g = h THEN item[g].done \cup {i} ELSE item[g].done
  BY DEF Stored, Arrives, TypeOK, ItemsOK, Item

\* What a batch takes out of the images it is primed with.
LEMMA PrimedSplits ==
  ASSUME NEW w \in Worker, Primed(w)
  PROVE  /\ worker'.pc = "pool" /\ worker'.g = w.g /\ worker'.failed = w.failed
         /\ worker'.base = w.base /\ worker'.up = w.up
         /\ worker'.todo \cup worker'.flying = w.todo
         /\ worker'.todo \cap worker'.flying = {}
         /\ worker'.flying = {} => worker'.todo = {}
<1>1. PICK b \in SUBSET w.todo :
         /\ Cardinality(b) = IF BatchSize <= Cardinality(w.todo) THEN BatchSize
                             ELSE Cardinality(w.todo)
         /\ worker' = [w EXCEPT !.pc = "pool", !.flying = b, !.todo = @ \ b]
  BY DEF Primed
<1>2. /\ worker'.pc = "pool" /\ worker'.g = w.g /\ worker'.failed = w.failed
      /\ worker'.base = w.base /\ worker'.up = w.up
      /\ worker'.flying = b /\ worker'.todo = w.todo \ b
  BY <1>1 DEF Worker
<1>3. w.todo \in SUBSET Images
  BY DEF Worker
<1>4. ASSUME b = {} PROVE w.todo = {}
  <2>1. Cardinality(b) = 0 /\ IsFiniteSet(w.todo) /\ Cardinality(w.todo) \in Nat
    BY <1>3, <1>4, FS_EmptySet, FS_Subset, FS_CardinalityType, ImagesAssumption
  <2>2. Cardinality(w.todo) = 0
    BY <1>1, <2>1, WorkerAssumption
  <2>. QED
    BY <2>1, <2>2, FS_EmptySet
<1>. QED
  BY <1>1, <1>2, <1>4

\* The next image moves from those left to those in flight.
LEMMA SubmittedSplits ==
  ASSUME NEW w \in Worker, Submitted(w), w.g = worker.g
  PROVE  /\ worker'.pc = w.pc /\ worker'.g = w.g /\ worker'.failed = w.failed
         /\ worker'.base = w.base /\ worker'.up = w.up
         /\ \/ worker'.todo = w.todo /\ worker'.flying = w.flying
               /\ (w.todo = {} \/ soft = w.g)
            \/ \E i \in w.todo : worker'.flying = w.flying \cup {i} /\ worker'.todo = w.todo \ {i}
<1>1. CASE w.todo = {} \/ StopsSending
  BY <1>1 DEF Submitted, StopsSending
<1>2. CASE ~(w.todo = {} \/ StopsSending)
  BY <1>2 DEF Submitted, Worker
<1>. QED
  BY <1>1, <1>2

\* An image in flight is accepted and not yet uploaded.
LEMMA Flying ==
  ASSUME TypeOK, ImagesInv, NEW i \in worker.flying, worker.pc = "pool"
  PROVE  i \in Accepted /\ i \notin item[worker.g].done
  BY DEF ImagesInv, Passes

\* An image that comes back.
LEMMA PassesAtPool ==
  ASSUME TypeOK, ImagesInv, NEW i \in Images, ImageUploaded(i) \/ ImageFails(i)
  PROVE  Passes(item', worker', soft')
<1>. worker.g \in Galleries /\ worker \in Worker /\ worker.pc = "pool" /\ i \in worker.flying
  BY AtWork DEF TypeOK, WorkerOK, ImageUploaded, ImageFails
<1>. soft' = soft
  BY DEF ImageUploaded, ImageFails
<1>1. CASE ImageUploaded(i)
  <2>. DEFINE w == [worker EXCEPT !.flying = @ \ {i}, !.up = @ \cup {i}]
  <2>1. /\ w \in Worker /\ w.pc = "pool" /\ w.g = worker.g /\ w.todo = worker.todo
        /\ w.flying = worker.flying \ {i} /\ w.failed = worker.failed
    BY DEF Worker
  <2>2. Submitted(w)
    BY <1>1 DEF ImageUploaded
  <2>3. item'[worker.g].done = item[worker.g].done \cup {i}
    BY <1>1, StoredDone DEF ImageUploaded
  <2>. HIDE DEF w
  <2>. QED
    BY <2>1, <2>2, <2>3, SubmittedSplits DEF ImagesInv, Passes
<1>2. CASE ImageFails(i)
  <2>. DEFINE w == [worker EXCEPT !.flying = @ \ {i}, !.failed = @ \cup {i}]
  <2>1. /\ w \in Worker /\ w.pc = "pool" /\ w.g = worker.g /\ w.todo = worker.todo
        /\ w.flying = worker.flying \ {i} /\ w.failed = worker.failed \cup {i}
    BY DEF Worker
  <2>2. Submitted(w)
    BY <1>2 DEF ImageFails
  <2>3. item'[worker.g].done = item[worker.g].done
    BY <1>2 DEF ImageFails, queueVars
  <2>. HIDE DEF w
  <2>. QED
    BY <2>1, <2>2, <2>3, SubmittedSplits DEF ImagesInv, Passes
<1>. QED
  BY <1>1, <1>2

\* The passes, step by step.
LEMMA PassesByWorker ==
  ASSUME TypeOK, ImagesInv, WorkerStep
  PROVE  Passes(item', worker', soft')
<1>. worker \in Worker
  BY DEF TypeOK, WorkerOK
<1>1. CASE TakeItem
  <2>1. worker'.failed = {} /\ worker'.pc = "taken"
    BY <1>1 DEF TakeItem, Idle
  <2>. QED
    BY <2>1 DEF Passes
<1>2. CASE Drop \/ LowDisk
  BY <1>2 DEF Drop, LowDisk, workerVars, ImagesInv, Passes
<1>3. CASE BeginFails \/ EarlyStop \/ FolderGone \/ CreateFails \/ Finish \/ (Report /\ Leaves)
  <2>1. worker' = Idle(worker.g)
    BY <1>3 DEF BeginFails, EarlyStop, FolderGone, CreateFails, Finish, GivesUp, Leaves
  <2>2. worker'.failed = {} /\ worker'.pc = "idle"
    BY <2>1 DEF Idle
  <2>. QED
    BY <2>2 DEF Passes
<1>4. CASE Begin \/ EnterEngine
  <2>1. worker'.failed = {} /\ worker'.pc \in {"early", "run"}
    BY <1>4 DEF Begin, EnterEngine, SetPc, ImagesInv, Passes, Worker
  <2>. QED
    BY <2>1 DEF Passes
<1>5. CASE Resume
  <2>. DEFINE w == [worker EXCEPT !.todo = Left(Current), !.base = Cardinality(Current.done)]
  <2>1. worker.g \in Galleries /\ item[worker.g].done \in SUBSET Images
    BY <1>5, AtWork, ItemFields DEF Resume, TypeOK, ItemsOK
  <2>2. Left(Current) \in SUBSET Images /\ Cardinality(Current.done) \in Nat
    BY <2>1, NumImages DEF Left, Accepted, Current
  <2>3. w \in Worker /\ w.todo = Left(Current) /\ w.failed = {} /\ w.g = worker.g
    BY <1>5, <2>2 DEF Worker, Resume, ImagesInv, Passes
  <2>4. Primed(w) /\ item' = item
    BY <1>5 DEF Resume, queueVars
  <2>5. Left(Current) = Accepted \ item[worker.g].done /\ item[worker.g].done \subseteq Accepted
    BY <2>1 DEF Left, Current, ImagesInv, DoneAccepted
  <2>. HIDE DEF w
  <2>. QED
    BY <2>3, <2>4, <2>5, PrimedSplits DEF Passes
<1>6. CASE CreateGallery
  <2>1. worker.g \in Galleries /\ item[worker.g].done \in SUBSET Images
    BY <1>6, AtWork, ItemFields DEF CreateGallery, TypeOK, ItemsOK
  <2>2. PICK i \in Left(Current) :
           /\ Stored(worker.g, i)
           /\ Primed([worker EXCEPT !.todo = Left(Current) \ {i}, !.base = 1])
    BY <1>6 DEF CreateGallery
  <2>. DEFINE w == [worker EXCEPT !.todo = Left(Current) \ {i}, !.base = 1]
  <2>3. Left(Current) \in SUBSET Images /\ i \in Images
    BY <2>2 DEF Left, Accepted
  <2>4. w \in Worker /\ w.todo = Left(Current) \ {i} /\ w.failed = {} /\ w.g = worker.g
    BY <1>6, <2>3 DEF Worker, CreateGallery, ImagesInv, Passes
  <2>5. item'[worker.g].done = item[worker.g].done \cup {i}
    BY <2>1, <2>2, <2>3, StoredDone
  <2>6. Left(Current) = Accepted \ item[worker.g].done /\ item[worker.g].done \subseteq Accepted
    BY <2>1 DEF Left, Current, ImagesInv, DoneAccepted
  <2>7. Primed(w)
    BY <2>2
  <2>. HIDE DEF w
  <2>. QED
    BY <2>2, <2>4, <2>5, <2>6, <2>7, PrimedSplits DEF Passes
<1>7. CASE \E i \in Images : Image(i)
  BY <1>7, PassesAtPool DEF Image
<1>8. CASE NextPass
  <2>. DEFINE w == [worker EXCEPT !.todo = worker.failed, !.failed = {}, !.pass = @ + 1]
  <2>1. w \in Worker /\ w.todo = worker.failed /\ w.failed = {} /\ w.g = worker.g
    <3>1. worker.failed \in SUBSET Images /\ worker.pass + 1 \in Nat
      BY AtWork DEF TypeOK
    <3>. QED
      BY <3>1 DEF Worker
  <2>2. Primed(w) /\ item' = item /\ worker.todo = {} /\ worker.flying = {} /\ worker.pc = "pool"
    BY <1>8 DEF NextPass, MayRetry, queueVars, ImagesInv, Passes
  <2>. HIDE DEF w
  <2>. QED
    BY <2>1, <2>2, PrimedSplits DEF ImagesInv, Passes
<1>9. CASE Report /\ ~Leaves
  <2>1. worker.g \in Galleries /\ item[worker.g] \in Item
    BY <1>9, AtWork DEF Report, TypeOK, ItemsOK
  <2>2. item'[worker.g].done = item[worker.g].done
    BY <1>9, <2>1 DEF Report, TypeOK, ItemsOK, Item
  <2>3. /\ worker'.pc = "finish" /\ worker'.g = worker.g /\ worker'.todo = worker.todo
        /\ worker'.flying = worker.flying /\ worker'.failed = worker.failed
    BY <1>9 DEF Report, Worker
  <2>4. soft' = soft /\ worker.pc = "pool"
    BY <1>9 DEF Report
  <2>. QED
    BY <2>2, <2>3, <2>4 DEF ImagesInv, Passes
<1>. QED
  BY <1>1, <1>2, <1>3, <1>4, <1>5, <1>6, <1>7, <1>8, <1>9 DEF WorkerStep

\* The worker adds to a gallery only images that the host accepts and that it
\* does not have yet; an image arrives unrecorded only if its answer is lost.
LEMMA WorkerStores ==
  ASSUME TypeOK, ImagesInv, WorkerStep
  PROVE  \/ /\ \A g \in Galleries : item'[g].done = item[g].done
            /\ \/ sent' = sent
               \/ /\ "lostanswer" \in Acts /\ worker.g \in Galleries
                  /\ \E i \in Images : Arrives(worker.g, i)
         \/ /\ worker.g \in Galleries
            /\ \E i \in Accepted \ item[worker.g].done : Stored(worker.g, i)
<1>. item \in [Galleries -> Item]
  BY DEF TypeOK, ItemsOK
<1>1. CASE item' = item /\ sent' = sent
  BY <1>1
<1>2. CASE CreateGallery
  BY <1>2, AtWork DEF TypeOK, CreateGallery, Left, Current
<1>3. CASE \E i \in Images : ImageUploaded(i)
  BY <1>3, AtWork, Flying DEF TypeOK, ImageUploaded
<1>4. CASE BeginFails \/ Begin \/ EarlyStop \/ FolderGone \/ CreateFails \/ Finish
  BY <1>4 DEF BeginFails, Begin, EarlyStop, FolderGone, CreateFails, Finish, GivesUp, Becomes,
     WithStatus, Item
<1>5. CASE Report
  <2>1. PICK s : item' = [item EXCEPT ![worker.g].gid = TRUE, ![worker.g].status = s]
    BY <1>5 DEF Report
  <2>. QED
    BY <1>5, <2>1 DEF Report, Item
<1>6. CASE \E i \in Images : ImageFails(i)
  BY <1>6, AtWork DEF TypeOK, ImageFails
<1>. QED
  BY <1>1, <1>2, <1>3, <1>4, <1>5, <1>6 DEF WorkerStep, TakeItem, Drop, LowDisk, EnterEngine, Resume,
     Image, NextPass, queueVars

\* ImagesInv is inductive, given the types.
LEMMA ImagesNext ==
  ASSUME TypeOK, ImagesInv, [Next]_vars, Unreset
  PROVE  ImagesInv'
<1>1. CASE UNCHANGED vars
  BY <1>1 DEF vars, queueVars, workerVars, ImagesInv, DoneAccepted, Passes
<1>2. CASE Crash
  <2>1. \A g \in Galleries : item'[g].done = {}
    BY <1>2 DEF Crash, Reload, Loaded
  <2>2. worker'.pc = "idle" /\ worker'.failed = {}
    BY <1>2 DEF Crash, Idle
  <2>. QED
    BY <2>1, <2>2 DEF ImagesInv, DoneAccepted, Passes
<1>3. CASE WorkerStep
  <2>1. DoneAccepted'
    <3>1. CASE \A g \in Galleries : item'[g].done = item[g].done
      BY <3>1 DEF DoneAccepted, ImagesInv
    <3>2. CASE worker.g \in Galleries /\ \E i \in Accepted \ item[worker.g].done : Stored(worker.g, i)
      <4>1. PICK i \in Accepted : Stored(worker.g, i)
        BY <3>2
      <4>2. \A g \in Galleries :
               item'[g].done = IF g = worker.g THEN item[g].done \cup {i} ELSE item[g].done
        BY <3>2, <4>1, StoredDone DEF Accepted
      <4>. QED
        BY <4>1, <4>2 DEF DoneAccepted, ImagesInv
    <3>. QED
      BY <1>3, <3>1, <3>2, WorkerStores
  <2>. QED
    BY <1>3, <2>1, PassesByWorker DEF ImagesInv
<1>4. CASE Next /\ ~Crash /\ ~WorkerStep
  <2>1. \A g \in Galleries : item'[g].done = item[g].done
    BY <1>4, DoneKept
  <2>2. worker' = worker /\ (soft' = soft \/ soft' = worker.g)
    BY <1>4 DEF Next, Steps, StopItem, MainThread, HandleSignal, FlushBatch, workerVars
  <2>3. worker.pc # "idle" => worker.g \in Galleries
    BY AtWork DEF TypeOK
  <2>. QED
    BY <2>1, <2>2, <2>3 DEF ImagesInv, DoneAccepted, Passes
<1>. QED
  BY <1>1, <1>2, <1>3, <1>4

\* Unless an upload is reset under way, every accepted image is, at every
\* moment of it, uploaded, left, in flight or failed, and only one of them.
THEOREM NoImageIsLost ==
  ASSUME "reset" \notin Acts
  PROVE  Spec => [](ImagesInv /\ ImagesAccounted)
<1>1. Init => ImagesInv
  BY DEF Init, QueueInit, WorkerInit, Idle, ImagesInv, DoneAccepted, Passes
<1>2. TypeOK /\ ImagesInv /\ [Next]_vars => ImagesInv'
  BY ImagesNext, NeverReset
<1>3. ImagesInv => ImagesAccounted
  BY DEF ImagesInv, Passes, ImagesAccounted, Current
<1>. QED
  BY <1>1, <1>2, <1>3, TypeCorrect, PTL DEF Spec

-----------------------------------------------------------------------------
\* Without restarts and resets the host has just what uploaded_files says.
SentIsDone ==
  \A g \in Galleries, i \in Images : sent[g][i] = IF i \in item[g].done THEN 1 ELSE 0

\* SentIsDone is inductive, given ImagesInv.
LEMMA SentIsDoneNext ==
  ASSUME TypeOK, ImagesInv, SentIsDone, [Next]_vars, {"reset", "crash", "lostanswer"} \cap Acts = {}
  PROVE  SentIsDone'
<1>1. CASE WorkerStep /\ \E i \in Accepted \ item[worker.g].done :
                            worker.g \in Galleries /\ Stored(worker.g, i)
  <2>1. PICK i \in Accepted \ item[worker.g].done : worker.g \in Galleries /\ Stored(worker.g, i)
    BY <1>1
  <2>2. i \in Images /\ sent[worker.g][i] = 0
    BY <2>1 DEF Accepted, SentIsDone
  <2>3. \A g \in Galleries, j \in Images :
           sent'[g][j] = IF g = worker.g /\ j = i THEN 1 ELSE sent[g][j]
    BY <2>1, <2>2 DEF Stored, Arrives, TypeOK, SentOK
  <2>4. \A g \in Galleries :
           item'[g].done = IF g = worker.g THEN item[g].done \cup {i} ELSE item[g].done
    BY <2>1, <2>2, StoredDone
  <2>5. ASSUME NEW g \in Galleries, NEW j \in Images
        PROVE  sent'[g][j] = IF j \in item'[g].done THEN 1 ELSE 0
    <3>1. sent[g][j] = IF j \in item[g].done THEN 1 ELSE 0
      BY DEF SentIsDone
    <3>2. CASE g = worker.g /\ j = i
      BY <2>3, <2>4, <3>2
    <3>3. CASE ~(g = worker.g /\ j = i)
      BY <2>3, <2>4, <3>1, <3>3
    <3>. QED
      BY <3>2, <3>3
  <2>. QED
    BY <2>5 DEF SentIsDone
<1>2. CASE (\A g \in Galleries : item'[g].done = item[g].done) /\ sent' = sent
  BY <1>2 DEF SentIsDone
<1>3. CASE UNCHANGED vars
  BY <1>3 DEF vars, queueVars, SentIsDone
<1>4. CASE Next /\ ~WorkerStep
  <2>1. ~Crash
    BY DEF Crash
  <2>2. \A g \in Galleries : item'[g].done = item[g].done
    BY <1>4, <2>1, DoneKept, NeverReset
  <2>3. sent' = sent
    BY <1>4, <2>1 DEF Next, Steps, User, StartItem, CancelItem, RetryFailed, ResetGallery, Rescan, PauseAll,
       StopItem, TimerFires, WriterWrites, Scan, ScanBegin, ScanFinds, ScanFails, LateReady,
       MainThread, HandleSignal, FlushBatch
  <2>. QED
    BY <1>2, <2>2, <2>3
<1>. QED
  BY <1>1, <1>2, <1>3, <1>4, WorkerStores

\* Unless the program restarts, a gallery is reset or the answer to an image is
\* lost, the host stores no image of a gallery twice, over any number of passes, stops, retries and resumes.
THEOREM ImagesAreStoredOnce ==
  ASSUME {"reset", "crash", "lostanswer"} \cap Acts = {}
  PROVE  Spec => []StoredOnce
<1>1. Init => SentIsDone
  BY DEF Init, QueueInit, SentIsDone
<1>2. TypeOK /\ ImagesInv /\ SentIsDone /\ [Next]_vars => SentIsDone'
  BY SentIsDoneNext
<1>3. SentIsDone => StoredOnce
  BY DEF SentIsDone, StoredOnce
<1>4. "reset" \notin Acts /\ "crash" \notin Acts
  OBVIOUS
<1>. QED
  BY <1>1, <1>2, <1>3, <1>4, TypeCorrect, NoImageIsLost, PTL DEF Spec

-----------------------------------------------------------------------------
(* Counts.  The shown status is judged from numbers that reach the main    *)
(* thread late, and that outlive the process; none of them is ever larger  *)
(* than the number of images the host has by then.                         *)

\* The accepted images of g that the host has, where n counts what it stored.
Arrived(n, g) == {i \in Accepted : n[g][i] > 0}

\* A total to compare with: not zero, not less than what there is to upload.
Enough(n) == n > 0 /\ n >= Cardinality(Accepted)

\* What an item or a row may say when the images A have arrived.
SoundRow(r, A) ==
    /\ r.counted <= Cardinality(A)
    /\ r.gid => Accepted # {}
    /\ r.status = "completed" => Accepted \subseteq A

SoundItem(r, A) == SoundRow(r, A) /\ Enough(r.total) /\ r.done \subseteq A

SoundSignal(s, n) ==
    \/ s.kind = "failed"
    \/ /\ s.n <= Cardinality(Arrived(n, s.g)) /\ Enough(s.total)
       /\ s.kind = "completed" => Accepted # {}

SoundWorker(it, w, n) ==
    /\ w.pc \in {"pool", "finish"} =>
          Accepted # {} /\ w.base + Cardinality(w.up) <= Cardinality(it[w.g].done)
    /\ w.pc \notin {"pool", "finish"} => w.up = {}
    /\ w.pc = "finish" => w.succ <= Cardinality(Arrived(n, w.g)) /\ Enough(w.tot)

ItemCounts == \A g \in Galleries : SoundItem(item[g], Arrived(sent, g))
SavedCounts == \A g \in Galleries : SoundRow(saved[g], Arrived(sent, g))
WriteCounts == \A k \in 1 .. Len(writes) : SoundRow(writes[k].row, Arrived(sent, writes[k].g))
SignalCounts == \A k \in 1 .. Len(signals) : SoundSignal(signals[k], sent)
WorkerCounts == SoundWorker(item, worker, sent)

CountsInv == ItemCounts /\ SavedCounts /\ WriteCounts /\ SignalCounts /\ WorkerCounts

\* Sizes of sets of images.
LEMMA Sizes ==
  /\ Cardinality({}) = 0
  /\ \A S \in SUBSET Images : Cardinality(S) \in Nat /\ (Cardinality(S) = 0 => S = {})
  /\ \A S \in SUBSET Images : \A T \in SUBSET S :
        Cardinality(T) <= Cardinality(S) /\ (Cardinality(S) <= Cardinality(T) => S = T)
  /\ \A S \in SUBSET Images, i \in Images :
        Cardinality(S \cup {i}) = IF i \in S THEN Cardinality(S) ELSE Cardinality(S) + 1
<1>1. \A S \in SUBSET Images : IsFiniteSet(S) /\ Cardinality(S) \in Nat
  BY ImagesAssumption, FS_Subset, FS_CardinalityType
<1>2. ASSUME NEW S \in SUBSET Images, NEW T \in SUBSET S
      PROVE  Cardinality(T) <= Cardinality(S) /\ (Cardinality(S) <= Cardinality(T) => S = T)
  <2>1. IsFiniteSet(S) /\ Cardinality(S) \in Nat /\ Cardinality(T) \in Nat /\ T \subseteq S
    BY <1>1
  <2>2. Cardinality(T) <= Cardinality(S) /\ (Cardinality(S) = Cardinality(T) => S = T)
    BY <2>1, FS_Subset
  <2>. QED
    BY <2>1, <2>2
<1>3. ASSUME NEW S \in SUBSET Images, NEW i \in Images
      PROVE  Cardinality(S \cup {i}) = IF i \in S THEN Cardinality(S) ELSE Cardinality(S) + 1
  BY <1>1, FS_AddElement
<1>4. ASSUME NEW S \in SUBSET Images, Cardinality(S) = 0
      PROVE  S = {}
  BY <1>1, <1>4, FS_EmptySet
<1>. QED
  BY <1>1, <1>2, <1>3, <1>4, FS_EmptySet

\* The totals the program compares with.
LEMMA EnoughImages ==
  Enough(Cardinality(Images)) /\ (Accepted # {} => Enough(Cardinality(Accepted)))
<1>1. Accepted \in SUBSET Images /\ Images \in SUBSET Images /\ Images # {}
  BY ImagesAssumption DEF Accepted
<1>. QED
  BY <1>1, Sizes DEF Enough

\* Arrived images are images; more of them are all only if they are all.
LEMMA ArrivedIsSubset ==
  ASSUME NEW n, NEW g
  PROVE  /\ Arrived(n, g) \in SUBSET Images /\ Arrived(n, g) \subseteq Accepted
         /\ Cardinality(Arrived(n, g)) \in Nat
<1>1. Arrived(n, g) \in SUBSET Images /\ Arrived(n, g) \subseteq Accepted
  BY DEF Arrived, Accepted
<1>. QED
  BY <1>1, Sizes

\* A count that is enough means that all have arrived.
LEMMA AllArrived ==
  ASSUME NEW A \in SUBSET Accepted, NEW k \in Nat, NEW t \in Nat,
         k <= Cardinality(A), Enough(t), k >= t
  PROVE  Accepted \subseteq A
<1>1. Accepted \in SUBSET Images /\ A \in SUBSET Images
  BY DEF Accepted
<1>2. Cardinality(A) \in Nat /\ Cardinality(Accepted) \in Nat
  BY <1>1, Sizes
<1>3. Cardinality(Accepted) <= Cardinality(A)
  BY <1>2 DEF Enough
<1>. QED
  BY <1>1, <1>3, Sizes

\* What was true of fewer images stays true of more.
LEMMA RowGrows ==
  ASSUME NEW A \in SUBSET Accepted, NEW B \in SUBSET Accepted, A \subseteq B,
         NEW r, r.counted \in Nat, SoundRow(r, A)
  PROVE  SoundRow(r, B)
<1>1. B \in SUBSET Images /\ A \in SUBSET B /\ A \in SUBSET Images
  BY DEF Accepted
<1>2. Cardinality(A) <= Cardinality(B) /\ Cardinality(A) \in Nat /\ Cardinality(B) \in Nat
  BY <1>1, Sizes
<1>. QED
  BY <1>2 DEF SoundRow

\* The host forgets no image.
HostKeeps == \A g \in Galleries : Arrived(sent, g) \subseteq Arrived(sent', g)

LEMMA SentGrows ==
  ASSUME TypeOK, ImagesInv, Next
  PROVE  HostKeeps
<1>1. CASE sent' = sent
  BY <1>1 DEF HostKeeps
<1>2. CASE \E g \in Galleries, i \in Images : Arrives(g, i)
  <2>1. PICK h \in Galleries, j \in Images : Arrives(h, j)
    BY <1>2
  <2>2. \A g \in Galleries, i \in Images : sent[g][i] > 0 => sent'[g][i] > 0
    BY <2>1 DEF Arrives, TypeOK, SentOK
  <2>. QED
    BY <2>2 DEF HostKeeps, Arrived, Accepted
<1>3. CASE Crash
  <2>1. \A g \in Galleries, i \in Images : sent[g][i] > 0 => sent'[g][i] > 0
    BY <1>3 DEF Crash, TypeOK, SentOK
  <2>. QED
    BY <2>1 DEF HostKeeps, Arrived, Accepted
<1>4. CASE WorkerStep
  BY <1>1, <1>2, <1>4, WorkerStores DEF Stored, Accepted
<1>5. CASE Next /\ ~Crash /\ ~WorkerStep
  <2>1. sent' = sent
    BY <1>5 DEF Next, Steps, User, StartItem, CancelItem, RetryFailed, ResetGallery, Rescan, PauseAll,
       StopItem, TimerFires, WriterWrites, Scan, ScanBegin, ScanFinds, ScanFails, LateReady,
       MainThread, HandleSignal, FlushBatch
  <2>. QED
    BY <1>1, <2>1
<1>. QED
  BY <1>3, <1>4, <1>5

\* What a step may do to an item without looking at the counts.
Kept(old, new) ==
    /\ new.counted \in {old.counted, 0} /\ new.gid = old.gid
    /\ new.status = "completed" => old.status = "completed"
    /\ new.total \in {old.total, Cardinality(Images)}
    /\ new.done = old.done

\* The statuses written to one gallery.
LEMMA KeptStatus ==
  ASSUME TypeOK, NEW h \in Galleries, NEW s \in Status, s # "completed", item' = WithStatus(h, s)
  PROVE  \A g \in Galleries : Kept(item[g], item'[g])
  BY DEF TypeOK, ItemsOK, WithStatus, Item, Kept

\* Nothing but the worker's results and the main thread completes a gallery.
LEMMA KeptItems ==
  ASSUME TypeOK, Next, Unreset, ~Crash, ~WorkerStep, ~MainThread
  PROVE  \A g \in Galleries : Kept(item[g], item'[g])
<1>. item \in [Galleries -> Item]
  BY DEF TypeOK, ItemsOK
<1>0. CASE item' = item
  BY <1>0 DEF Kept
<1>1. CASE UserSteps
  <2>1. PICK h \in Galleries : User(h)
    BY <1>1 DEF UserSteps
  <2>2. CASE StartItem(h)
    BY <2>2, KeptStatus, StatusNames DEF StartItem
  <2>3. CASE CancelItem(h)
    BY <2>3, KeptStatus, StatusNames DEF CancelItem
  <2>4. CASE RetryFailed(h)
    BY <2>4 DEF RetryFailed, Item, Kept
  <2>5. CASE Rescan(h)
    BY <1>0, <2>5 DEF Rescan
  <2>. QED
    BY <2>1, <2>2, <2>3, <2>4, <2>5 DEF User, Unreset
<1>2. CASE PauseAll
  BY <1>2 DEF PauseAll, Item, Kept
<1>3. CASE \E h \in Galleries : StopItem(h)
  BY <1>3, KeptStatus, StatusNames DEF StopItem
<1>4. CASE Timers
  BY <1>0, <1>4 DEF Timers, TimerFires, WriterWrites
<1>5. CASE LateReady
  BY <1>5, KeptStatus, StatusNames DEF LateReady, TypeOK, QueuesOK
<1>6. CASE ScanBegin
  BY <1>6 DEF ScanBegin, Item, Kept
<1>7. CASE ScanFinds \/ ScanFails
  <2>1. scanning \in Galleries
    BY <1>7 DEF ScanFinds, ScanFails, TypeOK, QueuesOK
  <2>2. CASE ScanFinds
    BY <1>0, <2>1, <2>2, KeptStatus, StatusNames DEF ScanFinds
  <2>3. CASE ScanFails
    BY <2>1, <2>3, KeptStatus, StatusNames DEF ScanFails
  <2>. QED
    BY <1>7, <2>2, <2>3
<1>. QED
  BY <1>1, <1>2, <1>3, <1>4, <1>5, <1>6, <1>7 DEF Next, Steps, UserSteps, Timers, Scan

\* An item that is kept stays sound.
LEMMA KeptIsSound ==
  ASSUME TypeOK, HostKeeps, NEW g \in Galleries, ItemCounts,
         NEW it \in Item, Kept(item[g], it)
  PROVE  SoundItem(it, Arrived(sent', g))
<1>1. item[g] \in Item /\ SoundItem(item[g], Arrived(sent, g))
  BY DEF ItemCounts, TypeOK, ItemsOK
<1>2. Arrived(sent, g) \subseteq Arrived(sent', g)
  BY DEF HostKeeps
<1>3. SoundRow(item[g], Arrived(sent', g))
  BY <1>1, <1>2, ItemFields, RowGrows, ArrivedIsSubset DEF SoundItem
<1>4. Cardinality(Arrived(sent', g)) \in Nat
  BY ArrivedIsSubset
<1>5. SoundRow(it, Arrived(sent', g))
  BY <1>3, <1>4 DEF SoundRow, Kept
<1>6. Enough(it.total)
  BY <1>1, EnoughImages DEF SoundItem, Kept
<1>. QED
  BY <1>1, <1>2, <1>5, <1>6 DEF SoundItem, Kept

\* What a signal says stays true.
LEMMA SignalGrows ==
  ASSUME HostKeeps, NEW s \in SignalSet, SoundSignal(s, sent)
  PROVE  SoundSignal(s, sent')
<1>1. s.g \in Galleries /\ s.n \in Nat
  BY DEF SignalSet
<1>2. /\ Arrived(sent', s.g) \in SUBSET Images
      /\ Arrived(sent, s.g) \in SUBSET Arrived(sent', s.g)
      /\ Cardinality(Arrived(sent, s.g)) \in Nat /\ Cardinality(Arrived(sent', s.g)) \in Nat
  BY <1>1, ArrivedIsSubset DEF HostKeeps
<1>3. Cardinality(Arrived(sent, s.g)) <= Cardinality(Arrived(sent', s.g))
  BY <1>2, Sizes
<1>. QED
  BY <1>1, <1>2, <1>3 DEF SoundSignal

\* So do the saves.
LEMMA SavedGrow ==
  ASSUME TypeOK, HostKeeps, SavedCounts, WriteCounts
  PROVE  /\ \A g \in Galleries : SoundRow(saved[g], Arrived(sent', g))
         /\ \A k \in 1 .. Len(writes) : SoundRow(writes[k].row, Arrived(sent', writes[k].g))
<1>1. ASSUME NEW g \in Galleries, NEW r \in Row, SoundRow(r, Arrived(sent, g))
      PROVE  SoundRow(r, Arrived(sent', g))
  BY <1>1, RowGrows, ArrivedIsSubset DEF HostKeeps, Row
<1>2. \A g \in Galleries : saved[g] \in Row
  BY DEF TypeOK, SavesOK
<1>3. \A k \in 1 .. Len(writes) : writes[k] \in Save
  BY DEF TypeOK, SavesOK
<1>4. \A k \in 1 .. Len(writes) : writes[k].row \in Row /\ writes[k].g \in Galleries
  BY <1>3 DEF Save
<1>. QED
  BY <1>1, <1>2, <1>4 DEF SavedCounts, WriteCounts

\* A stored image is one of the gallery's uploaded ones, and has arrived.
LEMMA StoredArrives ==
  ASSUME TypeOK, NEW h \in Galleries, NEW i \in Accepted, Stored(h, i)
  PROVE  /\ i \in Arrived(sent', h)
         /\ \A g \in Galleries : /\ item'[g].counted = item[g].counted
                                 /\ item'[g].status = item[g].status
                                 /\ item'[g].gid = item[g].gid
                                 /\ item'[g].total = item[g].total
         /\ \A g \in Galleries \ {h} : item'[g] = item[g]
         /\ item'[h].done = item[h].done \cup {i}
<1>. i \in Images
  BY DEF Accepted
<1>1. sent'[h][i] > 0
  BY DEF Stored, Arrives, TypeOK, SentOK
<1>2. item' = [item EXCEPT ![h].done = @ \cup {i}] /\ item \in [Galleries -> Item]
  BY DEF Stored, Arrives, TypeOK, ItemsOK
<1>. QED
  BY <1>1, <1>2 DEF Arrived, Item

\* The worker's reasons to call an upload completed.
LEMMA CompletedOutcome ==
  ASSUME WorkerOK, worker.g \in Galleries, WorkerCounts, worker.pc = "finish", Outcome = "completed"
  PROVE  Accepted \subseteq Arrived(sent, worker.g)
<1>1. worker.succ \in Nat /\ worker.tot \in Nat
  BY AtWork
<1>2. worker.succ <= Cardinality(Arrived(sent, worker.g)) /\ Enough(worker.tot)
  BY DEF WorkerCounts, SoundWorker
<1>3. worker.succ >= worker.tot
  <2>1. worker.tot > 0
    BY <1>2 DEF Enough
  <2>2. ~(worker.succ = 0)
    BY <2>1 DEF Outcome
  <2>3. worker.failed = {}
    BY <1>1, <2>2 DEF Outcome
  <2>4. ~(worker.succ < worker.tot)
    BY <2>3 DEF Outcome
  <2>. QED
    BY <1>1, <2>4
<1>. QED
  BY <1>1, <1>2, <1>3, AllArrived, ArrivedIsSubset

\* What the worker writes to its gallery is sound.
LEMMA ItemsOfWorker ==
  ASSUME TypeOK, ImagesInv, WorkerStep, HostKeeps, ItemCounts, WorkerCounts, ItemsOK'
  PROVE  ItemCounts'
<1>. /\ item \in [Galleries -> Item] /\ \A g \in Galleries : item'[g] \in Item
     /\ worker.pc # "idle" => worker.g \in Galleries
  BY AtWork DEF TypeOK, ItemsOK
<1>0. CASE \A g \in Galleries : Kept(item[g], item'[g])
  BY <1>0, KeptIsSound DEF ItemCounts
<1>1. CASE item' = item
  BY <1>0, <1>1 DEF Kept
<1>2. CASE BeginFails \/ Begin \/ EarlyStop \/ FolderGone \/ CreateFails
  <2>1. worker.g \in Galleries
    BY <1>2, AtWork DEF TypeOK, BeginFails, Begin, EarlyStop, FolderGone, CreateFails
  <2>2. \E s \in Status \ {"completed"} : item' = WithStatus(worker.g, s)
    BY <1>2, StatusNames DEF BeginFails, Begin, EarlyStop, FolderGone, CreateFails, GivesUp, Becomes
  <2>. QED
    BY <1>0, <2>1, <2>2, KeptStatus
<1>3. CASE worker.g \in Galleries /\ \E i \in Accepted : Stored(worker.g, i)
  <2>1. PICK i \in Accepted : Stored(worker.g, i)
    BY <1>3
  <2>2. ASSUME NEW g \in Galleries PROVE SoundItem(item'[g], Arrived(sent', g))
    <3>1. SoundItem(item[g], Arrived(sent', g))
      BY KeptIsSound DEF Kept
    <3>2. CASE g # worker.g
      BY <1>3, <2>1, <3>1, <3>2, StoredArrives
    <3>3. CASE g = worker.g
      BY <1>3, <2>1, <3>1, <3>3, StoredArrives DEF SoundItem, SoundRow
    <3>. QED
      BY <3>2, <3>3
  <2>. QED
    BY <2>2 DEF ItemCounts
<1>4. CASE Report
  <2>1. worker.g \in Galleries /\ Accepted # {}
    BY <1>4, AtWork DEF TypeOK, Report, WorkerCounts, SoundWorker
  <2>2. PICK s \in {"incomplete", item[worker.g].status} :
           item' = [item EXCEPT ![worker.g].gid = TRUE, ![worker.g].status = s]
    BY <1>4 DEF Report, Current
  <2>3. ASSUME NEW g \in Galleries PROVE SoundItem(item'[g], Arrived(sent', g))
    <3>1. SoundItem(item[g], Arrived(sent', g))
      BY KeptIsSound DEF Kept
    <3>2. CASE g # worker.g
      BY <2>2, <3>1, <3>2
    <3>3. CASE g = worker.g
      BY <2>1, <2>2, <3>1, <3>3 DEF SoundItem, SoundRow, Item
    <3>. QED
      BY <3>2, <3>3
  <2>. QED
    BY <2>3 DEF ItemCounts
<1>5. CASE Finish
  <2>1. worker.g \in Galleries /\ worker.pc = "finish"
    BY <1>5, AtWork DEF TypeOK, Finish
  <2>2. item' = WithStatus(worker.g, Outcome) /\ Outcome \in Status
    BY <1>5, StatusNames DEF Finish, Outcome
  <2>3. CASE Outcome # "completed"
    BY <1>0, <2>1, <2>2, <2>3, KeptStatus
  <2>4. CASE Outcome = "completed"
    <3>1. Accepted \subseteq Arrived(sent', worker.g)
      BY <2>1, <2>4, CompletedOutcome DEF TypeOK, HostKeeps
    <3>2. ASSUME NEW g \in Galleries PROVE SoundItem(item'[g], Arrived(sent', g))
      <4>1. SoundItem(item[g], Arrived(sent', g))
        BY KeptIsSound DEF Kept
      <4>2. CASE g # worker.g
        BY <2>2, <4>1, <4>2 DEF WithStatus
      <4>3. CASE g = worker.g
        BY <2>1, <2>2, <3>1, <4>1, <4>3 DEF SoundItem, SoundRow, Item, WithStatus
      <4>. QED
        BY <4>2, <4>3
    <3>. QED
      BY <3>2 DEF ItemCounts
  <2>. QED
    BY <2>3, <2>4
<1>6. CASE CreateGallery \/ \E i \in Images : Image(i)
  BY <1>1, <1>3, <1>6, Flying, AtWork DEF CreateGallery, Image, ImageUploaded, ImageFails, Left, TypeOK,
     queueVars
<1>. QED
  BY <1>1, <1>2, <1>4, <1>5, <1>6 DEF WorkerStep, TakeItem, Drop, LowDisk, EnterEngine, Resume,
     NextPass, queueVars

\* What the worker counts in the pool.
LEMMA PoolCounts ==
  ASSUME TypeOK, ImagesInv, WorkerStep, HostKeeps, WorkerCounts, ItemCounts,
         worker'.pc = "pool"
  PROVE  /\ Accepted # {} /\ worker'.g = worker.g /\ worker.g \in Galleries
         /\ worker'.base + Cardinality(worker'.up) <= Cardinality(item'[worker.g].done)
<1>. /\ item \in [Galleries -> Item] /\ worker \in Worker
     /\ worker.pc # "idle" => worker.g \in Galleries
     /\ worker.base \in Nat /\ worker.up \in SUBSET Images
  BY AtWork DEF TypeOK, ItemsOK, WorkerOK
<1>1. CASE Resume
  <2>. DEFINE w == [worker EXCEPT !.todo = Left(Current), !.base = Cardinality(Current.done)]
  <2>1. worker.g \in Galleries /\ item[worker.g].done \in SUBSET Images /\ worker.up = {}
    BY <1>1, ItemFields DEF Resume, WorkerCounts, SoundWorker
  <2>2. Left(Current) \in SUBSET Images /\ Cardinality(Current.done) \in Nat
    BY <2>1, NumImages DEF Left, Accepted, Current
  <2>3. w \in Worker /\ w.base = Cardinality(item[worker.g].done) /\ w.up = {} /\ w.g = worker.g
    BY <2>1, <2>2 DEF Worker, Current
  <2>4. Primed(w) /\ item' = item /\ Accepted # {}
    BY <1>1, <2>1 DEF Resume, queueVars, ItemCounts, SoundItem, SoundRow, Current
  <2>. HIDE DEF w
  <2>5. worker'.base = w.base /\ worker'.up = w.up /\ worker'.g = w.g
    BY <2>3, <2>4, PrimedSplits
  <2>. QED
    BY <2>1, <2>2, <2>3, <2>4, <2>5, Sizes DEF Current
<1>2. CASE CreateGallery
  <2>1. worker.g \in Galleries /\ item[worker.g].done \in SUBSET Images /\ worker.up = {}
    BY <1>2, ItemFields DEF CreateGallery, WorkerCounts, SoundWorker
  <2>2. PICK i \in Left(Current) :
           /\ Stored(worker.g, i)
           /\ Primed([worker EXCEPT !.todo = Left(Current) \ {i}, !.base = 1])
    BY <1>2 DEF CreateGallery
  <2>. DEFINE w == [worker EXCEPT !.todo = Left(Current) \ {i}, !.base = 1]
  <2>3. Left(Current) \in SUBSET Images /\ i \in Images /\ i \in Accepted
    BY <2>2 DEF Left, Accepted
  <2>4. w \in Worker /\ w.base = 1 /\ w.up = {} /\ w.g = worker.g
    BY <2>1, <2>3 DEF Worker
  <2>5. item'[worker.g].done = item[worker.g].done \cup {i}
    BY <2>1, <2>2, <2>3, StoredDone
  <2>6. Primed(w)
    BY <2>2
  <2>. HIDE DEF w
  <2>7. worker'.base = w.base /\ worker'.up = w.up /\ worker'.g = w.g
    BY <2>4, <2>6, PrimedSplits
  <2>8. Cardinality(item'[worker.g].done) >= 1
    <3>1. item'[worker.g].done \in SUBSET Images /\ item'[worker.g].done # {}
      BY <2>1, <2>3, <2>5
    <3>. QED
      BY <3>1, Sizes
  <2>9. Cardinality(item'[worker.g].done) \in Nat
    BY <2>1, <2>3, <2>5, Sizes
  <2>. QED
    BY <2>1, <2>3, <2>4, <2>7, <2>8, <2>9, Sizes
<1>3. CASE \E i \in Images : Image(i)
  <2>1. PICK i \in Images : ImageUploaded(i) \/ ImageFails(i)
    BY <1>3 DEF Image
  <2>2. worker.g \in Galleries /\ worker.pc = "pool" /\ i \in worker.flying
    BY <2>1 DEF ImageUploaded, ImageFails
  <2>3. item[worker.g].done \in SUBSET Images /\ i \notin item[worker.g].done
    BY <2>2, ItemFields, Flying
  <2>4. Accepted # {} /\ worker.base + Cardinality(worker.up) <= Cardinality(item[worker.g].done)
    BY <2>2 DEF WorkerCounts, SoundWorker
  <2>5. /\ Cardinality(worker.up) \in Nat /\ Cardinality(item[worker.g].done) \in Nat
        /\ Cardinality(worker.up \cup {i}) <= Cardinality(worker.up) + 1
        /\ Cardinality(worker.up \cup {i}) \in Nat
        /\ Cardinality(item[worker.g].done \cup {i}) = Cardinality(item[worker.g].done) + 1
    <3>1. Cardinality(worker.up) \in Nat /\ Cardinality(item[worker.g].done) \in Nat
      BY <2>3, Sizes
    <3>2. Cardinality(worker.up \cup {i}) \in {Cardinality(worker.up), Cardinality(worker.up) + 1}
      BY Sizes
    <3>. QED
      BY <2>3, <3>1, <3>2, Sizes
  <2>6. CASE ImageUploaded(i)
    <3>. DEFINE w == [worker EXCEPT !.flying = @ \ {i}, !.up = @ \cup {i}]
    <3>1. w \in Worker /\ w.g = worker.g /\ w.base = worker.base /\ w.up = worker.up \cup {i}
      BY <2>2 DEF Worker
    <3>2. Submitted(w)
      BY <2>6 DEF ImageUploaded
    <3>3. item'[worker.g].done = item[worker.g].done \cup {i}
      BY <2>2, <2>6, StoredDone DEF ImageUploaded
    <3>. HIDE DEF w
    <3>4. worker'.base = w.base /\ worker'.up = w.up /\ worker'.g = w.g
      BY <3>1, <3>2, SubmittedSplits
    <3>. QED
      BY <2>2, <2>4, <2>5, <3>1, <3>3, <3>4
  <2>7. CASE ImageFails(i)
    <3>. DEFINE w == [worker EXCEPT !.flying = @ \ {i}, !.failed = @ \cup {i}]
    <3>1. w \in Worker /\ w.g = worker.g /\ w.base = worker.base /\ w.up = worker.up
      BY <2>2 DEF Worker
    <3>2. Submitted(w) /\ item' = item
      BY <2>7 DEF ImageFails, queueVars
    <3>. HIDE DEF w
    <3>3. worker'.base = w.base /\ worker'.up = w.up /\ worker'.g = w.g
      BY <3>1, <3>2, SubmittedSplits
    <3>. QED
      BY <2>2, <2>4, <3>1, <3>2, <3>3
  <2>. QED
    BY <2>1, <2>6, <2>7
<1>4. CASE NextPass
  <2>. DEFINE w == [worker EXCEPT !.todo = worker.failed, !.failed = {}, !.pass = @ + 1]
  <2>1. w \in Worker /\ w.base = worker.base /\ w.up = worker.up /\ w.g = worker.g
    <3>1. worker.failed \in SUBSET Images /\ worker.pass + 1 \in Nat
      BY AtWork DEF TypeOK
    <3>. QED
      BY <3>1 DEF Worker
  <2>2. Primed(w) /\ item' = item /\ worker.pc = "pool"
    BY <1>4 DEF NextPass, queueVars
  <2>3. Accepted # {} /\ worker.base + Cardinality(worker.up) <= Cardinality(item[worker.g].done)
    BY <2>2 DEF WorkerCounts, SoundWorker
  <2>. HIDE DEF w
  <2>4. worker'.base = w.base /\ worker'.up = w.up /\ worker'.g = w.g
    BY <2>1, <2>2, PrimedSplits
  <2>. QED
    BY <2>1, <2>2, <2>3, <2>4
<1>5. CASE Drop \/ LowDisk
  BY <1>5 DEF Drop, LowDisk, workerVars
<1>6. CASE \/ TakeItem \/ BeginFails \/ EarlyStop \/ FolderGone \/ CreateFails \/ Finish
           \/ (Report /\ Leaves)
  <2>1. \E g : worker' = Idle(g) \/ worker' = [Idle(g) EXCEPT !.pc = "taken"]
    BY <1>6 DEF TakeItem, BeginFails, EarlyStop, FolderGone, CreateFails, Finish, GivesUp, Leaves
  <2>2. worker'.pc \in {"idle", "taken"}
    BY <2>1 DEF Idle
  <2>. QED
    BY <2>2
<1>7. CASE Begin \/ EnterEngine \/ (Report /\ ~Leaves)
  <2>1. worker'.pc \in {"early", "run", "finish"}
    BY <1>7 DEF Begin, EnterEngine, Report, SetPc, Worker
  <2>. QED
    BY <2>1
<1>. QED
  BY <1>1, <1>2, <1>3, <1>4, <1>5, <1>6, <1>7 DEF WorkerStep

\* The results are of what is done, and that has arrived.
LEMMA ReportCounts ==
  ASSUME TypeOK, Report, HostKeeps, WorkerCounts, ItemCounts, ~Leaves
  PROVE  /\ worker'.pc = "finish" /\ worker'.g = worker.g
         /\ worker'.base = worker.base /\ worker'.up = worker.up
         /\ worker'.succ <= Cardinality(Arrived(sent', worker.g)) /\ Enough(worker'.tot)
<1>. worker.g \in Galleries /\ worker \in Worker /\ worker.pc = "pool" /\ sent' = sent
  BY AtWork DEF TypeOK, WorkerOK, Report
<1>1. /\ worker'.pc = "finish" /\ worker'.g = worker.g
      /\ worker'.base = worker.base /\ worker'.up = worker.up
      /\ worker'.succ = Successful /\ worker'.tot = Total
  BY DEF Report, Worker
<1>2. Accepted # {} /\ worker.base + Cardinality(worker.up) <= Cardinality(item[worker.g].done)
  BY DEF WorkerCounts, SoundWorker
<1>3. Enough(Total)
  BY <1>2, EnoughImages DEF Total
<1>4. Successful <= Cardinality(Arrived(sent, worker.g))
  <2>1. /\ item[worker.g].done \subseteq Arrived(sent, worker.g)
        /\ Arrived(sent, worker.g) \in SUBSET Images
    BY ArrivedIsSubset DEF ItemCounts, SoundItem
  <2>2. /\ Cardinality(item[worker.g].done) <= Cardinality(Arrived(sent, worker.g))
        /\ Cardinality(item[worker.g].done) \in Nat /\ Cardinality(Arrived(sent, worker.g)) \in Nat
    BY <2>1, Sizes
  <2>3. worker.base \in Nat /\ Cardinality(worker.up) \in Nat
    BY AtWork, Sizes DEF TypeOK
  <2>. QED
    BY <1>2, <2>2, <2>3 DEF Successful, Current
<1>. QED
  BY <1>1, <1>3, <1>4

\* So the worker's counts stay sound.
LEMMA CountsOfWorker ==
  ASSUME TypeOK, ImagesInv, WorkerStep, HostKeeps, WorkerCounts, ItemCounts
  PROVE  WorkerCounts'
<1>. worker \in Worker
  BY DEF TypeOK, WorkerOK
<1>1. CASE worker'.pc = "pool"
  BY <1>1, PoolCounts DEF WorkerCounts, SoundWorker
<1>2. CASE Report /\ ~Leaves
  <2>1. worker.g \in Galleries /\ item \in [Galleries -> Item] /\ worker.pc = "pool"
    BY <1>2, AtWork DEF TypeOK, ItemsOK, Report
  <2>2. item'[worker.g].done = item[worker.g].done
    BY <1>2, <2>1 DEF Report, Item
  <2>3. Accepted # {} /\ worker.base + Cardinality(worker.up) <= Cardinality(item[worker.g].done)
    BY <2>1 DEF WorkerCounts, SoundWorker
  <2>. QED
    BY <1>2, <2>2, <2>3, ReportCounts DEF WorkerCounts, SoundWorker
<1>3. CASE \/ TakeItem \/ BeginFails \/ EarlyStop \/ FolderGone \/ CreateFails \/ Finish
           \/ (Report /\ Leaves)
  <2>1. \E g : worker' = Idle(g) \/ worker' = [Idle(g) EXCEPT !.pc = "taken"]
    BY <1>3 DEF TakeItem, BeginFails, EarlyStop, FolderGone, CreateFails, Finish, GivesUp, Leaves
  <2>2. worker'.pc \in {"idle", "taken"} /\ worker'.up = {}
    BY <2>1 DEF Idle
  <2>. QED
    BY <2>2 DEF WorkerCounts, SoundWorker
<1>4. CASE Begin \/ EnterEngine
  <2>1. worker'.pc \in {"early", "run"} /\ worker'.up = worker.up /\ worker.pc \in {"taken", "early"}
    BY <1>4 DEF Begin, EnterEngine, SetPc, Worker
  <2>. QED
    BY <2>1 DEF WorkerCounts, SoundWorker
<1>5. CASE Drop \/ LowDisk
  <2>1. worker' = worker /\ worker.pc = "idle"
    BY <1>5 DEF Drop, LowDisk, workerVars
  <2>. QED
    BY <2>1 DEF WorkerCounts, SoundWorker
<1>6. CASE Resume \/ CreateGallery \/ NextPass \/ \E i \in Images : Image(i)
  <2>1. \E w \in Worker : w.pc \in {"pool", worker.pc} /\ (Primed(w) \/ (Submitted(w) /\ w.pc = "pool"))
    <3>1. CASE Resume
      <4>1. Left(Current) \in SUBSET Images /\ Cardinality(Current.done) \in Nat
        BY <3>1, NumImages, AtWork, ItemFields DEF Resume, Left, Accepted, Current, TypeOK, ItemsOK
      <4>2. [worker EXCEPT !.todo = Left(Current), !.base = Cardinality(Current.done)] \in Worker
        BY <4>1 DEF Worker
      <4>. QED
        BY <3>1, <4>2 DEF Resume, Worker
    <3>2. CASE CreateGallery
      <4>1. PICK i \in Left(Current) :
               Primed([worker EXCEPT !.todo = Left(Current) \ {i}, !.base = 1])
        BY <3>2 DEF CreateGallery
      <4>2. Left(Current) \in SUBSET Images
        BY DEF Left, Accepted
      <4>3. [worker EXCEPT !.todo = Left(Current) \ {i}, !.base = 1] \in Worker
        BY <4>2 DEF Worker
      <4>. QED
        BY <4>1, <4>3 DEF Worker
    <3>3. CASE NextPass
      <4>1. worker.failed \in SUBSET Images /\ worker.pass + 1 \in Nat
        BY AtWork DEF TypeOK
      <4>2. [worker EXCEPT !.todo = worker.failed, !.failed = {}, !.pass = @ + 1] \in Worker
        BY <4>1 DEF Worker
      <4>. QED
        BY <3>3, <4>2 DEF NextPass, Worker
    <3>4. CASE \E i \in Images : Image(i)
      <4>1. PICK i \in Images : ImageUploaded(i) \/ ImageFails(i)
        BY <3>4 DEF Image
      <4>2. /\ [worker EXCEPT !.flying = @ \ {i}, !.up = @ \cup {i}] \in Worker
            /\ [worker EXCEPT !.flying = @ \ {i}, !.failed = @ \cup {i}] \in Worker
        BY DEF Worker
      <4>. QED
        BY <4>1, <4>2 DEF ImageUploaded, ImageFails, Worker
    <3>. QED
      BY <1>6, <3>1, <3>2, <3>3, <3>4
  <2>2. worker'.pc = "pool"
    BY <2>1, PrimedSplits DEF Submitted, Worker
  <2>. QED
    BY <1>1, <2>2
<1>. QED
  BY <1>2, <1>3, <1>4, <1>5, <1>6 DEF WorkerStep

\* The signals that wait say what is true by now.
LEMMA SignalsGrow ==
  ASSUME TypeOK, HostKeeps, SignalCounts
  PROVE  \A k \in 1 .. Len(signals) : SoundSignal(signals[k], sent')
<1>1. \A k \in 1 .. Len(signals) : signals[k] \in SignalSet
  BY DEF TypeOK, SignalsOK
<1>. QED
  BY <1>1, SignalGrows DEF SignalCounts

\* One more.
LEMMA EmitSound ==
  ASSUME TypeOK, HostKeeps, SignalCounts, NEW s \in SignalSet,
         signals' = Append(signals, s), SoundSignal(s, sent')
  PROVE  SignalCounts'
<1>1. signals \in Seq(SignalSet)
  BY DEF TypeOK, SignalsOK
<1>2. /\ Len(signals') = Len(signals) + 1 /\ signals'[Len(signals) + 1] = s
      /\ \A k \in 1 .. Len(signals) : signals'[k] = signals[k]
      /\ Len(signals) \in Nat
  BY <1>1
<1>3. ASSUME NEW k \in 1 .. Len(signals') PROVE SoundSignal(signals'[k], sent')
  <2>1. CASE k = Len(signals) + 1
    BY <1>2, <2>1
  <2>2. CASE k \in 1 .. Len(signals)
    BY <1>2, <2>2, SignalsGrow
  <2>. QED
    BY <1>2, <2>1, <2>2
<1>. QED
  BY <1>3 DEF SignalCounts

\* The progress the worker reports has arrived.
LEMMA ProgressSound ==
  ASSUME TypeOK, ImagesInv, WorkerStep, HostKeeps, WorkerCounts, ItemCounts, SignalCounts,
         ItemCounts', TypeOK', worker'.pc = "pool",
         Emit("progress", worker'.base + Cardinality(worker'.up), Cardinality(Accepted))
  PROVE  SignalCounts'
<1>. DEFINE n == worker'.base + Cardinality(worker'.up)
            s == Signal("progress", n, Cardinality(Accepted))
<1>1. Accepted # {} /\ worker.g \in Galleries /\ n <= Cardinality(item'[worker.g].done)
  BY PoolCounts
<1>2. worker' \in Worker /\ item' \in [Galleries -> Item]
  BY DEF TypeOK, WorkerOK, ItemsOK
<1>3. n \in Nat
  <2>1. worker'.base \in Nat /\ worker'.up \in SUBSET Images
    BY <1>2 DEF Worker
  <2>. QED
    BY <2>1, Sizes
<1>4. n <= Cardinality(Arrived(sent', worker.g))
  <2>1. item'[worker.g].done \subseteq Arrived(sent', worker.g)
    BY <1>1 DEF ItemCounts, SoundItem
  <2>2. /\ Cardinality(item'[worker.g].done) <= Cardinality(Arrived(sent', worker.g))
        /\ Cardinality(item'[worker.g].done) \in Nat
        /\ Cardinality(Arrived(sent', worker.g)) \in Nat
    BY <2>1, ArrivedIsSubset, Sizes
  <2>. QED
    BY <1>1, <1>3, <2>2
<1>5. Enough(Cardinality(Accepted)) /\ Cardinality(Accepted) \in Nat
  BY <1>1, EnoughImages, NumImages
<1>6. s \in SignalSet /\ SoundSignal(s, sent')
  BY <1>1, <1>3, <1>4, <1>5 DEF Signal, SignalSet, SoundSignal
<1>7. signals' = Append(signals, s)
  BY DEF Emit
<1>. HIDE DEF s
<1>. QED
  BY <1>6, <1>7, EmitSound

\* So what the worker emits is sound.
LEMMA SignalsOfWorker ==
  ASSUME TypeOK, ImagesInv, WorkerStep, HostKeeps, WorkerCounts, ItemCounts, SignalCounts,
         ItemCounts', TypeOK'
  PROVE  SignalCounts'
<1>. /\ item \in [Galleries -> Item] /\ worker \in Worker
     /\ worker.pc # "idle" => worker.g \in Galleries
  BY AtWork DEF TypeOK, ItemsOK, WorkerOK
<1>0. CASE signals' = signals
  BY <1>0, SignalsGrow DEF SignalCounts
<1>1. CASE BeginFails \/ FolderGone \/ CreateFails
  <2>1. worker.g \in Galleries /\ Emit("failed", 0, 0)
    BY <1>1 DEF BeginFails, FolderGone, CreateFails, GivesUp
  <2>2. Signal("failed", 0, 0) \in SignalSet /\ SoundSignal(Signal("failed", 0, 0), sent')
    BY <2>1 DEF Signal, SignalSet, SoundSignal
  <2>. QED
    BY <2>1, <2>2, EmitSound DEF Emit
<1>2. CASE Begin
  <2>1. worker.g \in Galleries /\ Emit("started", 0, Current.total)
    BY <1>2 DEF Begin
  <2>2. Current.total \in Nat /\ Enough(Current.total)
    BY <2>1, ItemFields DEF Current, ItemCounts, SoundItem
  <2>3. 0 <= Cardinality(Arrived(sent', worker.g))
    BY ArrivedIsSubset
  <2>4. /\ Signal("started", 0, Current.total) \in SignalSet
        /\ SoundSignal(Signal("started", 0, Current.total), sent')
    BY <2>1, <2>2, <2>3 DEF Signal, SignalSet, SoundSignal
  <2>. QED
    BY <2>1, <2>4, EmitSound DEF Emit
<1>3. CASE Finish
  <2>1. worker.g \in Galleries /\ Emit("completed", worker.succ, worker.tot) /\ sent' = sent
    BY <1>3 DEF Finish
  <2>2. /\ Accepted # {} /\ worker.succ <= Cardinality(Arrived(sent, worker.g)) /\ Enough(worker.tot)
        /\ worker.succ \in Nat /\ worker.tot \in Nat
    BY <1>3, AtWork DEF Finish, WorkerCounts, SoundWorker, TypeOK
  <2>3. /\ Signal("completed", worker.succ, worker.tot) \in SignalSet
        /\ SoundSignal(Signal("completed", worker.succ, worker.tot), sent')
    BY <2>1, <2>2 DEF Signal, SignalSet, SoundSignal
  <2>. QED
    BY <2>1, <2>3, EmitSound DEF Emit
<1>4. CASE Resume
  <2>. DEFINE w == [worker EXCEPT !.todo = Left(Current), !.base = Cardinality(Current.done)]
  <2>1. item[worker.g].done \in SUBSET Images /\ worker.up = {}
    BY <1>4, ItemFields DEF Resume, WorkerCounts, SoundWorker
  <2>2. Left(Current) \in SUBSET Images /\ Cardinality(Current.done) \in Nat
    BY <2>1, NumImages DEF Left, Accepted, Current
  <2>3. w \in Worker /\ w.base = Cardinality(Current.done) /\ w.up = {}
    BY <2>1, <2>2 DEF Worker
  <2>4. Primed(w) /\ Emit("progress", Cardinality(Current.done), Cardinality(Accepted))
    BY <1>4 DEF Resume
  <2>. HIDE DEF w
  <2>5. /\ worker'.pc = "pool" /\ Cardinality(Current.done) \in Nat
        /\ worker'.base = Cardinality(Current.done) /\ worker'.up = {}
    BY <2>2, <2>3, <2>4, PrimedSplits
  <2>6. worker'.base + Cardinality(worker'.up) = Cardinality(Current.done)
    BY <2>5, Sizes
  <2>. QED
    BY <2>4, <2>5, <2>6, ProgressSound
<1>5. CASE CreateGallery
  <2>1. PICK i \in Left(Current) : Primed([worker EXCEPT !.todo = Left(Current) \ {i}, !.base = 1])
    BY <1>5 DEF CreateGallery
  <2>. DEFINE w == [worker EXCEPT !.todo = Left(Current) \ {i}, !.base = 1]
  <2>2. Left(Current) \in SUBSET Images /\ worker.up = {}
    BY <1>5 DEF Left, Accepted, CreateGallery, WorkerCounts, SoundWorker
  <2>3. w \in Worker /\ w.base = 1 /\ w.up = {}
    BY <2>2 DEF Worker
  <2>4. Primed(w) /\ Emit("progress", 1, Cardinality(Accepted))
    BY <1>5, <2>1 DEF CreateGallery
  <2>. HIDE DEF w
  <2>5. worker'.pc = "pool" /\ worker'.base = 1 /\ worker'.up = {}
    BY <2>3, <2>4, PrimedSplits
  <2>6. worker'.base + Cardinality(worker'.up) = 1
    BY <2>5, Sizes
  <2>. QED
    BY <2>4, <2>5, <2>6, ProgressSound
<1>6. CASE \E i \in Images : Image(i)
  <2>1. PICK i \in Images : ImageUploaded(i) \/ ImageFails(i)
    BY <1>6 DEF Image
  <2>2. \E w \in Worker : w.pc = "pool" /\ w.g = worker.g /\ Progress(w) /\ Submitted(w)
    <3>1. LET u == [worker EXCEPT !.flying = @ \ {i}, !.up = @ \cup {i}]
              f == [worker EXCEPT !.flying = @ \ {i}, !.failed = @ \cup {i}]
          IN  /\ u \in Worker /\ f \in Worker /\ u.pc = worker.pc /\ f.pc = worker.pc
              /\ u.g = worker.g /\ f.g = worker.g
      BY DEF Worker
    <3>. QED
      BY <2>1, <3>1 DEF ImageUploaded, ImageFails
  <2>3. PICK w \in Worker : w.pc = "pool" /\ w.g = worker.g /\ Progress(w) /\ Submitted(w)
    BY <2>2
  <2>4. worker'.pc = "pool" /\ worker'.base = w.base /\ worker'.up = w.up
    BY <2>3, SubmittedSplits
  <2>5. Emit("progress", worker'.base + Cardinality(worker'.up), Cardinality(Accepted))
    BY <2>3, <2>4 DEF Progress
  <2>. QED
    BY <2>4, <2>5, ProgressSound
<1>. QED
  BY <1>0, <1>1, <1>2, <1>3, <1>4, <1>5, <1>6 DEF WorkerStep, TakeItem, Drop, LowDisk, EarlyStop,
     EnterEngine, NextPass, Report, workerVars

\* A row says what its item says.
LEMMA RowIsSound ==
  ASSUME NEW it, NEW A, SoundItem(it, A)
  PROVE  SoundRow(RowOf(it), A)
  BY DEF SoundItem, SoundRow, RowOf

\* What is saved, and is to be saved, is sound.
LEMMA SavesOfNext ==
  ASSUME TypeOK, ImagesInv, Next, ~Crash, HostKeeps, SavedCounts, WriteCounts, ItemCounts,
         ItemCounts'
  PROVE  SavedCounts' /\ WriteCounts'
<1>0. CASE saved' = saved /\ writes' = writes
  BY <1>0, SavedGrow DEF SavedCounts, WriteCounts
<1>1. CASE TimerFires
  <2>1. timer \in Galleries /\ SoundItem(item[timer], Arrived(sent, timer)) /\ sent' = sent
    BY <1>1 DEF TimerFires, TypeOK, SavesOK, ItemCounts
  <2>2. SoundRow(RowOf(item[timer]), Arrived(sent, timer))
    BY <2>1, RowIsSound
  <2>. DEFINE s == [g |-> timer, row |-> RowOf(item[timer])]
  <2>3. writes \in Seq(Save) /\ s \in Save
    BY <2>1, RowType DEF TypeOK, SavesOK, ItemsOK, Save
  <2>4. CASE writes' = Append(writes, s)
    <3>1. /\ Len(writes') = Len(writes) + 1 /\ writes'[Len(writes) + 1] = s
          /\ \A k \in 1 .. Len(writes) : writes'[k] = writes[k]
          /\ Len(writes) \in Nat
      BY <2>3, <2>4
    <3>2. s.g = timer /\ SoundRow(s.row, Arrived(sent', s.g))
      BY <2>1, <2>2
    <3>. HIDE DEF s
    <3>3. ASSUME NEW k \in 1 .. Len(writes')
          PROVE  SoundRow(writes'[k].row, Arrived(sent', writes'[k].g))
      <4>1. CASE k = Len(writes) + 1
        BY <3>1, <3>2, <4>1
      <4>2. CASE k \in 1 .. Len(writes)
        BY <3>1, <4>2, SavedGrow
      <4>. QED
        BY <3>1, <4>1, <4>2
    <3>. QED
      BY <1>1, <3>3, SavedGrow DEF TimerFires, SavedCounts, WriteCounts
  <2>5. CASE writes' = writes
    BY <1>0, <1>1, <2>5 DEF TimerFires
  <2>. QED
    BY <1>1, <2>4, <2>5 DEF TimerFires
<1>2. CASE WriterWrites
  <2>1. /\ writes # <<>> /\ writes \in Seq(Save) /\ sent' = sent
        /\ saved' = [saved EXCEPT ![writes[1].g] = writes[1].row]
        /\ writes' = Tail(writes) /\ saved \in [Galleries -> Row]
    <3>1. writes # <<>> /\ writes \in Seq(Save) /\ saved \in [Galleries -> Row] /\ sent' = sent
      BY <1>2 DEF WriterWrites, TypeOK, SavesOK
    <3>2. Head(writes) = writes[1]
      BY <3>1
    <3>. QED
      BY <1>2, <3>1, <3>2 DEF WriterWrites
  <2>2. /\ Len(writes) \in Nat /\ Len(writes) > 0 /\ Len(writes') = Len(writes) - 1
        /\ \A k \in 1 .. Len(writes') : writes'[k] = writes[k + 1]
    BY <2>1
  <2>3. WriteCounts'
    BY <2>1, <2>2 DEF WriteCounts
  <2>4. SoundRow(writes[1].row, Arrived(sent', writes[1].g))
    BY <2>1, <2>2 DEF WriteCounts
  <2>5. ASSUME NEW g \in Galleries PROVE SoundRow(saved'[g], Arrived(sent', g))
    <3>1. CASE g = writes[1].g
      BY <2>1, <2>4, <3>1
    <3>2. CASE g # writes[1].g
      BY <2>1, <3>2 DEF SavedCounts
    <3>. QED
      BY <3>1, <3>2
  <2>. QED
    BY <2>3, <2>5 DEF SavedCounts
<1>3. CASE Finish
  <2>1. CASE Outcome = "completed"
    <3>1. worker.g \in Galleries /\ saved \in [Galleries -> Row]
      BY <1>3, AtWork DEF TypeOK, SavesOK, Finish
    <3>2. saved' = [saved EXCEPT ![worker.g] = RowOf(item'[worker.g])] /\ writes' = writes
      BY <1>3, <2>1 DEF Finish, SavedAtOnce
    <3>3. SoundRow(RowOf(item'[worker.g]), Arrived(sent', worker.g))
      BY <3>1, RowIsSound DEF ItemCounts
    <3>4. SavedCounts'
      BY <3>1, <3>2, <3>3, SavedGrow DEF SavedCounts
    <3>. QED
      BY <3>2, <3>4, SavedGrow DEF WriteCounts
  <2>2. CASE Outcome # "completed"
    BY <1>0, <1>3, <2>2 DEF Finish, DebouncedElsewhere
  <2>. QED
    BY <2>1, <2>2
<1>4. CASE UserSteps
  BY <1>0, <1>4 DEF UserSteps, User, StartItem, CancelItem, RetryFailed, ResetGallery, Rescan, Debounced,
     NotSaved, saveVars
<1>5. CASE PauseAll \/ (\E g \in Galleries : StopItem(g)) \/ MainThread \/ Scan \/ LateReady
  BY <1>0, <1>5 DEF PauseAll, StopItem, MainThread, HandleSignal, FlushBatch, Scan, ScanBegin, ScanFinds,
     ScanFails, LateReady, Debounced, DebouncedElsewhere, NotSaved, saveVars
<1>6. CASE WorkerStep /\ ~Finish
  BY <1>0, <1>6 DEF WorkerStep, TakeItem, Drop, LowDisk, BeginFails, Begin, EarlyStop, EnterEngine,
     FolderGone, Resume, CreateGallery, CreateFails, Image, ImageUploaded, ImageFails, NextPass, Report,
     GivesUp, Becomes, DebouncedElsewhere, NotSaved, saveVars, queueVars
<1>. QED
  BY <1>1, <1>2, <1>3, <1>4, <1>5, <1>6 DEF Next, Steps, UserSteps

\* What the main thread makes of a signal or a batch.
LEMMA ItemsOfMainThread ==
  ASSUME TypeOK, MainThread, HostKeeps, ItemCounts, SignalCounts
  PROVE  ItemCounts'
<1>. item \in [Galleries -> Item] /\ sent' = sent
  BY DEF TypeOK, ItemsOK, MainThread, HandleSignal, FlushBatch
<1>0. \A g \in Galleries : SoundItem(item[g], Arrived(sent, g)) /\ item[g] \in Item
  BY DEF ItemCounts
<1>1. CASE HandleSignal
  <2>. DEFINE s == Head(signals)
  <2>1. s \in SignalSet /\ s.g \in Galleries /\ s.n \in Nat /\ s.total \in Nat
    BY <1>1, FirstSignal DEF HandleSignal, TypeOK
  <2>2. SoundSignal(s, sent)
    <3>1. signals \in Seq(SignalSet) /\ signals # <<>>
      BY <1>1 DEF HandleSignal, TypeOK, SignalsOK
    <3>2. s = signals[1] /\ 1 \in 1 .. Len(signals)
      BY <3>1
    <3>. QED
      BY <3>2 DEF SignalCounts
  <2>3. \/ s.kind = "started" /\ Started(s)
        \/ s.kind = "progress" /\ Progressed(s)
        \/ s.kind = "completed" /\ Completed(s)
        \/ s.kind = "failed" /\ Failed(s)
    BY <1>1 DEF HandleSignal
  <2>. HIDE DEF s
  <2>. DEFINE A == Arrived(sent, s.g)
  <2>4. A \in SUBSET Accepted /\ Cardinality(A) \in Nat
    BY ArrivedIsSubset
  <2>5. SoundItem(item[s.g], A) /\ item[s.g] \in Item
    BY <1>0, <2>1
  <2>6. CASE s.kind = "started" /\ Started(s)
    <3>1. [item[s.g] EXCEPT !.total = s.total, !.counted = 0] = item'[s.g]
      BY <2>1, <2>6 DEF Started, Item
    <3>2. SoundItem(item'[s.g], A)
      <4>1. Enough(s.total)
        BY <2>2, <2>6 DEF SoundSignal
      <4>2. /\ item'[s.g].counted = 0 /\ item'[s.g].total = s.total /\ item'[s.g].gid = item[s.g].gid
            /\ item'[s.g].done = item[s.g].done /\ item'[s.g].status = item[s.g].status
        BY <2>5, <3>1 DEF Item
      <4>. HIDE DEF A
      <4>. QED
        BY <2>4, <2>5, <4>1, <4>2 DEF SoundItem, SoundRow
    <3>3. \A g \in Galleries \ {s.g} : item'[g] = item[g]
      BY <2>6 DEF Started
    <3>. QED
      BY <1>0, <3>2, <3>3 DEF ItemCounts
  <2>7. CASE s.kind = "progress" /\ Progressed(s)
    <3>1. [item[s.g] EXCEPT !.counted = s.n, !.total = s.total] = item'[s.g]
      BY <2>1, <2>7 DEF Progressed, Item
    <3>2. SoundItem(item'[s.g], A)
      <4>1. Enough(s.total) /\ s.n <= Cardinality(A)
        BY <2>2, <2>7 DEF SoundSignal
      <4>. HIDE DEF A
      <4>. QED
        BY <2>4, <2>5, <3>1, <4>1 DEF SoundItem, SoundRow, Item
    <3>3. \A g \in Galleries \ {s.g} : item'[g] = item[g]
      BY <2>7 DEF Progressed
    <3>. QED
      BY <1>0, <3>2, <3>3 DEF ItemCounts
  <2>8. CASE s.kind = "completed" /\ Completed(s)
    <3>1. Enough(s.total) /\ s.n <= Cardinality(A) /\ Accepted # {}
      BY <2>2, <2>8 DEF SoundSignal
    <3>2. s.total # 0
      BY <3>1 DEF Enough
    <3>3. /\ item'[s.g].counted = s.n /\ item'[s.g].total = s.total /\ item'[s.g].gid = TRUE
          /\ item'[s.g].done = item[s.g].done
          /\ item'[s.g].status = "completed" => s.n >= s.total
          /\ \A g \in Galleries \ {s.g} : item'[g] = item[g]
      BY <2>1, <2>8, <3>2 DEF Completed, Item
    <3>4. s.n >= s.total => Accepted \subseteq A
      BY <2>1, <2>4, <3>1, AllArrived
    <3>. HIDE DEF A
    <3>5. SoundItem(item'[s.g], A)
      BY <2>5, <3>1, <3>3, <3>4 DEF SoundItem, SoundRow
    <3>. QED
      BY <1>0, <3>3, <3>5 DEF ItemCounts, A
  <2>9. CASE s.kind = "failed" /\ Failed(s)
    BY <2>1, <2>9, KeptStatus, KeptIsSound, StatusNames DEF Failed, ItemCounts, WithStatus, Item, SoundItem,
       SoundRow
  <2>. QED
    BY <2>3, <2>6, <2>7, <2>8, <2>9
<1>2. CASE FlushBatch
  <2>1. ASSUME NEW g \in Galleries PROVE SoundItem(item'[g], Arrived(sent, g))
    <3>1. /\ item[g].counted \in Nat /\ item[g].total \in Nat
          /\ SoundItem(item[g], Arrived(sent, g)) /\ item[g] \in Item
      BY <1>0, ItemFields
    <3>2. \/ item'[g] = item[g]
          \/ item'[g] = [item[g] EXCEPT !.status = "failed"]
          \/ item[g].counted >= item[g].total /\ item'[g] = [item[g] EXCEPT !.status = "completed"]
      BY <1>2, <3>1 DEF FlushBatch
    <3>3. item[g].counted >= item[g].total => Accepted \subseteq Arrived(sent, g)
      BY <3>1, AllArrived, ArrivedIsSubset DEF SoundItem, SoundRow
    <3>. QED
      BY <3>1, <3>2, <3>3 DEF SoundItem, SoundRow, Item
  <2>. QED
    BY <2>1 DEF ItemCounts
<1>. QED
  BY <1>1, <1>2 DEF MainThread

\* The counts are right to begin with.
LEMMA CountsInit == Init => CountsInv
<1>. SUFFICES ASSUME Init PROVE CountsInv
  OBVIOUS
<1>1. \A g \in Galleries : Cardinality(Arrived(sent, g)) \in Nat
  BY ArrivedIsSubset
<1>2. \A g \in Galleries : /\ item[g].counted = 0 /\ item[g].gid = FALSE /\ item[g].status = "ready"
                           /\ item[g].total = Cardinality(Images) /\ item[g].done = {}
                           /\ saved[g] = RowOf(item[g])
  BY DEF Init, QueueInit
<1>3. \A g \in Galleries : SoundItem(item[g], Arrived(sent, g))
  BY <1>1, <1>2, EnoughImages DEF SoundItem, SoundRow
<1>4. \A g \in Galleries : SoundRow(saved[g], Arrived(sent, g))
  BY <1>2, <1>3, RowIsSound
<1>5. writes = <<>> /\ signals = <<>> /\ worker.pc = "idle" /\ worker.up = {}
  BY DEF Init, QueueInit, WorkerInit, Idle
<1>. QED
  BY <1>3, <1>4, <1>5 DEF CountsInv, ItemCounts, SavedCounts, WriteCounts, SignalCounts, WorkerCounts,
     SoundWorker

\* CountsInv is inductive, given the types and ImagesInv: restarts included.
LEMMA CountsNext ==
  ASSUME TypeOK, TypeOK', ImagesInv, CountsInv, [Next]_vars, Unreset
  PROVE  CountsInv'
<1>1. CASE UNCHANGED vars
  BY <1>1 DEF vars, queueVars, workerVars, CountsInv, ItemCounts, SavedCounts, WriteCounts, SignalCounts,
     WorkerCounts
<1>2. CASE Crash
  <2>1. HostKeeps
    BY <1>2, SentGrows DEF Next
  <2>2. \A g \in Galleries : SoundRow(saved[g], Arrived(sent', g))
    BY <2>1, SavedGrow DEF CountsInv
  <2>3. /\ saved' = saved /\ writes' = <<>> /\ signals' = <<>>
        /\ worker'.pc = "idle" /\ worker'.up = {}
        /\ \A g \in Galleries : item'[g] = Loaded(saved[g])
    BY <1>2 DEF Crash, Reload, Idle
  <2>4. ASSUME NEW g \in Galleries PROVE SoundItem(item'[g], Arrived(sent', g))
    <3>. DEFINE r == saved[g]
                it == item'[g]
    <3>1. it = Loaded(r) /\ SoundRow(r, Arrived(sent', g))
      BY <2>2, <2>3
    <3>. HIDE DEF r, it
    <3>2. it.counted = r.counted /\ it.gid = r.gid /\ it.total = Cardinality(Images) /\ it.done = {}
      BY <3>1 DEF Loaded
    <3>3. it.status = "completed" => r.status = "completed"
      BY <3>1 DEF Loaded
    <3>4. SoundItem(it, Arrived(sent', g))
      BY <3>1, <3>2, <3>3, EnoughImages DEF SoundItem, SoundRow
    <3>. QED
      BY <3>4 DEF it
  <2>. QED
    BY <2>2, <2>3, <2>4 DEF CountsInv, ItemCounts, SavedCounts, WriteCounts, SignalCounts, WorkerCounts,
       SoundWorker
<1>3. CASE Next /\ ~Crash
  <2>1. HostKeeps /\ ItemsOK'
    BY <1>3, SentGrows DEF TypeOK
  <2>2. CASE WorkerStep
    <3>1. ItemCounts'
      BY <2>1, <2>2, ItemsOfWorker DEF CountsInv
    <3>2. WorkerCounts' /\ SignalCounts'
      BY <2>1, <2>2, <3>1, CountsOfWorker, SignalsOfWorker DEF CountsInv
    <3>. QED
      BY <1>3, <2>1, <3>1, <3>2, SavesOfNext DEF CountsInv
  <2>3. CASE ~WorkerStep
    <3>1. ItemCounts'
      <4>1. CASE MainThread
        BY <2>1, <4>1, ItemsOfMainThread DEF CountsInv
      <4>2. CASE ~MainThread
        BY <1>3, <2>1, <2>3, <4>2, KeptItems, KeptIsSound DEF CountsInv, ItemCounts, ItemsOK
      <4>. QED
        BY <4>1, <4>2
    <3>2. WorkerCounts'
      <4>1. worker' = worker /\ sent' = sent
        BY <1>3, <2>3 DEF Next, Steps, User, StartItem, CancelItem, RetryFailed, ResetGallery, Rescan,
           PauseAll, StopItem, TimerFires, WriterWrites, Scan, ScanBegin, ScanFinds, ScanFails, LateReady,
           MainThread, HandleSignal, FlushBatch, workerVars
      <4>2. worker.pc # "idle" => item'[worker.g].done = item[worker.g].done
        BY <1>3, <2>3, DoneKept, AtWork DEF TypeOK
      <4>. QED
        BY <4>1, <4>2 DEF CountsInv, WorkerCounts, SoundWorker
    <3>3. SignalCounts'
      <4>1. \A k \in 1 .. Len(signals) : SoundSignal(signals[k], sent')
        BY <2>1, SignalsGrow DEF CountsInv
      <4>2. CASE signals' = signals
        BY <4>1, <4>2 DEF SignalCounts
      <4>3. CASE HandleSignal
        <5>1. signals \in Seq(SignalSet) /\ signals # <<>> /\ signals' = Tail(signals)
          BY <4>3 DEF HandleSignal, TypeOK, SignalsOK
        <5>2. /\ Len(signals) \in Nat /\ Len(signals') = Len(signals) - 1
              /\ \A k \in 1 .. Len(signals') : signals'[k] = signals[k + 1]
          BY <5>1
        <5>. QED
          BY <4>1, <5>2 DEF SignalCounts
      <4>. QED
        BY <1>3, <2>3, <4>2, <4>3 DEF Next, Steps, StopItem, MainThread, FlushBatch, workerVars
    <3>. QED
      BY <1>3, <2>1, <3>1, <3>2, <3>3, SavesOfNext DEF CountsInv
  <2>. QED
    BY <2>2, <2>3
<1>. QED
  BY <1>1, <1>2, <1>3

\* A completed gallery, in memory or in the database, has all its images at the
\* host: whatever signal, batch, pass, stop or restart came in between.
THEOREM CompletedGalleriesHaveAll ==
  ASSUME "reset" \notin Acts
  PROVE  Spec => []CompletedIsComplete
<1>1. Init => ImagesInv
  BY DEF Init, QueueInit, WorkerInit, Idle, ImagesInv, DoneAccepted, Passes
<1>2. TypeOK /\ ImagesInv /\ [Next]_vars => ImagesInv'
  BY ImagesNext, NeverReset
<1>3. TypeOK /\ TypeOK' /\ ImagesInv /\ CountsInv /\ [Next]_vars => CountsInv'
  BY CountsNext, NeverReset
<1>4. CountsInv => CompletedIsComplete
  BY DEF CountsInv, ItemCounts, SavedCounts, SoundItem, SoundRow, Arrived, CompletedIsComplete
<1>. QED
  BY <1>1, <1>2, <1>3, <1>4, CountsInit, TypeCorrect, PTL DEF Spec

-----------------------------------------------------------------------------
(* ImageDelivery.                                                          *)

\* Every step delivers an image, or calls galleries completed, or neither.
LEMMA DeliveryNext ==
  ASSUME TypeOK, TypeOK', ImagesInv, SentIsDone, SentIsDone', CountsInv', [Next]_vars,
         {"reset", "crash", "lostanswer"} \cap Acts = {}
  PROVE  [Delivery!Next]_<<[g \in Galleries |-> [i \in Accepted |-> sent[g][i]]],
                           {g \in Galleries : item[g].status = "completed"}>>
<1>. DEFINE stored == [g \in Galleries |-> [i \in Accepted |-> sent[g][i]]]
            complete == {g \in Galleries : item[g].status = "completed"}
<1>1. CASE UNCHANGED vars
  BY <1>1 DEF vars, queueVars
<1>2. CASE sent' = sent
  <2>1. complete' \in SUBSET Delivery!Full
    <3>1. ASSUME NEW g \in complete', NEW i \in Accepted PROVE stored[g][i] = 1
      <4>1. g \in Galleries /\ i \in Images /\ item'[g].status = "completed"
        BY DEF Accepted
      <4>2. i \in Arrived(sent', g)
        BY <4>1 DEF CountsInv, ItemCounts, SoundItem, SoundRow
      <4>3. sent[g][i] > 0 /\ sent[g][i] \in {0, 1}
        BY <1>2, <4>1, <4>2 DEF Arrived, SentIsDone
      <4>. QED
        BY <4>1, <4>3
    <3>. QED
      BY <3>1 DEF Delivery!Full
  <2>2. stored' = stored
    BY <1>2
  <2>. HIDE DEF stored, complete
  <2>3. Delivery!Announce
    BY <2>1, <2>2 DEF Delivery!Announce, stored, complete
  <2>. QED
    BY <2>3 DEF Delivery!Next
<1>3. CASE worker.g \in Galleries /\ \E i \in Accepted \ item[worker.g].done : Stored(worker.g, i)
  <2>1. PICK i \in Accepted \ item[worker.g].done : Stored(worker.g, i)
    BY <1>3
  <2>2. i \in Images /\ sent[worker.g][i] = 0
    BY <1>3, <2>1 DEF Accepted, SentIsDone
  <2>3. \A g \in Galleries, j \in Accepted :
           sent'[g][j] = IF g = worker.g /\ j = i THEN 1 ELSE sent[g][j]
    BY <2>1, <2>2 DEF Stored, Arrives, TypeOK, SentOK, Accepted
  <2>4. stored' = [stored EXCEPT ![worker.g][i] = 1]
    <3>. DEFINE new == [stored EXCEPT ![worker.g][i] = 1]
    <3>1. stored' = [g \in Galleries |-> [j \in Accepted |-> sent'[g][j]]]
      OBVIOUS
    <3>2. ASSUME NEW g \in Galleries
          PROVE  new[g] = [j \in Accepted |-> sent'[g][j]]
      <4>1. CASE g = worker.g
        <5>1. new[g] = [[j \in Accepted |-> sent[g][j]] EXCEPT ![i] = 1]
          BY <1>3, <4>1
        <5>. QED
          BY <2>1, <2>3, <4>1, <5>1
      <4>2. CASE g # worker.g
        <5>1. new[g] = [j \in Accepted |-> sent[g][j]]
          BY <1>3, <4>2
        <5>. QED
          BY <2>3, <4>2, <5>1
      <4>. QED
        BY <4>1, <4>2
    <3>3. new = [g \in Galleries |-> new[g]]
      OBVIOUS
    <3>. HIDE DEF new
    <3>4. new = [g \in Galleries |-> [j \in Accepted |-> sent'[g][j]]]
      BY <3>2, <3>3
    <3>. QED
      BY <3>1, <3>4 DEF new
  <2>5. complete' = complete
    BY <1>3, <2>1, StoredArrives
  <2>6. stored[worker.g][i] = 0
    BY <1>3, <2>1, <2>2
  <2>7. PICK h \in Galleries : h = worker.g
    BY <1>3
  <2>8. Delivery!Store(h, i)
    BY <2>4, <2>5, <2>6, <2>7, Zenon DEF Delivery!Store
  <2>9. Delivery!Next
    BY <2>1, <2>7, <2>8, Zenon DEF Delivery!Next
  <2>. QED
    BY <2>9, Zenon
<1>4. CASE Next /\ ~WorkerStep
  <2>1. sent' = sent
    BY <1>4 DEF Next, Steps, User, StartItem, CancelItem, RetryFailed, ResetGallery, Rescan, PauseAll,
       StopItem, TimerFires, WriterWrites, Scan, ScanBegin, ScanFinds, ScanFails, LateReady,
       MainThread, HandleSignal, FlushBatch, Crash
  <2>. QED
    BY <1>2, <2>1
<1>. QED
  BY <1>1, <1>2, <1>3, <1>4, WorkerStores

\* Unless the program restarts, a gallery is reset or an answer is lost, the
\* gallery upload implements ImageDelivery.
THEOREM UploadsDeliver ==
  ASSUME {"reset", "crash", "lostanswer"} \cap Acts = {}
  PROVE  Spec => KeepsDelivery
<1>1. Init => Delivery!Init
  <2>. SUFFICES ASSUME Init PROVE Delivery!Init
    OBVIOUS
  <2>1. /\ \A g \in Galleries : item[g].status = "ready"
        /\ \A g \in Galleries, i \in Accepted : sent[g][i] = 0
    BY DEF Init, QueueInit, Accepted
  <2>. QED
    BY <2>1 DEF Delivery!Init
<1>2. Init => ImagesInv /\ SentIsDone
  BY DEF Init, QueueInit, WorkerInit, Idle, ImagesInv, DoneAccepted, Passes, SentIsDone
<1>3. TypeOK /\ ImagesInv /\ [Next]_vars => ImagesInv'
  BY ImagesNext, NeverReset
<1>4. TypeOK /\ ImagesInv /\ SentIsDone /\ [Next]_vars => SentIsDone'
  BY SentIsDoneNext
<1>5. TypeOK /\ TypeOK' /\ ImagesInv /\ CountsInv /\ [Next]_vars => CountsInv'
  BY CountsNext, NeverReset
<1>6. TypeOK /\ TypeOK' /\ ImagesInv /\ SentIsDone /\ SentIsDone' /\ CountsInv' /\ [Next]_vars
      => [Delivery!Next]_<<[g \in Galleries |-> [i \in Accepted |-> sent[g][i]]],
                           {g \in Galleries : item[g].status = "completed"}>>
  BY DeliveryNext
<1>. QED
  BY <1>1, <1>2, <1>3, <1>4, <1>5, <1>6, CountsInit, TypeCorrect, PTL DEF Spec, KeepsDelivery, Delivery!Spec

-----------------------------------------------------------------------------
(* The courses MCGallery gives to TLC.                                     *)

\* A step of a course is a step, and only one of the two courses resets.
LEMMA CourseSteps ==
  ASSUME TypeOK, [MCNext]_<<vars, course>>
  PROVE  [Next]_vars /\ course' = course /\ (course = "restarts" => Unreset)
<1>1. CASE UNCHANGED <<vars, course>>
  <2>1. scans' = scans /\ scans \in Seq(Galleries)
    BY <1>1 DEF vars, queueVars, TypeOK, QueuesOK
  <2>2. \A g \in Galleries : scans' # Append(scans, g)
    BY <2>1
  <2>. QED
    BY <1>1, <2>2 DEF Unreset, ResetGallery
<1>2. CASE MCNext
  <2>1. course' = course /\ (Restarts \/ Rescans)
    BY <1>2 DEF MCNext
  <2>2. Next
    BY <2>1 DEF Restarts, Rescans, Rests, Next, Steps, User
  <2>3. ASSUME Restarts PROVE Unreset
    <3>1. scans \in Seq(Galleries)
      BY DEF TypeOK, QueuesOK
    <3>2. /\ scans' \in {scans, Tail(scans), <<>>}
          /\ scans' = Tail(scans) => scans # <<>> \/ scans' = scans
      <4>1. CASE Scan
        BY <4>1 DEF Scan, ScanBegin, ScanFinds, ScanFails
      <4>2. CASE WorkerStep
        BY <4>2 DEF WorkerStep, TakeItem, Drop, LowDisk, BeginFails, Begin, EarlyStop, EnterEngine,
           FolderGone, Resume, CreateGallery, CreateFails, Image, ImageUploaded, ImageFails, NextPass,
           Report, Finish, GivesUp, scanVars, queueVars
      <4>3. CASE (\E g \in Galleries : StartItem(g) \/ RetryFailed(g)) \/ TimerFires \/ WriterWrites
        BY <4>3 DEF StartItem, RetryFailed, TimerFires, WriterWrites, scanVars
      <4>4. CASE MainThread
        BY <4>4 DEF MainThread, HandleSignal, FlushBatch, scanVars
      <4>5. CASE Crash
        BY <4>5 DEF Crash, Reload
      <4>. QED
        BY <2>3, <4>1, <4>2, <4>3, <4>4, <4>5 DEF Restarts
    <3>3. \A g \in Galleries : scans' # Append(scans, g)
      BY <3>1, <3>2
    <3>. QED
      BY <3>3 DEF Unreset, ResetGallery
  <2>4. course = "restarts" => Restarts
    BY <1>2 DEF MCNext
  <2>. QED
    BY <2>1, <2>2, <2>3, <2>4
<1>. QED
  BY <1>1, <1>2

\* In the course with restarts, a completed gallery has all its images.
THEOREM RestartsKeepCompleted == MCSpec => []CompletedOverRestarts
<1>. DEFINE Inv == TypeOK /\ (course = "restarts" => ImagesInv /\ CountsInv)
<1>1. MCInit => Inv
  <2>1. Init => ImagesInv
    BY DEF Init, QueueInit, WorkerInit, Idle, ImagesInv, DoneAccepted, Passes
  <2>. QED
    BY <2>1, TypeInit, CountsInit DEF MCInit
<1>2. Inv /\ [MCNext]_<<vars, course>> => Inv'
  BY CourseSteps, TypeNext, ImagesNext, CountsNext
<1>3. Inv => CompletedOverRestarts
  BY DEF CountsInv, ItemCounts, SavedCounts, SoundItem, SoundRow, Arrived, CompletedIsComplete,
     CompletedOverRestarts
<1>. QED
  BY <1>1, <1>2, <1>3, PTL DEF MCSpec

-----------------------------------------------------------------------------
(* What everything at rest says.  A gallery whose last image has arrived   *)
(* is not uploaded again, so that the last of its signals is the one that  *)
(* calls it completed, and what was counted then leaves a late batch no    *)
(* other choice.                                                           *)

HasAll(g) == item[g].done = Images
AtPool(g) == worker.g = g /\ worker.pc \in {"pool", "finish"}

\* Statuses from which a gallery is uploaded, at once or when the user starts it.
Startable == {"ready", "queued", "incomplete"}

\* Nobody stops an upload, and nothing is scanned.
Undisturbed == soft = None /\ scans = <<>> /\ scanning = None /\ late = {}

\* A gallery that has all images is not begun again.
BegunOnce ==
  /\ worker.pc \in {"taken", "early", "run"} => ~HasAll(worker.g)
  /\ worker.pc \in {"early", "run", "pool", "finish"} => item[worker.g].status \notin Startable
  /\ worker.pc = "finish" /\ HasAll(worker.g) => worker.succ >= worker.tot /\ worker.tot > 0
  /\ \A g \in Galleries : HasAll(g) => item[g].status \notin Startable

\* The last of the signals q about g says that it is completed.
LastSays(q, g) ==
  \E k \in 1 .. Len(q) :
     /\ q[k].g = g /\ q[k].kind = "completed" /\ q[k].n >= q[k].total /\ q[k].total > 0
     /\ \A j \in 1 .. Len(q) : j > k => q[j].g # g

Silent(q, g) == \A k \in 1 .. Len(q) : q[k].g # g

Shown(it) == it.status = "completed" /\ it.counted >= it.total

Told(q, it, g) == LastSays(q, g) \/ (Silent(q, g) /\ Shown(it))

AllTold == \A g \in Galleries : HasAll(g) => AtPool(g) \/ Told(signals, item[g], g)

RestInv == Undisturbed /\ BegunOnce /\ AllTold

\* Galleries are started and cancelled, hosts and folders may be missing and the
\* disk full; nobody stops, retries, resets or rescans, and the host takes every
\* image and is heard to.
Plain == /\ Acts \subseteq {"cancel", "nohost", "folder", "disk"} /\ Skipped = {}

\* A signal about another gallery changes nothing for g.
LEMMA ToldAppend ==
  ASSUME NEW q \in Seq(SignalSet), NEW s, NEW g, NEW it, s.g # g, Told(q, it, g)
  PROVE  Told(Append(q, s), it, g)
<1>. DEFINE T == SignalSet \cup {s}
<1>0. q \in Seq(T) /\ s \in T
  OBVIOUS
<1>. HIDE DEF T
<1>1. /\ Len(q) \in Nat /\ Len(Append(q, s)) = Len(q) + 1
      /\ \A k \in 1 .. Len(q) : Append(q, s)[k] = q[k]
      /\ Append(q, s)[Len(q) + 1] = s
  BY <1>0
<1>. QED
  BY <1>1 DEF Told, LastSays, Silent

\* The completed signal is the last one when it is emitted.
LEMMA ToldByLast ==
  ASSUME NEW q \in Seq(SignalSet), NEW s \in SignalSet, NEW it, s.kind = "completed",
         s.n >= s.total, s.total > 0
  PROVE  Told(Append(q, s), it, s.g)
<1>1. /\ Len(q) \in Nat /\ Len(Append(q, s)) = Len(q) + 1
      /\ Append(q, s)[Len(q) + 1] = s
  OBVIOUS
<1>. QED
  BY <1>1 DEF Told, LastSays

\* A signal that is handled: g is told as before, or this was the last one.
LEMMA ToldTail ==
  ASSUME NEW q \in Seq(SignalSet), q # <<>>, NEW g, NEW it, Told(q, it, g)
  PROVE  /\ Head(q).g # g => Told(Tail(q), it, g)
         /\ Head(q).g = g =>
               \/ LastSays(Tail(q), g)
               \/ /\ Head(q).kind = "completed" /\ Head(q).n >= Head(q).total /\ Head(q).total > 0
                  /\ Silent(Tail(q), g)
<1>1. /\ Len(q) \in Nat /\ Len(q) > 0 /\ Len(Tail(q)) = Len(q) - 1 /\ Head(q) = q[1]
      /\ \A k \in 1 .. Len(Tail(q)) : Tail(q)[k] = q[k + 1]
  OBVIOUS
<1>2. Silent(q, g) => Silent(Tail(q), g) /\ Head(q).g # g
  BY <1>1 DEF Silent
<1>3. ASSUME LastSays(q, g)
      PROVE  \/ LastSays(Tail(q), g)
             \/ /\ Head(q).kind = "completed" /\ Head(q).n >= Head(q).total /\ Head(q).total > 0
                /\ Head(q).g = g /\ Silent(Tail(q), g)
  <2>1. PICK k \in 1 .. Len(q) :
           /\ q[k].g = g /\ q[k].kind = "completed" /\ q[k].n >= q[k].total /\ q[k].total > 0
           /\ \A j \in 1 .. Len(q) : j > k => q[j].g # g
    BY <1>3 DEF LastSays
  <2>2. CASE k = 1
    <3>1. Silent(Tail(q), g)
      BY <1>1, <2>1, <2>2 DEF Silent
    <3>. QED
      BY <1>1, <2>1, <2>2, <3>1
  <2>3. CASE k > 1
    <3>1. k - 1 \in 1 .. Len(Tail(q)) /\ Tail(q)[k - 1] = q[k]
      BY <1>1, <2>1, <2>3
    <3>2. \A j \in 1 .. Len(Tail(q)) : j > k - 1 => Tail(q)[j].g # g
      BY <1>1, <2>1
    <3>. QED
      BY <2>1, <3>1, <3>2 DEF LastSays
  <2>. QED
    BY <2>1, <2>2, <2>3
<1>. QED
  BY <1>2, <1>3 DEF Told

\* Undisturbed, and what cannot happen then.
LEMMA UndisturbedNext ==
  ASSUME TypeOK, Plain, Undisturbed, [Next]_vars
  PROVE  /\ Undisturbed'
         /\ Next => \/ (\E h \in Galleries : StartItem(h) \/ CancelItem(h)) /\ UNCHANGED workerVars
                    \/ (PauseAll \/ Timers) /\ UNCHANGED workerVars
                    \/ WorkerStep \/ MainThread
         /\ ~Crash /\ Unreset
<1>1. /\ \A h \in Galleries : ~RetryFailed(h) /\ ~ResetGallery(h) /\ ~Rescan(h) /\ ~StopItem(h)
      /\ ~Scan /\ ~LateReady /\ ~Crash
  BY DEF Plain, Undisturbed, RetryFailed, ResetGallery, Rescan, StopItem, Scan, ScanBegin, ScanFinds,
     ScanFails, LateReady, Crash
<1>0. ~Crash /\ Unreset
  BY <1>1 DEF Unreset
<1>2. Next => \/ (\E h \in Galleries : StartItem(h) \/ CancelItem(h)) /\ UNCHANGED workerVars
              \/ (PauseAll \/ Timers) /\ UNCHANGED workerVars
              \/ WorkerStep \/ MainThread
  BY <1>1 DEF Next, Steps, User, Timers
<1>3. scanVars' = scanVars /\ soft' \in {soft, None} => Undisturbed'
  BY DEF scanVars, Undisturbed
<1>4. CASE (\E h \in Galleries : StartItem(h) \/ CancelItem(h)) /\ UNCHANGED workerVars
  BY <1>0, <1>2, <1>3, <1>4 DEF StartItem, CancelItem, workerVars
<1>5. CASE (PauseAll \/ Timers) /\ UNCHANGED workerVars
  BY <1>0, <1>2, <1>3, <1>5 DEF PauseAll, Timers, TimerFires, WriterWrites, workerVars
<1>6. CASE WorkerStep
  <2>1. scanVars' = scanVars
    BY <1>6 DEF WorkerStep, TakeItem, Drop, LowDisk, BeginFails, Begin, EarlyStop, EnterEngine,
       FolderGone, Resume, CreateGallery, CreateFails, Image, ImageUploaded, ImageFails, NextPass,
       Report, Finish, GivesUp, queueVars, scanVars
  <2>2. soft' \in {soft, None}
    BY <1>6 DEF WorkerStep, TakeItem, Drop, LowDisk, BeginFails, Begin, EarlyStop, EnterEngine,
       FolderGone, Resume, CreateGallery, CreateFails, Image, ImageUploaded, ImageFails, NextPass,
       Report, Finish, GivesUp, workerVars
  <2>. QED
    BY <1>0, <1>2, <1>3, <2>1, <2>2
<1>7. CASE MainThread
  <2>1. scanVars' = scanVars /\ soft' = soft
    BY <1>7 DEF MainThread, HandleSignal, FlushBatch, workerVars, scanVars
  <2>. QED
    BY <1>0, <1>2, <1>3, <2>1
<1>8. CASE UNCHANGED vars
  BY <1>0, <1>2, <1>3, <1>8 DEF vars, queueVars, scanVars, workerVars
<1>. QED
  BY <1>0, <1>2, <1>4, <1>5, <1>6, <1>7, <1>8

\* A step of the user, a save or none changes only what is startable.
LEMMA RestByUser ==
  ASSUME TypeOK, BegunOnce, AllTold,
         worker' = worker, signals' = signals,
         \A g \in Galleries : /\ item'[g].done = item[g].done
                              /\ item'[g] = item[g] \/ item[g].status \in Startable
  PROVE  BegunOnce' /\ AllTold'
<1>1. \A g \in Galleries : HasAll(g)' => HasAll(g) /\ item'[g] = item[g]
  BY DEF HasAll, BegunOnce
<1>2. worker.pc # "idle" => worker.g \in Galleries
  BY AtWork DEF TypeOK
<1>3. BegunOnce'
  <2>1. worker.pc \in {"early", "run", "pool", "finish"} => item'[worker.g] = item[worker.g]
    BY <1>2 DEF BegunOnce
  <2>2. worker.pc \in {"taken", "early", "run", "finish"} => (HasAll(worker.g)' => HasAll(worker.g))
    BY <1>1, <1>2
  <2>. QED
    BY <1>1, <2>1, <2>2 DEF BegunOnce, HasAll
<1>4. AllTold'
  BY <1>1 DEF AllTold, AtPool
<1>. QED
  BY <1>3, <1>4

\* What the user's steps, saves and steps of nobody do.
LEMMA UserChanges ==
  ASSUME TypeOK,
         \/ \E h \in Galleries : StartItem(h) \/ CancelItem(h)
         \/ PauseAll \/ Timers \/ UNCHANGED vars
  PROVE  \A g \in Galleries : /\ item'[g].done = item[g].done
                              /\ item'[g] = item[g] \/ item[g].status \in Startable
<1>. item \in [Galleries -> Item]
  BY DEF TypeOK, ItemsOK
<1>1. CASE \E h \in Galleries : StartItem(h) \/ CancelItem(h)
  <2>1. PICK h \in Galleries : StartItem(h) \/ CancelItem(h)
    BY <1>1
  <2>2. item[h].status \in Startable /\ \E s : item' = WithStatus(h, s)
    BY <2>1 DEF StartItem, CancelItem, Startable
  <2>. QED
    BY <2>2 DEF WithStatus, Item
<1>2. CASE PauseAll
  BY <1>2 DEF PauseAll, Startable, Item
<1>3. CASE Timers \/ UNCHANGED vars
  BY <1>3 DEF Timers, TimerFires, WriterWrites, vars, queueVars
<1>. QED
  BY <1>1, <1>2, <1>3

\* A handled signal writes what it says, and of one gallery only.
LEMMA SignalWrites ==
  ASSUME TypeOK, HandleSignal, NEW g \in Galleries
  PROVE  /\ Head(signals).g # g => item'[g] = item[g]
         /\ item'[g].status \in {item[g].status, "completed", "failed"}
         /\ Head(signals).g = g /\ Head(signals).kind = "completed"
            /\ Head(signals).n >= Head(signals).total /\ Head(signals).total > 0
               => Shown(item'[g])
<1>. DEFINE s == Head(signals)
<1>1. s \in SignalSet /\ s.g \in Galleries /\ s.n \in Nat /\ s.total \in Nat
  BY FirstSignal DEF HandleSignal, TypeOK
<1>2. item[g] \in Item /\ item \in [Galleries -> Item]
  BY DEF TypeOK, ItemsOK
<1>3. /\ \/ s.kind = "started" /\ Started(s)
         \/ s.kind = "progress" /\ Progressed(s)
         \/ s.kind = "completed" /\ Completed(s)
         \/ s.kind = "failed" /\ Failed(s)
  BY DEF HandleSignal
<1>. HIDE DEF s
<1>4. CASE s.g # g
  BY <1>2, <1>3, <1>4 DEF Started, Progressed, Completed, Failed, WithStatus, s
<1>5. CASE s.g = g
  <2>1. CASE s.kind = "started" /\ Started(s)
    BY <1>2, <1>5, <2>1 DEF Started, Item, s
  <2>2. CASE s.kind = "progress" /\ Progressed(s)
    BY <1>2, <1>5, <2>2 DEF Progressed, Item, s
  <2>3. CASE s.kind = "completed" /\ Completed(s)
    <3>1. item'[g] = [item[g] EXCEPT
                        !.status = IF s.total = 0 \/ s.n >= s.total THEN "completed" ELSE "failed",
                        !.counted = s.n,
                        !.total = IF s.total = 0 THEN item[g].total ELSE s.total, !.gid = TRUE]
      BY <1>2, <1>5, <2>3 DEF Completed
    <3>2. item'[g].status \in {"completed", "failed"}
      BY <1>2, <3>1 DEF Item
    <3>3. ASSUME s.n >= s.total, s.total > 0
          PROVE  Shown(item'[g])
      <4>1. s.total # 0
        BY <1>1, <3>3
      <4>2. item'[g].status = "completed" /\ item'[g].counted = s.n /\ item'[g].total = s.total
        BY <1>2, <3>1, <3>3, <4>1 DEF Item
      <4>. QED
        BY <3>3, <4>2 DEF Shown
    <3>. QED
      BY <1>5, <3>2, <3>3 DEF s
  <2>4. CASE s.kind = "failed" /\ Failed(s)
    BY <1>2, <1>5, <2>4 DEF Failed, WithStatus, Item, s
  <2>. QED
    BY <1>3, <2>1, <2>2, <2>3, <2>4
<1>. QED
  BY <1>4, <1>5

\* The main thread.
LEMMA RestByMainThread ==
  ASSUME TypeOK, BegunOnce, AllTold, MainThread, \A g \in Galleries : item'[g].done = item[g].done
  PROVE  BegunOnce' /\ AllTold'
<1>. item \in [Galleries -> Item] /\ signals \in Seq(SignalSet)
  BY DEF TypeOK, ItemsOK, SignalsOK
<1>1. worker' = worker
  BY DEF MainThread, HandleSignal, FlushBatch, workerVars
<1>2. worker.pc # "idle" => worker.g \in Galleries
  BY AtWork DEF TypeOK
<1>3. \A g \in Galleries : HasAll(g)' <=> HasAll(g)
  BY DEF HasAll
<1>4. \A g \in Galleries : item'[g].status \in {item[g].status, "completed", "failed"}
  <2>1. CASE HandleSignal
    BY <2>1, SignalWrites
  <2>2. CASE FlushBatch
    BY <2>2 DEF FlushBatch, Item
  <2>. QED
    BY <2>1, <2>2 DEF MainThread
<1>5. BegunOnce'
  <2>1. \A g \in Galleries : item[g].status \notin Startable => item'[g].status \notin Startable
    BY <1>4 DEF Startable
  <2>2. worker.pc \in {"taken", "early", "run", "finish"} => (HasAll(worker.g)' <=> HasAll(worker.g))
    BY <1>1, <1>2, <1>3 DEF HasAll
  <2>. QED
    BY <1>1, <1>2, <1>3, <2>1, <2>2 DEF BegunOnce, HasAll
<1>6. ASSUME NEW g \in Galleries, HasAll(g), ~AtPool(g)
      PROVE  Told(signals', item'[g], g)
  <2>1. Told(signals, item[g], g)
    BY <1>6 DEF AllTold
  <2>2. CASE HandleSignal
    <3>1. signals # <<>> /\ signals' = Tail(signals)
      BY <2>2 DEF HandleSignal
    <3>2. CASE Head(signals).g # g
      BY <2>1, <2>2, <3>1, <3>2, ToldTail, SignalWrites
    <3>3. CASE Head(signals).g = g
      <4>1. CASE LastSays(Tail(signals), g)
        BY <3>1, <4>1 DEF Told
      <4>2. CASE /\ Head(signals).kind = "completed" /\ Silent(Tail(signals), g)
                 /\ Head(signals).n >= Head(signals).total /\ Head(signals).total > 0
        BY <2>2, <3>1, <3>3, <4>2, SignalWrites DEF Told
      <4>. QED
        BY <2>1, <3>1, <3>3, <4>1, <4>2, ToldTail
    <3>. QED
      BY <3>2, <3>3
  <2>3. CASE FlushBatch
    <3>1. signals' = signals
      BY <2>3 DEF FlushBatch, workerVars
    <3>2. item[g] \in Item /\ item[g].counted \in Nat /\ item[g].total \in Nat
      BY ItemFields
    <3>3. Shown(item[g]) => Shown(item'[g])
      <4>1. \/ item'[g] = item[g]
            \/ item'[g] = [item[g] EXCEPT !.status =
                              IF item[g].counted < item[g].total THEN "failed" ELSE "completed"]
        BY <2>3 DEF FlushBatch
      <4>2. item[g].counted >= item[g].total => ~(item[g].counted < item[g].total)
        BY <3>2
      <4>. QED
        BY <3>2, <4>1, <4>2 DEF Shown, Item
    <3>. QED
      BY <2>1, <3>1, <3>3 DEF Told
  <2>. QED
    BY <2>2, <2>3 DEF MainThread
<1>7. AllTold'
  BY <1>1, <1>3, <1>6 DEF AllTold, AtPool
<1>. QED
  BY <1>5, <1>7

\* Before the engine has sent anything: the gallery at hand lacks images.
LEMMA RestBeforePool ==
  ASSUME TypeOK, TypeOK', BegunOnce, AllTold, worker.pc \in {"taken", "early", "run"},
         worker'.g = worker.g, worker'.pc \in {"idle", "early", "run"},
         \A g \in Galleries : /\ item'[g].done = item[g].done
                              /\ g # worker.g => item'[g] = item[g],
         worker'.pc # "idle" => item'[worker.g].status \notin Startable,
         signals' = signals \/ \E s : s.g = worker.g /\ signals' = Append(signals, s)
  PROVE  BegunOnce' /\ AllTold'
<1>. signals \in Seq(SignalSet)
  BY DEF TypeOK, SignalsOK
<1>1. worker.g \in Galleries /\ ~HasAll(worker.g)
  BY AtWork DEF TypeOK, BegunOnce
<1>2. \A g \in Galleries : HasAll(g)' => HasAll(g) /\ g # worker.g /\ item'[g] = item[g]
  BY <1>1 DEF HasAll
<1>3. BegunOnce'
  <2>1. item'[worker'.g].done # Images
    BY <1>1 DEF HasAll
  <2>. QED
    BY <1>2, <2>1 DEF BegunOnce, HasAll
<1>4. ASSUME NEW g \in Galleries, HasAll(g), g # worker.g
      PROVE  Told(signals', item[g], g)
  <2>1. Told(signals, item[g], g)
    BY <1>4 DEF AllTold, AtPool
  <2>. QED
    BY <1>4, <2>1, ToldAppend
<1>5. AllTold'
  BY <1>2, <1>4 DEF AllTold
<1>. QED
  BY <1>3, <1>5

\* While images are sent the worker holds the gallery, whatever has arrived.
LEMMA RestIntoPool ==
  ASSUME TypeOK, TypeOK', BegunOnce, AllTold, worker.pc \in {"run", "pool"},
         worker'.g = worker.g, worker'.pc \in {"pool", "finish"},
         \A g \in Galleries : /\ item'[g].status = item[g].status
                              /\ g # worker.g => item'[g] = item[g],
         signals' = signals \/ \E s : s.g = worker.g /\ signals' = Append(signals, s),
         worker'.pc = "finish" /\ item'[worker.g].done = Images
            => worker'.succ >= worker'.tot /\ worker'.tot > 0
  PROVE  BegunOnce' /\ AllTold'
<1>. signals \in Seq(SignalSet)
  BY DEF TypeOK, SignalsOK
<1>1. worker.g \in Galleries /\ item[worker.g].status \notin Startable
  BY AtWork DEF TypeOK, BegunOnce
<1>2. BegunOnce'
  <2>1. \A g \in Galleries : HasAll(g)' => item'[g].status \notin Startable
    BY <1>1 DEF BegunOnce, HasAll
  <2>2. item'[worker'.g].status \notin Startable
    BY <1>1
  <2>. QED
    BY <2>1, <2>2 DEF BegunOnce, HasAll
<1>3. ASSUME NEW g \in Galleries, HasAll(g), g # worker.g
      PROVE  Told(signals', item[g], g)
  <2>1. Told(signals, item[g], g)
    BY <1>3 DEF AllTold, AtPool
  <2>. QED
    BY <1>3, <2>1, ToldAppend
<1>4. ASSUME NEW g \in Galleries, HasAll(g)'
      PROVE  AtPool(g)' \/ Told(signals', item'[g], g)
  <2>1. CASE g = worker.g
    BY <2>1 DEF AtPool
  <2>2. CASE g # worker.g
    <3>1. HasAll(g) /\ item'[g] = item[g]
      BY <1>4, <2>2 DEF HasAll
    <3>. QED
      BY <1>3, <2>2, <3>1
  <2>. QED
    BY <2>1, <2>2
<1>5. AllTold'
  BY <1>4 DEF AllTold
<1>. QED
  BY <1>2, <1>5

\* The end of an upload.
LEMMA RestByFinish ==
  ASSUME TypeOK, TypeOK', BegunOnce, AllTold, Finish
  PROVE  BegunOnce' /\ AllTold'
<1>. signals \in Seq(SignalSet) /\ item \in [Galleries -> Item]
  BY DEF TypeOK, SignalsOK, ItemsOK
<1>. DEFINE s == Signal("completed", worker.succ, worker.tot)
<1>1. worker.g \in Galleries /\ worker.succ \in Nat /\ worker.tot \in Nat
  BY AtWork DEF Finish, TypeOK
<1>2. /\ s \in SignalSet /\ s.g = worker.g /\ s.kind = "completed"
      /\ s.n = worker.succ /\ s.total = worker.tot
  BY <1>1 DEF Signal, SignalSet
<1>3. signals' = Append(signals, s)
  BY DEF Finish, Emit
<1>. HIDE DEF s
<1>4. worker'.pc = "idle"
  BY DEF Finish, Leaves, Idle
<1>5. item' = WithStatus(worker.g, Outcome)
  BY DEF Finish
<1>6. \A g \in Galleries : /\ item'[g].done = item[g].done
                           /\ g # worker.g => item'[g] = item[g]
  BY <1>5 DEF WithStatus, Item
<1>7. HasAll(worker.g) => item'[worker.g].status \notin Startable
  <2>1. HasAll(worker.g) => worker.succ >= worker.tot
    BY DEF Finish, BegunOnce
  <2>2. worker.succ >= worker.tot => Outcome \in {"upload_failed", "completed"}
    BY <1>1 DEF Outcome
  <2>3. item'[worker.g].status = Outcome
    BY <1>1, <1>5 DEF WithStatus, Item
  <2>. QED
    BY <2>1, <2>2, <2>3 DEF Startable
<1>8. BegunOnce'
  BY <1>4, <1>6, <1>7 DEF BegunOnce, HasAll
<1>9. ASSUME NEW g \in Galleries, HasAll(g)
      PROVE  Told(signals', item'[g], g)
  <2>1. CASE g = worker.g
    <3>1. s.n >= s.total /\ s.total > 0
      BY <1>2, <1>9, <2>1 DEF Finish, BegunOnce
    <3>. QED
      BY <1>2, <1>3, <2>1, <3>1, ToldByLast
  <2>2. CASE g # worker.g
    <3>1. Told(signals, item[g], g)
      BY <1>9, <2>2 DEF AllTold, AtPool
    <3>. QED
      BY <1>2, <1>3, <1>6, <2>2, <3>1, ToldAppend
  <2>. QED
    BY <2>1, <2>2
<1>10. AllTold'
  BY <1>6, <1>9 DEF AllTold, HasAll
<1>. QED
  BY <1>8, <1>10

\* The worker.
LEMMA RestByWorker ==
  ASSUME TypeOK, TypeOK', ImagesInv, Plain, Undisturbed, BegunOnce, AllTold, WorkerStep
  PROVE  BegunOnce' /\ AllTold'
<1>. /\ item \in [Galleries -> Item] /\ worker \in Worker /\ queue \in Seq(Galleries)
     /\ worker.pc # "idle" => worker.g \in Galleries
  BY AtWork DEF TypeOK, ItemsOK, WorkerOK, QueuesOK
<1>1. CASE TakeItem
  <2>1. Head(queue) \in Galleries /\ item[Head(queue)].status = "queued"
    BY <1>1 DEF TakeItem
  <2>2. ~HasAll(Head(queue))
    BY <2>1 DEF BegunOnce, Startable
  <2>3. worker'.pc = "taken" /\ worker'.g = Head(queue) /\ item' = item /\ signals' = signals
    BY <1>1 DEF TakeItem, Idle
  <2>4. \A g \in Galleries : ~AtPool(g)
    BY <1>1 DEF TakeItem, AtPool
  <2>5. item'[worker'.g].done # Images
    BY <2>2, <2>3 DEF HasAll
  <2>. QED
    BY <2>3, <2>4, <2>5 DEF BegunOnce, AllTold, HasAll
<1>2. CASE Drop \/ LowDisk
  BY <1>2, RestByUser DEF Drop, LowDisk, workerVars
<1>3. CASE BeginFails \/ FolderGone \/ CreateFails
  <2>1. worker.pc \in {"taken", "early", "run"} /\ GivesUp
    BY <1>3 DEF BeginFails, FolderGone, CreateFails
  <2>2. worker'.g = worker.g /\ worker'.pc = "idle" /\ item' = WithStatus(worker.g, "upload_failed")
    BY <2>1 DEF GivesUp, Leaves, Idle, Becomes
  <2>3. \E s : s.g = worker.g /\ signals' = Append(signals, s)
    BY <2>1 DEF GivesUp, Emit, Signal
  <2>4. \A g \in Galleries : /\ item'[g].done = item[g].done
                             /\ g # worker.g => item'[g] = item[g]
    BY <2>2 DEF WithStatus, Item
  <2>. QED
    BY <2>1, <2>2, <2>3, <2>4, RestBeforePool
<1>4. CASE Begin
  <2>1. worker.pc = "taken" /\ worker'.pc = "early" /\ worker'.g = worker.g
    BY <1>4 DEF Begin, Worker
  <2>2. item' = WithStatus(worker.g, "uploading")
    BY <1>4 DEF Begin, Becomes
  <2>3. \E s : s.g = worker.g /\ signals' = Append(signals, s)
    BY <1>4 DEF Begin, Emit, Signal
  <2>4. \A g \in Galleries : /\ item'[g].done = item[g].done
                             /\ g # worker.g => item'[g] = item[g]
    BY <2>2 DEF WithStatus, Item
  <2>5. item'[worker.g].status \notin Startable
    BY <2>1, <2>2 DEF WithStatus, Item, Startable
  <2>. QED
    BY <2>1, <2>3, <2>4, <2>5, RestBeforePool
<1>5. CASE EarlyStop
  <2>1. /\ worker.pc = "early" /\ worker'.pc = "idle" /\ worker'.g = worker.g
        /\ signals' = signals /\ item' = WithStatus(worker.g, "incomplete")
    BY <1>5 DEF EarlyStop, Leaves, Idle, Becomes
  <2>2. \A g \in Galleries : /\ item'[g].done = item[g].done
                             /\ g # worker.g => item'[g] = item[g]
    BY <2>1 DEF WithStatus, Item
  <2>. QED
    BY <2>1, <2>2, RestBeforePool
<1>6. CASE EnterEngine
  <2>1. worker.pc = "early" /\ worker'.pc = "run" /\ worker'.g = worker.g
        /\ signals' = signals /\ item' = item
    BY <1>6 DEF EnterEngine, SetPc, queueVars, Worker
  <2>2. item'[worker.g].status \notin Startable
    BY <2>1 DEF BegunOnce
  <2>. QED
    BY <2>1, <2>2, RestBeforePool
<1>7. CASE Resume \/ CreateGallery \/ NextPass \/ \E i \in Images : Image(i)
  <2>1. worker.pc \in {"run", "pool"} /\ worker.g \in Galleries
    BY <1>7 DEF Resume, CreateGallery, NextPass, Image, ImageUploaded, ImageFails
  <2>2. worker'.g = worker.g /\ worker'.pc = "pool"
    <3>1. \A S, T \in SUBSET Images, n \in Nat :
             /\ [worker EXCEPT !.todo = S, !.base = n] \in Worker
             /\ [worker EXCEPT !.todo = S, !.failed = T, !.pass = n] \in Worker
             /\ [worker EXCEPT !.flying = S, !.up = T] \in Worker
             /\ [worker EXCEPT !.flying = S, !.failed = T] \in Worker
      BY DEF Worker
    <3>2. CASE Resume
      <4>1. Left(Current) \in SUBSET Images /\ Cardinality(Current.done) \in Nat
        BY <2>1, ItemFields, NumImages DEF Left, Accepted, Current
      <4>2. Primed([worker EXCEPT !.todo = Left(Current), !.base = Cardinality(Current.done)])
        BY <3>2 DEF Resume
      <4>. QED
        BY <4>1, <4>2 DEF Primed, Worker
    <3>3. CASE CreateGallery
      BY <3>3 DEF CreateGallery, Primed, Worker
    <3>4. CASE NextPass
      BY <3>4 DEF NextPass, Primed, Worker
    <3>5. CASE \E i \in Images : Image(i)
      BY <2>1, <3>5 DEF Image, ImageUploaded, ImageFails, Submitted, Worker
    <3>. QED
      BY <1>7, <3>2, <3>3, <3>4, <3>5
  <2>3. \A g \in Galleries : /\ item'[g].status = item[g].status
                             /\ g # worker.g => item'[g] = item[g]
    <3>1. item' = item \/ \E i \in Images : Stored(worker.g, i)
      BY <1>7 DEF Resume, CreateGallery, NextPass, Image, ImageUploaded, ImageFails, queueVars,
         Left, Accepted
    <3>2. ASSUME NEW i \in Images, Stored(worker.g, i)
          PROVE  item'[worker.g].status = item[worker.g].status
      <4>1. item'[worker.g] = [item[worker.g] EXCEPT !.done = @ \cup {i}]
        BY <2>1, <3>2 DEF Stored
      <4>. QED
        BY <2>1, <4>1 DEF Item
    <3>3. ASSUME NEW i \in Images, Stored(worker.g, i), NEW g \in Galleries, g # worker.g
          PROVE  item'[g] = item[g]
      BY <3>3 DEF Stored
    <3>. QED
      BY <3>1, <3>2, <3>3
  <2>4. signals' = signals \/ \E s : s.g = worker.g /\ signals' = Append(signals, s)
    <3>1. \A kind, n, t : Signal(kind, n, t).g = worker.g
      BY DEF Signal
    <3>2. signals' = signals \/ \E kind, n, t : signals' = Append(signals, Signal(kind, n, t))
      BY <1>7 DEF Resume, CreateGallery, NextPass, Image, ImageUploaded, ImageFails, Emit, Progress
    <3>. QED
      BY <3>1, <3>2
  <2>. QED
    BY <2>1, <2>2, <2>3, <2>4, RestIntoPool
<1>8. CASE Report
  <2>1. worker.pc = "pool" /\ worker.g \in Galleries /\ soft # worker.g
    BY <1>8, NoneAssumption DEF Report, Undisturbed
  <2>2. /\ item' = [item EXCEPT ![worker.g].gid = TRUE, ![worker.g].status = Current.status]
        /\ worker' = [worker EXCEPT !.pc = "finish", !.succ = Successful, !.tot = Total]
        /\ signals' = signals
    BY <1>8, <2>1 DEF Report
  <2>3. /\ worker'.pc = "finish" /\ worker'.g = worker.g
        /\ worker'.succ = Successful /\ worker'.tot = Total
    BY <2>2 DEF Worker
  <2>4. \A g \in Galleries : /\ item'[g].status = item[g].status /\ item'[g].done = item[g].done
                             /\ g # worker.g => item'[g] = item[g]
    BY <2>1, <2>2 DEF Current, Item
  <2>5. item'[worker.g].done = Images => worker'.succ >= worker'.tot /\ worker'.tot > 0
    <3>1. Cardinality(Images) \in Nat /\ Cardinality(Images) # 0
      BY ImagesAssumption, NumImages, FS_EmptySet
    <3>2. item[worker.g].done = Images => Successful = Cardinality(Images) /\ Total = Cardinality(Images)
      BY ImagesAssumption DEF Successful, Total, Current
    <3>. QED
      BY <2>1, <2>3, <2>4, <3>1, <3>2
  <2>. QED
    BY <2>1, <2>2, <2>3, <2>4, <2>5, RestIntoPool
<1>9. CASE Finish
  BY <1>9, RestByFinish
<1>. QED
  BY <1>1, <1>2, <1>3, <1>4, <1>5, <1>6, <1>7, <1>8, <1>9 DEF WorkerStep

\* RestInv is inductive.
LEMMA RestNext ==
  ASSUME TypeOK, TypeOK', ImagesInv, Plain, RestInv, [Next]_vars
  PROVE  RestInv'
<1>. Undisturbed /\ BegunOnce /\ AllTold
  BY DEF RestInv
<1>1. Undisturbed'
  BY UndisturbedNext
<1>2. CASE \/ (\E h \in Galleries : StartItem(h) \/ CancelItem(h)) /\ UNCHANGED workerVars
           \/ (PauseAll \/ Timers) /\ UNCHANGED workerVars
           \/ UNCHANGED vars
  <2>1. worker' = worker /\ signals' = signals
    BY <1>2 DEF vars, workerVars
  <2>2. \A g \in Galleries : /\ item'[g].done = item[g].done
                             /\ item'[g] = item[g] \/ item[g].status \in Startable
    BY <1>2, UserChanges
  <2>. QED
    BY <1>1, <2>1, <2>2, RestByUser DEF RestInv
<1>3. CASE WorkerStep
  BY <1>1, <1>3, RestByWorker DEF RestInv
<1>4. CASE MainThread /\ Next /\ ~WorkerStep
  <2>1. \A g \in Galleries : item'[g].done = item[g].done
    BY <1>4, DoneKept, UndisturbedNext
  <2>. QED
    BY <1>1, <1>4, <2>1, RestByMainThread DEF RestInv
<1>. QED
  BY <1>2, <1>3, <1>4, UndisturbedNext

\* When nothing is stopped, retried, rescanned or reset and the host takes every
\* image, a gallery at rest is completed exactly if all its images are uploaded,
\* whichever of worker, signals and batcher wrote the status last.
THEOREM RestingStatusIsTrue ==
  ASSUME Plain
  PROVE  Spec => []SettledIsTrue
<1>1. Init => RestInv
  <2>1. Init => \A g \in Galleries : item[g].done = {} /\ item[g].status = "ready"
    BY DEF Init, QueueInit
  <2>2. Init => worker.pc = "idle" /\ Undisturbed
    BY DEF Init, QueueInit, WorkerInit, Idle, Undisturbed
  <2>. QED
    BY <2>1, <2>2, ImagesAssumption DEF RestInv, BegunOnce, AllTold, HasAll
<1>2. TypeOK /\ TypeOK' /\ ImagesInv /\ RestInv /\ [Next]_vars => RestInv'
  BY RestNext
<1>3. /\ Init => ImagesInv
      /\ TypeOK /\ ImagesInv /\ [Next]_vars => ImagesInv'
  BY ImagesNext, NeverReset DEF Plain, Init, QueueInit, WorkerInit, Idle, ImagesInv, DoneAccepted, Passes
<1>4. Init => SentIsDone
  BY DEF Init, QueueInit, SentIsDone
<1>5. TypeOK /\ ImagesInv /\ SentIsDone /\ [Next]_vars => SentIsDone'
  <2>1. {"reset", "crash", "lostanswer"} \cap Acts = {}
    BY DEF Plain
  <2>. QED
    BY <2>1, SentIsDoneNext
<1>6. TypeOK /\ RestInv /\ SentIsDone /\ CompletedIsComplete => SettledIsTrue
  <2>. SUFFICES ASSUME TypeOK, RestInv, SentIsDone, CompletedIsComplete, worker.pc = "idle",
                       signals = <<>>, NEW g \in Galleries
                PROVE  item[g].status = "completed" <=> item[g].done = Images
    BY DEF SettledIsTrue
  <2>1. ASSUME item[g].status = "completed"
        PROVE  item[g].done = Images
    <3>1. \A i \in Images : i \in item[g].done
      BY <2>1 DEF CompletedIsComplete, Accepted, Plain, SentIsDone
    <3>. QED
      BY <3>1, ItemFields DEF TypeOK, ItemsOK
  <2>2. ASSUME item[g].done = Images
        PROVE  item[g].status = "completed"
    BY <2>2 DEF RestInv, AllTold, HasAll, AtPool, Told, LastSays, Shown
  <2>. QED
    BY <2>1, <2>2
<1>7. Spec => []CompletedIsComplete
  BY CompletedGalleriesHaveAll DEF Plain
<1>. QED
  BY <1>1, <1>2, <1>3, <1>4, <1>5, <1>6, <1>7, TypeCorrect, PTL DEF Spec
=============================================================================
