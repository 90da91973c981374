--------------------------- MODULE QueueStoreProofs ---------------------------
(***************************************************************************)
(* What the user removes from the queue stays away, over quits and         *)
(* crashes, and what is in it at an orderly end is kept: proofs for any    *)
(* galleries and bounds.                                                   *)
(***************************************************************************)
EXTENDS QueueStore, SequenceTheorems, WellFoundedInduction, TLAPS

\* The argument does not depend on the ids, which are left untyped.
Shape ==
    /\ entry = [p \in Paths |-> entry[p]] /\ row = [p \in Paths |-> row[p]]
    /\ \E S : jobs \in Seq(S)
    /\ removed \subseteq Paths
    /\ habit # "hosts later" => notices = {}

IInv == Shape /\ RemovedStaysAway

\* The queue of jobs grows at its end and loses its head.
LEMMA Grown ==
    ASSUME Shape, NEW job, jobs' = Append(jobs, job)
    PROVE  /\ \E S : jobs' \in Seq(S)
           /\ Len(jobs) \in Nat /\ DOMAIN jobs = 1..Len(jobs)
           /\ DOMAIN jobs' = 1..(Len(jobs) + 1) /\ jobs'[Len(jobs) + 1] = job
           /\ \A i \in DOMAIN jobs : jobs'[i] = jobs[i]
<1>1. PICK S : jobs \in Seq(S)
  BY DEF Shape
<1> DEFINE T == S \cup {job}
<1>2. jobs \in Seq(T) /\ job \in T
  BY <1>1
<1> QED
  BY <1>2, AppendProperties

LEMMA Shrunk ==
    ASSUME Shape, jobs # <<>>, jobs' = Tail(jobs)
    PROVE  /\ \E S : jobs' \in Seq(S)
           /\ Len(jobs) \in Nat \ {0} /\ DOMAIN jobs = 1..Len(jobs) /\ Head(jobs) = jobs[1]
           /\ DOMAIN jobs' = 1..(Len(jobs) - 1)
           /\ \A i \in DOMAIN jobs' : jobs'[i] = jobs[i + 1]
<1>1. PICK S : jobs \in Seq(S)
  BY DEF Shape
<1> QED
  BY <1>1, HeadTailProperties

-----------------------------------------------------------------------------
(* The row of a gallery that is gone, or has its end.                      *)

\* A job that does not save p changes nothing of p's end.
LEMMA StillGone ==
    ASSUME Shape, NEW p \in Paths, EndsGone(p), row'[p] = row[p],
           jobs' = jobs \/ \E job : jobs' = Append(jobs, job) /\ ~Saves(job, p)
    PROVE  EndsGone(p)'
<1>1. CASE jobs' = jobs
  BY <1>1 DEF EndsGone
<1>2. CASE \E job : jobs' = Append(jobs, job) /\ ~Saves(job, p)
  <2>1. PICK job : jobs' = Append(jobs, job) /\ ~Saves(job, p)
    BY <1>2
  <2> DEFINE n == Len(jobs) + 1
  <2>2. /\ n \in Nat /\ DOMAIN jobs = 1..(n - 1) /\ DOMAIN jobs' = 1..n /\ jobs'[n] = job
        /\ \A i \in DOMAIN jobs : jobs'[i] = jobs[i]
    BY <2>1, Grown
  <2>3. \A i \in DOMAIN jobs' : i = n \/ i \in DOMAIN jobs
    BY <2>2
  <2>4. CASE row[p] = Gone /\ \A i \in DOMAIN jobs : ~Saves(jobs[i], p)
    BY <2>1, <2>2, <2>3, <2>4 DEF EndsGone
  <2>5. CASE \E i \in DOMAIN jobs :
               p \in jobs[i].deletes /\ \A j \in DOMAIN jobs : j > i => ~Saves(jobs[j], p)
    <3>1. PICK i \in DOMAIN jobs :
               p \in jobs[i].deletes /\ \A j \in DOMAIN jobs : j > i => ~Saves(jobs[j], p)
      BY <2>5
    <3>2. i \in DOMAIN jobs' /\ p \in jobs'[i].deletes
      BY <2>2, <3>1
    <3>3. \A j \in DOMAIN jobs' : j > i => ~Saves(jobs'[j], p)
      BY <2>1, <2>2, <2>3, <3>1
    <3> QED
      BY <3>2, <3>3 DEF EndsGone
  <2> QED
    BY <2>4, <2>5 DEF EndsGone
<1> QED
  BY <1>1, <1>2

\* A job that deletes p is its end.
LEMMA DeletedLast ==
    ASSUME Shape, NEW p \in Paths, NEW P, p \in P, jobs' = Append(jobs, DeletesOf(P))
    PROVE  EndsGone(p)'
<1> DEFINE n == Len(jobs) + 1
<1>1. n \in Nat /\ DOMAIN jobs' = 1..n /\ jobs'[n] = DeletesOf(P)
  BY Grown
<1>2. n \in DOMAIN jobs' /\ p \in jobs'[n].deletes /\ \A j \in DOMAIN jobs' : ~(j > n)
  BY <1>1 DEF DeletesOf
<1> QED
  BY <1>2 DEF EndsGone

\* The writer takes the jobs in their order.
LEMMA WriterKeepsGone ==
    ASSUME Shape, NEW p \in Paths, EndsGone(p), WriterRuns
    PROVE  EndsGone(p)'
<1> DEFINE job == Head(jobs)
<1>1. /\ Len(jobs) \in Nat \ {0} /\ DOMAIN jobs = 1..Len(jobs) /\ job = jobs[1]
      /\ DOMAIN jobs' = 1..(Len(jobs) - 1)
      /\ \A i \in DOMAIN jobs' : jobs'[i] = jobs[i + 1] /\ i + 1 \in DOMAIN jobs
  BY Shrunk DEF WriterRuns
<1>2. /\ p \in job.deletes => row'[p] = Gone
      /\ row[p] = Gone /\ ~Saves(job, p) => row'[p] = Gone
  BY DEF WriterRuns, Upserted, Saves
<1>3. CASE row[p] = Gone /\ \A i \in DOMAIN jobs : ~Saves(jobs[i], p)
  <2>1. row'[p] = Gone
    BY <1>1, <1>2, <1>3
  <2> QED
    BY <1>1, <1>3, <2>1 DEF EndsGone
<1>4. CASE \E i \in DOMAIN jobs :
             p \in jobs[i].deletes /\ \A j \in DOMAIN jobs : j > i => ~Saves(jobs[j], p)
  <2>1. PICK i \in DOMAIN jobs :
             p \in jobs[i].deletes /\ \A j \in DOMAIN jobs : j > i => ~Saves(jobs[j], p)
    BY <1>4
  <2>2. CASE i = 1
    <3>1. row'[p] = Gone
      BY <1>1, <1>2, <2>1, <2>2
    <3>2. \A j \in DOMAIN jobs' : ~Saves(jobs'[j], p)
      BY <1>1, <2>1, <2>2
    <3> QED
      BY <3>1, <3>2 DEF EndsGone
  <2>3. CASE i # 1
    <3>1. i - 1 \in DOMAIN jobs' /\ jobs'[i - 1] = jobs[i]
      BY <1>1, <2>3
    <3>2. \A j \in DOMAIN jobs' : j > i - 1 => ~Saves(jobs'[j], p)
      BY <1>1, <2>1
    <3> QED
      BY <2>1, <3>1, <3>2 DEF EndsGone
  <2> QED
    BY <2>2, <2>3
<1> QED
  BY <1>3, <1>4 DEF EndsGone

\* A gallery that is not in the queue is not saved from it.
LEMMA NotSaved ==
    ASSUME NEW p \in Paths, ~InQueue(p), NEW P
    PROVE  ~Saves(SavesOf(P), p)
  BY DEF Saves, SavesOf, SaveOf, Savable

-----------------------------------------------------------------------------

\* A step that brings no gallery back and saves none that is gone.
LEMMA NothingReturns ==
    ASSUME IInv, habit' = habit, removed' = removed, clearing' = clearing,
           \A p \in Paths : ~InQueue(p) => entry'[p] = entry[p] /\ row'[p] = row[p],
           \/ jobs' = jobs
           \/ \E job : /\ jobs' = Append(jobs, job)
                       /\ \A p \in Paths : ~InQueue(p) => ~Saves(job, p)
    PROVE  RemovedStaysAway'
<1> SUFFICES ASSUME habit # "hosts later", NEW p \in removed
             PROVE  ~InQueue(p)' /\ (EndsGone(p)' \/ p \in clearing')
  BY DEF RemovedStaysAway
<1>1. p \in Paths /\ ~InQueue(p) /\ (EndsGone(p) \/ p \in clearing)
  BY DEF IInv, Shape, RemovedStaysAway
<1>2. ~InQueue(p)'
  BY <1>1 DEF InQueue
<1>3. EndsGone(p) => EndsGone(p)'
  BY <1>1, StillGone DEF IInv
<1> QED
  BY <1>1, <1>2, <1>3

\* The start of a process, with the removals it has yet to honour.
LEMMA LoadKeeps ==
    ASSUME Shape, NEW missing \in SUBSET Paths, Load(missing),
           removed' \subseteq {p \in Paths : row[p] = Gone}
    PROVE  IInv'
<1>1. /\ entry' = [p \in Paths |-> entry'[p]] /\ row' = row /\ jobs' = <<>>
      /\ habit' = habit /\ notices' = {}
      /\ \A p \in Paths : row[p] = Gone => entry'[p] = Gone
  BY DEF Load, endVars
<1>2. jobs' \in Seq({})
  BY <1>1
<1>3. Shape'
  BY <1>1, <1>2 DEF Shape
<1>4. \A p \in removed' : ~InQueue(p)' /\ EndsGone(p)'
  BY <1>1 DEF InQueue, EndsGone
<1> QED
  BY <1>3, <1>4 DEF IInv, RemovedStaysAway

LEMMA InitIInv == QueueStoreInit => IInv
<1> SUFFICES ASSUME QueueStoreInit PROVE IInv
  OBVIOUS
<1>1. jobs \in Seq({})
  BY DEF QueueStoreInit
<1> QED
  BY <1>1 DEF QueueStoreInit, IInv, Shape, RemovedStaysAway

LEMMA AddItemKeeps ==
    ASSUME IInv, NEW q \in Paths, AddItem(q)
    PROVE  IInv'
<1>1. Shape /\ removed' = removed \ {q} /\ habit' = habit /\ notices' = notices
      /\ clearing' = clearing
  BY DEF IInv, AddItem, laterVars, endVars
<1>2. /\ entry' = [p \in Paths |-> entry'[p]] /\ row' = [p \in Paths |-> row'[p]]
      /\ \A p \in Paths : p # q => entry'[p] = entry[p] /\ row'[p] = row[p]
  BY <1>1 DEF AddItem, WithRow, Shape
<1>3. \/ jobs' = jobs
      \/ \E job : jobs' = Append(jobs, job) /\ \A p \in Paths : p # q => ~Saves(job, p)
  <2> DEFINE s == [path |-> q, status |-> "validating", id |-> NoDbId]
             job == [saves |-> {s}, deletes |-> {}]
  <2>1. \A p \in Paths : p # q => ~Saves(job, p)
    BY DEF Saves
  <2>2. jobs' = jobs \/ jobs' = Append(jobs, job)
    BY DEF AddItem, Submit
  <2> QED
    BY <2>1, <2>2
<1>4. \E S : jobs' \in Seq(S)
  BY <1>1, <1>3, Grown DEF Shape
<1>5. Shape'
  BY <1>1, <1>2, <1>4 DEF Shape
<1>6. ASSUME habit # "hosts later", NEW p \in removed'
      PROVE  ~InQueue(p)' /\ (EndsGone(p)' \/ p \in clearing')
  <2>1. p \in Paths /\ p # q /\ ~InQueue(p) /\ (EndsGone(p) \/ p \in clearing)
    BY <1>1, <1>6 DEF IInv, Shape, RemovedStaysAway
  <2>2. ~InQueue(p)'
    BY <1>2, <2>1 DEF InQueue
  <2>3. EndsGone(p) => EndsGone(p)'
    BY <1>1, <1>2, <1>3, <2>1, StillGone
  <2> QED
    BY <1>1, <2>1, <2>2, <2>3
<1> QED
  BY <1>1, <1>5, <1>6 DEF IInv, RemovedStaysAway

LEMMA Untouched ==
    ASSUME NEW table, NEW saves, NEW p \in Paths, \A t \in saves : t.path # p
    PROVE  Upserted(table, saves)[p] = table[p]
  BY DEF Upserted

\* Scans, uploads and changes to galleries that are in the queue.
LEMMA LifeKeeps ==
    ASSUME IInv, NEW q \in Paths,
           \/ ScanEnds(q) \/ ChangeItem(q) \/ UploadBegins(q) \/ UploadCompletes(q)
           \/ UploadStops(q)
    PROVE  IInv'
<1>1. Shape /\ removed' = removed /\ habit' = habit /\ clearing' = clearing
  BY DEF IInv, ScanEnds, ChangeItem, UploadBegins, UploadCompletes, UploadStops,
         laterVars, endVars
<1>2. InQueue(q)
  BY DEF ScanEnds, ChangeItem, UploadBegins, UploadCompletes, UploadStops, In, InQueue, Gone
<1>3. entry' = [p \in Paths |-> entry'[p]] /\ \A p \in Paths : p # q => entry'[p] = entry[p]
  BY <1>1 DEF ScanEnds, ChangeItem, UploadBegins, UploadCompletes, UploadStops, SetStatus, Shape
<1>4. row' = [p \in Paths |-> row'[p]] /\ \A p \in Paths : p # q => row'[p] = row[p]
  <2>1. CASE UploadCompletes(q)
    <3> DEFINE s == [SaveOf(q) EXCEPT !.status = "completed"]
    <3>1. s.path = q /\ row' = Upserted(row, {s})
      BY <2>1 DEF UploadCompletes, SaveOf
    <3>2. \A p \in Paths : p # q => \A t \in {s} : t.path # p
      BY <3>1
    <3> HIDE DEF s
    <3>3. \A p \in Paths : (\A t \in {s} : t.path # p) => Upserted(row, {s})[p] = row[p]
      BY Untouched
    <3>4. row' = [p \in Paths |-> row'[p]]
      BY <3>1 DEF Upserted
    <3> QED
      BY <3>1, <3>2, <3>3, <3>4
  <2>2. CASE ~UploadCompletes(q)
    BY <1>1, <2>2 DEF ScanEnds, ChangeItem, UploadBegins, UploadStops, dbVars, Shape
  <2> QED
    BY <2>1, <2>2
<1>5. \/ jobs' = jobs
      \/ \E job : jobs' = Append(jobs, job) /\ \A p \in Paths : p # q => ~Saves(job, p)
  <2>1. CASE ScanEnds(q)
    BY <2>1 DEF ScanEnds, Submit, Saves, SaveOf
  <2>2. CASE ~ScanEnds(q)
    BY <2>2 DEF ChangeItem, UploadBegins, UploadCompletes, UploadStops, dbVars
  <2> QED
    BY <2>1, <2>2
<1>6. habit # "hosts later" => notices' = {}
  BY <1>1 DEF ScanEnds, ChangeItem, UploadBegins, UploadCompletes, UploadStops, Announced,
              laterVars, Shape
<1>7. \E S : jobs' \in Seq(S)
  BY <1>1, <1>5, Grown DEF Shape
<1>8. Shape'
  BY <1>1, <1>3, <1>4, <1>6, <1>7 DEF Shape
<1>9. RemovedStaysAway'
  <2>1. \A p \in Paths : ~InQueue(p) => p # q
    BY <1>2
  <2> QED
    BY <1>1, <1>3, <1>4, <1>5, <2>1, NothingReturns
<1> QED
  BY <1>8, <1>9 DEF IInv

\* A late trigger for file hosts, of which there are none but under one habit.
LEMMA NoticeKeeps ==
    ASSUME IInv, NEW q \in Paths, Notice(q)
    PROVE  IInv'
<1>1. Shape /\ habit = "hosts later" /\ habit' = habit
  BY DEF IInv, Shape, Notice, endVars
<1>2. Shape'
  BY <1>1 DEF Shape, Notice, WithRow, endVars
<1> QED
  BY <1>1, <1>2 DEF IInv, RemovedStaysAway

\* Saves of what is in the queue: by the timer, after a batch, at shutdown.
LEMMA SavesKeep ==
    ASSUME IInv, TimerFires \/ SaveAfterBatch \/ Shutdown
    PROVE  IInv'
<1>1. /\ Shape /\ entry' = entry /\ row' = row /\ removed' = removed /\ habit' = habit
      /\ clearing' = clearing /\ notices' = notices
  BY DEF IInv, TimerFires, SaveAfterBatch, Shutdown, laterVars, endVars
<1>2. jobs' = jobs \/ \E P : jobs' = Append(jobs, SavesOf(P))
  BY DEF TimerFires, SaveAfterBatch, Shutdown, Submit
<1>3. \E S : jobs' \in Seq(S)
  BY <1>1, <1>2, Grown DEF Shape
<1>4. Shape'
  BY <1>1, <1>3 DEF Shape
<1>5. \/ jobs' = jobs
      \/ \E job : jobs' = Append(jobs, job) /\ \A p \in Paths : ~InQueue(p) => ~Saves(job, p)
  BY <1>2, NotSaved
<1> QED
  BY <1>1, <1>4, <1>5, NothingReturns DEF IInv

\* What is removed has its deletion behind every save, or a batch that will bring it.
LEMMA RemovalsKeep ==
    ASSUME IInv,
           \/ \E q \in Paths : RemoveItem(q)
           \/ \E P \in SUBSET Paths : RemoveMany(P)
           \/ BatchRemoved
    PROVE  IInv'
<1>1. Shape
  BY DEF IInv
<1>2. ASSUME NEW q \in Paths, RemoveItem(q) PROVE IInv'
  <2>1. /\ row' = row /\ removed' = removed \cup {q} /\ habit' = habit /\ notices' = notices
        /\ clearing' = clearing /\ jobs' = Append(jobs, DeletesOf({q}))
        /\ entry' = [entry EXCEPT ![q] = Gone]
    BY <1>2 DEF RemoveItem, Submit, laterVars, endVars
  <2>2. entry' = [p \in Paths |-> entry'[p]] /\ \A p \in Paths : entry'[p] \in {entry[p], Gone}
    BY <1>1, <2>1 DEF Shape
  <2>3. Shape'
    BY <1>1, <2>1, <2>2, Grown DEF Shape
  <2>4. ASSUME habit # "hosts later", NEW p \in removed'
        PROVE  ~InQueue(p)' /\ (EndsGone(p)' \/ p \in clearing')
    <3>1. CASE p = q
      BY <1>1, <2>1, <3>1, DeletedLast DEF InQueue, Shape
    <3>2. CASE p # q
      <4>1. p \in Paths /\ ~InQueue(p) /\ (EndsGone(p) \/ p \in clearing)
        BY <1>1, <2>1, <2>4, <3>2 DEF IInv, Shape, RemovedStaysAway
      <4>2. EndsGone(p) => EndsGone(p)'
        BY <1>1, <2>1, <4>1, StillGone DEF DeletesOf, Saves
      <4> QED
        BY <2>1, <2>2, <4>1, <4>2 DEF InQueue
    <3> QED
      BY <3>1, <3>2
  <2> QED
    BY <2>1, <2>3, <2>4 DEF IInv, RemovedStaysAway
<1>3. ASSUME NEW P \in SUBSET Paths, RemoveMany(P) PROVE IInv'
  <2>1. /\ row' = row /\ removed' = removed \cup P /\ habit' = habit /\ notices' = notices
        /\ clearing = {} /\ clearing' = P /\ jobs' = jobs
        /\ entry' = [p \in Paths |-> IF p \in P THEN Gone ELSE entry[p]]
    BY <1>3 DEF RemoveMany, dbVars, endVars
  <2>2. Shape'
    BY <1>1, <2>1 DEF Shape
  <2>3. ASSUME habit # "hosts later", NEW p \in removed'
        PROVE  ~InQueue(p)' /\ (EndsGone(p)' \/ p \in clearing')
    <3>1. CASE p \in P
      BY <2>1, <3>1 DEF InQueue
    <3>2. CASE p \notin P
      <4>1. p \in Paths /\ ~InQueue(p) /\ EndsGone(p)
        BY <1>1, <2>1, <2>3, <3>2 DEF IInv, Shape, RemovedStaysAway
      <4> QED
        BY <1>1, <2>1, <4>1, StillGone DEF InQueue
    <3> QED
      BY <3>1, <3>2
  <2> QED
    BY <2>1, <2>2, <2>3 DEF IInv, RemovedStaysAway
<1>4. ASSUME BatchRemoved PROVE IInv'
  <2>1. /\ entry' = entry /\ row' = row /\ removed' = removed /\ habit' = habit
        /\ notices' = notices /\ jobs' = Append(jobs, DeletesOf(clearing))
    BY <1>4 DEF BatchRemoved, Submit, endVars
  <2>2. Shape'
    BY <1>1, <2>1, Grown DEF Shape
  <2>3. ASSUME habit # "hosts later", NEW p \in removed'
        PROVE  ~InQueue(p)' /\ EndsGone(p)'
    <3>1. p \in Paths /\ ~InQueue(p) /\ (EndsGone(p) \/ p \in clearing)
      BY <1>1, <2>1, <2>3 DEF IInv, Shape, RemovedStaysAway
    <3>2. CASE p \in clearing
      BY <1>1, <2>1, <3>1, <3>2, DeletedLast DEF InQueue
    <3>3. CASE EndsGone(p)
      BY <1>1, <2>1, <3>1, <3>3, StillGone DEF InQueue, DeletesOf, Saves
    <3> QED
      BY <3>1, <3>2, <3>3
  <2> QED
    BY <2>1, <2>2, <2>3 DEF IInv, RemovedStaysAway
<1> QED
  BY <1>2, <1>3, <1>4

LEMMA WriterKeeps ==
    ASSUME IInv, WriterRuns
    PROVE  IInv'
<1>1. /\ Shape /\ entry' = entry /\ removed' = removed /\ habit' = habit
      /\ clearing' = clearing /\ notices' = notices /\ jobs # <<>> /\ jobs' = Tail(jobs)
  BY DEF IInv, WriterRuns, laterVars, endVars
<1>2. row' = [p \in Paths |-> row'[p]]
  BY DEF WriterRuns
<1>3. Shape'
  BY <1>1, <1>2, Shrunk DEF Shape
<1>4. ASSUME habit # "hosts later", NEW p \in removed
      PROVE  ~InQueue(p)' /\ (EndsGone(p)' \/ p \in clearing')
  <2>1. p \in Paths /\ ~InQueue(p) /\ (EndsGone(p) \/ p \in clearing)
    BY <1>1, <1>4 DEF IInv, Shape, RemovedStaysAway
  <2> QED
    BY <1>1, <2>1, WriterKeepsGone DEF InQueue
<1> QED
  BY <1>1, <1>3, <1>4 DEF IInv, RemovedStaysAway

LEMMA EndsKeep ==
    ASSUME IInv, NEW missing \in SUBSET Paths, Restart(missing) \/ Crash(missing)
    PROVE  IInv'
<1>1. Shape /\ Load(missing)
  BY DEF IInv, Restart, Crash
<1>2. removed \subseteq Paths
  BY <1>1 DEF Shape
<1>3. CASE Crash(missing)
  BY <1>1, <1>2, <1>3, LoadKeeps DEF Crash
<1>4. CASE Restart(missing) /\ habit # "hosts later"
  <2>1. jobs = <<>> /\ removed' = removed \ clearing
    BY <1>4 DEF Restart
  <2>2. DOMAIN jobs = {}
    BY <2>1
  <2>3. \A p \in removed' : EndsGone(p)
    BY <1>4, <2>1 DEF IInv, RemovedStaysAway
  <2>4. \A p \in removed' : row[p] = Gone
    BY <2>2, <2>3 DEF EndsGone
  <2> QED
    BY <1>1, <1>2, <2>1, <2>4, LoadKeeps
<1>5. CASE Restart(missing) /\ habit = "hosts later"
  <2>1. /\ entry' = [p \in Paths |-> entry'[p]] /\ row' = row /\ jobs' = <<>>
        /\ habit' = habit /\ removed' \subseteq Paths
    BY <1>1, <1>2, <1>5 DEF Load, Restart, endVars
  <2>2. jobs' \in Seq({})
    BY <2>1
  <2> QED
    BY <1>1, <1>5, <2>1, <2>2 DEF IInv, Shape, RemovedStaysAway
<1> QED
  BY <1>3, <1>4, <1>5

-----------------------------------------------------------------------------

\* A gallery that the user has removed is in no later queue: every save of it
\* that was handed to the writer lies before its deletion, whatever timers,
\* batches, quits and crashes come after.
THEOREM RemovedGalleriesStayAway == QueueStoreSpec => []RemovedStaysAway
<1>1. IInv /\ [QueueStoreNext]_queueStoreVars => IInv'
  <2> SUFFICES ASSUME IInv, [QueueStoreNext]_queueStoreVars PROVE IInv'
    OBVIOUS
  <2>1. ASSUME NEW q \in Paths, UserStep(q) PROVE IInv'
    BY <2>1, AddItemKeeps, LifeKeeps, RemovalsKeep DEF UserStep
  <2>2. ASSUME NEW q \in Paths, ThreadStep(q) PROVE IInv'
    BY <2>2, LifeKeeps, NoticeKeeps DEF ThreadStep
  <2>3. ASSUME NEW P \in SUBSET Paths, RemoveMany(P) \/ Restart(P) \/ Crash(P) PROVE IInv'
    BY <2>3, RemovalsKeep, EndsKeep
  <2>4. CASE BatchRemoved
    BY <2>4, RemovalsKeep
  <2>5. CASE SaveAfterBatch \/ TimerFires \/ Shutdown
    BY <2>5, SavesKeep
  <2>6. CASE WriterRuns
    BY <2>6, WriterKeeps
  <2>7. CASE UNCHANGED queueStoreVars
    <3>1. /\ entry' = entry /\ row' = row /\ jobs' = jobs /\ removed' = removed
          /\ habit' = habit /\ notices' = notices /\ clearing' = clearing
      BY <2>7 DEF queueStoreVars, dbVars, laterVars, endVars
    <3> QED
      BY <3>1 DEF IInv, Shape, RemovedStaysAway, EndsGone, InQueue
  <2> QED
    BY <2>1, <2>2, <2>3, <2>4, <2>5, <2>6, <2>7 DEF QueueStoreNext
<1>2. IInv => RemovedStaysAway
  BY DEF IInv
<1> QED
  BY <1>1, <1>2, InitIInv, PTL DEF QueueStoreSpec

-----------------------------------------------------------------------------
(* The ids of rows.                                                        *)

Rows == [Paths -> Entry \cup {Gone}]
Jobs == [saves : SUBSET Saved, deletes : SUBSET Paths]

\* Every nonempty set of numbers has a least one.
LEMMA Least ==
    ASSUME NEW S \in SUBSET Nat, NEW k \in S
    PROVE  \E n \in S : \A m \in S : n <= m
<1>1. \E n \in S : \A m \in S : <<m, n>> \notin OpToRel(<, Nat)
  BY NatLessThanWellFounded, WFMin, Zenon
<1>2. PICK n \in S : \A m \in S : <<m, n>> \notin OpToRel(<, Nat)
  BY <1>1, Zenon
<1>3. ASSUME NEW m \in S PROVE n <= m
  <2>1. m \in Nat /\ n \in Nat
    OBVIOUS
  <2>2. m < n => <<m, n>> \in OpToRel(<, Nat)
    BY <2>1 DEF OpToRel
  <2>3. ~(m < n)
    BY <2>2, <1>2, Zenon
  <2>. QED
    BY <2>1, <2>3
<1>. QED
  BY <1>3

\* While the ids in the table keep to the bound there is a free one beyond them.
LEMMA FreeIdIsBeyond ==
    ASSUME NEW table \in Rows, \A p \in Paths : table[p].id <= MaxDbId
    PROVE  FreeId(table) \in 1..(MaxDbId + 1) /\ \A p \in Paths : table[p].id < FreeId(table)
<1>. DEFINE S == {n \in Nat \ {0} : \A p \in Paths : table[p].id < n}
            Fits(n) == /\ \A p \in Paths : table[p].id < n
                       /\ n = 1 \/ \E p \in Paths : table[p].id = n - 1
<1>1. MaxDbId \in Nat /\ \A p \in Paths : table[p].id \in Nat
  BY QueueAssumption DEF Rows, Entry, Gone, NoDbId
<1>2. MaxDbId + 1 \in S
  BY <1>1
<1>3. PICK n \in S : \A m \in S : n <= m
  BY <1>2, Least
<1>4. n \in 1..(MaxDbId + 1)
  BY <1>1, <1>2, <1>3
<1>5. Fits(n)
  <2>1. CASE n = 1
    BY <2>1
  <2>2. CASE n # 1
    <3>1. n - 1 \in Nat \ {0} /\ n - 1 \notin S
      BY <1>3, <1>4, <2>2
    <3>2. PICK p \in Paths : ~(table[p].id < n - 1)
      BY <3>1
    <3>3. table[p].id < n /\ table[p].id \in Nat
      BY <1>1
    <3>4. table[p].id = n - 1
      BY <3>1, <3>2, <3>3
    <3>. QED
      BY <3>4
  <2>. QED
    BY <2>1, <2>2
<1>6. n \in 1..(MaxDbId + 2)
  BY <1>1, <1>4
<1>7. FreeId(table) \in 1..(MaxDbId + 2) /\ Fits(FreeId(table))
  BY <1>5, <1>6 DEF FreeId
<1>. QED
  <2>. DEFINE f == FreeId(table)
  <2>. HIDE DEF f
  <2>1. /\ f \in 1..(MaxDbId + 2) /\ \A p \in Paths : table[p].id < f
        /\ f = 1 \/ \E p \in Paths : table[p].id = f - 1
    BY <1>7 DEF f
  <2>2. f <= MaxDbId + 1
    BY <1>1, <2>1
  <2>. QED
    BY <1>1, <2>1, <2>2 DEF f

-----------------------------------------------------------------------------
(* What an orderly end leaves in the table, where every row comes from a   *)
(* save.                                                                   *)

Typed ==
    /\ entry \in Rows /\ row \in Rows /\ jobs \in Seq(Jobs)
    /\ nextDbId \in 1..(MaxDbId + 1) /\ saveTimer \in Paths \cup {"none", "fired"}
    /\ clearing \subseteq Paths /\ kept \subseteq Paths /\ notices = {}

\* The id by which p is known: to the queue, to the table, to a save that waits.
WaitsWith(p, n) == \E i \in DOMAIN jobs : \E s \in jobs[i].saves : s.path = p /\ s.id = n
UsedBy(p, n) ==
    \/ InQueue(p) /\ entry[p].id = n
    \/ row[p] # Gone /\ row[p].id = n
    \/ WaitsWith(p, n)

\* The ids predicted are not taken by another gallery.
IdsApart ==
    /\ \A p \in Paths : \A n : UsedBy(p, n) => n \in 1..(nextDbId - 1)
    /\ \A p, q \in Paths : \A n : UsedBy(p, n) /\ UsedBy(q, n) => p = q

Deleted(p) == \E i \in DOMAIN jobs : p \in jobs[i].deletes

\* Once the jobs that wait are done, p has a row.
EndsKept(p) ==
    \/ row[p] # Gone /\ ~Deleted(p)
    \/ \E i \in DOMAIN jobs :
          Saves(jobs[i], p) /\ \A j \in DOMAIN jobs : j >= i => p \notin jobs[j].deletes

\* Shutdown saves nothing if no timer was ever made: then all is in the table.
NoTimerNoNews ==
    ~closing /\ saveTimer = "none" =>
        \A p \in Paths : InQueue(p) => row[p] # Gone /\ p \notin clearing /\ ~Deleted(p)

KeptInv ==
    /\ NoTimerNoNews
    /\ closing => \A p \in kept : EndsKept(p) /\ p \notin clearing

QuitInv == Typed /\ IdsApart /\ KeptInv

LEMMA RowFields ==
    /\ \A r \in Entry : r # Gone /\ r.id \in Nat /\ r.status \in Stages
    /\ \A r \in Entry, t \in Stages : /\ [r EXCEPT !.status = t] \in Entry
                                      /\ [r EXCEPT !.status = t].id = r.id
    /\ \A t \in Stages, n \in Nat : [status |-> t, id |-> n] \in Entry
    /\ Gone.id = NoDbId /\ NoDbId = 0
  BY DEF Entry, Gone, NoDbId, Stages

LEMMA AnEntry ==
    ASSUME Typed, NEW p \in Paths
    PROVE  /\ entry[p] \in Entry \cup {Gone} /\ row[p] \in Entry \cup {Gone}
           /\ InQueue(p) => entry[p] \in Entry
           /\ row[p] # Gone => row[p] \in Entry
  BY DEF Typed, Rows, InQueue

\* A job of its queue, before and after it grows.
LEMMA JobsGrow ==
    ASSUME Typed, NEW job \in Jobs, jobs' = Append(jobs, job)
    PROVE  /\ jobs' \in Seq(Jobs)
           /\ Len(jobs) \in Nat /\ DOMAIN jobs = 1..Len(jobs)
           /\ DOMAIN jobs' = 1..(Len(jobs) + 1) /\ jobs'[Len(jobs) + 1] = job
           /\ \A i \in DOMAIN jobs : jobs'[i] = jobs[i]
<1>1. jobs \in Seq(Jobs)
  BY DEF Typed
<1>. QED
  BY <1>1, AppendProperties

\* What a job at the end adds to what waits.
LEMMA Appended ==
    ASSUME Typed, NEW job \in Jobs, jobs' = Append(jobs, job), NEW p \in Paths
    PROVE  /\ \A n : WaitsWith(p, n)' => WaitsWith(p, n) \/ \E s \in job.saves : s.path = p /\ s.id = n
           /\ Deleted(p)' => Deleted(p) \/ p \in job.deletes
           /\ EndsKept(p) /\ (row[p] # Gone => row'[p] # Gone) /\ p \notin job.deletes => EndsKept(p)'
           /\ Saves(job, p) /\ p \notin job.deletes => EndsKept(p)'
<1>. DEFINE m == Len(jobs) + 1
<1>1. /\ m \in Nat /\ DOMAIN jobs = 1..(m - 1) /\ DOMAIN jobs' = 1..m /\ jobs'[m] = job
      /\ \A i \in DOMAIN jobs : jobs'[i] = jobs[i]
  BY JobsGrow
<1>. HIDE DEF m
<1>2. m \in DOMAIN jobs' /\ \A i \in DOMAIN jobs' : i = m \/ i \in DOMAIN jobs
  BY <1>1
<1>3. \A i \in DOMAIN jobs : i \in DOMAIN jobs' /\ i < m
  BY <1>1
<1>4. ASSUME NEW n, WaitsWith(p, n)'
      PROVE  WaitsWith(p, n) \/ \E s \in job.saves : s.path = p /\ s.id = n
  BY <1>1, <1>2, <1>4 DEF WaitsWith
<1>5. Deleted(p)' => Deleted(p) \/ p \in job.deletes
  BY <1>1, <1>2 DEF Deleted
<1>6. ASSUME EndsKept(p), row[p] # Gone => row'[p] # Gone, p \notin job.deletes
      PROVE  EndsKept(p)'
  <2>1. CASE row[p] # Gone /\ ~Deleted(p)
    BY <1>5, <1>6, <2>1 DEF EndsKept
  <2>2. CASE \E i \in DOMAIN jobs :
                Saves(jobs[i], p) /\ \A j \in DOMAIN jobs : j >= i => p \notin jobs[j].deletes
    <3>1. PICK i \in DOMAIN jobs :
                Saves(jobs[i], p) /\ \A j \in DOMAIN jobs : j >= i => p \notin jobs[j].deletes
      BY <2>2
    <3>2. i \in DOMAIN jobs' /\ Saves(jobs'[i], p)
      BY <1>1, <1>3, <3>1
    <3>3. \A j \in DOMAIN jobs' : j >= i => p \notin jobs'[j].deletes
      BY <1>1, <1>2, <1>6, <3>1
    <3>. QED
      BY <3>2, <3>3 DEF EndsKept
  <2>. QED
    BY <1>6, <2>1, <2>2 DEF EndsKept
<1>7. ASSUME Saves(job, p), p \notin job.deletes PROVE EndsKept(p)'
  <2>1. \A j \in DOMAIN jobs' : j >= m => p \notin jobs'[j].deletes
    BY <1>1, <1>7
  <2>2. Saves(jobs'[m], p)
    BY <1>1, <1>7
  <2>. QED
    BY <1>2, <2>1, <2>2 DEF EndsKept
<1>. QED
  BY <1>4, <1>5, <1>6, <1>7

LEMMA SavesAreJobs ==
    ASSUME Typed, NEW P \in SUBSET Paths
    PROVE  /\ SavesOf(P) \in Jobs /\ SavesOf(P).deletes = {}
           /\ \A s \in SavesOf(P).saves : InQueue(s.path) /\ s.path \in Paths /\ s.id = entry[s.path].id
           /\ \A p \in P \cap Savable : Saves(SavesOf(P), p)
<1>1. \A p \in Savable : p \in Paths /\ InQueue(p) /\ SaveOf(p) \in Saved
                         /\ SaveOf(p).path = p /\ SaveOf(p).id = entry[p].id
  BY AnEntry, RowFields DEF Savable, SaveOf, Saved
<1>. QED
  BY <1>1 DEF SavesOf, Jobs, Saves

LEMMA DeletesAreJobs ==
    ASSUME NEW P \in SUBSET Paths
    PROVE  DeletesOf(P) \in Jobs /\ DeletesOf(P).saves = {} /\ DeletesOf(P).deletes = P
  BY DEF DeletesOf, Jobs

-----------------------------------------------------------------------------
(* What the writer makes of saves whose ids are apart.                     *)

LEMMA OneSave ==
    ASSUME NEW table, NEW saves, NEW p \in Paths, NEW t \in saves, t.path = p
    PROVE  \E s \in saves : /\ s.path = p
                            /\ Upserted(table, saves)[p] =
                                 IF table[p] # Gone THEN [table[p] EXCEPT !.status = s.status]
                                 ELSE Inserted(table, s)
<1>. DEFINE s == CHOOSE s \in saves : s.path = p
<1>1. s \in saves /\ s.path = p
  OBVIOUS
<1>2. Upserted(table, saves)[p] =
        IF table[p] # Gone THEN [table[p] EXCEPT !.status = s.status] ELSE Inserted(table, s)
  BY DEF Upserted
<1>. QED
  BY <1>1, <1>2

LEMMA Written ==
    ASSUME Typed, IdsApart, NEW saves \in SUBSET Saved,
           \A s \in saves : UsedBy(s.path, s.id), NEW p \in Paths
    PROVE  /\ Upserted(row, saves)[p] \in Entry \cup {Gone}
           /\ row[p] # Gone \/ (\E s \in saves : s.path = p) => Upserted(row, saves)[p] # Gone
           /\ Upserted(row, saves)[p] # Gone => UsedBy(p, Upserted(row, saves)[p].id)
<1>1. CASE \A t \in saves : t.path # p
  <2>1. Upserted(row, saves)[p] = row[p]
    BY <1>1, Untouched
  <2>. QED
    BY <1>1, <2>1, AnEntry DEF UsedBy
<1>2. CASE \E t \in saves : t.path = p
  <2>1. PICK s \in saves : /\ s.path = p
                           /\ Upserted(row, saves)[p] =
                                IF row[p] # Gone THEN [row[p] EXCEPT !.status = s.status]
                                ELSE Inserted(row, s)
    BY <1>2, OneSave
  <2>2. s.status \in Stages /\ s.id \in Nat /\ UsedBy(p, s.id)
    BY <2>1 DEF Saved
  <2>3. CASE row[p] # Gone
    <3>1. Upserted(row, saves)[p] = [row[p] EXCEPT !.status = s.status] /\ row[p] \in Entry
      BY <2>1, <2>3, AnEntry
    <3>2. Upserted(row, saves)[p] \in Entry /\ Upserted(row, saves)[p].id = row[p].id
      BY <3>1, <2>2, RowFields
    <3>. QED
      BY <2>3, <3>2, RowFields DEF UsedBy
  <2>4. CASE row[p] = Gone
    <3>1. s.id # NoDbId
      BY <2>2, RowFields DEF IdsApart, Typed
    <3>2. ASSUME NEW q \in Paths, row[q].id = s.id PROVE FALSE
      <4>1. row[q] # Gone
        BY <3>1, <3>2, RowFields
      <4>2. UsedBy(q, s.id)
        BY <3>2, <4>1 DEF UsedBy
      <4>. QED
        BY <2>2, <2>4, <4>1, <4>2 DEF IdsApart
    <3>3. Inserted(row, s) = [status |-> s.status, id |-> s.id]
      BY <3>1, <3>2 DEF Inserted
    <3>4. Upserted(row, saves)[p] \in Entry /\ Upserted(row, saves)[p].id = s.id
      BY <2>1, <2>2, <2>4, <3>3, RowFields
    <3>. QED
      BY <2>2, <3>4, RowFields
  <2>. QED
    BY <2>3, <2>4
<1>. QED
  BY <1>1, <1>2

LEMMA WriterKeepsRows ==
    ASSUME Typed, IdsApart, WriterRuns, NEW p \in Paths
    PROVE  /\ row' \in Rows
           /\ row'[p] # Gone => UsedBy(p, row'[p].id)
           /\ row[p] # Gone /\ ~Deleted(p) => row'[p] # Gone
           /\ EndsKept(p) => EndsKept(p)'
           /\ \A n : WaitsWith(p, n)' => WaitsWith(p, n)
           /\ Deleted(p)' => Deleted(p)
           /\ jobs' \in Seq(Jobs)
<1>. DEFINE job == Head(jobs)
<1>1. jobs \in Seq(Jobs) /\ jobs # <<>> /\ jobs' = Tail(jobs)
  BY DEF Typed, WriterRuns
<1>2. /\ jobs' \in Seq(Jobs) /\ job \in Jobs
      /\ Len(jobs) \in Nat \ {0} /\ DOMAIN jobs = 1..Len(jobs) /\ job = jobs[1]
      /\ DOMAIN jobs' = 1..(Len(jobs) - 1)
      /\ \A i \in DOMAIN jobs' : jobs'[i] = jobs[i + 1] /\ i + 1 \in DOMAIN jobs
  BY <1>1, HeadTailProperties
<1>3. job.saves \in SUBSET Saved /\ \A s \in job.saves : s.path \in Paths /\ UsedBy(s.path, s.id)
  BY <1>2 DEF Jobs, Saved, UsedBy, WaitsWith
<1>4. \A q \in Paths : row'[q] = IF q \in job.deletes THEN Gone ELSE Upserted(row, job.saves)[q]
  BY DEF WriterRuns
<1>5. row' = [q \in Paths |-> row'[q]]
  BY DEF WriterRuns
<1>. HIDE DEF job
<1>6. \A q \in Paths : row'[q] \in Entry \cup {Gone}
  BY <1>3, <1>4, Written
<1>7. row' \in Rows
  BY <1>5, <1>6 DEF Rows
<1>8. row'[p] # Gone => UsedBy(p, row'[p].id)
  BY <1>3, <1>4, Written
<1>9. p \notin job.deletes /\ (row[p] # Gone \/ Saves(job, p)) => row'[p] # Gone
  BY <1>3, <1>4, Written DEF Saves
<1>10. p \in job.deletes => Deleted(p)
  BY <1>2 DEF Deleted
<1>11. Deleted(p)' => Deleted(p)
  BY <1>2 DEF Deleted
<1>12. \A n : WaitsWith(p, n)' => WaitsWith(p, n)
  BY <1>2 DEF WaitsWith
<1>13. ASSUME EndsKept(p) PROVE EndsKept(p)'
  <2>1. CASE row[p] # Gone /\ ~Deleted(p)
    BY <1>9, <1>10, <1>11, <2>1 DEF EndsKept
  <2>2. CASE \E i \in DOMAIN jobs :
                Saves(jobs[i], p) /\ \A j \in DOMAIN jobs : j >= i => p \notin jobs[j].deletes
    <3>1. PICK i \in DOMAIN jobs :
                Saves(jobs[i], p) /\ \A j \in DOMAIN jobs : j >= i => p \notin jobs[j].deletes
      BY <2>2
    <3>2. CASE i = 1
      <4>1. row'[p] # Gone
        BY <1>2, <1>9, <3>1, <3>2
      <4>2. \A j \in DOMAIN jobs : p \notin jobs[j].deletes
        BY <1>2, <3>1, <3>2
      <4>. QED
        BY <1>11, <4>1, <4>2 DEF EndsKept, Deleted
    <3>3. CASE i # 1
      <4>1. i - 1 \in DOMAIN jobs' /\ jobs'[i - 1] = jobs[i]
        BY <1>2, <3>3
      <4>2. \A j \in DOMAIN jobs' : j >= i - 1 => p \notin jobs'[j].deletes
        BY <1>2, <3>1
      <4>. QED
        BY <3>1, <4>1, <4>2 DEF EndsKept
    <3>. QED
      BY <3>2, <3>3
  <2>. QED
    BY <1>13, <2>1, <2>2 DEF EndsKept
<1>. QED
  BY <1>2, <1>7, <1>8, <1>9, <1>10, <1>11, <1>12, <1>13

-----------------------------------------------------------------------------

\* No id is predicted, and none is taken from elsewhere.
LEMMA IdsStay ==
    ASSUME IdsApart, nextDbId' = nextDbId,
           \A p \in Paths : \A n : UsedBy(p, n)' => UsedBy(p, n)
    PROVE  IdsApart'
  BY DEF IdsApart

\* Nothing is deleted, no row goes, and a timer once made stays.
LEMMA NothingIsLost ==
    ASSUME Typed, KeptInv, closing' = closing, kept' = kept, clearing' = clearing,
           saveTimer' = "none" => saveTimer = "none" /\ \A p \in Paths : InQueue(p)' => InQueue(p),
           \A p \in Paths : row[p] # Gone => row'[p] # Gone,
           jobs' = jobs \/ \E job \in Jobs : jobs' = Append(jobs, job) /\ job.deletes = {}
    PROVE  KeptInv'
<1>1. \A p \in Paths : (Deleted(p)' => Deleted(p)) /\ (EndsKept(p) => EndsKept(p)')
  <2>1. CASE jobs' = jobs
    BY <2>1 DEF Deleted, EndsKept
  <2>2. CASE jobs' # jobs
    BY <2>2, Appended
  <2>. QED
    BY <2>1, <2>2
<1>2. kept \subseteq Paths
  BY DEF Typed
<1>. QED
  BY <1>1, <1>2 DEF KeptInv, NoTimerNoNews

LEMMA AddItemQuits ==
    ASSUME QuitInv, habit = "images", NEW q \in Paths, AddItem(q)
    PROVE  QuitInv'
<1>1. /\ Typed /\ IdsApart /\ KeptInv /\ nextDbId <= MaxDbId /\ nextDbId' = nextDbId + 1
      /\ row' = row /\ jobs' = jobs /\ saveTimer' = q /\ clearing' = clearing /\ kept' = kept
      /\ closing' = closing /\ notices' = notices
      /\ entry' = [entry EXCEPT ![q] = [status |-> "validating", id |-> nextDbId]]
  BY DEF QuitInv, AddItem, Debounced, laterVars, endVars
<1>2. MaxDbId \in Nat /\ nextDbId \in 1..(MaxDbId + 1) /\ nextDbId \in Nat
  BY <1>1, QueueAssumption DEF Typed
<1>3. [status |-> "validating", id |-> nextDbId] \in Entry
  BY <1>2, RowFields DEF Stages
<1>4. entry' \in Rows
  BY <1>1, <1>3 DEF Typed, Rows
<1>5. Typed'
  BY <1>1, <1>2, <1>4 DEF Typed
<1>6. \A p \in Paths : \A n : UsedBy(p, n)' => UsedBy(p, n) \/ (p = q /\ n = nextDbId)
  BY <1>1 DEF UsedBy, InQueue, WaitsWith, Typed, Rows
<1>7. IdsApart'
  <2>1. ASSUME NEW p \in Paths, NEW n, UsedBy(p, n)' PROVE n \in 1..nextDbId
    BY <1>1, <1>2, <1>6, <2>1 DEF IdsApart
  <2>2. \A p \in Paths : ~UsedBy(p, nextDbId)
    BY <1>1, <1>2 DEF IdsApart
  <2>3. nextDbId' - 1 = nextDbId
    BY <1>1, <1>2
  <2>4. \A p \in Paths : \A n : UsedBy(p, n)' => n \in 1..(nextDbId' - 1)
    BY <2>1, <2>3
  <2>5. \A p, r \in Paths : \A n : UsedBy(p, n)' /\ UsedBy(r, n)' => p = r
    BY <1>1, <1>6, <2>2 DEF IdsApart
  <2>. QED
    BY <2>4, <2>5 DEF IdsApart
<1>8. saveTimer' # "none"
  BY <1>1, QueueAssumption
<1>9. KeptInv'
  BY <1>1, <1>8, NothingIsLost
<1>. QED
  BY <1>5, <1>7, <1>9 DEF QuitInv

\* A step in the life of q: its id stays what it is.
LEMMA LifeQuits ==
    ASSUME QuitInv, habit = "images", NEW q \in Paths,
           \/ ScanEnds(q) \/ ChangeItem(q) \/ UploadBegins(q) \/ UploadCompletes(q)
           \/ UploadStops(q)
    PROVE  QuitInv'
<1>1. /\ Typed /\ IdsApart /\ KeptInv /\ nextDbId' = nextDbId /\ clearing' = clearing
      /\ kept' = kept /\ closing' = closing /\ saveTimer' \in {saveTimer, q} /\ notices' = notices
  BY DEF QuitInv, ScanEnds, ChangeItem, UploadBegins, UploadCompletes, UploadStops, Debounced,
         DebouncedElsewhere, Announced, laterVars, endVars
<1>2. entry[q] \in Entry
  <2>1. entry[q] # Gone
    BY DEF ScanEnds, ChangeItem, UploadBegins, UploadCompletes, UploadStops, In, Gone
  <2>. QED
    BY <1>1, <2>1, AnEntry
<1>3. PICK e \in Entry : e.id = entry[q].id /\ entry' = [entry EXCEPT ![q] = e]
  <2>1. PICK t \in Stages : entry' = entry \/ SetStatus(q, t)
    BY DEF ScanEnds, ChangeItem, UploadBegins, UploadCompletes, UploadStops, Stages
  <2>2. CASE entry' = entry
    <3>1. entry' = [entry EXCEPT ![q] = entry[q]]
      BY <1>1, <2>2 DEF Typed, Rows
    <3>. QED
      BY <1>2, <3>1
  <2>3. CASE SetStatus(q, t)
    <3>1. entry' = [entry EXCEPT ![q] = [entry[q] EXCEPT !.status = t]]
      BY <2>3 DEF SetStatus
    <3>. QED
      BY <1>2, <3>1, RowFields
  <2>. QED
    BY <2>1, <2>2, <2>3
<1>4. entry' \in Rows /\ \A p \in Paths : InQueue(p)' <=> InQueue(p)
  BY <1>1, <1>2, <1>3, RowFields DEF Typed, Rows, InQueue
<1>5. \A p \in Paths : \A n : InQueue(p)' /\ entry'[p].id = n => UsedBy(p, n)
  BY <1>1, <1>3, <1>4 DEF Typed, Rows, UsedBy
<1>6. /\ row' \in Rows
      /\ \A p \in Paths : (row[p] # Gone => row'[p] # Gone)
      /\ \A p \in Paths : \A n : row'[p] # Gone /\ row'[p].id = n => UsedBy(p, n)
  <2>1. CASE UploadCompletes(q)
    <3>. DEFINE s == [SaveOf(q) EXCEPT !.status = "completed"]
    <3>1. s \in Saved /\ s.path = q /\ s.id = entry[q].id /\ row' = Upserted(row, {s})
      BY <1>2, <2>1, RowFields DEF UploadCompletes, SaveOf, Saved, Stages
    <3>2. UsedBy(q, entry[q].id)
      BY <1>2, RowFields DEF UsedBy, InQueue
    <3>. HIDE DEF s
    <3>3. {s} \in SUBSET Saved /\ \A t \in {s} : UsedBy(t.path, t.id)
      BY <3>1, <3>2
    <3>4. \A p \in Paths : /\ row'[p] \in Entry \cup {Gone}
                           /\ row[p] # Gone => row'[p] # Gone
                           /\ row'[p] # Gone => UsedBy(p, row'[p].id)
      BY <1>1, <3>1, <3>3, Written
    <3>5. row' = [p \in Paths |-> row'[p]]
      BY <3>1 DEF Upserted
    <3>. QED
      BY <3>4, <3>5 DEF Rows
  <2>2. CASE ~UploadCompletes(q)
    <3>1. row' = row
      BY <2>2 DEF ScanEnds, ChangeItem, UploadBegins, UploadStops, dbVars
    <3>. QED
      BY <1>1, <3>1 DEF Typed, UsedBy
  <2>. QED
    BY <2>1, <2>2
<1>7. \/ jobs' = jobs
      \/ \E job \in Jobs : /\ jobs' = Append(jobs, job) /\ job.deletes = {}
                           /\ \A s \in job.saves : s.path = q /\ s.id = entry[q].id
  <2>1. CASE ScanEnds(q) /\ jobs' # jobs
    <3>. DEFINE s == [SaveOf(q) EXCEPT !.status = "waiting"]
                job == [saves |-> {s}, deletes |-> {}]
    <3>1. s \in Saved /\ s.path = q /\ s.id = entry[q].id
      BY <1>2, RowFields DEF SaveOf, Saved, Stages
    <3>2. jobs' = Append(jobs, job)
      BY <2>1 DEF ScanEnds, Submit
    <3>. HIDE DEF s
    <3>3. job \in Jobs /\ job.deletes = {} /\ job.saves = {s}
      BY <3>1 DEF Jobs
    <3>. QED
      BY <3>1, <3>2, <3>3
  <2>2. CASE ~ScanEnds(q)
    BY <2>2 DEF ChangeItem, UploadBegins, UploadCompletes, UploadStops, dbVars
  <2>. QED
    BY <2>1, <2>2
<1>8. jobs' \in Seq(Jobs) /\ \A p \in Paths : \A n : WaitsWith(p, n)' => UsedBy(p, n)
  <2>1. CASE jobs' = jobs
    BY <1>1, <2>1 DEF Typed, WaitsWith, UsedBy
  <2>2. CASE jobs' # jobs
    <3>1. PICK job \in Jobs : /\ jobs' = Append(jobs, job)
                              /\ \A s \in job.saves : s.path = q /\ s.id = entry[q].id
      BY <1>7, <2>2
    <3>2. \A p \in Paths : \A n : WaitsWith(p, n)' =>
               WaitsWith(p, n) \/ \E s \in job.saves : s.path = p /\ s.id = n
      BY <1>1, <3>1, Appended
    <3>3. jobs' \in Seq(Jobs)
      BY <1>1, <3>1, JobsGrow
    <3>. QED
      BY <1>2, <3>1, <3>2, <3>3, RowFields DEF UsedBy, InQueue
  <2>. QED
    BY <2>1, <2>2
<1>9. Typed'
  BY <1>1, <1>4, <1>6, <1>8 DEF Typed
<1>10. IdsApart'
  <2>1. \A p \in Paths : \A n : UsedBy(p, n)' => UsedBy(p, n)
    BY <1>5, <1>6, <1>8 DEF UsedBy
  <2>. QED
    BY <1>1, <2>1, IdsStay
<1>11. KeptInv'
  <2>1. saveTimer' = "none" => saveTimer = "none"
    BY <1>1, QueueAssumption
  <2>2. jobs' = jobs \/ \E job \in Jobs : jobs' = Append(jobs, job) /\ job.deletes = {}
    BY <1>7
  <2>. QED
    BY <1>1, <1>4, <1>6, <2>1, <2>2, NothingIsLost
<1>. QED
  BY <1>9, <1>10, <1>11 DEF QuitInv

\* The saves of what is in the queue carry the ids it has.
LEMMA SavesAdd ==
    ASSUME Typed, IdsApart, NEW P \in SUBSET Paths, jobs' = Append(jobs, SavesOf(P)),
           entry' = entry, row' = row, nextDbId' = nextDbId
    PROVE  /\ jobs' \in Seq(Jobs) /\ IdsApart'
           /\ \E job \in Jobs : jobs' = Append(jobs, job) /\ job.deletes = {}
           /\ \A p \in Paths : (EndsKept(p) \/ p \in P \cap Savable) => EndsKept(p)'
<1>1. PICK job \in Jobs :
         /\ job = SavesOf(P) /\ job.deletes = {} /\ jobs' = Append(jobs, job)
         /\ \A s \in job.saves : InQueue(s.path) /\ s.path \in Paths /\ s.id = entry[s.path].id
         /\ \A p \in P \cap Savable : Saves(job, p)
  BY SavesAreJobs
<1>2. jobs' \in Seq(Jobs)
  BY <1>1, JobsGrow
<1>3. \A p \in Paths : \A n : WaitsWith(p, n)' => UsedBy(p, n)
  <2>1. \A p \in Paths : \A n : WaitsWith(p, n)' =>
             WaitsWith(p, n) \/ \E s \in job.saves : s.path = p /\ s.id = n
    BY <1>1, Appended
  <2>. QED
    BY <1>1, <2>1 DEF UsedBy
<1>4. \A p \in Paths : \A n : UsedBy(p, n)' => UsedBy(p, n)
  BY <1>3 DEF UsedBy, InQueue
<1>5. IdsApart'
  BY <1>4, IdsStay
<1>6. \A p \in Paths : (EndsKept(p) \/ p \in P \cap Savable) => EndsKept(p)'
  BY <1>1, Appended
<1>. QED
  BY <1>1, <1>2, <1>5, <1>6

LEMMA SavesQuit ==
    ASSUME QuitInv, habit = "images", TimerFires \/ SaveAfterBatch
    PROVE  QuitInv'
<1>1. /\ Typed /\ IdsApart /\ KeptInv /\ entry' = entry /\ row' = row /\ nextDbId' = nextDbId
      /\ clearing' = clearing /\ kept' = kept /\ closing' = closing /\ notices' = notices
      /\ saveTimer' \in {saveTimer, "fired"}
  BY DEF QuitInv, TimerFires, SaveAfterBatch, laterVars, endVars
<1>2. PICK P \in SUBSET Paths : jobs' = Append(jobs, SavesOf(P))
  BY DEF TimerFires, SaveAfterBatch, Submit
<1>3. /\ jobs' \in Seq(Jobs) /\ IdsApart'
      /\ \E job \in Jobs : jobs' = Append(jobs, job) /\ job.deletes = {}
  BY <1>1, <1>2, SavesAdd
<1>4. Typed'
  BY <1>1, <1>3 DEF Typed
<1>5. saveTimer' = "none" => saveTimer = "none" /\ \A p \in Paths : InQueue(p)' => InQueue(p)
  BY <1>1 DEF InQueue
<1>6. KeptInv'
  BY <1>1, <1>3, <1>5, NothingIsLost
<1>. QED
  BY <1>3, <1>4, <1>6 DEF QuitInv

\* What is to be kept is saved by the last job, or is in the table already.
LEMMA ShutdownQuits ==
    ASSUME QuitInv, habit = "images", Shutdown
    PROVE  QuitInv'
<1>1. /\ Typed /\ IdsApart /\ KeptInv /\ entry' = entry /\ row' = row /\ nextDbId' = nextDbId
      /\ clearing' = clearing /\ kept' = Savable \ clearing /\ ~closing /\ closing'
      /\ notices' = notices /\ saveTimer' = "none"
  BY DEF QuitInv, Shutdown, laterVars
<1>2. kept' \subseteq Paths
  BY <1>1 DEF Savable
<1>3. CASE saveTimer = "none"
  <2>1. jobs' = jobs
    BY <1>3 DEF Shutdown
  <2>2. Typed'
    BY <1>1, <1>2, <2>1 DEF Typed
  <2>3. IdsApart'
    BY <1>1, <2>1, IdsStay DEF UsedBy, InQueue, WaitsWith
  <2>4. \A p \in Savable : EndsKept(p)'
    BY <1>1, <1>3, <2>1 DEF KeptInv, NoTimerNoNews, Savable, EndsKept, Deleted
  <2>5. KeptInv'
    BY <1>1, <2>4 DEF KeptInv, NoTimerNoNews
  <2>. QED
    BY <2>2, <2>3, <2>5 DEF QuitInv
<1>4. CASE saveTimer # "none"
  <2>1. jobs' = Append(jobs, SavesOf(Paths))
    BY <1>4 DEF Shutdown, Submit
  <2>2. /\ jobs' \in Seq(Jobs) /\ IdsApart'
        /\ \A p \in Paths : (EndsKept(p) \/ p \in Paths \cap Savable) => EndsKept(p)'
    BY <1>1, <2>1, SavesAdd
  <2>3. Typed'
    BY <1>1, <1>2, <2>2 DEF Typed
  <2>4. KeptInv'
    BY <1>1, <1>2, <2>2 DEF KeptInv, NoTimerNoNews
  <2>. QED
    BY <2>2, <2>3, <2>4 DEF QuitInv
<1>. QED
  BY <1>3, <1>4

\* Removals reach nothing that is to be kept.
LEMMA RemovalsQuit ==
    ASSUME QuitInv, habit = "images",
           \/ \E q \in Paths : RemoveItem(q)
           \/ \E P \in SUBSET Paths : RemoveMany(P)
           \/ BatchRemoved
    PROVE  QuitInv'
<1>1. Typed /\ IdsApart /\ KeptInv /\ Gone \in Entry \cup {Gone}
  BY DEF QuitInv
<1>2. PICK P \in SUBSET Paths :
        /\ row' = row /\ nextDbId' = nextDbId /\ kept' = kept /\ notices' = notices
        /\ saveTimer' = saveTimer /\ closing' = closing
        /\ \/ /\ ~closing /\ clearing' = clearing /\ jobs' = Append(jobs, DeletesOf(P))
              /\ entry' = [p \in Paths |-> IF p \in P THEN Gone ELSE entry[p]]
           \/ /\ ~closing /\ clearing' = P /\ jobs' = jobs
              /\ entry' = [p \in Paths |-> IF p \in P THEN Gone ELSE entry[p]]
           \/ entry' = entry /\ clearing = P /\ clearing' = {} /\ jobs' = Append(jobs, DeletesOf(P))
  <2>1. ASSUME NEW q \in Paths, RemoveItem(q)
        PROVE  /\ row' = row /\ nextDbId' = nextDbId /\ kept' = kept /\ notices' = notices
               /\ saveTimer' = saveTimer /\ closing' = closing
               /\ ~closing /\ clearing' = clearing /\ jobs' = Append(jobs, DeletesOf({q}))
               /\ entry' = [p \in Paths |-> IF p \in {q} THEN Gone ELSE entry[p]]
    <3>1. entry' = [entry EXCEPT ![q] = Gone]
      BY <2>1 DEF RemoveItem
    <3>2. entry' = [p \in Paths |-> IF p \in {q} THEN Gone ELSE entry[p]]
      BY <1>1, <3>1 DEF Typed, Rows
    <3>. QED
      BY <2>1, <3>2 DEF RemoveItem, Submit, laterVars, endVars
  <2>2. ASSUME NEW P \in SUBSET Paths, RemoveMany(P)
        PROVE  /\ row' = row /\ nextDbId' = nextDbId /\ kept' = kept /\ notices' = notices
               /\ saveTimer' = saveTimer /\ closing' = closing
               /\ ~closing /\ clearing' = P /\ jobs' = jobs
               /\ entry' = [p \in Paths |-> IF p \in P THEN Gone ELSE entry[p]]
    BY <2>2 DEF RemoveMany, dbVars, endVars
  <2>3. ASSUME BatchRemoved
        PROVE  /\ row' = row /\ nextDbId' = nextDbId /\ kept' = kept /\ notices' = notices
               /\ saveTimer' = saveTimer /\ closing' = closing /\ clearing \in SUBSET Paths
               /\ entry' = entry /\ clearing' = {} /\ jobs' = Append(jobs, DeletesOf(clearing))
    BY <1>1, <2>3 DEF BatchRemoved, Submit, endVars, Typed
  <2>4. CASE \E q \in Paths : RemoveItem(q)
    <3>1. PICK q \in Paths : RemoveItem(q)
      BY <2>4
    <3>. QED
      BY <2>1, <3>1
  <2>. QED
    BY <2>2, <2>3, <2>4
<1>3. entry' \in Rows /\ \A p \in Paths : InQueue(p)' => InQueue(p) /\ entry'[p] = entry[p]
  BY <1>1, <1>2 DEF Typed, Rows, InQueue
<1>4. jobs' \in Seq(Jobs) /\ \A p \in Paths : \A n : WaitsWith(p, n)' => WaitsWith(p, n)
  <2>1. CASE jobs' = jobs
    BY <1>1, <2>1 DEF Typed, WaitsWith
  <2>2. CASE jobs' = Append(jobs, DeletesOf(P))
    BY <1>1, <2>2, DeletesAreJobs, JobsGrow, Appended
  <2>. QED
    BY <1>2, <2>1, <2>2
<1>5. Typed'
  BY <1>1, <1>2, <1>3, <1>4 DEF Typed
<1>6. IdsApart'
  <2>1. \A p \in Paths : \A n : UsedBy(p, n)' => UsedBy(p, n)
    BY <1>2, <1>3, <1>4 DEF UsedBy
  <2>. QED
    BY <1>1, <1>2, <2>1, IdsStay
<1>7. \A p \in Paths : p \notin P =>
        (Deleted(p)' => Deleted(p)) /\ (EndsKept(p) => EndsKept(p)')
  <2>1. CASE jobs' = jobs
    BY <1>2, <2>1 DEF Deleted, EndsKept
  <2>2. CASE jobs' = Append(jobs, DeletesOf(P))
    BY <1>1, <1>2, <2>2, DeletesAreJobs, Appended
  <2>. QED
    BY <1>2, <2>1, <2>2
<1>8. NoTimerNoNews'
  <2>1. SUFFICES ASSUME ~closing', saveTimer' = "none", NEW p \in Paths, InQueue(p)'
                 PROVE  row'[p] # Gone /\ p \notin clearing' /\ ~Deleted(p)'
    BY DEF NoTimerNoNews
  <2>2. row[p] # Gone /\ p \notin clearing /\ ~Deleted(p)
    BY <1>1, <1>2, <1>3, <2>1 DEF KeptInv, NoTimerNoNews
  <2>3. p \notin P
    BY <1>2, <2>1, <2>2 DEF InQueue
  <2>. QED
    BY <1>2, <1>7, <2>2, <2>3
<1>9. ASSUME closing', NEW p \in kept PROVE EndsKept(p)' /\ p \notin clearing'
  <2>1. p \in Paths /\ EndsKept(p) /\ p \notin clearing /\ closing
    BY <1>1, <1>2, <1>9 DEF KeptInv, Typed
  <2>. QED
    BY <1>2, <1>7, <2>1
<1>. QED
  BY <1>2, <1>5, <1>6, <1>8, <1>9 DEF QuitInv, KeptInv

LEMMA WriterQuits ==
    ASSUME QuitInv, habit = "images", WriterRuns
    PROVE  QuitInv'
<1>1. /\ Typed /\ IdsApart /\ KeptInv /\ entry' = entry /\ nextDbId' = nextDbId
      /\ saveTimer' = saveTimer /\ clearing' = clearing /\ kept' = kept /\ closing' = closing
      /\ notices' = notices
  BY DEF QuitInv, WriterRuns, laterVars, endVars
<1>2. \A p \in Paths : /\ row'[p] # Gone => UsedBy(p, row'[p].id)
                       /\ row[p] # Gone /\ ~Deleted(p) => row'[p] # Gone
                       /\ EndsKept(p) => EndsKept(p)'
                       /\ \A n : WaitsWith(p, n)' => WaitsWith(p, n)
                       /\ Deleted(p)' => Deleted(p)
  BY <1>1, WriterKeepsRows
<1>3. row' \in Rows /\ jobs' \in Seq(Jobs)
  <2>1. jobs' \in Seq(Jobs)
    BY <1>1, HeadTailProperties DEF WriterRuns, Typed
  <2>2. row' = [p \in Paths |-> row'[p]]
    BY DEF WriterRuns
  <2>3. \A p \in Paths : row'[p] \in Entry \cup {Gone}
    BY <1>1, WriterKeepsRows DEF Rows
  <2>. QED
    BY <2>1, <2>2, <2>3 DEF Rows
<1>4. Typed'
  BY <1>1, <1>3 DEF Typed
<1>5. IdsApart'
  <2>1. \A p \in Paths : \A n : UsedBy(p, n)' => UsedBy(p, n)
    BY <1>1, <1>2 DEF UsedBy, InQueue
  <2>. QED
    BY <1>1, <2>1, IdsStay
<1>6. KeptInv'
  <2>1. kept \subseteq Paths
    BY <1>1 DEF Typed
  <2>. QED
    BY <1>1, <1>2, <2>1 DEF KeptInv, NoTimerNoNews, InQueue
<1>. QED
  BY <1>4, <1>5, <1>6 DEF QuitInv

\* A launch predicts ids from beyond the greatest one in the table.
LEMMA LoadQuits ==
    ASSUME QuitInv, habit = "images", NEW missing \in SUBSET Paths, Load(missing)
    PROVE  QuitInv'
<1>1. /\ Typed /\ IdsApart /\ row' = row /\ nextDbId' = FreeId(row) /\ saveTimer' = "none"
      /\ jobs' = <<>> /\ clearing' = {} /\ notices' = {} /\ ~closing' /\ kept' = {}
  BY DEF QuitInv, Load, FirstId
<1>2. /\ MaxDbId \in Nat /\ nextDbId \in 1..(MaxDbId + 1) /\ row \in Rows
      /\ \A p \in Paths : row[p] \in Entry \cup {Gone} /\ row[p].id \in Nat
  BY <1>1, QueueAssumption, AnEntry, RowFields DEF Typed
<1>3. \A p \in Paths : row[p] # Gone => row[p].id \in 1..(nextDbId - 1)
  BY <1>1 DEF IdsApart, UsedBy
<1>4. \A p \in Paths : row[p].id <= MaxDbId
  BY <1>2, <1>3, RowFields
<1>5. FreeId(row) \in 1..(MaxDbId + 1) /\ \A p \in Paths : row[p].id < FreeId(row)
  BY <1>2, <1>4, FreeIdIsBeyond
<1>6. /\ entry' = [p \in Paths |-> entry'[p]]
      /\ \A p \in Paths : \/ entry'[p] = Gone
                          \/ /\ row[p] # Gone
                             /\ entry'[p] = [row[p] EXCEPT !.status = Resumed(row[p].status)]
  BY DEF Load
<1>7. \A p \in Paths : \/ entry'[p] = Gone
                       \/ row[p] # Gone /\ entry'[p] \in Entry /\ entry'[p].id = row[p].id
  <2>1. \A status : Resumed(status) \in Stages
    BY DEF Resumed, Stages
  <2>2. ASSUME NEW p \in Paths, entry'[p] # Gone
        PROVE  row[p] # Gone /\ entry'[p] \in Entry /\ entry'[p].id = row[p].id
    <3>1. row[p] \in Entry /\ entry'[p] = [row[p] EXCEPT !.status = Resumed(row[p].status)]
      BY <1>2, <1>6, <2>2
    <3>2. PICK t \in Stages : t = Resumed(row[p].status)
      BY <2>1
    <3>. QED
      BY <1>6, <2>2, <3>1, <3>2, RowFields
  <2>. QED
    BY <2>2
<1>8. entry' \in Rows
  BY <1>6, <1>7 DEF Rows
<1>9. jobs' \in Seq(Jobs) /\ DOMAIN jobs' = {}
  BY <1>1
<1>10. Typed'
  BY <1>1, <1>2, <1>5, <1>8, <1>9 DEF Typed
<1>11. \A p \in Paths : \A n : UsedBy(p, n)' => row[p] # Gone /\ row[p].id = n
  BY <1>1, <1>7, <1>9 DEF UsedBy, InQueue, WaitsWith
<1>12. IdsApart'
  <2>. DEFINE f == FreeId(row)
  <2>1. f \in 1..(MaxDbId + 1) /\ nextDbId' = f
    BY <1>1, <1>5
  <2>2. \A p \in Paths : row[p] # Gone => row[p].id \in 1..(f - 1)
    <3>. HIDE DEF f
    <3>1. \A p \in Paths : row[p].id < f
      BY <1>5 DEF f
    <3>. QED
      BY <1>2, <1>3, <2>1, <3>1
  <2>. HIDE DEF f
  <2>3. \A p, q \in Paths : \A n : UsedBy(p, n)' /\ UsedBy(q, n)' => p = q
    BY <1>1, <1>11 DEF IdsApart, UsedBy
  <2>4. \A p \in Paths : \A n : UsedBy(p, n)' => n \in 1..(nextDbId' - 1)
    BY <1>11, <2>1, <2>2
  <2>. QED
    BY <2>3, <2>4 DEF IdsApart
<1>13. KeptInv'
  BY <1>1, <1>7, <1>9 DEF KeptInv, NoTimerNoNews, InQueue, Deleted
<1>. QED
  BY <1>10, <1>12, <1>13 DEF QuitInv

LEMMA InitQuits == QueueStoreInit => QuitInv
<1>. SUFFICES ASSUME QueueStoreInit PROVE QuitInv
  OBVIOUS
<1>1. jobs \in Seq(Jobs) /\ DOMAIN jobs = {} /\ nextDbId \in 1..(MaxDbId + 1)
  BY QueueAssumption DEF QueueStoreInit
<1>2. Typed
  BY <1>1 DEF QueueStoreInit, Typed, Rows
<1>3. \A p \in Paths : ~InQueue(p) /\ \A n : ~UsedBy(p, n)
  BY <1>1 DEF QueueStoreInit, UsedBy, InQueue, WaitsWith
<1>. QED
  BY <1>2, <1>3 DEF QueueStoreInit, QuitInv, IdsApart, KeptInv, NoTimerNoNews

\* An orderly end leaves every gallery that can be saved in the table: each is
\* in a job that waits with no deletion behind it, and its id is refused by no
\* row, since the ids predicted are kept apart from those of other galleries.
THEOREM QuitsKeepTheQueue == QueueStoreSpec => []QuitKeepsQueue
<1>. DEFINE Q == habit = "images" => QuitInv
<1>1. QueueStoreInit => Q
  BY InitQuits
<1>2. Q /\ [QueueStoreNext]_queueStoreVars => Q'
  <2>. SUFFICES ASSUME Q, [QueueStoreNext]_queueStoreVars, habit' = "images" PROVE QuitInv'
    OBVIOUS
  <2>1. habit = "images" /\ QuitInv
    BY DEF QueueStoreNext, UserStep, ThreadStep, AddItem, ChangeItem, RemoveItem, ScanEnds,
           UploadBegins, UploadCompletes, UploadStops, Notice, RemoveMany, Restart, Crash, Load,
           BatchRemoved, SaveAfterBatch, TimerFires, WriterRuns, Shutdown, endVars, queueStoreVars
  <2>. HIDE DEF Q
  <2>2. ASSUME NEW q \in Paths, UserStep(q) PROVE QuitInv'
    BY <2>1, <2>2, AddItemQuits, LifeQuits, RemovalsQuit DEF UserStep
  <2>3. ASSUME NEW q \in Paths, ThreadStep(q) PROVE QuitInv'
    <3>1. ~Notice(q)
      BY <2>1 DEF Notice, QuitInv, Typed
    <3>. QED
      BY <2>1, <2>3, <3>1, LifeQuits DEF ThreadStep
  <2>4. ASSUME NEW P \in SUBSET Paths, RemoveMany(P) \/ Restart(P) \/ Crash(P) PROVE QuitInv'
    BY <2>1, <2>4, RemovalsQuit, LoadQuits DEF Restart, Crash
  <2>5. CASE BatchRemoved
    BY <2>1, <2>5, RemovalsQuit
  <2>6. CASE SaveAfterBatch \/ TimerFires
    BY <2>1, <2>6, SavesQuit
  <2>7. CASE WriterRuns
    BY <2>1, <2>7, WriterQuits
  <2>8. CASE Shutdown
    BY <2>1, <2>8, ShutdownQuits
  <2>9. CASE UNCHANGED queueStoreVars
    BY <2>1, <2>9 DEF queueStoreVars, dbVars, laterVars, endVars, QuitInv, Typed, IdsApart, UsedBy,
       InQueue, WaitsWith, KeptInv, NoTimerNoNews, EndsKept, Deleted
  <2>. QED
    BY <2>2, <2>3, <2>4, <2>5, <2>6, <2>7, <2>8, <2>9 DEF QueueStoreNext
<1>3. Q => QuitKeepsQueue
  <2>. SUFFICES ASSUME Q, closing, jobs = <<>>, habit = "images", NEW p \in kept PROVE row[p] # Gone
    BY DEF QuitKeepsQueue
  <2>1. EndsKept(p) /\ DOMAIN jobs = {}
    BY DEF QuitInv, KeptInv
  <2>. QED
    BY <2>1 DEF EndsKept
<1>. QED
  BY <1>1, <1>2, <1>3, PTL DEF QueueStoreSpec
=============================================================================
