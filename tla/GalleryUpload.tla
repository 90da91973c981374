--------------------------- MODULE GalleryUpload ---------------------------
(***************************************************************************)
(* The galleries, the upload worker and the main thread together: the      *)
(* handlers of gui/upload_lifecycle_handler.py and the batcher of          *)
(* processing/tasks.py write the status of a gallery too.                  *)
(***************************************************************************)
EXTENDS UploadWorker

VARIABLE batch      \* ProgressUpdateBatcher._pending_updates

vars == <<queueVars, workerVars, batch>>

\* What is pending of a gallery is its latest update: none, or whether it had
\* all images or 100 percent.
Update == {"none", "some", "final"}

Init == QueueInit /\ WorkerInit /\ batch = [g \in Galleries |-> "none"]

-----------------------------------------------------------------------------
(* The main thread.                                                        *)

BatchUpdate(g, final) == batch' = [batch EXCEPT ![g] = IF final THEN "final" ELSE "some"]

\* on_gallery_started
Started(s) ==
    /\ item' = [item EXCEPT ![s.g].total = s.total, ![s.g].counted = 0]
    /\ UNCHANGED batch

\* on_progress_updated
Progressed(s) ==
    /\ item' = [item EXCEPT ![s.g].counted = s.n, ![s.g].total = s.total]
    /\ BatchUpdate(s.g, s.n >= s.total)

\* on_gallery_completed
Completed(s) ==
    LET total == IF s.total = 0 THEN item[s.g].total ELSE s.total
        success == s.total = 0 \/ s.n >= s.total
    IN  /\ item' = [item EXCEPT ![s.g] = [@ EXCEPT
                      !.status = IF success THEN "completed" ELSE "failed",
                      !.counted = s.n, !.total = total, !.gid = TRUE]]
        /\ BatchUpdate(s.g, TRUE)

\* on_gallery_failed
Failed(s) == item' = WithStatus(s.g, "failed") /\ UNCHANGED batch

HandleSignal ==
    /\ signals # <<>>
    /\ signals' = Tail(signals)
    /\ LET s == Head(signals)
       IN  \/ s.kind = "started" /\ Started(s)
           \/ s.kind = "progress" /\ Progressed(s)
           \/ s.kind = "completed" /\ Completed(s)
           \/ s.kind = "failed" /\ Failed(s)
    /\ NotSaved
    /\ UNCHANGED <<queue, scanVars, sent, worker, soft>>

FlushBatch_TrustsFinal ==
    /\ \E g \in Galleries : batch[g] # "none"
    /\ batch' = [g \in Galleries |-> "none"]
    /\ item' = [g \in Galleries |->
           IF batch[g] = "final" THEN [item[g] EXCEPT !.status = "completed"] ELSE item[g]]
    /\ NotSaved
    /\ UNCHANGED <<queue, scanVars, sent, workerVars>>

\* The batch sets the status from the counts the gallery has by now.
FlushBatch ==
    /\ \E g \in Galleries : batch[g] # "none"
    /\ batch' = [g \in Galleries |-> "none"]
    /\ item' = [g \in Galleries |->
           IF batch[g] = "final"
           THEN [item[g] EXCEPT !.status =
                    IF item[g].counted < item[g].total THEN "failed" ELSE "completed"]
           ELSE item[g]]
    /\ NotSaved
    /\ UNCHANGED <<queue, scanVars, sent, workerVars>>

MainThread == HandleSignal \/ FlushBatch

-----------------------------------------------------------------------------
(* The process dies; the images in flight may have arrived.                *)

Crash ==
    /\ "crash" \in Acts
    /\ Reload
    /\ \E arrived \in SUBSET worker.flying :
           sent' = [g \in Galleries |-> [i \in Images |->
                       IF g = worker.g /\ i \in arrived /\ sent[g][i] < 2
                       THEN sent[g][i] + 1 ELSE sent[g][i]]]
    /\ worker' = Idle(None) /\ soft' = None /\ signals' = <<>>
    /\ batch' = [g \in Galleries |-> "none"]

-----------------------------------------------------------------------------
User(g) == StartItem(g) \/ CancelItem(g) \/ RetryFailed(g) \/ ResetGallery(g) \/ Rescan(g)

\* What happens while one process runs, and nobody resets a gallery: what is saved
\* then has no reader.
Steps ==
    \/ (\E g \in Galleries : User(g)) /\ UNCHANGED <<workerVars, batch>>
    \/ PauseAll /\ UNCHANGED <<workerVars, batch>>
    \/ (\E g \in Galleries : StopItem(g)) /\ UNCHANGED batch
    \/ Scan /\ UNCHANGED <<workerVars, batch>>
    \/ WorkerStep /\ UNCHANGED batch
    \/ MainThread

\* Resets have a second half, saves happen when a timer fires, and a process may die.
Next ==
    \/ Steps
    \/ LateReady /\ UNCHANGED <<workerVars, batch>>
    \/ (TimerFires \/ WriterWrites) /\ UNCHANGED <<workerVars, batch>>
    \/ Crash

Spec == Init /\ [][Next]_vars

\* Without "reset" and "crash" in Acts it is Spec.
SteadySpec == Init /\ [][Steps]_vars

\* The worker's thread loops until it is told to stop, every request to a host
\* has a timeout, and the main thread serves its event queue.
Fairness ==
    /\ WF_vars(WorkerStep /\ UNCHANGED batch)
    /\ WF_vars(HandleSignal)
    /\ WF_vars(FlushBatch)

FairSpec == SteadySpec /\ Fairness

-----------------------------------------------------------------------------
(* Properties.                                                             *)

ItemsOK == item \in [Galleries -> Item]

QueuesOK ==
    /\ queue \in Seq(Galleries) /\ scans \in Seq(Galleries)
    /\ scanning \in Galleries \cup {None} /\ late \in SUBSET Galleries

SavesOK ==
    /\ timer \in Galleries \cup {None}
    /\ writes \in Seq(Save)
    /\ saved \in [Galleries -> Row]

SentOK == sent \in [Galleries -> [Images -> 0 .. 2]]

WorkerOK ==
    /\ worker \in Worker /\ soft \in Galleries \cup {None}
    /\ worker.pc # "idle" => worker.g # None

SignalSet == [kind : {"started", "progress", "completed", "failed"},
              g : Galleries, n : Nat, total : Nat]

SignalsOK ==
    /\ signals \in Seq(SignalSet)
    /\ batch \in [Galleries -> Update]

\* The values every variable may have, and a busy worker has a gallery.
TypeOK == ItemsOK /\ QueuesOK /\ SavesOK /\ SentOK /\ WorkerOK /\ SignalsOK

\* A gallery shown as queued has an entry in the worker's queue, or the worker
\* has just taken it: however it was cancelled, started again, stopped or
\* rescanned meanwhile, its turn will come.
QueuedIsInQueue ==
    \A g \in Galleries : item[g].status = "queued" =>
        \/ \E k \in 1 .. Len(queue) : queue[k] = g
        \/ worker.g = g /\ worker.pc = "taken"

\* A gallery shown as uploading is the one the worker is at.  No late signal
\* and no restart leaves one that uploads for good.
UploadingIsHeld ==
    \A g \in Galleries : item[g].status = "uploading" =>
        worker.g = g /\ worker.pc \notin {"idle", "taken"}

\* A gallery that is completed, in memory or in the database, has all its
\* images at the host; the batcher and the completed signal judge from counts.
CompletedIsComplete ==
    \A g \in Galleries :
        item[g].status = "completed" \/ saved[g].status = "completed" =>
            \A i \in Accepted : sent[g][i] > 0

\* When everything has come to rest, a gallery is completed exactly if all its
\* images are uploaded, although worker, signals and batcher each set the
\* status and a signal of an earlier try may come late.
SettledIsTrue ==
    worker.pc = "idle" /\ signals = <<>> /\ (\A g \in Galleries : batch[g] = "none") =>
        \A g \in Galleries :
            (item[g].status = "completed") <=> (item[g].done = Images)

\* An image is either at the host and in uploaded_files, or still to be sent,
\* in flight or failed, and only one of them: none is lost between the passes.
ImagesAccounted ==
    worker.pc \in {"pool", "finish"} =>
        /\ Accepted = Current.done \cup worker.todo \cup worker.flying \cup worker.failed
        /\ Current.done \cap (worker.todo \cup worker.flying \cup worker.failed) = {}

\* The host stores an image of a gallery once, over all retries and resumes.
StoredOnce == \A g \in Galleries, i \in Images : sent[g][i] <= 1

\* What is delivered are the images the host accepts.
Delivery == INSTANCE ImageDelivery WITH
    Images <- Accepted,
    stored <- [g \in Galleries |-> [i \in Accepted |-> sent[g][i]]],
    complete <- {g \in Galleries : item[g].status = "completed"}

\* The upload implements ImageDelivery: an image reaches the host once, over
\* stops, failures, retries and resumes, and the worker, a late signal or a
\* late batch call a gallery completed only when all its images have arrived.
KeepsDelivery == Delivery!Spec

\* Every upload comes to an end: the passes over failed images are bounded.
UploadsEnd == worker.pc # "idle" ~> worker.pc = "idle"

\* A queued gallery does not stay queued.
QueuedIsTaken ==
    \A g \in Galleries : item[g].status = "queued" ~> item[g].status # "queued"
=============================================================================
