---------------------------- MODULE UploadWorker ----------------------------
(***************************************************************************)
(* The thread that uploads galleries: UploadWorker of                      *)
(* processing/upload_workers.py with UploadEngine.run of core/engine.py.   *)
(*                                                                         *)
(* The images of a gallery are in an order that no step looks at.  The     *)
(* signals the thread emits wait in the event queue of the main thread.    *)
(***************************************************************************)
EXTENDS GalleryQueue

CONSTANTS
    BatchSize,      \* parallel_batch_size of the host
    MaxRetries,     \* max_retries of the host
    MaxSignals      \* bound: signals of the worker in the event queue

ASSUME WorkerAssumption == BatchSize \in Nat \ {0} /\ MaxRetries \in Nat

VARIABLES
    worker,         \* the thread
    soft,           \* _soft_stop_requested_for
    signals         \* what it emitted and the main thread has not handled

workerVars == <<worker, soft, signals>>

\* idle    between two galleries
\* taken   current_item is set, upload_gallery has not begun
\* early   gallery_started is emitted
\* run     UploadEngine.run is entered
\* pool    images are in flight
\* finish  the gallery's url and id are set
Pc == {"idle", "taken", "early", "run", "pool", "finish"}

\* g: current_item, which no step clears.  early: a stop was asked for before
\* the upload began.  base: initial_completed.  todo: remaining.  up and
\* failed: uploaded_images and failed_images.  succ and tot: the results.
Worker == [pc : Pc, g : Galleries \cup {None}, early : BOOLEAN, base : Nat,
           todo : SUBSET Images, flying : SUBSET Images, up : SUBSET Images,
           failed : SUBSET Images, pass : Nat, succ : Nat, tot : Nat]

Idle(g) == [pc |-> "idle", g |-> g, early |-> FALSE, base |-> 0, todo |-> {},
            flying |-> {}, up |-> {}, failed |-> {}, pass |-> 0, succ |-> 0, tot |-> 0]

WorkerInit == worker = Idle(None) /\ soft = None /\ signals = <<>>

-----------------------------------------------------------------------------
Accepted == Images \ Skipped        \* all_image_files
Current == item[worker.g]

Signal(kind, n, total) == [kind |-> kind, g |-> worker.g, n |-> n, total |-> total]

Room == Len(signals) < MaxSignals
Emit(kind, n, total) == signals' = Append(signals, Signal(kind, n, total))

SetPc(pc) == worker' = [worker EXCEPT !.pc = pc]

\* update_item_status and mark_upload_failed from the worker's thread.
Becomes(s) == item' = WithStatus(worker.g, s) /\ DebouncedElsewhere(worker.g)

Leaves == worker' = Idle(worker.g)

GivesUp_Unmarked ==
    /\ Room /\ Emit("failed", 0, 0)
    /\ Leaves
    /\ UNCHANGED <<item, saveVars, queue, scanVars, sent, soft>>

\* mark_upload_failed and gallery_failed, wherever the upload gives up.
GivesUp ==
    /\ Room /\ Emit("failed", 0, 0)
    /\ Becomes("upload_failed")
    /\ Leaves
    /\ UNCHANGED <<queue, scanVars, sent, soft>>

-----------------------------------------------------------------------------
(* The loop of run.                                                        *)

TakeItem ==
    /\ worker.pc = "idle" /\ queue # <<>>
    /\ item[Head(queue)].status = "queued"
    /\ queue' = Tail(queue)
    /\ worker' = [Idle(Head(queue)) EXCEPT !.pc = "taken"]
    /\ UNCHANGED <<item, scanVars, saveVars, sent, soft, signals>>

\* The entry of a gallery that is no longer queued.
Drop ==
    /\ worker.pc = "idle" /\ queue # <<>>
    /\ item[Head(queue)].status # "queued"
    /\ queue' = Tail(queue)
    /\ UNCHANGED <<item, scanVars, saveVars, sent, workerVars>>

\* Low disk space: the status is written again, the entry is gone.
LowDisk ==
    /\ "disk" \in Acts
    /\ worker.pc = "idle" /\ queue # <<>>
    /\ item[Head(queue)].status = "queued"
    /\ queue' = Tail(queue)
    /\ DebouncedElsewhere(Head(queue))
    /\ UNCHANGED <<item, scanVars, sent, workerVars>>

-----------------------------------------------------------------------------
(* upload_gallery, before the engine.                                      *)

\* No host is enabled, or it lacks credentials.
BeginFails == "nohost" \in Acts /\ worker.pc = "taken" /\ GivesUp

\* Whatever the gallery's status has become, it is now uploading.  A stop
\* asked for another gallery is forgotten.
Begin ==
    /\ worker.pc = "taken" /\ Room
    /\ worker' = [worker EXCEPT !.pc = "early", !.early = (soft = worker.g)]
    /\ soft' = None
    /\ Becomes("uploading")
    /\ Emit("started", 0, Current.total)
    /\ UNCHANGED <<queue, scanVars, sent>>

EarlyStop ==
    /\ worker.pc = "early" /\ worker.early
    /\ Becomes("incomplete")
    /\ Leaves
    /\ UNCHANGED <<queue, scanVars, sent, soft, signals>>

EnterEngine ==
    /\ worker.pc = "early" /\ ~worker.early
    /\ SetPc("run")
    /\ UNCHANGED <<queueVars, soft, signals>>

-----------------------------------------------------------------------------
(* UploadEngine.run.                                                       *)

FolderGone == "folder" \in Acts /\ worker.pc = "run" /\ GivesUp

\* The first batch goes to the pool, whether or not a stop is asked for.
Primed(w) ==
    \E batch \in SUBSET w.todo :
        /\ Cardinality(batch) = IF BatchSize <= Cardinality(w.todo) THEN BatchSize
                                ELSE Cardinality(w.todo)
        /\ worker' = [w EXCEPT !.pc = "pool", !.flying = batch, !.todo = @ \ batch]

Arrives(g, i) == sent' = [sent EXCEPT ![g][i] = IF @ < 2 THEN @ + 1 ELSE @]

Stored_Unrecorded(g, i) == item' = item /\ Arrives(g, i)

\* The host has stored an image; on_image_uploaded takes note of it.
Stored(g, i) == item' = [item EXCEPT ![g].done = @ \cup {i}] /\ Arrives(g, i)

\* A gallery with an id is resumed: uploaded_files are left out.
Left(it) == Accepted \ it.done

Resume ==
    /\ worker.pc = "run" /\ Current.gid /\ Room
    /\ Primed([worker EXCEPT !.todo = Left(Current), !.base = Cardinality(Current.done)])
    /\ Emit("progress", Cardinality(Current.done), Cardinality(Accepted))
    /\ UNCHANGED <<queueVars, soft>>

\* Without one, the first image creates the gallery.
CreateGallery ==
    /\ worker.pc = "run" /\ ~Current.gid /\ Room
    /\ \E i \in Left(Current) :
        /\ Stored(worker.g, i)
        /\ Primed([worker EXCEPT !.todo = Left(Current) \ {i}, !.base = 1])
    /\ Emit("progress", 1, Cardinality(Accepted))
    /\ UNCHANGED <<queue, scanVars, saveVars, soft>>

CreateFails == worker.pc = "run" /\ ~Current.gid /\ GivesUp

\* Only the first pass looks at the stop before it sends the next image.
StopsSending == worker.pass = 0 /\ soft = worker.g

\* The next image takes the place of the one that came back.
Submitted(w) ==
    IF w.todo = {} \/ StopsSending THEN worker' = w
    ELSE \E i \in w.todo : worker' = [w EXCEPT !.flying = @ \cup {i}, !.todo = @ \ {i}]

Progress(w) == Emit("progress", w.base + Cardinality(w.up), Cardinality(Accepted))

ImageUploaded(i) ==
    /\ worker.pc = "pool" /\ i \in worker.flying /\ Room
    /\ Stored(worker.g, i)
    /\ LET w == [worker EXCEPT !.flying = @ \ {i}, !.up = @ \cup {i}]
       IN  Progress(w) /\ Submitted(w)
    /\ UNCHANGED <<queue, scanVars, saveVars, soft>>

\* The host may have stored it all the same: what is lost is its answer.
ImageFails(i) ==
    /\ worker.pc = "pool" /\ i \in worker.flying /\ Room
    /\ sent' = sent \/ ("lostanswer" \in Acts /\ Arrives(worker.g, i))
    /\ LET w == [worker EXCEPT !.flying = @ \ {i}, !.failed = @ \cup {i}]
       IN  Progress(w) /\ Submitted(w)
    /\ UNCHANGED <<item, queue, scanVars, saveVars, soft>>

MayRetry == worker.failed # {} /\ worker.pass < MaxRetries /\ soft # worker.g

NextPass_Uncounted ==
    /\ worker.pc = "pool" /\ worker.flying = {} /\ MayRetry
    /\ Primed([worker EXCEPT !.todo = worker.failed, !.failed = {}])
    /\ UNCHANGED <<queueVars, soft, signals>>

NextPass ==
    /\ worker.pc = "pool" /\ worker.flying = {} /\ MayRetry
    /\ Primed([worker EXCEPT !.todo = worker.failed, !.failed = {}, !.pass = @ + 1])
    /\ UNCHANGED <<queueVars, soft, signals>>

-----------------------------------------------------------------------------
(* The results.                                                            *)

\* _merge_resume_results counts the files of all runs against those of the
\* folder, the refused ones included.
Successful == IF Current.done # {} THEN Cardinality(Current.done)
              ELSE worker.base + Cardinality(worker.up)
Total == IF Current.done # {} THEN Cardinality(Images) ELSE Cardinality(Accepted)

Report ==
    /\ worker.pc = "pool" /\ worker.flying = {} /\ ~MayRetry
    /\ LET stopped == soft = worker.g /\ Successful < Current.total
           s == IF stopped THEN "incomplete" ELSE Current.status
       IN  /\ item' = [item EXCEPT ![worker.g].gid = TRUE, ![worker.g].status = s]
           /\ IF stopped THEN DebouncedElsewhere(worker.g) /\ Leaves
              ELSE /\ NotSaved
                   /\ worker' = [worker EXCEPT !.pc = "finish", !.succ = Successful,
                                               !.tot = Total]
    /\ UNCHANGED <<queue, scanVars, sent, soft, signals>>

Outcome_IgnoresFailures ==
    IF worker.succ = 0 /\ worker.tot > 0 THEN "upload_failed" ELSE "completed"

Outcome ==
    IF worker.failed # {} /\ worker.succ > 0 THEN "upload_failed"
    ELSE IF worker.succ < worker.tot /\ worker.failed = {} THEN "incomplete"
    ELSE IF worker.succ = 0 /\ worker.tot > 0 THEN "upload_failed"
    ELSE "completed"

\* Only a completed gallery is saved at once.
Finish ==
    /\ worker.pc = "finish" /\ Room
    /\ item' = WithStatus(worker.g, Outcome)
    /\ IF Outcome = "completed" THEN SavedAtOnce(worker.g, item'[worker.g])
       ELSE DebouncedElsewhere(worker.g)
    /\ Emit("completed", worker.succ, worker.tot)
    /\ Leaves
    /\ UNCHANGED <<queue, scanVars, sent, soft>>

-----------------------------------------------------------------------------
Image(i) == ImageUploaded(i) \/ ImageFails(i)

WorkerStep ==
    \/ TakeItem \/ Drop \/ LowDisk
    \/ BeginFails \/ Begin \/ EarlyStop \/ EnterEngine
    \/ FolderGone \/ Resume \/ CreateGallery \/ CreateFails
    \/ (\E i \in Images : Image(i)) \/ NextPass
    \/ Report \/ Finish

\* stop_single_item, for the gallery the worker took last.
StopItem(g) ==
    /\ "stop" \in Acts
    /\ worker.g = g
    /\ soft' = g
    /\ item' = WithStatus(g, "incomplete")
    /\ Debounced(g)
    /\ UNCHANGED <<queue, scanVars, sent, worker, signals>>
=============================================================================
