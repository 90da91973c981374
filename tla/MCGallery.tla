------------------------------- MODULE MCGallery -------------------------------
(***************************************************************************)
(* Two courses of the gallery upload for TLC.  Together they would be too  *)
(* many states.                                                            *)
(***************************************************************************)
EXTENDS GalleryUpload

VARIABLE course     \* what happens besides uploading

MCInit == Init /\ course \in {"restarts", "rescans"}

Rests == UNCHANGED <<workerVars, batch>>

\* The process may die at any step, and nobody resets or rescans a gallery.
Restarts ==
    \/ (\E g \in Galleries : StartItem(g) \/ RetryFailed(g)) /\ Rests
    \/ Scan /\ Rests
    \/ (TimerFires \/ WriterWrites) /\ Rests
    \/ WorkerStep /\ UNCHANGED batch
    \/ MainThread
    \/ Crash

\* Scans, resets and cancels run into the upload.
Rescans ==
    \/ (\E g \in Galleries : User(g)) /\ Rests
    \/ PauseAll /\ Rests
    \/ Scan /\ Rests
    \/ LateReady /\ Rests
    \/ WorkerStep /\ UNCHANGED batch
    \/ MainThread

MCNext ==
    /\ \/ course = "restarts" /\ Restarts
       \/ course = "rescans" /\ Rescans
    /\ UNCHANGED course

MCSpec == MCInit /\ [][MCNext]_<<vars, course>>

-----------------------------------------------------------------------------

\* Where nothing is reset: wherever the process dies and whatever save is pending,
\* no gallery is called completed without its images.
CompletedOverRestarts == course = "restarts" => CompletedIsComplete
=============================================================================
