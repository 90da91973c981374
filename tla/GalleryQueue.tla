---------------------------- MODULE GalleryQueue ----------------------------
(***************************************************************************)
(* The gallery queue of storage/queue_manager.py: what the program keeps   *)
(* of each gallery, the queue of the upload worker, the scan thread, the   *)
(* debounced saves and the database row a restart starts from.             *)
(*                                                                         *)
(* The folders do not change: every gallery has the files Images, of which *)
(* the image host refuses Skipped as too large.                            *)
(***************************************************************************)
EXTENDS Integers, Sequences, FiniteSets

CONSTANTS
    Galleries,      \* paths of the galleries
    Images,         \* image files of each
    Skipped,        \* those over the size limit of the host
    AutoStart,      \* the setting auto_start_upload
    Acts,           \* what may happen besides starting and uploading
    None,
    MaxQueue,       \* bound: entries of the worker's queue
    MaxScans,       \* bound: entries of the scan queue
    MaxWrites       \* bound: saves handed to the writer thread

ActNames == {"cancel", "retry", "reset", "rescan", "stop", "disk", "nohost",
             "folder", "lostanswer", "crash"}

ASSUME ImagesAssumption == IsFiniteSet(Images) /\ Images # {} /\ Skipped \subseteq Images
ASSUME ActsAssumption == Acts \subseteq ActNames /\ AutoStart \in BOOLEAN
ASSUME NoneAssumption == None \notin Galleries

VARIABLES
    item,       \* QueueManager.items
    queue,      \* QueueManager.queue
    scans,      \* QueueManager._scan_queue
    scanning,   \* the gallery the scan thread is measuring
    late,       \* galleries that a timer of reset_gallery_complete will set ready
    timer,      \* the gallery of _pending_save_timer
    writes,     \* saves in the executor of QueueStore
    saved,      \* the galleries table
    sent        \* how often the host has stored an image for this gallery

queueVars == <<item, queue, scans, scanning, late, timer, writes, saved, sent>>
saveVars == <<timer, writes, saved>>
scanVars == <<scans, scanning, late>>

Status == {"ready", "queued", "uploading", "completed", "incomplete",
           "failed", "upload_failed", "scanning", "scan_failed"}

\* gid: the gallery has an id at the host.  done: uploaded_files.
\* counted: uploaded_images, which the main thread sets from signals.
Item == [status : Status, gid : BOOLEAN, done : SUBSET Images, counted : Nat, total : Nat]
Row == [status : Status, gid : BOOLEAN, counted : Nat]
Save == [g : Galleries, row : Row]

RowOf(it) == [status |-> it.status, gid |-> it.gid, counted |-> it.counted]

QueueInit ==
    /\ item = [g \in Galleries |-> [status |-> "ready", gid |-> FALSE, done |-> {},
                                    counted |-> 0, total |-> Cardinality(Images)]]
    /\ queue = <<>> /\ scans = <<>> /\ scanning = None /\ late = {}
    /\ timer = None /\ writes = <<>>
    /\ saved = [g \in Galleries |-> RowOf(item[g])]
    /\ sent = [g \in Galleries |-> [i \in Images |-> 0]]

-----------------------------------------------------------------------------
(* Saving.  Only a restart reads what was saved, so that without crashes   *)
(* no timer is kept.                                                       *)

Pending(g) == IF "crash" \in Acts THEN g ELSE None

\* A new timer replaces the pending one, and with it the path it had.
Debounced(g) == timer' = Pending(g) /\ UNCHANGED <<writes, saved>>

\* Off the main thread the call is put off by a timer of the calling thread,
\* which need not have an event loop to run it.
DebouncedElsewhere(g) == timer' \in {timer, Pending(g)} /\ UNCHANGED <<writes, saved>>

SavedAtOnce(g, it) == saved' = [saved EXCEPT ![g] = RowOf(it)] /\ UNCHANGED <<timer, writes>>

NotSaved == UNCHANGED saveVars

\* save_persistent_queue leaves a gallery out that is uploading.
TimerFires ==
    /\ timer # None /\ Len(writes) < MaxWrites
    /\ timer' = None
    /\ writes' = IF item[timer].status = "uploading" THEN writes
                 ELSE Append(writes, [g |-> timer, row |-> RowOf(item[timer])])
    /\ UNCHANGED <<item, queue, scanVars, saved, sent>>

WriterWrites ==
    /\ writes # <<>>
    /\ saved' = [saved EXCEPT ![Head(writes).g] = Head(writes).row]
    /\ writes' = Tail(writes)
    /\ UNCHANGED <<item, queue, scanVars, timer, sent>>

-----------------------------------------------------------------------------
(* What the user does with a gallery.                                      *)

WithStatus(g, s) == [item EXCEPT ![g].status = s]

Put_Forgotten(g) == queue' = queue
Put(g) == queue' = Append(queue, g)

StartItem(g) ==
    /\ item[g].status \in {"ready", "incomplete"}
    /\ Len(queue) < MaxQueue
    /\ item' = WithStatus(g, "queued")
    /\ Put(g)
    /\ Debounced(g)
    /\ UNCHANGED <<scanVars, sent>>

\* The entry stays in the queue; the worker drops it.
CancelItem(g) ==
    /\ "cancel" \in Acts
    /\ item[g].status = "queued"
    /\ item' = WithStatus(g, "ready")
    /\ Debounced(g)
    /\ UNCHANGED <<queue, scanVars, sent>>

PauseAll ==
    /\ "cancel" \in Acts
    /\ \E g \in Galleries : item[g].status = "queued"
    /\ item' = [g \in Galleries |->
                   IF item[g].status = "queued" THEN [item[g] EXCEPT !.status = "ready"]
                   ELSE item[g]]
    /\ NotSaved
    /\ UNCHANGED <<queue, scanVars, sent>>

RetryFailed(g) ==
    /\ "retry" \in Acts
    /\ item[g].status \in {"failed", "upload_failed"}
    /\ item' = [item EXCEPT ![g] =
           IF @.gid /\ @.counted > 0 THEN [@ EXCEPT !.status = "incomplete"]
           ELSE [@ EXCEPT !.status = "ready", !.counted = 0]]
    /\ Debounced(g)
    /\ UNCHANGED <<queue, scanVars, sent>>

\* All upload state is cleared; the scan starts twice, once through the
\* scan queue and once as a timer that only marks the gallery ready.
ResetGallery(g) ==
    /\ "reset" \in Acts
    /\ Len(scans) < MaxScans
    /\ item' = [item EXCEPT ![g] = [status |-> "scanning", gid |-> FALSE, done |-> {},
                                    counted |-> 0, total |-> 0]]
    /\ scans' = Append(scans, g)
    /\ late' = late \cup {g}
    /\ UNCHANGED <<queue, scanning, saveVars, sent>>

Rescan(g) ==
    /\ "rescan" \in Acts
    /\ item[g].status \notin {"queued", "uploading"}
    /\ Len(scans) < MaxScans
    /\ scans' = Append(scans, g)
    /\ UNCHANGED <<item, queue, scanning, late, saveVars, sent>>

-----------------------------------------------------------------------------
(* The scan thread, and the timer of a reset.                              *)

\* _add_to_scan_queue finds no scan_queue and marks the gallery ready.
LateReady ==
    \E g \in late :
        /\ late' = late \ {g}
        /\ item' = WithStatus(g, "ready")
        /\ Debounced(g)
        /\ UNCHANGED <<queue, scans, scanning, sent>>

\* The scan takes a gallery in whatever state it is.
ScanBegin ==
    /\ scans # <<>> /\ scanning = None
    /\ scans' = Tail(scans)
    /\ scanning' = Head(scans)
    /\ item' = [item EXCEPT ![Head(scans)].status = "scanning",
                            ![Head(scans)].total = Cardinality(Images)]
    /\ NotSaved
    /\ UNCHANGED <<queue, late, sent>>

\* The save of the result hangs on a timer of the scan thread, which runs none.
ScanFinds ==
    /\ scanning # None
    /\ scanning' = None
    /\ IF item[scanning].status # "scanning"
       THEN UNCHANGED <<item, queue>>
       ELSE IF AutoStart
            THEN Len(queue) < MaxQueue /\ item' = WithStatus(scanning, "queued") /\ Put(scanning)
            ELSE item' = WithStatus(scanning, "ready") /\ UNCHANGED queue
    /\ NotSaved
    /\ UNCHANGED <<scans, late, sent>>

\* Unreadable images, or an error.
ScanFails ==
    /\ scanning # None
    /\ scanning' = None
    /\ \E s \in {"failed", "scan_failed"} : item' = WithStatus(scanning, s)
    /\ DebouncedElsewhere(scanning)
    /\ UNCHANGED <<queue, scans, late, sent>>

Scan == ScanBegin \/ ScanFinds \/ ScanFails

-----------------------------------------------------------------------------
(* A restart: what is in memory is gone, what was saved is loaded.  The    *)
(* uploaded files of a gallery are not: load_all_items returns none.       *)

Loaded(row) ==
    [status |-> IF row.status \in {"queued", "uploading", "scanning"} THEN "ready"
                ELSE row.status,
     gid |-> row.gid, done |-> {}, counted |-> row.counted,
     total |-> Cardinality(Images)]

Reload ==
    /\ item' = [g \in Galleries |-> Loaded(saved[g])]
    /\ queue' = <<>> /\ scans' = <<>> /\ scanning' = None /\ late' = {}
    /\ timer' = None /\ writes' = <<>>
    /\ UNCHANGED saved
=============================================================================
