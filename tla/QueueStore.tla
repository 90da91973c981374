------------------------------ MODULE QueueStore ------------------------------
(***************************************************************************)
(* What of the gallery queue outlives the process: the items of            *)
(* storage/queue_manager.py with the ids it predicts for their rows, its   *)
(* saves, the single writer thread of QueueStore, the galleries table of   *)
(* storage/database.py, removals, shutdown and restart.  Of an upload only *)
(* what it saves is here; the rest is GalleryUpload.                       *)
(***************************************************************************)
EXTENDS Integers, Sequences, FiniteSets

CONSTANTS
    Paths,          \* the folders of galleries
    MaxDbId,        \* bound on the ids predicted
    MaxJobs         \* bound on the jobs handed to the writer thread

ASSUME QueueAssumption ==
    /\ IsFiniteSet(Paths) /\ MaxDbId \in Nat /\ MaxJobs \in Nat
    /\ {"none", "fired"} \cap Paths = {}      \* Paths are absolute

NoDbId == 0
Gone == [status |-> "gone", id |-> NoDbId]

\* What a save or a restart makes of a status: "waiting" stands for all that are
\* saved and begin anew, from scanning to queued, incomplete and failed.
Stages == {"validating", "waiting", "uploading", "completed"}
Entry == [status : Stages, id : Nat]

\* Folders of images; with videos among them; file hosts triggered when a gallery
\* is added; when its upload has begun or is complete.
Habits == {"images", "videos", "hosts at once", "hosts later"}

VARIABLES
    entry,          \* QueueManager.items: [status, id] of each path, or Gone
    nextDbId,       \* _next_db_id
    saveTimer,      \* _pending_save_timer: the path it saves, "none" or "fired"
    jobs,           \* the executor of QueueStore, one thread
    row,            \* the galleries table: [status, id] of each path, or Gone
    clearing,       \* removed paths that a batch still takes out of the table widget
    saveAll,        \* the save that follows it
    notices,        \* galleries whose started or completed signal is on its way
    closing,        \* shutdown has saved the queue
    habit,          \* what the user adds and when file hosts are triggered
    removed,        \* history: paths the user has removed and not added again
    kept            \* history: what shutdown had to save

dbVars == <<jobs, row>>
laterVars == <<clearing, saveAll, notices>>
endVars == <<closing, habit>>
queueStoreVars == <<entry, nextDbId, saveTimer, dbVars, laterVars, endVars, removed, kept>>

InQueue(p) == entry[p] # Gone
In(p, stages) == entry[p].status \in stages

QueueStoreInit ==
    /\ entry = [p \in Paths |-> Gone] /\ row = [p \in Paths |-> Gone]
    /\ nextDbId = 1 /\ saveTimer = "none" /\ jobs = <<>>
    /\ clearing = {} /\ saveAll = FALSE /\ notices = {} /\ closing = FALSE
    /\ habit \in Habits
    /\ removed = {} /\ kept = {}

-----------------------------------------------------------------------------
(* The table.                                                              *)

\* The id that SQLite gives to a row which comes without one, and that
\* load_persistent_queue starts to predict from.
FreeId(table) == CHOOSE n \in 1..(MaxDbId + 2) :
    (\A p \in Paths : table[p].id < n) /\ (n = 1 \/ \E p \in Paths : table[p].id = n - 1)

\* The INSERT of _upsert_gallery_row: one whose id is taken fails.
Inserted(table, s) ==
    CASE s.id = NoDbId -> [status |-> s.status, id |-> FreeId(table)]
      [] s.id # NoDbId /\ (\E p \in Paths : table[p].id = s.id) -> Gone
      [] OTHER -> [status |-> s.status, id |-> s.id]

\* A row of the same path is updated and keeps its id, whatever the save's.
Upserted(table, saves) == [p \in Paths |->
    IF \A t \in saves : t.path # p THEN table[p]
    ELSE LET s == CHOOSE s \in saves : s.path = p
         IN  IF table[p] # Gone THEN [table[p] EXCEPT !.status = s.status]
             ELSE Inserted(table, s)]

\* add_file_host_upload makes the row of a gallery that has none.
WithRow(p) ==
    IF row[p] # Gone THEN row ELSE [row EXCEPT ![p] = [status |-> "waiting", id |-> FreeId(row)]]

SaveOf(p) == [path |-> p, status |-> entry[p].status, id |-> entry[p].id]

\* save_persistent_queue leaves out what is being validated or uploaded.
Savable == {p \in Paths : InQueue(p) /\ ~In(p, {"validating", "uploading"})}
SavesOf(P) == [saves |-> {SaveOf(p) : p \in P \cap Savable}, deletes |-> {}]
DeletesOf(P) == [saves |-> {}, deletes |-> P]

Submit(job) == Len(jobs) < MaxJobs /\ jobs' = Append(jobs, job)

WriterRuns ==
    /\ jobs # <<>> /\ jobs' = Tail(jobs)
    /\ row' = [p \in Paths |-> IF p \in Head(jobs).deletes THEN Gone
                               ELSE Upserted(row, Head(jobs).saves)[p]]
    /\ UNCHANGED <<entry, nextDbId, saveTimer, laterVars, endVars, removed, kept>>

-----------------------------------------------------------------------------
(* The life of a gallery.                                                  *)

SetStatus(p, status) == entry' = [entry EXCEPT ![p].status = status]

\* A new timer replaces the pending one, and with it the path it had.
Debounced(p) == saveTimer' = p

\* Called off the main thread it is put off to a timer of that thread, which
\* need not have an event loop to run it.
DebouncedElsewhere(p) == saveTimer' \in {saveTimer, p}

\* add_item, and for a video _apply_media_type, whose save has no id.
AddItem(p) ==
    /\ ~closing /\ ~InQueue(p) /\ nextDbId <= MaxDbId
    /\ entry' = [entry EXCEPT ![p] = [status |-> "validating", id |-> nextDbId]]
    /\ nextDbId' = nextDbId + 1
    /\ Debounced(p)
    /\ row' = IF habit = "hosts at once" THEN WithRow(p) ELSE row
    /\ \/ habit = "videos" /\ Submit([saves |-> {[path |-> p, status |-> "validating", id |-> NoDbId]},
                                   deletes |-> {}])
       \/ UNCHANGED jobs
    /\ removed' = removed \ {p}
    /\ UNCHANGED <<laterVars, endVars, kept>>

\* save_and_refresh needs an event loop that the scan thread may not have.
ScanEnds(p) ==
    /\ In(p, {"validating"}) /\ SetStatus(p, "waiting")
    /\ \/ Submit([saves |-> {[SaveOf(p) EXCEPT !.status = "waiting"]}, deletes |-> {}])
       \/ UNCHANGED jobs
    /\ UNCHANGED <<nextDbId, saveTimer, row, laterVars, endVars, removed, kept>>

\* start_item, cancel, retry, rename and every other change to a gallery at rest.
ChangeItem(p) ==
    /\ ~closing /\ In(p, {"waiting", "completed"})
    /\ SetStatus(p, "waiting") \/ UNCHANGED entry
    /\ Debounced(p)
    /\ UNCHANGED <<nextDbId, dbVars, laterVars, endVars, removed, kept>>

\* Its signal queues the hosts triggered by a start, that of the end those
\* triggered by the completion.
Announced(p) == notices' = IF habit = "hosts later" THEN notices \cup {p} ELSE notices

UploadBegins(p) ==
    /\ In(p, {"waiting"}) /\ SetStatus(p, "uploading")
    /\ DebouncedElsewhere(p) /\ Announced(p)
    /\ UNCHANGED <<nextDbId, dbVars, clearing, saveAll, endVars, removed, kept>>

\* update_item_status writes a completion at once, past the jobs that wait.
UploadCompletes(p) ==
    /\ In(p, {"uploading"}) /\ SetStatus(p, "completed")
    /\ row' = Upserted(row, {[SaveOf(p) EXCEPT !.status = "completed"]})
    /\ Announced(p)
    /\ UNCHANGED <<nextDbId, saveTimer, jobs, clearing, saveAll, endVars, removed, kept>>

UploadStops(p) ==
    /\ In(p, {"uploading"}) /\ SetStatus(p, "waiting")
    /\ DebouncedElsewhere(p)
    /\ UNCHANGED <<nextDbId, dbVars, laterVars, endVars, removed, kept>>

Notice(p) ==
    /\ p \in notices /\ notices' = notices \ {p}
    /\ FreeId(row) <= MaxDbId /\ row' = WithRow(p)
    /\ UNCHANGED <<entry, nextDbId, saveTimer, jobs, clearing, saveAll, endVars, removed, kept>>

-----------------------------------------------------------------------------
(* Saves and removals on the main thread.                                  *)

TimerFires ==
    /\ saveTimer \in Paths /\ saveTimer' = "fired" /\ Submit(SavesOf({saveTimer}))
    /\ UNCHANGED <<entry, nextDbId, row, laterVars, endVars, removed, kept>>

\* Mutant: the row is deleted here and now.
RemoveItem_AtOnce(p) ==
    /\ ~closing /\ InQueue(p) /\ ~In(p, {"uploading"})
    /\ entry' = [entry EXCEPT ![p] = Gone] /\ removed' = removed \cup {p}
    /\ row' = [row EXCEPT ![p] = Gone]
    /\ UNCHANGED <<nextDbId, saveTimer, jobs, laterVars, endVars, kept>>

RemoveItem(p) ==
    /\ ~closing /\ InQueue(p) /\ ~In(p, {"uploading"})
    /\ entry' = [entry EXCEPT ![p] = Gone] /\ removed' = removed \cup {p}
    /\ Submit(DeletesOf({p}))
    /\ UNCHANGED <<nextDbId, saveTimer, row, laterVars, endVars, kept>>

\* clear_completed and delete_selected_items delete the rows only when the
\* widget has been cleared.  One such batch at a time.
RemoveMany(P) ==
    /\ ~closing /\ clearing = {} /\ P # {}
    /\ \A p \in P : InQueue(p) /\ ~In(p, {"uploading"})
    /\ entry' = [p \in Paths |-> IF p \in P THEN Gone ELSE entry[p]]
    /\ removed' = removed \cup P /\ clearing' = P
    /\ UNCHANGED <<nextDbId, saveTimer, dbVars, saveAll, notices, endVars, kept>>

BatchRemoved ==
    /\ clearing # {} /\ clearing' = {} /\ saveAll' = TRUE
    /\ Submit(DeletesOf(clearing))
    /\ UNCHANGED <<entry, nextDbId, saveTimer, row, notices, endVars, removed, kept>>

SaveAfterBatch ==
    /\ saveAll /\ saveAll' = FALSE /\ Submit(SavesOf(Paths))
    /\ UNCHANGED <<entry, nextDbId, saveTimer, row, clearing, notices, endVars, removed, kept>>

-----------------------------------------------------------------------------
(* The end of a process and the start of the next.                         *)

\* Everything is saved if a timer was ever made.  Galleries that are being
\* uploaded go on until the worker is stopped.
Shutdown ==
    /\ ~closing /\ closing' = TRUE /\ saveTimer' = "none"
    /\ IF saveTimer = "none" THEN UNCHANGED jobs ELSE Submit(SavesOf(Paths))
    /\ kept' = Savable \ clearing
    /\ UNCHANGED <<entry, nextDbId, row, laterVars, habit, removed>>

Resumed(status) ==
    IF status = "completed" THEN "completed" ELSE "waiting"

\* Mutant: only what is loaded counts.
FirstId_Loaded(missing) == FreeId([p \in Paths |->
    IF p \in missing /\ row[p].status # "completed" THEN Gone ELSE row[p]])

\* get_max_gallery_id counts the rows too that are not loaded.
FirstId(missing) == FreeId(row)

\* load_persistent_queue skips a gallery without its folder unless it is completed.
Load(missing) ==
    /\ entry' = [p \in Paths |->
           IF row[p] = Gone \/ (p \in missing /\ row[p].status # "completed") THEN Gone
           ELSE [row[p] EXCEPT !.status = Resumed(@)]]
    /\ nextDbId' = FirstId(missing)
    /\ saveTimer' = "none" /\ jobs' = <<>> /\ clearing' = {} /\ saveAll' = FALSE
    /\ notices' = {} /\ closing' = FALSE /\ kept' = {}
    /\ UNCHANGED <<row, habit>>

\* The writer thread ends with its last job; a batch that had not come to its
\* end deletes nothing.
Restart(missing) ==
    /\ closing /\ jobs = <<>>
    /\ Load(missing) /\ removed' = removed \ clearing

Crash(missing) == Load(missing) /\ removed' = {p \in removed : row[p] = Gone}

UserStep(p) == AddItem(p) \/ ChangeItem(p) \/ RemoveItem(p)
ThreadStep(p) ==
    \/ ScanEnds(p) \/ UploadBegins(p) \/ UploadCompletes(p) \/ UploadStops(p) \/ Notice(p)

QueueStoreNext ==
    \/ \E p \in Paths : UserStep(p) \/ ThreadStep(p)
    \/ \E P \in SUBSET Paths : RemoveMany(P) \/ Restart(P) \/ Crash(P)
    \/ BatchRemoved \/ SaveAfterBatch \/ TimerFires \/ WriterRuns \/ Shutdown

QueueStoreSpec == QueueStoreInit /\ [][QueueStoreNext]_queueStoreVars

-----------------------------------------------------------------------------

Saved == [path : Paths, status : Stages, id : Nat]

QueueStoreTypeOK ==
    /\ entry \in [Paths -> Entry \cup {Gone}] /\ row \in [Paths -> Entry \cup {Gone}]
    /\ nextDbId \in Nat /\ saveTimer \in Paths \cup {"none", "fired"}
    /\ jobs \in Seq([saves : SUBSET Saved, deletes : SUBSET Paths])
    /\ clearing \subseteq Paths /\ saveAll \in BOOLEAN /\ notices \subseteq Paths
    /\ closing \in BOOLEAN
    /\ habit \in Habits
    /\ removed \subseteq Paths /\ kept \subseteq Paths

\* The jobs that wait leave p without a row.
Saves(job, p) == \E s \in job.saves : s.path = p
EndsGone(p) ==
    \/ row[p] = Gone /\ \A i \in DOMAIN jobs : ~Saves(jobs[i], p)
    \/ \E i \in DOMAIN jobs :
          p \in jobs[i].deletes /\ \A j \in DOMAIN jobs : j > i => ~Saves(jobs[j], p)

\* A gallery that the user removes stays away, over restarts too: no save that
\* was handed over before, and no timer that fires after, brings its row back.
RemovedStaysAway ==
    habit # "hosts later" =>
        \A p \in removed : ~InQueue(p) /\ (EndsGone(p) \/ p \in clearing)

\* Whatever timers replaced each other and whatever ids were predicted, an
\* orderly end leaves every gallery that can be saved in the table.
QuitKeepsQueue ==
    closing /\ jobs = <<>> /\ habit = "images" =>
        \A p \in kept : row[p] # Gone
=============================================================================
