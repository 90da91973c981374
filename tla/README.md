# A TLA+ verification of BBDrop

BBDrop uploads galleries to image hosts and file hosts from a desktop
application (PyQt6).  This directory holds TLA+ modules translated from its
source, TLC configurations that check them on small instances, and TLAPS proofs
about them.  Paths below are relative to the repository.

## 1. Inventory

Everything runs in one process: the main (Qt) thread, a thread per file host, a
thread pool per gallery upload, timers, and a SQLite database in which every
`QueueStore` call opens its own connection and commits on its own.

| Component | State | Operations | Interacts by | Hard behaviour | Correct when |
|---|---|---|---|---|---|
| Upload table (`storage/database.py`) | `file_host_uploads`: status, `blocked_by_upload_id`, `dedup_only`, md5, retries; unique per gallery, host, part | add (INSERT OR REPLACE: a new id), update by id, pending of a host, family heads, completed parts | shared by all threads | a replaced row keeps none of its ids; an update may fail silently | no reader acts on an id that nobody can release |
| File host workers (`processing/file_host_workers.py`) | pending row taken, archive parts, stop flag, retries | poll, mirror by hash, archive, send parts, retry, announce | reads and writes the table; emits `host_gallery_settled`, `spinup_complete` | stale reads between accesses; stop between parts; failure after some parts | each row settles; nobody touches a row in flight |
| Family coordinator (`processing/host_family_coordinator.py`) | registered poll timers | on a settled signal: release the waiting members, promote the next one, retry failed ones by mirror; md5 pollers | queued signals to the main thread; timer threads write the table | lost or late signals, two pollers for one row, writes from stale lists, a retry that is announced as a failure | one member uploads, and one more for each retry; nobody waits forever |
| Worker manager (`processing/file_host_worker_manager.py`) | `workers`, `pending_workers`, the enabled setting | enable, spin-up result, disable, shutdown, launch | starts and stops threads; `stop()` waits for the thread | spin-up results in the event queue; shutdown on a thread of its own | one thread per host, each accounted for |
| Queueing (`storage/queue_manager.py`, `gui/file_host_controller.py`) | - | queue a gallery to its hosts; manual upload | adds rows | repeated triggers replace rows under running workers | a blocked row waits for a row that exists |
| Upload slots (`processing/file_host_coordinator.py`) | global and per-host semaphores, active set | acquire, give up after five seconds, release | file host workers | slots taken in two steps and given back in another order; a guess of the free slots made from the active set | every slot is free or taken by one upload |
| Shared archives (`utils/archive_manager.py`) | archive of each gallery and its reference count, a lock | create or reuse, release | file host workers of several hosts | hosts that want different formats; one thread making what another waits for | all hosts send the same parts |
| File host client (`network/file_host_client.py`), token cache (`network/token_cache.py`) | token or session of a client; tokens of all clients | log in, store, call, refresh after a refusal, call again | a client per upload or test, one kept by the file manager; the cache is shared without a lock across its calls | two threads refresh at once; a token dies between check and use | no call gives up on a stale token; no dead token comes back |
| Gallery queue (`storage/queue_manager.py`) | galleries with status, counts and uploaded files; worker queue, scan queue; debounced and queued saves | add, scan, start, cancel, pause, retry, reset, rescan, save, load | GUI, scan thread, upload worker; saves to the database | status changed under the upload worker; entries that outlive a status; saves cut off by a crash | a queued gallery gets its turn; a completed one has its images |
| Queue on disk (`storage/queue_manager.py`, `storage/database.py`, `gui/gallery_queue_controller.py`) | the galleries table, ids predicted for new rows, one writer thread | add, remove, clear, save, quit, load | GUI and upload threads hand jobs to the writer; file host queueing writes the same table at once | saves and deletions that wait, replaced timers, two ways to give an id, quits and crashes between | what was removed stays away; a quit loses no gallery |
| Gallery tabs (`gui/tab_manager.py`, `gui/widgets/tabbed_gallery.py`, `storage/database.py`) | the tabs table; the tab of a gallery by id and by name in its row and by name in its item | make, rename, delete and fill tabs; look a tab up to save a gallery | the main thread changes tables and then items; the writer and the upload thread write rows from items as they were | statements that commit one by one, between a lookup and an insert of another thread; names that return | a gallery stays in the tab where the user put it |
| Upload worker and engine (`processing/upload_workers.py`, `core/engine.py`) | images left, in flight, uploaded, failed; the stop request | take, upload, retry passes, soft stop, resume, report | takes from the worker queue; queued signals to `gui/upload_lifecycle_handler.py`, which sets statuses as well, partly through a batcher | late signals and batches; stops racing completions; resumes | no image is lost or sent twice; uploads end |
| Rename worker (`processing/rename_worker.py`), status checker (`gui/dialogs/image_status_checker.py`) | login state of three threads, rename and check queues, table of unnamed galleries | login, rename, check, re-authenticate, cancel, stop | upload worker and menu; signals to the checker that is connected | expired sessions; a cancelled check whose answer is on its way; a stop with work queued | every gallery gets its name or is kept for later; every check is answered |
| Link scanner (`processing/scan_coordinator.py`, the checkers in `network/`, `gui/dialogs/link_scanner_dashboard.py`) | jobs and results of a scan, inventories of accounts, results table | start, stop, check, list, store, report | dashboards and their threads; the rename worker's check for one host | a dashboard closed and opened again; stop and restart; a failing write | a stopped scan stores nothing; the dashboard learns of the end |
| Forum posting (`gui/forum_controller.py`, `processing/forum_posting_worker.py`) | `forum_posts` rows with the text last recorded, jobs, paused forums | post, take over, update, regenerate, edit | GUI thread plans and records, a worker thread posts, queued signals come back | lost answers, repeated updates, edits by hand on the forum | a posted row records what is on the forum; edits by hand survive |
| Statistics (`utils/metrics_store.py`) | cache, write queue, table | record, write, close | upload threads, a daemon thread, exit | counted and queued in two steps; exit with a full queue; failing calls; transfers of several files | what is shown and what is stored differ by what is under way |
| File manager (`gui/file_manager_controller.py`, `processing/file_manager_worker.py`) | host, folder, page, trash; caches in memory and on disk; requests | choose a host, walk, page, trash, refresh, change files | dialogs, a worker thread, signals back | late answers after the view or the host has changed; a dialog open while the host goes | the screen settles on the view; files are never named to another host |
| Proxies, disk monitor (`proxy/`, `utils/disk_space_monitor.py`) | pools, assignments; a tier of free space | rotate, check | all threads | none but that of their callers | - |
| Artifacts and hooks | debounced jobs, external programs | regenerate, run | main thread, worker thread | stale triggers | - |
| Archive service, image host clients, GUI | - | remote calls, file moves, widgets | - | none of their own | - |

`PROJECT.json` lists every component with its status and every hazard with the
line where it bites and the properties that would catch it.

## 2. Modules

    UploadRows                 the table, the signal queue, faults
      FileHostWorker           one thread per host
        FileHostWorkerManager  enable, spin-up, disable, shutdown, launch
      HostFamilyCoordinator    main thread, md5 pollers, queueing
          HostFamily           the composition, properties, fairness
            MCHostFamily       instances for TLC
              HostFamilyClaims statements of the source that do not hold
              MCSettling       the family or the galleries, under fairness
            HostFamilyProofs   theorems
    UploadLifecycle            what the family promises (abstract)

    GalleryQueue               galleries, queue, scans, saves
      UploadWorker             the upload thread and its engine
        GalleryUpload          main thread, restart, properties, fairness
          MCGallery            two courses for TLC in one run
            GalleryUploadProofs  theorems
          (MCSettling and MCQueueStore use it too)
    ImageDelivery              what uploading promises (abstract)

    QueueStore                 the queue on disk       QueueStoreProofs
    GalleryTabs                tabs and their galleries  GalleryTabsProofs
      MCQueueStore             rows, tabs, or the images of an upload

    RenameWorker               one login, three threads
      ImageStatusChecker       the checkers of the main thread, properties
        RenameProofs           theorems

    UploadSlots                slots and archives       \
    MetricsStore               transfer statistics       > TransferProofs
    HostAccount                tokens of an account     /
    ForumPosting               posts on forums          ForumProofs
    LinkScanner                scans of links           \ ServicesProofs
    FileManager                files at the hosts       /
      MCServices               the six of them, one at a time
        ServicesProofs         its types too, from the four proof modules

The groups share no state the code relies on: a file host upload starts from a
gallery's folder, whatever the image upload made of it; slots, tokens and
statistics delay an upload, make a call of it fail or count it.

### File host families

**The subject.**  Keep2Share, FileBoom and TezFiles share one backend: what one
of them stores the others can register by md5 (`createFileByHash`).  So when a
gallery goes to several of them, the one with the highest priority gets a
`pending` row, the others `blocked` rows that point at it.  The modules follow
*one gallery through one family*: every gallery has rows of its own and no
decision of the protocol looks at two.

**UploadRows** - `rows[<<h, p>>]` is the row of host `h` and part `p`; part 0 is
the head row.  Hosts are numbered by priority (`HOST_FAMILY_PRIORITY`).  The
primary key is a place and a generation, since INSERT OR REPLACE gives a
replaced row a new id.  md5 and URL are Booleans: the code only asks whether
they are usable.  `Commits(new)` is an UPDATE: it succeeds or, as
`update_file_host_upload` does on an exception, leaves the row as it was and
returns False to a caller that never looks.  `events` is the Qt queue of the
main thread.  `faults` counts what goes wrong around the protocol.

**FileHostWorker** - one step is what a worker does between two accesses to the
table.  `pc` names the function: `picked` is `run` after the query, `probe`,
`commit`, `commitPart` are `_try_family_mirror`, `archive` to `except` are
`_process_upload`, `settle` and `announce` the finally clause of
`_process_single_pending_row`.  `WorkerDbFails` are the paths on which a store
call raises instead of returning.  `Unrecorded` is what comes after a row is marked
completed and may raise as well - the metrics, the session, the family's storage:
after an upload the except clause takes the error for a failure of the upload
(`SentUnrecorded`), after a mirror it is taken for a miss (`MirrorUnrecorded`).

**FileHostWorkerManager** - `registry` says in which of the two dictionaries a
worker is; `manager` says who waits in `FileHostWorker.stop()`.  While a
host is being disabled the main thread takes no step (it sits in `wait()`);
`shutdown_all` runs on the thread of the shutdown dialog, stops one worker after
another, and the main thread goes on.

**HostFamilyCoordinator** - `main` is the handler the main thread is in, `todo`
the writes its loop has left; a poller has a `todo` of its own.  Writes of a
loop are made one at a time in any order, except that the code makes the
promotion before the reassignments and queues the primary before the siblings.
The winner of the retry scan is chosen among the completed rows because the
query has no ORDER BY.

**HostFamily** - composes them.  `Environment` holds the triggers, the user and
the faults; each disjunct names one.

**UploadLifecycle** - the promise: a host uploads when it is its turn and keeps
the turn, is mirrored or restricted to a mirror only when another has the
content, and what is done stays done.  `HostFamily!KeepsPromise` maps statuses
to phases and checks that every step of the detailed system is a step of this.

### Names of the faults

| Fault | Meaning |
|---|---|
| `folder` | the gallery's folder disappears |
| `badurl` | a finished upload has no usable file id |
| `dbfail` | a store call raises |
| `bookkeeping` | what is written down about an upload or a mirror raises after its row is marked |
| `lostwrite` | an UPDATE fails and reports False |
| `stop` | the user disables a host |
| `spinup` | the credentials test of a started worker fails |
| `toggle` | the user switches family dedup |
| `crash`, `shutdown` | the process dies; the program is closed; both are followed by a launch |
| `requeue` | a trigger queues the gallery again |
| `reupload` | the user queues one host by hand |

### Galleries and image upload

The folder of a gallery does not change; each holds the files `Images`, of which
the host refuses `Skipped` as too large.  Images have no order, because no step
depends on it.

**GalleryQueue** - `item[g]` keeps what later decisions read of a
`GalleryQueueItem`: the status, whether the gallery has an id at the host (`gid`),
`uploaded_files` (`done`), `uploaded_images` (`counted`) and `total_images`
(`total`).  `done` and `counted` differ on purpose: one is set by the upload
threads, the other by the main thread from signals.  `queue` keeps entries whose
gallery has meanwhile been cancelled, as `QueueManager.queue` does.  `late` is
the timer of `reset_gallery_complete`, which does not scan, since there is no
`scan_queue` attribute, but marks the gallery ready.  A change is saved in one
of four ways: `SavedAtOnce`, `Debounced` (one timer for all galleries, which
keeps the path given last), `DebouncedElsewhere` (called off the main thread: the
timer may never run) or not at all; `TimerFires` hands a save to the writer
thread, `WriterWrites` commits it.  `sent` is not in the program: it counts what
the host has stored.

**UploadWorker** - `pc` is the place in `run`, `upload_gallery` and
`UploadEngine.run`; a step is what happens up to the next image, signal or
status.  `Left`, `Primed`, `Submitted` and `NextPass` are the engine's pool,
`Report`, `Outcome` and `Finish` are `_process_upload_results`.  An image in
flight comes back uploaded or failed in any order.

**GalleryUpload** - the handlers of `UploadLifecycleHandler` that write a
gallery, the `ProgressUpdateBatcher` (`batch` keeps of an update whether it will
set the final status) and the restart.  `Steps` are what happens while one process
runs and nobody resets a gallery; the runs without resets and crashes, where
nothing reads what is saved, take only those.

**ImageDelivery** - an image reaches the host once, and a gallery is called
completed only when its images have.  `GalleryUpload!KeepsDelivery` is the
refinement.

| Act | Meaning |
|---|---|
| `cancel` | the user cancels a queued gallery, or pauses all |
| `retry` | the user retries a failed gallery |
| `reset`, `rescan` | the user clears the upload state, or has the folder scanned again |
| `stop` | a soft stop, at any moment, of the gallery the worker took last |
| `disk` | the disk is too full to upload |
| `nohost`, `folder` | no usable host; the folder is gone when the engine starts |
| `lostanswer` | the host stores an image and its answer is lost: to the engine it failed |
| `crash` | the process dies, and what was saved is loaded |

Failing images, a failing first image (`CreateFails`) and failing passes are no
acts: they may happen in every run.

### The queue on disk

**QueueStore** - GalleryQueue keeps the galleries of a queue fixed and asks what a
restart makes of their statuses; here galleries come and go, and the statuses are
as few as a save tells apart.  `entry` is `QueueManager.items` with the id
`add_item` predicts, `row` the galleries table, `jobs` what waits for the one
thread of the store's executor.  Three other ways lead to a row: `UploadCompletes`
writes at once, past the jobs; `WithRow` is the row that `add_file_host_upload`
makes for a gallery that has none; and a video is saved a first time without an
id.  `Inserted` is what SQLite answers: a row without an id gets the greatest plus
one, one whose id is taken is refused.  `clearing` and `saveAll` are the end of
`clear_completed` and `delete_selected_items`, which delete rows only after the
table widget has been cleared.  `habit` fixes for a behaviour what is added and
which trigger queues file hosts; `removed` and `kept` are history.

**GalleryTabs** - the tab of a gallery is kept three times: `galleries[g]` has
id and name, `items[g]` the name that the next save will write.  `operation` is
the main thread between two statements of one call, each of which commits by
itself (`isolation_level=None`): a rename has the new name in the tabs table
before it has it in the rows and, last, in the items; a deletion moves the rows it
has read, then those that are there, and then drops the tab.  Meanwhile the
writer works off `saves`, which hold names as they were when they were handed
over, and the upload thread writes the end of an upload at once; each looks the
tab up (`LooksUp`) before it inserts (`Inserts`).  `Unlocked` is the queue's mutex,
which `update_item_status` holds while it writes.  `chosen` is not in the program:
it is the tab where the user last put the gallery.  MCQueueStore follows the
rows, the tabs or the images of an upload in a behaviour, since they share no step: a
save writes rows and tabs, and what it writes of one does not depend on the other.

### The session of the rename worker

**RenameWorker** - `thread[t]` is where each of the three threads is: `login` is
`_initial_login`, `rename` is `_process_renames`, `status` is
`_process_status_checks`; all of them pass through `reauth`, `asleep`, `relogin`
and `release`, which are `_attempt_reauth_with_rate_limit`.  `lock` is held only
by a thread that sleeps in it.  `unnamed` is the table of the same name; a later
run starts from it.  The host answers each request as it likes, and a rename
whose answer is lost may have been obeyed.

**ImageStatusChecker** - every check has a checker of its own, `connected` is the
one the worker's signals go to, `inbox` the queued signals.  `TakeAnswer` drops a
signal for a checker that has disconnected, as Qt does.

### Six services

Each of these modules has its own variables, `...Init`, `...Next` and `...Spec`.
`MCServices` extends all six and adds `subject`: a behaviour follows one service
and leaves the others at rest in one initial state.  They share no state, so that
nothing is lost, their states add up in one run instead of multiplying, and each
module's specification is the one its theorems are about.

**UploadSlots** - `upload[h].pc` goes through `acquire_slot`, the archive and the
`finally` clauses.  `CanStart` is `can_start_upload`, a guess made before the
semaphores are asked.  `TakeArchive` reuses any archive of the gallery, whatever
its format: the cache has no other key.  The limits are constants, because
`update_limits` has no caller.

**LinkScanner** - `scan[n]` is a thread of `start_scan`, `owner` the dashboard it
reports to; a closed dashboard leaves its scan running.  `found` holds the
verdict of each host, `halted` is not in the program: it says that the user has
stopped this scan.  `inventory` is the listing of an account, made once for each
coordinator.

**ForumPosting** - a text is the BBCode it was made from and whether somebody has
edited it on the forum, which is all the planner tells apart.  `posts[p].stored`
is `body_hash` and the link map.  Each update is planned in any of `Modes`, since the
user, the post and the tab may each have one (`override_mode`,
`update_mode_at_post`, `update_mode`); `posts[p].modes` remembers which, `forum[p]`
what this program last wrote or read (`sent`) and whether a page without a form, or
one that links to some other post, was taken for a success since (`misread`).  None of
these three is in the program.  `OwnConnection = FALSE` is the code as it is: the
worker ends with its first job (section 4), and `claim_posts_answered` shows it.  The
run `services` has TRUE, to see what the rest of the worker would do; the theorems
hold for both.

**MetricsStore** - `CountTransfer` and `QueueWrite` are the two halves of
`record_transfer`, with the cache lock released between them; `Get` to `Write` are
`_write_worker`; `Close` and `PutSentinel` are `close`.  The cache has what a transfer
is of bytes and time (`total`) and its `files_count` (`files`); the writer's row adds
the first and always one file, so that `table` is both.  `RecordRaises` is a database
that cannot be opened while the second of the two caches is filled: the transfer is
counted in one cache, and never queued.  `lost` and `unseen` count what was counted
and never written, and failed reads.

**FileManager** - a listing is what a folder held at a version of its host; each
change makes a version.  `known` says whether the controller still remembers what
a request was for (its pending maps are cleared on a change of host).  `asking`
is a modal dialog: answers and signals are handled while it is open, other clicks
are not.  `due` is not in the program: it is the version a folder must show since
the last change that reloaded it.

**HostAccount** - tokens are numbered by the logins that gave them; `live` are
those the host accepts.  `client[c]` follows `_with_token_retry` and
`_refresh_auth_token`, one step per call of the cache; `manager` is the client the
file manager keeps.

## 3. Runs

Each `.cfg` gives its constants.  Deadlock is not checked: when all rows or
galleries have settled only a user could go on.

| Run | Instance | Shows |
|---|---|---|
| `family_settles` | 3 hosts, 1 part, 1 retry, no faults | `OneUploadAndRetries`, `NoWaitChain`, `TurnsAreNotLost`, `WinnerRetriesFailures` |
| `interrupted` | 2 hosts, 3 faults of stop, spinup, toggle, crash, shutdown | `ThreadsAccounted`, `DedupOnlyIsTerminal`, `KeepsPromise` (refinement) |
| `failures` | 2 hosts, 2 faults of dbfail, lostwrite, bookkeeping, badurl, folder, reupload, requeue | `WaitsForAnother` |
| `settling` | a family: 2 hosts, up to 2 parts, 1 retry, one host hashes first; or galleries: 2 of 2 images, with cancel, nohost, folder, lostanswer and 1 retry; fair | family: `InFlightOwned`, `RowsSettle`, `WaitersReleased`; galleries: `SettledIsTrue`, `UploadsEnd`, `QueuedIsTaken` |
| `gallery_courses` | 1 gallery of 2 images, auto-start, in two courses: restarts (retry, crash), and rescans (retry, reset, rescan, cancel) | `CompletedOverRestarts` in the first; `UploadingIsHeld`, `QueuedIsInQueue` in both |
| `queue_kept` | 2 folders, 2 predicted ids in a session, 3 jobs waiting; or 1 gallery, 3 tabs, 2 saves waiting, 4 steps of the user; or 1 gallery of 3 images, 2 at a time, 1 retry, with cancel, retry, rescan, nohost, stop, disk | rows: `RemovedStaysAway`, `QuitKeepsQueue`; tabs: `TabsSurviveQuit`; images: `ImagesAccounted`, `KeepsDelivery` (refinement) |
| `rename_session` | 1 gallery, 2 status checks, fair | `RenamesAccounted`, `OneLogin`, `CancelHolds`, `RenamesHandled`, `ChecksAnswered` |
| `services` | below, fair | slots: `SlotsConserved`, `OneArchive`, `RowsServed`; scanner: `StoppedStoresNothing`, `ScanReports`; forum: `PostedIsSent`, `ManualEditsKept`; statistics: `StatsAgree`, `WrittenOnClose`; file manager: `ItemsStayAtTheirHost`, `ViewSettles`; account: `FreshTokens`; all: `TypeOK` |
| `claim_*` | the smallest instance that shows it | one statement of the source each, refuted (section 4) |

**Bounds of the family.**  Three hosts are the whole family; with three there is
a promoted member, one that is reassigned and one that failed.  Two parts
distinguish the head row from the others.  One retry gives every retry path, as
the count is only compared with the maximum; the shipped hosts have three
(`file_host_config.py:234-235`).  `interrupted` and `failures` have none, so that
their faults, two or three, stay within reach; `OneUploadAndRetries` and the theorems
of section 5 have any number.  In `settling` the host that is promoted hashes first
and the primary does not, so that a poller is needed and its md5 may never come.  `MaxFaults` bounds faults per
behaviour: two are needed for a fault during the recovery from a fault, three
for a disabled host enabled again across a restart.  Failures of an upload, of a
mirror, of a poll and of an archive are not faults: they may happen at any time
in every run.

**Bounds of the galleries.**  Two galleries are needed where one waits for the
worker that is at the other; the rest of the state is a gallery's own.  Three
images with two in flight give an image that is left, one that is in flight and
one that came back.  One retry distinguishes the first pass from a later one,
none leaves the repetition to the user's retries.  `MaxQueue` (two entries of one
gallery), `MaxScans`, `MaxWrites` and `MaxSignals` bound the four queues: an
action that would add to a full one waits, so that signals are at most that late.
Signals of two tries of a gallery meet with two.  `lostanswer` is in the run about the
end of uploads, not in that about `KeepsDelivery`, which it breaks (section 4).  `Skipped` is empty: with an
image that is refused a gallery is never completed (section 4), and the theorems
of section 5 cover it.  `sent` stops counting at two.

**Bounds of the queue on disk.**  Two galleries can claim one id, and a gallery
can be removed and added again with another one; each launch predicts anew.  Three
jobs let a deletion follow a save and be followed by one.  The folders are interchangeable (`SYMMETRY`).

**Bounds of the tabs.**  No step of a tab depends on two galleries except the
save that takes several, so one is enough; two with two steps were checked as
well.  Three tabs are Main, the one the gallery is in and another; four steps make
a tab, fill it, rename it and delete it, or delete one and make it again, with two
saves under way at any point.

**Bounds of the session.**  One gallery, since no step looks at two but the queue,
and a request to stop may stand before or behind it.  Two checks are a check and
a later one.  Nothing bounds what the host answers, nor the logins.

**Bounds of the services.**  Slots: three hosts for two slots, one for each host,
and one gallery, so that hosts wait for a slot and share an archive; the hosts
want three different archives.  Scanner: one host whose account is listed and one
that the rename worker's check serves, two dashboards and two scans (one that was
stopped or left behind and one that follows), one failing write.  Forum: two
posts of two texts while all updates are in mode `whole`, one post once another mode
is used (`ForumBound`); all three modes, and the policies `skip_alert` and `surgical`.
Statistics: two threads with two transfers each of one or two files, one failing call.  File manager:
two hosts of which one depends on an upload worker, a folder and its parent, two
pages, three things the user does (change something, leave and come back) and one
failing request; it opens with a host whose listings are not on the disk, while
those of the other are.  Account: two clients, the file manager and three logins,
which is one more than either needs to find that its token has died again.

**Fairness.**  Weak fairness of each file host worker, of the upload worker, of
the threads of the rename worker and of the link scanner, of the upload threads'
slots, of the main thread (event queue and batch timer) and
of the pollers; in `claim_posts_answered`, of the forum worker: operating system threads that loop until there is nothing to do,
with timeouts on every request, and an event loop.  The host's answer to a rename
has no timeout in the code (section 4); a request that never ends is not
considered.  Strong fairness of `Release(t)` in the rename worker only: the thread
that has logged in waits for a lock that others take for half a second at a time,
and which is free in between.  None is assumed of users, faults, acts, scans of
folders, saves, the file manager, the statistics or the account.

**What holds only in part.**  The runs state a property where the code keeps it:

- `WaitersReleased` and `WinnerRetriesFailures` do not survive a disabled host,
  a toggled setting, a crash, a shutdown or a failed database call: signals and
  timers are only in memory and nothing looks for `blocked` rows at launch.
- `WaitersReleased` is about two members.  With three and an automatic retry the third
  may wait for good (section 4): `TurnsAreNotLost` says that this is the only way, and
  that whoever waits then, waits for a member that had its turn and failed.
- `SinglePrimary`, what `constants.py` says of a family, does not hold with automatic
  retries, which the program is shipped with: a run refutes it (section 4).
  `OneUploadAndRetries` is what is left of it, one member and one for each such retry;
  it needs that nothing is queued again, that the setting is not toggled, and that no
  database call is lost.
- `InFlightOwned`, `DedupOnlyIsTerminal` and `KeepsPromise` need that rows are not
  replaced under a running upload and that no write is lost, and two members, or
  members that all hash before they upload (as shipped none does): with three, and
  nothing going wrong, TLC finds a poller whose second write reopens a row that was
  promoted and uploaded meanwhile (section 4); it would reopen one that is being
  uploaded, or a `dedup_only` one that has failed, as well.
- `KeepsPromise` needs besides that nothing raises between the completed status of a row
  and the end of the bookkeeping (`file_host_workers.py:1105-1169`, `:1402`); with
  `bookkeeping` TLC finds a member that is done and back among the pending.
- `KeepsPromise` and `DedupOnlyIsTerminal` need archives of one part besides.  A head
  row completed by its first part fails with the second; and with three parts of
  which a mirror serves one, a success is announced while the head is still pending,
  so that its member is answered twice: the second release reopens a `dedup_only` row
  that has failed meanwhile.
- `NoWaitChain` allows one chain: behind a member that was promoted over one that
  retried by itself, failed, and was made to wait for it.  Without an automatic retry
  there is none; it was checked with two members under every two faults, and is
  proved for them and for any number that hash first.  With three TLC finds no chain
  after a bad link, a failed folder, a stop, a spin-up or a toggle, but does after a
  crash, a shutdown or a failed database call between the writes of a promotion.
- `QueuedIsInQueue` does not survive a full disk (section 4).
- `CompletedIsComplete` (`CompletedOverRestarts` where nothing is reset) and
  `ImagesAccounted` do not survive a reset, which clears `uploaded_files` under a
  running upload; `StoredOnce` and `KeepsDelivery` survive neither a
  reset, which is meant to send the images again, nor a crash, nor a lost answer
  (section 4).
- `RemovedStaysAway` needs that no trigger queues file hosts after the start of
  an upload, `QuitKeepsQueue` that there are only folders of images and no such
  trigger at all; neither holds otherwise (section 4).
- `TabsSurviveQuit` needs that no tab is given a name which items still carry
  (`NamesReturn`): the items of a deleted tab keep its name, and a new tab of that
  name gets them back with their next save (section 4).  It says nothing of
  galleries that are being uploaded at the quit, nor of a session in which no
  save timer was ever made, in which a quit saves nothing.
- `RenamesHandled` and `ChecksAnswered` end with the threads: at a stop, and for
  renames at the first one that finds the session dead.
- `PostedIsSent` does not hold of a post that was updated in surgical mode, which may
  find nothing to swap, nor after a page that was taken for a success;
  `ManualEditsKept` holds only of posts that are updated in mode `whole` alone, with
  the policy `skip_alert`, and from the planning of an update on.
- `StatsAgree` counts files only as long as every transfer is of one; that of the
  images of a gallery is not, nor that of a mirrored archive of several parts.
- `ScanReports` does not survive a failing write of the results.
- `ViewSettles` is about folders: the trash reloads differently (section 4).
- `SettledIsTrue` needs that nobody stops an upload, that nobody retries while
  signals of the try before are pending and then has the new try fail at once,
  and that no image is refused as too large.

## 4. Where the source says otherwise

Each `claim_*` run refutes a comment, docstring or document; `PROJECT.json`
quotes it.

- `RetryIsReleased`: the primary fails, the second succeeds with nobody waiting,
  so no md5 poll is started; the retry scan then blocks the first one on the
  second, and nothing ever releases it.  This is the plain two-host case.
- `SinglePrimary`: the first of two hosts fails with a retry left.  The except clause
  sets its row back to pending (`file_host_workers.py:1204`), the finally clause
  announces the failure, and the coordinator promotes the second: both upload in
  full, against `constants.py:202-203`.
- `QueuedIsInQueue` with `disk`: the worker has taken the gallery off the queue
  before it finds the disk full, and puts nothing back.
- `PostsAnswered`: a post is queued, the worker takes it and is gone.  The controller's
  SQLite connection is made on the GUI thread (`database.py:52`,
  `main_window.py:584-586`); the worker's first lookup raises, and the `finally` clause
  of `run` raises again with its own (`forum_posting_worker.py:126`).

Seen in the model or met on the way, without a run that keeps watch over them.
In the family protocol:

- A stop between parts is taken for success (`file_host_workers.py:1018`,
  `:1158`).
- A mirror of parts without part 0 announces success and leaves the head row
  pending (`file_host_workers.py:1385`).
- Dedup switched off between an upload and its signal leaves the waiting members
  blocked (`host_family_coordinator.py:207`).
- Rows failed by `run`'s own checks emit no signal
  (`file_host_workers.py:626`), so nobody who waits for them is promoted.
- A promoted member that failed is blocked again by the retry scan of the host
  it was promoted over (whose auto-retry has succeeded meanwhile) before its own
  failure signal is handled; that signal finds the pointer and promotes nobody,
  so the third host waits for good (`host_family_coordinator.py:341`).  It needs
  nothing but the shipped setting: it is the case `TurnsAreNotLost` leaves open.
- An error after a row is marked completed - a count, the session, the size of the
  archive - is caught as one of the upload (`file_host_workers.py:1105-1169`, `:1176`): the
  row that is done is failed or sent again.  After a mirror it is reported as a miss
  (`file_host_workers.py:1402-1418`): the completed row is failed if it was restricted to
  a mirror, and otherwise uploaded in full.
- A poller slow with its second write reopens a row that was promoted, picked
  and completed since the poller read its list (`host_family_coordinator.py:84`).
- A manual upload orphans the blocked siblings (`file_host_controller.py:233`).
- A fresh worker takes a row before its host's setting is saved, and fails it as
  one of a disabled host (`file_host_worker_manager.py:280`).
- The md5 poller fetches the md5 of the head row only
  (`host_family_coordinator.py:131`, against `file_host_workers.py:1272`).
- The winner of a retry scan may still have parts to send
  (`host_family_coordinator.py:390`, against `database.py:1791`).
- `disable_host` blocks the main thread in `wait()`, against its own comment
  (`file_host_worker_manager.py:174-177`).
- A host that is spinning up cannot be disabled
  (`file_host_worker_manager.py:161`), and `shutdown_all` leaves it running
  (`file_host_worker_manager.py:223`).
- Signals handled during the shutdown schedule polls
  (`host_family_coordinator.py:326`), and the exit cuts pollers off that
  `shutdown` says may finish (`host_family_coordinator.py:190`).

In the upload of galleries:

- A failed signal handled after the user has retried overwrites the new status
  (`upload_lifecycle_handler.py:592`); a queued gallery becomes failed and its
  entry is dropped.
- A batch pending from the try before can call a gallery failed that the worker
  has just completed, until the completed signal corrects it
  (`upload_lifecycle_handler.py:191`); after a reset it calls the emptied gallery
  completed until the scan is done (`upload_lifecycle_handler.py:199`).
- A cancel between taking a gallery and beginning its upload is swallowed
  (`upload_workers.py:288`); a stop asked for in that moment for one gallery is
  forgotten when another begins (`upload_workers.py:277`).
- The passes over failed images ignore a stop when they send the next image
  (`engine.py:402`, against `docs/user/explanation/upload-pipeline.md`, "Soft
  stop").
- A debounced save of one gallery is replaced by that of another, and calls off
  the main thread leave the save to a timer of a thread that runs none
  (`queue_manager.py:1176-1197`).
- Files refused as too large count as missing: a gallery that was sent completely
  ends as incomplete (`upload_workers.py:1128`).
- `stop_single_item` (`main_window.py:2821`) has no caller left in the interface,
  and the status `paused` is never set.  The model keeps the stop, because the
  worker and the engine implement it.
- The uploaded files of a gallery are not rebuilt when it is loaded
  (`database.py:1094`, against `docs/user/explanation/queue-architecture.md:80`),
  so a resume after a restart sends them again; `StoredOnce` fails with `crash`.
- An image whose answer is lost counts as failed and is sent again (`engine.py:402`),
  so that the host has it twice; when it is the first one, the host has a gallery the
  program does not know.
- A gallery that has an unsaved id is refused by the table for good once another
  row has it: `_save_single_item` saves a video without an id and the table gives
  it one that `add_item` has predicted for another gallery, or a row made by
  `add_file_host_upload` gets it (`queue_manager.py:1458`, against the comment at
  `:1350`).  The error is logged, the gallery is in no later queue.
- A trigger that follows the start or the end of an upload makes the row of a
  gallery anew which the user has removed meanwhile
  (`upload_lifecycle_handler.py:70`, `database.py:1837`, against
  `gallery_queue_controller.py:898`).
- A batch of removals that a quit cuts off deletes no row
  (`gallery_queue_controller.py:925`).
- An upload that completes is saved at once, and an older save that still waits
  for the writer then puts the old status back (`queue_manager.py:1590-1604`,
  against its comment): after a quit without a pending timer the gallery is ready
  again.
- A quit saves the queue while the upload goes on and leaves the gallery out that
  is being uploaded (`queue_manager.py:1275`).
- A single video file in the queue is not loaded unless it is completed
  (`queue_manager.py:1360` asks for a directory).
- A save that was handed over before a gallery was moved puts it back into the old
  tab until the next save, against "database is already updated and is the source
  of truth" (`tabbed_gallery.py:541`); `shutdown` saves only if a timer was ever
  made (`queue_manager.py:1690`), so such a row may stay.
- The items of a deleted tab keep its name: when the user makes a tab of that name
  again, their next save files them there (`tabbed_gallery.py:1523`,
  `database.py:864`).
- Dropping galleries on the tab "All Tabs" raises in the store, but the window has
  been told as well and names the items "All Tabs" (`main_window.py:1007`): their
  next save files them under Main.
- Merging tabs moves the rows and not the items (`tabbed_gallery.py:1075-1086`):
  the next save takes the galleries to Main, or back if the merged tab was kept.
- "Close all" hands the tab text with its count to `delete_tab`, which does not find
  it (`tabbed_gallery.py:1479`): nothing is closed.
- The context menu moves nothing when the gallery has no row yet
  (`gallery_table.py:618`).
- A deletion between the writer's lookup and its insert leaves a row with the id of
  a tab that is gone, and a crash between the two statements of a rename rows with
  the old name, whose galleries go to Main with the next save.
- The cached counts of galleries by status drift, which only the interface reads
  (`queue_manager.py`, `_status_counts`).

Artifacts and hooks (not modelled):

- The menu calls `regenerate_gallery_bbcode` on the window, which has no such method
  (`context_menu_helper.py:533`; the test replaces the window by a mock).
- The completion worker reads the template first and writes last, and so
  overwrites a regeneration made meanwhile (`artifact_handler.py:28-31`); a
  regeneration leaves out the URL, the cover, the thumbnail settings and the start
  (`artifact_handler.py:369-387`); quitting drops both kinds that wait
  (`artifact_handler.py:71-96`, `:463`).
- `gallery_completed` may be announced before the hosts that the completion triggers
  are queued, and a path it does not know yet is never looked at again
  (`worker_signal_handler.py:247`).

In the session of the rename worker:

- The rename thread ends for good after one rename that finds the session dead;
  what is queued later is never looked at (`rename_worker.py:1136`).  Renames
  queued at a stop, or when the host is changed, are lost until asked for again.
- The wait for another thread's login sleeps with the lock in its hands, against
  its comment "Release lock and wait", and then takes whatever the session was
  before; a second expiry within five seconds marks the session dead.
- The next check clears the cancellation of the one before, against
  `rename_worker.py:690-691`; a cancelled check's dialog stays open with its
  button hidden.
- The rename request has no timeout.  A save that fails while the queue is
  drained loses a gallery.

Slots and archives:

- The settings `global_limit` and `per_host_limit` are never applied: nothing
  calls `update_limits` (`file_host_coordinator.py:59`).
- An archive is reused whatever format, compression or split a host asks for, and
  its references never lead to a deletion: `cleanup_*` have no caller
  (`archive_manager.py`).

Link scanner:

- A host that does not answer has its thumbnails counted as offline, an account
  that cannot be listed counts as empty, and a listing is never made again: links
  that were added since are called offline.
- A status check cancelled earlier empties the answer of the next scan, whose
  result is then stored as unknown.
- A failed write ends the scan without a report: the dashboard stays at scanning.
- A scan left behind by a closed dashboard overwrites the results of a later one.

Forum posting:

- An update records the new text before it is sent: after a failed edit the next
  update in mode `whole` sees manual edits, and in surgical mode calls a post
  up to date that was never changed.
- A mark as stale is lost while its row is queued (against `CHANGELOG.md:20`), rows
  queued at a restart stay queued, and a lost answer makes a second post.
- An answer to an edit without a form and without an error marker counts as a success
  (`vbulletin_client.py:311-326`), and so does one to a post that links to any post
  (`vbulletin_client.py:421-427`): the row then names a post of somebody else
  (`Misread`).
- `whole_then_surgical` overwrites what was edited by hand.  An update in surgical mode
  records its text before the forum refuses it; one in mode `whole` that follows takes
  the forum's for its own and wipes what was written by hand.
- A refused login pauses the forum, and nothing calls `resume_forum`.

Statistics: the caches add `files_count` and the rows one file for each transfer
(`metrics_store.py:457`, `:519`, `:571` against `:592-602` and `:1015-1017`), while the
docstring says "For image hosts, this should be the number of images uploaded in the
gallery" (`:409`) and callers pass it (`upload_workers.py:783`,
`file_host_workers.py:1407`): the files shown today are others after a restart.
`record_transfer` raises when the database cannot be opened
(`metrics_store.py:677-679`).  The rows of all time are doubled (NULL in
a unique key), "today" never rolls over, a failed read starts the cache at zero,
a failed write is dropped, and what is recorded after `close` is lost.

File manager:

- Walking and going back leave the trash flag set: the answer for the folder is
  taken for one of the trash, and paging reloads the trash.
- A refresh in the trash forgets the folder's cache and not the trash's, against
  its docstring; a change reloads the folder on the screen and not the one it was
  made in; the disk cache keeps the listing from before a change.
- Errors of a host that has been left still appear.
- A dialog confirmed after its host was disabled sends a request without a host.

Tokens and sessions:

- The file manager and the link scanner ask `FileHostConfigManager` for
  `get_host_config`, which it does not have (`factory.py:143`,
  `scan_coordinator.py:96`); the exception is swallowed.  They never log in by
  themselves, and a refresh clears the uploader's token and gives up, against its
  docstring "Clear the cached RG token and re-login via stored credentials" and
  `CHANGELOG.md:61`.
- Hosts with sessions never log in again once there are cookies; the file
  manager stores its own old cookies over newer ones, against a comment in
  `file_manager_worker.py`.
- Anything with "401" in an error text, also of a proxy, starts a new login and a
  second upload.

## 5. Proofs

### File host families

`HostFamilyProofs` proves, for any number of hosts, parts, retries, faults and
any trigger sets (assumptions: `SizeAssumption`, `FaultAssumption`,
`WorkerAssumption`, `TriggerAssumption`):

- `TypeCorrect == Spec => []TypeOK`
- `BlockedRowsWaitForAnother == Spec => []WaitsForAnother`
- `RegistryMatchesThreads == Spec => []ThreadsAccounted`, by an invariant of its own
  (`ThreadInv`) that follows a thread from its registration to its end

`WaitsForAnother` is not inductive: the writes a loop has still to make, and the
lists pollers hold, were computed from an earlier table.  The invariant `IInv`
adds that

- every blocked row's pointer *points back* (another host, part 0, a generation
  the table has reached): `WaitsOK`;
- each remaining write would keep that, or follows a promotion or insertion that
  will: `TodoOK`, `PollersOK`; generations only grow, so a write that is fit now
  stays fit whatever others do (`Harmless`, `Grows`);
- a worker sends only parts its archive has (`SendOK`), and pollers are finitely
  many, so that a new one finds an unused number.

Lemmas on the table operators (`UpdateRowLemma`, `AddRowLemma`, `CommitsLemma`)
reduce each action to "the table stays typed and the change is harmless"; one
lemma per action, then `NextIInv`, then PTL.

Two more theorems hold under a part of the faults, which each names in an ASSUME;
both allow more than the run that checks the property:

- `FailedMembersAreRetried == Undisrupted => (Spec => []WinnerRetriesFailures)`, where
  links may be unusable, triggers repeated and rows uploaded by hand, for any parts and
  retries.  The property speaks of quiet states only.  `RetryInv` says how they are
  reached: a member that failed and was not retried (`Unretried`), while another has
  the gallery, is still given its retry by a write that waits (`GivenRetry`), or a scan
  is still to come (`ScanComes`) - from a worker on its way to its signal, a signal, or
  the main thread answering one.  Whoever changes such an outcome is on that way
  himself (`OutcomesStay`, `WriteKeepsOutcomes`), and the scan finds every failure
  (`ScanAnswers`).
- `OneMemberUploads == OneByOne => (Spec => []OneUploadAndRetries)`: archives of one
  part, any number of retries, any failures of a host, stops, spin-ups, crashes and
  shutdowns.  That no more rows are `uploading` is a consequence of how many turns there
  are (`Turns`): the rows that are pending or uploading, the workers about to announce
  that they failed, their signals, the handler of one, and the write that promotes the
  next member.  Each step passes a turn on, or drops it (a crash does); only a worker
  that retries by itself keeps its turn and announces a failure as well, and the
  number of its retry is then counted (`TurnsCounted`).  Once a member has stored the
  gallery its row stays completed, because no write that waits, whoever computed it
  and when, names that host (`Leaves`).  `OneTurn` is the disjunction of the two.
  Without retries it says what `constants.py` does.

The last four are about an *orderly* family (`Orderly`): archives of one part; two
members, or any number of them that all hash before they upload; any number of
retries; and any number of bad links, failed folders, failed database calls, stops,
spin-ups, toggles, crashes and shutdowns - all faults but a write that is lost,
a row that is queued or uploaded again, and an error after a row is marked.  Where TLC found one of them violated
outside of it is in section 3.

- `RowsInFlightAreOwned == Orderly => (Spec => []InFlightOwned)`
- `NobodyWaitsForAWaiter == Orderly => (Spec => [](NoWaitChain /\ \A h : Chainless(h)))`: here
  nobody waits for a waiter at all
- `DedupOnlyRowsEnd == Orderly => (Spec => DedupOnlyIsTerminal)`
- `FamilyKeepsItsPromise == Orderly => (Spec => KeepsPromise)`: the detailed protocol
  implements `UploadLifecycle`

All four rest on one invariant, `OrderInv`, inductive together with `IInv`.  It says of
everybody who is about to change a row that the row is still as he last saw it:

- a worker's place in its upload fits the status of its head row (`WorkerFits`), and
  one that mirrors has another member to mirror from;
- each write that waits, in the hands of the main thread or of a poller, finds at its
  target what it was computed for (`WriteFits`): `absent` for an insertion, `blocked` and
  the same generation for a promotion, `failed` and not yet restricted for a retry.
  No two writes of a list but a `reassign` have the same target, and a list has writes
  of one kind only (`TodoFits`);
- nobody waits for a waiter (`Chainless`); who is made to wait for a row that waits
  itself has the promotion of that row before him in the list (`First`);
- a success is announced once: after the signal of a member that has the gallery its
  worker rests and no other signal of it is on the way (`Silent`, `SignalsFit`).  So
  there is never a second poller, nor a promotion besides the poller's (`PollersFit`),
  which is where three members differ: their failures are answered by promotions
  while a poller sleeps.

Each step then moves one head row in one of the ways that `UploadLifecycle` has
(`MoveOf`, with one lemma per kind of write and per place of a worker), and that it
does so keeps what the others rely on (`OrderInv`) and is the refinement
(`MoveKeepsPromise`, `OrderPromises`).  With members that all hash first there is never a
poller, since the md5 of who has the gallery is known.

### Galleries

For any galleries, images, refused images, settings, acts and bounds
(assumptions: `ImagesAssumption`, `ActsAssumption`, `NoneAssumption`,
`WorkerAssumption`), where a theorem excludes an act it does so as an ASSUME of
its own.  All are in `GalleryUploadProofs`:

- `TypeCorrect == Spec => []TypeOK`
- `UploadingGalleriesAreHeld == Spec => []UploadingIsHeld`
- `QueuedGalleriesAreInQueue == Spec => []QueuedIsInQueue`, without `disk`
- `NoImageIsLost == Spec => []ImagesAccounted` (and the invariant it rests on),
  without `reset`
- `ImagesAreStoredOnce == Spec => []StoredOnce`, without `reset`, `crash` and `lostanswer`
- `CompletedGalleriesHaveAll == Spec => []CompletedIsComplete`, without `reset`
- `UploadsDeliver == Spec => KeepsDelivery`, without `reset`, `crash` and `lostanswer`
- `RestartsKeepCompleted`: the property of the run `gallery_courses`, whose two
  courses are two of the theorems above with the acts of each
- `RestingStatusIsTrue == Spec => []SettledIsTrue`, with cancels, missing hosts and
  folders and a full disk, the host taking every image (`Plain`; wider than the run)

The two status invariants are inductive together with `TypeOK`.  The action
lemmas say from which act a status can come: `uploading` is only ever written by
`Begin`, `queued` only together with an entry; so each action either keeps the
status and the entry, or writes another status.

`ImagesAccounted` is not: a pass could end with images it has forgotten to
send, or send one twice at once.  `ImagesInv` adds that the images left, in
flight and failed are disjoint, that a pass with nothing in flight has images
left only after a stop (`Passes`), and that whatever is in `uploaded_files` was
accepted by the host (`DoneAccepted`).  `StoredOnce` follows from `SentIsDone`: an
image is stored once if it is in `uploaded_files` and not at all otherwise; those
that are in it are never sent.  The refinement of `ImageDelivery` is the step half of
that: under `StoredOnce` each step stores one image more, ends a gallery with what is
stored, or stutters; `ImageDelivery` takes for the images of a gallery those that the
host does not refuse, as a refused one is never delivered.

`SettledIsTrue` speaks of the end only.  `RestInv` follows a gallery from its last image
on: it is not begun again (`BegunOnce`: each writer of a status leaves it one from
which nothing starts), and until its pass is over, or else in its signals, it is
called completed, by the last of them (`AllTold`).  Once that one is handled the
item shows `completed` with its counts, which leaves a batch that comes later
nothing else to write.

### The queue and its tabs

- `QueueStoreProofs!RemovedGalleriesStayAway == QueueStoreSpec =>
  []RemovedStaysAway`, for any galleries and bounds.  A removed
  gallery is not in the queue, and its row is gone and in no job that waits, or is
  deleted by a job behind the last that saves it (`EndsGone`), or waits for its
  batch.  The writer takes jobs in order (`WriterKeepsGone`), saves name only what
  is in the queue (`NotSaved`), and a launch finds the jobs done or the row as the
  crash left it (`LoadKeeps`).  Ids play no part and stay untyped.

- `QueueStoreProofs!QuitsKeepTheQueue == QueueStoreSpec => []QuitKeepsQueue`, from
  `QueueAssumption`.  What is to be kept has a row that no job deletes, or a job that
  saves it with no deletion from there on (`EndsKept`); while no timer was ever made,
  everything in the queue is in the table (`NoTimerNoNews`), which is why `shutdown`
  may then save nothing.  An insertion succeeds because the ids of two galleries are
  apart wherever they are used - queue, table, waiting saves - and below the next one
  (`IdsApart`); a launch predicts from beyond the greatest id in the table, which
  exists because a set of numbers has a least upper bound (`Least`,
  `FreeIdIsBeyond`).

- `GalleryTabsProofs!TabsAreWhereChosen == ~NamesReturn => (TabsSpec =>
  []TabsSurviveQuit)` and `TabsTypeCorrect`, for any galleries, names and bounds,
  from `TabsAssumption`.  The invariant has two halves.  While the program runs,
  names are unique, and the name an item carries leads to the chosen tab, by way of
  the rename under way if there is one, or to Main because no tab has it any more
  (`Resolves`).  That is where `NamesReturn` would break it: a name given again
  leads somewhere else.  After the quit, what waits for the writer ends in the name
  the item has (`EndsWith`), or nothing else waits and the row, or the one in the
  writer's hands, is the chosen one (`Settled`).  Each taking of a save shifts or
  trims the queue (`Shifted`, `Trimmed`), each handing over appends to it.

### Renames and status checks

All in `RenameProofs`, for any galleries, checks and checkers:

- `RenamesTyped` (types), `NoRenameIsLost == Spec => []RenamesAccounted`.  The three
  threads differ in what they may hold; an action moves one thread (`Moves`), so
  there is one lemma per thread on what its step does to the queue, to what it
  holds and to the names.
- `OneThreadLogsIn == Spec => []OneLogin`.  `LoginInv` says that at most one thread is
  in a login of its own and that the flag is then set, and that until the first login is
  over the other two threads wait or have nothing to log in for.
- `CancelledStaysCancelled == Spec => []CancelHolds`.  Ids only grow, and whatever
  carries one - a check in the queue or in the hands of the status thread, an answer on
  its way, the results stored last - carries one that was given before; results of an
  earlier check are at most taken for those of a later one (`CancelInv`).

### Services

- `TransferProofs`, from `SlotsAssumption`: `UploadTypeCorrect`,
  `SlotsAreConserved == UploadSpec => []SlotsConserved` and
  `OnePartition == UploadSpec => []OneArchive`.  The count of admitted
  hosts changes by one with the permits; that needs the hosts to be finitely many
  and every thread to have a gallery while it is not idle (`Serving`).  That parts
  come of one archive needs `ArchiveInv`: only who holds the lock creates, and only
  where there is none; whoever sends has one; and whatever was sent is of the one that
  is registered.
- `TransferProofs`, from `MetricsAssumption`:
  `NothingIsLeft == MetricsSpec => []WrittenOnClose`.  The sentinel is in the queue,
  and the writer past its loop, only after `close` has set the flag
  (`SentinelIsLate`, `EndsAfterClose`); so what is queued after the writer's last
  look is late.  `NoTransferIsForgotten == MetricsSpec => []StatsAgree`: the difference
  between what is shown and what is on the disk is the sum over the records that
  are between the two, one of which each step of the writer moves (`StatsInv`); for
  the files this is said of a host only until it has had a transfer of several.
- `TransferProofs!TokensStayFresh == AccountSpec => []FreshTokens`, from
  `TokensAssumption`, for any number of clients and logins.  The invariant says
  who can know a token: one just given is known to nobody else until it is stored
  (`NewIsOwn`), because no token in use exceeds the number of logins
  (`AllIssued`); only who has a token sends or drops it (`SendsToken`); after the
  second login the token in use is the one it gave (`UsesRenewed`,
  `FirstIsFirst`).  The three kinds of step a client can make have a lemma each
  (`MovesOn`, `IsGiven`, and storing and clearing).
- `ForumProofs`, from `ForumAssumption`: `PostsTyped`, `HandEditsSurvive == ForumSpec =>
  ManualEditsKept` and `RecordsWhatItSent == ForumSpec => []PostedIsSent`, for any posts,
  modes and policies, whether or not the worker may use the connection.  The record of a post need
  not be what was sent while an answer is on its way, so the invariant follows each
  job and each answer: what it will record is what was sent by it, and no later one
  of the same post is ahead of it.
- `ServicesProofs!ScansTyped` and `StoppedScansStoreNothing == ScanSpec =>
  StoppedStoresNothing`, from
  `KindAssumption` and `ScanBoundsAssumption`.  The flag that stops a scan is shared by
  dashboards of a process; `ScanInv` says that each dashboard has at most one scan that
  runs, whose report is not yet made, and that a halted one finds its flag set until it
  is over.
- `ServicesProofs!ManagerTyped`, `ItemsAreNamedToTheirHost == ManagerSpec => []ItemsStayAtTheirHost`
  and `ScreenSettles == ManagerSpec => []ViewSettles`, from `FoldersAssumption` and
  `HostsAssumption`.  The second is not inductive: what the screen will show depends on
  the answers still to come.  The invariant says that the versions of the answers of one host
  come in order and none exceeds what is there (`FreshInv`), and that, unless an error was
  shown, the screen is right or a request or answer that waits will put it right
  (`Settling`).
- `ServicesProofs!ServicesTyped == Spec => []TypeOK` for the composition that the run
  `services` checks, from the type theorem of each of its parts.

### Only model-checked

Liveness (`WaitersReleased`, `RowsSettle`, `UploadsEnd`, `QueuedIsTaken`,
`RenamesHandled`, `ChecksAnswered`, `RowsServed`, `ScanReports`): fairness is out of the
prover's reach.  Every invariant and every action property that a run checks is stated
by a theorem, except `TurnsAreNotLost`, which is about three members of which none
hashes first, and where `OrderInv` does not hold.  Where a theorem has less than the run
that checks its property, TLC stands for the rest within the bounds of section 3:
`InFlightOwned` with archives of two parts (`settling`), and `NoWaitChain` with three
members of which none hashes first (`family_settles`).

## 6. Not modelled

Waiting (pause, polling sleep, back-off, cooldowns) delays steps and is left out:
steps may take any time.  `cancel_current_upload` has no caller.  Two families or
two galleries of a family are independent instances.  Of the gallery queue,
reordering and renaming galleries, saves in batch mode, the additive rescan
of a partly uploaded gallery, the upload of videos and covers are left out; of the
upload worker, hooks.  Of the tabs, merging and closing all, hidden and ordered
tabs, counts.  Adding and removing galleries is in QueueStore only, apart
from the upload: an entry of the worker's queue that outlives a removed gallery
belongs to nobody there.

Proxy pools have callers for the rotation only (failures are never reported and
hosts never checked), the disk monitor is a function of one measurement and one
tier, and artifacts are files made from one gallery.  None of them keeps a state
that another part relies on.

Of the services: the `cleanup_*` and `update_limits` functions, which nothing
calls; progress, storage totals and the connection limiter of the scanner, which
nobody asks for a slot; more than one forum, its templates and targets; periods,
peaks and queries of the statistics; the folder tree (loaded like the list),
account information, properties and history of the file manager; sessions by
cookie.  A call of the token cache is one step although the `QSettings` object
behind it is shared without a lock and its `beginGroup` and `endGroup` of two
threads could interleave.

About two thirds of the implementation's lines are widgets, dialogs, styling and
tables, and much of the rest parses what services answer: they keep no state of
a protocol, and a model of them would only repeat them.  The share of lines the
modules stand for is therefore small.  Every component has its reasons in
`PROJECT.json`.

## 7. Plan

1. done: the family protocol, its refinement and first theorems.
2. done: galleries and image upload with their theorems.
3. done: slots and archives, rename session, scanner, forum, statistics, file
   manager, account.
4. done: the queue on disk, tabs.  Galleries, further: an entry of the worker's queue
   that outlives its gallery; the additive rescan.
5. Proofs: done but for liveness.  Further: `InFlightOwned` for archives of many
   parts, `NoWaitChain` and `TurnsAreNotLost` for three members of which none hashes
   first.
6. Family protocol, further: mirrors whose plan lacks part 0 (bounded ids).
7. Artifacts: that the file written last is made from the data that came last.

Runs are kept few: a component that joins shares a run where it can.  Hazards
that only a fix could bring under a property are in section 4 and not in
`PROJECT.json`.
