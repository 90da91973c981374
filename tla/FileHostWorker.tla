--------------------------- MODULE FileHostWorker ---------------------------
(***************************************************************************)
(* FileHostWorker: one thread per file host.  It polls the table for       *)
(* pending rows of its host, first tries to mirror what a sibling has      *)
(* already stored (createFileByHash), and otherwise archives the gallery   *)
(* and uploads it part by part.  Each terminal point but two announces the *)
(* outcome with a host_gallery_settled signal.                             *)
(*                                                                         *)
(* A step is what a worker does between two accesses to the table: what it *)
(* remembers across them, in worker[h], may be stale by the next one.      *)
(* Waiting (the pause flag, the polling sleep, an upload slot) only delays *)
(* a step.                                                                 *)
(***************************************************************************)
EXTENDS UploadRows

CONSTANTS
    MaxRetries,     \* the host's max_retries (0 when auto_retry is off)
    HashFirst       \* hosts configured with require_file_hash

ASSUME WorkerAssumption == MaxRetries \in Nat /\ HashFirst \subseteq Hosts

VARIABLE worker

-----------------------------------------------------------------------------
\* pc is the next step: "probe" and "commit" are in _try_family_mirror,
\* "archive" to "except" in _process_upload.
WorkerPc == {"spinup", "idle", "stopped", "picked", "probe", "commit",
             "commitPart", "missed", "archive", "part", "send", "except",
             "settle", "announce"}

WorkerState ==
    [pc        : WorkerPc,
     row       : RowId \union {NoId},   \* the pending row it took
     dedupOnly : BOOLEAN,               \* dedup_only of that row when taken
     plan      : SUBSET Parts,          \* sibling parts it is mirroring
     part      : 0 .. NumParts,         \* next part of the archive
     count     : 0 .. NumParts,         \* parts of the archive
     current   : RowId \union {NoId},   \* current_upload_id
     retryable : BOOLEAN,               \* _is_retryable_error of the failure
     ok        : BOOLEAN,               \* outcome to announce
     stop      : BOOLEAN,               \* _stop_event
     enabled   : BOOLEAN]               \* the host's "enabled" setting

WorkerTypeOK == worker \in [Hosts -> WorkerState]

Fresh == [pc |-> "idle", row |-> NoId, dedupOnly |-> FALSE, plan |-> {},
          part |-> 0, count |-> 0, current |-> NoId, retryable |-> FALSE,
          ok |-> FALSE, stop |-> FALSE, enabled |-> TRUE]

WorkerInit == worker = [h \in Hosts |-> Fresh]

At(h, pc) == worker[h].pc = pc

Go(h, pc) == worker' = [worker EXCEPT ![h].pc = pc]

\* Back to the top of the loop; only the flag and the setting outlive a row.
Rest(h) ==
    worker' = [worker EXCEPT ![h] = [Fresh EXCEPT !.stop = worker[h].stop,
                                                  !.enabled = worker[h].enabled]]

\* Out of _process_upload, into the finally clause around it.
ToSettle(h) ==
    worker' = [worker EXCEPT ![h] = [Fresh EXCEPT !.pc = "settle",
                                                  !.row = worker[h].row,
                                                  !.stop = worker[h].stop,
                                                  !.enabled = worker[h].enabled]]

Fail(h) ==
    \E retryable \in BOOLEAN :
        worker' = [worker EXCEPT ![h].pc = "except", ![h].retryable = retryable]

-----------------------------------------------------------------------------
(* run *)

\* A part row is only ever pending when a mirror was cut off between adding
\* and completing it.  created_ts puts it after the head row, unless the head
\* has been replaced since.
Pick(h) ==
    /\ At(h, "idle") /\ ~worker[h].stop
    /\ \E p \in Parts :
        /\ rows[<<h, p>>].status = "pending"
        /\ p = 0 \/ rows[<<h, 0>>].status # "pending" \/ rows[<<h, 0>>].gen > 1
        /\ worker' = [worker EXCEPT ![h].pc = "picked",
                                    ![h].row = IdAt(rows, h, p),
                                    ![h].dedupOnly = rows[<<h, p>>].dedupOnly]
    /\ UNCHANGED tableVars

\* The gallery folder is gone, or the host was disabled after the row was
\* read: the row fails and nothing is announced.
FailFast(h) ==
    /\ At(h, "picked")
    /\ "folder" \in Faults \/ ~worker[h].enabled
    /\ Commits(SetStatus(rows, worker[h].row, "failed"))
    /\ Rest(h)
    /\ UNCHANGED <<events, dedup>>

Quit(h) ==
    /\ At(h, "idle") /\ worker[h].stop
    /\ Go(h, "stopped")
    /\ UNCHANGED tableVars

-----------------------------------------------------------------------------
(* _try_family_mirror *)

\* Mutant: a sibling part without md5 is probed all the same.
Mirrorable_NoMd5(h) == dedup /\ ~worker[h].stop /\ SiblingParts(rows, h) # {}

Mirrorable(h) ==
    /\ dedup /\ ~worker[h].stop
    /\ SiblingParts(rows, h) # {}
    /\ \A p \in SiblingParts(rows, h) : rows[<<BestAt(rows, p), p>>].md5

ReadSiblings(h) ==
    /\ At(h, "picked")
    /\ IF Mirrorable(h)
       THEN worker' = [worker EXCEPT ![h].pc = "probe",
                                     ![h].plan = SiblingParts(rows, h)]
       ELSE Go(h, "missed")
    /\ UNCHANGED tableVars

\* try_create_by_hash for every part; one miss, an error or a stop ends it.
Probe(h) ==
    /\ At(h, "probe")
    /\ \/ ~worker[h].stop /\ Go(h, "commit")
       \/ worker' = [worker EXCEPT ![h].pc = "missed", ![h].plan = {}]
    /\ UNCHANGED tableVars

\* The commit phase adds and completes each further part, the head row last.
CommitAdd(h) ==
    /\ At(h, "commit")
    /\ \E p \in worker[h].plan \ {0} :
        /\ \A q \in worker[h].plan \ {0} : p <= q
        /\ rows' = AddRow(rows, h, p, "pending", NoId, TRUE)
        /\ worker' = [worker EXCEPT ![h].pc = "commitPart",
                                    ![h].current = NextId(rows, h, p)]
    /\ UNCHANGED <<events, dedup>>

Mirrored(row) == [row EXCEPT !.status = "completed", !.md5 = TRUE,
                             !.url = TRUE]

CommitPart(h) ==
    LET id == worker[h].current IN
    /\ At(h, "commitPart")
    /\ Commits(UpdateRow(rows, id, Mirrored(rows[Place(id)])))
    /\ worker' = [worker EXCEPT ![h].pc = "commit", ![h].current = NoId,
                                ![h].plan = @ \ {id.part}]
    /\ UNCHANGED <<events, dedup>>

\* The table once the head row is mirrored, if its part was one of the set.
WithHead(h) ==
    LET id == worker[h].row IN
    IF 0 \in worker[h].plan THEN UpdateRow(rows, id, Mirrored(rows[Place(id)])) ELSE rows

CommitHead(h) ==
    /\ At(h, "commit") /\ worker[h].plan \subseteq {0}
    /\ Commits(WithHead(h))
    /\ worker' = [worker EXCEPT ![h].pc = "announce", ![h].ok = TRUE,
                                ![h].plan = {}]
    /\ UNCHANGED <<events, dedup>>

-----------------------------------------------------------------------------
(* _process_single_pending_row and _process_upload *)

\* A dedup_only row never falls back to an upload.
GiveUp(h) ==
    /\ At(h, "missed") /\ worker[h].dedupOnly
    /\ Commits(SetStatus(rows, worker[h].row, "failed"))
    /\ worker' = [worker EXCEPT ![h].pc = "announce", ![h].ok = FALSE]
    /\ UNCHANGED <<events, dedup>>

StartUpload(h) ==
    /\ At(h, "missed") /\ ~worker[h].dedupOnly
    /\ Commits(SetStatus(rows, worker[h].row, "uploading"))
    /\ Go(h, "archive")
    /\ UNCHANGED <<events, dedup>>

\* Hosts split by their own size limit, so each has its own number of parts.
Archive(h) ==
    /\ At(h, "archive")
    /\ \/ Fail(h)
       \/ \E n \in 1 .. NumParts :
            worker' = [worker EXCEPT ![h].pc = "part", ![h].part = 0,
                                     ![h].count = n]
    /\ UNCHANGED tableVars

\* Nobody looks at the md5 of a row that is not completed, so writing it is
\* part of the same step.
WithHash(h, row) == [row EXCEPT !.md5 = @ \/ h \in HashFirst]

\* Every part but the first gets a row when its turn comes.
WithPartRow(h, p) ==
    IF p = 0 THEN rows ELSE AddRow(rows, h, p, "uploading", NoId, FALSE)

BeginPart(h) ==
    LET p  == worker[h].part
        id == IF p = 0 THEN worker[h].row ELSE NextId(rows, h, p)
        rs == WithPartRow(h, p)
    IN
    /\ At(h, "part") /\ ~worker[h].stop /\ p < worker[h].count
    /\ rows' = UpdateRow(rs, id, WithHash(h, rs[Place(id)]))
    /\ worker' = [worker EXCEPT ![h].pc = "send", ![h].current = id]
    /\ UNCHANGED <<events, dedup>>

\* upload_file returns.  Whether it transferred the part or found it by the
\* md5 of a sibling makes no difference to the table.
SendPart(h) ==
    LET id == worker[h].current IN
    /\ At(h, "send")
    /\ \/ /\ \E url \in IF "badurl" \in Faults THEN BOOLEAN ELSE {TRUE} :
                Commits(UpdateRow(rows, id,
                            [rows[Place(id)] EXCEPT !.status = "completed",
                                                    !.url = url]))
          /\ worker' = [worker EXCEPT ![h].pc = "part", ![h].current = NoId,
                                      ![h].part = @ + 1]
       \/ Fail(h) /\ UNCHANGED <<rows, faults>>
    /\ UNCHANGED <<events, dedup>>

\* The loop over the parts ends: all are sent, or a stop broke it, which is
\* taken for the same thing unless no part was sent (there is no result then).
EndParts(h) ==
    /\ At(h, "part")
    /\ worker[h].part = worker[h].count \/ worker[h].stop
    /\ IF worker[h].part = 0
       THEN worker' = [worker EXCEPT ![h].pc = "except", ![h].retryable = TRUE]
       ELSE ToSettle(h)
    /\ UNCHANGED tableVars

Requeued(id) ==
    UpdateRow(rows, id, [rows[Place(id)] EXCEPT !.status = "pending",
                                                !.retries = @ + 1])

\* A row that is gone counts as one never retried.
RetriesLeft(id) ==
    (IF Live(rows, id) THEN rows[Place(id)].retries ELSE 0) < MaxRetries

\* Mutant: only retryable failures are written back.
AfterError_Unwritten(h) ==
    LET id == worker[h].row IN
    IF worker[h].retryable
    THEN IF RetriesLeft(id) THEN Requeued(id) ELSE SetStatus(rows, id, "failed")
    ELSE rows

AfterError(h) ==
    LET id == worker[h].row IN
    IF worker[h].retryable /\ RetriesLeft(id) THEN Requeued(id)
                                             ELSE SetStatus(rows, id, "failed")

\* The except clause: back to pending while retries remain, else failed.
HandleError(h) ==
    /\ At(h, "except")
    /\ Commits(AfterError(h))
    /\ ToSettle(h)
    /\ UNCHANGED <<events, dedup>>

\* The finally clause reads every row of the host, then announces.
ReadOutcome(h) ==
    /\ At(h, "settle")
    /\ worker' = [worker EXCEPT ![h].pc = "announce",
                    ![h].ok = \A p \in Parts :
                        rows[<<h, p>>].status \in {"absent", "completed"}]
    /\ UNCHANGED tableVars

Announce(h) ==
    /\ At(h, "announce")
    /\ events' = Append(events, Settled(h, worker[h].ok))
    /\ Rest(h)
    /\ UNCHANGED <<rows, dedup>>

-----------------------------------------------------------------------------
WorkerStep(h) ==
    \/ FailFast(h) \/ CommitPart(h) \/ CommitHead(h) \/ GiveUp(h)
    \/ StartUpload(h) \/ SendPart(h) \/ HandleError(h)
    \/ /\ \/ Pick(h) \/ Quit(h) \/ ReadSiblings(h) \/ Probe(h) \/ CommitAdd(h)
          \/ Archive(h) \/ BeginPart(h) \/ EndParts(h)
          \/ ReadOutcome(h) \/ Announce(h)
       /\ UNCHANGED faults

(* A QueueStore call raises: the database cannot be opened. *)

\* In the commit phase that counts as a miss.
CommitFails(h) ==
    /\ At(h, "commit") \/ At(h, "commitPart")
    /\ worker' = [worker EXCEPT ![h].pc = "missed", ![h].plan = {},
                                ![h].current = NoId]
    /\ UNCHANGED tableVars

\* Before the try of _process_single_pending_row only run() catches it, and
\* goes on with the next row.
RowDropped(h) ==
    /\ At(h, "picked") \/ (At(h, "missed") /\ worker[h].dedupOnly)
    /\ Rest(h)
    /\ UNCHANGED tableVars

\* Marking the row uploading, or the failure handling itself, raises: the
\* finally clause is next.
UploadDropped(h) ==
    /\ At(h, "except") \/ (At(h, "missed") /\ ~worker[h].dedupOnly)
    /\ ToSettle(h)
    /\ UNCHANGED tableVars

\* A part cannot be added, or not updated after that.
BeginPartFails(h) ==
    /\ At(h, "part") /\ ~worker[h].stop /\ worker[h].part < worker[h].count
    /\ rows' \in {rows, WithPartRow(h, worker[h].part)}
    /\ worker' = [worker EXCEPT ![h].pc = "except", ![h].retryable = TRUE]
    /\ UNCHANGED <<events, dedup>>

OutcomeUnread(h) ==
    /\ At(h, "settle")
    /\ worker' = [worker EXCEPT ![h].pc = "announce", ![h].ok = FALSE]
    /\ UNCHANGED tableVars

WorkerDbFails(h) ==
    \/ CommitFails(h) \/ RowDropped(h) \/ UploadDropped(h)
    \/ BeginPartFails(h) \/ OutcomeUnread(h)

-----------------------------------------------------------------------------
(* What is written down about a transfer raises after its row is marked     *)
(* completed: a count, the session, the size of the archive.                *)

\* Caught by the except clause, which fails the head row or requeues it.
SentUnrecorded(h) ==
    /\ At(h, "part") /\ worker[h].part > 0
    /\ Fail(h)
    /\ UNCHANGED tableVars

\* Caught by _try_family_mirror, which reports a miss.
MirrorUnrecorded(h) ==
    /\ At(h, "commit") /\ worker[h].plan \subseteq {0}
    /\ rows' = WithHead(h)
    /\ worker' = [worker EXCEPT ![h].pc = "missed", ![h].plan = {}]
    /\ UNCHANGED <<events, dedup>>

Unrecorded(h) == SentUnrecorded(h) \/ MirrorUnrecorded(h)
=============================================================================
