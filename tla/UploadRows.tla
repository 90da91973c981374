----------------------------- MODULE UploadRows -----------------------------
(***************************************************************************)
(* The file_host_uploads table of one gallery, as the members of one      *)
(* backend family (keep2share, fileboom, tezfiles) share it, and the two   *)
(* other things its readers and writers share: the queue of the            *)
(* workers' signals and the dedup setting.                                 *)
(*                                                                         *)
(* Every QueueStore call opens its own connection and commits on its own,  *)
(* so one call is one atomic step of whoever makes it, and two calls of    *)
(* the same function are two steps.                                        *)
(*                                                                         *)
(* Columns no decision of the family protocol reads are left out (paths,   *)
(* byte counts, timestamps, messages, deduped).  Of md5_hash and           *)
(* download_url only their usability is kept: all the code asks is whether *)
(* there is one.                                                           *)
(***************************************************************************)
EXTENDS Integers, FiniteSets, Sequences

CONSTANTS
    NumHosts,   \* members of the family; host 1 has the highest priority
    NumParts,   \* largest number of parts an archive of the gallery has
    Faults,     \* what may go wrong around the protocol, by name
    MaxFaults   \* bound: user actions and failures in one behaviour

ASSUME FaultAssumption ==
    /\ Faults \subseteq {"folder", "badurl", "dbfail", "lostwrite", "stop",
                         "spinup", "toggle", "crash", "shutdown", "requeue",
                         "reupload", "bookkeeping"}
    /\ MaxFaults \in Nat

ASSUME SizeAssumption == NumHosts \in Nat \ {0} /\ NumParts \in Nat \ {0}

VARIABLES
    rows,       \* the table: one row for each host and part
    events,     \* signals of the workers that the main thread has not taken
    dedup,      \* the k2s_family_dedup_enabled setting
    faults      \* how many faults have happened

tableVars == <<rows, events, dedup>>

-----------------------------------------------------------------------------
Hosts == 1 .. NumHosts
Parts == 0 .. (NumParts - 1)

(***************************************************************************)
(* The primary key.  INSERT OR REPLACE never reuses the id of the row it   *)
(* replaces, so an id is the row's place in the table and the number of    *)
(* times that place has been filled.                                       *)
(***************************************************************************)
RowId == [host : Hosts, part : Parts, gen : Nat]
NoId  == [host |-> 0, part |-> 0, gen |-> 0]

Status == {"absent", "pending", "blocked", "uploading", "completed", "failed"}

Row == [gen       : Nat,
        status    : Status,
        blockedBy : RowId \union {NoId},   \* blocked_by_upload_id
        dedupOnly : BOOLEAN,               \* dedup_only
        md5       : BOOLEAN,               \* md5_hash is set
        url       : BOOLEAN,               \* download_url names a /file/<id>/
        retries   : Nat]                   \* retry_count

\* host_gallery_settled (the outcome of a gallery) and spinup_complete (of
\* the credentials test).
Event == [kind : {"settled", "spun"}, host : Hosts, ok : BOOLEAN]

Settled(h, ok) == [kind |-> "settled", host |-> h, ok |-> ok]
Spun(h, ok)    == [kind |-> "spun", host |-> h, ok |-> ok]

Table == [Hosts \X Parts -> Row]

TableTypeOK ==
    /\ rows \in Table
    /\ events \in Seq(Event)
    /\ dedup \in BOOLEAN

NewRow(gen, status, by, only) ==
    [gen |-> gen, status |-> status, blockedBy |-> by, dedupOnly |-> only,
     md5 |-> FALSE, url |-> FALSE, retries |-> 0]

TableInit ==
    /\ rows = [k \in Hosts \X Parts |-> NewRow(0, "absent", NoId, FALSE)]
    /\ events = <<>>
    /\ dedup = TRUE
    /\ faults = 0

Charge(kind) ==
    /\ kind \in Faults
    /\ faults < MaxFaults
    /\ faults' = faults + 1

-----------------------------------------------------------------------------
(* QueueStore operations on a table rs. *)

Place(id) == <<id.host, id.part>>

IdAt(rs, h, p) == [host |-> h, part |-> p, gen |-> rs[<<h, p>>].gen]

\* The id an INSERT OR REPLACE at this place hands out.
NextId(rs, h, p) == [IdAt(rs, h, p) EXCEPT !.gen = @ + 1]

\* The row that has this id is still there.
Live(rs, id) == rs[Place(id)].gen = id.gen

\* add_file_host_upload: replaces what the unique index finds in its way.
AddRow(rs, h, p, status, by, only) ==
    [rs EXCEPT ![<<h, p>>] = NewRow(@.gen + 1, status, by, only)]

\* update_file_host_upload: WHERE id = ?, so nothing when the row is gone.
UpdateRow(rs, id, new) ==
    IF Live(rs, id) THEN [rs EXCEPT ![Place(id)] = new] ELSE rs

\* The table is written, or the store logs the error and reports False, which
\* no caller looks at.
Commits(new) ==
    \/ rows' = new /\ UNCHANGED faults
    \/ Charge("lostwrite") /\ UNCHANGED rows

SetStatus(rs, id, status) ==
    UpdateRow(rs, id, [rs[Place(id)] EXCEPT !.status = status])

\* get_family_head_rows
HeadHosts(rs) == {h \in Hosts : rs[<<h, 0>>].status # "absent"}

\* get_family_completed_parts: for each part the row with an md5 first, then
\* the one of the host with the highest priority.
CompletedAt(rs, p) == {h \in Hosts : rs[<<h, p>>].status = "completed"}

BestAt(rs, p) ==
    CHOOSE h \in CompletedAt(rs, p) :
        \A g \in CompletedAt(rs, p) \ {h} :
            \/ rs[<<h, p>>].md5 /\ ~rs[<<g, p>>].md5
            \/ rs[<<h, p>>].md5 = rs[<<g, p>>].md5 /\ h < g

\* ... of which a worker keeps the rows that are not its own host's.
SiblingParts(rs, h) ==
    {p \in Parts : CompletedAt(rs, p) # {} /\ BestAt(rs, p) # h}
=============================================================================
