----------------------- MODULE HostFamilyCoordinator -----------------------
(***************************************************************************)
(* What runs on the main thread and on the md5 poller threads:             *)
(*                                                                         *)
(*  - HostFamilyCoordinator.on_host_gallery_settled, which reacts to the   *)
(*    workers' signals by changing rows of the table;                      *)
(*  - queue_file_host_uploads_for_gallery and the manual reupload, which   *)
(*    add rows (both are called from the main thread);                     *)
(*  - _md5_fetch_worker, one Timer thread per scheduled poll.              *)
(*                                                                         *)
(* Each reads the head rows in one step and then writes row by row, in     *)
(* steps of its own: todo is what such a loop has still to write.          *)
(***************************************************************************)
EXTENDS UploadRows

CONSTANT TriggerSets    \* the sets of hosts a trigger may queue together

ASSUME TriggerAssumption == TriggerSets \subseteq (SUBSET Hosts) \ {{}}

VARIABLES main, pollers

-----------------------------------------------------------------------------
(* Writes to a head row; on is the id a blocked row will point at. *)

WriteOp == {"queuePending", "queueBlocked", "unblock", "promote", "reassign",
            "retryNow", "retryWait"}

Write == [op : WriteOp, id : RowId, on : RowId \union {NoId}]

W(op, id, on) == [op |-> op, id |-> id, on |-> on]

\* Mutants: the waiters are reassigned before the next one is promoted; the
\* siblings are queued before the primary.
First_PromoteLate(todo) == {w \in todo : w.op = "queuePending"}
First_QueueLate(todo) == {w \in todo : w.op = "promote"}

\* Writes the code makes before the rest of its loop.
First(todo) == {w \in todo : w.op \in {"promote", "queuePending"}}

Updated(row, w) ==
    CASE w.op = "unblock"   -> [row EXCEPT !.status = "pending"]
      [] w.op = "promote"   -> [row EXCEPT !.status = "pending",
                                           !.blockedBy = NoId]
      [] w.op = "reassign"  -> [row EXCEPT !.blockedBy = w.on]
      [] w.op = "retryNow"  -> [row EXCEPT !.status = "pending",
                                           !.dedupOnly = TRUE,
                                           !.blockedBy = NoId]
      [] w.op = "retryWait" -> [row EXCEPT !.status = "blocked",
                                           !.dedupOnly = TRUE,
                                           !.blockedBy = w.on]
      [] OTHER              -> row

Apply(rs, w) ==
    CASE w.op = "queuePending" -> AddRow(rs, w.id.host, 0, "pending", NoId, FALSE)
      [] w.op = "queueBlocked" -> AddRow(rs, w.id.host, 0, "blocked", w.on, FALSE)
      [] OTHER -> UpdateRow(rs, w.id, Updated(rs[Place(w.id)], w))

-----------------------------------------------------------------------------
\* "react": a signal has been taken, no row read yet; "unblock": about to
\* read the waiters of primary; "write": applying todo, then the retry scan;
\* "scan": about to read for the retry scan; "finish": applying the last todo.
MainPc == {"idle", "react", "unblock", "write", "scan", "finish"}

NoEvent == [kind |-> "settled", host |-> 0, ok |-> FALSE]

MainState == [pc      : MainPc,
              ev      : Event \union {NoEvent},
              primary : RowId \union {NoId},
              todo    : SUBSET Write]

\* "timer": not fired yet; "poll": asking the backend; "unblock": about to
\* read the waiters; "write": applying todo.  registered: the poller is the
\* one _pending_timers holds for its primary.  n tells pollers apart.
PollerPc == {"timer", "poll", "unblock", "write"}

Poller == [n : Nat, primary : RowId, pc : PollerPc, registered : BOOLEAN,
           todo : SUBSET Write]

CoordinatorTypeOK ==
    /\ main \in MainState
    /\ pollers \in SUBSET Poller

MainIdle == [pc |-> "idle", ev |-> NoEvent, primary |-> NoId, todo |-> {}]

CoordinatorInit == main = MainIdle /\ pollers = {}

MainGo(pc, todo) == main' = [main EXCEPT !.pc = pc, !.todo = todo,
                                         !.primary = NoId]

\* Head rows of the family, as _family_rows returns them.
Heads == HeadHosts(rows)
HeadRow(h) == rows[<<h, 0>>]
HeadId(h) == IdAt(rows, h, 0)
BlockedHeads == {h \in Heads : HeadRow(h).status = "blocked"}
WaitersOn(id) == {h \in BlockedHeads : HeadRow(h).blockedBy = id}

Unblocks(id) == {W("unblock", HeadId(h), NoId) : h \in WaitersOn(id)}

-----------------------------------------------------------------------------
(* queue_file_host_uploads_for_gallery and _queue_file_host_upload *)

\* select_primary: the member with the highest priority.
Primary(S) == CHOOSE h \in S : \A g \in S : h <= g

QueuePlain(S) == {W("queuePending", HeadId(h), NoId) : h \in S}

\* The siblings wait for the id that the primary's new row will have.
QueueFamily(S) ==
    LET first == Primary(S) IN
    QueuePlain({first}) \union
      {W("queueBlocked", HeadId(h), NextId(rows, first, 0)) : h \in S \ {first}}

QueueGallery(S) ==
    /\ main.pc = "idle"
    /\ MainGo("finish", IF dedup /\ Cardinality(S) > 1 THEN QueueFamily(S)
                                                       ELSE QueuePlain(S))
    /\ UNCHANGED <<tableVars, pollers>>

\* The primary's row could not be inserted: every member goes in plain.
QueuePrimaryFails ==
    /\ main.pc = "finish"
    /\ \E w \in main.todo :
        /\ w.op = "queueBlocked"
        /\ rows[Place(w.on)].gen < w.on.gen
        /\ MainGo("finish", QueuePlain({v.id.host : v \in main.todo}))
    /\ UNCHANGED <<tableVars, pollers>>

\* Offered for a row in any state, and for a host that has no row yet.
Reupload(h) ==
    /\ main.pc = "idle"
    /\ rows' = AddRow(rows, h, 0, "pending", NoId, FALSE)
    /\ UNCHANGED <<events, dedup, main, pollers>>

-----------------------------------------------------------------------------
(* on_host_gallery_settled *)

\* Qt delivers the queued signals in order; with dedup off one is dropped.
TakeEvent ==
    /\ main.pc = "idle"
    /\ events # <<>> /\ events[1].kind = "settled"
    /\ events' = Tail(events)
    /\ main' = IF dedup
               THEN [main EXCEPT !.pc = "react", !.ev = events[1]]
               ELSE main
    /\ UNCHANGED <<rows, dedup, pollers>>

\* Pollers once the one of this primary is replaced: a Timer that has not
\* fired is cancelled, a poller that is already running runs on unregistered.
Displaced(id) ==
    {IF p.primary = id THEN [p EXCEPT !.registered = FALSE] ELSE p :
        p \in {q \in pollers : q.primary # id \/ ~q.registered
                                              \/ q.pc # "timer"}}

NewPoller(id) ==
    [n |-> CHOOSE n \in 0 .. Cardinality(pollers) : \A p \in pollers : p.n # n,
     primary |-> id, pc |-> "timer", registered |-> TRUE, todo |-> {}]

\* _handle_success and _schedule_md5_fetch
HandleSuccess ==
    LET h == main.ev.host IN
    /\ main.pc = "react" /\ main.ev.ok
    /\ IF h \notin Heads \/ WaitersOn(HeadId(h)) = {}
       THEN MainGo("scan", {}) /\ UNCHANGED pollers
       ELSE IF HeadRow(h).md5 \/ ~HeadRow(h).url
       THEN /\ main' = [main EXCEPT !.pc = "unblock", !.primary = HeadId(h)]
            /\ UNCHANGED pollers
       ELSE /\ MainGo("scan", {})
            /\ pollers' = Displaced(HeadId(h)) \union {NewPoller(HeadId(h))}
    /\ UNCHANGED tableVars

\* _unblock_family_waiters, called by _handle_success
MainUnblock ==
    /\ main.pc = "unblock"
    /\ MainGo("write", Unblocks(main.primary))
    /\ UNCHANGED <<tableVars, pollers>>

Reassignments(h, next) ==
    {W("reassign", HeadId(g), HeadId(next)) : g \in WaitersOn(HeadId(h)) \ {next}}

\* Mutant: every blocked member is promoted.
Promotion_OfAll(h) ==
    {W("promote", HeadId(g), NoId) : g \in BlockedHeads \ {h}}

Promotion(h) ==
    LET next == Primary(BlockedHeads \ {h}) IN
    {W("promote", HeadId(next), NoId)} \union Reassignments(h, next)

\* Nobody to promote for h: it was not a primary, or nobody waits.
NotPromoting(h) ==
    \/ h \notin Heads
    \/ HeadRow(h).blockedBy # NoId
    \/ BlockedHeads \ {h} = {}

\* Mutant: without a promotion there is no retry scan either.
HandleFailure_NoScan ==
    LET h == main.ev.host IN
    /\ main.pc = "react" /\ ~main.ev.ok
    /\ IF NotPromoting(h) THEN MainGo("finish", {})
                          ELSE MainGo("write", Promotion(h))
    /\ UNCHANGED <<tableVars, pollers>>

\* _handle_failure
HandleFailure ==
    LET h == main.ev.host IN
    /\ main.pc = "react" /\ ~main.ev.ok
    /\ IF NotPromoting(h) THEN MainGo("scan", {})
                          ELSE MainGo("write", Promotion(h))
    /\ UNCHANGED <<tableVars, pollers>>

\* Mutants: a row is retried whatever it is doing; a failed retry is retried.
Losers_AnyStatus ==
    {h \in Heads : HeadRow(h).status # "completed" /\ ~HeadRow(h).dedupOnly}
Losers_Again == {h \in Heads : HeadRow(h).status = "failed"}

Losers ==
    {h \in Heads : HeadRow(h).status = "failed" /\ ~HeadRow(h).dedupOnly}

RetryOf(g, winner) ==
    IF HeadRow(winner).md5 THEN W("retryNow", HeadId(g), NoId)
                           ELSE W("retryWait", HeadId(g), HeadId(winner))

\* _run_family_retry_scan: the first completed row of an unordered query.
RetryScan ==
    LET winners == {h \in Heads : HeadRow(h).status = "completed"} IN
    /\ main.pc = "scan"
    /\ IF winners = {}
       THEN MainGo("finish", {})
       ELSE \E w \in winners : MainGo("finish", {RetryOf(g, w) : g \in Losers})
    /\ UNCHANGED <<tableVars, pollers>>

\* The one write whose failure is noticed (see QueuePrimaryFails).
PrimaryInsert(w) ==
    w.op = "queuePending" /\ \E v \in main.todo : v.op = "queueBlocked"

MainWrite ==
    /\ main.pc \in {"write", "finish"}
    /\ \E w \in main.todo :
        /\ First(main.todo) # {} => w \in First(main.todo)
        /\ \/ Commits(Apply(rows, w)) /\ ~PrimaryInsert(w)
           \/ rows' = Apply(rows, w) /\ PrimaryInsert(w) /\ UNCHANGED faults
        /\ main' = [main EXCEPT !.todo = @ \ {w}]
    /\ UNCHANGED <<events, dedup, pollers>>

WritesDone ==
    /\ main.todo = {}
    /\ \/ main.pc = "write"  /\ MainGo("scan", {})
       \/ main.pc = "finish" /\ main' = MainIdle
    /\ UNCHANGED <<tableVars, pollers>>

\* An exception in a handler is logged and the rest of it is skipped.
HandlerFails ==
    /\ main.pc # "idle" /\ main.ev.host # 0
    /\ main' = MainIdle
    /\ UNCHANGED <<tableVars, pollers>>

MainStep ==
    \/ MainWrite
    \/ /\ \/ TakeEvent \/ HandleSuccess \/ MainUnblock \/ HandleFailure
          \/ RetryScan \/ WritesDone
       /\ UNCHANGED faults

-----------------------------------------------------------------------------
(* _md5_fetch_worker *)

Replace(p, q) == pollers' = (pollers \ {p}) \union {q}

\* The attempts and the pauses between them are one step's delay.
Fire(p) ==
    /\ p.pc = "timer"
    /\ Replace(p, [p EXCEPT !.pc = "poll"])
    /\ UNCHANGED <<tableVars, main>>

\* Mutant: a poller that gives up leaves the waiters to themselves.
PollMd5_LeavesWaiters(p) ==
    /\ p.pc = "poll"
    /\ \/ /\ rows' = UpdateRow(rows, p.primary,
                       [rows[Place(p.primary)] EXCEPT !.md5 = TRUE])
          /\ Replace(p, [p EXCEPT !.pc = "unblock"])
       \/ UNCHANGED rows /\ Replace(p, [p EXCEPT !.pc = "write"])
    /\ UNCHANGED <<events, dedup, main>>

PollMd5(p) ==
    /\ p.pc = "poll"
    /\ \/ rows' = UpdateRow(rows, p.primary,
                    [rows[Place(p.primary)] EXCEPT !.md5 = TRUE])
       \/ UNCHANGED rows
    /\ Replace(p, [p EXCEPT !.pc = "unblock"])
    /\ UNCHANGED <<events, dedup, main>>

PollerUnblock(p) ==
    /\ p.pc = "unblock"
    /\ Replace(p, [p EXCEPT !.pc = "write", !.todo = Unblocks(p.primary)])
    /\ UNCHANGED <<tableVars, main>>

PollerWrite(p) ==
    /\ p.pc = "write"
    /\ \E w \in p.todo :
        /\ Commits(Apply(rows, w))
        /\ Replace(p, [p EXCEPT !.todo = @ \ {w}])
    /\ UNCHANGED <<events, dedup, main>>

\* The finally clause drops whichever Timer is registered for the primary.
Deregistered(p) ==
    {IF q.primary = p.primary THEN [q EXCEPT !.registered = FALSE] ELSE q :
        q \in pollers \ {p}}

PollerEnds(p) ==
    /\ p.pc = "write" /\ p.todo = {}
    /\ pollers' = Deregistered(p)
    /\ UNCHANGED <<tableVars, main>>

PollerFails(p) ==
    /\ p.pc # "timer"
    /\ pollers' = Deregistered(p)
    /\ UNCHANGED <<tableVars, main>>

PollerStep ==
    \E p \in pollers :
        \/ PollerWrite(p)
        \/ /\ Fire(p) \/ PollMd5(p) \/ PollerUnblock(p) \/ PollerEnds(p)
           /\ UNCHANGED faults
=============================================================================
