----------------------------- MODULE HostFamily -----------------------------
(***************************************************************************)
(* The upload of one gallery to the hosts of one backend family: the       *)
(* workers and their manager, the main thread and the md5 pollers over the *)
(* shared table.                                                           *)
(***************************************************************************)
EXTENDS FileHostWorkerManager, HostFamilyCoordinator

vars == <<rows, events, dedup, faults, worker, registry, manager, main, pollers>>

-----------------------------------------------------------------------------
TypeOK ==
    /\ TableTypeOK
    /\ WorkerTypeOK
    /\ ManagerTypeOK
    /\ CoordinatorTypeOK
    /\ faults \in Nat

Init ==
    /\ TableInit
    /\ WorkerInit
    /\ ManagerInit
    /\ CoordinatorInit

\* The main thread is not held up in disable_host.
MainFree == manager.mode # "disabling"

\* The user is served on the main thread, between two signals, and no more
\* once the program closes.
AtRest == main.pc = "idle" /\ manager.mode = "idle"

\* The first trigger that fires for the gallery.
FirstTrigger ==
    /\ MainFree
    /\ \A h \in Hosts : rows[<<h, 0>>].gen = 0
    /\ \E S \in TriggerSets : QueueGallery(S)
    /\ UNCHANGED <<worker, managerVars, faults>>

\* Another trigger fires (the gallery is started again, or completes).
Retrigger ==
    /\ MainFree
    /\ \E h \in Hosts : rows[<<h, 0>>].gen > 0
    /\ \E S \in TriggerSets : QueueGallery(S)
    /\ Charge("requeue")
    /\ UNCHANGED <<worker, managerVars>>

UserReupload ==
    /\ AtRest
    /\ \E h \in Hosts : Reupload(h)
    /\ Charge("reupload")
    /\ UNCHANGED <<worker, managerVars>>

InsertFails ==
    /\ QueuePrimaryFails
    /\ Charge("dbfail")
    /\ UNCHANGED <<worker, managerVars>>

WorkerFails ==
    /\ \E h \in Hosts : WorkerDbFails(h)
    /\ Charge("dbfail")
    /\ UNCHANGED <<managerVars, main, pollers>>

BookkeepingFails ==
    /\ \E h \in Hosts : Unrecorded(h)
    /\ Charge("bookkeeping")
    /\ UNCHANGED <<managerVars, main, pollers>>

SettledHandlerFails ==
    /\ HandlerFails
    /\ Charge("dbfail")
    /\ UNCHANGED <<worker, managerVars>>

Md5PollerFails ==
    /\ \E p \in pollers : PollerFails(p)
    /\ Charge("dbfail")
    /\ UNCHANGED <<worker, managerVars>>

DisableHost ==
    /\ AtRest
    /\ \E h \in Hosts : Disable(h)
    /\ Charge("stop")
    /\ UNCHANGED <<main, pollers>>

EnableHost ==
    /\ AtRest
    /\ \E h \in Hosts : Enable(h)
    /\ UNCHANGED <<main, pollers, faults>>

ToggleDedup ==
    /\ AtRest
    /\ dedup' = ~dedup
    /\ Charge("toggle")
    /\ UNCHANGED <<rows, events, worker, managerVars, main, pollers>>

\* The table and the settings are what a new process finds.
Relaunch ==
    /\ Launch
    /\ events' = <<>>
    /\ main' = MainIdle
    /\ pollers' = {}
    /\ UNCHANGED <<rows, dedup>>

\* The process dies between any two steps and is started again.
Crash == Charge("crash") /\ Relaunch

\* shutdown_all first cancels the registered timers.  It runs on a thread of
\* its own, behind a modal dialog: the main thread goes on taking signals.
Shutdown ==
    /\ CloseAll
    /\ pollers' = {p \in pollers : p.pc # "timer" \/ ~p.registered}
    /\ Charge("shutdown")
    /\ UNCHANGED main

Exit == Closed /\ Relaunch /\ UNCHANGED faults

Worker(h) ==
    /\ WorkerStep(h) \/ (SpinUp(h) /\ UNCHANGED faults)
    /\ UNCHANGED <<managerVars, main, pollers>>

Main ==
    /\ MainFree
    /\ \/ MainStep /\ UNCHANGED <<worker, managerVars>>
       \/ /\ main.pc = "idle" /\ TakeSpinup
          /\ UNCHANGED <<main, pollers, faults>>

Md5Poller == PollerStep /\ UNCHANGED <<worker, managerVars>>

Manager ==
    /\ Disabled \/ CloseNext
    /\ UNCHANGED <<main, pollers, faults>>

Environment ==
    \/ FirstTrigger \/ Retrigger \/ UserReupload
    \/ InsertFails \/ WorkerFails \/ BookkeepingFails
    \/ SettledHandlerFails \/ Md5PollerFails
    \/ DisableHost \/ EnableHost \/ ToggleDedup
    \/ Crash \/ Shutdown \/ Exit

Next == (\E h \in Hosts : Worker(h)) \/ Main \/ Md5Poller \/ Manager \/ Environment

(***************************************************************************)
(* Each thread is scheduled by the operating system and loops until it has *)
(* nothing to do; a poll and a transfer end (every request has a timeout). *)
(***************************************************************************)
Fairness ==
    /\ \A h \in Hosts : WF_vars(Worker(h))
    /\ WF_vars(Main)
    /\ WF_vars(Md5Poller)

Spec == Init /\ [][Next]_vars
FairSpec == Spec /\ Fairness

-----------------------------------------------------------------------------
(* Vocabulary of the properties. *)

HeadIs(h, S) == rows[<<h, 0>>].status \in S

\* A sibling that waits for its turn.  A dedup_only row waits for an md5
\* instead, and is not counted.
Waiting(h) == HeadIs(h, {"blocked"}) /\ ~rows[<<h, 0>>].dedupOnly

\* Nothing is left to do, or under way.
Quiet ==
    /\ main.pc = "idle" /\ events = <<>> /\ pollers = {}
    /\ manager.mode = "idle"
    /\ \A h \in Hosts : At(h, "idle") /\ ~HeadIs(h, {"pending"})

Uploading(h) == worker[h].pc \in {"archive", "part", "send", "except"}

Uploaders == {h \in Hosts : HeadIs(h, {"uploading"})}
NoneHasIt == \A h \in Hosts : ~HeadIs(h, {"completed"})

\* The retries the workers have made by themselves, by host and number.
AutoRetries ==
    {r \in Hosts \X (1 .. MaxRetries) : r[2] <= rows[<<r[1], 0>>].retries}

\* k still holds the same row after the step.
SameRow(k) == rows'[k].gen = rows[k].gen

-----------------------------------------------------------------------------
(* Safety *)

\* A blocked row waits for a row of another host, and for one that is or was
\* in the table: the primary's row goes in before the rows that wait for it,
\* and every reassignment names the row it just promoted.  (A row waiting for
\* itself, for nothing or for an id nobody has could never be released.)
WaitsForAnother ==
    \A h \in Hosts :
        LET by == rows[<<h, 0>>].blockedBy IN
        HeadIs(h, {"blocked"}) =>
            /\ by # NoId
            /\ by.host # h /\ by.part = 0
            /\ by.gen <= rows[Place(by)].gen

\* A row waits for one that waits itself only where that one has had its turn and
\* may only mirror by now: promoted over a worker that retried by itself, it
\* failed and is made to wait for that one.  A promotion makes no chain, not even
\* between its writes.
NoWaitChain ==
    \A h \in Hosts :
        LET by == rows[<<h, 0>>].blockedBy IN
        HeadIs(h, {"blocked"}) => ~HeadIs(by.host, {"blocked"}) \/ rows[Place(by)].dedupOnly

\* Until one member has stored the gallery, one member is uploading it, and one
\* more for each retry a worker has made by itself: such a retry is announced as
\* a failure too, and the next member promoted beside it.  Nothing else lets
\* two upload; without auto-retry none do.
OneUploadAndRetries ==
    NoneHasIt => Cardinality(Uploaders) <= 1 + Cardinality(AutoRetries)

\* When all is quiet, a sibling that still waits for its turn waits for a member
\* that may only mirror by now: a worker's retry was announced as a failure, and
\* the retry scan blocked the promoted member again before its own failure was
\* handled.  Every other failure or success of a member releases the next one.
TurnsAreNotLost ==
    Quiet => \A h \in Hosts :
        Waiting(h) => rows[Place(rows[<<h, 0>>].blockedBy)].dedupOnly

\* Nobody changes the status of a row while its worker uploads it: between two
\* members, neither a promotion nor an unblocking by a late poller reaches a row
\* in flight.  (With three, the second write of a slow poller does.)
InFlightOwned ==
    \A h \in Hosts :
        LET id == worker[h].row IN
        Uploading(h) /\ Live(rows, id) =>
            \/ rows[Place(id)].status = "uploading"
            \/ rows[Place(id)].status = "completed" /\ worker[h].part > 0

\* When all is quiet and a member has the gallery, every member that failed
\* has been given its retry by mirror: _run_family_retry_scan misses none.
WinnerRetriesFailures ==
    Quiet /\ (\E h \in Hosts : HeadIs(h, {"completed"}))
      => \A h \in Hosts : HeadIs(h, {"failed"}) => rows[<<h, 0>>].dedupOnly

\* A dedup_only row is terminal on failure (add_file_host_upload): between two
\* members it is never uploaded, and once failed it stays failed until it is
\* replaced.
DedupOnlyIsTerminal ==
    [][\A k \in DOMAIN rows : rows[k].dedupOnly /\ SameRow(k) =>
         /\ rows'[k].status # "uploading"
         /\ rows[k].status = "failed" => rows'[k].status = "failed"]_vars

\* Every worker thread is accounted for: a host without a registered worker
\* has no thread but the one disable_host waits for, a registered worker runs
\* until shutdown_all stops it, and one that spins up reports back once.
\* enable_host may therefore start a new thread for a host it finds unknown.
ThreadsAccounted ==
    \A h \in Hosts :
        LET reports == {i \in DOMAIN events : events[i] \in
                            {Spun(h, TRUE), Spun(h, FALSE)}}
        IN
        /\ registry[h] = "none" =>
              At(h, "stopped") \/ (manager.mode = "disabling" /\ manager.host = h)
        /\ registry[h] = "workers" /\ (worker[h].stop \/ At(h, "stopped")) =>
              manager.mode = "closing"
        /\ Cardinality(reports) =
              IF registry[h] \in {"pending", "restored"} /\ ~At(h, "spinup")
              THEN 1 ELSE 0

-----------------------------------------------------------------------------
(* Liveness *)

\* Between two members every sibling waiting for its turn is released.  (What
\* remains of it with three is TurnsAreNotLost.)
WaitersReleased == \A h \in Hosts : Waiting(h) ~> ~Waiting(h)

\* Every row that is to be uploaded ends completed or failed, or waits for
\* the md5 it may be retried with.
RowsSettle ==
    \A h \in Hosts : HeadIs(h, {"pending", "uploading"})
        ~> \/ HeadIs(h, {"completed", "failed"})
           \/ HeadIs(h, {"blocked"}) /\ rows[<<h, 0>>].dedupOnly

-----------------------------------------------------------------------------
(* Refinement: the head rows are the lives UploadLifecycle promises. *)

PhaseOf(status) ==
    CASE status = "pending"   -> "ready"
      [] status = "blocked"   -> "waiting"
      [] status = "uploading" -> "busy"
      [] status = "completed" -> "done"
      [] OTHER                -> status

Lifecycle == INSTANCE UploadLifecycle WITH
    phase <- [h \in Hosts |-> PhaseOf(rows[<<h, 0>>].status)],
    only  <- [h \in Hosts |-> rows[<<h, 0>>].dedupOnly],
    known <- [h \in Hosts |-> HeadIs(h, {"completed"}) /\ rows[<<h, 0>>].md5]

\* Workers, coordinator and pollers together keep the promise of the family
\* between two members with archives of one part.
KeepsPromise == Lifecycle!Spec
=============================================================================
