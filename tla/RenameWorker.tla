---------------------------- MODULE RenameWorker ----------------------------
(***************************************************************************)
(* The session of processing/rename_worker.py at the image host: the       *)
(* thread that logs in and renames what earlier runs left unnamed, the     *)
(* thread that renames galleries and the thread that checks whether images *)
(* are still online.  All three share one login.                           *)
(*                                                                         *)
(* The host answers every request as it likes.  The checker that the main  *)
(* thread connects to the worker is in ImageStatusChecker.                 *)
(***************************************************************************)
EXTENDS Naturals, Sequences, FiniteSets

CONSTANTS
    Galleries,      \* galleries that are to get their names at the host
    Checks,         \* status checks, numbered in the order they are asked for
    None

ASSUME NoneAssumption == None \notin Galleries /\ None \notin Checks
ASSUME ChecksAssumption == Checks \subseteq Nat /\ Galleries \cap Nat = {}

VARIABLES
    running,        \* RenameWorker.running
    loginDone,      \* login_complete
    authed,         \* login_successful
    reauth,         \* reauth_in_progress
    recent,         \* last_reauth_attempt is less than 5 seconds ago
    lock,           \* the thread that sleeps with reauth_lock in its hands
    renames,        \* RenameWorker.queue, None to stop
    checks,         \* status_check_queue, None to stop
    cancelled,      \* _status_check_cancelled
    snapshot,       \* the unnamed galleries _initial_login has still to try
    thread,
    unnamed,        \* the table unnamed_galleries
    renamed,        \* galleries that have their name at the host
    requested       \* galleries somebody wants to see renamed

lockVars == <<reauth, recent, lock>>
queueVars == <<running, renames, checks, cancelled>>
tableVars == <<unnamed, renamed, requested>>
workerVars == <<loginDone, authed, snapshot, thread, lockVars, queueVars, tableVars>>

Threads == {"login", "rename", "status"}
Renamers == {"login", "rename"}
Answers == {"results", "nothing", "error"}
PCs == {"get", "wait", "login", "next", "ask", "reauth", "asleep", "relogin",
        "release", "dead", "keep", "drain", "answer", "over"}

\* ok: what the attempt to log in again came to.  answer: what a status check
\* is going to report.
Thread == [pc : PCs, job : Galleries \cup Checks \cup {None}, retried : BOOLEAN,
           ok : BOOLEAN, answer : Answers]

Idle(pc) == [pc |-> pc, job |-> None, retried |-> FALSE, ok |-> FALSE, answer |-> "nothing"]

RenameWorkerInit ==
    /\ running = TRUE /\ loginDone = FALSE /\ authed = FALSE
    /\ reauth = FALSE /\ recent = FALSE /\ lock = None
    /\ renames = <<>> /\ checks = <<>> /\ cancelled = FALSE /\ snapshot = {}
    /\ thread = [t \in Threads |-> IF t = "login" THEN Idle("login") ELSE Idle("get")]
    /\ unnamed \in SUBSET Galleries /\ renamed = {} /\ requested = unnamed

At(t, pc) == thread[t].pc = pc
Job(t) == thread[t].job
Goto(t, pc) == thread' = [thread EXCEPT ![t].pc = pc]
Begin(t, pc, job) == thread' = [thread EXCEPT ![t].pc = pc, ![t].job = job]
End(t, pc) == thread' = [thread EXCEPT ![t] = Idle(pc)]

\* The top of each loop.
Done(t) == End(t, IF t = "login" THEN "next" ELSE IF running THEN "get" ELSE "over")
Report(t, answer) == thread' = [thread EXCEPT ![t].pc = "answer", ![t].answer = answer]

-----------------------------------------------------------------------------
(* Logging in again, by any thread whose session turns out to be expired.  *)

\* t takes up its request again, or gives it up.
Resume(t, ok) ==
    thread' = [thread EXCEPT
        ![t].pc = IF ok THEN "ask" ELSE IF t = "status" THEN "answer" ELSE "dead",
        ![t].retried = ok, ![t].ok = FALSE,
        ![t].answer = IF t = "status" /\ ~ok THEN "error" ELSE "nothing"]

\* Mutant: nobody looks whether another thread is at it.
Reauth_Unlocked(t) ==
    /\ At(t, "reauth") /\ lock = None
    /\ \/ recent /\ Resume(t, FALSE) /\ UNCHANGED lockVars
       \/ ~recent /\ reauth' = TRUE /\ recent' = TRUE /\ Goto(t, "relogin") /\ UNCHANGED lock
    /\ UNCHANGED <<loginDone, authed, snapshot, queueVars, tableVars>>

\* Whoever finds another thread at it sleeps half a second in the lock.
Reauth(t) ==
    /\ At(t, "reauth") /\ lock = None
    /\ \/ reauth /\ lock' = t /\ Goto(t, "asleep") /\ UNCHANGED <<reauth, recent>>
       \/ ~reauth /\ recent /\ Resume(t, FALSE) /\ UNCHANGED lockVars
       \/ /\ ~reauth /\ ~recent
          /\ reauth' = TRUE /\ recent' = TRUE /\ Goto(t, "relogin") /\ UNCHANGED lock
    /\ UNCHANGED <<loginDone, authed, snapshot, queueVars, tableVars>>

\* Mutant: the lock is not released.
Wake_HoldsLock(t) ==
    /\ At(t, "asleep") /\ Resume(t, authed)
    /\ UNCHANGED <<loginDone, authed, snapshot, lockVars, queueVars, tableVars>>

\* It then takes what login_successful says, whether the other is done or not.
Wake(t) ==
    /\ At(t, "asleep") /\ lock' = None /\ Resume(t, authed)
    /\ UNCHANGED <<loginDone, authed, snapshot, reauth, recent, queueVars, tableVars>>

Relogin(t) ==
    /\ At(t, "relogin") /\ authed' \in BOOLEAN
    /\ thread' = [thread EXCEPT ![t].pc = "release", ![t].ok = authed']
    /\ UNCHANGED <<loginDone, snapshot, lockVars, queueVars, tableVars>>

Release(t) ==
    /\ At(t, "release") /\ lock = None
    /\ reauth' = FALSE /\ Resume(t, thread[t].ok)
    /\ UNCHANGED <<loginDone, authed, snapshot, recent, lock, queueVars, tableVars>>

\* Five seconds pass.
Elapse ==
    /\ recent /\ recent' = FALSE
    /\ UNCHANGED <<loginDone, authed, snapshot, thread, reauth, lock, queueVars, tableVars>>

-----------------------------------------------------------------------------
(* rename_gallery_with_session, in the two threads that rename, up to what *)
(* they do with its result.                                                *)

\* The initial login leaves the gallery in the table.
Fail(t) == IF t = "login" THEN Done(t) ELSE Goto(t, "keep")

\* A request that is refused, or whose answer is lost, may have been obeyed.
AskName(t) ==
    /\ t \in Renamers /\ At(t, "ask")
    /\ \/ /\ renamed' = renamed \cup {Job(t)} /\ unnamed' = unnamed \ {Job(t)}
          /\ Done(t)
       \/ /\ renamed' \in {renamed, renamed \cup {Job(t)}} /\ UNCHANGED unnamed
          /\ Fail(t)
       \/ /\ UNCHANGED <<renamed, unnamed>>
          /\ Goto(t, IF thread[t].retried THEN "dead" ELSE "reauth")
    /\ UNCHANGED <<loginDone, authed, snapshot, lockVars, queueVars, requested>>

MarkDead(t) ==
    /\ At(t, "dead") /\ authed' = FALSE /\ Fail(t)
    /\ UNCHANGED <<loginDone, snapshot, lockVars, queueVars, tableVars>>

-----------------------------------------------------------------------------
(* _initial_login.                                                         *)

Login ==
    /\ At("login", "login") /\ authed' \in BOOLEAN
    /\ snapshot' = IF authed' THEN unnamed ELSE {}
    /\ Goto("login", "next")
    /\ UNCHANGED <<loginDone, lockVars, queueVars, tableVars>>

\* Every gallery of the snapshot is tried, even once the session is dead.
NextUnnamed ==
    /\ At("login", "next")
    /\ \E g \in snapshot : snapshot' = snapshot \ {g} /\ Begin("login", "ask", g)
    /\ UNCHANGED <<loginDone, authed, lockVars, queueVars, tableVars>>

LoginOver ==
    /\ At("login", "next") /\ snapshot = {}
    /\ loginDone' = TRUE /\ End("login", "over")
    /\ UNCHANGED <<authed, snapshot, lockVars, queueVars, tableVars>>

-----------------------------------------------------------------------------
(* _process_renames.                                                       *)

\* A new gallery, or one of the unnamed that is uploaded to again.  Bound: one
\* request for each at a time.
QueueRename(g) ==
    /\ g \notin requested \/ g \in unnamed
    /\ g \notin {renames[i] : i \in DOMAIN renames} /\ Job("rename") # g
    /\ renames' = Append(renames, g) /\ requested' = requested \cup {g}
    /\ UNCHANGED <<loginDone, authed, snapshot, thread, lockVars, running, checks, cancelled,
                   unnamed, renamed>>

TakeRename ==
    /\ At("rename", "get") /\ renames # <<>> /\ renames' = Tail(renames)
    /\ IF Head(renames) = None THEN End("rename", "over")
                              ELSE Begin("rename", "wait", Head(renames))
    /\ UNCHANGED <<loginDone, authed, snapshot, lockVars, running, checks, cancelled, tableVars>>

\* Mutant: a gallery that cannot be renamed yet is dropped.
AwaitLogin_Drops ==
    /\ At("rename", "wait")
    /\ IF loginDone /\ authed THEN Goto("rename", "ask") ELSE Done("rename")
    /\ UNCHANGED <<loginDone, authed, snapshot, lockVars, queueVars, tableVars>>

\* The wait for login_complete ends after 30 seconds at the latest.
AwaitLogin ==
    /\ At("rename", "wait")
    /\ IF loginDone /\ authed
       THEN Goto("rename", "ask") /\ UNCHANGED unnamed
       ELSE Done("rename") /\ unnamed' = unnamed \cup {Job("rename")}
    /\ UNCHANGED <<loginDone, authed, snapshot, lockVars, queueVars, renamed, requested>>

\* A rename that failed while the session is dead ends the loop.
KeepForLater ==
    /\ At("rename", "keep") /\ unnamed' = unnamed \cup {Job("rename")}
    /\ IF authed THEN Done("rename") ELSE End("rename", "drain")
    /\ UNCHANGED <<loginDone, authed, snapshot, lockVars, queueVars, renamed, requested>>

Drain ==
    /\ At("rename", "drain")
    /\ IF renames = <<>>
       THEN End("rename", "over") /\ UNCHANGED <<renames, unnamed>>
       ELSE /\ renames' = Tail(renames) /\ UNCHANGED thread
            /\ unnamed' = unnamed \cup ({Head(renames)} \ {None})
    /\ UNCHANGED <<loginDone, authed, snapshot, lockVars, running, checks, cancelled,
                   renamed, requested>>

-----------------------------------------------------------------------------
(* _process_status_checks.                                                 *)

TakeCheck ==
    /\ At("status", "get") /\ checks # <<>> /\ checks' = Tail(checks)
    /\ IF Head(checks) = None THEN End("status", "over")
                             ELSE Begin("status", "wait", Head(checks))
    /\ UNCHANGED <<loginDone, authed, snapshot, lockVars, running, renames, cancelled, tableVars>>

AwaitLoginToCheck ==
    /\ At("status", "wait")
    /\ \/ ~(loginDone /\ authed) /\ Report("status", "error")
       \/ loginDone /\ authed /\ cancelled /\ Report("status", "nothing")
       \/ loginDone /\ authed /\ ~cancelled /\ Goto("status", "ask")
    /\ UNCHANGED <<loginDone, authed, snapshot, lockVars, queueVars, tableVars>>

\* Mutant: an error is only logged.
AskStatus_Silent ==
    /\ At("status", "ask")
    /\ \/ Report("status", IF cancelled THEN "nothing" ELSE "results")
       \/ Done("status")
       \/ ~thread["status"].retried /\ Goto("status", "reauth")
    /\ UNCHANGED <<loginDone, authed, snapshot, lockVars, queueVars, tableVars>>

\* One step from the request to the last look at the cancellation.
AskStatus ==
    /\ At("status", "ask")
    /\ \/ Report("status", IF cancelled THEN "nothing" ELSE "results")
       \/ Report("status", "error")
       \/ ~thread["status"].retried /\ Goto("status", "reauth")
    /\ UNCHANGED <<loginDone, authed, snapshot, lockVars, queueVars, tableVars>>

-----------------------------------------------------------------------------

\* stop: what waits in the queues stays there.
Stop ==
    /\ running /\ running' = FALSE
    /\ renames' = Append(renames, None) /\ checks' = Append(checks, None)
    /\ UNCHANGED <<loginDone, authed, snapshot, thread, lockVars, cancelled, tableVars>>

\* The steps of a thread, the answer of a status check apart.
ThreadStep(t) ==
    \/ Reauth(t) \/ Wake(t) \/ Relogin(t) \/ Release(t)
    \/ AskName(t) \/ MarkDead(t)
    \/ t = "login" /\ (Login \/ NextUnnamed \/ LoginOver)
    \/ t = "rename" /\ (TakeRename \/ AwaitLogin \/ KeepForLater \/ Drain)
    \/ t = "status" /\ (TakeCheck \/ AwaitLoginToCheck \/ AskStatus)

WorkerStep ==
    \/ \E t \in Threads : ThreadStep(t)
    \/ \E g \in Galleries : QueueRename(g)
    \/ Elapse \/ Stop
=============================================================================
