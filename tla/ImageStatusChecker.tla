------------------------- MODULE ImageStatusChecker -------------------------
(***************************************************************************)
(* The status checks of gui/dialogs/image_status_checker.py, one checker   *)
(* after another on the main thread, connected to the RenameWorker.        *)
(*                                                                         *)
(* A signal goes to the checker that is connected when it is emitted, and  *)
(* is dropped when that one has disconnected by the time the main thread   *)
(* comes to it.                                                            *)
(***************************************************************************)
EXTENDS RenameWorker

VARIABLES
    checker,        \* the ImageStatusChecker the window holds
    connected,      \* the checker the worker's signals are connected to
    inbox,          \* signals of the worker the main thread has not handled
    applied,        \* the check whose results were stored last, and by which checker
    dropped         \* checkers with _cancelled set

checkerVars == <<checker, connected, inbox, applied, dropped>>
vars == <<workerVars, checkerVars>>

\* id: the check it was made for.  busy: _check_in_progress.
\* open: its dialog is on the screen.
Checker == [id : Checks \cup {None}, busy : BOOLEAN, open : BOOLEAN]
Signal == [check : Checks, answer : Answers, to : Checks]

Init ==
    /\ RenameWorkerInit
    /\ checker = [id |-> None, busy |-> FALSE, open |-> FALSE]
    /\ connected = None /\ inbox = <<>>
    /\ applied = None /\ dropped = {}

\* The next check: every one has a checker of its own.
IsNext(c) == c = IF checker.id = None THEN 1 ELSE checker.id + 1

\* A dialog is modal: the menu is out of reach while one is open.
CheckGalleries(c) ==
    /\ IsNext(c) /\ ~checker.open
    /\ checker' = [id |-> c, busy |-> TRUE, open |-> TRUE]
    /\ connected' = c
    /\ cancelled' = FALSE /\ checks' = Append(checks, c)
    /\ UNCHANGED <<loginDone, authed, snapshot, thread, lockVars, running, renames, tableVars,
                   inbox, applied, dropped>>

CancelCheck ==
    /\ checker.open /\ checker.busy
    /\ checker' = [checker EXCEPT !.busy = FALSE] /\ dropped' = dropped \cup {checker.id}
    /\ cancelled' = TRUE /\ connected' = None
    /\ UNCHANGED <<loginDone, authed, snapshot, thread, lockVars, running, renames, checks,
                   tableVars, inbox, applied>>

\* A check goes on behind a dialog that is closed.
CloseDialog ==
    /\ checker.open /\ checker' = [checker EXCEPT !.open = FALSE]
    /\ connected' = IF checker.busy THEN connected ELSE None
    /\ UNCHANGED <<workerVars, inbox, applied, dropped>>

\* The signal that ends a check, status_check_completed or status_check_error.
EmitAnswer ==
    /\ At("status", "answer") /\ Done("status")
    /\ inbox' = IF connected = None THEN inbox
                ELSE Append(inbox, [check |-> Job("status"), answer |-> thread["status"].answer,
                                    to |-> connected])
    /\ UNCHANGED <<loginDone, authed, snapshot, lockVars, queueVars, tableVars,
                   checker, connected, applied, dropped>>

\* Mutant: neither the connection nor _cancelled is looked at.
TakeAnswer_Unchecked ==
    /\ inbox # <<>> /\ inbox' = Tail(inbox)
    /\ LET s == Head(inbox) IN
         /\ checker' = [checker EXCEPT !.busy = FALSE] /\ connected' = None
         /\ applied' = IF s.answer = "results" THEN <<s.check, s.to>> ELSE applied
    /\ UNCHANGED <<workerVars, dropped>>

\* _on_completed and _on_error: a checker takes any answer for its own.
TakeAnswer ==
    /\ inbox # <<>> /\ inbox' = Tail(inbox)
    /\ LET s == Head(inbox) IN
         IF s.to # connected
         THEN UNCHANGED <<checker, connected, applied>>
         ELSE /\ checker' = [checker EXCEPT !.busy = FALSE] /\ connected' = None
              /\ applied' = IF s.answer = "results" /\ s.to \notin dropped
                            THEN <<s.check, s.to>> ELSE applied
    /\ UNCHANGED <<workerVars, dropped>>

Next ==
    \/ WorkerStep /\ UNCHANGED checkerVars
    \/ \E c \in Checks : CheckGalleries(c)
    \/ CancelCheck \/ CloseDialog \/ EmitAnswer \/ TakeAnswer

Spec == Init /\ [][Next]_vars

\* The threads run, every request ends, and the main thread handles its events.
\* Whoever waits for reauth_lock gets it at last: it is free for at least a
\* request between any two that sleep in it.
FairSpec ==
    /\ Spec
    /\ \A t \in Threads : /\ WF_vars(ThreadStep(t) /\ UNCHANGED checkerVars)
                         /\ SF_vars(Release(t) /\ UNCHANGED checkerVars)
    /\ WF_vars(EmitAnswer) /\ WF_vars(TakeAnswer)

-----------------------------------------------------------------------------

TypeOK ==
    /\ running \in BOOLEAN /\ loginDone \in BOOLEAN /\ authed \in BOOLEAN
    /\ reauth \in BOOLEAN /\ recent \in BOOLEAN /\ lock \in Threads \cup {None}
    /\ renames \in Seq(Galleries \cup {None}) /\ checks \in Seq(Checks \cup {None})
    /\ cancelled \in BOOLEAN /\ snapshot \subseteq Galleries
    /\ thread \in [Threads -> Thread]
    /\ unnamed \subseteq Galleries /\ renamed \subseteq Galleries /\ requested \subseteq Galleries
    /\ checker \in Checker /\ connected \in Checks \cup {None}
    /\ inbox \in Seq(Signal) /\ applied \in (Checks \X Checks) \cup {None}
    /\ dropped \subseteq Checks

InHand(g) == Job("rename") = g
Queued(g) == \E i \in DOMAIN renames : renames[i] = g

\* Whatever the host answers, whoever has to log in again and whenever the
\* worker is stopped, a gallery that is to get its name has it, is in the table
\* a later run starts from, or is still with the rename thread or its queue.
RenamesAccounted ==
    \A g \in requested : g \in renamed \/ g \in unnamed \/ InHand(g) \/ Queued(g)

\* _attempt_reauth_with_rate_limit: "only one re-auth happens at a time", and
\* none beside the first login.
OneLogin ==
    \A t, u \in Threads :
        (\E p, q \in {"login", "relogin"} : At(t, p) /\ At(u, q)) => t = u

\* _on_cancel keeps the results of a cancelled check from being stored, however
\* the answer and the click race, until a later check is asked for: that one
\* clears the flag of the worker and takes the answer for its own.
CancelHolds == applied # None /\ applied[1] \in dropped => applied[1] < applied[2]

\* A gallery handed to the rename thread gets its name or is kept for a later
\* run, unless the thread has ended: it does at a stop, and for good after a
\* rename that finds the session dead.
RenamesHandled ==
    \A g \in Galleries : g \in requested ~> (g \in renamed \cup unnamed \/ At("rename", "over"))

\* A check comes to an end, with whatever answer, unless the worker is stopped.
ChecksAnswered == checker.busy ~> (~checker.busy \/ ~running)
=============================================================================
