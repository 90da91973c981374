------------------------ MODULE FileHostWorkerManager ------------------------
(***************************************************************************)
(* FileHostWorkerManager: starts a worker for a host, registers it when    *)
(* its credentials are found good, stops it when the host is disabled or   *)
(* the program ends.  FileHostWorker.stop waits for the thread to end, so  *)
(* whoever stops a worker is blocked until then: the main thread in        *)
(* disable_host, the thread of the shutdown dialog in shutdown_all.        *)
(***************************************************************************)
EXTENDS FileHostWorker

VARIABLES
    registry,   \* which of the manager's dictionaries a host's worker is in
    manager     \* the stop that somebody is waiting for

managerVars == <<registry, manager>>

-----------------------------------------------------------------------------
\* "pending": enabled by the user, in pending_workers; "restored": the same,
\* started by init_enabled_hosts (persist=False); "workers": in workers.
Registration == {"none", "pending", "restored", "workers"}

\* host is the one whose thread is awaited; known is what the loop of
\* shutdown_all iterates over.
ManagerState == [mode  : {"idle", "disabling", "closing"},
                 host  : 0 .. NumHosts,
                 known : SUBSET Hosts]

ManagerTypeOK ==
    /\ registry \in [Hosts -> Registration]
    /\ manager \in ManagerState

ManagerIdle == [mode |-> "idle", host |-> 0, known |-> {}]

\* The hosts have been started and their credentials tested.
ManagerInit ==
    /\ registry = [h \in Hosts |-> "workers"]
    /\ manager = ManagerIdle

Register(h, r) == registry' = [registry EXCEPT ![h] = r]

Registered == {h \in Hosts : registry[h] = "workers"}

-----------------------------------------------------------------------------
(* enable_host, and the spin-up at the start of the worker's run *)

Spinning(h, enabled) ==
    worker' = [worker EXCEPT ![h] = [Fresh EXCEPT !.pc = "spinup",
                                                  !.enabled = enabled]]

\* Some dialogs save the setting before they call enable_host, the others
\* leave it to _on_spinup_complete.
Enable(h) ==
    /\ manager.mode = "idle" /\ registry[h] = "none"
    /\ \E saved \in BOOLEAN : Spinning(h, worker[h].enabled \/ saved)
    /\ Register(h, "pending")
    /\ UNCHANGED <<tableVars, manager>>

\* The credentials are tested; a worker that found them good goes on at once.
SpinUp(h) ==
    /\ At(h, "spinup")
    /\ \/ Go(h, "idle") /\ events' = Append(events, Spun(h, TRUE))
       \/ /\ "spinup" \in Faults
          /\ Go(h, "stopped") /\ events' = Append(events, Spun(h, FALSE))
    /\ UNCHANGED <<rows, dedup>>

\* _on_spinup_complete, on the main thread
TakeSpinup ==
    /\ events # <<>> /\ events[1].kind = "spun"
    /\ events' = Tail(events)
    /\ LET h == events[1].host IN
       /\ Register(h, IF events[1].ok THEN "workers" ELSE "none")
       /\ worker' = [worker EXCEPT ![h].enabled =
                        @ \/ (events[1].ok /\ registry[h] = "pending")]
    /\ UNCHANGED <<rows, dedup, manager>>

-----------------------------------------------------------------------------
(* disable_host *)

\* Mutant: the thread is left to end in the background.
Disable_NoWait(h) ==
    /\ manager.mode = "idle"
    /\ registry[h] = "workers"
    /\ worker' = [worker EXCEPT ![h].stop = TRUE, ![h].enabled = FALSE]
    /\ Register(h, "none")
    /\ UNCHANGED <<tableVars, manager>>

\* Again the setting may have been saved before.  A worker that is still
\* spinning up is not found, and left alone.
Disable(h) ==
    /\ manager.mode = "idle"
    /\ \E saved \in BOOLEAN :
        worker' = [worker EXCEPT ![h].enabled = @ /\ ~saved,
                                 ![h].stop = @ \/ h \in Registered]
    /\ IF h \in Registered
       THEN /\ Register(h, "none")
            /\ manager' = [manager EXCEPT !.mode = "disabling", !.host = h]
       ELSE UNCHANGED managerVars
    /\ UNCHANGED tableVars

Disabled ==
    /\ manager.mode = "disabling" /\ At(manager.host, "stopped")
    /\ worker' = [worker EXCEPT ![manager.host].enabled = FALSE]
    /\ manager' = ManagerIdle
    /\ UNCHANGED <<tableVars, registry>>

-----------------------------------------------------------------------------
(* shutdown_all *)

CloseAll ==
    /\ manager.mode = "idle"
    /\ manager' = [manager EXCEPT !.mode = "closing", !.known = Registered]
    /\ UNCHANGED <<tableVars, worker, registry>>

\* The loop is about to take the next worker.
Between == \A h \in Hosts : manager.host = h => At(h, "stopped")

CloseNext ==
    /\ manager.mode = "closing" /\ Between
    /\ Registered = manager.known
    /\ \E h \in Registered :
        /\ ~worker[h].stop
        /\ worker' = [worker EXCEPT ![h].stop = TRUE]
        /\ manager' = [manager EXCEPT !.host = h]
    /\ UNCHANGED <<tableVars, registry>>

\* The loop is through, or ended by the exception that follows when a worker
\* has been registered since it began.
Closed ==
    /\ manager.mode = "closing" /\ Between
    /\ \/ Registered # manager.known
       \/ \A h \in manager.known : worker[h].stop

\* init_enabled_hosts, in the next process
Launch ==
    /\ worker' = [h \in Hosts |->
                    [Fresh EXCEPT !.pc = IF worker[h].enabled THEN "spinup"
                                                              ELSE "stopped",
                                  !.enabled = worker[h].enabled]]
    /\ registry' = [h \in Hosts |-> IF worker[h].enabled THEN "restored"
                                                         ELSE "none"]
    /\ manager' = ManagerIdle
=============================================================================
