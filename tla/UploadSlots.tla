----------------------------- MODULE UploadSlots -----------------------------
(***************************************************************************)
(* What the upload threads of the file hosts share besides the database:   *)
(* the slots of processing/file_host_coordinator.py and the archives of    *)
(* utils/archive_manager.py.  Every host has one thread, and a list of     *)
(* folders to send: single files a host takes as they are need no archive. *)
(***************************************************************************)
EXTENDS Naturals, FiniteSets

CONSTANTS
    SlotHosts,
    Sources,        \* galleries
    Shape,          \* the format and split a host asks an archive in
    GlobalLimit,
    PerHostLimit,
    Nothing

ASSUME SlotsAssumption ==
    /\ IsFiniteSet(SlotHosts) /\ IsFiniteSet(Sources)
    /\ Nothing \notin SlotHosts /\ Nothing \notin Sources
    /\ \A h \in SlotHosts : Shape[h] # Nothing
    /\ GlobalLimit \in Nat \ {0} /\ PerHostLimit \in Nat \ {0}

VARIABLES
    todo,           \* pending rows of each host
    upload,         \* [pc, gallery, made] of each thread; made: archive_created
    permits,        \* global_semaphore
    hostPermits,    \* host_semaphores
    active,         \* active_uploads
    archives,       \* archive_cache: the shape on the disk, and who counts on it
    archiveLock,    \* the thread that makes an archive under ArchiveManager.lock
    sentAs          \* the archives every host has sent

slotVars == <<permits, hostPermits, active>>
archiveVars == <<archives, archiveLock>>
uploadVars == <<todo, upload, slotVars, archiveVars, sentAs>>

UploadPCs == {"idle", "global", "host", "archive", "creating", "send", "release",
              "leaveHost", "leaveGlobal", "discard"}
AtU(h, pc) == upload[h].pc = pc
Gallery(h) == upload[h].gallery
GoU(h, pc) == upload' = [upload EXCEPT ![h].pc = pc]

UploadInit ==
    /\ todo \in [SlotHosts -> SUBSET Sources]
    /\ upload = [h \in SlotHosts |-> [pc |-> "idle", gallery |-> Nothing, made |-> FALSE]]
    /\ permits = GlobalLimit /\ hostPermits = [h \in SlotHosts |-> PerHostLimit]
    /\ active = {} /\ archiveLock = Nothing
    /\ archives = [g \in Sources |-> [shape |-> Nothing, refs |-> 0]]
    /\ sentAs = {}

-----------------------------------------------------------------------------

\* can_start_upload guesses the free slots from the uploads marked active.
CanStart(h) ==
    /\ Cardinality(active) < GlobalLimit
    /\ Cardinality({u \in active : u[2] = h}) < PerHostLimit

TakeRow(h) ==
    /\ AtU(h, "idle") /\ CanStart(h)
    /\ \E g \in todo[h] :
         upload' = [upload EXCEPT ![h] = [pc |-> "global", gallery |-> g, made |-> FALSE]]
    /\ UNCHANGED <<todo, slotVars, archiveVars, sentAs>>

\* Mutant: the thread goes on whether or not it has got its slot.
AcquireGlobal_Unasked(h) ==
    /\ AtU(h, "global") /\ permits' = permits - 1 /\ GoU(h, "host")
    /\ UNCHANGED <<todo, hostPermits, active, archiveVars, sentAs>>

AcquireGlobal(h) ==
    /\ AtU(h, "global") /\ permits > 0
    /\ permits' = permits - 1 /\ GoU(h, "host")
    /\ UNCHANGED <<todo, hostPermits, active, archiveVars, sentAs>>

\* After five seconds the thread lets the row go and starts over.
GiveUpSlot(h) ==
    /\ AtU(h, "global") /\ permits = 0
    /\ upload' = [upload EXCEPT ![h].pc = "idle", ![h].gallery = Nothing]
    /\ UNCHANGED <<todo, slotVars, archiveVars, sentAs>>

AcquireHost(h) ==
    /\ AtU(h, "host") /\ hostPermits[h] > 0
    /\ hostPermits' = [hostPermits EXCEPT ![h] = @ - 1]
    /\ active' = active \cup {<<Gallery(h), h>>} /\ GoU(h, "archive")
    /\ UNCHANGED <<todo, permits, archiveVars, sentAs>>

\* Mutant: an archive of another shape is not taken over.
TakeArchive_ByShape(h) ==
    /\ AtU(h, "archive") /\ archiveLock = Nothing
    /\ LET a == archives[Gallery(h)] IN
         IF a.shape # Shape[h]
         THEN archiveLock' = h /\ GoU(h, "creating") /\ UNCHANGED archives
         ELSE /\ archives' = [archives EXCEPT ![Gallery(h)].refs = @ + 1]
              /\ upload' = [upload EXCEPT ![h].pc = "send", ![h].made = TRUE]
              /\ UNCHANGED archiveLock
    /\ UNCHANGED <<todo, slotVars, sentAs>>

\* create_or_reuse_archive: an archive of the gallery is taken whatever its
\* shape.  Making one keeps everybody else out of the manager.
TakeArchive(h) ==
    /\ AtU(h, "archive") /\ archiveLock = Nothing
    /\ LET a == archives[Gallery(h)] IN
         IF a.shape = Nothing
         THEN archiveLock' = h /\ GoU(h, "creating") /\ UNCHANGED archives
         ELSE /\ archives' = [archives EXCEPT ![Gallery(h)].refs = @ + 1]
              /\ upload' = [upload EXCEPT ![h].pc = "send", ![h].made = TRUE]
              /\ UNCHANGED archiveLock
    /\ UNCHANGED <<todo, slotVars, sentAs>>

\* The folder is gone, or the disk too full for an archive.
NoArchive(h) ==
    /\ AtU(h, "archive") /\ GoU(h, "release")
    /\ UNCHANGED <<todo, slotVars, archiveVars, sentAs>>

CreateArchive(h) ==
    /\ AtU(h, "creating") /\ archiveLock' = Nothing
    /\ \/ /\ archives' = [archives EXCEPT ![Gallery(h)] = [shape |-> Shape[h], refs |-> 1]]
          /\ upload' = [upload EXCEPT ![h].pc = "send", ![h].made = TRUE]
       \/ GoU(h, "release") /\ UNCHANGED archives
    /\ UNCHANGED <<todo, slotVars, sentAs>>

\* The upload ends, well or badly.
Send(h) ==
    /\ AtU(h, "send") /\ GoU(h, "release")
    /\ sentAs' = sentAs \cup {<<h, Gallery(h), archives[Gallery(h)].shape>>}
    /\ UNCHANGED <<todo, slotVars, archiveVars>>

\* The finally clause of the upload; the row has been settled by then.
\* A failed row that is to be tried again is a row of its own.
ReleaseArchive(h) ==
    /\ AtU(h, "release")
    /\ IF upload[h].made
       THEN /\ archiveLock = Nothing
            /\ archives' = [archives EXCEPT ![Gallery(h)].refs = IF @ > 0 THEN @ - 1 ELSE 0]
       ELSE UNCHANGED archives
    /\ upload' = [upload EXCEPT ![h].pc = "leaveHost", ![h].made = FALSE]
    /\ todo' = [todo EXCEPT ![h] = @ \ {Gallery(h)}]
    /\ UNCHANGED <<archiveLock, slotVars, sentAs>>

LeaveHost(h) ==
    /\ AtU(h, "leaveHost") /\ GoU(h, "leaveGlobal")
    /\ hostPermits' = [hostPermits EXCEPT ![h] = @ + 1]
    /\ UNCHANGED <<todo, permits, active, archiveVars, sentAs>>

\* Mutant: the global slot is forgotten.
LeaveGlobal_Forgets(h) ==
    AtU(h, "leaveGlobal") /\ GoU(h, "discard")
    /\ UNCHANGED <<todo, slotVars, archiveVars, sentAs>>

LeaveGlobal(h) ==
    /\ AtU(h, "leaveGlobal") /\ GoU(h, "discard") /\ permits' = permits + 1
    /\ UNCHANGED <<todo, hostPermits, active, archiveVars, sentAs>>

\* Mutant: the upload stays marked active.
Discard_Stays(h) ==
    /\ AtU(h, "discard")
    /\ upload' = [upload EXCEPT ![h].pc = "idle", ![h].gallery = Nothing]
    /\ UNCHANGED <<todo, slotVars, archiveVars, sentAs>>

\* The mark goes last: until then CanStart counts a slot that is free again.
Discard(h) ==
    /\ AtU(h, "discard") /\ active' = active \ {<<Gallery(h), h>>}
    /\ upload' = [upload EXCEPT ![h].pc = "idle", ![h].gallery = Nothing]
    /\ UNCHANGED <<todo, permits, hostPermits, archiveVars, sentAs>>

UploadStep(h) ==
    \/ TakeRow(h) \/ AcquireGlobal(h) \/ GiveUpSlot(h) \/ AcquireHost(h)
    \/ TakeArchive(h) \/ NoArchive(h) \/ CreateArchive(h) \/ Send(h) \/ ReleaseArchive(h)
    \/ LeaveHost(h) \/ LeaveGlobal(h) \/ Discard(h)

UploadNext == \E h \in SlotHosts : UploadStep(h)

UploadSpec == UploadInit /\ [][UploadNext]_uploadVars

\* Every thread goes on; archives and uploads end.
UploadFairness == \A h \in SlotHosts : WF_uploadVars(UploadStep(h))

-----------------------------------------------------------------------------

UploadTypeOK ==
    /\ todo \in [SlotHosts -> SUBSET Sources]
    /\ upload \in [SlotHosts -> [pc : UploadPCs, gallery : Sources \cup {Nothing}, made : BOOLEAN]]
    /\ permits \in Nat /\ hostPermits \in [SlotHosts -> Nat]
    /\ active \subseteq Sources \X SlotHosts
    /\ archives \in [Sources -> [shape : {Shape[h] : h \in SlotHosts} \cup {Nothing}, refs : Nat]]
    /\ archiveLock \in SlotHosts \cup {Nothing}

Admitted == {h \in SlotHosts : upload[h].pc \in
                {"host", "archive", "creating", "send", "release", "leaveHost", "leaveGlobal"}}

\* acquire_slot: every global slot is free or taken by one upload, through
\* timeouts and failures, so that no more than GlobalLimit hosts ever send.
SlotsConserved == permits + Cardinality(Admitted) = GlobalLimit

\* However differently the hosts are configured, all of them send a gallery in
\* the same parts: the hashes of one host's parts are good for the others.
OneArchive ==
    \A s, t \in sentAs : s[2] = t[2] => s[3] = t[3]

\* Every row is sent in the end, whoever else wants a slot: no slot, mark or
\* lock is lost on the way.
RowsServed == \A h \in SlotHosts : <>(todo[h] = {})
=============================================================================
