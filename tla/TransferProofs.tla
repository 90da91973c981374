---------------------------- MODULE TransferProofs ----------------------------
(***************************************************************************)
(* What the threads that upload to file hosts share: proofs about their    *)
(* slots and archives, the statistics they record and the account they     *)
(* use, for any number of threads, hosts, galleries and limits.            *)
(***************************************************************************)
EXTENDS UploadSlots, MetricsStore, HostAccount, FiniteSetTheorems, SequenceTheorems, TLAPS

-----------------------------------------------------------------------------
(* SLOTS AND ARCHIVES                                                      *)

UploadRecord == [pc : UploadPCs, gallery : Sources \cup {Nothing}, made : BOOLEAN]
Shapes == {Shape[h] : h \in SlotHosts} \cup {Nothing}
Archive == [shape : Shapes, refs : Nat]
AdmittedPCs == {"host", "archive", "creating", "send", "release", "leaveHost", "leaveGlobal"}

\* A thread that is not idle has a gallery: what it marks active is a gallery.
Serving == \A h \in SlotHosts : upload[h].pc # "idle" => upload[h].gallery \in Sources

UploadTypeInv ==
    /\ todo \in [SlotHosts -> SUBSET Sources]
    /\ upload \in [SlotHosts -> UploadRecord]
    /\ permits \in Nat /\ hostPermits \in [SlotHosts -> Nat]
    /\ active \subseteq Sources \X SlotHosts
    /\ archives \in [Sources -> Archive]
    /\ archiveLock \in SlotHosts \cup {Nothing}
    /\ Serving

SlotsInv == UploadTypeInv /\ SlotsConserved

-----------------------------------------------------------------------------
(* Types.                                                                  *)

LEMMA Records ==
    /\ \A r \in UploadRecord : /\ r.pc \in UploadPCs /\ r.gallery \in Sources \cup {Nothing}
                               /\ r.made \in BOOLEAN
    /\ \A pc \in UploadPCs, g \in Sources \cup {Nothing}, m \in BOOLEAN :
         [pc |-> pc, gallery |-> g, made |-> m] \in UploadRecord
    /\ \A r \in UploadRecord, pc \in UploadPCs : [r EXCEPT !.pc = pc] \in UploadRecord
    /\ \A r \in UploadRecord, pc \in UploadPCs, m \in BOOLEAN :
         [r EXCEPT !.pc = pc, !.made = m] \in UploadRecord
    /\ \A r \in UploadRecord, pc \in UploadPCs, g \in Sources \cup {Nothing} :
         [r EXCEPT !.pc = pc, !.gallery = g] \in UploadRecord
    /\ \A s \in Shapes, n \in Nat : [shape |-> s, refs |-> n] \in Archive
    /\ \A a \in Archive : a.shape \in Shapes /\ a.refs \in Nat
    /\ \A a \in Archive, n \in Nat : [a EXCEPT !.refs = n] \in Archive
  BY DEF UploadRecord, Archive

\* A thread that only goes on to its next step.
LEMMA GoTyped ==
    ASSUME UploadTypeInv, NEW h \in SlotHosts, NEW pc \in UploadPCs, GoU(h, pc), upload[h].pc # "idle"
    PROVE  /\ upload' \in [SlotHosts -> UploadRecord] /\ Serving'
           /\ \A i \in SlotHosts : upload'[i].pc = IF i = h THEN pc ELSE upload[i].pc
<1>1. upload \in [SlotHosts -> UploadRecord] /\ Serving
  BY DEF UploadTypeInv
<1>2. /\ upload' = [upload EXCEPT ![h] = [upload[h] EXCEPT !.pc = pc]]
      /\ [upload[h] EXCEPT !.pc = pc] \in UploadRecord
  BY <1>1, Records DEF GoU
<1>3. upload' \in [SlotHosts -> UploadRecord]
  BY <1>1, <1>2
<1>4. /\ [upload[h] EXCEPT !.pc = pc].gallery = upload[h].gallery
      /\ [upload[h] EXCEPT !.pc = pc].pc = pc
  BY <1>1 DEF UploadRecord
<1>5. upload'[h].pc = pc /\ upload'[h].gallery \in Sources
  BY <1>1, <1>2, <1>4 DEF Serving
<1>6. \A i \in SlotHosts : i # h => upload'[i] = upload[i]
  BY <1>1, <1>2
<1> QED
  BY <1>1, <1>3, <1>5, <1>6 DEF Serving

\* A thread that holds its archive from now on, or no more.
LEMMA MadeTyped ==
    ASSUME UploadTypeInv, NEW h \in SlotHosts, NEW pc \in UploadPCs, NEW m \in BOOLEAN,
           upload' = [upload EXCEPT ![h].pc = pc, ![h].made = m], upload[h].pc # "idle"
    PROVE  /\ upload' \in [SlotHosts -> UploadRecord] /\ Serving'
           /\ \A i \in SlotHosts : upload'[i].pc = IF i = h THEN pc ELSE upload[i].pc
<1> DEFINE r == [upload[h] EXCEPT !.pc = pc, !.made = m]
<1>1. upload \in [SlotHosts -> UploadRecord] /\ Serving
  BY DEF UploadTypeInv
<1>2. upload' = [upload EXCEPT ![h] = r] /\ r \in UploadRecord
  BY <1>1, Records
<1>3. upload' \in [SlotHosts -> UploadRecord]
  BY <1>1, <1>2
<1>4. r.gallery = upload[h].gallery /\ r.pc = pc
  BY <1>1 DEF UploadRecord
<1>5. upload'[h].pc = pc /\ upload'[h].gallery \in Sources
  BY <1>1, <1>2, <1>4 DEF Serving
<1>6. \A i \in SlotHosts : i # h => upload'[i] = upload[i]
  BY <1>1, <1>2
<1> QED
  BY <1>1, <1>3, <1>5, <1>6 DEF Serving

\* A thread that goes back to idle.
LEMMA IdleTyped ==
    ASSUME UploadTypeInv, NEW h \in SlotHosts,
           upload' = [upload EXCEPT ![h].pc = "idle", ![h].gallery = Nothing]
    PROVE  /\ upload' \in [SlotHosts -> UploadRecord] /\ Serving'
           /\ \A i \in SlotHosts : upload'[i].pc = IF i = h THEN "idle" ELSE upload[i].pc
<1> DEFINE r == [upload[h] EXCEPT !.pc = "idle", !.gallery = Nothing]
<1>1. upload \in [SlotHosts -> UploadRecord] /\ Serving /\ "idle" \in UploadPCs
  BY DEF UploadTypeInv, UploadPCs
<1>2. upload' = [upload EXCEPT ![h] = r] /\ r \in UploadRecord
  BY <1>1, Records
<1>3. upload' \in [SlotHosts -> UploadRecord]
  BY <1>1, <1>2
<1>4. r.pc = "idle"
  BY <1>1 DEF UploadRecord
<1>5. upload'[h].pc = "idle"
  BY <1>1, <1>2, <1>4
<1>6. \A i \in SlotHosts : i # h => upload'[i] = upload[i]
  BY <1>1, <1>2
<1> QED
  BY <1>1, <1>3, <1>5, <1>6 DEF Serving

\* A thread that takes a row.
LEMMA TakeTyped ==
    ASSUME UploadTypeInv, NEW h \in SlotHosts, NEW g \in Sources,
           upload' = [upload EXCEPT ![h] = [pc |-> "global", gallery |-> g, made |-> FALSE]]
    PROVE  /\ upload' \in [SlotHosts -> UploadRecord] /\ Serving'
           /\ \A i \in SlotHosts : upload'[i].pc = IF i = h THEN "global" ELSE upload[i].pc
<1>1. upload \in [SlotHosts -> UploadRecord] /\ Serving /\ "global" \in UploadPCs
  BY DEF UploadTypeInv, UploadPCs
<1>2. upload' \in [SlotHosts -> UploadRecord]
  BY <1>1, Records
<1>3. upload'[h].pc = "global" /\ upload'[h].gallery \in Sources
  BY <1>1
<1>4. \A i \in SlotHosts : i # h => upload'[i] = upload[i]
  BY <1>1
<1> QED
  BY <1>1, <1>2, <1>3, <1>4 DEF Serving

-----------------------------------------------------------------------------
(* Slots.                                                                  *)

\* One thread moves: the slots stay counted if it neither enters nor leaves
\* those admitted, or pays for it.
LEMMA SlotMoves ==
    ASSUME SlotsInv, NEW h \in SlotHosts, NEW pc \in UploadPCs, permits' \in Nat,
           \A i \in SlotHosts : upload'[i].pc = IF i = h THEN pc ELSE upload[i].pc,
           \/ (upload[h].pc \in AdmittedPCs <=> pc \in AdmittedPCs) /\ permits' = permits
           \/ /\ upload[h].pc \notin AdmittedPCs /\ pc \in AdmittedPCs
              /\ permits > 0 /\ permits' = permits - 1
           \/ /\ upload[h].pc \in AdmittedPCs /\ pc \notin AdmittedPCs
              /\ permits' = permits + 1
    PROVE  SlotsConserved'
<1>1. Admitted' = IF pc \in AdmittedPCs THEN Admitted \cup {h} ELSE Admitted \ {h}
  BY DEF Admitted, AdmittedPCs
<1>2. IsFiniteSet(Admitted) /\ Cardinality(Admitted) \in Nat
  BY SlotsAssumption, FS_Subset, FS_CardinalityType DEF Admitted
<1>3. permits \in Nat /\ permits + Cardinality(Admitted) = GlobalLimit
  BY DEF SlotsInv, UploadTypeInv, SlotsConserved
<1>4. h \in Admitted <=> upload[h].pc \in AdmittedPCs
  BY DEF Admitted, AdmittedPCs
<1>5. CASE (upload[h].pc \in AdmittedPCs <=> pc \in AdmittedPCs) /\ permits' = permits
  <2>1. Admitted' = Admitted
    BY <1>1, <1>4, <1>5
  <2> QED
    BY <2>1, <1>3, <1>5 DEF SlotsConserved
<1>6. CASE /\ upload[h].pc \notin AdmittedPCs /\ pc \in AdmittedPCs
           /\ permits > 0 /\ permits' = permits - 1
  <2>1. Cardinality(Admitted') = Cardinality(Admitted) + 1
    BY <1>1, <1>2, <1>4, <1>6, FS_AddElement
  <2> QED
    BY <2>1, <1>2, <1>3, <1>6 DEF SlotsConserved
<1>7. CASE /\ upload[h].pc \in AdmittedPCs /\ pc \notin AdmittedPCs
           /\ permits' = permits + 1
  <2>1. Cardinality(Admitted') = Cardinality(Admitted) - 1
    BY <1>1, <1>2, <1>4, <1>7, FS_RemoveElement
  <2> QED
    BY <2>1, <1>2, <1>3, <1>7 DEF SlotsConserved
<1> QED
  BY <1>5, <1>6, <1>7

LEMMA SlotsInit == UploadInit => SlotsInv
<1> SUFFICES ASSUME UploadInit PROVE SlotsInv
  OBVIOUS
<1>1. UploadTypeInv
  <2>1. [pc |-> "idle", gallery |-> Nothing, made |-> FALSE] \in UploadRecord
    BY DEF UploadRecord, UploadPCs
  <2>2. [shape |-> Nothing, refs |-> 0] \in Archive
    BY DEF Archive, Shapes
  <2> QED
    BY <2>1, <2>2, SlotsAssumption DEF UploadInit, UploadTypeInv, Serving
<1>2. Admitted = {}
  BY DEF UploadInit, Admitted
<1> QED
  BY <1>1, <1>2, FS_EmptySet, SlotsAssumption DEF UploadInit, SlotsInv, SlotsConserved

\* What the threads may do to the archives leaves records of archives.
LEMMA ArchiveTyped ==
    ASSUME UploadTypeInv, NEW h \in SlotHosts,
           \/ TakeArchive(h) \/ CreateArchive(h) \/ ReleaseArchive(h)
    PROVE  archives' \in [Sources -> Archive] /\ archiveLock' \in SlotHosts \cup {Nothing}
<1> DEFINE g == Gallery(h)
<1>1. archives \in [Sources -> Archive] /\ archiveLock \in SlotHosts \cup {Nothing}
  BY DEF UploadTypeInv
<1>2. CASE TakeArchive(h)
  <2>1. CASE archives[g].shape = Nothing
    BY <1>1, <1>2, <2>1 DEF TakeArchive
  <2>2. CASE archives[g].shape # Nothing /\ g \in Sources
    <3>0. archives[g] \in Archive
      BY <1>1, <2>2
    <3>1. archives[g].refs + 1 \in Nat
      BY <3>0 DEF Archive
    <3>2. archives' = [archives EXCEPT ![g] = [archives[g] EXCEPT !.refs = archives[g].refs + 1]]
      BY <1>1, <1>2, <2>2 DEF TakeArchive
    <3>3. [archives[g] EXCEPT !.refs = archives[g].refs + 1] \in Archive
      BY <1>1, <2>2, <3>1, Records
    <3> QED
      BY <1>1, <1>2, <2>2, <3>2, <3>3 DEF TakeArchive
  <2>3. g \in Sources
    BY <1>2 DEF TakeArchive, AtU, Gallery, UploadTypeInv, Serving
  <2> QED
    BY <2>1, <2>2, <2>3
<1>3. CASE CreateArchive(h)
  <2>1. [shape |-> Shape[h], refs |-> 1] \in Archive
    BY Records DEF Shapes
  <2> QED
    BY <1>1, <1>3, <2>1 DEF CreateArchive
<1>4. CASE ReleaseArchive(h)
  <2> DEFINE n == IF archives[g].refs > 0 THEN archives[g].refs - 1 ELSE 0
  <2>1. g \in Sources
    BY <1>4 DEF ReleaseArchive, AtU, Gallery, UploadTypeInv, Serving
  <2>0. archives[g] \in Archive
    BY <1>1, <2>1
  <2>2. n \in Nat
    BY <2>0 DEF Archive
  <2>3. [archives[g] EXCEPT !.refs = n] \in Archive
    BY <1>1, <2>1, <2>2, Records
  <2>4. \/ archives' = [archives EXCEPT ![g] = [archives[g] EXCEPT !.refs = n]]
        \/ archives' = archives
    BY <1>1, <1>4 DEF ReleaseArchive
  <2> QED
    BY <1>1, <1>4, <2>3, <2>4 DEF ReleaseArchive
<1> QED
  BY <1>2, <1>3, <1>4

LEMMA SlotsStep == SlotsInv /\ UploadNext => SlotsInv'
<1> SUFFICES ASSUME SlotsInv, NEW h \in SlotHosts, UploadStep(h) PROVE SlotsInv'
  BY DEF UploadNext
<1> USE DEF UploadPCs
<1>0. /\ UploadTypeInv
      /\ todo \in [SlotHosts -> SUBSET Sources] /\ upload \in [SlotHosts -> UploadRecord]
      /\ permits \in Nat /\ hostPermits \in [SlotHosts -> Nat]
      /\ active \subseteq Sources \X SlotHosts
      /\ archives \in [Sources -> Archive] /\ archiveLock \in SlotHosts \cup {Nothing}
      /\ upload[h].pc # "idle" => Gallery(h) \in Sources
  BY DEF SlotsInv, UploadTypeInv, Serving, Gallery
<1>1. CASE TakeRow(h)
  <2>0. PICK g \in Sources : upload' = [upload EXCEPT ![h] =
                               [pc |-> "global", gallery |-> g, made |-> FALSE]]
    BY <1>0, <1>1 DEF TakeRow
  <2>1. /\ upload' \in [SlotHosts -> UploadRecord] /\ Serving'
        /\ \A i \in SlotHosts : upload'[i].pc = IF i = h THEN "global" ELSE upload[i].pc
    BY <1>0, <2>0, TakeTyped
  <2>2. UploadTypeInv'
    BY <1>0, <1>1, <2>1 DEF TakeRow, UploadTypeInv, slotVars, archiveVars
  <2>3. SlotsConserved'
    BY <1>0, <1>1, <2>1, <2>2, SlotMoves DEF TakeRow, AtU, AdmittedPCs, UploadTypeInv, slotVars
  <2> QED
    BY <2>2, <2>3 DEF SlotsInv
<1>2. CASE AcquireGlobal(h)
  <2>1. /\ upload' \in [SlotHosts -> UploadRecord] /\ Serving'
        /\ \A i \in SlotHosts : upload'[i].pc = IF i = h THEN "host" ELSE upload[i].pc
    BY <1>0, <1>2, GoTyped DEF AcquireGlobal, AtU
  <2>2. UploadTypeInv'
    BY <1>0, <1>2, <2>1 DEF AcquireGlobal, UploadTypeInv, slotVars, archiveVars
  <2>3. permits' \in Nat /\ SlotsConserved'
    BY <1>0, <1>2, <2>1, <2>2, SlotMoves DEF AcquireGlobal, AtU, AdmittedPCs, UploadTypeInv, slotVars, archiveVars
  <2> QED
    BY <2>2, <2>3 DEF SlotsInv
<1>3. CASE GiveUpSlot(h)
  <2>1. /\ upload' \in [SlotHosts -> UploadRecord] /\ Serving'
        /\ \A i \in SlotHosts : upload'[i].pc = IF i = h THEN "idle" ELSE upload[i].pc
    BY <1>0, <1>3, IdleTyped DEF GiveUpSlot
  <2>2. UploadTypeInv'
    BY <1>0, <1>3, <2>1 DEF GiveUpSlot, UploadTypeInv, slotVars, archiveVars
  <2>3. permits' \in Nat /\ SlotsConserved'
    BY <1>0, <1>3, <2>1, <2>2, SlotMoves DEF GiveUpSlot, AtU, AdmittedPCs, UploadTypeInv, slotVars, archiveVars
  <2> QED
    BY <2>2, <2>3 DEF SlotsInv
<1>4. CASE AcquireHost(h)
  <2>1. /\ upload' \in [SlotHosts -> UploadRecord] /\ Serving'
        /\ \A i \in SlotHosts : upload'[i].pc = IF i = h THEN "archive" ELSE upload[i].pc
    BY <1>0, <1>4, GoTyped DEF AcquireHost, AtU
  <2>0. /\ Gallery(h) \in Sources
        /\ hostPermits[h] \in Nat /\ hostPermits[h] > 0
    BY <1>0, <1>4 DEF AcquireHost, AtU
  <2>a. hostPermits' \in [SlotHosts -> Nat]
    <3>1. hostPermits[h] - 1 \in Nat
      BY <2>0
    <3> QED
      BY <1>0, <1>4, <3>1 DEF AcquireHost
  <2>b. active' \subseteq Sources \X SlotHosts
    BY <1>0, <1>4, <2>0 DEF AcquireHost
  <2>2. UploadTypeInv'
    BY <1>0, <1>4, <2>1, <2>a, <2>b DEF AcquireHost, UploadTypeInv, archiveVars
  <2>3. permits' \in Nat /\ SlotsConserved'
    BY <1>0, <1>4, <2>1, <2>2, SlotMoves DEF AcquireHost, AtU, AdmittedPCs, UploadTypeInv, slotVars, archiveVars
  <2> QED
    BY <2>2, <2>3 DEF SlotsInv
<1>5. CASE Send(h)
  <2>1. /\ upload' \in [SlotHosts -> UploadRecord] /\ Serving'
        /\ \A i \in SlotHosts : upload'[i].pc = IF i = h THEN "release" ELSE upload[i].pc
    BY <1>0, <1>5, GoTyped DEF Send, AtU
  <2>2. UploadTypeInv'
    BY <1>0, <1>5, <2>1 DEF Send, UploadTypeInv, slotVars, archiveVars
  <2>3. permits' \in Nat /\ SlotsConserved'
    BY <1>0, <1>5, <2>1, <2>2, SlotMoves DEF Send, AtU, AdmittedPCs, UploadTypeInv, slotVars, archiveVars
  <2> QED
    BY <2>2, <2>3 DEF SlotsInv
<1>6. CASE ReleaseArchive(h)
  <2>1. /\ upload' \in [SlotHosts -> UploadRecord] /\ Serving'
        /\ \A i \in SlotHosts : upload'[i].pc = IF i = h THEN "leaveHost" ELSE upload[i].pc
    BY <1>0, <1>6, MadeTyped DEF ReleaseArchive, AtU
  <2>0. todo' \in [SlotHosts -> SUBSET Sources] /\ UNCHANGED slotVars
    BY <1>0, <1>6 DEF ReleaseArchive
  <2>2. UploadTypeInv'
    BY <1>0, <1>6, <2>0, <2>1, ArchiveTyped DEF UploadTypeInv, slotVars
  <2>3. permits' \in Nat /\ SlotsConserved'
    BY <1>0, <1>6, <2>1, <2>2, SlotMoves DEF ReleaseArchive, AtU, AdmittedPCs, UploadTypeInv, slotVars
  <2> QED
    BY <2>2, <2>3 DEF SlotsInv
<1>7. CASE LeaveHost(h)
  <2>1. /\ upload' \in [SlotHosts -> UploadRecord] /\ Serving'
        /\ \A i \in SlotHosts : upload'[i].pc = IF i = h THEN "leaveGlobal" ELSE upload[i].pc
    BY <1>0, <1>7, GoTyped DEF LeaveHost, AtU
  <2>0. hostPermits[h] + 1 \in Nat
    BY <1>0
  <2>a. hostPermits' \in [SlotHosts -> Nat]
    BY <1>0, <1>7, <2>0 DEF LeaveHost
  <2>2. UploadTypeInv'
    BY <1>0, <1>7, <2>1, <2>a DEF LeaveHost, UploadTypeInv, archiveVars
  <2>3. permits' \in Nat /\ SlotsConserved'
    BY <1>0, <1>7, <2>1, <2>2, SlotMoves DEF LeaveHost, AtU, AdmittedPCs, UploadTypeInv, slotVars, archiveVars
  <2> QED
    BY <2>2, <2>3 DEF SlotsInv
<1>8. CASE LeaveGlobal(h)
  <2>1. /\ upload' \in [SlotHosts -> UploadRecord] /\ Serving'
        /\ \A i \in SlotHosts : upload'[i].pc = IF i = h THEN "discard" ELSE upload[i].pc
    BY <1>0, <1>8, GoTyped DEF LeaveGlobal, AtU
  <2>2. UploadTypeInv'
    BY <1>0, <1>8, <2>1 DEF LeaveGlobal, UploadTypeInv, slotVars, archiveVars
  <2>3. permits' \in Nat /\ SlotsConserved'
    BY <1>0, <1>8, <2>1, <2>2, SlotMoves DEF LeaveGlobal, AtU, AdmittedPCs, UploadTypeInv, slotVars, archiveVars
  <2> QED
    BY <2>2, <2>3 DEF SlotsInv
<1>9. CASE Discard(h)
  <2>1. /\ upload' \in [SlotHosts -> UploadRecord] /\ Serving'
        /\ \A i \in SlotHosts : upload'[i].pc = IF i = h THEN "idle" ELSE upload[i].pc
    BY <1>0, <1>9, IdleTyped DEF Discard
  <2>2. UploadTypeInv'
    BY <1>0, <1>9, <2>1 DEF Discard, UploadTypeInv, slotVars, archiveVars
  <2>3. permits' \in Nat /\ SlotsConserved'
    BY <1>0, <1>9, <2>1, <2>2, SlotMoves DEF Discard, AtU, AdmittedPCs, UploadTypeInv, slotVars, archiveVars
  <2> QED
    BY <2>2, <2>3 DEF SlotsInv
<1>10. CASE TakeArchive(h)
  <2>1. /\ upload' \in [SlotHosts -> UploadRecord] /\ Serving'
        /\ \E pc \in {"creating", "send"} : \A i \in SlotHosts :
             upload'[i].pc = IF i = h THEN pc ELSE upload[i].pc
    <3>1. CASE GoU(h, "creating")
      BY <1>0, <1>10, <3>1, GoTyped DEF TakeArchive, AtU
    <3>2. CASE upload' = [upload EXCEPT ![h].pc = "send", ![h].made = TRUE]
      BY <1>0, <1>10, <3>2, MadeTyped DEF TakeArchive, AtU
    <3> QED
      BY <1>10, <3>1, <3>2 DEF TakeArchive
  <2>2. UploadTypeInv'
    BY <1>0, <1>10, <2>1, ArchiveTyped DEF TakeArchive, UploadTypeInv, slotVars
  <2>3. SlotsConserved'
    <3>1. PICK pc \in {"creating", "send"} : \A i \in SlotHosts :
            upload'[i].pc = IF i = h THEN pc ELSE upload[i].pc
      BY <2>1
    <3> QED
      BY <1>0, <1>10, <3>1, SlotMoves DEF TakeArchive, AtU, AdmittedPCs, slotVars
  <2> QED
    BY <2>2, <2>3 DEF SlotsInv
<1>11. CASE CreateArchive(h)
  <2>1. /\ upload' \in [SlotHosts -> UploadRecord] /\ Serving'
        /\ \E pc \in {"release", "send"} : \A i \in SlotHosts :
             upload'[i].pc = IF i = h THEN pc ELSE upload[i].pc
    <3>1. CASE GoU(h, "release")
      BY <1>0, <1>11, <3>1, GoTyped DEF CreateArchive, AtU
    <3>2. CASE upload' = [upload EXCEPT ![h].pc = "send", ![h].made = TRUE]
      BY <1>0, <1>11, <3>2, MadeTyped DEF CreateArchive, AtU
    <3> QED
      BY <1>11, <3>1, <3>2 DEF CreateArchive
  <2>2. UploadTypeInv'
    BY <1>0, <1>11, <2>1, ArchiveTyped DEF CreateArchive, UploadTypeInv, slotVars
  <2>3. SlotsConserved'
    <3>1. PICK pc \in {"release", "send"} : \A i \in SlotHosts :
            upload'[i].pc = IF i = h THEN pc ELSE upload[i].pc
      BY <2>1
    <3> QED
      BY <1>0, <1>11, <3>1, SlotMoves DEF CreateArchive, AtU, AdmittedPCs, slotVars
  <2> QED
    BY <2>2, <2>3 DEF SlotsInv
<1>12. CASE NoArchive(h)
  <2>1. /\ upload' \in [SlotHosts -> UploadRecord] /\ Serving'
        /\ \A i \in SlotHosts : upload'[i].pc = IF i = h THEN "release" ELSE upload[i].pc
    BY <1>0, <1>12, GoTyped DEF NoArchive, AtU
  <2>2. UploadTypeInv'
    BY <1>0, <1>12, <2>1 DEF NoArchive, UploadTypeInv, slotVars, archiveVars
  <2>3. permits' \in Nat /\ SlotsConserved'
    BY <1>0, <1>12, <2>1, <2>2, SlotMoves DEF NoArchive, AtU, AdmittedPCs, UploadTypeInv, slotVars, archiveVars
  <2> QED
    BY <2>2, <2>3 DEF SlotsInv
<1> QED
  BY <1>1, <1>2, <1>3, <1>4, <1>5, <1>6, <1>7, <1>8, <1>9, <1>10, <1>11, <1>12 DEF UploadStep

\* Every step leaves the threads and what they share well typed.
THEOREM UploadTypeCorrect == UploadSpec => []UploadTypeOK
<1>1. SlotsInv /\ UNCHANGED uploadVars => SlotsInv'
  BY DEF SlotsInv, UploadTypeInv, Serving, SlotsConserved, Admitted, uploadVars, slotVars, archiveVars
<1>2. SlotsInv => UploadTypeOK
  BY DEF SlotsInv, UploadTypeInv, UploadTypeOK, UploadRecord, Archive, Shapes
<1> QED
  BY SlotsInit, SlotsStep, <1>1, <1>2, PTL DEF UploadSpec

\* acquire_slot: through timeouts, failed archives and failed uploads every
\* global slot is free or taken by one upload.
THEOREM SlotsAreConserved == UploadSpec => []SlotsConserved
<1>1. SlotsInv /\ UNCHANGED uploadVars => SlotsInv'
  BY DEF SlotsInv, UploadTypeInv, Serving, SlotsConserved, Admitted, uploadVars, slotVars, archiveVars
<1>2. SlotsInv => SlotsConserved
  BY DEF SlotsInv
<1> QED
  BY SlotsInit, SlotsStep, <1>1, <1>2, PTL DEF UploadSpec

-----------------------------------------------------------------------------
(* Archives.  Whoever makes one holds the lock and finds none; once made   *)
(* it keeps its shape, and what was sent had it.                           *)

ArchiveInv ==
    /\ \A h \in SlotHosts : AtU(h, "creating") =>
         archiveLock = h /\ archives[Gallery(h)].shape = Nothing
    /\ \A h \in SlotHosts : AtU(h, "send") => archives[Gallery(h)].shape # Nothing
    /\ \A s \in sentAs : s[2] \in Sources /\ s[3] # Nothing /\ s[3] = archives[s[2]].shape

\* Steps that leave the archives alone.
LEMMA OtherUploadSteps ==
    ASSUME UploadTypeInv, NEW h \in SlotHosts,
           \/ TakeRow(h) \/ AcquireGlobal(h) \/ GiveUpSlot(h) \/ AcquireHost(h) \/ NoArchive(h)
           \/ LeaveHost(h) \/ LeaveGlobal(h) \/ Discard(h)
    PROVE  /\ UNCHANGED <<archives, archiveLock, sentAs>>
           /\ upload'[h].pc \notin {"creating", "send"}
           /\ \A i \in SlotHosts : i # h => upload'[i] = upload[i]
  BY DEF UploadTypeInv, TakeRow, AcquireGlobal, GiveUpSlot, AcquireHost, NoArchive, LeaveHost,
         LeaveGlobal, Discard, GoU, archiveVars, UploadRecord

LEMMA ArchiveStep ==
    ASSUME UploadTypeInv, ArchiveInv, NEW h \in SlotHosts, UploadStep(h)
    PROVE  ArchiveInv'
<1>. upload \in [SlotHosts -> UploadRecord] /\ archives \in [Sources -> Archive]
  BY DEF UploadTypeInv
<1>0. upload[h].pc # "idle" => Gallery(h) \in Sources
  BY DEF UploadTypeInv, Serving, Gallery
<1>1. CASE \/ TakeRow(h) \/ AcquireGlobal(h) \/ GiveUpSlot(h) \/ AcquireHost(h) \/ NoArchive(h)
           \/ LeaveHost(h) \/ LeaveGlobal(h) \/ Discard(h)
  BY <1>1, OtherUploadSteps DEF ArchiveInv, AtU, Gallery
<1>2. CASE TakeArchive(h)
  <2>1. /\ AtU(h, "archive") /\ archiveLock = Nothing /\ sentAs' = sentAs /\ Gallery(h) \in Sources
    BY <1>0, <1>2 DEF TakeArchive, AtU
  <2>2. PICK g \in Sources : g = Gallery(h)
    BY <2>1
  <2>3. CASE archives[g].shape = Nothing
    <3>1. /\ archiveLock' = h /\ archives' = archives /\ upload' = [upload EXCEPT ![h].pc = "creating"]
      BY <1>2, <2>2, <2>3 DEF TakeArchive, GoU
    <3>2. /\ upload'[h].pc = "creating" /\ upload'[h].gallery = g
          /\ \A i \in SlotHosts : i # h => upload'[i] = upload[i]
      BY <2>2, <3>1 DEF UploadRecord, Gallery
    <3>3. \A i \in SlotHosts : ~AtU(i, "creating")
      BY <2>1, SlotsAssumption DEF ArchiveInv
    <3>. QED
      BY <2>1, <2>3, <3>1, <3>2, <3>3 DEF ArchiveInv, AtU, Gallery
  <2>4. CASE archives[g].shape # Nothing
    <3>1. /\ archives' = [archives EXCEPT ![g].refs = archives[g].refs + 1] /\ archiveLock' = archiveLock
          /\ upload' = [upload EXCEPT ![h].pc = "send", ![h].made = TRUE]
      BY <1>2, <2>2, <2>4 DEF TakeArchive
    <3>2. \A k \in Sources : archives'[k].shape = archives[k].shape
      BY <3>1 DEF Archive
    <3>3. /\ upload'[h].pc = "send" /\ upload'[h].gallery = g
          /\ \A i \in SlotHosts : i # h => upload'[i] = upload[i]
      BY <2>2, <3>1 DEF UploadRecord, Gallery
    <3>4. \A i \in SlotHosts : AtU(i, "creating") \/ AtU(i, "send") => Gallery(i) \in Sources
      BY DEF UploadTypeInv, Serving, AtU, Gallery
    <3>. QED
      BY <2>1, <2>4, <3>1, <3>2, <3>3, <3>4 DEF ArchiveInv, AtU, Gallery
  <2>. QED
    BY <2>3, <2>4
<1>3. CASE CreateArchive(h)
  <2>1. /\ AtU(h, "creating") /\ sentAs' = sentAs /\ archiveLock = h
        /\ archives[Gallery(h)].shape = Nothing /\ Gallery(h) \in Sources
    BY <1>0, <1>3 DEF CreateArchive, AtU, ArchiveInv
  <2>2. PICK g \in Sources : g = Gallery(h)
    BY <2>1
  <2>3. \A i \in SlotHosts : i # h => ~AtU(i, "creating")
    BY <2>1 DEF ArchiveInv
  <2>4. \A i \in SlotHosts : AtU(i, "send") => Gallery(i) \in Sources /\ Gallery(i) # g
    BY <2>1, <2>2 DEF UploadTypeInv, Serving, AtU, Gallery, ArchiveInv
  <2>5. CASE /\ archives' = [archives EXCEPT ![g] = [shape |-> Shape[h], refs |-> 1]]
             /\ upload' = [upload EXCEPT ![h].pc = "send", ![h].made = TRUE]
    <3>1. /\ archives'[g].shape = Shape[h] /\ Shape[h] # Nothing
          /\ \A k \in Sources : k # g => archives'[k] = archives[k]
      BY <2>5, SlotsAssumption
    <3>2. /\ upload'[h].pc = "send" /\ upload'[h].gallery = g
          /\ \A i \in SlotHosts : i # h => upload'[i] = upload[i]
      BY <2>2, <2>5 DEF UploadRecord, Gallery
    <3>3. \A s \in sentAs : s[2] \in Sources \ {g} /\ s[3] # Nothing /\ s[3] = archives[s[2]].shape
      BY <2>1, <2>2 DEF ArchiveInv
    <3>. QED
      BY <2>1, <2>3, <2>4, <3>1, <3>2, <3>3 DEF ArchiveInv, AtU, Gallery
  <2>6. CASE GoU(h, "release") /\ archives' = archives
    <3>1. /\ upload'[h].pc = "release"
          /\ \A i \in SlotHosts : i # h => upload'[i] = upload[i]
      BY <2>6 DEF GoU, UploadRecord
    <3>. QED
      BY <2>1, <2>3, <2>6, <3>1 DEF ArchiveInv, AtU, Gallery
  <2>. QED
    BY <1>3, <2>2, <2>5, <2>6 DEF CreateArchive
<1>4. CASE Send(h)
  <2>1. /\ AtU(h, "send") /\ UNCHANGED <<archives, archiveLock>> /\ Gallery(h) \in Sources
        /\ sentAs' = sentAs \cup {<<h, Gallery(h), archives[Gallery(h)].shape>>}
        /\ archives[Gallery(h)].shape # Nothing
    BY <1>0, <1>4 DEF Send, AtU, archiveVars, ArchiveInv
  <2>2. /\ upload'[h].pc = "release"
        /\ \A i \in SlotHosts : i # h => upload'[i] = upload[i]
    BY <1>4 DEF Send, GoU, UploadRecord
  <2>. QED
    BY <2>1, <2>2 DEF ArchiveInv, AtU, Gallery
<1>5. CASE ReleaseArchive(h)
  <2>1. UNCHANGED <<archiveLock, sentAs>> /\ upload' = [upload EXCEPT ![h].pc = "leaveHost", ![h].made = FALSE]
    BY <1>5 DEF ReleaseArchive
  <2>2. \A k \in Sources : archives'[k].shape = archives[k].shape
    <3>1. PICK g : g = Gallery(h)
      OBVIOUS
    <3>2. archives' = archives \/ archives' = [archives EXCEPT ![g].refs = IF archives[g].refs > 0 THEN archives[g].refs - 1 ELSE 0]
      BY <1>5, <3>1 DEF ReleaseArchive
    <3>. QED
      BY <3>2 DEF Archive
  <2>3. /\ upload'[h].pc = "leaveHost"
        /\ \A i \in SlotHosts : i # h => upload'[i] = upload[i]
    BY <2>1 DEF UploadRecord
  <2>4. \A i \in SlotHosts : AtU(i, "creating") \/ AtU(i, "send") => Gallery(i) \in Sources
    BY DEF UploadTypeInv, Serving, AtU, Gallery
  <2>. QED
    BY <2>1, <2>2, <2>3, <2>4 DEF ArchiveInv, AtU, Gallery
<1>. QED
  BY <1>1, <1>2, <1>3, <1>4, <1>5 DEF UploadStep

\* create_or_reuse_archive: however many hosts send a gallery, and whatever fails
\* or is made at the same time, all send it in the same parts.
THEOREM OnePartition == UploadSpec => []OneArchive
<1>1. UploadInit => SlotsInv /\ ArchiveInv
  BY SlotsInit DEF UploadInit, ArchiveInv, AtU
<1>2. SlotsInv /\ ArchiveInv /\ [UploadNext]_uploadVars => (SlotsInv /\ ArchiveInv)'
  <2>1. SlotsInv /\ ArchiveInv /\ UploadNext => (SlotsInv /\ ArchiveInv)'
    BY SlotsStep, ArchiveStep DEF UploadNext, SlotsInv
  <2>2. SlotsInv /\ ArchiveInv /\ UNCHANGED uploadVars => (SlotsInv /\ ArchiveInv)'
    BY DEF SlotsInv, UploadTypeInv, Serving, SlotsConserved, Admitted, ArchiveInv, AtU, Gallery,
           uploadVars, slotVars, archiveVars
  <2>. QED
    BY <2>1, <2>2
<1>3. ArchiveInv => OneArchive
  BY DEF ArchiveInv, OneArchive
<1>. QED
  BY <1>1, <1>2, <1>3, PTL DEF UploadSpec

-----------------------------------------------------------------------------
(* STATISTICS                                                              *)

Queued == Items \cup {NoItem}

Recorder == [host : MetricHosts \cup {NoHost}, done : Nat]

\* What the argument needs of the types.
QueueTypes ==
    /\ recorder \in [Recorders -> Recorder]
    /\ writes \in Seq(Queued) /\ recording \in BOOLEAN

\* The sentinel is put into the queue, and the loop is left, only after close
\* has set the flag.
SentinelIsLate == \A i \in DOMAIN writes : writes[i] = NoItem => ~recording
EndsAfterClose == writer.pc \in {"drain", "write last", "done"} => ~recording
ClosingIsLate == closing => ~recording

MetricsInv == QueueTypes /\ SentinelIsLate /\ EndsAfterClose /\ ClosingIsLate /\ WrittenOnClose

\* The queue grows by one entry at its end, or loses the one at its head.
LEMMA WritesGrow ==
    ASSUME writes \in Seq(Queued), NEW x \in Queued, writes' = Append(writes, x)
    PROVE  /\ writes' \in Seq(Queued)
           /\ \A i \in DOMAIN writes' :
                writes'[i] = x \/ (i \in DOMAIN writes /\ writes'[i] = writes[i])
  <1>1. writes' \in Seq(Queued) /\ Len(writes') = Len(writes) + 1
    BY AppendProperties
  <1>2. \A i \in DOMAIN writes' : i \in 1..Len(writes) + 1
    BY <1>1
  <1> QED  BY <1>1, <1>2, AppendProperties

LEMMA WritesShrink ==
    ASSUME writes \in Seq(Queued), writes # <<>>, writes' = Tail(writes)
    PROVE  /\ writes' \in Seq(Queued)
           /\ Head(writes) \in Queued
           /\ \E i \in DOMAIN writes : Head(writes) = writes[i]
           /\ \A i \in DOMAIN writes' : \E j \in DOMAIN writes : writes'[i] = writes[j]
  <1>1. /\ writes' \in Seq(Queued) /\ Len(writes') = Len(writes) - 1
        /\ Head(writes) \in Queued /\ Head(writes) = writes[1] /\ 1 \in DOMAIN writes
    BY HeadTailProperties
  <1>2. \A i \in DOMAIN writes' : i + 1 \in DOMAIN writes /\ writes'[i] = writes[i + 1]
    BY <1>1
  <1> QED  BY <1>1, <1>2

LEMMA NotAnItem == NoItem \notin Items
  BY MetricsAssumption DEF NoItem, Items

-----------------------------------------------------------------------------

LEMMA MetricsInitInv == MetricsInit => MetricsInv
  <1> SUFFICES ASSUME MetricsInit PROVE MetricsInv
    OBVIOUS
  <1>1. writes = <<>> /\ recording = TRUE /\ closing = FALSE /\ writer.pc = "get"
    BY DEF MetricsInit
  <1>2. recorder \in [Recorders -> Recorder]
    BY MetricsAssumption DEF MetricsInit, Recorder
  <1> QED  BY <1>1, <1>2
           DEF MetricsInv, QueueTypes, SentinelIsLate, EndsAfterClose, ClosingIsLate, WrittenOnClose

LEMMA CountTransferKeeps ==
    ASSUME MetricsInv, NEW r \in Recorders, NEW h \in MetricHosts, CountTransfer(r, h) PROVE MetricsInv'
  <1>1. recorder' \in [Recorders -> Recorder]
    <2>1. recorder[r] \in Recorder /\ [recorder[r] EXCEPT !.host = h] \in Recorder
      BY DEF MetricsInv, QueueTypes, Recorder
    <2>2. recorder' = [recorder EXCEPT ![r] = [recorder[r] EXCEPT !.host = h]]
      BY DEF CountTransfer
    <2> QED  BY <2>1, <2>2 DEF MetricsInv, QueueTypes
  <1>2. UNCHANGED <<writes, writer, recording, closing>>
    BY DEF CountTransfer, writerVars, closeVars
  <1> QED  BY <1>1, <1>2
           DEF MetricsInv, QueueTypes, SentinelIsLate, EndsAfterClose, ClosingIsLate, WrittenOnClose

LEMMA RecordRaisesKeeps ==
    ASSUME MetricsInv, NEW r \in Recorders, NEW h \in MetricHosts, RecordRaises(r, h) PROVE MetricsInv'
  <1>1. recorder' \in [Recorders -> Recorder]
    <2>1. recorder[r] \in Recorder /\ [recorder[r] EXCEPT !.done = recorder[r].done + 1] \in Recorder
      BY DEF MetricsInv, QueueTypes, Recorder
    <2>2. recorder' = [recorder EXCEPT ![r] = [recorder[r] EXCEPT !.done = recorder[r].done + 1]]
      BY DEF RecordRaises
    <2> QED  BY <2>1, <2>2 DEF MetricsInv, QueueTypes
  <1>2. UNCHANGED <<writes, writer, recording, closing>>
    BY DEF RecordRaises, closeVars
  <1> QED  BY <1>1, <1>2
           DEF MetricsInv, QueueTypes, SentinelIsLate, EndsAfterClose, ClosingIsLate, WrittenOnClose

\* A transfer that is queued once the writer has ended is a late one.
LEMMA QueueWriteKeeps ==
    ASSUME MetricsInv, NEW r \in Recorders, QueueWrite(r) PROVE MetricsInv'
  <1> DEFINE x == Item(recorder[r].host)
             y == [host |-> NoHost, done |-> recorder[r].done + 1]
  <1>1. recorder[r] \in Recorder
    BY DEF MetricsInv, QueueTypes
  <1>2. recorder[r].host \in MetricHosts /\ y \in Recorder
    BY <1>1 DEF QueueWrite, Recorder
  <1>3. x \in Items /\ x.late = ~recording /\ writes' = Append(writes, x)
        /\ UNCHANGED <<writer, recording, closing>>
    BY <1>2 DEF QueueWrite, Item, Items, writerVars, closeVars, MetricsInv, QueueTypes
  <1>4. recorder' = [recorder EXCEPT ![r] = y]
    BY DEF QueueWrite
  <1> HIDE DEF x, y
  <1>5. /\ writes' \in Seq(Queued)
        /\ \A i \in DOMAIN writes' :
             writes'[i] = x \/ (i \in DOMAIN writes /\ writes'[i] = writes[i])
    BY <1>3, WritesGrow DEF MetricsInv, QueueTypes, Queued
  <1>6. QueueTypes'
    BY <1>2, <1>3, <1>4, <1>5 DEF MetricsInv, QueueTypes, Recorder
  <1>7. SentinelIsLate'
    BY <1>3, <1>5, NotAnItem DEF MetricsInv, SentinelIsLate
  <1>8. EndsAfterClose' /\ ClosingIsLate'
    BY <1>3 DEF MetricsInv, EndsAfterClose, ClosingIsLate
  <1>9. WrittenOnClose'
    BY <1>3, <1>5 DEF MetricsInv, WrittenOnClose, EndsAfterClose
  <1> QED  BY <1>6, <1>7, <1>8, <1>9 DEF MetricsInv

-----------------------------------------------------------------------------
(* The writer.                                                             *)

LEMMA Went == ASSUME NEW pc, NEW item, GoWriter(pc, item) PROVE writer'.pc = pc
  BY DEF GoWriter

LEMMA WriterKeeps == ASSUME MetricsInv, WriterStep PROVE MetricsInv'
  <1>1. UNCHANGED <<recorder, recording, closing>>
    BY DEF WriterStep, Get, LeaveLoop, Drain, Write, cacheVars, closeVars
  <1>2. \/ UNCHANGED writes
        \/ writes # <<>> /\ writes' = Tail(writes)
    BY DEF WriterStep, Get, LeaveLoop, Drain, Write
  <1>3. QueueTypes' /\ SentinelIsLate' /\ ClosingIsLate'
    BY <1>1, <1>2, WritesShrink DEF MetricsInv, QueueTypes, SentinelIsLate, ClosingIsLate
  <1>4. /\ EndsAfterClose'
        /\ writer'.pc = "done" => writes' = <<>>
    <2>1. CASE Get
      <3>1. writer'.pc = IF Head(writes) = NoItem THEN "drain" ELSE "write"
        BY <2>1, Went DEF Get
      <3>2. Head(writes) = NoItem => ~recording
        BY <2>1, WritesShrink DEF MetricsInv, QueueTypes, SentinelIsLate, Get
      <3> QED  BY <1>1, <3>1, <3>2 DEF EndsAfterClose
    <2>2. CASE LeaveLoop
      <3>1. writer'.pc = "drain" /\ ~recording
        BY <2>2, Went DEF LeaveLoop
      <3> QED  BY <1>1, <3>1 DEF EndsAfterClose
    <2>3. CASE Drain
      <3>1. ~recording
        BY <2>3 DEF Drain, MetricsInv, EndsAfterClose
      <3>2. CASE writes = <<>>
        BY <1>1, <2>3, <3>1, <3>2 DEF Drain, EndsAfterClose
      <3>3. CASE writes # <<>>
        <4>1. writer'.pc \in {"drain", "write last"}
          BY <2>3, <3>3, Went DEF Drain
        <4> QED  BY <1>1, <3>1, <4>1 DEF EndsAfterClose
      <3> QED  BY <3>2, <3>3
    <2>4. CASE Write
      <3>1. writer'.pc = IF writer.pc = "write" THEN "get" ELSE "drain"
        BY <2>4, Went DEF Write
      <3>2. writer.pc # "write" => ~recording
        BY <2>4 DEF Write, MetricsInv, EndsAfterClose
      <3> QED  BY <1>1, <3>1, <3>2 DEF EndsAfterClose
    <2> QED  BY <2>1, <2>2, <2>3, <2>4 DEF WriterStep
  <1>5. WrittenOnClose'
    BY <1>4 DEF WrittenOnClose
  <1> QED  BY <1>3, <1>4, <1>5 DEF MetricsInv

LEMMA CloseKeeps == ASSUME MetricsInv, Close \/ PutSentinel PROVE MetricsInv'
  <1>1. UNCHANGED <<recorder, writer>> /\ ~recording'
    BY DEF Close, PutSentinel, cacheVars, writerVars, MetricsInv, ClosingIsLate, QueueTypes
  <1>2. CASE Close
    <2>1. UNCHANGED writes /\ recording' \in BOOLEAN
      BY <1>2 DEF Close
    <2> QED  BY <1>1, <2>1 DEF MetricsInv, QueueTypes, SentinelIsLate, EndsAfterClose, ClosingIsLate,
                               WrittenOnClose
  <1>3. CASE PutSentinel
    <2>1. writes' = Append(writes, NoItem) /\ recording' \in BOOLEAN
      BY <1>3 DEF PutSentinel, MetricsInv, QueueTypes
    <2>2. /\ writes' \in Seq(Queued)
          /\ \A i \in DOMAIN writes' :
               writes'[i] = NoItem \/ (i \in DOMAIN writes /\ writes'[i] = writes[i])
      BY <2>1, WritesGrow DEF MetricsInv, QueueTypes, Queued
    <2> QED  BY <1>1, <2>1, <2>2 DEF MetricsInv, QueueTypes, SentinelIsLate, EndsAfterClose,
                                     ClosingIsLate, WrittenOnClose
  <1> QED  BY <1>2, <1>3

-----------------------------------------------------------------------------

LEMMA MetricsRest == ASSUME MetricsInv, UNCHANGED metricsVars PROVE MetricsInv'
  <1>1. UNCHANGED <<recorder, writes, writer, recording, closing>>
    BY DEF metricsVars, cacheVars, writerVars, closeVars
  <1> QED  BY <1>1 DEF MetricsInv, QueueTypes, SentinelIsLate, EndsAfterClose, ClosingIsLate,
                       WrittenOnClose

LEMMA MetricsNextInv == MetricsInv /\ [MetricsNext]_metricsVars => MetricsInv'
  BY CountTransferKeeps, RecordRaisesKeeps, QueueWriteKeeps, WriterKeeps, CloseKeeps, MetricsRest DEF MetricsNext

\* However many threads record, and wherever close finds the queue and its
\* writer: when the writer has ended, every transfer that was queued before close
\* has been taken from the queue (record_transfer, _write_worker and close).
THEOREM NothingIsLeft == MetricsSpec => []WrittenOnClose
  <1>1. MetricsInv => WrittenOnClose
    BY DEF MetricsInv
  <1> QED  BY <1>1, MetricsInitInv, MetricsNextInv, PTL DEF MetricsSpec

-----------------------------------------------------------------------------
(* The numbers of the statistics.                                          *)

Cache == [loaded : BOOLEAN, total : Nat, files : Nat, both : BOOLEAN, several : BOOLEAN]

StatsTypes ==
    /\ counted \in [MetricHosts -> Cache]
    /\ table \in [MetricHosts -> Nat] /\ lost \in [MetricHosts -> Nat]
    /\ unseen \in [MetricHosts -> Nat]
    /\ writer \in [pc : WriterPCs, item : Queued]
    /\ writer.item = NoItem <=> writer.pc \notin {"write", "write last"}

\* Nothing of a host is under way or lost before its cache is filled.
FirstIsCounted ==
    \A h \in MetricHosts : ~counted[h].loaded => Underway(h) = 0 /\ lost[h] = 0 /\ unseen[h] = 0

StatsInv == MetricsInv /\ StatsTypes /\ FirstIsCounted /\ StatsAgree

\* The three places of a transfer under way.
Counting(h) == {r \in Recorders : recorder[r].host = h}
SpotsOf(q, h) == {i \in DOMAIN q : q[i].host = h}
InHand(h) == IF writer.item.host = h THEN 1 ELSE 0
InHandEmpty == writer.item = NoItem

LEMMA NoItemHost == ASSUME NEW h \in MetricHosts PROVE NoItem.host # h
  BY MetricsAssumption DEF NoItem

LEMMA PlacesFinite ==
    ASSUME NEW q \in Seq(Queued), NEW h
    PROVE  IsFiniteSet(SpotsOf(q, h)) /\ Cardinality(SpotsOf(q, h)) \in Nat
  <1>1. Len(q) \in Nat /\ DOMAIN q = 1..Len(q)
    BY LenProperties
  <1>2. IsFiniteSet(1..Len(q)) /\ SpotsOf(q, h) \in SUBSET (1..Len(q))
    BY <1>1, FS_Interval DEF SpotsOf
  <1> QED  BY <1>2, FS_Subset, FS_CardinalityType

\* An entry put at the end counts for its host.
LEMMA PlacesGrow ==
    ASSUME NEW q \in Seq(Queued), NEW x \in Queued, NEW h
    PROVE  Cardinality(SpotsOf(Append(q, x), h)) =
             Cardinality(SpotsOf(q, h)) + (IF x.host = h THEN 1 ELSE 0)
  <1> DEFINE n == Len(q) + 1
  <1>1. /\ DOMAIN q = 1..Len(q) /\ DOMAIN Append(q, x) = 1..n /\ Len(q) \in Nat
        /\ Append(q, x)[n] = x /\ \A i \in 1..Len(q) : Append(q, x)[i] = q[i]
    BY AppendProperties, LenProperties
  <1>2. 1..n = (1..Len(q)) \cup {n} /\ n \notin 1..Len(q)
    BY <1>1
  <1> HIDE DEF n
  <1>3. SpotsOf(Append(q, x), h) = IF x.host = h THEN SpotsOf(q, h) \cup {n} ELSE SpotsOf(q, h)
    BY <1>1, <1>2 DEF SpotsOf
  <1>4. n \notin SpotsOf(q, h)
    BY <1>1, <1>2 DEF SpotsOf
  <1>5. IsFiniteSet(SpotsOf(q, h)) /\ Cardinality(SpotsOf(q, h)) \in Nat
    BY PlacesFinite
  <1>6. CASE x.host = h
    BY <1>3, <1>4, <1>5, <1>6, FS_AddElement
  <1>7. CASE x.host # h
    BY <1>3, <1>5, <1>7
  <1> QED  BY <1>6, <1>7

\* The entry taken from the head counted for its host.
LEMMA PlacesShrink ==
    ASSUME NEW q \in Seq(Queued), q # <<>>, NEW h
    PROVE  Cardinality(SpotsOf(q, h)) =
             Cardinality(SpotsOf(Tail(q), h)) + (IF Head(q).host = h THEN 1 ELSE 0)
  <1> DEFINE m == Len(q) - 1
             later == SpotsOf(q, h) \ {1}
             f == [i \in SpotsOf(Tail(q), h) |-> i + 1]
  <1>1. /\ Len(q) \in Nat /\ DOMAIN q = 1..Len(q) /\ Tail(q) \in Seq(Queued)
        /\ DOMAIN Tail(q) = 1..m /\ m \in Nat /\ Head(q) = q[1]
        /\ \A i \in 1..m : Tail(q)[i] = q[i + 1]
    BY HeadTailProperties, LenProperties
  <1>2. \A i \in 1..m : i + 1 \in 1..Len(q) /\ i + 1 # 1
    BY <1>1
  <1>3. \A j \in 1..Len(q) : j # 1 => j - 1 \in 1..m /\ (j - 1) + 1 = j
    BY <1>1
  <1>4. f \in Injection(SpotsOf(Tail(q), h), later)
    <2>1. \A i \in SpotsOf(Tail(q), h) : i \in Nat /\ i + 1 \in later
      BY <1>1, <1>2 DEF SpotsOf
    <2>2. f \in [SpotsOf(Tail(q), h) -> later]
      BY <2>1
    <2>3. \A i, j \in SpotsOf(Tail(q), h) : f[i] = f[j] => i = j
      BY <2>1
    <2> QED  BY <2>2, <2>3 DEF Injection, IsInjective
  <1>5. f \in Surjection(SpotsOf(Tail(q), h), later)
    <2>1. \A j \in later : j - 1 \in SpotsOf(Tail(q), h) /\ f[j - 1] = j
      BY <1>1, <1>3 DEF SpotsOf
    <2>2. f \in [SpotsOf(Tail(q), h) -> later]
      BY <1>4 DEF Injection
    <2> HIDE DEF f, later
    <2> QED  BY <2>1, <2>2 DEF Surjection
  <1>6. ExistsBijection(SpotsOf(Tail(q), h), later)
    BY <1>4, <1>5 DEF ExistsBijection, Bijection
  <1>7. /\ IsFiniteSet(SpotsOf(Tail(q), h)) /\ IsFiniteSet(SpotsOf(q, h))
        /\ Cardinality(SpotsOf(Tail(q), h)) \in Nat /\ Cardinality(SpotsOf(q, h)) \in Nat
    BY <1>1, PlacesFinite
  <1>8. Cardinality(later) = Cardinality(SpotsOf(Tail(q), h))
    BY <1>6, <1>7, FS_Bijection
  <1>9. 1 \in SpotsOf(q, h) <=> Head(q).host = h
    <2>1. 1 \in 1..Len(q)
      BY <1>1
    <2> QED  BY <1>1, <2>1 DEF SpotsOf
  <1>10. Cardinality(later) = IF 1 \in SpotsOf(q, h) THEN Cardinality(SpotsOf(q, h)) - 1
                                                    ELSE Cardinality(SpotsOf(q, h))
    BY <1>7, FS_RemoveElement
  <1> QED  BY <1>7, <1>8, <1>9, <1>10

LEMMA UnderwayIs ==
    ASSUME MetricsInv, NEW h \in MetricHosts
    PROVE  /\ Underway(h) = Cardinality(Counting(h)) + Cardinality(SpotsOf(writes, h)) + InHand(h)
           /\ IsFiniteSet(Counting(h)) /\ Cardinality(Counting(h)) \in Nat
           /\ Cardinality(SpotsOf(writes, h)) \in Nat /\ InHand(h) \in Nat
           /\ Underway(h) \in Nat
  <1>1. Counting(h) \in SUBSET Recorders
    BY DEF Counting
  <1>2. IsFiniteSet(Counting(h)) /\ Cardinality(Counting(h)) \in Nat
    BY <1>1, MetricsAssumption, FS_Subset, FS_CardinalityType
  <1>3. Cardinality(SpotsOf(writes, h)) \in Nat
    BY PlacesFinite DEF MetricsInv, QueueTypes
  <1>4. Underway(h) = Cardinality(Counting(h)) + Cardinality(SpotsOf(writes, h)) + InHand(h)
    BY DEF Underway, Counting, SpotsOf, InHand
  <1>5. InHand(h) \in Nat
    BY DEF InHand
  <1> QED  BY <1>2, <1>3, <1>4, <1>5

\* One thread counts a transfer, or queues the one it has counted.
LEMMA CountingMoves ==
    ASSUME MetricsInv, NEW r \in Recorders, NEW x \in Recorder, NEW h \in MetricHosts,
           recorder' = [recorder EXCEPT ![r] = x]
    PROVE  /\ recorder[r].host # h /\ x.host = h =>
                Cardinality(Counting(h)') = Cardinality(Counting(h)) + 1
           /\ recorder[r].host = h /\ x.host # h =>
                Cardinality(Counting(h)') = Cardinality(Counting(h)) - 1
           /\ (recorder[r].host = h <=> x.host = h) => Counting(h)' = Counting(h)
  <1>1. recorder \in [Recorders -> Recorder]
    BY DEF MetricsInv, QueueTypes
  <1>2. IsFiniteSet(Counting(h)) /\ Cardinality(Counting(h)) \in Nat
    BY UnderwayIs
  <1>3. Counting(h)' = IF x.host = h THEN Counting(h) \cup {r} ELSE Counting(h) \ {r}
    BY <1>1 DEF Counting
  <1>4. r \in Counting(h) <=> recorder[r].host = h
    BY DEF Counting
  <1>5. Cardinality(Counting(h) \cup {r}) =
            IF r \in Counting(h) THEN Cardinality(Counting(h)) ELSE Cardinality(Counting(h)) + 1
    BY <1>2, FS_AddElement
  <1>6. Cardinality(Counting(h) \ {r}) =
            IF r \in Counting(h) THEN Cardinality(Counting(h)) - 1 ELSE Cardinality(Counting(h))
    BY <1>2, FS_RemoveElement
  <1>7. (recorder[r].host = h <=> x.host = h) => Counting(h)' = Counting(h)
    BY <1>3, <1>4
  <1> QED  BY <1>3, <1>4, <1>5, <1>6, <1>7

-----------------------------------------------------------------------------

LEMMA StatsInitInv == MetricsInit => StatsInv
  <1> SUFFICES ASSUME MetricsInit PROVE StatsInv
    OBVIOUS
  <1>1. MetricsInv
    BY MetricsInitInv
  <1>2. StatsTypes
    <2>1. Uncounted \in Cache /\ writer.pc = "get" /\ writer.item = NoItem
      BY DEF MetricsInit, Uncounted, Cache
    <2>2. writer \in [pc : WriterPCs, item : Queued]
      BY DEF MetricsInit, WriterPCs, Queued
    <2> QED  BY <2>1, <2>2 DEF MetricsInit, StatsTypes
  <1>3. ASSUME NEW h \in MetricHosts PROVE Underway(h) = 0
    <2>1. Counting(h) = {} /\ InHand(h) = 0
      BY MetricsAssumption DEF MetricsInit, Counting, InHand, NoItem
    <2>2. SpotsOf(writes, h) = {}
      BY DEF MetricsInit, SpotsOf
    <2> QED  BY <1>1, <2>1, <2>2, UnderwayIs, FS_EmptySet
  <1>4. FirstIsCounted /\ StatsAgree
    BY <1>3 DEF MetricsInit, Uncounted, FirstIsCounted, StatsAgree
  <1> QED  BY <1>1, <1>2, <1>4 DEF StatsInv

\* What a step must do to the numbers of a host whose cache it does not fill.
Balanced(h) ==
    /\ counted'[h] = counted[h]
    /\ unseen'[h] = unseen[h] /\ lost'[h] \in Nat /\ table'[h] \in Nat
    /\ table'[h] + Underway(h)' + lost'[h] = table[h] + Underway(h) + lost[h]
    /\ Underway(h) = 0 => Underway(h)' = 0 /\ lost'[h] = lost[h]

LEMMA BalanceKept ==
    ASSUME StatsInv, MetricsInv', StatsTypes', \A h \in MetricHosts : Balanced(h)
    PROVE  StatsInv'
  <1>1. FirstIsCounted'
    BY DEF StatsInv, FirstIsCounted, Balanced
  <1>2. ASSUME NEW h \in MetricHosts, counted'[h].loaded
        PROVE  /\ counted'[h].total + unseen'[h] = table'[h] + Underway(h)' + lost'[h]
               /\ \/ counted'[h].several
                  \/ counted'[h].files + unseen'[h] = table'[h] + Underway(h)' + lost'[h]
    BY <1>2 DEF StatsInv, StatsAgree, Balanced
  <1>3. StatsAgree'
    BY <1>2 DEF StatsAgree
  <1> QED  BY <1>1, <1>3 DEF StatsInv

\* What is counted for h, and what the cache had or has just read before.
LEMMA CountedValues ==
    ASSUME StatsTypes, NEW h \in MetricHosts, NEW n \in FileCounts, NEW both \in BOOLEAN,
           NEW seen \in {0, table[h]}, CountFrom(h, n, seen, both)
    PROVE  /\ counted' \in [MetricHosts -> Cache] /\ unseen' \in [MetricHosts -> Nat]
           /\ seen \in Nat /\ counted'[h].loaded
           /\ counted'[h].total = (IF counted[h].loaded THEN counted[h].total ELSE seen) + 1
           /\ \/ counted'[h].several
              \/ /\ ~counted[h].several
                 /\ counted'[h].files = (IF counted[h].loaded THEN counted[h].files ELSE seen) + 1
           /\ unseen'[h] = (IF counted[h].loaded THEN unseen[h] ELSE table[h] - seen)
           /\ \A g \in MetricHosts \ {h} : counted'[g] = counted[g] /\ unseen'[g] = unseen[g]
  <1> DEFINE base == IF counted[h].loaded THEN counted[h] ELSE Read(seen)
             c == Counted(counted[h], base, n, both)
  <1>1. counted[h] \in Cache /\ table[h] \in Nat /\ unseen[h] \in Nat /\ n \in Nat \ {0}
    BY MetricsAssumption DEF StatsTypes
  <1>2. seen \in Nat /\ table[h] - seen \in Nat
    <2>1. seen = 0 \/ seen = table[h]
      OBVIOUS
    <2> QED  BY <1>1, <2>1
  <1>3. /\ base.total = (IF counted[h].loaded THEN counted[h].total ELSE seen)
        /\ base.files = (IF counted[h].loaded THEN counted[h].files ELSE seen)
        /\ base.total \in Nat /\ base.files \in Nat
    BY <1>1, <1>2 DEF Read, Cache
  <1> HIDE DEF base
  <1>4. /\ c.loaded = TRUE /\ c.total = base.total + 1 /\ c.files = base.files + n
        /\ c.several = (counted[h].several \/ n > 1) /\ c \in Cache
    <2>1. PICK k \in Cache : k = counted[h]
      BY <1>1
    <2>2. PICK late \in BOOLEAN : late = (k.several \/ n > 1)
      OBVIOUS
    <2>3. k.several \in BOOLEAN /\ late = (k.several \/ n > 1)
      BY <2>2 DEF Cache
    <2>4. c = [k EXCEPT !.loaded = TRUE, !.total = base.total + 1, !.files = base.files + n,
                        !.both = both, !.several = late]
      BY <2>1, <2>3 DEF Counted
    <2>5. base.total + 1 \in Nat /\ base.files + n \in Nat
      BY <1>1, <1>3
    <2> QED  BY <2>1, <2>3, <2>4, <2>5 DEF Cache
  <1>5. /\ counted' = [counted EXCEPT ![h] = c]
        /\ unseen' = [unseen EXCEPT ![h] = IF counted[h].loaded THEN unseen[h] ELSE table[h] - seen]
    BY DEF CountFrom, base
  <1> HIDE DEF c
  <1>6. counted'[h] = c /\ counted' \in [MetricHosts -> Cache] /\ unseen' \in [MetricHosts -> Nat]
    BY <1>1, <1>2, <1>4, <1>5 DEF StatsTypes
  <1>7. ~c.several => ~counted[h].several /\ n = 1
    BY <1>1, <1>4 DEF Cache
  <1> QED  BY <1>2, <1>3, <1>4, <1>5, <1>6, <1>7 DEF StatsTypes

\* One more transfer of h is counted, and is under way, or lost.
LEMMA CountedStats ==
    ASSUME StatsInv, MetricsInv', NEW h \in MetricHosts, NEW n \in FileCounts, NEW both \in BOOLEAN,
           NEW seen \in {0, table[h]}, CountFrom(h, n, seen, both),
           UNCHANGED <<writer, table>>, lost' \in [MetricHosts -> Nat],
           Underway(h)' + lost'[h] = Underway(h) + lost[h] + 1,
           \A g \in MetricHosts \ {h} : Underway(g)' = Underway(g) /\ lost'[g] = lost[g]
    PROVE  StatsInv'
  <1>1. MetricsInv /\ StatsTypes /\ FirstIsCounted /\ StatsAgree
    BY DEF StatsInv
  <1>2. /\ counted' \in [MetricHosts -> Cache] /\ unseen' \in [MetricHosts -> Nat]
        /\ seen \in Nat /\ counted'[h].loaded
        /\ counted'[h].total = (IF counted[h].loaded THEN counted[h].total ELSE seen) + 1
        /\ \/ counted'[h].several
           \/ /\ ~counted[h].several
              /\ counted'[h].files = (IF counted[h].loaded THEN counted[h].files ELSE seen) + 1
        /\ unseen'[h] = (IF counted[h].loaded THEN unseen[h] ELSE table[h] - seen)
        /\ \A g \in MetricHosts \ {h} : counted'[g] = counted[g] /\ unseen'[g] = unseen[g]
    BY <1>1, CountedValues
  <1>3. StatsTypes'
    BY <1>1, <1>2 DEF StatsTypes
  <1>4. FirstIsCounted'
    BY <1>1, <1>2 DEF FirstIsCounted
  <1>5. /\ table[h] \in Nat /\ unseen[h] \in Nat /\ lost[h] \in Nat /\ lost'[h] \in Nat /\ table'[h] = table[h]
        /\ counted[h].total \in Nat /\ counted[h].files \in Nat
        /\ Underway(h) \in Nat /\ Underway(h)' \in Nat
    <2>1. Underway(h) \in Nat
      BY <1>1, UnderwayIs
    <2>2. Underway(h)' = Cardinality(Counting(h)') + Cardinality(SpotsOf(writes', h)) + InHand(h)'
      BY DEF Underway, Counting, SpotsOf, InHand
    <2>3. Cardinality(Counting(h)') \in Nat
      <3>1. Counting(h)' \in SUBSET Recorders
        BY DEF Counting
      <3> QED  BY <3>1, MetricsAssumption, FS_Subset, FS_CardinalityType
    <2>4. Cardinality(SpotsOf(writes', h)) \in Nat
      BY PlacesFinite DEF MetricsInv, QueueTypes
    <2>5. InHand(h)' \in Nat
      BY DEF InHand
    <2>6. Underway(h)' \in Nat
      BY <2>2, <2>3, <2>4, <2>5
    <2>7. /\ table[h] \in Nat /\ unseen[h] \in Nat /\ lost[h] \in Nat /\ counted[h] \in Cache
      BY <1>1 DEF StatsTypes
    <2>8. lost'[h] \in Nat /\ table'[h] = table[h]
      OBVIOUS
    <2> QED  BY <2>1, <2>6, <2>7, <2>8 DEF Cache
  <1>6. /\ counted'[h].total + unseen'[h] = table'[h] + Underway(h)' + lost'[h]
        /\ \/ counted'[h].several
           \/ counted'[h].files + unseen'[h] = table'[h] + Underway(h)' + lost'[h]
    <2>1. CASE counted[h].loaded
      <3>1. /\ counted[h].total + unseen[h] = table[h] + Underway(h) + lost[h]
            /\ counted[h].several \/ counted[h].files + unseen[h] = table[h] + Underway(h) + lost[h]
        BY <1>1, <2>1 DEF StatsAgree
      <3> QED  BY <1>2, <1>5, <2>1, <3>1
    <2>2. CASE ~counted[h].loaded
      <3>1. Underway(h) = 0 /\ lost[h] = 0
        BY <1>1, <2>2 DEF FirstIsCounted
      <3>2. Underway(h)' + lost'[h] = 1
        BY <3>1
      <3> QED  BY <1>2, <1>5, <2>2, <3>2
    <2> QED  BY <2>1, <2>2
  <1>7. StatsAgree'
    BY <1>1, <1>2, <1>6 DEF StatsAgree
  <1> QED  BY <1>3, <1>4, <1>7 DEF StatsInv

LEMMA CountTransferStats ==
    ASSUME StatsInv, NEW r \in Recorders, NEW h \in MetricHosts, CountTransfer(r, h)
    PROVE  StatsInv'
  <1> DEFINE x == [recorder[r] EXCEPT !.host = h]
  <1>1. MetricsInv /\ MetricsInv' /\ StatsTypes
    BY CountTransferKeeps DEF StatsInv
  <1>2. recorder[r].host = NoHost /\ NoHost # h /\ recorder[r] \in Recorder
    BY <1>1, MetricsAssumption DEF CountTransfer, Idle, MetricsInv, QueueTypes
  <1>3. x \in Recorder /\ x.host = h /\ recorder' = [recorder EXCEPT ![r] = x]
    BY <1>2 DEF Recorder, CountTransfer
  <1> HIDE DEF x
  <1>4. UNCHANGED <<writes, writer, table, lost>>
    BY DEF CountTransfer, writerVars
  <1>5. Underway(h)' = Underway(h) + 1
    <2>1. Cardinality(Counting(h)') = Cardinality(Counting(h)) + 1
      BY <1>1, <1>2, <1>3, CountingMoves
    <2>2. Underway(h)' = Cardinality(Counting(h)') + Cardinality(SpotsOf(writes, h)) + InHand(h)
      BY <1>4 DEF Underway, Counting, SpotsOf, InHand
    <2> QED  BY <1>1, <2>1, <2>2, UnderwayIs
  <1>6. ASSUME NEW g \in MetricHosts \ {h} PROVE Underway(g)' = Underway(g)
    <2>1. recorder[r].host # g /\ x.host # g
      BY <1>2, <1>3, <1>6, MetricsAssumption
    <2>2. Counting(g)' = Counting(g)
      BY <1>1, <1>3, <2>1, CountingMoves
    <2> QED  BY <1>4, <2>2 DEF Underway, Counting
  <1>7. PICK n \in FileCounts, seen \in {0, table[h]} : CountFrom(h, n, seen, TRUE)
    BY DEF CountTransfer
  <1>8. Underway(h)' + lost'[h] = Underway(h) + lost[h] + 1
    <2>1. lost[h] \in Nat /\ Underway(h) \in Nat /\ lost'[h] = lost[h]
      BY <1>1, <1>4, UnderwayIs DEF StatsTypes
    <2> QED  BY <1>5, <2>1
  <1>9. /\ lost' \in [MetricHosts -> Nat] /\ UNCHANGED <<writer, table>> /\ TRUE \in BOOLEAN
        /\ \A g \in MetricHosts \ {h} : Underway(g)' = Underway(g) /\ lost'[g] = lost[g]
    BY <1>1, <1>4, <1>6 DEF StatsTypes
  <1> QED  BY <1>1, <1>7, <1>8, <1>9, CountedStats

\* The caller gets an error: what has been counted by then is lost.
LEMMA RecordRaisesStats ==
    ASSUME StatsInv, NEW r \in Recorders, NEW h \in MetricHosts, RecordRaises(r, h)
    PROVE  StatsInv'
  <1> DEFINE x == [recorder[r] EXCEPT !.done = recorder[r].done + 1]
  <1>1. MetricsInv /\ MetricsInv' /\ StatsTypes
    BY RecordRaisesKeeps DEF StatsInv
  <1>2. recorder[r] \in Recorder
    BY <1>1 DEF MetricsInv, QueueTypes
  <1>3. x \in Recorder /\ x.host = recorder[r].host /\ recorder' = [recorder EXCEPT ![r] = x]
    BY <1>2 DEF Recorder, RecordRaises
  <1> HIDE DEF x
  <1>4. UNCHANGED <<writes, writer, table>>
    BY DEF RecordRaises
  <1>5. ASSUME NEW g \in MetricHosts PROVE Underway(g)' = Underway(g)
    <2>1. Counting(g)' = Counting(g)
      BY <1>1, <1>3, CountingMoves
    <2> QED  BY <1>4, <2>1 DEF Underway, Counting
  <1>6. CASE UNCHANGED <<counted, unseen, lost>>
    <2>1. StatsTypes'
      BY <1>1, <1>4, <1>6 DEF StatsTypes
    <2>2. \A g \in MetricHosts : Balanced(g)
      BY <1>1, <1>4, <1>5, <1>6 DEF Balanced, StatsTypes
    <2> QED  BY <1>1, <2>1, <2>2, BalanceKept
  <1>7. CASE /\ \E n \in FileCounts, seen \in {0, table[h]} : CountFrom(h, n, seen, FALSE)
             /\ lost' = [lost EXCEPT ![h] = lost[h] + 1]
    <2>1. PICK n \in FileCounts, seen \in {0, table[h]} : CountFrom(h, n, seen, FALSE)
      BY <1>7
    <2>2. /\ lost' \in [MetricHosts -> Nat] /\ lost'[h] = lost[h] + 1 /\ lost[h] \in Nat
          /\ \A g \in MetricHosts \ {h} : lost'[g] = lost[g]
      <3>1. lost \in [MetricHosts -> Nat] /\ lost[h] \in Nat
        BY <1>1 DEF StatsTypes
      <3>2. lost[h] + 1 \in Nat /\ lost' = [lost EXCEPT ![h] = lost[h] + 1]
        BY <1>7, <3>1
      <3> QED  BY <3>1, <3>2
    <2>3. Underway(h)' + lost'[h] = Underway(h) + lost[h] + 1
      <3>1. Underway(h) \in Nat /\ Underway(h)' = Underway(h)
        BY <1>1, <1>5, UnderwayIs
      <3> QED  BY <2>2, <3>1
    <2>4. UNCHANGED <<writer, table>> /\ FALSE \in BOOLEAN
      BY <1>4
    <2> QED  BY <1>1, <1>5, <2>1, <2>2, <2>3, <2>4, CountedStats
  <1> QED  BY <1>6, <1>7 DEF RecordRaises

\* From the hands of the thread into the queue.
LEMMA QueueWriteStats ==
    ASSUME StatsInv, NEW r \in Recorders, QueueWrite(r) PROVE StatsInv'
  <1> DEFINE x == [host |-> NoHost, done |-> recorder[r].done + 1]
             i == Item(recorder[r].host)
  <1>1. MetricsInv /\ MetricsInv' /\ StatsTypes
    BY QueueWriteKeeps DEF StatsInv
  <1>2. recorder[r] \in Recorder /\ writes \in Seq(Queued) /\ recording \in BOOLEAN
    BY <1>1 DEF MetricsInv, QueueTypes
  <1>3. /\ x \in Recorder /\ x.host = NoHost /\ recorder' = [recorder EXCEPT ![r] = x]
        /\ i \in Queued /\ i.host = recorder[r].host /\ writes' = Append(writes, i)
    BY <1>2 DEF QueueWrite, Recorder, Item, Items, Queued
  <1> HIDE DEF x, i
  <1>4. UNCHANGED <<counted, unseen, writer, table, lost>>
    BY DEF QueueWrite, writerVars
  <1>5. ASSUME NEW h \in MetricHosts PROVE Underway(h)' = Underway(h)
    <2>1. Cardinality(SpotsOf(writes', h)) =
            Cardinality(SpotsOf(writes, h)) + (IF recorder[r].host = h THEN 1 ELSE 0)
      BY <1>2, <1>3, PlacesGrow
    <2>2. x.host # h
      BY <1>3, MetricsAssumption
    <2>3. Cardinality(Counting(h)') =
            Cardinality(Counting(h)) - (IF recorder[r].host = h THEN 1 ELSE 0)
      <3>1. Cardinality(Counting(h)) \in Nat
        BY <1>1, UnderwayIs
      <3>2. CASE recorder[r].host = h
        BY <1>1, <1>3, <2>2, <3>1, <3>2, CountingMoves
      <3>3. CASE recorder[r].host # h
        <4>1. Counting(h)' = Counting(h)
          BY <1>1, <1>3, <2>2, <3>3, CountingMoves
        <4> QED  BY <3>1, <3>3, <4>1
      <3> QED  BY <3>2, <3>3
    <2>4. Underway(h)' = Cardinality(Counting(h)') + Cardinality(SpotsOf(writes', h)) + InHand(h)
      BY <1>4 DEF Underway, Counting, SpotsOf, InHand
    <2> QED  BY <1>1, <2>1, <2>3, <2>4, UnderwayIs
  <1>6. StatsTypes'
    BY <1>1, <1>4 DEF StatsTypes
  <1>7. \A h \in MetricHosts : Balanced(h)
    BY <1>1, <1>4, <1>5 DEF Balanced, StatsTypes
  <1> QED  BY <1>1, <1>6, <1>7, BalanceKept

\* The writer takes an entry from the queue.
Takes(pc) ==
    /\ writes # <<>> /\ writes' = Tail(writes) /\ writer' = [pc |-> pc, item |-> Head(writes)]
    /\ Head(writes) = NoItem <=> pc \notin {"write", "write last"}
    /\ UNCHANGED <<cacheVars, table, lost>>

LEMMA TakenStats ==
    ASSUME StatsInv, MetricsInv', InHandEmpty, NEW pc \in WriterPCs, Takes(pc)
    PROVE  StatsInv'
  <1>1. MetricsInv /\ StatsTypes /\ writes \in Seq(Queued) /\ Head(writes) \in Queued
    BY WritesShrink DEF StatsInv, MetricsInv, QueueTypes, Takes
  <1>2. ASSUME NEW h \in MetricHosts PROVE Underway(h)' = Underway(h)
    <2>1. Cardinality(SpotsOf(writes, h)) =
            Cardinality(SpotsOf(writes', h)) + (IF Head(writes).host = h THEN 1 ELSE 0)
      BY <1>1, PlacesShrink DEF Takes
    <2>2. InHand(h) = 0 /\ InHand(h)' = (IF Head(writes).host = h THEN 1 ELSE 0)
      BY NoItemHost DEF InHand, InHandEmpty, Takes
    <2>3. Underway(h)' = Cardinality(Counting(h)) + Cardinality(SpotsOf(writes', h)) + InHand(h)'
      BY DEF Underway, Counting, SpotsOf, InHand, cacheVars, Takes
    <2>4. Cardinality(SpotsOf(writes', h)) \in Nat
      BY PlacesFinite DEF MetricsInv, QueueTypes
    <2>5. /\ Underway(h) = Cardinality(Counting(h)) + Cardinality(SpotsOf(writes, h)) + InHand(h)
          /\ Cardinality(Counting(h)) \in Nat
      BY <1>1, UnderwayIs
    <2>6. CASE Head(writes).host = h
      <3>1. Cardinality(SpotsOf(writes, h)) = Cardinality(SpotsOf(writes', h)) + 1 /\ InHand(h)' = 1
        BY <2>1, <2>2, <2>6
      <3> QED  BY <2>2, <2>3, <2>4, <2>5, <3>1
    <2>7. CASE Head(writes).host # h
      <3>1. Cardinality(SpotsOf(writes, h)) = Cardinality(SpotsOf(writes', h)) + 0 /\ InHand(h)' = 0
        BY <2>1, <2>2, <2>7
      <3> QED  BY <2>2, <2>3, <2>4, <2>5, <3>1
    <2> QED  BY <2>6, <2>7
  <1>3. StatsTypes'
    BY <1>1 DEF StatsTypes, cacheVars, Takes
  <1>4. \A h \in MetricHosts : Balanced(h)
    BY <1>1, <1>2 DEF Balanced, StatsTypes, cacheVars, Takes
  <1> QED  BY <1>3, <1>4, BalanceKept

\* The writer has nothing in hand, before and after.
LEMMA RestingStats ==
    ASSUME StatsInv, MetricsInv', StatsTypes', InHandEmpty, InHandEmpty',
           UNCHANGED <<cacheVars, writes, table, lost>>
    PROVE  StatsInv'
  <1>1. \A h \in MetricHosts : Underway(h)' = Underway(h)
    BY DEF Underway, InHandEmpty, cacheVars
  <1>2. \A h \in MetricHosts : Balanced(h)
    BY <1>1 DEF Balanced, StatsInv, StatsTypes, cacheVars
  <1> QED  BY <1>2, BalanceKept

\* What was in hand is in the table, or lost.
LEMMA WriteStats == ASSUME StatsInv, Write PROVE StatsInv'
  <1> DEFINE k == writer.item.host
  <1>1. MetricsInv /\ MetricsInv' /\ StatsTypes
    BY WriterKeeps DEF StatsInv, WriterStep
  <1>2. writer.item # NoItem /\ k \in MetricHosts
    BY <1>1 DEF StatsTypes, Write, Items, Queued
  <1>3. table[k] \in Nat /\ lost[k] \in Nat
    BY <1>1, <1>2 DEF StatsTypes
  <1>4. \/ table' = [table EXCEPT ![k] = table[k] + 1] /\ lost' = lost
        \/ lost' = [lost EXCEPT ![k] = lost[k] + 1] /\ table' = table
    BY DEF Write
  <1>5. /\ writer' \in [pc : WriterPCs, item : Queued] /\ InHandEmpty'
        /\ writer'.pc \notin {"write", "write last"}
        /\ UNCHANGED <<recorder, counted, unseen, writes>>
    BY DEF Write, GoWriter, WriterPCs, Queued, InHandEmpty, cacheVars
  <1>6. StatsTypes'
    <2>1. table[k] + 1 \in Nat /\ lost[k] + 1 \in Nat
      BY <1>3
    <2>2. table' \in [MetricHosts -> Nat] /\ lost' \in [MetricHosts -> Nat]
      BY <1>1, <1>4, <2>1 DEF StatsTypes
    <2> QED  BY <1>1, <1>5, <2>2 DEF StatsTypes, InHandEmpty
  <1> HIDE DEF k
  <1>7. ASSUME NEW h \in MetricHosts
        PROVE  Underway(h) = Underway(h)' + (IF h = k THEN 1 ELSE 0)
    <2>1. InHand(h)' = 0 /\ InHand(h) = IF h = k THEN 1 ELSE 0
      BY <1>5, NoItemHost DEF InHand, InHandEmpty, k
    <2>2. Underway(h)' = Cardinality(Counting(h)) + Cardinality(SpotsOf(writes, h)) + InHand(h)'
      BY <1>5 DEF Underway, Counting, SpotsOf, InHand
    <2> QED  BY <1>1, <2>1, <2>2, UnderwayIs
  <1>8. ASSUME NEW h \in MetricHosts PROVE Balanced(h)
    <2>0. Underway(h) \in Nat /\ Underway(h)' \in Nat
      <3>1. Underway(h)' = Cardinality(Counting(h)') + Cardinality(SpotsOf(writes', h)) + InHand(h)'
        BY DEF Underway, Counting, SpotsOf, InHand
      <3>2. Counting(h)' = Counting(h) /\ writes' = writes /\ InHand(h)' \in Nat
        BY <1>5 DEF Counting, InHand
      <3> QED  BY <1>1, <3>1, <3>2, UnderwayIs
    <2>1. /\ Underway(h) \in Nat /\ Underway(h)' \in Nat
          /\ Underway(h) = Underway(h)' + (IF h = k THEN 1 ELSE 0)
      BY <1>7, <2>0
    <2>2. table[h] \in Nat /\ lost[h] \in Nat /\ table'[h] \in Nat /\ lost'[h] \in Nat
      BY <1>1, <1>6 DEF StatsTypes
    <2>3. CASE h = k
      <3>1. table'[h] + lost'[h] = table[h] + lost[h] + 1
        <4>1. \/ table'[h] = table[h] + 1 /\ lost'[h] = lost[h]
              \/ lost'[h] = lost[h] + 1 /\ table'[h] = table[h]
          BY <1>1, <1>4, <2>3 DEF StatsTypes
        <4> QED  BY <2>2, <4>1
      <3>2. Underway(h) = Underway(h)' + 1
        BY <2>1, <2>3
      <3>3. table'[h] + Underway(h)' + lost'[h] = table[h] + Underway(h) + lost[h]
        BY <2>1, <2>2, <3>1, <3>2
      <3>4. Underway(h) # 0
        BY <2>1, <3>2
      <3> QED  BY <1>5, <2>2, <3>3, <3>4 DEF Balanced
    <2>4. CASE h # k
      <3>1. table'[h] = table[h] /\ lost'[h] = lost[h]
        BY <1>1, <1>4, <2>4 DEF StatsTypes
      <3>2. Underway(h) = Underway(h)'
        BY <2>1, <2>4
      <3> QED  BY <1>5, <2>2, <3>1, <3>2 DEF Balanced
    <2> QED  BY <2>3, <2>4
  <1> QED  BY <1>1, <1>6, <1>8, BalanceKept

LEMMA WriterStats == ASSUME StatsInv, WriterStep PROVE StatsInv'
  <1>1. MetricsInv /\ MetricsInv' /\ StatsTypes
    BY WriterKeeps DEF StatsInv
  <1>2. CASE Get
    <2>1. InHandEmpty
      BY <1>1, <1>2 DEF Get, StatsTypes, InHandEmpty
    <2>2. PICK pc \in {"drain", "write"} :
            /\ writer' = [pc |-> pc, item |-> Head(writes)]
            /\ Head(writes) = NoItem <=> pc # "write"
      BY <1>2 DEF Get, GoWriter
    <2>3. pc \in WriterPCs /\ (Head(writes) = NoItem <=> pc \notin {"write", "write last"})
      BY <2>2 DEF WriterPCs
    <2> QED  BY <1>1, <1>2, <2>1, <2>2, <2>3, TakenStats DEF Get, Takes
  <1>3. CASE LeaveLoop
    <2>1. InHandEmpty /\ InHandEmpty' /\ UNCHANGED <<cacheVars, writes, table, lost>>
      BY <1>1, <1>3 DEF LeaveLoop, GoWriter, StatsTypes, InHandEmpty
    <2>2. StatsTypes'
      BY <1>1, <1>3 DEF LeaveLoop, GoWriter, StatsTypes, cacheVars, WriterPCs
    <2> QED  BY <1>1, <2>1, <2>2, RestingStats
  <1>4. CASE Drain /\ writes # <<>>
    <2>1. InHandEmpty
      BY <1>1, <1>4 DEF Drain, StatsTypes, InHandEmpty
    <2>2. PICK pc \in {"drain", "write last"} :
            /\ writer' = [pc |-> pc, item |-> Head(writes)]
            /\ Head(writes) = NoItem <=> pc # "write last"
      BY <1>4 DEF Drain, GoWriter
    <2>3. pc \in WriterPCs /\ (Head(writes) = NoItem <=> pc \notin {"write", "write last"})
      BY <2>2 DEF WriterPCs
    <2> QED  BY <1>1, <1>4, <2>1, <2>2, <2>3, TakenStats DEF Drain, Takes
  <1>5. CASE Drain /\ writes = <<>>
    <2>1. writer.pc = "drain" /\ writer' = [pc |-> "done", item |-> NoItem]
      BY <1>5 DEF Drain, GoWriter
    <2>2. UNCHANGED <<cacheVars, writes, table, lost>>
      BY <1>5 DEF Drain
    <2>3. InHandEmpty
      BY <1>1, <2>1 DEF StatsTypes, InHandEmpty
    <2>4. InHandEmpty'
      BY <2>1 DEF InHandEmpty
    <2>5. StatsTypes'
      <3>1. writer' \in [pc : WriterPCs, item : Queued] /\ writer'.pc \notin {"write", "write last"}
        BY <2>1 DEF WriterPCs, Queued
      <3>2. UNCHANGED <<counted, table, lost, unseen>>
        BY <2>2 DEF cacheVars
      <3> QED  BY <1>1, <2>4, <3>1, <3>2 DEF StatsTypes, InHandEmpty
    <2> QED  BY <1>1, <2>2, <2>3, <2>4, <2>5, RestingStats
  <1>6. CASE Write
    BY <1>6, WriteStats
  <1> QED  BY <1>2, <1>3, <1>4, <1>5, <1>6 DEF WriterStep

LEMMA CloseStats == ASSUME StatsInv, Close \/ PutSentinel PROVE StatsInv'
  <1>1. MetricsInv /\ MetricsInv' /\ StatsTypes
    BY CloseKeeps DEF StatsInv
  <1>2. UNCHANGED <<recorder, counted, unseen, writer, table, lost>>
    BY DEF Close, PutSentinel, cacheVars, writerVars
  <1>3. ASSUME NEW h \in MetricHosts PROVE Underway(h)' = Underway(h)
    <2>1. Cardinality(SpotsOf(writes', h)) = Cardinality(SpotsOf(writes, h))
      <3>1. CASE Close
        BY <3>1 DEF Close
      <3>2. CASE PutSentinel
        <4>1. writes \in Seq(Queued) /\ NoItem \in Queued /\ NoItem.host # h
          BY <1>1, MetricsAssumption DEF MetricsInv, QueueTypes, Queued, NoItem
        <4>2. Cardinality(SpotsOf(writes, h)) \in Nat
          BY <4>1, PlacesFinite
        <4> QED  BY <3>2, <4>1, <4>2, PlacesGrow DEF PutSentinel
      <3> QED  BY <3>1, <3>2
    <2>2. Underway(h)' = Cardinality(Counting(h)) + Cardinality(SpotsOf(writes', h)) + InHand(h)
      BY <1>2 DEF Underway, Counting, SpotsOf, InHand
    <2> QED  BY <1>1, <2>1, <2>2, UnderwayIs
  <1>4. StatsTypes'
    BY <1>1, <1>2 DEF StatsTypes
  <1>5. \A h \in MetricHosts : Balanced(h)
    BY <1>1, <1>2, <1>3 DEF Balanced, StatsTypes
  <1> QED  BY <1>1, <1>4, <1>5, BalanceKept

LEMMA StatsNextInv == StatsInv /\ [MetricsNext]_metricsVars => StatsInv'
  <1> SUFFICES ASSUME StatsInv, [MetricsNext]_metricsVars PROVE StatsInv'
    OBVIOUS
  <1>1. CASE UNCHANGED metricsVars
    <2>1. UNCHANGED <<recorder, counted, writes, writer, table, lost, unseen>>
      BY <1>1 DEF metricsVars, cacheVars, writerVars
    <2>2. MetricsInv'
      BY <1>1, MetricsRest DEF StatsInv
    <2>3. \A h \in MetricHosts : Underway(h)' = Underway(h)
      BY <2>1 DEF Underway
    <2>4. StatsTypes'
      BY <2>1 DEF StatsInv, StatsTypes
    <2>5. \A h \in MetricHosts : Balanced(h)
      BY <2>1, <2>3 DEF Balanced, StatsInv, StatsTypes
    <2> QED  BY <2>2, <2>4, <2>5, BalanceKept
  <1> QED  BY <1>1, CountTransferStats, RecordRaisesStats, QueueWriteStats, WriterStats, CloseStats DEF MetricsNext

\* However many threads record for however many hosts, whatever reads and writes
\* fail or raise and whenever the cache of a host was filled: the totals shown and
\* those on the disk differ by the transfers under way and the recorded errors, no
\* more and no less, and so do the files while every transfer is of one file
\* (record_transfer, _write_worker).
THEOREM NoTransferIsForgotten == MetricsSpec => []StatsAgree
  <1>1. StatsInv => StatsAgree
    BY DEF StatsInv
  <1> QED  BY <1>1, StatsInitInv, StatsNextInv, PTL DEF MetricsSpec

-----------------------------------------------------------------------------
(* THE ACCOUNT                                                             *)

\* A token that a client has just been given is known to nobody else until it
\* is stored.
NewIsOwn ==
    \A c \in Clients : At(c, "store") =>
        /\ client[c].token \notin dropped
        /\ cachedToken # client[c].token /\ manager.token # client[c].token
        /\ \A d \in Clients \ {c} : client[d].token # client[c].token

\* The next token is new to everybody.
AllIssued ==
    /\ \A c \in Clients : client[c].token <= issued
    /\ cachedToken <= issued /\ manager.token <= issued
    /\ \A t \in dropped : t <= issued

\* Only a client that has a token sends it, and drops it.
SendsToken ==
    /\ \A c \in Clients :
         client[c].pc \in {"store", "send", "clear", "send again"} => client[c].token # NoToken
    /\ manager.pc # "idle" => manager.token # NoToken

\* After the second login the token in use is the one it gave.
UsesRenewed ==
    \A c \in Clients :
        \/ client[c].pc \in {"send again", "refused"}
        \/ At(c, "store") /\ client[c].renewed # NoToken
        => client[c].token = client[c].renewed /\ client[c].token # NoToken

\* A client that logs in for the first time has not logged in again.
FirstIsFirst == \A c \in Clients : At(c, "log in") => client[c].renewed = NoToken

AccountInv ==
    /\ AccountTypeOK /\ NewIsOwn /\ AllIssued /\ SendsToken /\ UsesRenewed
    /\ FirstIsFirst /\ DroppedStaysOut

Client == [pc : ClientPCs, token : {NoToken} \cup Tokens, renewed : {NoToken} \cup Tokens]

LEMMA ClientTypes ==
    AccountTypeOK => /\ client \in [Clients -> Client]
                     /\ \A c \in Clients : /\ client[c].pc \in ClientPCs
                                           /\ client[c].token \in {NoToken} \cup Tokens
                                           /\ client[c].renewed \in {NoToken} \cup Tokens
  BY DEF AccountTypeOK, Client

\* What a step leaves of the clients, field by field.
OtherClients(c) == \A d \in Clients \ {c} : client'[d] = client[d]
Becomes(c, p, t, r) ==
    /\ client' \in [Clients -> Client]
    /\ client'[c].pc = p /\ client'[c].token = t /\ client'[c].renewed = r
    /\ OtherClients(c)

LEMMA Becoming ==
    ASSUME client \in [Clients -> Client], NEW c \in Clients, NEW x \in Client,
           client' = [client EXCEPT ![c] = x]
    PROVE  Becomes(c, x.pc, x.token, x.renewed)
  BY DEF Becomes, OtherClients

LEMMA Going ==
    ASSUME AccountTypeOK, NEW c \in Clients, NEW p \in ClientPCs, Go(c, p)
    PROVE  Becomes(c, p, client[c].token, client[c].renewed)
  <1> DEFINE x == [client[c] EXCEPT !.pc = p]
  <1>1. client[c] \in Client
    BY ClientTypes
  <1>2. x \in Client /\ x.pc = p /\ x.token = client[c].token /\ x.renewed = client[c].renewed
    BY <1>1 DEF Client
  <1>3. client' = [client EXCEPT ![c] = x]
    BY DEF Go
  <1> HIDE DEF x
  <1> QED  BY <1>2, <1>3, Becoming, ClientTypes

LEMMA GoingWith ==
    ASSUME AccountTypeOK, NEW c \in Clients, NEW p \in ClientPCs,
           NEW t \in {NoToken} \cup Tokens, GoWith(c, p, t)
    PROVE  Becomes(c, p, t, client[c].renewed)
  <1> DEFINE x == [client[c] EXCEPT !.pc = p, !.token = t]
  <1>1. client[c] \in Client
    BY ClientTypes
  <1>2. x \in Client /\ x.pc = p /\ x.token = t /\ x.renewed = client[c].renewed
    BY <1>1 DEF Client
  <1>3. client' = [client EXCEPT ![c] = x]
    BY DEF GoWith
  <1> HIDE DEF x
  <1> QED  BY <1>2, <1>3, Becoming, ClientTypes

LEMMA Making ==
    ASSUME AccountTypeOK, NEW c \in Clients, NEW p \in ClientPCs,
           NEW t \in {NoToken} \cup Tokens,
           client' = [client EXCEPT ![c] = [pc |-> p, token |-> t, renewed |-> NoToken]]
    PROVE  Becomes(c, p, t, NoToken)
  <1> DEFINE x == [pc |-> p, token |-> t, renewed |-> NoToken]
  <1>1. x \in Client /\ x.pc = p /\ x.token = t /\ x.renewed = NoToken
    BY DEF Client
  <1>2. client' = [client EXCEPT ![c] = x]
    OBVIOUS
  <1> HIDE DEF x
  <1>3. Becomes(c, x.pc, x.token, x.renewed)
    BY <1>1, <1>2, Becoming, ClientTypes
  <1> QED  BY <1>1, <1>3

LEMMA SendingNext ==
    ASSUME AccountTypeOK, NEW c \in Clients,
           client' = [client EXCEPT ![c].pc = "send", ![c].renewed = NoToken]
    PROVE  Becomes(c, "send", client[c].token, NoToken)
  <1> DEFINE x == [client[c] EXCEPT !.pc = "send", !.renewed = NoToken]
  <1>1. client[c] \in Client
    BY ClientTypes
  <1>2. x \in Client /\ x.pc = "send" /\ x.token = client[c].token /\ x.renewed = NoToken
    BY <1>1 DEF Client, ClientPCs
  <1>3. client' = [client EXCEPT ![c] = x]
    OBVIOUS
  <1> HIDE DEF x
  <1>4. Becomes(c, x.pc, x.token, x.renewed)
    BY <1>2, <1>3, Becoming, ClientTypes
  <1> QED  BY <1>2, <1>4

LEMMA Renewing ==
    ASSUME AccountTypeOK, NEW c \in Clients, NEW t \in Tokens,
           client' = [client EXCEPT ![c].pc = "store", ![c].token = t, ![c].renewed = t]
    PROVE  Becomes(c, "store", t, t)
  <1> DEFINE x == [client[c] EXCEPT !.pc = "store", !.token = t, !.renewed = t]
  <1>1. client[c] \in Client
    BY ClientTypes
  <1>2. x \in Client /\ x.pc = "store" /\ x.token = t /\ x.renewed = t
    BY <1>1 DEF Client, ClientPCs
  <1>3. client' = [client EXCEPT ![c] = x]
    OBVIOUS
  <1> HIDE DEF x
  <1>4. Becomes(c, x.pc, x.token, x.renewed)
    BY <1>2, <1>3, Becoming, ClientTypes
  <1> QED  BY <1>2, <1>4

-----------------------------------------------------------------------------

LEMMA TokenNumbers ==
    /\ NoToken \in Nat /\ NoToken \notin Tokens
    /\ \A t \in Tokens : t \in Nat
    /\ \A n \in 0..MaxTokens :
         n \in Nat /\ NoToken <= n /\ (n < MaxTokens => n + 1 \in Tokens /\ n + 1 \in 0..MaxTokens)
  BY TokensAssumption DEF Tokens, NoToken

LEMMA OtherTypes ==
    AccountTypeOK =>
        /\ issued \in 0..MaxTokens /\ cachedToken \in {NoToken} \cup Tokens
        /\ manager.token \in {NoToken} \cup Tokens
        /\ live \subseteq Tokens /\ dropped \subseteq Tokens
  BY DEF AccountTypeOK

\* Whatever is known is at most the number of logins.
LEMMA KnownNumbers ==
    ASSUME AccountInv
    PROVE  /\ issued \in Nat /\ cachedToken \in Nat /\ manager.token \in Nat
           /\ \A t \in dropped : t \in Nat
           /\ \A d \in Clients : client[d].token \in Nat
  BY ClientTypes, OtherTypes, TokenNumbers DEF AccountInv

LEMMA AccountInitInv == AccountInit => AccountInv
  <1> SUFFICES ASSUME AccountInit PROVE AccountInv
    OBVIOUS
  <1> USE TokensAssumption DEF Tokens, NoToken, ClientPCs
  <1>1. \A c \in Clients :
            client[c].pc = "idle" /\ client[c].token = NoToken /\ client[c].renewed = NoToken
    BY DEF AccountInit
  <1>2. AccountTypeOK
    BY DEF AccountTypeOK, AccountInit
  <1>3. manager.pc = "idle" /\ manager.token = NoToken
    BY DEF AccountInit
  <1>4. NewIsOwn /\ SendsToken /\ UsesRenewed /\ FirstIsFirst
    BY <1>1, <1>3 DEF NewIsOwn, SendsToken, UsesRenewed, FirstIsFirst, At
  <1>5. AllIssued /\ DroppedStaysOut
    BY <1>1, <1>3 DEF AccountInit, AllIssued, DroppedStaysOut
  <1> QED  BY <1>2, <1>4, <1>5 DEF AccountInv

-----------------------------------------------------------------------------
(* What the steps of a client come to.                                     *)

\* It takes up a token that is known, or goes on with its own.
LEMMA MovesOn ==
    ASSUME AccountInv, NEW c \in Clients, NEW p \in ClientPCs \ {"store"},
           NEW t \in {client[c].token, cachedToken}, NEW r, Becomes(c, p, t, r),
           p \in {"send", "clear", "send again"} => t # NoToken,
           p \in {"send again", "refused"} => t = r /\ t # NoToken,
           p = "log in" => r = NoToken,
           UNCHANGED <<live, issued, cachedToken, manager, dropped>>
    PROVE  AccountInv'
  <1>1. AccountTypeOK'
    BY DEF AccountInv, AccountTypeOK, Client, Becomes
  <1>2. NewIsOwn'
    BY DEF AccountInv, NewIsOwn, Becomes, OtherClients, At
  <1>3. AllIssued'
    BY DEF AccountInv, AllIssued, Becomes, OtherClients
  <1>4. SendsToken'
    BY DEF AccountInv, SendsToken, Becomes, OtherClients
  <1>5. UsesRenewed'
    BY DEF AccountInv, UsesRenewed, Becomes, OtherClients, At
  <1>6. FirstIsFirst'
    BY DEF AccountInv, FirstIsFirst, Becomes, OtherClients, At
  <1>7. DroppedStaysOut'
    BY DEF AccountInv, DroppedStaysOut
  <1> QED  BY <1>1, <1>2, <1>3, <1>4, <1>5, <1>6, <1>7 DEF AccountInv

\* It is given the next token, which nobody knows.
LEMMA IsGiven ==
    ASSUME AccountInv, NEW c \in Clients, NEW r, Becomes(c, "store", issued + 1, r),
           r \in {NoToken, issued + 1}, Login, UNCHANGED <<cachedToken, manager, dropped>>
    PROVE  AccountInv'
  <1>1. issued' = issued + 1 /\ issued' \in Tokens /\ issued' \in 0..MaxTokens
        /\ live' \subseteq Tokens /\ issued' # NoToken
    BY OtherTypes, TokenNumbers, TokensAssumption DEF AccountInv, Login
  <1>2. /\ cachedToken < issued' /\ manager.token < issued'
        /\ \A t \in dropped : t < issued'
        /\ \A d \in Clients : client[d].token < issued'
    BY <1>1, KnownNumbers DEF AccountInv, AllIssued
  <1>3. /\ cachedToken # issued' /\ manager.token # issued' /\ issued' \notin dropped
        /\ \A d \in Clients : client[d].token # issued'
    BY <1>1, <1>2, KnownNumbers
  <1>4. AccountTypeOK'
    BY <1>1 DEF AccountInv, AccountTypeOK, Client, Becomes
  <1>5. NewIsOwn'
    BY <1>1, <1>3 DEF AccountInv, NewIsOwn, Becomes, OtherClients, At
  <1>6. AllIssued'
    <2>1. \A d \in Clients : client'[d].token <= issued'
      BY <1>1, <1>2, KnownNumbers DEF Becomes, OtherClients
    <2> QED  BY <1>1, <1>2, <2>1, KnownNumbers DEF AllIssued
  <1>7. SendsToken'
    BY <1>1 DEF AccountInv, SendsToken, Becomes, OtherClients
  <1>8. UsesRenewed'
    BY <1>1 DEF AccountInv, UsesRenewed, Becomes, OtherClients, At
  <1>9. FirstIsFirst'
    BY DEF AccountInv, FirstIsFirst, Becomes, OtherClients, At
  <1>10. DroppedStaysOut'
    BY DEF AccountInv, DroppedStaysOut
  <1> QED  BY <1>4, <1>5, <1>6, <1>7, <1>8, <1>9, <1>10 DEF AccountInv

LEMMA StoreTokenKeeps ==
    ASSUME AccountInv, NEW c \in Clients, StoreToken(c) PROVE AccountInv'
  <1> DEFINE p == IF client[c].renewed = NoToken THEN "send" ELSE "send again"
             t == client[c].token
             r == client[c].renewed
  <1>1. Becomes(c, p, t, r)
    BY Going DEF AccountInv, ClientPCs, StoreToken
  <1>2. /\ t # NoToken /\ t \notin dropped /\ manager.token # t /\ p # "store"
        /\ t \in {NoToken} \cup Tokens /\ \A d \in Clients \ {c} : client[d].token # t
    BY ClientTypes DEF AccountInv, SendsToken, NewIsOwn, At, StoreToken
  <1>3. p = "send again" => t = r
    BY DEF AccountInv, UsesRenewed, At, StoreToken
  <1>4. p # "refused" /\ p # "log in"
    OBVIOUS
  <1>5. cachedToken' = t /\ UNCHANGED <<live, issued, manager, dropped>>
    BY DEF StoreToken
  <1> HIDE DEF p, r
  <1>6. AccountTypeOK'
    BY <1>1, <1>2, <1>5 DEF AccountInv, AccountTypeOK, Client, Becomes
  <1>7. NewIsOwn'
    BY <1>1, <1>2, <1>5 DEF AccountInv, NewIsOwn, Becomes, OtherClients, At
  <1>8. AllIssued'
    BY <1>1, <1>5 DEF AccountInv, AllIssued, Becomes, OtherClients
  <1>9. SendsToken'
    BY <1>1, <1>2, <1>5 DEF AccountInv, SendsToken, Becomes, OtherClients
  <1>10. UsesRenewed'
    BY <1>1, <1>2, <1>3, <1>4 DEF AccountInv, UsesRenewed, Becomes, OtherClients, At
  <1>11. FirstIsFirst'
    BY <1>1, <1>4 DEF AccountInv, FirstIsFirst, Becomes, OtherClients, At
  <1>12. DroppedStaysOut'
    BY <1>2, <1>5 DEF DroppedStaysOut
  <1> QED  BY <1>6, <1>7, <1>8, <1>9, <1>10, <1>11, <1>12 DEF AccountInv

LEMMA ClearTokenKeeps ==
    ASSUME AccountInv, NEW c \in Clients, ClearToken(c) PROVE AccountInv'
  <1> DEFINE t == client[c].token
             r == client[c].renewed
  <1>1. Becomes(c, "log in again", t, r)
    BY Going DEF AccountInv, ClientPCs, ClearToken
  <1>2. /\ t # NoToken /\ t \in Tokens /\ t <= issued /\ ~At(c, "store")
    BY ClientTypes DEF AccountInv, SendsToken, AllIssued, At, ClearToken
  <1>3. cachedToken' = NoToken /\ dropped' = dropped \cup {t} /\ UNCHANGED <<live, issued, manager>>
    BY DEF ClearToken
  <1> HIDE DEF r
  <1>4. AccountTypeOK'
    BY <1>1, <1>2, <1>3 DEF AccountInv, AccountTypeOK, Client, Becomes
  <1>5. NewIsOwn'
    <2>1. \A d \in Clients : At(d, "store") => d # c /\ client[d].token # NoToken
                                              /\ client[d].token # t
      BY <1>2 DEF AccountInv, SendsToken, NewIsOwn, At
    <2> QED  BY <1>1, <1>3, <2>1 DEF AccountInv, NewIsOwn, Becomes, OtherClients, At
  <1>6. AllIssued'
    <2>1. NoToken <= issued
      BY OtherTypes, TokenNumbers DEF AccountInv
    <2> QED  BY <1>1, <1>2, <1>3, <2>1 DEF AccountInv, AllIssued, Becomes, OtherClients
  <1>7. SendsToken'
    BY <1>1, <1>2, <1>3 DEF AccountInv, SendsToken, Becomes, OtherClients
  <1>8. UsesRenewed'
    BY <1>1 DEF AccountInv, UsesRenewed, Becomes, OtherClients, At
  <1>9. FirstIsFirst'
    BY <1>1 DEF AccountInv, FirstIsFirst, Becomes, OtherClients, At
  <1>10. DroppedStaysOut'
    BY <1>2, <1>3, OtherTypes, TokenNumbers DEF AccountInv, DroppedStaysOut
  <1> QED  BY <1>4, <1>5, <1>6, <1>7, <1>8, <1>9, <1>10 DEF AccountInv

LEMMA ClientKeeps ==
    ASSUME AccountInv, NEW c \in Clients, ClientStep(c) PROVE AccountInv'
  <1> USE DEF ClientPCs
  <1>1. AccountTypeOK /\ client[c].token \in {NoToken} \cup Tokens
        /\ cachedToken \in {NoToken} \cup Tokens
    BY ClientTypes, OtherTypes DEF AccountInv
  <1>2. CASE MakeClient(c)
    <2> DEFINE p == IF cachedToken = NoToken THEN "log in" ELSE "send"
    <2>1. Becomes(c, p, cachedToken, NoToken)
      BY <1>1, <1>2, Making DEF MakeClient
    <2>2. UNCHANGED <<live, issued, cachedToken, manager, dropped>>
      BY <1>2 DEF MakeClient
    <2>3. p \in ClientPCs \ {"store"} /\ p \notin {"send again", "refused"}
          /\ (p \in {"send", "clear"} => cachedToken # NoToken)
      OBVIOUS
    <2> HIDE DEF p
    <2> QED  BY <2>1, <2>2, <2>3, MovesOn
  <1>3. CASE SendNext(c)
    <2>1. Becomes(c, "send", client[c].token, NoToken)
      BY <1>1, <1>3, SendingNext DEF SendNext
    <2> QED  BY <1>3, <2>1, MovesOn DEF SendNext
  <1>4. CASE FirstLogin(c)
    <2>1. CASE Login /\ GoWith(c, "store", issued + 1)
      <3>1. issued + 1 \in {NoToken} \cup Tokens
        BY <2>1, OtherTypes, TokenNumbers, TokensAssumption DEF AccountInv, Login
      <3>2. Becomes(c, "store", issued + 1, client[c].renewed)
        BY <1>1, <2>1, <3>1, GoingWith
      <3>3. client[c].renewed = NoToken
        BY <1>4 DEF FirstLogin, AccountInv, FirstIsFirst
      <3> QED  BY <1>4, <2>1, <3>2, <3>3, IsGiven DEF FirstLogin
    <2>2. CASE Go(c, "idle") /\ UNCHANGED <<live, issued>>
      <3>1. Becomes(c, "idle", client[c].token, client[c].renewed)
        BY <1>1, <2>2, Going
      <3>2. UNCHANGED <<live, issued, cachedToken, manager, dropped>>
        BY <1>4, <2>2 DEF FirstLogin
      <3>3. "idle" \in ClientPCs \ {"store"}
            /\ "idle" \notin {"send", "clear", "send again", "refused", "log in"}
        OBVIOUS
      <3> QED  BY <3>1, <3>2, <3>3, MovesOn
    <2> QED  BY <1>4, <2>1, <2>2 DEF FirstLogin
  <1>5. CASE StoreToken(c)
    BY <1>5, StoreTokenKeeps
  <1>6. CASE SendCall(c)
    <2> DEFINE p == IF client[c].token \in live THEN "idle" ELSE "clear"
    <2>1. Becomes(c, p, client[c].token, client[c].renewed)
      BY <1>1, <1>6, Going DEF SendCall
    <2>2. UNCHANGED <<live, issued, cachedToken, manager, dropped>>
      BY <1>6 DEF SendCall
    <2>3. client[c].token # NoToken
      BY <1>6 DEF SendCall, AccountInv, SendsToken, At
    <2>4. p \in ClientPCs \ {"store"} /\ p \notin {"send again", "refused", "log in"}
      OBVIOUS
    <2> HIDE DEF p
    <2> QED  BY <2>1, <2>2, <2>3, <2>4, MovesOn
  <1>7. CASE ClearToken(c)
    BY <1>7, ClearTokenKeeps
  <1>8. CASE LoginAgain(c)
    <2>1. CASE Login /\ client' = [client EXCEPT ![c].pc = "store", ![c].token = issued + 1,
                                                ![c].renewed = issued + 1]
      <3>1. issued + 1 \in Tokens
        BY <2>1, OtherTypes, TokenNumbers, TokensAssumption DEF AccountInv, Login
      <3>2. Becomes(c, "store", issued + 1, issued + 1)
        BY <1>1, <2>1, <3>1, Renewing
      <3> QED  BY <1>8, <2>1, <3>2, IsGiven DEF LoginAgain
    <2>2. CASE Go(c, "idle") /\ UNCHANGED <<live, issued>>
      <3>1. Becomes(c, "idle", client[c].token, client[c].renewed)
        BY <1>1, <2>2, Going
      <3>2. UNCHANGED <<live, issued, cachedToken, manager, dropped>>
        BY <1>8, <2>2 DEF LoginAgain
      <3>3. "idle" \in ClientPCs \ {"store"}
            /\ "idle" \notin {"send", "clear", "send again", "refused", "log in"}
        OBVIOUS
      <3> QED  BY <3>1, <3>2, <3>3, MovesOn
    <2> QED  BY <1>8, <2>1, <2>2 DEF LoginAgain
  <1>9. CASE SendAgain(c)
    <2> DEFINE p == IF client[c].token \in live THEN "idle" ELSE "refused"
    <2>1. Becomes(c, p, client[c].token, client[c].renewed)
      BY <1>1, <1>9, Going DEF SendAgain
    <2>2. UNCHANGED <<live, issued, cachedToken, manager, dropped>>
      BY <1>9 DEF SendAgain
    <2>3. client[c].token = client[c].renewed /\ client[c].token # NoToken
      BY <1>9 DEF SendAgain, AccountInv, UsesRenewed, At
    <2>4. p \in ClientPCs \ {"store"} /\ p # "log in"
      OBVIOUS
    <2> HIDE DEF p
    <2> QED  BY <2>1, <2>2, <2>3, <2>4, MovesOn
  <1> QED  BY <1>2, <1>3, <1>4, <1>5, <1>6, <1>7, <1>8, <1>9 DEF ClientStep

-----------------------------------------------------------------------------
(* The file manager, and what happens to tokens by itself.                 *)

ManagerRecord == [pc : {"idle", "send", "clear", "read", "send again"},
            token : {NoToken} \cup Tokens]

LEMMA ManagerKeeps ==
    ASSUME AccountInv, ManagerStep PROVE AccountInv'
  <1>1. manager \in ManagerRecord /\ manager.token \in {NoToken} \cup Tokens
        /\ cachedToken \in {NoToken} \cup Tokens
    BY OtherTypes DEF AccountInv, AccountTypeOK, ManagerRecord
  <1>2. /\ manager' \in ManagerRecord /\ manager'.token \in {manager.token, cachedToken}
        /\ manager'.pc # "idle" => manager'.token # NoToken
        /\ UNCHANGED <<live, issued, client>>
    <2>1. CASE ManagerCall
      BY <1>1, <2>1 DEF ManagerCall, ManagerRecord
    <2>2. CASE ManagerSends
      BY <1>1, <2>2 DEF ManagerSends, ManagerRecord, AccountInv, SendsToken
    <2>3. CASE ManagerClears
      BY <1>1, <2>3 DEF ManagerClears, ManagerRecord, AccountInv, SendsToken
    <2>4. CASE ManagerReads
      BY <1>1, <2>4 DEF ManagerReads, ManagerRecord, AccountInv, SendsToken
    <2> QED  BY <2>1, <2>2, <2>3, <2>4 DEF ManagerStep
  <1>3. \/ UNCHANGED <<cachedToken, dropped>>
        \/ /\ cachedToken' = NoToken /\ dropped' = dropped \cup {manager.token}
           /\ manager.token \in Tokens
    BY <1>1 DEF ManagerStep, ManagerCall, ManagerSends, ManagerClears, ManagerReads, AccountInv, SendsToken
  <1>4. NoToken <= issued
    BY OtherTypes, TokenNumbers DEF AccountInv
  <1>5. AccountTypeOK'
    BY <1>2, <1>3 DEF AccountInv, AccountTypeOK, ManagerRecord
  <1>6. NewIsOwn'
    <2>1. \A d \in Clients : At(d, "store") => client[d].token # NoToken
      BY DEF AccountInv, SendsToken, At
    <2> QED  BY <1>2, <1>3, <2>1 DEF AccountInv, NewIsOwn, At
  <1>7. AllIssued'
    BY <1>2, <1>3, <1>4 DEF AccountInv, AllIssued
  <1>8. SendsToken' /\ UsesRenewed' /\ FirstIsFirst'
    BY <1>2 DEF AccountInv, SendsToken, UsesRenewed, FirstIsFirst, At
  <1>9. DroppedStaysOut'
    BY <1>3, OtherTypes, TokenNumbers DEF AccountInv, DroppedStaysOut
  <1> QED  BY <1>5, <1>6, <1>7, <1>8, <1>9 DEF AccountInv

LEMMA TokensGoKeep ==
    ASSUME AccountInv, CacheExpires \/ (\E t \in Tokens : TokenDies(t)) PROVE AccountInv'
  <1>1. /\ live' \subseteq live /\ cachedToken' \in {cachedToken, NoToken}
        /\ UNCHANGED <<issued, client, manager, dropped>>
    BY DEF CacheExpires, TokenDies
  <1>2. NoToken <= issued /\ NoToken \notin dropped
    BY OtherTypes, TokenNumbers DEF AccountInv
  <1>3. AccountTypeOK'
    BY <1>1 DEF AccountInv, AccountTypeOK
  <1>4. NewIsOwn'
    <2>1. \A d \in Clients : At(d, "store") => client[d].token # NoToken
      BY DEF AccountInv, SendsToken, At
    <2> QED  BY <1>1, <2>1 DEF AccountInv, NewIsOwn, At
  <1>5. AllIssued' /\ DroppedStaysOut'
    BY <1>1, <1>2 DEF AccountInv, AllIssued, DroppedStaysOut
  <1>6. SendsToken' /\ UsesRenewed' /\ FirstIsFirst'
    BY <1>1 DEF AccountInv, SendsToken, UsesRenewed, FirstIsFirst, At
  <1> QED  BY <1>3, <1>4, <1>5, <1>6 DEF AccountInv

LEMMA AccountRest == AccountInv /\ UNCHANGED accountVars => AccountInv'
  BY DEF AccountInv, accountVars, AccountTypeOK, NewIsOwn, AllIssued, SendsToken, UsesRenewed,
         FirstIsFirst, DroppedStaysOut, At

LEMMA AccountNextInv == AccountInv /\ [AccountNext]_accountVars => AccountInv'
  BY ClientKeeps, ManagerKeeps, TokensGoKeep, AccountRest DEF AccountNext

\* However many threads share the account and however often they log in, a call
\* is only given up when the host has refused the token of its own new login,
\* and no token that somebody has found dead comes back into the cache
\* (_with_token_retry, _refresh_auth_token and TokenCache).
THEOREM TokensStayFresh == AccountSpec => []FreshTokens
  <1>1. AccountInv => FreshTokens
    BY DEF AccountInv, UsesRenewed, FreshTokens, RefusedOnlyAfterLogin, At
  <1> QED  BY <1>1, AccountInitInv, AccountNextInv, PTL DEF AccountSpec

=============================================================================
