-------------------------- MODULE HostFamilyProofs --------------------------
(***************************************************************************)
(* Type correctness of HostFamily, the shape of the waits-for relation,    *)
(* the threads of the workers, the retries of failed members and how many  *)
(* members upload at a time, for every number of hosts and faults; and, in *)
(* an orderly family, the rows in flight, chains of waiting members, rows  *)
(* only there for a duplicate, and the promise of UploadLifecycle.         *)
(***************************************************************************)
EXTENDS HostFamily, FiniteSetTheorems, SequenceTheorems, WellFoundedInduction, TLAPS

\* The part of a table change that other rows' pointers depend on: no id
\* comes back, and no row becomes blocked or changes what it is blocked on.
Harmless(rs, new) ==
    /\ \A k \in Hosts \X Parts : rs[k].gen <= new[k].gen
    /\ \A h \in Hosts : new[<<h, 0>>].status = "blocked" =>
          rs[<<h, 0>>].status = "blocked" /\ new[<<h, 0>>].blockedBy = rs[<<h, 0>>].blockedBy

LEMMA PartZero == 0 \in Parts /\ \A h \in Hosts : <<h, 0>> \in Hosts \X Parts
  BY SizeAssumption DEF Parts

LEMMA PlaceType == \A id \in RowId : Place(id) \in Hosts \X Parts
  BY DEF RowId, Place

LEMMA NoPlace == Place(NoId) \notin Hosts \X Parts /\ NoId \notin RowId
  BY DEF RowId, Place, NoId, Hosts

LEMMA GenType == \A rs \in Table : \A k \in Hosts \X Parts : rs[k].gen \in Nat
  BY DEF Table, Row

LEMMA HarmlessSame == \A rs \in Table : Harmless(rs, rs)
<1>1. SUFFICES ASSUME NEW rs \in Table PROVE Harmless(rs, rs)
  OBVIOUS
<1>2. ASSUME NEW k \in Hosts \X Parts PROVE rs[k].gen <= rs[k].gen
  <2>1. rs[k].gen \in Nat
    BY GenType
  <2>. QED
    BY <2>1
<1>. QED
  BY <1>2 DEF Harmless

LEMMA HarmlessTrans ==
  ASSUME NEW rs \in Table, NEW mid \in Table, NEW new \in Table,
         Harmless(rs, mid), Harmless(mid, new)
  PROVE  Harmless(rs, new)
<1>1. ASSUME NEW k \in Hosts \X Parts PROVE rs[k].gen <= new[k].gen
  <2>1. rs[k].gen \in Nat /\ mid[k].gen \in Nat /\ new[k].gen \in Nat
    BY GenType
  <2>. QED
    BY <2>1 DEF Harmless
<1>. QED
  BY <1>1 DEF Harmless

LEMMA UpdateRowShape ==
  ASSUME NEW rs \in Table, NEW id \in RowId, NEW new \in Row,
         new.gen = rs[Place(id)].gen
  PROVE  /\ UpdateRow(rs, id, new) \in Table
         /\ \A k \in Hosts \X Parts :
              /\ rs[k].gen <= UpdateRow(rs, id, new)[k].gen
              /\ \/ UpdateRow(rs, id, new)[k] = rs[k]
                 \/ k = Place(id) /\ UpdateRow(rs, id, new)[k] = new
<1>1. Place(id) \in Hosts \X Parts
  BY PlaceType
<1>2. UpdateRow(rs, id, new) \in Table
  BY <1>1 DEF UpdateRow, Table
<1>3. ASSUME NEW k \in Hosts \X Parts
      PROVE  \/ UpdateRow(rs, id, new)[k] = rs[k]
             \/ k = Place(id) /\ UpdateRow(rs, id, new)[k] = new
  BY <1>1 DEF UpdateRow, Table
<1>4. ASSUME NEW k \in Hosts \X Parts
      PROVE  rs[k].gen <= UpdateRow(rs, id, new)[k].gen
  BY <1>3, GenType
<1>. QED
  BY <1>2, <1>3, <1>4

LEMMA UpdateRowLemma ==
  ASSUME NEW rs \in Table, NEW id \in RowId \union {NoId}, NEW new,
         id \in RowId =>
            /\ new \in Row
            /\ new.gen = rs[Place(id)].gen
            /\ new.status = "blocked" =>
                  /\ rs[Place(id)].status = "blocked"
                  /\ new.blockedBy = rs[Place(id)].blockedBy
  PROVE  UpdateRow(rs, id, new) \in Table /\ Harmless(rs, UpdateRow(rs, id, new))
<1>1. CASE id = NoId
  <2>1. UpdateRow(rs, id, new) = rs
    BY <1>1, NoPlace DEF UpdateRow, Table
  <2>. QED
    BY <2>1, HarmlessSame
<1>2. CASE id \in RowId
  <2>1. /\ UpdateRow(rs, id, new) \in Table
        /\ \A k \in Hosts \X Parts :
             /\ rs[k].gen <= UpdateRow(rs, id, new)[k].gen
             /\ \/ UpdateRow(rs, id, new)[k] = rs[k]
                \/ k = Place(id) /\ UpdateRow(rs, id, new)[k] = new
    BY <1>2, UpdateRowShape
  <2>. QED
    BY <1>2, <2>1, PartZero DEF Harmless
<1>. QED
  BY <1>1, <1>2

LEMMA AddRowShape ==
  ASSUME NEW rs \in Table, NEW h \in Hosts, NEW p \in Parts,
         NEW status \in Status, NEW by \in RowId \union {NoId},
         NEW only \in BOOLEAN
  PROVE  /\ AddRow(rs, h, p, status, by, only) \in Table
         /\ \A k \in Hosts \X Parts :
              k # <<h, p>> => AddRow(rs, h, p, status, by, only)[k] = rs[k]
         /\ AddRow(rs, h, p, status, by, only)[<<h, p>>].gen = rs[<<h, p>>].gen + 1
         /\ AddRow(rs, h, p, status, by, only)[<<h, p>>].status = status
         /\ AddRow(rs, h, p, status, by, only)[<<h, p>>].blockedBy = by
<1>. DEFINE new == AddRow(rs, h, p, status, by, only)
            row == NewRow(rs[<<h, p>>].gen + 1, status, by, only)
<1>1. <<h, p>> \in Hosts \X Parts /\ rs[<<h, p>>].gen \in Nat
  BY GenType
<1>2. /\ row \in Row /\ row.gen = rs[<<h, p>>].gen + 1
      /\ row.status = status /\ row.blockedBy = by
  <2>1. rs[<<h, p>>].gen + 1 \in Nat
    BY <1>1
  <2>. QED
    BY <2>1 DEF NewRow, Row
<1>. HIDE DEF row
<1>3. new = [rs EXCEPT ![<<h, p>>] = row]
  BY DEF AddRow, row
<1>4. new \in Table
  BY <1>1, <1>2, <1>3 DEF Table
<1>5. ASSUME NEW k \in Hosts \X Parts
      PROVE  new[k] = IF k = <<h, p>> THEN row ELSE rs[k]
  BY <1>1, <1>3 DEF Table
<1>. HIDE DEF new
<1>6. /\ new \in Table
      /\ \A k \in Hosts \X Parts : k # <<h, p>> => new[k] = rs[k]
      /\ new[<<h, p>>].gen = rs[<<h, p>>].gen + 1
      /\ new[<<h, p>>].status = status
      /\ new[<<h, p>>].blockedBy = by
  BY <1>1, <1>2, <1>4, <1>5
<1>. QED
  BY <1>6 DEF new

LEMMA AddRowGrows ==
  ASSUME NEW rs \in Table, NEW h \in Hosts, NEW p \in Parts,
         NEW status \in Status, NEW by \in RowId \union {NoId},
         NEW only \in BOOLEAN
  PROVE  \A k \in Hosts \X Parts :
            rs[k].gen <= AddRow(rs, h, p, status, by, only)[k].gen
<1>. DEFINE new == AddRow(rs, h, p, status, by, only)
<1>1. /\ \A k \in Hosts \X Parts : k # <<h, p>> => new[k] = rs[k]
      /\ new[<<h, p>>].gen = rs[<<h, p>>].gen + 1
  BY AddRowShape
<1>. HIDE DEF new
<1>2. ASSUME NEW k \in Hosts \X Parts PROVE rs[k].gen <= new[k].gen
  <2>1. rs[k].gen \in Nat
    BY GenType
  <2>. QED
    BY <1>1, <2>1
<1>. QED
  BY <1>2 DEF new

LEMMA AddRowLemma ==
  ASSUME NEW rs \in Table, NEW h \in Hosts, NEW p \in Parts,
         NEW status \in Status \ {"blocked"},
         NEW by \in RowId \union {NoId}, NEW only \in BOOLEAN
  PROVE  AddRow(rs, h, p, status, by, only) \in Table
         /\ Harmless(rs, AddRow(rs, h, p, status, by, only))
<1>. DEFINE new == AddRow(rs, h, p, status, by, only)
<1>1. /\ new \in Table
      /\ \A k \in Hosts \X Parts : k # <<h, p>> => new[k] = rs[k]
      /\ new[<<h, p>>].status = status
  BY AddRowShape
<1>2. \A k \in Hosts \X Parts : rs[k].gen <= new[k].gen
  BY AddRowGrows
<1>. HIDE DEF new
<1>3. new \in Table /\ Harmless(rs, new)
  BY <1>1, <1>2, PartZero DEF Harmless
<1>. QED
  BY <1>3 DEF new

LEMMA SetStatusLemma ==
  ASSUME NEW rs \in Table, NEW id \in RowId \union {NoId},
         NEW status \in Status \ {"blocked"}
  PROVE  SetStatus(rs, id, status) \in Table
         /\ Harmless(rs, SetStatus(rs, id, status))
<1>. DEFINE new == [rs[Place(id)] EXCEPT !.status = status]
<1>1. ASSUME id \in RowId
      PROVE  new \in Row /\ new.gen = rs[Place(id)].gen /\ new.status = status
  <2>1. rs[Place(id)] \in Row
    BY <1>1, PlaceType DEF Table
  <2>. QED
    BY <2>1 DEF Row
<1>. HIDE DEF new
<1>2. UpdateRow(rs, id, new) \in Table /\ Harmless(rs, UpdateRow(rs, id, new))
  BY <1>1, UpdateRowLemma
<1>. QED
  BY <1>2 DEF SetStatus, new

LEMMA IdAtType ==
  \A rs \in Table : \A h \in Hosts : \A p \in Parts :
    IdAt(rs, h, p) \in RowId /\ NextId(rs, h, p) \in RowId
<1>1. SUFFICES ASSUME NEW rs \in Table, NEW h \in Hosts, NEW p \in Parts
               PROVE  IdAt(rs, h, p) \in RowId /\ NextId(rs, h, p) \in RowId
  OBVIOUS
<1>2. rs[<<h, p>>].gen \in Nat /\ rs[<<h, p>>].gen + 1 \in Nat
  BY GenType
<1>. QED
  BY <1>2 DEF IdAt, NextId, RowId

LEMMA CommitsLemma ==
  ASSUME rows \in Table, NEW new \in Table, Harmless(rows, new), Commits(new)
  PROVE  rows' \in Table /\ Harmless(rows, rows')
  BY HarmlessSame DEF Commits

-----------------------------------------------------------------------------
(* The workers. *)

\* A part being sent is a part of the archive.
SendOK == \A h \in Hosts : At(h, "send") => worker[h].part < worker[h].count

\* The types of the workers and of the manager, and what SendOK adds.
ThreadsOK == WorkerTypeOK /\ SendOK /\ ManagerTypeOK

LEMMA WorkerStepLemma ==
  ASSUME TableTypeOK, WorkerTypeOK, SendOK, NEW h \in Hosts,
         WorkerStep(h) \/ WorkerDbFails(h) \/ Unrecorded(h) \/ SpinUp(h)
  PROVE  /\ TableTypeOK' /\ WorkerTypeOK' /\ SendOK'
         /\ Harmless(rows, rows')
<1>. USE DEF SendOK, At
<1>1. rows \in Table /\ worker \in [Hosts -> WorkerState]
  BY DEF TableTypeOK, WorkerTypeOK
<1>2. /\ worker[h] \in WorkerState
      /\ worker[h].row \in RowId \union {NoId}
      /\ worker[h].current \in RowId \union {NoId}
      /\ worker[h].stop \in BOOLEAN /\ worker[h].enabled \in BOOLEAN
  BY <1>1 DEF WorkerState
<1>3. ASSUME NEW w \in WorkerState, worker' = [worker EXCEPT ![h] = w],
             w.pc = "send" => w.part < w.count
      PROVE  WorkerTypeOK' /\ SendOK'
  BY <1>1, <1>3 DEF WorkerTypeOK
<1>4. ASSUME UNCHANGED tableVars
      PROVE  TableTypeOK' /\ Harmless(rows, rows')
  BY <1>1, <1>4, HarmlessSame DEF tableVars, TableTypeOK
<1>5. ASSUME rows' \in Table, UNCHANGED <<events, dedup>>
      PROVE  TableTypeOK'
  BY <1>5 DEF TableTypeOK
<1>6. Fresh \in WorkerState /\ Fresh.pc # "send"
  BY SizeAssumption DEF Fresh, WorkerState, WorkerPc
<1>7. ASSUME NEW pc \in WorkerPc \ {"send"}, Go(h, pc)
      PROVE  WorkerTypeOK' /\ SendOK'
  <2>. DEFINE w == [worker[h] EXCEPT !.pc = pc]
  <2>1. w \in WorkerState /\ w.pc # "send" /\ worker' = [worker EXCEPT ![h] = w]
    BY <1>1, <1>2, <1>7 DEF Go, WorkerState
  <2>. HIDE DEF w
  <2>. QED
    BY <1>3, <2>1
<1>8. Rest(h) => WorkerTypeOK' /\ SendOK'
  <2>. DEFINE w == [Fresh EXCEPT !.stop = worker[h].stop,
                          !.enabled = worker[h].enabled]
  <2>1. w \in WorkerState /\ w.pc # "send"
    BY <1>2, <1>6 DEF WorkerState, WorkerPc
  <2>2. Rest(h) => worker' = [worker EXCEPT ![h] = w]
    BY DEF Rest
  <2>. HIDE DEF w
  <2>. QED
    BY <1>3, <2>1, <2>2
<1>9. ToSettle(h) => WorkerTypeOK' /\ SendOK'
  <2>. DEFINE w == [Fresh EXCEPT !.pc = "settle", !.row = worker[h].row,
                                 !.stop = worker[h].stop,
                                 !.enabled = worker[h].enabled]
  <2>1. w \in WorkerState /\ w.pc # "send"
    BY <1>2, <1>6 DEF WorkerState, WorkerPc
  <2>2. ToSettle(h) => worker' = [worker EXCEPT ![h] = w]
    BY DEF ToSettle
  <2>. HIDE DEF w
  <2>. QED
    BY <1>3, <2>1, <2>2
<1>10. Fail(h) => WorkerTypeOK' /\ SendOK'
  <2>1. SUFFICES ASSUME Fail(h) PROVE WorkerTypeOK' /\ SendOK'
    OBVIOUS
  <2>2. PICK retryable \in BOOLEAN :
          worker' = [worker EXCEPT ![h].pc = "except", ![h].retryable = retryable]
    BY <2>1 DEF Fail
  <2>. DEFINE w == [worker[h] EXCEPT !.pc = "except", !.retryable = retryable]
  <2>3. w \in WorkerState /\ w.pc # "send" /\ worker' = [worker EXCEPT ![h] = w]
    BY <1>1, <1>2, <2>2 DEF WorkerState, WorkerPc
  <2>. HIDE DEF w
  <2>. QED
    BY <1>3, <2>3
<1>11. ASSUME Pick(h) PROVE WorkerTypeOK' /\ SendOK'
  <2>1. PICK p \in Parts :
          worker' = [worker EXCEPT ![h].pc = "picked",
                                   ![h].row = IdAt(rows, h, p),
                                   ![h].dedupOnly = rows[<<h, p>>].dedupOnly]
    BY <1>11 DEF Pick
  <2>. DEFINE w == [worker[h] EXCEPT !.pc = "picked", !.row = IdAt(rows, h, p),
                                     !.dedupOnly = rows[<<h, p>>].dedupOnly]
  <2>2. IdAt(rows, h, p) \in RowId /\ rows[<<h, p>>].dedupOnly \in BOOLEAN
    BY <1>1, IdAtType DEF Table, Row
  <2>3. w \in WorkerState /\ w.pc # "send" /\ worker' = [worker EXCEPT ![h] = w]
    BY <1>1, <1>2, <2>1, <2>2 DEF WorkerState, WorkerPc
  <2>. HIDE DEF w
  <2>. QED
    BY <1>3, <2>3
<1>12. ASSUME ReadSiblings(h) PROVE WorkerTypeOK' /\ SendOK'
  <2>1. CASE Mirrorable(h)
    <3>. DEFINE w == [worker[h] EXCEPT !.pc = "probe", !.plan = SiblingParts(rows, h)]
    <3>1. SiblingParts(rows, h) \subseteq Parts
      BY DEF SiblingParts
    <3>2. w \in WorkerState /\ w.pc # "send" /\ worker' = [worker EXCEPT ![h] = w]
      BY <1>1, <1>2, <1>12, <2>1, <3>1 DEF ReadSiblings, WorkerState, WorkerPc
    <3>. HIDE DEF w
    <3>. QED
      BY <1>3, <3>2
  <2>2. CASE ~Mirrorable(h)
    BY <1>7, <1>12, <2>2 DEF ReadSiblings, WorkerPc
  <2>. QED
    BY <2>1, <2>2
<1>13. ASSUME Probe(h) PROVE WorkerTypeOK' /\ SendOK'
  <2>1. CASE Go(h, "commit")
    BY <1>7, <2>1 DEF WorkerPc
  <2>2. CASE worker' = [worker EXCEPT ![h].pc = "missed", ![h].plan = {}]
    <3>. DEFINE w == [worker[h] EXCEPT !.pc = "missed", !.plan = {}]
    <3>1. w \in WorkerState /\ w.pc # "send" /\ worker' = [worker EXCEPT ![h] = w]
      BY <1>1, <1>2, <2>2 DEF WorkerState, WorkerPc
    <3>. HIDE DEF w
    <3>. QED
      BY <1>3, <3>1
  <2>. QED
    BY <1>13, <2>1, <2>2 DEF Probe
<1>14. ASSUME CommitAdd(h)
       PROVE  WorkerTypeOK' /\ SendOK' /\ TableTypeOK' /\ Harmless(rows, rows')
  <2>1. PICK p \in worker[h].plan \ {0} :
          /\ rows' = AddRow(rows, h, p, "pending", NoId, TRUE)
          /\ worker' = [worker EXCEPT ![h].pc = "commitPart",
                                      ![h].current = NextId(rows, h, p)]
    BY <1>14 DEF CommitAdd
  <2>2. p \in Parts
    BY <1>2, <2>1 DEF WorkerState
  <2>3. rows' \in Table /\ Harmless(rows, rows')
    BY <1>1, <2>1, <2>2, AddRowLemma DEF Status
  <2>. DEFINE w == [worker[h] EXCEPT !.pc = "commitPart",
                                     !.current = NextId(rows, h, p)]
  <2>4. NextId(rows, h, p) \in RowId
    BY <1>1, <2>2, IdAtType
  <2>5. w \in WorkerState /\ w.pc # "send" /\ worker' = [worker EXCEPT ![h] = w]
    BY <1>1, <1>2, <2>1, <2>4 DEF WorkerState, WorkerPc
  <2>. HIDE DEF w
  <2>. QED
    BY <1>3, <1>5, <1>14, <2>3, <2>5 DEF CommitAdd
<1>15. ASSUME NEW id \in RowId \union {NoId}
       PROVE  /\ UpdateRow(rows, id, Mirrored(rows[Place(id)])) \in Table
              /\ Harmless(rows, UpdateRow(rows, id, Mirrored(rows[Place(id)])))
  <2>1. ASSUME id \in RowId
        PROVE  /\ Mirrored(rows[Place(id)]) \in Row
               /\ Mirrored(rows[Place(id)]).gen = rows[Place(id)].gen
               /\ Mirrored(rows[Place(id)]).status = "completed"
    <3>1. rows[Place(id)] \in Row
      BY <1>1, <2>1, PlaceType DEF Table
    <3>. QED
      BY <3>1 DEF Mirrored, Row, Status
  <2>. QED
    BY <1>1, <2>1, UpdateRowLemma
<1>16. ASSUME CommitPart(h)
       PROVE  WorkerTypeOK' /\ SendOK' /\ TableTypeOK' /\ Harmless(rows, rows')
  <2>1. rows' \in Table /\ Harmless(rows, rows')
    BY <1>1, <1>2, <1>15, <1>16, CommitsLemma DEF CommitPart
  <2>. DEFINE w == [worker[h] EXCEPT !.pc = "commit", !.current = NoId,
                                     !.plan = @ \ {worker[h].current.part}]
  <2>2. w \in WorkerState /\ w.pc # "send" /\ worker' = [worker EXCEPT ![h] = w]
    BY <1>1, <1>2, <1>16 DEF CommitPart, WorkerState, WorkerPc
  <2>. HIDE DEF w
  <2>. QED
    BY <1>3, <1>5, <1>16, <2>1, <2>2 DEF CommitPart
<1>43. WithHead(h) \in Table /\ Harmless(rows, WithHead(h))
  BY <1>1, <1>2, <1>15, HarmlessSame DEF WithHead
<1>17. ASSUME CommitHead(h)
       PROVE  WorkerTypeOK' /\ SendOK' /\ TableTypeOK' /\ Harmless(rows, rows')
  <2>1. rows' \in Table /\ Harmless(rows, rows')
    BY <1>1, <1>17, <1>43, CommitsLemma DEF CommitHead
  <2>. DEFINE w == [worker[h] EXCEPT !.pc = "announce", !.ok = TRUE, !.plan = {}]
  <2>2. w \in WorkerState /\ w.pc # "send" /\ worker' = [worker EXCEPT ![h] = w]
    BY <1>1, <1>2, <1>17 DEF CommitHead, WorkerState, WorkerPc
  <2>. HIDE DEF w
  <2>. QED
    BY <1>3, <1>5, <1>17, <2>1, <2>2 DEF CommitHead
<1>18. ASSUME CommitFails(h) PROVE WorkerTypeOK' /\ SendOK'
  <2>. DEFINE w == [worker[h] EXCEPT !.pc = "missed", !.plan = {}, !.current = NoId]
  <2>1. w \in WorkerState /\ w.pc # "send" /\ worker' = [worker EXCEPT ![h] = w]
    BY <1>1, <1>2, <1>18 DEF CommitFails, WorkerState, WorkerPc
  <2>. HIDE DEF w
  <2>. QED
    BY <1>3, <2>1
<1>19. ASSUME GiveUp(h)
       PROVE  WorkerTypeOK' /\ SendOK' /\ TableTypeOK' /\ Harmless(rows, rows')
  <2>1. rows' \in Table /\ Harmless(rows, rows')
    BY <1>1, <1>2, <1>19, SetStatusLemma, CommitsLemma DEF GiveUp, Status
  <2>. DEFINE w == [worker[h] EXCEPT !.pc = "announce", !.ok = FALSE]
  <2>2. w \in WorkerState /\ w.pc # "send" /\ worker' = [worker EXCEPT ![h] = w]
    BY <1>1, <1>2, <1>19 DEF GiveUp, WorkerState, WorkerPc
  <2>. HIDE DEF w
  <2>. QED
    BY <1>3, <1>5, <1>19, <2>1, <2>2 DEF GiveUp
<1>20. ASSUME StartUpload(h)
       PROVE  WorkerTypeOK' /\ SendOK' /\ TableTypeOK' /\ Harmless(rows, rows')
  <2>1. rows' \in Table /\ Harmless(rows, rows')
    BY <1>1, <1>2, <1>20, SetStatusLemma, CommitsLemma DEF StartUpload, Status
  <2>. QED
    BY <1>5, <1>7, <1>20, <2>1 DEF StartUpload, WorkerPc
<1>21. ASSUME Archive(h) PROVE WorkerTypeOK' /\ SendOK'
  <2>1. ASSUME NEW n \in 1 .. NumParts,
               worker' = [worker EXCEPT ![h].pc = "part", ![h].part = 0,
                                        ![h].count = n]
        PROVE  WorkerTypeOK' /\ SendOK'
    <3>. DEFINE w == [worker[h] EXCEPT !.pc = "part", !.part = 0, !.count = n]
    <3>1. 0 \in 0 .. NumParts /\ n \in 0 .. NumParts
      BY SizeAssumption
    <3>2. w \in WorkerState /\ w.pc # "send" /\ worker' = [worker EXCEPT ![h] = w]
      BY <1>1, <1>2, <2>1, <3>1 DEF WorkerState, WorkerPc
    <3>. HIDE DEF w
    <3>. QED
      BY <1>3, <3>2
  <2>. QED
    BY <1>10, <1>21, <2>1 DEF Archive
<1>41. ASSUME NEW p \in Parts
       PROVE  WithPartRow(h, p) \in Table /\ Harmless(rows, WithPartRow(h, p))
  BY <1>1, AddRowLemma, HarmlessSame DEF WithPartRow, Status
<1>22. ASSUME BeginPart(h)
       PROVE  WorkerTypeOK' /\ SendOK' /\ TableTypeOK' /\ Harmless(rows, rows')
  <2>. DEFINE p  == worker[h].part
              id == IF p = 0 THEN worker[h].row ELSE NextId(rows, h, p)
              rs == WithPartRow(h, p)
              row == WithHash(h, rs[Place(id)])
              w  == [worker[h] EXCEPT !.pc = "send", !.current = id]
  <2>1. p \in Parts /\ p < worker[h].count
    BY <1>2, <1>22, SizeAssumption DEF BeginPart, WorkerState, Parts
  <2>2. id \in RowId \union {NoId}
    BY <1>1, <1>2, <2>1, IdAtType
  <2>3. rs \in Table /\ Harmless(rows, rs)
    BY <1>1, <2>1, <1>41
  <2>4. rows' = UpdateRow(rs, id, row) /\ worker' = [worker EXCEPT ![h] = w]
    BY <1>1, <1>22 DEF BeginPart
  <2>5. w \in WorkerState /\ w.pc = "send" /\ w.part < w.count
    BY <1>2, <2>1, <2>2 DEF WorkerState, WorkerPc
  <2>. HIDE DEF id, rs, w
  <2>6. ASSUME id \in RowId
        PROVE  /\ row \in Row
               /\ row.gen = rs[Place(id)].gen
               /\ row.status = rs[Place(id)].status
               /\ row.blockedBy = rs[Place(id)].blockedBy
    <3>1. rs[Place(id)] \in Row
      BY <2>3, <2>6, PlaceType DEF Table
    <3>. QED
      BY <3>1 DEF WithHash, Row
  <2>. HIDE DEF row
  <2>7. rows' \in Table /\ Harmless(rs, rows')
    BY <2>2, <2>3, <2>4, <2>6, UpdateRowLemma
  <2>8. Harmless(rows, rows')
    BY <1>1, <2>3, <2>7, HarmlessTrans
  <2>. QED
    BY <1>3, <1>5, <1>22, <2>4, <2>5, <2>7, <2>8 DEF BeginPart
<1>23. ASSUME BeginPartFails(h)
       PROVE  WorkerTypeOK' /\ SendOK' /\ TableTypeOK' /\ Harmless(rows, rows')
  <2>. DEFINE w == [worker[h] EXCEPT !.pc = "except", !.retryable = TRUE]
  <2>1. w \in WorkerState /\ w.pc # "send" /\ worker' = [worker EXCEPT ![h] = w]
    BY <1>1, <1>2, <1>23 DEF BeginPartFails, WorkerState, WorkerPc
  <2>. HIDE DEF w
  <2>2. worker[h].part \in Parts
    BY <1>2, <1>23, SizeAssumption DEF BeginPartFails, WorkerState, Parts
  <2>3. rows' \in Table /\ Harmless(rows, rows')
    BY <1>1, <1>23, <1>41, <2>2, HarmlessSame DEF BeginPartFails
  <2>. QED
    BY <1>3, <1>5, <1>23, <2>1, <2>3 DEF BeginPartFails
<1>24. ASSUME SendPart(h)
       PROVE  WorkerTypeOK' /\ SendOK' /\ TableTypeOK' /\ Harmless(rows, rows')
  <2>1. CASE Fail(h) /\ UNCHANGED <<rows, faults>>
    BY <1>1, <1>5, <1>10, <1>24, <2>1, HarmlessSame DEF SendPart
  <2>2. ASSUME NEW url \in BOOLEAN,
               Commits(UpdateRow(rows, worker[h].current,
                         [rows[Place(worker[h].current)] EXCEPT
                             !.status = "completed", !.url = url])),
               worker' = [worker EXCEPT ![h].pc = "part", ![h].current = NoId,
                                        ![h].part = @ + 1]
        PROVE  WorkerTypeOK' /\ SendOK' /\ TableTypeOK' /\ Harmless(rows, rows')
    <3>. DEFINE id  == worker[h].current
                row == [rows[Place(id)] EXCEPT !.status = "completed", !.url = url]
                w   == [worker[h] EXCEPT !.pc = "part", !.current = NoId,
                                         !.part = @ + 1]
    <3>1. id \in RowId \union {NoId} /\ Commits(UpdateRow(rows, id, row))
      BY <1>2, <2>2
    <3>2. worker[h].part \in 0 .. NumParts /\ worker[h].count \in 0 .. NumParts
      BY <1>2 DEF WorkerState
    <3>3. worker[h].part < worker[h].count
      BY <1>24 DEF SendPart
    <3>4. worker[h].part + 1 \in 0 .. NumParts
      BY <3>2, <3>3, SizeAssumption
    <3>5. w \in WorkerState /\ w.pc # "send" /\ worker' = [worker EXCEPT ![h] = w]
      BY <1>1, <1>2, <2>2, <3>4 DEF WorkerState, WorkerPc
    <3>. HIDE DEF id, w
    <3>6. ASSUME id \in RowId
          PROVE  row \in Row /\ row.gen = rows[Place(id)].gen
                 /\ row.status = "completed"
      <4>1. rows[Place(id)] \in Row
        BY <1>1, <3>6, PlaceType DEF Table
      <4>. QED
        BY <4>1 DEF Row, Status
    <3>. HIDE DEF row
    <3>7. rows' \in Table /\ Harmless(rows, rows')
      BY <1>1, <3>1, <3>6, UpdateRowLemma, CommitsLemma
    <3>. QED
      BY <1>3, <1>5, <1>24, <3>5, <3>7 DEF SendPart
  <2>. QED
    BY <1>24, <2>1, <2>2 DEF SendPart
<1>25. ASSUME EndParts(h) PROVE WorkerTypeOK' /\ SendOK'
  <2>1. CASE worker' = [worker EXCEPT ![h].pc = "except", ![h].retryable = TRUE]
    <3>. DEFINE w == [worker[h] EXCEPT !.pc = "except", !.retryable = TRUE]
    <3>1. w \in WorkerState /\ w.pc # "send" /\ worker' = [worker EXCEPT ![h] = w]
      BY <1>1, <1>2, <2>1 DEF WorkerState, WorkerPc
    <3>. HIDE DEF w
    <3>. QED
      BY <1>3, <3>1
  <2>. QED
    BY <1>9, <1>25, <2>1 DEF EndParts
<1>26. ASSUME HandleError(h)
       PROVE  WorkerTypeOK' /\ SendOK' /\ TableTypeOK' /\ Harmless(rows, rows')
  <2>. DEFINE id  == worker[h].row
              row == [rows[Place(id)] EXCEPT !.status = "pending",
                                             !.retries = @ + 1]
  <2>1. id \in RowId \union {NoId}
    BY <1>2
  <2>. HIDE DEF id
  <2>2. ASSUME id \in RowId
        PROVE  row \in Row /\ row.gen = rows[Place(id)].gen
               /\ row.status = "pending"
    <3>1. rows[Place(id)] \in Row
      BY <1>1, <2>2, PlaceType DEF Table
    <3>2. rows[Place(id)].retries \in Nat
      BY <3>1 DEF Row
    <3>3. rows[Place(id)].retries + 1 \in Nat
      BY <3>2
    <3>. QED
      BY <3>1, <3>3 DEF Row, Status
  <2>. HIDE DEF row
  <2>3. UpdateRow(rows, id, row) \in Table /\ Harmless(rows, UpdateRow(rows, id, row))
    BY <1>1, <2>1, <2>2, UpdateRowLemma
  <2>4. SetStatus(rows, id, "failed") \in Table
        /\ Harmless(rows, SetStatus(rows, id, "failed"))
    BY <1>1, <2>1, SetStatusLemma DEF Status
  <2>5. Commits(UpdateRow(rows, id, row)) \/ Commits(SetStatus(rows, id, "failed"))
    BY <1>26 DEF HandleError, AfterError, Requeued, id, row
  <2>6. rows' \in Table /\ Harmless(rows, rows')
    BY <1>1, <2>3, <2>4, <2>5, CommitsLemma
  <2>. QED
    BY <1>5, <1>9, <1>26, <2>6 DEF HandleError
<1>27. ASSUME ReadOutcome(h) PROVE WorkerTypeOK' /\ SendOK'
  <2>. DEFINE ok == \A p \in Parts : rows[<<h, p>>].status \in {"absent", "completed"}
              w  == [worker[h] EXCEPT !.pc = "announce", !.ok = ok]
  <2>1. worker' = [worker EXCEPT ![h] = w]
    BY <1>1, <1>27 DEF ReadOutcome
  <2>2. ok \in BOOLEAN
    OBVIOUS
  <2>. HIDE DEF ok
  <2>3. w \in WorkerState /\ w.pc # "send"
    BY <1>2, <2>2 DEF WorkerState, WorkerPc
  <2>. HIDE DEF w
  <2>. QED
    BY <1>3, <2>1, <2>3
<1>28. ASSUME Announce(h)
       PROVE  WorkerTypeOK' /\ SendOK' /\ TableTypeOK' /\ Harmless(rows, rows')
  <2>1. worker[h].ok \in BOOLEAN
    BY <1>2 DEF WorkerState
  <2>2. Settled(h, worker[h].ok) \in Event
    BY <2>1 DEF Event, Settled
  <2>3. events' \in Seq(Event)
    BY <1>28, <2>2 DEF Announce, TableTypeOK
  <2>. QED
    BY <1>1, <1>8, <1>28, <2>3, HarmlessSame DEF Announce, TableTypeOK
<1>29. ASSUME FailFast(h)
       PROVE  WorkerTypeOK' /\ SendOK' /\ TableTypeOK' /\ Harmless(rows, rows')
  <2>1. rows' \in Table /\ Harmless(rows, rows')
    BY <1>1, <1>2, <1>29, SetStatusLemma, CommitsLemma DEF FailFast, Status
  <2>. QED
    BY <1>5, <1>8, <1>29, <2>1 DEF FailFast
<1>30. ASSUME Quit(h) PROVE WorkerTypeOK' /\ SendOK'
  BY <1>7, <1>30 DEF Quit, WorkerPc
<1>31. ASSUME SpinUp(h)
       PROVE  WorkerTypeOK' /\ SendOK' /\ TableTypeOK' /\ Harmless(rows, rows')
  <2>1. WorkerTypeOK' /\ SendOK'
    <3>1. Go(h, "idle") \/ Go(h, "stopped")
      BY <1>31 DEF SpinUp
    <3>. QED
      BY <1>7, <3>1 DEF WorkerPc
  <2>2. Spun(h, TRUE) \in Event /\ Spun(h, FALSE) \in Event
    BY DEF Spun, Event
  <2>3. \E e \in Event : events' = Append(events, e)
    BY <1>31, <2>2 DEF SpinUp
  <2>4. events' \in Seq(Event)
    BY <2>3 DEF TableTypeOK
  <2>. QED
    BY <1>1, <1>31, <2>1, <2>4, HarmlessSame DEF SpinUp, TableTypeOK
<1>33. ASSUME WorkerTypeOK' /\ SendOK', UNCHANGED tableVars
       PROVE  WorkerTypeOK' /\ SendOK' /\ TableTypeOK' /\ Harmless(rows, rows')
  BY <1>4, <1>33
<1>34. CASE WorkerStep(h)
  <2>1. CASE Pick(h)
    BY <1>11, <1>33, <2>1 DEF Pick
  <2>2. CASE Quit(h)
    BY <1>30, <1>33, <2>2 DEF Quit
  <2>3. CASE ReadSiblings(h)
    BY <1>12, <1>33, <2>3 DEF ReadSiblings
  <2>4. CASE Probe(h)
    BY <1>13, <1>33, <2>4 DEF Probe
  <2>5. CASE Archive(h)
    BY <1>21, <1>33, <2>5 DEF Archive
  <2>6. CASE EndParts(h)
    BY <1>25, <1>33, <2>6 DEF EndParts
  <2>7. CASE ReadOutcome(h)
    BY <1>27, <1>33, <2>7 DEF ReadOutcome
  <2>. QED
    BY <1>14, <1>16, <1>17, <1>19, <1>20, <1>22, <1>24, <1>26, <1>28, <1>29,
       <1>34, <2>1, <2>2, <2>3, <2>4, <2>5, <2>6, <2>7 DEF WorkerStep
<1>35. CASE WorkerDbFails(h)
  <2>1. CASE RowDropped(h)
    BY <1>8, <1>33, <2>1 DEF RowDropped
  <2>2. CASE UploadDropped(h)
    BY <1>9, <1>33, <2>2 DEF UploadDropped
  <2>3. CASE OutcomeUnread(h)
    <3>. DEFINE w == [worker[h] EXCEPT !.pc = "announce", !.ok = FALSE]
    <3>1. w \in WorkerState /\ w.pc # "send" /\ worker' = [worker EXCEPT ![h] = w]
      BY <1>1, <1>2, <2>3 DEF OutcomeUnread, WorkerState, WorkerPc
    <3>. HIDE DEF w
    <3>2. WorkerTypeOK' /\ SendOK'
      BY <1>3, <3>1
    <3>. QED
      BY <1>33, <2>3, <3>2 DEF OutcomeUnread
  <2>. QED
    BY <1>18, <1>23, <1>33, <1>35, <2>1, <2>2, <2>3
    DEF WorkerDbFails, CommitFails
<1>36. CASE Unrecorded(h)
  <2>1. CASE SentUnrecorded(h)
    BY <1>10, <1>33, <2>1 DEF SentUnrecorded
  <2>2. CASE MirrorUnrecorded(h)
    <3>. DEFINE w == [worker[h] EXCEPT !.pc = "missed", !.plan = {}]
    <3>1. w \in WorkerState /\ w.pc # "send" /\ worker' = [worker EXCEPT ![h] = w]
      BY <1>1, <1>2, <2>2 DEF MirrorUnrecorded, WorkerState, WorkerPc
    <3>. HIDE DEF w
    <3>2. WorkerTypeOK' /\ SendOK'
      BY <1>3, <3>1
    <3>. QED
      BY <1>5, <1>43, <2>2, <3>2 DEF MirrorUnrecorded
  <2>. QED
    BY <1>36, <2>1, <2>2 DEF Unrecorded
<1>. QED
  BY <1>31, <1>34, <1>35, <1>36

-----------------------------------------------------------------------------
(* The writes of the coordinator and of the pollers. *)

Blocking == {"reassign", "retryWait", "queueBlocked"}

LEMMA UpdatedLemma ==
  ASSUME NEW row \in Row, NEW w \in Write
  PROVE  /\ Updated(row, w) \in Row
         /\ Updated(row, w).gen = row.gen
         /\ Updated(row, w).status = "blocked" =>
              \/ row.status = "blocked" /\ Updated(row, w).blockedBy = row.blockedBy
              \/ w.op \in Blocking /\ Updated(row, w).blockedBy = w.on
<1>1. w.on \in RowId \union {NoId}
  BY DEF Write
<1>2. CASE w.op = "unblock"
  BY <1>2 DEF Updated, Row, Status
<1>3. CASE w.op = "promote"
  BY <1>3 DEF Updated, Row, Status
<1>4. CASE w.op = "reassign"
  BY <1>1, <1>4 DEF Updated, Row, Blocking
<1>5. CASE w.op = "retryNow"
  BY <1>5 DEF Updated, Row, Status
<1>6. CASE w.op = "retryWait"
  BY <1>1, <1>6 DEF Updated, Row, Status, Blocking
<1>7. CASE w.op \notin {"unblock", "promote", "reassign", "retryNow", "retryWait"}
  BY <1>7 DEF Updated
<1>. QED
  BY <1>2, <1>3, <1>4, <1>5, <1>6, <1>7

\* No write takes an id back, and a row it leaves blocked waits either for what
\* it waited for before or for what the write names.
LEMMA ApplyLemma ==
  ASSUME NEW rs \in Table, NEW w \in Write
  PROVE  /\ Apply(rs, w) \in Table
         /\ \A k \in Hosts \X Parts : rs[k].gen <= Apply(rs, w)[k].gen
         /\ \A h \in Hosts : Apply(rs, w)[<<h, 0>>].status = "blocked" =>
              \/ /\ rs[<<h, 0>>].status = "blocked"
                 /\ Apply(rs, w)[<<h, 0>>].blockedBy = rs[<<h, 0>>].blockedBy
              \/ /\ w.op \in Blocking /\ h = w.id.host
                 /\ Apply(rs, w)[<<h, 0>>].blockedBy = w.on
         /\ w.op = "queuePending" =>
              Apply(rs, w)[<<w.id.host, 0>>].gen = rs[<<w.id.host, 0>>].gen + 1
<1>1. w.id \in RowId /\ w.id.host \in Hosts /\ w.on \in RowId \union {NoId}
  BY DEF Write, RowId
<1>. DEFINE g == w.id.host
            by == w.on
            p == 0
            no == FALSE
<1>2. CASE w.op = "queuePending"
  <2>. DEFINE new == AddRow(rs, g, p, "pending", NoId, no)
  <2>1. Apply(rs, w) = new
    BY <1>2 DEF Apply
  <2>2. /\ g \in Hosts /\ p \in Parts /\ "pending" \in Status \ {"blocked"}
        /\ NoId \in RowId \union {NoId} /\ no \in BOOLEAN
    BY <1>1, PartZero DEF Status
  <2>. HIDE DEF g, p, no
  <2>3. new \in Table /\ Harmless(rs, new)
    BY <2>2, AddRowLemma
  <2>4. new[<<g, p>>].gen = rs[<<g, p>>].gen + 1
    BY <2>2, AddRowShape
  <2>. HIDE DEF new
  <2>. QED
    BY <2>1, <2>3, <2>4 DEF Harmless, g, p
<1>3. CASE w.op = "queueBlocked"
  <2>. DEFINE new == AddRow(rs, g, p, "blocked", by, no)
  <2>1. Apply(rs, w) = new
    BY <1>3 DEF Apply
  <2>2. /\ g \in Hosts /\ p \in Parts /\ "blocked" \in Status
        /\ by \in RowId \union {NoId} /\ no \in BOOLEAN
    BY <1>1, PartZero DEF Status
  <2>. HIDE DEF g, by, p, no
  <2>3. /\ new \in Table
        /\ \A k \in Hosts \X Parts : k # <<g, p>> => new[k] = rs[k]
        /\ new[<<g, p>>].blockedBy = by
    BY <2>2, AddRowShape
  <2>4. \A k \in Hosts \X Parts : rs[k].gen <= new[k].gen
    BY <2>2, AddRowGrows
  <2>. HIDE DEF new
  <2>5. ASSUME NEW h \in Hosts, h # g PROVE new[<<h, p>>] = rs[<<h, p>>]
    BY <2>2, <2>3, <2>5
  <2>. QED
    BY <1>3, <2>1, <2>3, <2>4, <2>5 DEF Blocking, g, by, p
<1>4. CASE w.op \notin {"queuePending", "queueBlocked"}
  <2>. DEFINE row == Updated(rs[Place(w.id)], w)
              new == UpdateRow(rs, w.id, row)
  <2>1. Apply(rs, w) = new
    BY <1>4 DEF Apply
  <2>2. rs[Place(w.id)] \in Row
    BY <1>1, PlaceType DEF Table
  <2>3. /\ row \in Row /\ row.gen = rs[Place(w.id)].gen
        /\ row.status = "blocked" =>
             \/ /\ rs[Place(w.id)].status = "blocked"
                /\ row.blockedBy = rs[Place(w.id)].blockedBy
             \/ w.op \in Blocking /\ row.blockedBy = w.on
    BY <2>2, UpdatedLemma
  <2>. HIDE DEF row
  <2>4. /\ new \in Table
        /\ \A k \in Hosts \X Parts :
             /\ rs[k].gen <= new[k].gen
             /\ new[k] = rs[k] \/ (k = Place(w.id) /\ new[k] = row)
    <3>. DEFINE id == w.id
    <3>1. id \in RowId /\ row.gen = rs[Place(id)].gen
      BY <1>1, <2>3
    <3>. HIDE DEF id
    <3>2. /\ UpdateRow(rs, id, row) \in Table
          /\ \A k \in Hosts \X Parts :
              /\ rs[k].gen <= UpdateRow(rs, id, row)[k].gen
              /\ \/ UpdateRow(rs, id, row)[k] = rs[k]
                 \/ k = Place(id) /\ UpdateRow(rs, id, row)[k] = row
      BY <2>3, <3>1, UpdateRowShape
    <3>. QED
      BY <3>2 DEF id
  <2>. HIDE DEF new
  <2>5. ASSUME NEW h \in Hosts
        PROVE  \/ new[<<h, 0>>] = rs[<<h, 0>>]
               \/ <<h, 0>> = Place(w.id) /\ new[<<h, 0>>] = row
    BY <2>4, PartZero
  <2>6. ASSUME NEW h \in Hosts, <<h, 0>> = Place(w.id) PROVE h = w.id.host
    BY <2>6 DEF Place
  <2>. QED
    BY <1>4, <2>1, <2>3, <2>4, <2>5, <2>6
<1>. QED
  BY <1>2, <1>3, <1>4

-----------------------------------------------------------------------------
(* The choices of the coordinator. *)

LEMMA LeastExists ==
  ASSUME NEW S \in SUBSET Nat, S # {}
  PROVE  \E x \in S : \A y \in S : x <= y
<1>1. \E x \in S : \A y \in S : ~(<<y, x>> \in OpToRel(<, Nat))
  <2>. DEFINE R == OpToRel(<, Nat)
  <2>1. IsWellFoundedOn(R, Nat)
    BY NatLessThanWellFounded
  <2>. HIDE DEF R
  <2>2. \E x \in S : \A y \in S : ~(<<y, x>> \in R)
    BY <2>1, WFMin, Zenon
  <2>. QED
    BY <2>2 DEF R
<1>2. PICK x \in S : \A y \in S : ~(<<y, x>> \in OpToRel(<, Nat))
  BY <1>1
<1>3. \A y \in S : ~(<<y, x>> \in {ss \in Nat \X Nat : ss[1] < ss[2]})
  BY <1>2 DEF OpToRel
<1>4. ASSUME NEW y \in S PROVE x <= y
  <2>1. x \in Nat /\ y \in Nat
    OBVIOUS
  <2>2. ~(y < x)
    BY <1>3, <2>1
  <2>. QED
    BY <2>1, <2>2
<1>. QED
  BY <1>4

LEMMA PrimaryIn ==
  ASSUME NEW S \in SUBSET Hosts, S # {}
  PROVE  Primary(S) \in S
<1>1. S \in SUBSET Nat
  BY SizeAssumption DEF Hosts
<1>2. \E x \in S : \A y \in S : x <= y
  BY <1>1, LeastExists
<1>. QED
  BY <1>2 DEF Primary

\* The number NewPoller looks for exists: there are more candidates than
\* pollers.
LEMMA UnusedNumber ==
  ASSUME NEW S, IsFiniteSet(S)
  PROVE  \E n \in 0 .. Cardinality(S) : \A p \in S : p.n # n
<1>. DEFINE Used == {p.n : p \in S}
<1>1. IsFiniteSet(Used) /\ Cardinality(Used) <= Cardinality(S)
  <2>. DEFINE f == [p \in S |-> p.n]
  <2>1. f \in Surjection(S, Used)
    BY DEF Surjection
  <2>. HIDE DEF f, Used
  <2>. QED
    BY <2>1, FS_Surjection
<1>2. Cardinality(S) \in Nat
  BY FS_CardinalityType
<1>3. Cardinality(0 .. Cardinality(S)) = Cardinality(S) + 1
  BY <1>2, FS_Interval
<1>4. ~(0 .. Cardinality(S) \subseteq Used)
  <2>1. SUFFICES ASSUME 0 .. Cardinality(S) \subseteq Used PROVE FALSE
    OBVIOUS
  <2>. HIDE DEF Used
  <2>2. Cardinality(0 .. Cardinality(S)) <= Cardinality(Used)
    BY <1>1, <2>1, FS_Subset
  <2>3. Cardinality(Used) \in Nat
    BY <1>1, FS_CardinalityType
  <2>. QED
    BY <1>1, <1>2, <1>3, <2>2, <2>3
<1>. QED
  BY <1>4

LEMMA NewPollerType ==
  ASSUME IsFiniteSet(pollers), NEW id \in RowId
  PROVE  NewPoller(id) \in Poller /\ NewPoller(id).todo = {}
<1>. DEFINE n == CHOOSE n \in 0 .. Cardinality(pollers) :
                    \A p \in pollers : p.n # n
<1>1. n \in Nat
  BY UnusedNumber, FS_CardinalityType
<1>2. NewPoller(id) = [n |-> n, primary |-> id, pc |-> "timer",
                       registered |-> TRUE, todo |-> {}]
  BY DEF NewPoller
<1>. HIDE DEF n
<1>. QED
  BY <1>1, <1>2 DEF Poller, PollerPc

LEMMA ImageFinite ==
  ASSUME NEW S, IsFiniteSet(S), NEW T, NEW f, f = [x \in S |-> f[x]],
         T = {f[x] : x \in S}
  PROVE  IsFiniteSet(T)
<1>1. f \in Surjection(S, T)
  BY DEF Surjection
<1>. QED
  BY <1>1, FS_Surjection

LEMMA HeadIdType ==
  TableTypeOK => \A h \in Hosts :
    /\ HeadId(h) \in RowId /\ HeadId(h).host = h /\ HeadId(h).part = 0
    /\ HeadId(h).gen = rows[<<h, 0>>].gen
    /\ Place(HeadId(h)) = <<h, 0>>
  BY IdAtType, PartZero DEF TableTypeOK, HeadId, IdAt, Place

LEMMA HeadSets ==
  /\ Heads \subseteq Hosts /\ BlockedHeads \subseteq Hosts
  /\ \A id : WaitersOn(id) \subseteq Hosts
  BY DEF Heads, HeadHosts, BlockedHeads, WaitersOn

-----------------------------------------------------------------------------
(* The inductive invariant.  A blocked row points at a row that is or was   *)
(* there, and so will every row that a write in progress leaves blocked:    *)
(* the id it names exists, or is the one the insertion that comes first     *)
(* will hand out.                                                           *)

PointsBack(rs, h, by) ==
    /\ by \in RowId
    /\ by.host # h /\ by.part = 0
    /\ by.gen <= rs[Place(by)].gen

WaitsOK(rs) ==
    \A h \in Hosts : rs[<<h, 0>>].status = "blocked"
                        => PointsBack(rs, h, rs[<<h, 0>>].blockedBy)

\* The next id of by's place is handed out by a write of todo.
Promised(rs, todo, by) ==
    /\ by.gen = rs[Place(by)].gen + 1
    /\ \E v \in todo : v.op = "queuePending" /\ v.id.host = by.host

WriteOK(rs, todo, w) ==
    /\ w.op \in {"reassign", "retryWait"} => PointsBack(rs, w.id.host, w.on)
    /\ w.op = "queueBlocked" =>
         /\ w.on \in RowId
         /\ w.on.host # w.id.host /\ w.on.part = 0
         /\ w.on.gen <= rs[Place(w.on)].gen \/ Promised(rs, todo, w.on)

TodoOK(rs, todo) == \A w \in todo : WriteOK(rs, todo, w)

PollersOK ==
    /\ IsFiniteSet(pollers)
    /\ \A p \in pollers : \A w \in p.todo : w.op = "unblock"

CoordinatorOK ==
    /\ TableTypeOK
    /\ CoordinatorTypeOK
    /\ WaitsOK(rows)
    /\ TodoOK(rows, main.todo)
    /\ PollersOK

IInv ==
    /\ CoordinatorOK
    /\ ThreadsOK
    /\ faults \in Nat

Grows(rs, new) == \A k \in Hosts \X Parts : rs[k].gen <= new[k].gen

LEMMA PointsBackGrows ==
  ASSUME NEW rs \in Table, NEW new \in Table, Grows(rs, new),
         NEW h, NEW by, PointsBack(rs, h, by)
  PROVE  PointsBack(new, h, by)
<1>1. by \in RowId /\ by.gen \in Nat /\ Place(by) \in Hosts \X Parts
  BY PlaceType DEF PointsBack, RowId
<1>2. /\ rs[Place(by)].gen \in Nat /\ new[Place(by)].gen \in Nat
      /\ rs[Place(by)].gen <= new[Place(by)].gen
  BY <1>1, GenType DEF Grows
<1>3. by.gen <= new[Place(by)].gen
  BY <1>1, <1>2 DEF PointsBack
<1>. QED
  BY <1>3 DEF PointsBack

LEMMA WaitsOKHarmless ==
  ASSUME NEW rs \in Table, NEW new \in Table, Harmless(rs, new), WaitsOK(rs)
  PROVE  WaitsOK(new)
<1>1. Grows(rs, new)
  BY DEF Harmless, Grows
<1>2. ASSUME NEW h \in Hosts, new[<<h, 0>>].status = "blocked"
      PROVE  PointsBack(new, h, new[<<h, 0>>].blockedBy)
  <2>. DEFINE by == new[<<h, 0>>].blockedBy
  <2>1. PointsBack(rs, h, by)
    BY <1>2 DEF Harmless, WaitsOK
  <2>. HIDE DEF by
  <2>2. PointsBack(new, h, by)
    BY <1>1, <2>1, PointsBackGrows
  <2>. QED
    BY <2>2 DEF by
<1>. QED
  BY <1>2 DEF WaitsOK

LEMMA TodoOKGrows ==
  ASSUME NEW rs \in Table, NEW new \in Table, Grows(rs, new),
         NEW todo, TodoOK(rs, todo)
  PROVE  TodoOK(new, todo)
<1>1. SUFFICES ASSUME NEW w \in todo PROVE WriteOK(new, todo, w)
  BY DEF TodoOK
<1>2. WriteOK(rs, todo, w)
  BY DEF TodoOK
<1>3. ASSUME w.op \in {"reassign", "retryWait"}
      PROVE  PointsBack(new, w.id.host, w.on)
  <2>1. PointsBack(rs, w.id.host, w.on)
    BY <1>2, <1>3 DEF WriteOK
  <2>. QED
    BY <2>1, PointsBackGrows
<1>4. ASSUME w.op = "queueBlocked"
      PROVE  w.on.gen <= new[Place(w.on)].gen \/ Promised(new, todo, w.on)
  <2>. DEFINE by == w.on
  <2>1. by \in RowId /\ by.gen \in Nat /\ Place(by) \in Hosts \X Parts
    BY <1>2, <1>4, PlaceType DEF WriteOK, RowId
  <2>2. by.gen <= rs[Place(by)].gen \/ Promised(rs, todo, by)
    BY <1>2, <1>4 DEF WriteOK
  <2>. HIDE DEF by
  <2>3. /\ rs[Place(by)].gen \in Nat /\ new[Place(by)].gen \in Nat
        /\ rs[Place(by)].gen <= new[Place(by)].gen
    BY <2>1, GenType DEF Grows
  <2>4. by.gen <= new[Place(by)].gen \/ Promised(new, todo, by)
    BY <2>1, <2>2, <2>3 DEF Promised
  <2>. QED
    BY <2>4 DEF by
<1>. QED
  BY <1>2, <1>3, <1>4 DEF WriteOK

\* One write of a loop, made in the order First prescribes.
LEMMA WriteStep ==
  ASSUME NEW rs \in Table, NEW todo \in SUBSET Write, NEW w \in todo,
         First(todo) # {} => w \in First(todo),
         WaitsOK(rs), TodoOK(rs, todo)
  PROVE  /\ Apply(rs, w) \in Table
         /\ Grows(rs, Apply(rs, w))
         /\ WaitsOK(Apply(rs, w))
         /\ TodoOK(Apply(rs, w), todo \ {w})
<1>. DEFINE new == Apply(rs, w)
<1>1. /\ w \in Write /\ w.id.host \in Hosts
      /\ WriteOK(rs, todo, w)
  BY DEF Write, RowId, TodoOK
<1>2. /\ new \in Table /\ Grows(rs, new)
      /\ \A h \in Hosts : new[<<h, 0>>].status = "blocked" =>
           \/ /\ rs[<<h, 0>>].status = "blocked"
              /\ new[<<h, 0>>].blockedBy = rs[<<h, 0>>].blockedBy
           \/ /\ w.op \in Blocking /\ h = w.id.host
              /\ new[<<h, 0>>].blockedBy = w.on
      /\ w.op = "queuePending" =>
           new[<<w.id.host, 0>>].gen = rs[<<w.id.host, 0>>].gen + 1
  BY <1>1, ApplyLemma DEF Grows
<1>. HIDE DEF new
<1>3. ASSUME w.op \in Blocking
      PROVE  PointsBack(rs, w.id.host, w.on)
  <2>1. CASE w.op \in {"reassign", "retryWait"}
    BY <1>1, <2>1 DEF WriteOK
  <2>2. CASE w.op = "queueBlocked"
    <3>1. w \notin First(todo)
      BY <2>2 DEF First
    <3>2. First(todo) = {}
      BY <3>1
    <3>3. ~\E v \in todo : v.op = "queuePending"
      BY <3>2 DEF First
    <3>. QED
      BY <1>1, <2>2, <3>3 DEF WriteOK, Promised, PointsBack
  <2>. QED
    BY <1>3, <2>1, <2>2 DEF Blocking
<1>4. ASSUME NEW h \in Hosts, new[<<h, 0>>].status = "blocked"
      PROVE  PointsBack(new, h, new[<<h, 0>>].blockedBy)
  <2>. DEFINE by == new[<<h, 0>>].blockedBy
  <2>1. PointsBack(rs, h, by)
    BY <1>2, <1>3, <1>4 DEF WaitsOK
  <2>. HIDE DEF by
  <2>2. PointsBack(new, h, by)
    BY <1>2, <2>1, PointsBackGrows
  <2>. QED
    BY <2>2 DEF by
<1>5. TodoOK(new, todo)
  BY <1>2, TodoOKGrows
<1>6. ASSUME NEW x \in todo \ {w}
      PROVE  WriteOK(new, todo \ {w}, x)
  <2>1. WriteOK(new, todo, x) /\ WriteOK(rs, todo, x)
    BY <1>5 DEF TodoOK
  <2>2. CASE x.op # "queueBlocked"
    BY <2>1, <2>2 DEF WriteOK
  <2>3. CASE x.op = "queueBlocked"
    <3>1. x.on \in RowId /\ x.on.host # x.id.host /\ x.on.part = 0
      BY <2>1, <2>3 DEF WriteOK
    <3>2. x.on.gen \in Nat /\ Place(x.on) \in Hosts \X Parts
          /\ Place(x.on) = <<x.on.host, 0>>
      BY <3>1, PlaceType DEF RowId, Place
    <3>3. CASE x.on.gen <= new[Place(x.on)].gen
      BY <2>3, <3>1, <3>3 DEF WriteOK
    <3>4. CASE ~(x.on.gen <= new[Place(x.on)].gen)
      <4>1. Promised(new, todo, x.on)
        BY <2>1, <2>3, <3>4 DEF WriteOK
      <4>2. PICK v \in todo : v.op = "queuePending" /\ v.id.host = x.on.host
        BY <4>1 DEF Promised
      <4>3. CASE v # w
        <5>1. Promised(new, todo \ {w}, x.on)
          BY <4>1, <4>2, <4>3 DEF Promised
        <5>. QED
          BY <2>3, <3>1, <5>1 DEF WriteOK
      <4>4. CASE v = w
        <5>1. new[Place(x.on)].gen = rs[Place(x.on)].gen + 1
          BY <1>2, <3>2, <4>2, <4>4
        <5>2. x.on.gen <= rs[Place(x.on)].gen \/ x.on.gen = rs[Place(x.on)].gen + 1
          BY <2>1, <2>3 DEF WriteOK, Promised
        <5>3. rs[Place(x.on)].gen \in Nat
          BY <3>2, GenType
        <5>. QED
          BY <3>2, <3>4, <5>1, <5>2, <5>3
      <4>. QED
        BY <4>3, <4>4
    <3>. QED
      BY <3>3, <3>4
  <2>. QED
    BY <2>2, <2>3
<1>7. /\ new \in Table /\ Grows(rs, new) /\ WaitsOK(new)
      /\ TodoOK(new, todo \ {w})
  BY <1>2, <1>4, <1>6 DEF WaitsOK, TodoOK
<1>. QED
  BY <1>7 DEF new

-----------------------------------------------------------------------------
(* The main thread and the pollers keep their part of the invariant. *)

LEMMA WType ==
  ASSUME NEW op \in WriteOp, NEW id \in RowId, NEW on \in RowId \union {NoId}
  PROVE  /\ W(op, id, on) \in Write
         /\ W(op, id, on).op = op /\ W(op, id, on).id = id
         /\ W(op, id, on).on = on
  BY DEF W, Write

\* A loop that neither blocks a row nor changes what one is blocked on.
LEMMA PlainTodo ==
  ASSUME NEW rs, NEW todo, \A w \in todo : w.op \notin Blocking
  PROVE  TodoOK(rs, todo)
  BY DEF TodoOK, WriteOK, Blocking

LEMMA UnblocksType ==
  ASSUME TableTypeOK, NEW id
  PROVE  Unblocks(id) \in SUBSET Write /\ \A w \in Unblocks(id) : w.op = "unblock"
<1>1. SUFFICES ASSUME NEW w \in Unblocks(id) PROVE w \in Write /\ w.op = "unblock"
  OBVIOUS
<1>2. PICK h \in WaitersOn(id) : w = W("unblock", HeadId(h), NoId)
  BY DEF Unblocks
<1>3. HeadId(h) \in RowId
  BY HeadIdType, HeadSets
<1>. QED
  BY <1>2, <1>3, WType DEF WriteOp

LEMMA QueuePlainType ==
  ASSUME TableTypeOK, NEW S \in SUBSET Hosts
  PROVE  /\ QueuePlain(S) \in SUBSET Write
         /\ \A w \in QueuePlain(S) : w.op = "queuePending"
         /\ \A h \in S : \E v \in QueuePlain(S) : v.op = "queuePending" /\ v.id.host = h
<1>1. ASSUME NEW h \in S
      PROVE  /\ W("queuePending", HeadId(h), NoId) \in Write
             /\ W("queuePending", HeadId(h), NoId).op = "queuePending"
             /\ W("queuePending", HeadId(h), NoId).id.host = h
  <2>1. HeadId(h) \in RowId /\ HeadId(h).host = h
    BY HeadIdType
  <2>. QED
    BY <2>1, WType DEF WriteOp
<1>. QED
  BY <1>1 DEF QueuePlain

LEMMA MainGoLemma ==
  ASSUME CoordinatorOK, NEW pc \in MainPc, NEW todo \in SUBSET Write,
         MainGo(pc, todo), TodoOK(rows, todo), UNCHANGED <<tableVars, pollers>>
  PROVE  CoordinatorOK'
<1>1. main' = [main EXCEPT !.pc = pc, !.todo = todo, !.primary = NoId]
  BY DEF MainGo
<1>2. main \in MainState
  BY DEF CoordinatorOK, CoordinatorTypeOK
<1>3. main' \in MainState /\ main'.todo = todo
  BY <1>1, <1>2 DEF MainState
<1>. QED
  BY <1>3 DEF CoordinatorOK, CoordinatorTypeOK, TableTypeOK, tableVars, PollersOK

LEMMA QueueGalleryLemma ==
  ASSUME CoordinatorOK, NEW S \in SUBSET Hosts, S # {}, QueueGallery(S)
  PROVE  CoordinatorOK'
<1>. DEFINE first == Primary(S)
            on == NextId(rows, first, 0)
            rest == {W("queueBlocked", HeadId(h), on) : h \in S \ {first}}
            todo == QueuePlain({first}) \union rest
<1>1. first \in S /\ first \in Hosts
  BY PrimaryIn
<1>2. TableTypeOK /\ rows \in Table
  BY DEF CoordinatorOK, TableTypeOK
<1>3. /\ on \in RowId /\ on.host = first /\ on.part = 0
      /\ Place(on) = <<first, 0>> /\ on.gen = rows[<<first, 0>>].gen + 1
  BY <1>1, <1>2, IdAtType, PartZero DEF NextId, IdAt, Place
<1>. HIDE DEF first, on
<1>4. ASSUME NEW w \in rest
      PROVE  /\ w \in Write /\ w.op = "queueBlocked" /\ w.on = on
             /\ w.id.host # first
  <2>1. PICK h \in S \ {first} : w = W("queueBlocked", HeadId(h), on)
    OBVIOUS
  <2>2. HeadId(h) \in RowId /\ HeadId(h).host = h
    BY <1>2, HeadIdType
  <2>. QED
    BY <1>3, <2>1, <2>2, WType DEF WriteOp
<1>5. /\ QueuePlain({first}) \in SUBSET Write
      /\ \A w \in QueuePlain({first}) : w.op = "queuePending"
      /\ \E v \in QueuePlain({first}) : v.op = "queuePending" /\ v.id.host = first
  BY <1>1, <1>2, QueuePlainType
<1>. HIDE DEF rest
<1>6. Promised(rows, todo, on)
  BY <1>3, <1>5 DEF Promised
<1>7. TodoOK(rows, todo)
  <2>1. ASSUME NEW w \in QueuePlain({first}) PROVE WriteOK(rows, todo, w)
    BY <1>5 DEF WriteOK
  <2>. HIDE DEF todo
  <2>2. ASSUME NEW w \in rest PROVE WriteOK(rows, todo, w)
    BY <1>3, <1>4, <1>6 DEF WriteOK
  <2>. QED
    BY <2>1, <2>2 DEF TodoOK, todo
<1>8. todo \in SUBSET Write
  BY <1>4, <1>5
<1>9. TodoOK(rows, QueuePlain(S)) /\ QueuePlain(S) \in SUBSET Write
  BY <1>2, QueuePlainType, PlainTodo DEF Blocking
<1>10. \/ MainGo("finish", todo)
       \/ MainGo("finish", QueuePlain(S))
  BY DEF QueueGallery, QueueFamily, first, on, rest
<1>. HIDE DEF todo
<1>. QED
  BY <1>7, <1>8, <1>9, <1>10, MainGoLemma DEF QueueGallery, MainPc

LEMMA QueuePrimaryFailsLemma ==
  ASSUME CoordinatorOK, QueuePrimaryFails
  PROVE  CoordinatorOK'
<1>. DEFINE S == {v.id.host : v \in main.todo}
<1>1. TableTypeOK /\ main \in MainState /\ main.todo \in SUBSET Write
  BY DEF CoordinatorOK, CoordinatorTypeOK, MainState
<1>2. S \in SUBSET Hosts
  BY <1>1 DEF Write, RowId
<1>3. MainGo("finish", QueuePlain(S)) /\ UNCHANGED <<tableVars, pollers>>
  BY DEF QueuePrimaryFails
<1>. HIDE DEF S
<1>4. QueuePlain(S) \in SUBSET Write /\ TodoOK(rows, QueuePlain(S))
  BY <1>1, <1>2, QueuePlainType, PlainTodo DEF Blocking
<1>. QED
  BY <1>3, <1>4, MainGoLemma DEF MainPc

LEMMA HandleFailureLemma ==
  ASSUME CoordinatorOK, HandleFailure
  PROVE  CoordinatorOK'
<1>. DEFINE h == main.ev.host
            next == Primary(BlockedHeads \ {h})
            rest == {W("reassign", HeadId(g), HeadId(next)) :
                        g \in WaitersOn(HeadId(h)) \ {next}}
            todo == {W("promote", HeadId(next), NoId)} \union rest
<1>1. TableTypeOK /\ rows \in Table
  BY DEF CoordinatorOK, TableTypeOK
<1>2. CASE MainGo("scan", {})
  BY <1>2, MainGoLemma, PlainTodo DEF HandleFailure, MainPc
<1>3. CASE MainGo("write", todo) /\ BlockedHeads \ {h} # {}
  <2>1. next \in Hosts
    BY <1>3, PrimaryIn, HeadSets
  <2>. HIDE DEF next
  <2>2. /\ HeadId(next) \in RowId /\ HeadId(next).host = next
        /\ HeadId(next).part = 0 /\ Place(HeadId(next)) = <<next, 0>>
        /\ HeadId(next).gen = rows[<<next, 0>>].gen
    BY <1>1, <2>1, HeadIdType
  <2>3. HeadId(next).gen <= rows[Place(HeadId(next))].gen
    <3>1. HeadId(next).gen \in Nat
      BY <2>2 DEF RowId
    <3>. QED
      BY <2>2, <3>1
  <2>4. ASSUME NEW w \in rest
        PROVE  w \in Write /\ WriteOK(rows, todo, w)
    <3>1. PICK g \in WaitersOn(HeadId(h)) \ {next} :
            w = W("reassign", HeadId(g), HeadId(next))
      OBVIOUS
    <3>2. HeadId(g) \in RowId /\ HeadId(g).host = g /\ g # next
      BY <1>1, HeadIdType, HeadSets
    <3>3. /\ w \in Write /\ w.op = "reassign" /\ w.id = HeadId(g)
          /\ w.on = HeadId(next)
      BY <2>2, <3>1, <3>2, WType DEF WriteOp
    <3>. HIDE DEF todo
    <3>. QED
      BY <2>2, <2>3, <3>2, <3>3 DEF WriteOK, PointsBack
  <2>5. ASSUME NEW w, w = W("promote", HeadId(next), NoId)
        PROVE  w \in Write /\ WriteOK(rows, todo, w)
    <3>1. w \in Write /\ w.op = "promote"
      BY <2>2, <2>5, WType DEF WriteOp
    <3>. HIDE DEF todo
    <3>. QED
      BY <3>1 DEF WriteOK
  <2>6. todo \in SUBSET Write /\ TodoOK(rows, todo)
    BY <2>4, <2>5 DEF TodoOK
  <2>. HIDE DEF todo
  <2>. QED
    BY <1>3, <2>6, MainGoLemma DEF HandleFailure, MainPc
<1>. HIDE DEF rest, next
<1>4. MainGo("scan", {}) \/ (MainGo("write", todo) /\ BlockedHeads \ {h} # {})
  BY DEF HandleFailure, NotPromoting, Promotion, Reassignments, rest, next
<1>. QED
  BY <1>2, <1>3, <1>4

LEMMA RetryScanLemma ==
  ASSUME CoordinatorOK, RetryScan
  PROVE  CoordinatorOK'
<1>. DEFINE winners == {h \in Heads : HeadRow(h).status = "completed"}
            todo(w) == {RetryOf(g, w) : g \in Losers}
<1>1. TableTypeOK /\ rows \in Table
  BY DEF CoordinatorOK, TableTypeOK
<1>2. CASE MainGo("finish", {})
  BY <1>2, MainGoLemma, PlainTodo DEF RetryScan, MainPc
<1>3. ASSUME NEW w \in winners, MainGo("finish", todo(w))
      PROVE  CoordinatorOK'
  <2>1. w \in Hosts
    BY HeadSets
  <2>2. /\ HeadId(w) \in RowId /\ HeadId(w).host = w
        /\ HeadId(w).part = 0 /\ Place(HeadId(w)) = <<w, 0>>
        /\ HeadId(w).gen = rows[<<w, 0>>].gen
    BY <1>1, <2>1, HeadIdType
  <2>3. HeadId(w).gen <= rows[Place(HeadId(w))].gen
    <3>1. HeadId(w).gen \in Nat
      BY <2>2 DEF RowId
    <3>. QED
      BY <2>2, <3>1
  <2>4. ASSUME NEW x \in todo(w)
        PROVE  x \in Write /\ WriteOK(rows, todo(w), x)
    <3>1. PICK g \in Losers : x = RetryOf(g, w)
      OBVIOUS
    <3>2. g \in Hosts /\ g # w
      BY HeadSets DEF Losers
    <3>3. HeadId(g) \in RowId /\ HeadId(g).host = g
      BY <1>1, <3>2, HeadIdType
    <3>4. CASE HeadRow(w).md5
      <4>1. x \in Write /\ x.op = "retryNow"
        BY <3>1, <3>3, <3>4, WType DEF WriteOp, RetryOf
      <4>. HIDE DEF todo
      <4>. QED
        BY <4>1 DEF WriteOK
    <3>5. CASE ~HeadRow(w).md5
      <4>1. /\ x \in Write /\ x.op = "retryWait" /\ x.id = HeadId(g)
            /\ x.on = HeadId(w)
        BY <2>2, <3>1, <3>3, <3>5, WType DEF WriteOp, RetryOf
      <4>. HIDE DEF todo
      <4>. QED
        BY <2>2, <2>3, <3>2, <3>3, <4>1 DEF WriteOK, PointsBack
    <3>. QED
      BY <3>4, <3>5
  <2>5. todo(w) \in SUBSET Write /\ TodoOK(rows, todo(w))
    BY <2>4 DEF TodoOK
  <2>. HIDE DEF todo
  <2>. QED
    BY <1>3, <2>5, MainGoLemma DEF RetryScan, MainPc
<1>4. MainGo("finish", {}) \/ \E w \in winners : MainGo("finish", todo(w))
  BY DEF RetryScan
<1>. QED
  BY <1>2, <1>3, <1>4

LEMMA MainUnblockLemma ==
  ASSUME CoordinatorOK, MainUnblock
  PROVE  CoordinatorOK'
<1>1. TableTypeOK
  BY DEF CoordinatorOK
<1>2. /\ Unblocks(main.primary) \in SUBSET Write
      /\ TodoOK(rows, Unblocks(main.primary))
  BY <1>1, UnblocksType, PlainTodo DEF Blocking
<1>. QED
  BY <1>2, MainGoLemma DEF MainUnblock, MainPc

LEMMA DisplacedLemma ==
  ASSUME CoordinatorOK, NEW id
  PROVE  /\ Displaced(id) \in SUBSET Poller
         /\ IsFiniteSet(Displaced(id))
         /\ \A p \in Displaced(id) : \A w \in p.todo : w.op = "unblock"
<1>. DEFINE kept == {q \in pollers : q.primary # id \/ ~q.registered
                                                    \/ q.pc # "timer"}
            f == [p \in kept |-> IF p.primary = id
                                 THEN [p EXCEPT !.registered = FALSE] ELSE p]
<1>1. pollers \in SUBSET Poller /\ PollersOK
  BY DEF CoordinatorOK, CoordinatorTypeOK
<1>2. IsFiniteSet(kept)
  BY <1>1, FS_Subset DEF PollersOK
<1>3. Displaced(id) = {f[p] : p \in kept}
  BY DEF Displaced
<1>4. ASSUME NEW p \in kept
      PROVE  f[p] \in Poller /\ \A w \in f[p].todo : w.op = "unblock"
  <2>1. p \in Poller /\ \A w \in p.todo : w.op = "unblock"
    BY <1>1 DEF PollersOK
  <2>2. f[p] \in Poller /\ f[p].todo = p.todo
    BY <2>1 DEF Poller
  <2>. QED
    BY <2>1, <2>2
<1>5. f = [p \in kept |-> f[p]]
  OBVIOUS
<1>. HIDE DEF f, kept
<1>6. IsFiniteSet(Displaced(id))
  BY <1>2, <1>3, <1>5, ImageFinite
<1>. QED
  BY <1>3, <1>4, <1>6

LEMMA HandleSuccessLemma ==
  ASSUME CoordinatorOK, HandleSuccess
  PROVE  CoordinatorOK'
<1>. DEFINE h == main.ev.host
<1>1. TableTypeOK /\ main \in MainState /\ UNCHANGED tableVars
  BY DEF CoordinatorOK, CoordinatorTypeOK, HandleSuccess
<1>2. CASE MainGo("scan", {}) /\ UNCHANGED pollers
  BY <1>1, <1>2, MainGoLemma, PlainTodo DEF MainPc
<1>3. CASE /\ h \in Heads
           /\ main' = [main EXCEPT !.pc = "unblock", !.primary = HeadId(h)]
           /\ UNCHANGED pollers
  <2>1. HeadId(h) \in RowId
    BY <1>1, <1>3, HeadIdType, HeadSets
  <2>2. main' \in MainState /\ main'.todo = main.todo
    BY <1>1, <1>3, <2>1 DEF MainState, MainPc
  <2>. QED
    BY <1>1, <1>3, <2>2
    DEF CoordinatorOK, CoordinatorTypeOK, TableTypeOK, tableVars, PollersOK
<1>4. CASE /\ h \in Heads
           /\ MainGo("scan", {})
           /\ pollers' = Displaced(HeadId(h)) \union {NewPoller(HeadId(h))}
  <2>. DEFINE id == HeadId(h)
  <2>1. id \in RowId
    BY <1>1, <1>4, HeadIdType, HeadSets
  <2>2. IsFiniteSet(pollers)
    BY DEF CoordinatorOK, PollersOK
  <2>. HIDE DEF id
  <2>3. NewPoller(id) \in Poller /\ NewPoller(id).todo = {}
    BY <2>1, <2>2, NewPollerType
  <2>4. /\ Displaced(id) \in SUBSET Poller /\ IsFiniteSet(Displaced(id))
        /\ \A p \in Displaced(id) : \A w \in p.todo : w.op = "unblock"
    BY DisplacedLemma
  <2>5. pollers' = Displaced(id) \union {NewPoller(id)}
    BY <1>4 DEF id
  <2>6. IsFiniteSet(pollers')
    BY <2>4, <2>5, FS_AddElement
  <2>7. pollers' \in SUBSET Poller /\ PollersOK'
    BY <2>3, <2>4, <2>5, <2>6 DEF PollersOK
  <2>8. main' \in MainState /\ main'.todo = {}
    BY <1>1, <1>4 DEF MainGo, MainState, MainPc
  <2>9. TodoOK(rows', main'.todo)
    BY <2>8 DEF TodoOK
  <2>. QED
    BY <1>1, <2>7, <2>8, <2>9
    DEF CoordinatorOK, CoordinatorTypeOK, TableTypeOK, tableVars
<1>. QED
  BY <1>2, <1>3, <1>4 DEF HandleSuccess

\* A write that got lost takes no promise with it.
LEMMA LostWrite ==
  ASSUME NEW rs, NEW todo, NEW w \in todo, TodoOK(rs, todo),
         w.op = "queuePending" => ~\E v \in todo : v.op = "queueBlocked"
  PROVE  TodoOK(rs, todo \ {w})
<1>1. SUFFICES ASSUME NEW x \in todo \ {w} PROVE WriteOK(rs, todo \ {w}, x)
  BY DEF TodoOK
<1>2. WriteOK(rs, todo, x)
  BY DEF TodoOK
<1>3. CASE x.op = "queueBlocked"
  <2>1. w.op # "queuePending"
    BY <1>3
  <2>2. Promised(rs, todo, x.on) => Promised(rs, todo \ {w}, x.on)
    BY <2>1 DEF Promised
  <2>. QED
    BY <1>2, <1>3, <2>2 DEF WriteOK
<1>4. CASE x.op # "queueBlocked"
  BY <1>2, <1>4 DEF WriteOK
<1>. QED
  BY <1>3, <1>4

LEMMA MainWriteLemma ==
  ASSUME CoordinatorOK, MainWrite
  PROVE  CoordinatorOK'
<1>. DEFINE todo == main.todo
            Blocked == \E v \in todo : v.op = "queueBlocked"
<1>1. /\ TableTypeOK /\ rows \in Table /\ main \in MainState
      /\ todo \in SUBSET Write /\ WaitsOK(rows) /\ TodoOK(rows, todo)
  BY DEF CoordinatorOK, CoordinatorTypeOK, TableTypeOK, MainState
<1>2. PICK w \in todo :
        /\ First(todo) # {} => w \in First(todo)
        /\ \/ rows' = Apply(rows, w)
           \/ rows' = rows /\ (w.op = "queuePending" => ~Blocked)
        /\ main' = [main EXCEPT !.todo = @ \ {w}]
  BY DEF MainWrite, Commits, PrimaryInsert
<1>3. main' \in MainState /\ main'.todo = todo \ {w}
  BY <1>1, <1>2 DEF MainState
<1>. HIDE DEF todo
<1>4. /\ rows' \in Table /\ WaitsOK(rows')
      /\ TodoOK(rows', todo \ {w})
  <2>1. CASE rows' = Apply(rows, w)
    BY <1>1, <1>2, <2>1, WriteStep
  <2>2. CASE rows' = rows /\ (w.op = "queuePending" => ~Blocked)
    <3>1. TodoOK(rows, todo \ {w})
      BY <1>1, <2>2, LostWrite DEF Blocked
    <3>. QED
      BY <1>1, <2>2, <3>1
  <2>. QED
    BY <1>2, <2>1, <2>2
<1>. QED
  BY <1>1, <1>3, <1>4
  DEF CoordinatorOK, CoordinatorTypeOK, TableTypeOK, PollersOK, MainWrite

LEMMA MainResets ==
  ASSUME CoordinatorOK, main' = MainIdle, UNCHANGED <<tableVars, pollers>>
  PROVE  CoordinatorOK'
<1>1. main' \in MainState /\ main'.todo = {}
  BY DEF MainIdle, MainState, MainPc
<1>2. TodoOK(rows', main'.todo)
  BY <1>1 DEF TodoOK
<1>. QED
  BY <1>1, <1>2
  DEF CoordinatorOK, CoordinatorTypeOK, TableTypeOK, tableVars, PollersOK

LEMMA TakeEventLemma ==
  ASSUME CoordinatorOK, TakeEvent
  PROVE  CoordinatorOK'
<1>1. main \in MainState /\ events \in Seq(Event) /\ events # <<>>
  BY DEF CoordinatorOK, CoordinatorTypeOK, TableTypeOK, TakeEvent
<1>2. events[1] \in Event /\ events' \in Seq(Event)
  BY <1>1 DEF TakeEvent
<1>3. main' \in MainState /\ main'.todo = main.todo
  <2>1. CASE main' = main
    BY <1>1, <2>1
  <2>2. CASE main' = [main EXCEPT !.pc = "react", !.ev = events[1]]
    BY <1>1, <1>2, <2>2 DEF MainState, MainPc
  <2>. QED
    BY <2>1, <2>2 DEF TakeEvent
<1>. QED
  BY <1>2, <1>3
  DEF CoordinatorOK, CoordinatorTypeOK, TableTypeOK, PollersOK, TakeEvent

\* Whoever else changes the table leaves the coordinator's part alone.
LEMMA OtherWrite ==
  ASSUME CoordinatorOK, TableTypeOK', Harmless(rows, rows'),
         UNCHANGED <<main, pollers>>
  PROVE  CoordinatorOK'
<1>1. rows \in Table /\ rows' \in Table
  BY DEF CoordinatorOK, TableTypeOK
<1>2. WaitsOK(rows')
  BY <1>1, WaitsOKHarmless DEF CoordinatorOK
<1>3. TodoOK(rows', main.todo)
  BY <1>1, TodoOKGrows DEF CoordinatorOK, Harmless, Grows
<1>. QED
  BY <1>2, <1>3 DEF CoordinatorOK, CoordinatorTypeOK, PollersOK

LEMMA ReuploadLemma ==
  ASSUME CoordinatorOK, NEW h \in Hosts, Reupload(h)
  PROVE  CoordinatorOK'
<1>1. rows \in Table
  BY DEF CoordinatorOK, TableTypeOK
<1>2. rows' \in Table /\ Harmless(rows, rows')
  BY <1>1, PartZero, AddRowLemma DEF Reupload, Status
<1>. QED
  BY <1>2, OtherWrite DEF Reupload, CoordinatorOK, TableTypeOK

LEMMA MainLemma ==
  ASSUME CoordinatorOK,
         \/ MainStep \/ HandlerFails \/ QueuePrimaryFails
         \/ \E S \in TriggerSets : QueueGallery(S)
         \/ \E h \in Hosts : Reupload(h)
  PROVE  CoordinatorOK'
<1>1. CASE TakeEvent
  BY <1>1, TakeEventLemma
<1>2. CASE HandleSuccess
  BY <1>2, HandleSuccessLemma
<1>3. CASE MainUnblock
  BY <1>3, MainUnblockLemma
<1>4. CASE HandleFailure
  BY <1>4, HandleFailureLemma
<1>5. CASE RetryScan
  BY <1>5, RetryScanLemma
<1>6. CASE MainWrite
  BY <1>6, MainWriteLemma
<1>7. CASE WritesDone
  <2>1. CASE MainGo("scan", {})
    BY <1>7, <2>1, MainGoLemma, PlainTodo DEF WritesDone, MainPc
  <2>2. CASE main' = MainIdle
    BY <1>7, <2>2, MainResets DEF WritesDone
  <2>. QED
    BY <1>7, <2>1, <2>2 DEF WritesDone
<1>8. CASE HandlerFails
  BY <1>8, MainResets DEF HandlerFails
<1>9. CASE QueuePrimaryFails
  BY <1>9, QueuePrimaryFailsLemma
<1>10. CASE \E S \in TriggerSets : QueueGallery(S)
  <2>1. PICK S \in TriggerSets : QueueGallery(S)
    BY <1>10
  <2>2. S \in SUBSET Hosts /\ S # {}
    BY TriggerAssumption
  <2>. QED
    BY <2>1, <2>2, QueueGalleryLemma
<1>11. CASE \E h \in Hosts : Reupload(h)
  BY <1>11, ReuploadLemma
<1>. QED
  BY <1>1, <1>2, <1>3, <1>4, <1>5, <1>6, <1>7, <1>8, <1>9, <1>10, <1>11
  DEF MainStep

LEMMA PollerTypes ==
  ASSUME CoordinatorOK, NEW p \in pollers
  PROVE  /\ p \in Poller /\ p.primary \in RowId /\ p.todo \in SUBSET Write
         /\ \A w \in p.todo : w.op = "unblock"
  BY DEF CoordinatorOK, CoordinatorTypeOK, PollersOK, Poller

LEMMA ReplaceLemma ==
  ASSUME CoordinatorOK, NEW p \in pollers, NEW q \in Poller, Replace(p, q),
         \A w \in q.todo : w.op = "unblock"
  PROVE  pollers' \in SUBSET Poller /\ PollersOK'
<1>1. pollers \in SUBSET Poller /\ PollersOK
  BY DEF CoordinatorOK, CoordinatorTypeOK
<1>2. pollers' = (pollers \ {p}) \union {q}
  BY DEF Replace
<1>3. IsFiniteSet(pollers')
  BY <1>1, <1>2, FS_RemoveElement, FS_AddElement DEF PollersOK
<1>. QED
  BY <1>1, <1>2, <1>3 DEF PollersOK

LEMMA DeregisteredLemma ==
  ASSUME CoordinatorOK, NEW p \in pollers, pollers' = Deregistered(p)
  PROVE  pollers' \in SUBSET Poller /\ PollersOK'
<1>. DEFINE kept == pollers \ {p}
            f == [q \in kept |-> IF q.primary = p.primary
                                 THEN [q EXCEPT !.registered = FALSE] ELSE q]
<1>1. pollers \in SUBSET Poller /\ PollersOK
  BY DEF CoordinatorOK, CoordinatorTypeOK
<1>2. IsFiniteSet(kept)
  BY <1>1, FS_RemoveElement DEF PollersOK
<1>3. pollers' = {f[q] : q \in kept}
  BY DEF Deregistered
<1>4. ASSUME NEW q \in kept
      PROVE  f[q] \in Poller /\ \A w \in f[q].todo : w.op = "unblock"
  <2>1. q \in Poller /\ \A w \in q.todo : w.op = "unblock"
    BY <1>1 DEF PollersOK
  <2>2. f[q] \in Poller /\ f[q].todo = q.todo
    BY <2>1 DEF Poller
  <2>. QED
    BY <2>1, <2>2
<1>5. f = [q \in kept |-> f[q]]
  OBVIOUS
<1>. HIDE DEF f, kept
<1>6. IsFiniteSet(pollers')
  BY <1>2, <1>3, <1>5, ImageFinite
<1>. QED
  BY <1>3, <1>4, <1>6 DEF PollersOK

LEMMA PollerLemma ==
  ASSUME CoordinatorOK, NEW p \in pollers,
         \/ Fire(p) \/ PollMd5(p) \/ PollerUnblock(p) \/ PollerWrite(p)
         \/ PollerEnds(p) \/ PollerFails(p)
  PROVE  CoordinatorOK'
<1>1. /\ TableTypeOK /\ rows \in Table
      /\ p \in Poller /\ p.primary \in RowId /\ p.todo \in SUBSET Write
      /\ \A w \in p.todo : w.op = "unblock"
  BY PollerTypes DEF CoordinatorOK, TableTypeOK
<1>2. ASSUME UNCHANGED <<tableVars, main>>, pollers' \in SUBSET Poller, PollersOK'
      PROVE  CoordinatorOK'
  BY <1>2 DEF CoordinatorOK, CoordinatorTypeOK, TableTypeOK, tableVars
<1>3. ASSUME rows' \in Table, Harmless(rows, rows'),
             UNCHANGED <<events, dedup, main>>,
             pollers' \in SUBSET Poller, PollersOK'
      PROVE  CoordinatorOK'
  <2>1. WaitsOK(rows')
    BY <1>1, <1>3, WaitsOKHarmless DEF CoordinatorOK
  <2>2. TodoOK(rows', main.todo)
    BY <1>1, <1>3, TodoOKGrows DEF CoordinatorOK, Harmless, Grows
  <2>. QED
    BY <1>3, <2>1, <2>2 DEF CoordinatorOK, CoordinatorTypeOK, TableTypeOK
<1>4. CASE Fire(p)
  <2>. DEFINE q == [p EXCEPT !.pc = "poll"]
  <2>1. q \in Poller /\ q.todo = p.todo /\ Replace(p, q)
    BY <1>1, <1>4 DEF Fire, Poller, PollerPc
  <2>. HIDE DEF q
  <2>. QED
    BY <1>1, <1>2, <1>4, <2>1, ReplaceLemma DEF Fire
<1>5. CASE PollMd5(p)
  <2>. DEFINE q   == [p EXCEPT !.pc = "unblock"]
              id  == p.primary
              row == [rows[Place(id)] EXCEPT !.md5 = TRUE]
  <2>1. q \in Poller /\ q.todo = p.todo /\ Replace(p, q)
    BY <1>1, <1>5 DEF PollMd5, Poller, PollerPc
  <2>2. rows[Place(id)] \in Row
    BY <1>1, PlaceType DEF Table
  <2>3. /\ row \in Row /\ row.gen = rows[Place(id)].gen
        /\ row.status = rows[Place(id)].status
        /\ row.blockedBy = rows[Place(id)].blockedBy
    BY <2>2 DEF Row
  <2>4. rows' = UpdateRow(rows, id, row) \/ rows' = rows
    BY <1>5 DEF PollMd5
  <2>5. id \in RowId \union {NoId}
    BY <1>1
  <2>. HIDE DEF q, id, row
  <2>6. /\ UpdateRow(rows, id, row) \in Table
        /\ Harmless(rows, UpdateRow(rows, id, row))
    BY <1>1, <2>3, <2>5, UpdateRowLemma
  <2>7. rows' \in Table /\ Harmless(rows, rows')
    BY <1>1, <2>4, <2>6, HarmlessSame
  <2>8. pollers' \in SUBSET Poller /\ PollersOK'
    BY <1>1, <2>1, ReplaceLemma
  <2>. QED
    BY <1>3, <1>5, <2>7, <2>8 DEF PollMd5
<1>6. CASE PollerUnblock(p)
  <2>. DEFINE todo == Unblocks(p.primary)
              q    == [p EXCEPT !.pc = "write", !.todo = todo]
  <2>1. todo \in SUBSET Write /\ \A w \in todo : w.op = "unblock"
    BY <1>1, UnblocksType
  <2>2. Replace(p, q)
    BY <1>6 DEF PollerUnblock
  <2>. HIDE DEF todo
  <2>3. q \in Poller /\ q.todo = todo
    BY <1>1, <2>1 DEF Poller, PollerPc
  <2>. HIDE DEF q
  <2>. QED
    BY <1>2, <1>6, <2>1, <2>2, <2>3, ReplaceLemma DEF PollerUnblock
<1>7. CASE PollerWrite(p)
  <2>1. PICK w \in p.todo :
          /\ Commits(Apply(rows, w))
          /\ Replace(p, [p EXCEPT !.todo = @ \ {w}])
    BY <1>7 DEF PollerWrite
  <2>. DEFINE q == [p EXCEPT !.todo = @ \ {w}]
  <2>2. q \in Poller /\ q.todo \subseteq p.todo
    BY <1>1 DEF Poller
  <2>. HIDE DEF q
  <2>3. w \in Write /\ w.op \notin Blocking
    BY <1>1 DEF Blocking
  <2>4. /\ Apply(rows, w) \in Table
        /\ Harmless(rows, Apply(rows, w))
    BY <1>1, <2>3, ApplyLemma DEF Harmless
  <2>5. pollers' \in SUBSET Poller /\ PollersOK'
    BY <1>1, <2>1, <2>2, ReplaceLemma DEF q
  <2>. QED
    BY <1>1, <1>3, <1>7, <2>1, <2>4, <2>5, CommitsLemma DEF PollerWrite
<1>8. CASE PollerEnds(p)
  BY <1>2, <1>8, DeregisteredLemma DEF PollerEnds
<1>9. CASE PollerFails(p)
  BY <1>2, <1>9, DeregisteredLemma DEF PollerFails
<1>. QED
  BY <1>4, <1>5, <1>6, <1>7, <1>8, <1>9

-----------------------------------------------------------------------------
(* The manager. *)

\* A worker that only had its flag or its setting changed.
Flagged(w, v) == /\ v \in WorkerState /\ v.pc = w.pc
                 /\ v.part = w.part /\ v.count = w.count

LEMMA FlagLemma ==
  ASSUME NEW w \in WorkerState, NEW stop, NEW enabled,
         stop \in BOOLEAN, enabled \in BOOLEAN
  PROVE  /\ Flagged(w, [w EXCEPT !.stop = stop])
         /\ Flagged(w, [w EXCEPT !.enabled = enabled])
         /\ Flagged(w, [w EXCEPT !.enabled = enabled, !.stop = stop])
  BY DEF Flagged, WorkerState

LEMMA FlaggedThreads ==
  ASSUME WorkerTypeOK, SendOK, NEW h, NEW v, worker' = [worker EXCEPT ![h] = v],
         h \in Hosts => Flagged(worker[h], v)
  PROVE  WorkerTypeOK' /\ SendOK'
<1>1. \A g \in Hosts : Flagged(worker[g], worker'[g])
  BY DEF WorkerTypeOK, Flagged
<1>2. worker' \in [Hosts -> WorkerState]
  BY <1>1 DEF WorkerTypeOK, Flagged
<1>. QED
  BY <1>1, <1>2 DEF WorkerTypeOK, SendOK, At, Flagged

LEMMA HostInRange == Hosts \subseteq 0 .. NumHosts
  BY SizeAssumption DEF Hosts

LEMMA RegisterLemma ==
  ASSUME ManagerTypeOK, NEW h \in Hosts, NEW r \in Registration, Register(h, r)
  PROVE  registry' \in [Hosts -> Registration]
  BY DEF ManagerTypeOK, Register

LEMMA ManagerIdleType == ManagerIdle \in ManagerState
  BY SizeAssumption DEF ManagerIdle, ManagerState

LEMMA TakeSpinupLemma ==
  ASSUME CoordinatorOK, ThreadsOK, TakeSpinup, UNCHANGED <<main, pollers>>
  PROVE  CoordinatorOK' /\ ThreadsOK'
<1>1. events \in Seq(Event) /\ events # <<>>
  BY DEF CoordinatorOK, TableTypeOK, TakeSpinup
<1>2. events[1] \in Event /\ events' \in Seq(Event)
  BY <1>1 DEF TakeSpinup
<1>. DEFINE h == events[1].host
            on == worker[h].enabled \/ (events[1].ok /\ registry[h] = "pending")
            v == [worker[h] EXCEPT !.enabled = on]
<1>3. h \in Hosts
  BY <1>2 DEF Event
<1>4. worker[h] \in WorkerState /\ on \in BOOLEAN
  BY <1>2, <1>3 DEF ThreadsOK, WorkerTypeOK, WorkerState, Event
<1>5. worker' = [worker EXCEPT ![h] = v]
  BY DEF TakeSpinup
<1>6. Flagged(worker[h], v)
  <2>. HIDE DEF on
  <2>. QED
    BY <1>4, FlagLemma
<1>7. WorkerTypeOK' /\ SendOK'
  <2>. HIDE DEF v, h
  <2>. QED
    BY <1>5, <1>6, FlaggedThreads DEF ThreadsOK
<1>8. ManagerTypeOK'
  <2>1. Register(h, "workers") \/ Register(h, "none")
    BY DEF TakeSpinup
  <2>2. registry' \in [Hosts -> Registration]
    BY <1>3, <2>1, RegisterLemma DEF ThreadsOK, Registration
  <2>. QED
    BY <2>2 DEF TakeSpinup, ThreadsOK, ManagerTypeOK
<1>9. CoordinatorOK'
  BY <1>2 DEF TakeSpinup, CoordinatorOK, CoordinatorTypeOK, TableTypeOK, PollersOK
<1>. QED
  BY <1>7, <1>8, <1>9 DEF ThreadsOK

LEMMA DisableLemma ==
  ASSUME ThreadsOK, NEW h \in Hosts, Disable(h)
  PROVE  ThreadsOK' /\ UNCHANGED tableVars
<1>1. PICK saved \in BOOLEAN :
        worker' = [worker EXCEPT ![h].enabled = @ /\ ~saved,
                                 ![h].stop = @ \/ h \in Registered]
  BY DEF Disable
<1>. DEFINE on == worker[h].enabled /\ ~saved
            stop == worker[h].stop \/ h \in Registered
            v == [worker[h] EXCEPT !.enabled = on, !.stop = stop]
<1>2. worker[h] \in WorkerState /\ on \in BOOLEAN /\ stop \in BOOLEAN
  BY DEF ThreadsOK, WorkerTypeOK, WorkerState
<1>3. worker' = [worker EXCEPT ![h] = v]
  BY <1>1 DEF ThreadsOK, WorkerTypeOK
<1>4. Flagged(worker[h], v)
  <2>. HIDE DEF on, stop
  <2>. QED
    BY <1>2, FlagLemma
<1>5. WorkerTypeOK' /\ SendOK'
  <2>. HIDE DEF v
  <2>. QED
    BY <1>3, <1>4, FlaggedThreads DEF ThreadsOK
<1>6. ManagerTypeOK'
  <2>1. CASE h \in Registered
    <3>1. /\ Register(h, "none")
          /\ manager' = [manager EXCEPT !.mode = "disabling", !.host = h]
      BY <2>1 DEF Disable
    <3>. QED
      BY <3>1, RegisterLemma, HostInRange
      DEF ThreadsOK, ManagerTypeOK, ManagerState, Registration
  <2>2. CASE h \notin Registered
    BY <2>2 DEF Disable, managerVars, ThreadsOK, ManagerTypeOK
  <2>. QED
    BY <2>1, <2>2
<1>. QED
  BY <1>5, <1>6 DEF ThreadsOK, Disable

LEMMA EnableLemma ==
  ASSUME ThreadsOK, NEW h \in Hosts, Enable(h)
  PROVE  ThreadsOK' /\ UNCHANGED tableVars
<1>1. PICK saved \in BOOLEAN : Spinning(h, worker[h].enabled \/ saved)
  BY DEF Enable
<1>. DEFINE on == worker[h].enabled \/ saved
            w == [Fresh EXCEPT !.pc = "spinup", !.enabled = on]
<1>2. on \in BOOLEAN
  BY DEF ThreadsOK, WorkerTypeOK, WorkerState
<1>3. w \in WorkerState /\ w.pc # "send"
  <2>. HIDE DEF on
  <2>1. Fresh \in WorkerState
    BY SizeAssumption DEF Fresh, WorkerState, WorkerPc
  <2>. QED
    BY <1>2, <2>1 DEF WorkerState, WorkerPc
<1>4. worker' = [worker EXCEPT ![h] = w]
  BY <1>1 DEF Spinning
<1>5. WorkerTypeOK' /\ SendOK'
  <2>. HIDE DEF w
  <2>. QED
    BY <1>3, <1>4 DEF ThreadsOK, WorkerTypeOK, SendOK, At
<1>6. ManagerTypeOK'
  BY RegisterLemma DEF Enable, ThreadsOK, ManagerTypeOK, Registration
<1>. QED
  BY <1>5, <1>6 DEF ThreadsOK, Enable

LEMMA ManagerLemma ==
  ASSUME ThreadsOK, Disabled \/ CloseNext \/ CloseAll
  PROVE  ThreadsOK' /\ UNCHANGED tableVars
<1>1. ASSUME NEW h, NEW v, worker' = [worker EXCEPT ![h] = v],
             h \in Hosts => Flagged(worker[h], v)
      PROVE  WorkerTypeOK' /\ SendOK'
  BY <1>1, FlaggedThreads DEF ThreadsOK
<1>2. \A h \in Hosts : worker[h] \in WorkerState
  BY DEF ThreadsOK, WorkerTypeOK
<1>3. CASE Disabled
  <2>. DEFINE h == manager.host
              v == [worker[h] EXCEPT !.enabled = FALSE]
  <2>1. h \in Hosts => Flagged(worker[h], v)
    BY <1>2, FlagLemma
  <2>2. worker' = [worker EXCEPT ![h] = v]
    BY <1>3 DEF Disabled
  <2>3. WorkerTypeOK' /\ SendOK'
    <3>. HIDE DEF h, v
    <3>. QED
      BY <1>1, <2>1, <2>2
  <2>. QED
    BY <1>3, <2>3, ManagerIdleType DEF Disabled, ThreadsOK, ManagerTypeOK
<1>4. CASE CloseNext
  <2>1. PICK h \in Registered :
          /\ worker' = [worker EXCEPT ![h].stop = TRUE]
          /\ manager' = [manager EXCEPT !.host = h]
    BY <1>4 DEF CloseNext
  <2>2. h \in Hosts
    BY <2>1 DEF Registered
  <2>. DEFINE v == [worker[h] EXCEPT !.stop = TRUE]
  <2>3. Flagged(worker[h], v) /\ worker' = [worker EXCEPT ![h] = v]
    BY <1>2, <2>1, <2>2, FlagLemma
  <2>4. WorkerTypeOK' /\ SendOK'
    <3>. HIDE DEF v
    <3>. QED
      BY <1>1, <2>3
  <2>. QED
    BY <1>4, <2>1, <2>2, <2>4, HostInRange
    DEF CloseNext, ThreadsOK, ManagerTypeOK, ManagerState
<1>5. CASE CloseAll
  <2>1. Registered \in SUBSET Hosts
    BY DEF Registered
  <2>2. ManagerTypeOK'
    BY <1>5, <2>1 DEF CloseAll, ThreadsOK, ManagerTypeOK, ManagerState
  <2>. QED
    BY <1>5, <2>2 DEF CloseAll, ThreadsOK, WorkerTypeOK, SendOK, At
<1>. QED
  BY <1>3, <1>4, <1>5 DEF Disabled, CloseNext, CloseAll

LEMMA LaunchLemma ==
  ASSUME ThreadsOK, Launch
  PROVE  ThreadsOK'
<1>1. Fresh \in WorkerState
  BY SizeAssumption DEF Fresh, WorkerState, WorkerPc
<1>2. ASSUME NEW h \in Hosts
      PROVE  /\ worker'[h] \in WorkerState /\ worker'[h].pc # "send"
             /\ registry'[h] \in Registration
  <2>. DEFINE pc == IF worker[h].enabled THEN "spinup" ELSE "stopped"
              on == worker[h].enabled
              w == [Fresh EXCEPT !.pc = pc, !.enabled = on]
  <2>1. pc \in WorkerPc \ {"send"} /\ on \in BOOLEAN
    BY DEF ThreadsOK, WorkerTypeOK, WorkerState, WorkerPc
  <2>2. worker'[h] = w
    BY DEF Launch
  <2>3. w \in WorkerState /\ w.pc # "send"
    <3>. HIDE DEF pc, on
    <3>. QED
      BY <1>1, <2>1 DEF WorkerState
  <2>. QED
    BY <2>2, <2>3 DEF Launch, Registration
<1>3. DOMAIN worker' = Hosts /\ worker' = [h \in Hosts |-> worker'[h]]
  BY DEF Launch
<1>4. DOMAIN registry' = Hosts /\ registry' = [h \in Hosts |-> registry'[h]]
  BY DEF Launch
<1>5. WorkerTypeOK' /\ SendOK'
  BY <1>2, <1>3 DEF WorkerTypeOK, SendOK, At
<1>6. ManagerTypeOK'
  BY <1>2, <1>4, ManagerIdleType DEF Launch, ManagerTypeOK
<1>. QED
  BY <1>5, <1>6 DEF ThreadsOK

-----------------------------------------------------------------------------
(* The whole system. *)

LEMMA InitIInv == Init => IInv
<1>1. SUFFICES ASSUME Init PROVE IInv
  OBVIOUS
<1>2. ASSUME NEW k \in Hosts \X Parts
      PROVE  rows[k] \in Row /\ rows[k].status = "absent"
  BY <1>1 DEF Init, TableInit, NewRow, Row, Status
<1>3. rows \in Table
  BY <1>1, <1>2 DEF Init, TableInit, Table
<1>4. WaitsOK(rows)
  BY <1>2, PartZero DEF WaitsOK
<1>5. TableTypeOK
  BY <1>1, <1>3 DEF TableTypeOK, Init, TableInit
<1>6. /\ main \in MainState /\ main.todo = {} /\ pollers = {}
  BY <1>1 DEF Init, CoordinatorInit, MainIdle, MainState, MainPc
<1>7. TodoOK(rows, main.todo) /\ PollersOK /\ CoordinatorTypeOK
  BY <1>6, FS_EmptySet DEF TodoOK, PollersOK, CoordinatorTypeOK
<1>8. Fresh \in WorkerState /\ Fresh.pc # "send"
  BY SizeAssumption DEF Fresh, WorkerState, WorkerPc
<1>9. WorkerTypeOK /\ SendOK
  BY <1>1, <1>8 DEF Init, WorkerInit, WorkerTypeOK, SendOK, At
<1>10. ManagerTypeOK
  BY <1>1, ManagerIdleType DEF Init, ManagerInit, ManagerTypeOK, Registration
<1>. QED
  BY <1>1, <1>4, <1>5, <1>7, <1>9, <1>10 DEF ThreadsOK, Init, TableInit, IInv, CoordinatorOK

LEMMA ChargeType == ASSUME faults \in Nat, NEW kind, Charge(kind) PROVE faults' \in Nat
  BY DEF Charge

LEMMA FaultsCounted ==
  ASSUME faults \in Nat,
         \/ \E h \in Hosts : WorkerStep(h)
         \/ MainStep
         \/ PollerStep
  PROVE  faults' \in Nat
<1>1. ASSUME NEW new, Commits(new) PROVE faults' \in Nat
  BY <1>1, ChargeType DEF Commits
<1>2. ASSUME NEW h \in Hosts, WorkerStep(h) PROVE faults' \in Nat
  BY <1>1, <1>2
  DEF WorkerStep, FailFast, CommitPart, CommitHead, GiveUp, StartUpload,
      SendPart, HandleError
<1>3. CASE MainStep
  BY <1>1, <1>3 DEF MainStep, MainWrite
<1>4. CASE PollerStep
  BY <1>1, <1>4 DEF PollerStep, PollerWrite
<1>. QED
  BY <1>2, <1>3, <1>4

\* A new process starts with no loop in progress.
LEMMA RelaunchLemma ==
  ASSUME IInv, Relaunch
  PROVE  CoordinatorOK' /\ ThreadsOK'
<1>1. CoordinatorOK /\ TableTypeOK /\ ThreadsOK
  BY DEF IInv, CoordinatorOK
<1>2. TableTypeOK'
  BY <1>1 DEF Relaunch, TableTypeOK
<1>3. main' \in MainState /\ main'.todo = {} /\ pollers' = {}
  BY DEF Relaunch, MainIdle, MainState, MainPc
<1>4. TodoOK(rows', main'.todo) /\ PollersOK' /\ CoordinatorTypeOK'
  BY <1>3, FS_EmptySet DEF TodoOK, PollersOK, CoordinatorTypeOK
<1>5. ThreadsOK'
  BY <1>1, LaunchLemma DEF Relaunch
<1>. QED
  BY <1>1, <1>2, <1>4, <1>5 DEF CoordinatorOK, Relaunch

LEMMA ShutdownLemma ==
  ASSUME IInv, Shutdown
  PROVE  CoordinatorOK' /\ ThreadsOK'
<1>1. /\ CoordinatorOK /\ TableTypeOK /\ ThreadsOK
      /\ pollers \in SUBSET Poller /\ PollersOK
  BY DEF IInv, CoordinatorOK, CoordinatorTypeOK
<1>2. ThreadsOK' /\ UNCHANGED tableVars
  BY <1>1, ManagerLemma DEF Shutdown
<1>3. pollers' \subseteq pollers /\ UNCHANGED main
  BY DEF Shutdown
<1>4. IsFiniteSet(pollers')
  BY <1>1, <1>3, FS_Subset DEF PollersOK
<1>5. PollersOK'
  BY <1>1, <1>3, <1>4 DEF PollersOK
<1>. QED
  BY <1>1, <1>2, <1>3, <1>5
  DEF CoordinatorOK, CoordinatorTypeOK, TableTypeOK, tableVars

LEMMA NextIInv == IInv /\ [Next]_vars => IInv'
<1>1. SUFFICES ASSUME IInv, [Next]_vars PROVE IInv'
  OBVIOUS
<1>2. /\ CoordinatorOK /\ TableTypeOK /\ ThreadsOK
      /\ WorkerTypeOK /\ SendOK /\ ManagerTypeOK
      /\ faults \in Nat
  BY <1>1 DEF IInv, CoordinatorOK, ThreadsOK
\* A step of a worker.
<1>3. ASSUME NEW h \in Hosts, UNCHANGED <<managerVars, main, pollers>>,
             faults' \in Nat,
             WorkerStep(h) \/ WorkerDbFails(h) \/ Unrecorded(h) \/ SpinUp(h)
      PROVE  IInv'
  <2>1. TableTypeOK' /\ WorkerTypeOK' /\ SendOK' /\ Harmless(rows, rows')
    BY <1>2, <1>3, WorkerStepLemma
  <2>2. CoordinatorOK'
    BY <1>2, <1>3, <2>1, OtherWrite
  <2>. QED
    BY <1>2, <1>3, <2>1, <2>2
    DEF IInv, ThreadsOK, ManagerTypeOK, managerVars
\* A step of the main thread or of a poller.
<1>4. ASSUME CoordinatorOK', UNCHANGED <<worker, managerVars>>, faults' \in Nat
      PROVE  IInv'
  BY <1>2, <1>4
  DEF IInv, ThreadsOK, WorkerTypeOK, SendOK, At, ManagerTypeOK, managerVars
\* A step of the manager.
<1>5. ASSUME ThreadsOK', UNCHANGED tableVars, UNCHANGED <<main, pollers>>,
             faults' \in Nat
      PROVE  IInv'
  BY <1>2, <1>5
  DEF IInv, CoordinatorOK, CoordinatorTypeOK, TableTypeOK, tableVars, PollersOK
<1>6. ASSUME NEW h \in Hosts, Worker(h) PROVE IInv'
  BY <1>2, <1>3, <1>6, FaultsCounted DEF Worker
<1>7. CASE Main
  <2>1. CASE MainStep /\ UNCHANGED <<worker, managerVars>>
    BY <1>2, <1>4, <2>1, MainLemma, FaultsCounted
  <2>2. CASE TakeSpinup /\ UNCHANGED <<main, pollers, faults>>
    BY <1>2, <2>2, TakeSpinupLemma DEF IInv
  <2>. QED
    BY <1>7, <2>1, <2>2 DEF Main
<1>8. CASE Md5Poller
  <2>1. CoordinatorOK'
    BY <1>2, <1>8, PollerLemma DEF Md5Poller, PollerStep
  <2>. QED
    BY <1>2, <1>4, <1>8, <2>1, FaultsCounted DEF Md5Poller
<1>9. CASE Manager
  BY <1>2, <1>5, <1>9, ManagerLemma DEF Manager
<1>10. CASE FirstTrigger
  BY <1>2, <1>4, <1>10, MainLemma DEF FirstTrigger
<1>11. CASE Retrigger
  BY <1>2, <1>4, <1>11, MainLemma, ChargeType DEF Retrigger
<1>12. CASE UserReupload
  BY <1>2, <1>4, <1>12, MainLemma, ChargeType DEF UserReupload
<1>13. CASE InsertFails
  BY <1>2, <1>4, <1>13, MainLemma, ChargeType DEF InsertFails
<1>14. CASE WorkerFails
  BY <1>2, <1>3, <1>14, ChargeType DEF WorkerFails
<1>24. CASE BookkeepingFails
  BY <1>2, <1>3, <1>24, ChargeType DEF BookkeepingFails
<1>15. CASE SettledHandlerFails
  BY <1>2, <1>4, <1>15, MainLemma, ChargeType DEF SettledHandlerFails
<1>16. CASE Md5PollerFails
  BY <1>2, <1>4, <1>16, PollerLemma, ChargeType DEF Md5PollerFails
<1>17. CASE DisableHost
  BY <1>2, <1>5, <1>17, DisableLemma, ChargeType DEF DisableHost
<1>18. CASE EnableHost
  BY <1>2, <1>5, <1>18, EnableLemma DEF EnableHost
<1>19. CASE ToggleDedup
  <2>1. CoordinatorOK'
    BY <1>2, <1>19
    DEF ToggleDedup, CoordinatorOK, CoordinatorTypeOK, TableTypeOK, PollersOK
  <2>. QED
    BY <1>2, <1>4, <1>19, <2>1, ChargeType DEF ToggleDedup, managerVars
<1>20. CASE Crash
  BY <1>1, <1>2, <1>20, RelaunchLemma, ChargeType DEF Crash, IInv
<1>21. CASE Shutdown
  BY <1>1, <1>2, <1>21, ShutdownLemma, ChargeType DEF Shutdown, IInv
<1>22. CASE Exit
  BY <1>1, <1>2, <1>22, RelaunchLemma DEF Exit, IInv
<1>23. CASE UNCHANGED vars
  BY <1>2, <1>23
  DEF vars, IInv, CoordinatorOK, CoordinatorTypeOK, TableTypeOK, managerVars,
      PollersOK, ThreadsOK, WorkerTypeOK, SendOK, ManagerTypeOK, At
<1>. QED
  BY <1>1, <1>6, <1>7, <1>8, <1>9, <1>10, <1>11, <1>12, <1>13, <1>14, <1>15,
     <1>16, <1>17, <1>18, <1>19, <1>20, <1>21, <1>22, <1>23, <1>24
  DEF Next, Environment

LEMMA SpecIInv == Spec => []IInv
  BY InitIInv, NextIInv, PTL DEF Spec

\* Every variable keeps its type: in particular a worker never sends a part
\* its archive does not have, a poller always finds an unused number, and the
\* row a promotion names exists (_process_upload, _schedule_md5_fetch,
\* _handle_failure).
THEOREM TypeCorrect == Spec => []TypeOK
<1>1. IInv => TypeOK
  BY DEF IInv, CoordinatorOK, ThreadsOK, TypeOK
<1>. QED
  BY <1>1, SpecIInv, PTL

\* Whatever fails, restarts or is toggled, a blocked row waits for a row of
\* another host that is or was in the table.
THEOREM BlockedRowsWaitForAnother == Spec => []WaitsForAnother
<1>1. IInv => WaitsForAnother
  <2>1. SUFFICES ASSUME IInv, NEW h \in Hosts, HeadIs(h, {"blocked"})
        PROVE  /\ rows[<<h, 0>>].blockedBy # NoId
               /\ rows[<<h, 0>>].blockedBy.host # h
               /\ rows[<<h, 0>>].blockedBy.part = 0
               /\ rows[<<h, 0>>].blockedBy.gen
                     <= rows[Place(rows[<<h, 0>>].blockedBy)].gen
    BY DEF WaitsForAnother
  <2>2. PointsBack(rows, h, rows[<<h, 0>>].blockedBy)
    BY <2>1 DEF IInv, CoordinatorOK, WaitsOK, HeadIs
  <2>. QED
    BY <2>2, NoPlace DEF PointsBack
<1>. QED
  BY <1>1, SpecIInv, PTL
-----------------------------------------------------------------------------
(* The threads: registry, reports of the spin-up and the stops awaited.    *)

\* A report of the credentials test is under way in q; at most one is.
Report(q, h, ok) == \E i \in DOMAIN q : q[i] = Spun(h, ok)

OneReport(q, h) ==
    \A i, j \in DOMAIN q :
        {q[i], q[j]} \subseteq {Spun(h, TRUE), Spun(h, FALSE)} => i = j

Starting(h) == registry[h] \in {"pending", "restored"}

\* disable_host waits for the thread of h.
Awaited(h) == manager.mode = "disabling" /\ manager.host = h

Accounted(h) ==
    /\ registry[h] = "none" => At(h, "stopped") \/ Awaited(h)
    /\ registry[h] = "workers" /\ (worker[h].stop \/ At(h, "stopped"))
          => manager.mode = "closing"
    /\ At(h, "spinup") => Starting(h)
    /\ Starting(h) => ~worker[h].stop
    /\ OneReport(events, h)
    /\ Report(events, h, TRUE) \/ Report(events, h, FALSE) <=> Starting(h) /\ ~At(h, "spinup")
    /\ Report(events, h, TRUE) => ~At(h, "stopped")
    /\ Report(events, h, FALSE) => At(h, "stopped")

ThreadInv == IInv /\ \A h \in Hosts : Accounted(h)

\* What q still says of h after a signal of another kind or host.
SameReports(q, r, h) ==
    /\ \A ok \in BOOLEAN : Report(r, h, ok) <=> Report(q, h, ok)
    /\ OneReport(q, h) => OneReport(r, h)

LEMMA AppendedReport ==
  ASSUME NEW q \in Seq(Event), NEW e \in Event, NEW h \in Hosts
  PROVE  /\ \A ok \in BOOLEAN : Report(Append(q, e), h, ok) <=> Report(q, h, ok) \/ e = Spun(h, ok)
         /\ (~Report(q, h, TRUE) /\ ~Report(q, h, FALSE)) \/ e \notin {Spun(h, TRUE), Spun(h, FALSE)}
              => (OneReport(q, h) => OneReport(Append(q, e), h))
<1>. DEFINE r == Append(q, e)
            n == Len(q) + 1
<1>1. /\ Len(q) \in Nat /\ DOMAIN q = 1..Len(q) /\ DOMAIN r = 1..n
      /\ \A i \in 1..Len(q) : r[i] = q[i]
      /\ r[n] = e
  BY AppendProperties, LenProperties
<1>2. n \in 1..n /\ \A i \in 1..n : i = n \/ i \in 1..Len(q)
  BY <1>1
<1>3. 1..Len(q) \subseteq 1..n
  BY <1>1
<1>. HIDE DEF r, n
<1>4. ASSUME NEW ok \in BOOLEAN PROVE Report(r, h, ok) <=> Report(q, h, ok) \/ e = Spun(h, ok)
  BY <1>1, <1>2, <1>3 DEF Report
<1>5. ASSUME ~Report(q, h, TRUE) /\ ~Report(q, h, FALSE), OneReport(q, h)
      PROVE  OneReport(r, h)
  BY <1>1, <1>2, <1>5 DEF Report, OneReport
<1>6. ASSUME e \notin {Spun(h, TRUE), Spun(h, FALSE)}, OneReport(q, h)
      PROVE  OneReport(r, h)
  BY <1>1, <1>2, <1>6 DEF OneReport
<1>. QED
  BY <1>4, <1>5, <1>6 DEF r

LEMMA OtherAppended ==
  ASSUME NEW q \in Seq(Event), NEW e \in Event, NEW h \in Hosts,
         e \notin {Spun(h, TRUE), Spun(h, FALSE)}
  PROVE  SameReports(q, Append(q, e), h)
<1>1. ASSUME NEW ok \in BOOLEAN PROVE Report(Append(q, e), h, ok) <=> Report(q, h, ok)
  <2>1. CASE ok = TRUE
    BY <2>1, AppendedReport
  <2>2. CASE ok = FALSE
    BY <2>2, AppendedReport
  <2>. QED
    BY <1>1, <2>1, <2>2
<1>2. OneReport(q, h) => OneReport(Append(q, e), h)
  BY AppendedReport
<1>. QED
  BY <1>1, <1>2 DEF SameReports

LEMMA TakenReport ==
  ASSUME NEW q \in Seq(Event), q # <<>>, NEW h \in Hosts
  PROVE  /\ q[1] \notin {Spun(h, TRUE), Spun(h, FALSE)} => SameReports(q, Tail(q), h)
         /\ q[1] \in {Spun(h, TRUE), Spun(h, FALSE)} /\ OneReport(q, h)
              => ~Report(Tail(q), h, TRUE) /\ ~Report(Tail(q), h, FALSE) /\ OneReport(Tail(q), h)
<1>. DEFINE r == Tail(q)
            m == Len(q) - 1
<1>1. /\ Len(q) \in Nat /\ DOMAIN q = 1..Len(q) /\ m \in Nat /\ DOMAIN r = 1..m
      /\ \A i \in 1..m : r[i] = q[i + 1]
  BY HeadTailProperties, LenProperties
<1>2. /\ \A i \in 1..m : i + 1 \in 1..Len(q) /\ i + 1 # 1
      /\ \A i, j \in 1..m : i + 1 = j + 1 => i = j
      /\ 1 \in 1..Len(q)
  BY <1>1
<1>3. \A i \in 1..Len(q) : i = 1 \/ (i - 1 \in 1..m /\ (i - 1) + 1 = i)
  BY <1>1
<1>. HIDE DEF r, m
<1>4. ASSUME OneReport(q, h) PROVE OneReport(r, h)
  <2>1. ASSUME NEW i \in 1..m, NEW j \in 1..m,
               {r[i], r[j]} \subseteq {Spun(h, TRUE), Spun(h, FALSE)}
        PROVE  i = j
    <3>1. {q[i + 1], q[j + 1]} \subseteq {Spun(h, TRUE), Spun(h, FALSE)}
      BY <1>1, <2>1
    <3>2. i + 1 = j + 1
      BY <1>1, <1>2, <1>4, <3>1 DEF OneReport
    <3>. QED
      BY <1>2, <3>2
  <2>. QED
    BY <1>1, <2>1 DEF OneReport
<1>5. ASSUME NEW ok \in BOOLEAN, q[1] # Spun(h, ok)
      PROVE  Report(r, h, ok) <=> Report(q, h, ok)
  <2>1. ASSUME NEW i \in 1..m, r[i] = Spun(h, ok) PROVE q[i + 1] = Spun(h, ok) /\ i + 1 \in 1..Len(q)
    BY <1>1, <1>2, <2>1
  <2>2. ASSUME NEW i \in 1..Len(q), q[i] = Spun(h, ok) PROVE i - 1 \in 1..m /\ r[i - 1] = Spun(h, ok)
    BY <1>1, <1>3, <1>5, <2>2
  <2>. QED
    BY <1>1, <2>1, <2>2 DEF Report
<1>6. ASSUME q[1] \in {Spun(h, TRUE), Spun(h, FALSE)}, OneReport(q, h), NEW i \in 1..m
      PROVE  r[i] \notin {Spun(h, TRUE), Spun(h, FALSE)}
  BY <1>1, <1>2, <1>6 DEF OneReport
<1>7. ASSUME q[1] \in {Spun(h, TRUE), Spun(h, FALSE)}, OneReport(q, h)
      PROVE  ~Report(r, h, TRUE) /\ ~Report(r, h, FALSE)
  BY <1>1, <1>6, <1>7 DEF Report
<1>. QED
  BY <1>4, <1>5, <1>7 DEF r, SameReports

\* Nothing happens to the thread of h.
LEMMA StaysAccounted ==
  ASSUME NEW h \in Hosts, Accounted(h), SameReports(events, events', h),
         registry'[h] = registry[h],
         worker'[h].pc = worker[h].pc, worker'[h].stop = worker[h].stop,
         Awaited(h) => Awaited(h)',
         manager.mode = "closing" => manager.mode' = "closing"
  PROVE  Accounted(h)'
  BY DEF Accounted, SameReports, Starting, At

LEMMA ReportsUnchanged == ASSUME NEW q, NEW h PROVE SameReports(q, q, h)
  BY DEF SameReports

\* A worker ends only when it is told to, and tells only of galleries.
Works(h) ==
    /\ \A g \in Hosts \ {h} : worker'[g] = worker[g]
    /\ worker[h].pc \notin {"spinup", "stopped"} /\ worker'[h].pc # "spinup"
    /\ worker'[h].pc = "stopped" => worker[h].stop
    /\ worker'[h].stop = worker[h].stop
    /\ \/ events' = events
       \/ \E ok \in BOOLEAN : events' = Append(events, Settled(h, ok))

LEMMA WorkerWorks ==
  ASSUME WorkerTypeOK, NEW h \in Hosts,
         WorkerStep(h) \/ WorkerDbFails(h) \/ Unrecorded(h)
  PROVE  Works(h)
<1>. USE DEF At
<1>1. worker \in [Hosts -> WorkerState]
  BY DEF WorkerTypeOK
<1>2. /\ worker[h].pc \in WorkerPc /\ worker[h].stop \in BOOLEAN /\ worker[h].ok \in BOOLEAN
  BY <1>1 DEF WorkerState
<1>3. ASSUME NEW w, worker' = [worker EXCEPT ![h] = w], w.stop = worker[h].stop,
             w.pc # "spinup", w.pc = "stopped" => worker[h].stop,
             worker[h].pc \notin {"spinup", "stopped"}, UNCHANGED events
      PROVE  Works(h)
  BY <1>1, <1>3 DEF Works
<1>4. Fresh.pc = "idle" /\ \A p : Go(h, p) => worker' = [worker EXCEPT ![h].pc = p]
  BY DEF Fresh, Go
<1>5. ASSUME NEW p, p \notin {"spinup", "stopped"}, Go(h, p),
             worker[h].pc \notin {"spinup", "stopped"}, UNCHANGED events
      PROVE  Works(h)
  BY <1>1, <1>5 DEF Works, Go, WorkerState
<1>6. ASSUME Rest(h), worker[h].pc \notin {"spinup", "stopped"}, UNCHANGED events
      PROVE  Works(h)
  BY <1>1, <1>6 DEF Works, Rest, Fresh
<1>7. ASSUME ToSettle(h), worker[h].pc \notin {"spinup", "stopped"}, UNCHANGED events
      PROVE  Works(h)
  BY <1>1, <1>7 DEF Works, ToSettle, Fresh
<1>8. ASSUME Fail(h), worker[h].pc \notin {"spinup", "stopped"}, UNCHANGED events
      PROVE  Works(h)
  BY <1>1, <1>8 DEF Works, Fail, WorkerState
<1>9. ASSUME Pick(h) PROVE Works(h)
  BY <1>1, <1>9 DEF Pick, Works, WorkerState, tableVars
<1>10. ASSUME Quit(h) PROVE Works(h)
  BY <1>1, <1>10 DEF Quit, Go, Works, WorkerState, tableVars
<1>11. ASSUME ReadSiblings(h) PROVE Works(h)
  BY <1>1, <1>11 DEF ReadSiblings, Go, Works, WorkerState, tableVars
<1>12. ASSUME Probe(h) PROVE Works(h)
  BY <1>1, <1>12 DEF Probe, Go, Works, WorkerState, tableVars
<1>13. ASSUME CommitAdd(h) PROVE Works(h)
  BY <1>1, <1>13 DEF CommitAdd, Works, WorkerState
<1>14. ASSUME CommitPart(h) PROVE Works(h)
  BY <1>1, <1>14 DEF CommitPart, Works, WorkerState
<1>15. ASSUME CommitHead(h) PROVE Works(h)
  BY <1>1, <1>15 DEF CommitHead, Works, WorkerState
<1>16. ASSUME GiveUp(h) PROVE Works(h)
  BY <1>1, <1>16 DEF GiveUp, Works, WorkerState
<1>17. ASSUME Archive(h) PROVE Works(h)
  <2>1. CASE Fail(h)
    BY <1>8, <1>17, <2>1 DEF Archive, tableVars
  <2>2. CASE \E n \in 1 .. NumParts :
               worker' = [worker EXCEPT ![h].pc = "part", ![h].part = 0, ![h].count = n]
    BY <1>1, <1>17, <2>2 DEF Archive, Works, WorkerState, tableVars
  <2>. QED
    BY <1>17, <2>1, <2>2 DEF Archive
<1>18. ASSUME BeginPart(h) PROVE Works(h)
  BY <1>1, <1>18 DEF BeginPart, Works, WorkerState
<1>19. ASSUME SendPart(h) PROVE Works(h)
  <2>1. CASE Fail(h)
    BY <1>8, <1>19, <2>1 DEF SendPart
  <2>2. CASE worker' = [worker EXCEPT ![h].pc = "part", ![h].current = NoId, ![h].part = @ + 1]
    BY <1>1, <1>19, <2>2 DEF SendPart, Works, WorkerState
  <2>. QED
    BY <1>19, <2>1, <2>2 DEF SendPart
<1>20. ASSUME EndParts(h) PROVE Works(h)
  <2>1. CASE ToSettle(h)
    BY <1>7, <1>20, <2>1 DEF EndParts, tableVars
  <2>2. CASE worker' = [worker EXCEPT ![h].pc = "except", ![h].retryable = TRUE]
    BY <1>1, <1>20, <2>2 DEF EndParts, Works, WorkerState, tableVars
  <2>. QED
    BY <1>20, <2>1, <2>2 DEF EndParts
<1>21. ASSUME ReadOutcome(h) \/ OutcomeUnread(h) PROVE Works(h)
  BY <1>1, <1>21 DEF ReadOutcome, OutcomeUnread, Works, WorkerState, tableVars
<1>22. ASSUME Announce(h) PROVE Works(h)
  BY <1>1, <1>2, <1>22 DEF Announce, Rest, Fresh, Works
<1>23. ASSUME CommitFails(h) PROVE Works(h)
  BY <1>1, <1>23 DEF CommitFails, Works, WorkerState, tableVars
<1>24. ASSUME BeginPartFails(h) PROVE Works(h)
  BY <1>1, <1>24 DEF BeginPartFails, Works, WorkerState
<1>25. ASSUME FailFast(h) \/ RowDropped(h) PROVE Works(h)
  BY <1>6, <1>25 DEF FailFast, RowDropped, tableVars
<1>26. ASSUME HandleError(h) \/ UploadDropped(h) PROVE Works(h)
  BY <1>7, <1>26 DEF HandleError, UploadDropped, tableVars
<1>27. ASSUME StartUpload(h) PROVE Works(h)
  BY <1>5, <1>27 DEF StartUpload
<1>28. ASSUME SentUnrecorded(h) PROVE Works(h)
  BY <1>8, <1>28 DEF SentUnrecorded, tableVars
<1>29. ASSUME MirrorUnrecorded(h) PROVE Works(h)
  BY <1>1, <1>29 DEF MirrorUnrecorded, Works, WorkerState
<1>. QED
  BY <1>9, <1>10, <1>11, <1>12, <1>13, <1>14, <1>15, <1>16, <1>17, <1>18, <1>19,
     <1>20, <1>21, <1>22, <1>23, <1>24, <1>25, <1>26, <1>27, <1>28, <1>29
  DEF WorkerStep, WorkerDbFails, Unrecorded

\* A step of the worker of h, which the registry does not see.
LEMMA WorkingAccounted ==
  ASSUME ThreadInv, NEW h \in Hosts, Works(h), UNCHANGED managerVars
  PROVE  \A g \in Hosts : Accounted(g)'
<1>1. events \in Seq(Event) /\ \A g \in Hosts : Accounted(g)
  BY DEF ThreadInv, IInv, CoordinatorOK, TableTypeOK
<1>2. ASSUME NEW g \in Hosts PROVE SameReports(events, events', g)
  <2>1. CASE events' = events
    BY <2>1, ReportsUnchanged
  <2>2. ASSUME NEW ok \in BOOLEAN, events' = Append(events, Settled(h, ok))
        PROVE  SameReports(events, events', g)
    <3>. DEFINE e == Settled(h, ok)
    <3>1. e \in Event /\ e \notin {Spun(g, TRUE), Spun(g, FALSE)}
      BY DEF Settled, Spun, Event
    <3>. HIDE DEF e
    <3>2. events' = Append(events, e)
      BY <2>2 DEF e
    <3>. QED
      BY <1>1, <3>1, <3>2, OtherAppended
  <2>. QED
    BY <2>1, <2>2 DEF Works
<1>3. ASSUME NEW g \in Hosts, g # h PROVE Accounted(g)'
  <2>1. Awaited(g) => Awaited(g)'
    BY DEF Awaited, managerVars
  <2>2. worker'[g] = worker[g]
    BY <1>3 DEF Works
  <2>. QED
    BY <1>1, <1>2, <2>1, <2>2, StaysAccounted DEF managerVars
<1>4. Accounted(h)'
  <2>1. Accounted(h) /\ SameReports(events, events', h)
    BY <1>1, <1>2
  <2>2. registry' = registry /\ manager' = manager
    BY DEF managerVars
  <2>3. /\ worker[h].pc \notin {"spinup", "stopped"} /\ worker'[h].pc # "spinup"
        /\ worker'[h].pc = "stopped" => worker[h].stop
        /\ worker'[h].stop = worker[h].stop
    BY DEF Works
  <2>. QED
    BY <2>1, <2>2, <2>3 DEF Accounted, SameReports, Starting, Awaited, At
<1>. QED
  BY <1>3, <1>4

LEMMA SpinUpAccounted ==
  ASSUME ThreadInv, NEW h \in Hosts, SpinUp(h), UNCHANGED managerVars
  PROVE  \A g \in Hosts : Accounted(g)'
<1>1. /\ events \in Seq(Event) /\ worker \in [Hosts -> WorkerState]
      /\ \A g \in Hosts : Accounted(g)
  BY DEF ThreadInv, IInv, CoordinatorOK, TableTypeOK, ThreadsOK, WorkerTypeOK
<1>2. PICK ok \in BOOLEAN :
        /\ Go(h, IF ok THEN "idle" ELSE "stopped") /\ events' = Append(events, Spun(h, ok))
  BY DEF SpinUp
<1>. DEFINE e == Spun(h, ok)
<1>3. e \in Event /\ events' = Append(events, e)
  BY <1>2 DEF Spun, Event
<1>4. /\ worker[h].pc = "spinup" /\ worker'[h].stop = worker[h].stop
      /\ worker'[h].pc = (IF ok THEN "idle" ELSE "stopped")
      /\ \A g \in Hosts \ {h} : worker'[g] = worker[g]
  BY <1>1, <1>2 DEF SpinUp, At, Go, WorkerState
<1>5. ASSUME NEW g \in Hosts, g # h PROVE Accounted(g)'
  <2>1. e \notin {Spun(g, TRUE), Spun(g, FALSE)}
    BY <1>5 DEF Spun
  <2>2. SameReports(events, events', g)
    <3>. HIDE DEF e
    <3>. QED
      BY <1>1, <1>3, <2>1, OtherAppended
  <2>3. Awaited(g) => Awaited(g)'
    BY DEF Awaited, managerVars
  <2>. QED
    BY <1>1, <1>4, <1>5, <2>2, <2>3, StaysAccounted DEF managerVars
<1>6. Accounted(h)'
  <2>1. Accounted(h) /\ Starting(h) /\ ~worker[h].stop
        /\ ~Report(events, h, TRUE) /\ ~Report(events, h, FALSE) /\ OneReport(events, h)
    BY <1>1, <1>4 DEF Accounted, At
  <2>2. (e = Spun(h, TRUE) <=> ok) /\ (e = Spun(h, FALSE) <=> ~ok)
    BY DEF Spun
  <2>3. /\ OneReport(events', h)
        /\ Report(events', h, TRUE) <=> ok
        /\ Report(events', h, FALSE) <=> ~ok
    <3>. HIDE DEF e
    <3>. QED
      BY <1>1, <1>3, <2>1, <2>2, AppendedReport
  <2>5. registry' = registry
    BY DEF managerVars
  <2>. QED
    BY <1>4, <2>1, <2>3, <2>5 DEF Accounted, Starting, At
<1>. QED
  BY <1>5, <1>6

\* The report is taken: the worker is registered, or dropped.
LEMMA TakeSpinupAccounted ==
  ASSUME ThreadInv, TakeSpinup
  PROVE  \A g \in Hosts : Accounted(g)'
<1>1. /\ events \in Seq(Event) /\ events # <<>> /\ worker \in [Hosts -> WorkerState]
      /\ registry \in [Hosts -> Registration]
      /\ \A g \in Hosts : Accounted(g)
  BY DEF ThreadInv, IInv, CoordinatorOK, TableTypeOK, ThreadsOK, WorkerTypeOK, ManagerTypeOK, TakeSpinup
<1>2. 1 \in DOMAIN events /\ events[1] \in Event
  BY <1>1
<1>3. PICK h \in Hosts, ok \in BOOLEAN :
        events[1] = Spun(h, ok) /\ events[1].host = h /\ events[1].ok = ok
  BY <1>2 DEF TakeSpinup, Spun, Event
<1>4. /\ events' = Tail(events) /\ manager' = manager
      /\ registry' = [registry EXCEPT ![h] = IF ok THEN "workers" ELSE "none"]
      /\ \A g \in Hosts : worker'[g].pc = worker[g].pc /\ worker'[g].stop = worker[g].stop
  BY <1>1, <1>3 DEF TakeSpinup, Register, WorkerState
<1>5. ASSUME NEW g \in Hosts, g # h PROVE Accounted(g)'
  <2>1. events[1] \notin {Spun(g, TRUE), Spun(g, FALSE)}
    BY <1>3, <1>5 DEF Spun
  <2>2. SameReports(events, events', g)
    BY <1>1, <1>4, <2>1, TakenReport
  <2>3. Awaited(g) => Awaited(g)'
    BY <1>4 DEF Awaited
  <2>4. registry'[g] = registry[g]
    BY <1>1, <1>4, <1>5
  <2>. QED
    BY <1>1, <1>4, <2>2, <2>3, <2>4, StaysAccounted
<1>6. Accounted(h)'
  <2>1. Accounted(h) /\ OneReport(events, h) /\ Report(events, h, ok)
    BY <1>1, <1>2, <1>3 DEF Accounted, Report
  <2>2. Starting(h) /\ ~worker[h].stop /\ worker[h].pc # "spinup" /\ (ok <=> worker[h].pc # "stopped")
    BY <1>3, <2>1 DEF Accounted, At
  <2>3. events[1] \in {Spun(h, TRUE), Spun(h, FALSE)}
    BY <1>3
  <2>4. ~Report(events', h, TRUE) /\ ~Report(events', h, FALSE) /\ OneReport(events', h)
    BY <1>1, <1>3, <1>4, <2>1, <2>3, TakenReport
  <2>5. registry'[h] = (IF ok THEN "workers" ELSE "none")
    BY <1>1, <1>3, <1>4
  <2>6. worker'[h].pc = worker[h].pc /\ ~worker'[h].stop
    BY <1>3, <1>4, <2>2
  <2>7. CASE ok
    <3>1. registry'[h] = "workers" /\ worker'[h].pc \notin {"spinup", "stopped"}
      BY <2>2, <2>5, <2>6, <2>7
    <3>. QED
      BY <2>4, <2>6, <3>1 DEF Accounted, Starting, At
  <2>8. CASE ~ok
    <3>1. registry'[h] = "none" /\ worker'[h].pc = "stopped"
      BY <2>2, <2>5, <2>6, <2>8
    <3>. QED
      BY <2>4, <2>6, <3>1 DEF Accounted, Starting, At
  <2>. QED
    BY <2>7, <2>8
<1>. QED
  BY <1>5, <1>6

LEMMA ManagerAccounted ==
  ASSUME ThreadInv,
         \/ Disabled \/ CloseNext \/ CloseAll
         \/ \E h \in Hosts : Enable(h) \/ Disable(h)
  PROVE  \A g \in Hosts : Accounted(g)'
<1>1. /\ worker \in [Hosts -> WorkerState] /\ registry \in [Hosts -> Registration]
      /\ manager \in ManagerState
      /\ \A g \in Hosts : Accounted(g)
  BY DEF ThreadInv, IInv, ThreadsOK, WorkerTypeOK, ManagerTypeOK
<1>2. events' = events
  BY DEF Disabled, CloseNext, CloseAll, Enable, Disable, tableVars
<1>3. ASSUME NEW g \in Hosts PROVE SameReports(events, events', g)
  BY <1>2, ReportsUnchanged
<1>4. CASE Disabled
  <2>1. /\ registry' = registry /\ manager'.mode = "idle" /\ manager.mode = "disabling"
        /\ \A g \in Hosts : worker'[g].pc = worker[g].pc /\ worker'[g].stop = worker[g].stop
        /\ At(manager.host, "stopped")
    BY <1>1, <1>4 DEF Disabled, ManagerIdle, WorkerState
  <2>2. ASSUME NEW g \in Hosts PROVE Accounted(g)'
    BY <1>1, <1>2, <2>1 DEF Accounted, Awaited, Starting, At
  <2>. QED
    BY <2>2
<1>5. CASE CloseAll
  <2>1. /\ registry' = registry /\ worker' = worker /\ manager.mode = "idle"
        /\ manager'.mode = "closing"
    BY <1>1, <1>5 DEF CloseAll, ManagerState
  <2>2. ASSUME NEW g \in Hosts PROVE Accounted(g)'
    BY <1>1, <1>2, <2>1 DEF Accounted, Awaited, Starting, At
  <2>. QED
    BY <2>2
<1>6. CASE CloseNext
  <2>1. PICK h \in Registered :
          /\ worker' = [worker EXCEPT ![h].stop = TRUE]
          /\ manager' = [manager EXCEPT !.host = h]
    BY <1>6 DEF CloseNext
  <2>2. registry' = registry /\ manager.mode = "closing" /\ manager'.mode = "closing"
    BY <1>1, <1>6, <2>1 DEF CloseNext, ManagerState
  <2>3. h \in Hosts /\ registry[h] = "workers"
    BY <2>1 DEF Registered
  <2>4. /\ \A g \in Hosts : worker'[g].pc = worker[g].pc
        /\ \A g \in Hosts : g # h => worker'[g].stop = worker[g].stop
    BY <1>1, <2>1, <2>3 DEF WorkerState
  <2>5. ASSUME NEW g \in Hosts PROVE Accounted(g)'
    BY <1>1, <1>2, <2>2, <2>3, <2>4 DEF Accounted, Awaited, Starting, At
  <2>. QED
    BY <2>5
<1>7. ASSUME NEW h \in Hosts, Enable(h) PROVE \A g \in Hosts : Accounted(g)'
  <2>1. /\ manager.mode = "idle" /\ manager' = manager /\ registry[h] = "none"
        /\ registry' = [registry EXCEPT ![h] = "pending"]
        /\ worker'[h].pc = "spinup" /\ ~worker'[h].stop
        /\ \A g \in Hosts : g # h => worker'[g] = worker[g]
    <3>1. PICK on : Spinning(h, on)
      BY <1>7 DEF Enable
    <3>. DEFINE w == [Fresh EXCEPT !.pc = "spinup", !.enabled = on]
    <3>2. w.pc = "spinup" /\ ~w.stop /\ worker' = [worker EXCEPT ![h] = w]
      BY <3>1 DEF Fresh, Spinning
    <3>. HIDE DEF w
    <3>3. /\ worker'[h].pc = "spinup" /\ ~worker'[h].stop
          /\ \A g \in Hosts : g # h => worker'[g] = worker[g]
      BY <1>1, <3>2
    <3>. QED
      BY <1>7, <3>3 DEF Enable, Register
  <2>2. registry'[h] = "pending" /\ \A g \in Hosts : g # h => registry'[g] = registry[g]
    BY <1>1, <2>1
  <2>3. ASSUME NEW g \in Hosts, g # h PROVE Accounted(g)'
    BY <1>1, <1>2, <2>1, <2>2, <2>3 DEF Accounted, Awaited, Starting, At
  <2>4. Accounted(h)'
    BY <1>1, <1>2, <2>1, <2>2 DEF Accounted, Awaited, Starting, At
  <2>. QED
    BY <2>3, <2>4
<1>8. ASSUME NEW h \in Hosts, Disable(h) PROVE \A g \in Hosts : Accounted(g)'
  <2>1. /\ manager.mode = "idle" /\ \A g \in Hosts : worker'[g].pc = worker[g].pc
        /\ \A g \in Hosts : g # h => worker'[g].stop = worker[g].stop
        /\ worker'[h].stop = (worker[h].stop \/ h \in Registered)
    <3>1. PICK saved \in BOOLEAN :
            worker' = [worker EXCEPT ![h].enabled = @ /\ ~saved,
                                     ![h].stop = @ \/ h \in Registered]
      BY <1>8 DEF Disable
    <3>. DEFINE on == worker[h].enabled /\ ~saved
                stop == worker[h].stop \/ h \in Registered
                w == [worker[h] EXCEPT !.enabled = on, !.stop = stop]
    <3>2. worker' = [worker EXCEPT ![h] = w]
      BY <1>1, <3>1
    <3>3. w.pc = worker[h].pc /\ w.stop = stop
      <4>. HIDE DEF on, stop
      <4>. QED
        BY <1>1 DEF WorkerState
    <3>. HIDE DEF w
    <3>4. /\ \A g \in Hosts : worker'[g].pc = worker[g].pc
          /\ \A g \in Hosts : g # h => worker'[g].stop = worker[g].stop
          /\ worker'[h].stop = stop
      BY <1>1, <3>2, <3>3
    <3>. QED
      BY <1>8, <3>4 DEF Disable
  <2>2. CASE h \in Registered
    <3>1. /\ registry[h] = "workers" /\ registry' = [registry EXCEPT ![h] = "none"]
          /\ manager' = [manager EXCEPT !.mode = "disabling", !.host = h]
      BY <1>8, <2>2 DEF Disable, Register, Registered
    <3>2. /\ registry'[h] = "none" /\ \A g \in Hosts : g # h => registry'[g] = registry[g]
          /\ manager'.mode = "disabling" /\ manager'.host = h
      BY <1>1, <3>1 DEF ManagerState
    <3>3. ASSUME NEW g \in Hosts, g # h PROVE Accounted(g)'
      BY <1>1, <1>2, <2>1, <3>1, <3>2, <3>3 DEF Accounted, Awaited, Starting, At
    <3>4. Accounted(h)'
      BY <1>1, <1>2, <2>1, <3>1, <3>2 DEF Accounted, Awaited, Starting, At
    <3>. QED
      BY <3>3, <3>4
  <2>3. CASE h \notin Registered
    <3>1. registry' = registry /\ manager' = manager
      BY <1>8, <2>3 DEF Disable, managerVars
    <3>2. ASSUME NEW g \in Hosts PROVE Accounted(g)'
      <4>1. worker'[g].pc = worker[g].pc /\ worker'[g].stop = worker[g].stop
        BY <1>1, <2>1, <2>3 DEF WorkerState
      <4>. QED
        BY <1>1, <1>3, <3>1, <4>1, StaysAccounted DEF Awaited
    <3>. QED
      BY <3>2
  <2>. QED
    BY <2>2, <2>3
<1>. QED
  BY <1>4, <1>5, <1>6, <1>7, <1>8

LEMMA RelaunchAccounted == ASSUME Relaunch PROVE \A h \in Hosts : Accounted(h)'
<1>1. ASSUME NEW h \in Hosts PROVE Accounted(h)'
  <2>1. /\ worker'[h].pc = (IF worker[h].enabled THEN "spinup" ELSE "stopped")
        /\ ~worker'[h].stop
        /\ registry'[h] = (IF worker[h].enabled THEN "restored" ELSE "none")
    BY DEF Relaunch, Launch, Fresh
  <2>2. OneReport(events', h) /\ \A ok \in BOOLEAN : ~Report(events', h, ok)
    BY DEF Relaunch, OneReport, Report
  <2>. QED
    BY <2>1, <2>2 DEF Accounted, Starting, At
<1>. QED
  BY <1>1

LEMMA InitThreads == Init => ThreadInv
<1>1. SUFFICES ASSUME Init PROVE \A h \in Hosts : Accounted(h)
  BY InitIInv DEF ThreadInv
<1>2. ASSUME NEW h \in Hosts PROVE Accounted(h)
  <2>1. worker[h].pc = "idle" /\ ~worker[h].stop /\ registry[h] = "workers" /\ events = <<>>
    BY <1>1 DEF Init, WorkerInit, ManagerInit, TableInit, Fresh
  <2>2. OneReport(events, h) /\ \A ok \in BOOLEAN : ~Report(events, h, ok)
    BY <2>1 DEF OneReport, Report
  <2>. QED
    BY <2>1, <2>2 DEF Accounted, Starting, At
<1>. QED
  BY <1>2

\* The main thread takes the signals of the galleries; the rest leaves them alone.
LEMMA OthersAccounted ==
  ASSUME ThreadInv, UNCHANGED <<worker, managerVars>>,
         events' = events \/ TakeEvent
  PROVE  \A h \in Hosts : Accounted(h)'
<1>1. events \in Seq(Event) /\ \A h \in Hosts : Accounted(h)
  BY DEF ThreadInv, IInv, CoordinatorOK, TableTypeOK
<1>2. ASSUME NEW h \in Hosts PROVE SameReports(events, events', h)
  <2>1. CASE TakeEvent
    <3>1. events # <<>> /\ events' = Tail(events) /\ events[1].kind = "settled"
      BY <2>1 DEF TakeEvent
    <3>2. events[1] \notin {Spun(h, TRUE), Spun(h, FALSE)}
      BY <3>1 DEF Spun
    <3>. QED
      BY <1>1, <3>1, <3>2, TakenReport
  <2>. QED
    BY <2>1, ReportsUnchanged
<1>3. ASSUME NEW h \in Hosts PROVE Accounted(h)'
  BY <1>1, <1>2, StaysAccounted DEF managerVars, Awaited
<1>. QED
  BY <1>3

LEMMA NextThreads == ThreadInv /\ [Next]_vars => ThreadInv'
<1>1. SUFFICES ASSUME ThreadInv, [Next]_vars PROVE \A h \in Hosts : Accounted(h)'
  BY NextIInv DEF ThreadInv
<1>2. WorkerTypeOK
  BY <1>1 DEF ThreadInv, IInv, ThreadsOK
<1>3. ASSUME NEW h \in Hosts, Worker(h) PROVE \A g \in Hosts : Accounted(g)'
  BY <1>1, <1>2, <1>3, WorkerWorks, WorkingAccounted, SpinUpAccounted DEF Worker
<1>4. CASE WorkerFails \/ BookkeepingFails
  BY <1>1, <1>2, <1>4, WorkerWorks, WorkingAccounted DEF WorkerFails, BookkeepingFails
<1>5. CASE Main
  <2>1. CASE MainStep /\ UNCHANGED <<worker, managerVars>>
    <3>1. events' = events \/ TakeEvent
      BY <2>1 DEF MainStep, MainWrite, HandleSuccess, MainUnblock, HandleFailure,
         RetryScan, WritesDone, tableVars
    <3>. QED
      BY <1>1, <2>1, <3>1, OthersAccounted
  <2>. QED
    BY <1>1, <1>5, <2>1, TakeSpinupAccounted DEF Main
<1>6. CASE Md5Poller
  <2>1. events' = events
    BY <1>6 DEF Md5Poller, PollerStep, PollerWrite, Fire, PollMd5, PollerUnblock,
       PollerEnds, tableVars
  <2>. QED
    BY <1>1, <1>6, <2>1, OthersAccounted DEF Md5Poller
<1>7. CASE Manager \/ DisableHost \/ EnableHost \/ Shutdown
  BY <1>1, <1>7, ManagerAccounted DEF Manager, DisableHost, EnableHost, Shutdown
<1>8. CASE Crash \/ Exit
  BY <1>8, RelaunchAccounted DEF Crash, Exit
<1>9. CASE \/ FirstTrigger \/ Retrigger \/ UserReupload \/ InsertFails
           \/ SettledHandlerFails \/ Md5PollerFails \/ ToggleDedup
  <2>1. events' = events
    BY <1>9 DEF FirstTrigger, Retrigger, UserReupload, InsertFails, SettledHandlerFails,
       Md5PollerFails, ToggleDedup, QueueGallery, Reupload, QueuePrimaryFails,
       HandlerFails, PollerFails, tableVars
  <2>2. UNCHANGED <<worker, managerVars>>
    BY <1>9 DEF FirstTrigger, Retrigger, UserReupload, InsertFails, SettledHandlerFails,
       Md5PollerFails, ToggleDedup
  <2>. QED
    BY <1>1, <2>1, <2>2, OthersAccounted
<1>10. CASE UNCHANGED vars
  <2>1. events' = events /\ UNCHANGED <<worker, managerVars>>
    BY <1>10 DEF vars, managerVars
  <2>. QED
    BY <1>1, <2>1, OthersAccounted
<1>. QED
  BY <1>1, <1>3, <1>4, <1>5, <1>6, <1>7, <1>8, <1>9, <1>10 DEF Next, Environment

\* However hosts are enabled, disabled and restarted and whatever crashes: the
\* registry of the manager and the threads that run never disagree, and each
\* spin-up is reported once (enable_host, disable_host, _on_spinup_complete,
\* shutdown_all).
THEOREM RegistryMatchesThreads == Spec => []ThreadsAccounted
<1>1. ThreadInv => ThreadsAccounted
  <2>1. SUFFICES ASSUME ThreadInv, NEW h \in Hosts
        PROVE  LET reports == {i \in DOMAIN events : events[i] \in {Spun(h, TRUE), Spun(h, FALSE)}}
               IN  /\ registry[h] = "none" =>
                         At(h, "stopped") \/ (manager.mode = "disabling" /\ manager.host = h)
                   /\ registry[h] = "workers" /\ (worker[h].stop \/ At(h, "stopped")) =>
                         manager.mode = "closing"
                   /\ Cardinality(reports) =
                         IF registry[h] \in {"pending", "restored"} /\ ~At(h, "spinup")
                         THEN 1 ELSE 0
    BY DEF ThreadsAccounted
  <2>. DEFINE reports == {i \in DOMAIN events : events[i] \in {Spun(h, TRUE), Spun(h, FALSE)}}
  <2>2. Accounted(h)
    BY <2>1 DEF ThreadInv
  <2>3. \A i, j \in reports : i = j
    BY <2>2 DEF Accounted, OneReport
  <2>4. reports # {} <=> Starting(h) /\ ~At(h, "spinup")
    BY <2>2 DEF Accounted, Report
  <2>. HIDE DEF reports
  <2>5. CASE reports = {}
    BY <2>2, <2>4, <2>5, FS_EmptySet DEF Accounted, Starting, Awaited, reports
  <2>6. CASE reports # {}
    <3>1. PICK i \in reports : reports = {i}
      BY <2>3, <2>6
    <3>2. Cardinality(reports) = 1
      BY <3>1, FS_Singleton
    <3>. QED
      BY <2>2, <2>4, <2>6, <3>2 DEF Accounted, Starting, Awaited, reports
  <2>. QED
    BY <2>5, <2>6
<1>2. ThreadInv /\ [Next]_vars => ThreadInv'
  BY NextThreads
<1>. QED
  BY <1>1, <1>2, InitThreads, PTL DEF Spec

-----------------------------------------------------------------------------
(* The retry scan.  Whoever fails, and whoever stores the gallery, does so  *)
(* on the way to a signal; the main thread answers each signal with a scan, *)
(* and the scan gives every failed member its retry.                        *)

\* Nobody stops, restarts or fails, and every signal is about the gallery.
Steady ==
    /\ dedup /\ manager.mode = "idle"
    /\ \A h \in Hosts :
        /\ registry[h] = "workers" /\ worker[h].enabled /\ ~worker[h].stop
        /\ worker[h].pc \notin {"spinup", "stopped"}
    /\ \A i \in DOMAIN events : events[i].kind = "settled"

\* A worker on its way to a signal, a signal, or the main thread answering one.
ScanComes ==
    \/ \E h \in Hosts : ~At(h, "idle")
    \/ events # <<>>
    \/ main.pc \in {"react", "unblock", "write", "scan"}

RetryOps == {"retryNow", "retryWait"}

GivenRetry(h) ==
    /\ main.pc = "finish"
    /\ \E w \in main.todo : w.op \in RetryOps /\ w.id = HeadId(h)

Unretried(h) == HeadIs(h, {"failed"}) /\ ~rows[<<h, 0>>].dedupOnly

Stored == \E h \in Hosts : HeadIs(h, {"completed"})

RetryInv ==
    /\ Steady
    /\ \A h \in Hosts : Unretried(h) /\ Stored => ScanComes \/ GivenRetry(h)

\* Only a manual reupload and a repeated trigger disturb the protocol, and an
\* uploaded file may come back with an address that is of no use.
Undisrupted == Faults \subseteq {"badurl", "requeue", "reupload"}

\* The steps of others leave a head as it is, or leave it neither failed nor
\* completed.
KeepsOutcomes ==
    \A h \in Hosts :
        \/ ~HeadIs(h, {"failed", "completed"})'
        \/ /\ rows'[<<h, 0>>].status = rows[<<h, 0>>].status
           /\ rows'[<<h, 0>>].gen = rows[<<h, 0>>].gen
           /\ rows'[<<h, 0>>].dedupOnly = rows[<<h, 0>>].dedupOnly

\* A write changes the row it names only, and leaves it pending or blocked
\* unless it only changes what the row waits for.
LEMMA ApplyKeepsOutcomes ==
  ASSUME NEW rs \in Table, NEW w \in Write, NEW g \in Hosts
  PROVE  /\ \/ Apply(rs, w)[<<g, 0>>].status \in {"pending", "blocked"}
            \/ /\ Apply(rs, w)[<<g, 0>>].status = rs[<<g, 0>>].status
               /\ Apply(rs, w)[<<g, 0>>].gen = rs[<<g, 0>>].gen
               /\ Apply(rs, w)[<<g, 0>>].dedupOnly = rs[<<g, 0>>].dedupOnly
         /\ w.op \in RetryOps /\ w.id = IdAt(rs, g, 0) =>
               Apply(rs, w)[<<g, 0>>].status \in {"pending", "blocked"}
<1>1. w.id \in RowId /\ w.id.host \in Hosts /\ w.on \in RowId \union {NoId}
  BY DEF Write, RowId
<1>2. ASSUME NEW status \in {"pending", "blocked"}, NEW by \in RowId \union {NoId},
             Apply(rs, w) = AddRow(rs, w.id.host, 0, status, by, FALSE), w.op \notin RetryOps
      PROVE  \/ Apply(rs, w)[<<g, 0>>].status \in {"pending", "blocked"}
             \/ Apply(rs, w)[<<g, 0>>] = rs[<<g, 0>>]
  <2>. DEFINE h == w.id.host
              p == 0
              no == FALSE
              new == AddRow(rs, h, p, status, by, no)
  <2>1. h \in Hosts /\ p \in Parts /\ status \in Status /\ no \in BOOLEAN
    BY <1>1, PartZero DEF Status
  <2>2. /\ \A k \in Hosts \X Parts : k # <<h, p>> => new[k] = rs[k]
        /\ new[<<h, p>>].status = status
    <3>. HIDE DEF h, p, no
    <3>. QED
      BY <2>1, AddRowShape
  <2>3. Apply(rs, w) = new
    BY <1>2
  <2>. HIDE DEF new
  <2>. QED
    BY <2>2, <2>3, PartZero
<1>3. CASE w.op \in {"queuePending", "queueBlocked"}
  <2>1. NoId \in RowId \union {NoId} /\ w.op \notin RetryOps
    BY <1>3 DEF RetryOps
  <2>2. CASE w.op = "queuePending"
    <3>1. Apply(rs, w) = AddRow(rs, w.id.host, 0, "pending", NoId, FALSE)
      BY <2>2 DEF Apply
    <3>. QED
      BY <1>2, <2>1, <3>1
  <2>3. CASE w.op = "queueBlocked"
    <3>1. Apply(rs, w) = AddRow(rs, w.id.host, 0, "blocked", w.on, FALSE)
      BY <2>3 DEF Apply
    <3>. QED
      BY <1>1, <1>2, <2>1, <3>1
  <2>. QED
    BY <1>3, <2>2, <2>3
<1>4. CASE w.op \notin {"queuePending", "queueBlocked"}
  <2>. DEFINE row == Updated(rs[Place(w.id)], w)
  <2>1. Apply(rs, w) = UpdateRow(rs, w.id, row)
    BY <1>4 DEF Apply
  <2>2. rs[Place(w.id)] \in Row
    BY <1>1, PlaceType DEF Table
  <2>3. /\ \/ row.status \in {"pending", "blocked"}
           \/ /\ row.status = rs[Place(w.id)].status /\ row.gen = rs[Place(w.id)].gen
              /\ row.dedupOnly = rs[Place(w.id)].dedupOnly
        /\ w.op \in RetryOps => row.status \in {"pending", "blocked"}
        /\ row \in Row /\ row.gen = rs[Place(w.id)].gen
    <3>1. row \in Row /\ row.gen = rs[Place(w.id)].gen
      BY <2>2, UpdatedLemma
    <3>2. CASE w.op \in {"unblock", "promote", "retryNow", "retryWait"}
      BY <2>2, <3>1, <3>2 DEF Updated, Row
    <3>3. CASE w.op \notin {"unblock", "promote", "retryNow", "retryWait"}
      BY <2>2, <3>1, <3>3 DEF Updated, Row, RetryOps
    <3>. QED
      BY <3>1, <3>2, <3>3
  <2>. HIDE DEF row
  <2>4. ASSUME NEW k \in Hosts \X Parts
        PROVE  \/ Apply(rs, w)[k] = rs[k]
               \/ k = Place(w.id) /\ Apply(rs, w)[k] = row
    <3>. DEFINE id == w.id
    <3>1. id \in RowId /\ row.gen = rs[Place(id)].gen
      BY <1>1, <2>3
    <3>. HIDE DEF id
    <3>2. UpdateRow(rs, id, row)[k] = rs[k] \/ (k = Place(id) /\ UpdateRow(rs, id, row)[k] = row)
      BY <2>3, <3>1, UpdateRowShape
    <3>. QED
      BY <2>1, <3>2 DEF id
  <2>5. ASSUME w.op \in RetryOps, w.id = IdAt(rs, g, 0)
        PROVE  Apply(rs, w)[<<g, 0>>].status \in {"pending", "blocked"}
    <3>1. Place(w.id) = <<g, 0>> /\ w.id.gen = rs[<<g, 0>>].gen
      BY <2>5 DEF Place, IdAt
    <3>2. Apply(rs, w) = [rs EXCEPT ![<<g, 0>>] = row]
      BY <2>1, <3>1 DEF UpdateRow, Live
    <3>. QED
      BY <2>3, <2>5, <3>2, PartZero DEF Table
  <2>. QED
    BY <2>3, <2>4, <2>5, PartZero
<1>. QED
  BY <1>3, <1>4 DEF RetryOps

\* No worker rests before it has announced the row it took.
LEMMA GoesOn ==
  ASSUME WorkerTypeOK, NEW h \in Hosts, WorkerStep(h), ~FailFast(h)
  PROVE  /\ worker'[h].enabled = worker[h].enabled
         /\ Announce(h) \/ worker'[h].pc # "idle"
<1>. USE DEF At
<1>1. worker \in [Hosts -> WorkerState]
  BY DEF WorkerTypeOK
<1>2. /\ \A p : Go(h, p) => worker'[h].pc = p /\ worker'[h].enabled = worker[h].enabled
      /\ ToSettle(h) => worker'[h].pc = "settle" /\ worker'[h].enabled = worker[h].enabled
      /\ Fail(h) => worker'[h].pc = "except" /\ worker'[h].enabled = worker[h].enabled
      /\ Rest(h) => worker'[h].enabled = worker[h].enabled
  <2>1. \A p : Go(h, p) => worker'[h].pc = p /\ worker'[h].enabled = worker[h].enabled
    BY <1>1 DEF Go, WorkerState
  <2>2. Fail(h) => worker'[h].pc = "except" /\ worker'[h].enabled = worker[h].enabled
    BY <1>1 DEF Fail, WorkerState
  <2>3. /\ ToSettle(h) => worker'[h].pc = "settle" /\ worker'[h].enabled = worker[h].enabled
        /\ Rest(h) => worker'[h].enabled = worker[h].enabled
    BY <1>1 DEF ToSettle, Rest, Fresh
  <2>. QED
    BY <2>1, <2>2, <2>3
<1>3. CASE Pick(h) \/ CommitAdd(h)
  <2>1. CASE Pick(h)
    <3>1. PICK p \in Parts :
             worker' = [worker EXCEPT ![h].pc = "picked",
                                      ![h].row = IdAt(rows, h, p),
                                      ![h].dedupOnly = rows[<<h, p>>].dedupOnly]
      BY <2>1 DEF Pick
    <3>. QED
      BY <1>1, <3>1 DEF WorkerState
  <2>2. CASE CommitAdd(h)
    <3>1. PICK p \in worker[h].plan \ {0} :
             worker' = [worker EXCEPT ![h].pc = "commitPart",
                                      ![h].current = NextId(rows, h, p)]
      BY <2>2 DEF CommitAdd
    <3>. QED
      BY <1>1, <3>1 DEF WorkerState
  <2>. QED
    BY <1>3, <2>1, <2>2
<1>12. CASE CommitPart(h) \/ CommitHead(h)
  BY <1>1, <1>12 DEF CommitPart, CommitHead, WorkerState
<1>11. CASE Probe(h)
  BY <1>1, <1>2, <1>11 DEF Probe, WorkerState
<1>4. CASE ReadSiblings(h)
  BY <1>1, <1>2, <1>4 DEF ReadSiblings, WorkerState
<1>5. CASE GiveUp(h) \/ BeginPart(h) \/ ReadOutcome(h)
  BY <1>1, <1>5 DEF GiveUp, BeginPart, ReadOutcome, WorkerState
<1>6. CASE Quit(h) \/ StartUpload(h) \/ HandleError(h)
  BY <1>2, <1>6 DEF Quit, StartUpload, HandleError
<1>7. CASE Archive(h)
  <2>1. CASE Fail(h)
    BY <1>2, <2>1
  <2>2. CASE ~Fail(h)
    <3>1. PICK n \in 1 .. NumParts :
             worker' = [worker EXCEPT ![h].pc = "part", ![h].part = 0, ![h].count = n]
      BY <1>7, <2>2 DEF Archive
    <3>. QED
      BY <1>1, <3>1 DEF WorkerState
  <2>. QED
    BY <2>1, <2>2
<1>8. CASE SendPart(h)
  <2>1. CASE Fail(h)
    BY <1>2, <2>1
  <2>2. CASE worker' = [worker EXCEPT ![h].pc = "part", ![h].current = NoId, ![h].part = @ + 1]
    BY <1>1, <2>2 DEF WorkerState
  <2>. QED
    BY <1>8, <2>1, <2>2 DEF SendPart
<1>9. CASE EndParts(h)
  BY <1>1, <1>2, <1>9 DEF EndParts, WorkerState
<1>10. CASE Announce(h)
  BY <1>2, <1>10 DEF Announce
<1>. QED
  BY <1>3, <1>4, <1>5, <1>6, <1>7, <1>8, <1>9, <1>10, <1>11, <1>12 DEF WorkerStep

LEMMA WorkerKeepsSteady ==
  ASSUME Undisrupted, IInv, Steady, NEW h \in Hosts, Worker(h)
  PROVE  Steady' /\ ScanComes'
<1>1. /\ WorkerTypeOK /\ events \in Seq(Event) /\ worker[h] \in WorkerState
  BY DEF IInv, ThreadsOK, WorkerTypeOK, CoordinatorOK, TableTypeOK
<1>2. ~FailFast(h) /\ ~SpinUp(h)
  BY DEF Steady, Undisrupted, FailFast, SpinUp, At
<1>3. WorkerStep(h) /\ UNCHANGED managerVars
  BY <1>2 DEF Worker
<1>4. Works(h) /\ worker'[h].enabled = worker[h].enabled
  BY <1>1, <1>2, <1>3, WorkerWorks, GoesOn
<1>5. dedup' = dedup
  BY <1>3 DEF WorkerStep, FailFast, CommitPart, CommitHead, GiveUp, StartUpload, SendPart,
     HandleError, Pick, Quit, ReadSiblings, Probe, CommitAdd, Archive, BeginPart, EndParts,
     ReadOutcome, Announce, tableVars
<1>6. \A i \in DOMAIN events' : events'[i].kind = "settled"
  <2>1. CASE events' = events
    BY <2>1 DEF Steady
  <2>2. ASSUME NEW ok \in BOOLEAN, events' = Append(events, Settled(h, ok))
        PROVE  \A i \in DOMAIN events' : events'[i].kind = "settled"
    <3>. DEFINE e == Settled(h, ok)
    <3>1. e \in Event /\ e.kind = "settled"
      BY DEF Settled, Event
    <3>. HIDE DEF e
    <3>2. events' = Append(events, e)
      BY <2>2 DEF e
    <3>3. ASSUME NEW i \in DOMAIN events' PROVE events'[i].kind = "settled"
      <4>1. i \in 1 .. Len(events) + 1
        BY <1>1, <3>1, <3>2
      <4>2. CASE i \in DOMAIN events
        BY <1>1, <3>1, <3>2, <4>2 DEF Steady
      <4>3. CASE i = Len(events) + 1
        BY <1>1, <3>1, <3>2, <4>3
      <4>. QED
        BY <1>1, <4>1, <4>2, <4>3
    <3>. QED
      BY <3>3
  <2>. QED
    BY <1>4, <2>1, <2>2 DEF Works
<1>7. Steady'
  <2>1. ASSUME NEW g \in Hosts
        PROVE  /\ registry'[g] = "workers" /\ worker'[g].enabled /\ ~worker'[g].stop
               /\ worker'[g].pc \notin {"spinup", "stopped"}
    <3>1. CASE g = h
      BY <1>3, <1>4, <3>1 DEF Steady, Works, managerVars
    <3>2. CASE g # h
      BY <1>3, <1>4, <3>2 DEF Steady, Works, managerVars
    <3>. QED
      BY <3>1, <3>2
  <2>. QED
    BY <1>3, <1>5, <1>6, <2>1 DEF Steady, managerVars
<1>8. ScanComes'
  <2>1. CASE Announce(h)
    <3>. DEFINE e == Settled(h, worker[h].ok)
    <3>1. e \in Event
      BY <1>1 DEF Settled, Event, WorkerState
    <3>. HIDE DEF e
    <3>2. events' = Append(events, e)
      BY <2>1 DEF Announce, e
    <3>3. events' # <<>>
      BY <1>1, <3>1, <3>2
    <3>. QED
      BY <3>3 DEF ScanComes
  <2>2. CASE worker'[h].pc # "idle"
    BY <2>2 DEF ScanComes, At
  <2>. QED
    BY <1>1, <1>2, <1>3, <2>1, <2>2, GoesOn
<1>. QED
  BY <1>7, <1>8

\* A step after which no scan comes that was not coming before, and no retry
\* is taken back: what failed then, and what is stored, had already done so.
LEMMA OutcomesStay ==
  ASSUME RetryInv, Steady', KeepsOutcomes,
         ScanComes => ScanComes',
         \A h \in Hosts : GivenRetry(h) /\ Unretried(h)' /\ HeadId(h)' = HeadId(h) => GivenRetry(h)'
  PROVE  RetryInv'
<1>1. ASSUME NEW h \in Hosts, Unretried(h)', Stored'
      PROVE  ScanComes' \/ GivenRetry(h)'
  <2>1. Unretried(h) /\ HeadId(h)' = HeadId(h)
    BY <1>1 DEF Unretried, KeepsOutcomes, HeadIs, HeadId, IdAt
  <2>2. Stored
    BY <1>1 DEF Stored, KeepsOutcomes, HeadIs
  <2>. QED
    BY <1>1, <2>1, <2>2 DEF RetryInv
<1>. QED
  BY <1>1 DEF RetryInv

\* Nobody but the workers sends signals, and the main thread takes the first.
LEMMA SteadyStays ==
  ASSUME events \in Seq(Event), Steady, UNCHANGED <<worker, managerVars, dedup>>,
         events' = events \/ TakeEvent
  PROVE  Steady'
<1>1. \A i \in DOMAIN events' : events'[i].kind = "settled"
  <2>1. CASE events' = events
    BY <2>1 DEF Steady
  <2>2. CASE TakeEvent
    <3>1. events # <<>> /\ events' = Tail(events)
      BY <2>2 DEF TakeEvent
    <3>2. ASSUME NEW i \in DOMAIN events' PROVE events'[i].kind = "settled"
      <4>1. i + 1 \in DOMAIN events /\ events'[i] = events[i + 1]
        BY <3>1, <3>2
      <4>. QED
        BY <4>1 DEF Steady
    <3>. QED
      BY <3>2
  <2>. QED
    BY <2>1, <2>2
<1>. QED
  BY <1>1 DEF Steady, managerVars

\* A write that is made, and not lost, keeps outcomes.
LEMMA WriteKeepsOutcomes ==
  ASSUME Undisrupted, rows \in Table, NEW w \in Write, Commits(Apply(rows, w))
  PROVE  rows' = Apply(rows, w) /\ KeepsOutcomes
<1>1. rows' = Apply(rows, w)
  BY DEF Commits, Charge, Undisrupted
<1>2. ASSUME NEW g \in Hosts
      PROVE  \/ rows'[<<g, 0>>].status \in {"pending", "blocked"}
             \/ /\ rows'[<<g, 0>>].status = rows[<<g, 0>>].status
                /\ rows'[<<g, 0>>].gen = rows[<<g, 0>>].gen
                /\ rows'[<<g, 0>>].dedupOnly = rows[<<g, 0>>].dedupOnly
  BY <1>1, ApplyKeepsOutcomes
<1>. QED
  BY <1>1, <1>2 DEF KeepsOutcomes, HeadIs

LEMMA ScanAnswers ==
  ASSUME IInv, RetryInv, RetryScan, UNCHANGED <<worker, managerVars>>
  PROVE  RetryInv'
<1>1. /\ events \in Seq(Event) /\ rows \in Table /\ main \in MainState /\ UNCHANGED tableVars
  BY DEF IInv, CoordinatorOK, TableTypeOK, CoordinatorTypeOK, RetryScan
<1>2. Steady'
  BY <1>1, SteadyStays DEF RetryInv, tableVars
<1>. DEFINE winners == {h \in Heads : HeadRow(h).status = "completed"}
<1>3. CASE winners = {}
  <2>1. ~Stored
    BY <1>3 DEF Stored, HeadIs, Heads, HeadHosts, HeadRow
  <2>2. ~Stored'
    BY <1>1, <2>1 DEF Stored, HeadIs, tableVars
  <2>. QED
    BY <1>2, <2>2 DEF RetryInv
<1>4. CASE winners # {}
  <2>1. PICK v \in winners : MainGo("finish", {RetryOf(g, v) : g \in Losers})
    BY <1>4 DEF RetryScan
  <2>2. main'.pc = "finish" /\ main'.todo = {RetryOf(g, v) : g \in Losers}
    BY <1>1, <2>1 DEF MainGo, MainState
  <2>3. ASSUME NEW h \in Hosts, Unretried(h)' PROVE GivenRetry(h)'
    <3>1. h \in Losers
      BY <1>1, <2>3 DEF Losers, Heads, HeadHosts, HeadRow, Unretried, HeadIs, tableVars
    <3>2. RetryOf(h, v).op \in RetryOps /\ RetryOf(h, v).id = HeadId(h)
      BY DEF RetryOf, W, RetryOps
    <3>3. HeadId(h)' = HeadId(h)
      BY <1>1 DEF HeadId, IdAt, tableVars
    <3>. QED
      BY <2>2, <3>1, <3>2, <3>3 DEF GivenRetry
  <2>. QED
    BY <1>2, <2>3 DEF RetryInv
<1>. QED
  BY <1>3, <1>4

LEMMA MainWriteGives ==
  ASSUME Undisrupted, IInv, RetryInv, MainWrite, UNCHANGED <<worker, managerVars>>
  PROVE  RetryInv'
<1>1. /\ events \in Seq(Event) /\ rows \in Table /\ main \in MainState
      /\ main.todo \in SUBSET Write /\ UNCHANGED <<events, dedup>>
  BY DEF IInv, CoordinatorOK, TableTypeOK, CoordinatorTypeOK, MainWrite, MainState
<1>2. PICK w \in main.todo :
        /\ Commits(Apply(rows, w)) \/ (rows' = Apply(rows, w) /\ UNCHANGED faults)
        /\ main' = [main EXCEPT !.todo = @ \ {w}]
  BY DEF MainWrite
<1>3. w \in Write /\ main'.pc = main.pc /\ main'.todo = main.todo \ {w}
  BY <1>1, <1>2 DEF MainState
<1>4. Commits(Apply(rows, w))
  BY <1>2 DEF Commits
<1>5. rows' = Apply(rows, w) /\ KeepsOutcomes
  BY <1>1, <1>3, <1>4, WriteKeepsOutcomes
<1>6. Steady'
  BY <1>1, SteadyStays DEF RetryInv
<1>7. ScanComes => ScanComes'
  BY <1>1, <1>3 DEF ScanComes, At
<1>8. ASSUME NEW h \in Hosts, GivenRetry(h), Unretried(h)', HeadId(h)' = HeadId(h)
      PROVE  GivenRetry(h)'
  <2>1. PICK v \in main.todo : v.op \in RetryOps /\ v.id = HeadId(h)
    BY <1>8 DEF GivenRetry
  <2>2. v # w
    <3>1. w.op \in RetryOps /\ w.id = IdAt(rows, h, 0) =>
             rows'[<<h, 0>>].status \in {"pending", "blocked"}
      BY <1>1, <1>3, <1>5, ApplyKeepsOutcomes
    <3>. QED
      BY <1>8, <2>1, <3>1 DEF Unretried, HeadIs, HeadId
  <2>. QED
    BY <1>3, <1>8, <2>1, <2>2 DEF GivenRetry
<1>. QED
  BY <1>5, <1>6, <1>7, <1>8, OutcomesStay

LEMMA MainKeepsRetries ==
  ASSUME Undisrupted, IInv, RetryInv, MainStep, UNCHANGED <<worker, managerVars>>
  PROVE  RetryInv'
<1>1. /\ events \in Seq(Event) /\ rows \in Table /\ main \in MainState
  BY DEF IInv, CoordinatorOK, TableTypeOK, CoordinatorTypeOK
<1>2. ASSUME Steady', ScanComes' PROVE RetryInv'
  BY <1>2 DEF RetryInv
<1>3. \A p, todo : MainGo(p, todo) => main'.pc = p
  BY <1>1 DEF MainGo, MainState
<1>4. CASE TakeEvent
  <2>1. Steady'
    BY <1>1, <1>4, SteadyStays DEF RetryInv, TakeEvent
  <2>2. main'.pc = "react"
    BY <1>1, <1>4 DEF TakeEvent, RetryInv, Steady, MainState
  <2>. QED
    BY <1>2, <2>1, <2>2 DEF ScanComes
<1>5. CASE HandleSuccess \/ MainUnblock \/ HandleFailure
  <2>1. Steady'
    BY <1>1, <1>5, SteadyStays DEF RetryInv, HandleSuccess, MainUnblock, HandleFailure, tableVars
  <2>2. CASE HandleSuccess
    BY <1>1, <1>2, <1>3, <2>1, <2>2 DEF HandleSuccess, MainState, ScanComes
  <2>3. CASE MainUnblock \/ HandleFailure
    BY <1>2, <1>3, <2>1, <2>3 DEF MainUnblock, HandleFailure, ScanComes
  <2>. QED
    BY <1>5, <2>2, <2>3
<1>6. CASE RetryScan
  BY <1>6, ScanAnswers
<1>7. CASE MainWrite
  BY <1>7, MainWriteGives
<1>8. CASE WritesDone
  <2>1. Steady'
    BY <1>1, <1>8, SteadyStays DEF RetryInv, WritesDone, tableVars
  <2>2. CASE main.pc = "write"
    BY <1>2, <1>3, <1>8, <2>1, <2>2 DEF WritesDone, ScanComes
  <2>3. CASE main.pc # "write"
    <3>1. UNCHANGED <<rows, events, worker>> /\ main.pc = "finish" /\ main.todo = {}
      BY <1>8, <2>3 DEF WritesDone, tableVars
    <3>2. KeepsOutcomes
      BY <3>1 DEF KeepsOutcomes
    <3>3. ScanComes => ScanComes'
      BY <3>1 DEF ScanComes, At
    <3>4. \A h \in Hosts : ~GivenRetry(h)
      BY <3>1 DEF GivenRetry
    <3>. QED
      BY <2>1, <3>2, <3>3, <3>4, OutcomesStay
  <2>. QED
    BY <2>2, <2>3
<1>. QED
  BY <1>4, <1>5, <1>6, <1>7, <1>8 DEF MainStep

\* What leaves signals, workers and the main thread's retries alone.
LEMMA OthersKeepRetries ==
  ASSUME IInv, RetryInv, KeepsOutcomes, UNCHANGED <<events, dedup, worker, managerVars>>,
         main' = main \/ (main.pc = "idle" /\ UNCHANGED rows)
  PROVE  RetryInv'
<1>1. events \in Seq(Event)
  BY DEF IInv, CoordinatorOK, TableTypeOK
<1>2. Steady'
  BY <1>1, SteadyStays DEF RetryInv
<1>3. ScanComes => ScanComes'
  BY DEF ScanComes, At
<1>4. ASSUME NEW h \in Hosts, GivenRetry(h), HeadId(h)' = HeadId(h)
      PROVE  GivenRetry(h)'
  BY <1>4 DEF GivenRetry
<1>. QED
  BY <1>2, <1>3, <1>4, OutcomesStay

LEMMA NextRetries == Undisrupted /\ IInv /\ RetryInv /\ [Next]_vars => RetryInv'
<1>. SUFFICES ASSUME Undisrupted, IInv, RetryInv, [Next]_vars PROVE RetryInv'
  OBVIOUS
<1>1. /\ rows \in Table /\ main \in MainState /\ pollers \in SUBSET Poller
      /\ \A h \in Hosts : rows[<<h, 0>>] \in Row
  BY PartZero DEF IInv, CoordinatorOK, TableTypeOK, CoordinatorTypeOK, Table
<1>2. UNCHANGED rows => KeepsOutcomes
  BY DEF KeepsOutcomes
<1>3. ASSUME NEW h \in Hosts, Worker(h) PROVE RetryInv'
  BY <1>3, WorkerKeepsSteady DEF RetryInv
<1>4. CASE Main
  <2>1. CASE MainStep /\ UNCHANGED <<worker, managerVars>>
    BY <2>1, MainKeepsRetries
  <2>2. ~TakeSpinup
    <3>1. events # <<>> => 1 \in DOMAIN events
      BY DEF IInv, CoordinatorOK, TableTypeOK
    <3>. QED
      BY <3>1 DEF TakeSpinup, RetryInv, Steady
  <2>. QED
    BY <1>4, <2>1, <2>2 DEF Main
<1>5. CASE Md5Poller
  <2>1. UNCHANGED <<events, dedup, main, worker, managerVars>>
    BY <1>5 DEF Md5Poller, PollerStep, PollerWrite, Fire, PollMd5, PollerUnblock,
       PollerEnds, tableVars
  <2>2. ASSUME NEW p \in pollers, PollerWrite(p) PROVE KeepsOutcomes
    <3>1. p.todo \in SUBSET Write
      BY <1>1 DEF Poller
    <3>. QED
      BY <1>1, <2>2, <3>1, WriteKeepsOutcomes DEF PollerWrite
  <2>3. ASSUME NEW p \in pollers, PollMd5(p) PROVE KeepsOutcomes
    <3>. DEFINE id == p.primary
                row == [rows[Place(id)] EXCEPT !.md5 = TRUE]
    <3>1. CASE rows' = UpdateRow(rows, id, row)
      <4>1. id \in RowId
        BY <1>1 DEF Poller
      <4>2. rows[Place(id)] \in Row
        BY <1>1, <4>1, PlaceType DEF Table
      <4>3. /\ row \in Row /\ row.gen = rows[Place(id)].gen
            /\ row.status = rows[Place(id)].status /\ row.dedupOnly = rows[Place(id)].dedupOnly
        BY <4>2 DEF Row
      <4>. HIDE DEF id, row
      <4>4. ASSUME NEW k \in Hosts \X Parts
            PROVE  rows'[k] = rows[k] \/ (k = Place(id) /\ rows'[k] = row)
        BY <1>1, <3>1, <4>1, <4>3, UpdateRowShape
      <4>. QED
        BY <4>3, <4>4, PartZero DEF KeepsOutcomes
    <3>2. CASE UNCHANGED rows
      BY <1>2, <3>2
    <3>. QED
      BY <2>3, <3>1, <3>2 DEF PollMd5
  <2>4. ASSUME NEW p \in pollers, Fire(p) \/ PollerUnblock(p) \/ PollerEnds(p)
        PROVE  KeepsOutcomes
    BY <1>2, <2>4 DEF Fire, PollerUnblock, PollerEnds, tableVars
  <2>5. KeepsOutcomes
    BY <1>5, <2>2, <2>3, <2>4 DEF Md5Poller, PollerStep
  <2>. QED
    BY <2>1, <2>5, OthersKeepRetries
<1>6. ~(Manager \/ EnableHost)
  <2>1. ~Manager
    BY DEF Manager, Disabled, CloseNext, RetryInv, Steady
  <2>2. ~EnableHost
    BY DEF EnableHost, Enable, RetryInv, Steady
  <2>. QED
    BY <2>1, <2>2
<1>7. ~(InsertFails \/ WorkerFails \/ BookkeepingFails \/ SettledHandlerFails \/ Md5PollerFails
         \/ DisableHost \/ ToggleDedup \/ Crash \/ Shutdown)
  BY DEF Undisrupted, Charge, InsertFails, WorkerFails, BookkeepingFails, SettledHandlerFails,
     Md5PollerFails, DisableHost, ToggleDedup, Crash, Shutdown
<1>8. ~Exit
  BY DEF Exit, Closed, RetryInv, Steady
<1>9. CASE FirstTrigger \/ Retrigger
  <2>1. /\ UNCHANGED <<rows, events, dedup, worker, managerVars>>
        /\ main.pc = "idle"
    BY <1>9 DEF FirstTrigger, Retrigger, QueueGallery, tableVars
  <2>. QED
    BY <1>2, <2>1, OthersKeepRetries
<1>10. CASE UserReupload
  <2>1. PICK h \in Hosts : Reupload(h)
    BY <1>10 DEF UserReupload
  <2>. DEFINE p == 0
              no == FALSE
              status == "pending"
  <2>2. /\ p \in Parts /\ status \in Status /\ NoId \in RowId \union {NoId} /\ no \in BOOLEAN
    BY PartZero DEF Status
  <2>3. rows' = AddRow(rows, h, p, status, NoId, no)
    BY <2>1 DEF Reupload
  <2>4. status = "pending"
    OBVIOUS
  <2>5. p = 0
    OBVIOUS
  <2>. HIDE DEF p, no, status
  <2>6. /\ \A k \in Hosts \X Parts : k # <<h, p>> => rows'[k] = rows[k]
        /\ rows'[<<h, p>>].status = status
    BY <1>1, <2>2, <2>3, AddRowShape
  <2>7. KeepsOutcomes
    BY <2>4, <2>5, <2>6, PartZero DEF KeepsOutcomes, HeadIs
  <2>8. UNCHANGED <<events, dedup, main, worker, managerVars>>
    BY <1>10, <2>1 DEF UserReupload, Reupload
  <2>. QED
    BY <2>7, <2>8, OthersKeepRetries
<1>11. CASE UNCHANGED vars
  BY <1>2, <1>11, OthersKeepRetries DEF vars, managerVars
<1>. QED
  BY <1>3, <1>4, <1>5, <1>6, <1>7, <1>8, <1>9, <1>10, <1>11 DEF Next, Environment

\* Once all is quiet, a member that failed has its retry by mirror if anybody
\* has the gallery, however many members, parts and retries there are, and
\* whatever is queued again (_run_family_retry_scan).
THEOREM FailedMembersAreRetried ==
  ASSUME Undisrupted
  PROVE  Spec => []WinnerRetriesFailures
<1>1. Init => RetryInv
  <2>1. SUFFICES ASSUME Init PROVE RetryInv
    OBVIOUS
  <2>2. Steady
    BY <2>1 DEF Init, TableInit, WorkerInit, ManagerInit, ManagerIdle, Fresh, Steady
  <2>3. \A h \in Hosts : ~HeadIs(h, {"failed"})
    BY <2>1, PartZero DEF Init, TableInit, NewRow, HeadIs
  <2>. QED
    BY <2>2, <2>3 DEF RetryInv, Unretried
<1>2. IInv /\ RetryInv /\ [Next]_vars => RetryInv'
  BY NextRetries
<1>3. RetryInv => WinnerRetriesFailures
  BY DEF RetryInv, WinnerRetriesFailures, Quiet, ScanComes, GivenRetry, Unretried, Stored
<1>. QED
  BY <1>1, <1>2, <1>3, SpecIInv, PTL DEF Spec

-----------------------------------------------------------------------------
(* Turns.  Until a member has stored the gallery, the turn to upload it is  *)
(* in one place: the row that is pending or uploading, the worker that will *)
(* announce that it failed, that signal, the main thread answering it, or   *)
(* the write that queues or promotes the next.  Each retry a worker makes   *)
(* by itself brings one more turn into being: the row is pending again, and *)
(* its failure announced all the same.                                      *)

\* Archives of one part, nothing queued again, and neither the setting nor the
\* database failing.
OneByOne ==
    /\ NumParts = 1
    /\ Faults \subseteq {"badurl", "folder", "stop", "spinup", "crash", "shutdown"}

RowTurn(h) == HeadIs(h, {"pending", "uploading"})
EndTurn(h) == worker[h].pc \in {"settle", "announce"}
SignalTurns(q) == {i \in DOMAIN q : q[i].kind = "settled"}

Turns ==
    {<<"row", h>> : h \in {g \in Hosts : RowTurn(g)}}
      \union {<<"end", h>> : h \in {g \in Hosts : EndTurn(g)}}
      \union {<<"signal", i>> : i \in SignalTurns(events)}
      \union {t \in {<<"answer", 0>>} : main.pc = "react"}
      \union {t \in {<<"write", 0>>} : First(main.todo) # {}}

NotBegun == \A h \in Hosts : rows[<<h, 0>>].gen = 0

AtWork == {"picked", "missed", "archive", "part", "send", "except"}

RowFirst(h) ==
    /\ ~HeadIs(h, {"completed"}) /\ ~rows[<<h, 0>>].dedupOnly
    /\ rows[<<h, 0>>].gen = 0 => HeadIs(h, {"absent"}) /\ rows[<<h, 0>>].retries = 0

\* A busy worker has its host's head, and one that will announce has failed, for
\* good or until its retry.
WorkerFirst(h) ==
    /\ worker[h].pc \notin {"probe", "commit", "commitPart"}
    /\ worker[h].pc \in AtWork =>
          RowTurn(h) /\ worker[h].row = HeadId(h) /\ ~worker[h].dedupOnly
    /\ worker[h].pc \in {"part", "send"} => worker[h].part = 0
    /\ worker[h].pc = "send" => worker[h].current = HeadId(h)
    /\ worker[h].pc = "settle" => HeadIs(h, {"pending", "failed"})
    /\ worker[h].pc = "announce" => ~worker[h].ok

SignalsFirst(q) == \A i \in SignalTurns(q) : ~q[i].ok

Queues == {"queuePending", "queueBlocked"}

\* Rows are queued where there is none, once for a host, and who is promoted
\* waits.
TodoFirst(todo) ==
    /\ \A w \in todo :
          /\ w.op \in Queues \union {"promote", "reassign"}
          /\ w.op \in Queues => rows[<<w.id.host, 0>>].gen = 0
          /\ w.op = "promote" => HeadIs(w.id.host, {"blocked"})
    /\ \A v, w \in todo : v.op \in Queues /\ w.op \in Queues /\ v.id.host = w.id.host => v = w
    /\ \A v, w \in First(todo) : v = w

\* No more turns than the first one and those of the retries.
TurnsCounted ==
    IsFiniteSet(Turns) /\ Cardinality(Turns) <= 1 + Cardinality(AutoRetries)

\* No member has stored the gallery yet.
NoneStored ==
    /\ \A h \in Hosts : RowFirst(h) /\ WorkerFirst(h)
    /\ TodoFirst(main.todo) /\ SignalsFirst(events)
    /\ pollers = {}
    /\ main.pc # "unblock" /\ (main.pc = "react" => ~main.ev.ok)
    /\ NotBegun => Turns \subseteq {<<"write", 0>>}
    /\ TurnsCounted

\* What is left to write only changes what h waits for.
Leaves(todo, h) == \A w \in todo : w.op # "reassign" => w.id.host # h

\* h has stored the gallery, and nobody will write its row again.
StoredBy(h) ==
    /\ HeadIs(h, {"completed"}) /\ rows[<<h, 0>>].gen # 0
    /\ worker[h].pc \in {"idle", "stopped", "spinup", "settle", "announce", "part"}
    /\ worker[h].pc = "part" => worker[h].part # 0
    /\ Leaves(main.todo, h) /\ \A p \in pollers : Leaves(p.todo, h)

\* A worker writes rows of its own host only.
OwnRows ==
    \A h \in Hosts :
        /\ worker[h].row # NoId => worker[h].row.host = h
        /\ worker[h].current # NoId => worker[h].current.host = h

OneTurn == dedup /\ OwnRows /\ (NoneStored \/ \E h \in Hosts : StoredBy(h))

-----------------------------------------------------------------------------
LEMMA OnePart == ASSUME OneByOne PROVE Parts = {0} /\ \A k \in Hosts \X Parts : k = <<k[1], 0>>
<1>1. Parts = {0}
  BY DEF OneByOne, Parts
<1>. QED
  BY <1>1

\* An id that is missing names no row.
LEMMA UpdateElsewhere ==
  ASSUME NEW rs \in Table, NEW id \in RowId \union {NoId}, NEW new, NEW g \in Hosts,
         id # NoId => id.host # g
  PROVE  UpdateRow(rs, id, new)[<<g, 0>>] = rs[<<g, 0>>]
<1>1. Place(id) # <<g, 0>>
  BY DEF Place, NoId, Hosts
<1>. QED
  BY <1>1, PartZero DEF UpdateRow, Table

\* The head row that a trigger inserts.
Queued(rs, h, status, by) == AddRow(rs, h, 0, status, by, FALSE)

LEMMA QueuedRow ==
  ASSUME NEW rs \in Table, NEW h \in Hosts, NEW status \in Status, NEW by
  PROVE  LET row == Queued(rs, h, status, by)[<<h, 0>>] IN
         /\ row.gen = rs[<<h, 0>>].gen + 1 /\ row.status = status
         /\ ~row.dedupOnly /\ row.retries = 0
<1>. DEFINE new == NewRow(rs[<<h, 0>>].gen + 1, status, by, FALSE)
<1>1. /\ new.gen = rs[<<h, 0>>].gen + 1 /\ new.status = status
      /\ ~new.dedupOnly /\ new.retries = 0
  BY DEF NewRow
<1>2. Queued(rs, h, status, by)[<<h, 0>>] = new
  BY PartZero DEF Queued, AddRow, Table
<1>. HIDE DEF new
<1>. QED
  BY <1>1, <1>2

\* A write touches the head of its host only.
LEMMA ApplyElsewhere ==
  ASSUME NEW rs \in Table, NEW w \in Write, NEW g \in Hosts, w.id.host # g
  PROVE  Apply(rs, w)[<<g, 0>>] = rs[<<g, 0>>]
<1>1. w.id \in RowId /\ <<g, 0>> \in Hosts \X Parts
  BY PartZero DEF Write
<1>2. CASE w.op \in Queues
  BY <1>1, <1>2 DEF Apply, AddRow, Queues, Table
<1>3. CASE w.op \notin Queues
  <2>. DEFINE new == Updated(rs[Place(w.id)], w)
  <2>1. Apply(rs, w) = UpdateRow(rs, w.id, new)
    BY <1>3 DEF Apply, Queues
  <2>. HIDE DEF new
  <2>. QED
    BY <1>1, <2>1, UpdateElsewhere
<1>. QED
  BY <1>2, <1>3

LEMMA ReassignKeeps ==
  ASSUME NEW rs \in Table, NEW w \in Write, w.op = "reassign", NEW g \in Hosts
  PROVE  /\ Apply(rs, w)[<<g, 0>>].status = rs[<<g, 0>>].status
         /\ Apply(rs, w)[<<g, 0>>].gen = rs[<<g, 0>>].gen
         /\ Apply(rs, w)[<<g, 0>>].dedupOnly = rs[<<g, 0>>].dedupOnly
         /\ Apply(rs, w)[<<g, 0>>].retries = rs[<<g, 0>>].retries
<1>. DEFINE new == [rs[Place(w.id)] EXCEPT !.blockedBy = w.on]
<1>1. Apply(rs, w) = UpdateRow(rs, w.id, new)
  BY DEF Apply, Updated
<1>2. Place(w.id) \in Hosts \X Parts /\ <<g, 0>> \in Hosts \X Parts /\ rs[Place(w.id)] \in Row
  BY PlaceType, PartZero DEF Write, Table
<1>3. /\ new.status = rs[Place(w.id)].status /\ new.gen = rs[Place(w.id)].gen
      /\ new.dedupOnly = rs[Place(w.id)].dedupOnly /\ new.retries = rs[Place(w.id)].retries
  BY <1>2 DEF Row
<1>. HIDE DEF new
<1>4. Apply(rs, w)[<<g, 0>>] = rs[<<g, 0>>] \/ (<<g, 0>> = Place(w.id) /\ Apply(rs, w)[<<g, 0>>] = new)
  BY <1>1, <1>2 DEF UpdateRow, Table
<1>. QED
  BY <1>3, <1>4

\* A worker writes no other host's head, and replaces none.
LEMMA WorkerRows ==
  ASSUME rows \in Table, WorkerTypeOK, OwnRows, NEW h \in Hosts, WorkerStep(h)
  PROVE  /\ \A g \in Hosts \ {h} : rows'[<<g, 0>>] = rows[<<g, 0>>]
         /\ rows'[<<h, 0>>].gen = rows[<<h, 0>>].gen
<1>1. /\ worker[h].row \in RowId \union {NoId} /\ worker[h].current \in RowId \union {NoId}
      /\ worker[h].row # NoId => worker[h].row.host = h
      /\ worker[h].current # NoId => worker[h].current.host = h
      /\ worker[h].plan \in SUBSET Parts /\ worker[h].part \in 0 .. NumParts
      /\ worker[h].count \in 0 .. NumParts
  BY DEF WorkerTypeOK, WorkerState, OwnRows
<1>. DEFINE Kept(rs) == /\ \A g \in Hosts \ {h} : rs[<<g, 0>>] = rows[<<g, 0>>]
                        /\ rs[<<h, 0>>].gen = rows[<<h, 0>>].gen
<1>2. Kept(rows)
  OBVIOUS
<1>3. ASSUME NEW id \in RowId \union {NoId}, id # NoId => id.host = h,
             NEW new, id \in RowId => new.gen = rows[Place(id)].gen
      PROVE  Kept(UpdateRow(rows, id, new))
  <2>1. \A g \in Hosts \ {h} : UpdateRow(rows, id, new)[<<g, 0>>] = rows[<<g, 0>>]
    BY <1>3, UpdateElsewhere
  <2>2. UpdateRow(rows, id, new)[<<h, 0>>].gen = rows[<<h, 0>>].gen
    BY <1>3, PartZero, NoPlace DEF UpdateRow, Table
  <2>. QED
    BY <2>1, <2>2
<1>4. \A id \in RowId : rows[Place(id)] \in Row
  BY PlaceType DEF Table
<1>5. ASSUME NEW id \in RowId \union {NoId}, id # NoId => id.host = h, NEW status
      PROVE  Kept(SetStatus(rows, id, status))
  <2>1. id \in RowId => [rows[Place(id)] EXCEPT !.status = status].gen = rows[Place(id)].gen
    BY <1>4 DEF Row
  <2>. QED
    BY <1>3, <1>5, <2>1 DEF SetStatus
<1>6. ASSUME NEW id \in RowId \union {NoId}, id # NoId => id.host = h
      PROVE  /\ Kept(UpdateRow(rows, id, Mirrored(rows[Place(id)])))
             /\ Kept(Requeued(id))
  <2>1. id \in RowId => Mirrored(rows[Place(id)]).gen = rows[Place(id)].gen
    BY <1>4 DEF Row, Mirrored
  <2>2. id \in RowId => [rows[Place(id)] EXCEPT !.status = "pending", !.retries = @ + 1].gen
                           = rows[Place(id)].gen
    BY <1>4 DEF Row
  <2>3. Kept(UpdateRow(rows, id, Mirrored(rows[Place(id)])))
    BY <1>3, <1>6, <2>1
  <2>4. Kept(Requeued(id))
    BY <1>3, <1>6, <2>2 DEF Requeued
  <2>. QED
    BY <2>3, <2>4
<1>7. ASSUME NEW new, Commits(new), Kept(new) PROVE Kept(rows')
  BY <1>2, <1>7 DEF Commits
<1>8. ASSUME NEW p \in Parts \ {0}, NEW status, NEW only
      PROVE  Kept(AddRow(rows, h, p, status, NoId, only))
  BY <1>8, PartZero DEF AddRow, Table
<1>9. CASE FailFast(h) \/ GiveUp(h) \/ StartUpload(h)
  <2>1. \A s : Kept(SetStatus(rows, worker[h].row, s))
    BY <1>1, <1>5
  <2>. HIDE DEF Kept
  <2>2. Kept(rows')
    BY <1>7, <1>9, <2>1 DEF FailFast, GiveUp, StartUpload
  <2>. QED
    BY <2>2 DEF Kept
<1>10. CASE CommitPart(h) \/ CommitHead(h)
  <2>1. /\ Kept(UpdateRow(rows, worker[h].current, Mirrored(rows[Place(worker[h].current)])))
        /\ Kept(UpdateRow(rows, worker[h].row, Mirrored(rows[Place(worker[h].row)])))
    BY <1>1, <1>6
  <2>. HIDE DEF Kept
  <2>2. Kept(rows')
    BY <1>2, <1>7, <1>10, <2>1 DEF CommitPart, CommitHead, WithHead
  <2>. QED
    BY <2>2 DEF Kept
<1>11. CASE SendPart(h)
  <2>. DEFINE id == worker[h].current
  <2>1. \A url : Kept(UpdateRow(rows, id, [rows[Place(id)] EXCEPT !.status = "completed", !.url = url]))
    <3>1. \A url : id \in RowId => [rows[Place(id)] EXCEPT !.status = "completed", !.url = url].gen
                                     = rows[Place(id)].gen
      BY <1>4 DEF Row
    <3>. QED
      BY <1>1, <1>3, <3>1
  <2>. HIDE DEF Kept
  <2>2. Kept(rows')
    BY <1>2, <1>7, <1>11, <2>1 DEF SendPart
  <2>. QED
    BY <2>2 DEF Kept
<1>12. CASE HandleError(h)
  <2>1. Kept(AfterError(h))
    BY <1>1, <1>5, <1>6 DEF AfterError
  <2>. HIDE DEF Kept
  <2>2. Kept(rows')
    BY <1>7, <1>12, <2>1 DEF HandleError
  <2>. QED
    BY <2>2 DEF Kept
<1>13. CASE CommitAdd(h)
  <2>1. PICK p \in worker[h].plan \ {0} : rows' = AddRow(rows, h, p, "pending", NoId, TRUE)
    BY <1>13 DEF CommitAdd
  <2>2. p \in Parts \ {0}
    BY <1>1, <2>1
  <2>. HIDE DEF Kept
  <2>3. Kept(rows')
    BY <1>8, <2>1, <2>2
  <2>. QED
    BY <2>3 DEF Kept
<1>14. CASE BeginPart(h)
  <2>. DEFINE p == worker[h].part
              id == IF p = 0 THEN worker[h].row ELSE NextId(rows, h, p)
              rs == WithPartRow(h, p)
  <2>1. p \in Parts /\ rows' = UpdateRow(rs, id, WithHash(h, rs[Place(id)]))
    BY <1>1, <1>14, SizeAssumption DEF BeginPart, Parts
  <2>2. CASE p = 0
    <3>1. rs = rows /\ id = worker[h].row
      BY <2>2 DEF WithPartRow
    <3>2. worker[h].row \in RowId => WithHash(h, rows[Place(worker[h].row)]).gen = rows[Place(worker[h].row)].gen
      BY <1>4 DEF WithHash, Row
    <3>3. Kept(UpdateRow(rows, worker[h].row, WithHash(h, rows[Place(worker[h].row)])))
      BY <1>1, <1>3, <3>2
    <3>. QED
      BY <2>1, <3>1, <3>3
  <2>3. CASE p # 0
    <3>1. Place(id) = <<h, p>>
      BY <2>3 DEF Place, NextId, IdAt
    <3>2. \A g \in Hosts : rs[<<g, 0>>] = rows[<<g, 0>>]
      BY <2>1, <2>3, PartZero DEF WithPartRow, AddRow, Table
    <3>3. \A g \in Hosts : rows'[<<g, 0>>] = rs[<<g, 0>>]
      <4>1. DOMAIN rs = Hosts \X Parts
        BY <2>3 DEF WithPartRow, AddRow, Table
      <4>. HIDE DEF rs, id, p
      <4>2. ASSUME NEW g \in Hosts PROVE rows'[<<g, 0>>] = rs[<<g, 0>>]
        <5>1. <<g, 0>> \in DOMAIN rs
          BY <4>1, PartZero
        <5>2. <<g, 0>> # Place(id)
          BY <2>3, <3>1
        <5>. DEFINE new == WithHash(h, rs[Place(id)])
        <5>3. rows' = UpdateRow(rs, id, new)
          BY <2>1
        <5>. HIDE DEF new
        <5>. QED
          BY <5>1, <5>2, <5>3 DEF UpdateRow
      <4>. QED
        BY <4>2
    <3>. QED
      BY <3>2, <3>3
  <2>. QED
    BY <2>2, <2>3
<1>15. CASE Pick(h) \/ Quit(h) \/ ReadSiblings(h) \/ Probe(h) \/ Archive(h) \/ EndParts(h)
            \/ ReadOutcome(h) \/ Announce(h)
  BY <1>2, <1>15 DEF Pick, Quit, ReadSiblings, Probe, Archive, EndParts, ReadOutcome, Announce,
     tableVars
<1>. QED
  BY <1>9, <1>10, <1>11, <1>12, <1>13, <1>14, <1>15 DEF WorkerStep

\* The ids a worker takes are of rows of its host.
LEMMA WorkerIds ==
  ASSUME WorkerTypeOK, OwnRows, NEW h \in Hosts, WorkerStep(h)
  PROVE  OwnRows'
<1>. DEFINE ofHost(id) == id # NoId => id.host = h
<1>1. worker \in [Hosts -> WorkerState]
  BY DEF WorkerTypeOK
<1>2. worker[h] \in WorkerState /\ ofHost(worker[h].row) /\ ofHost(worker[h].current) /\ ofHost(NoId)
  BY <1>1 DEF OwnRows
<1>3. \A p : ofHost(IdAt(rows, h, p)) /\ ofHost(NextId(rows, h, p))
  BY DEF IdAt, NextId
<1>4. ASSUME worker'[h].row = worker[h].row, worker'[h].current = worker[h].current
      PROVE  ofHost(worker'[h].row) /\ ofHost(worker'[h].current)
  BY <1>2, <1>4
<1>5. /\ \A q : Go(h, q) => worker'[h].row = worker[h].row /\ worker'[h].current = worker[h].current
      /\ Fail(h) => worker'[h].row = worker[h].row /\ worker'[h].current = worker[h].current
  <2>1. \A q : Go(h, q) => worker'[h].row = worker[h].row /\ worker'[h].current = worker[h].current
    BY <1>1 DEF Go, WorkerState
  <2>2. Fail(h) => worker'[h].row = worker[h].row /\ worker'[h].current = worker[h].current
    BY <1>1 DEF Fail, WorkerState
  <2>. QED
    BY <2>1, <2>2
<1>6. /\ Rest(h) => worker'[h].row = NoId /\ worker'[h].current = NoId
      /\ ToSettle(h) => worker'[h].row = worker[h].row /\ worker'[h].current = NoId
  BY <1>1 DEF Rest, ToSettle, Fresh
<1>. HIDE DEF ofHost
<1>7. CASE Pick(h)
  <2>1. PICK p \in Parts : worker' = [worker EXCEPT ![h].pc = "picked",
                                          ![h].row = IdAt(rows, h, p),
                                          ![h].dedupOnly = rows[<<h, p>>].dedupOnly]
    BY <1>7 DEF Pick
  <2>2. worker'[h].row = IdAt(rows, h, p) /\ worker'[h].current = worker[h].current
    BY <1>1, <2>1 DEF WorkerState
  <2>. QED
    BY <1>2, <1>3, <2>2, WorkerWorks DEF OwnRows, Works, ofHost
<1>8. CASE CommitAdd(h)
  <2>1. PICK p \in worker[h].plan \ {0} :
           worker' = [worker EXCEPT ![h].pc = "commitPart", ![h].current = NextId(rows, h, p)]
    BY <1>8 DEF CommitAdd
  <2>2. worker'[h].row = worker[h].row /\ worker'[h].current = NextId(rows, h, p)
    BY <1>1, <2>1 DEF WorkerState
  <2>. QED
    BY <1>2, <1>3, <2>2, WorkerWorks DEF OwnRows, Works, ofHost
<1>9. CASE ~Pick(h) /\ ~CommitAdd(h)
  <2>1. ofHost(worker'[h].row) /\ ofHost(worker'[h].current)
    <3>1. CASE FailFast(h) \/ Announce(h)
      BY <1>2, <1>6, <3>1 DEF FailFast, Announce
    <3>2. CASE HandleError(h)
      BY <1>2, <1>6, <3>2 DEF HandleError
    <3>3. CASE EndParts(h)
      <4>1. CASE ToSettle(h)
        BY <1>2, <1>6, <4>1
      <4>2. CASE worker' = [worker EXCEPT ![h].pc = "except", ![h].retryable = TRUE]
        <5>1. worker'[h].row = worker[h].row /\ worker'[h].current = worker[h].current
          BY <1>1, <4>2 DEF WorkerState
        <5>. QED
          BY <1>4, <5>1
      <4>. QED
        BY <3>3, <4>1, <4>2 DEF EndParts
    <3>4. CASE CommitPart(h)
      BY <1>1, <1>2, <3>4 DEF CommitPart, WorkerState
    <3>5. CASE CommitHead(h) \/ GiveUp(h) \/ ReadOutcome(h)
      <4>1. worker'[h].row = worker[h].row /\ worker'[h].current = worker[h].current
        BY <1>1, <3>5 DEF CommitHead, GiveUp, ReadOutcome, WorkerState
      <4>. QED
        BY <1>4, <4>1
    <3>6. CASE Quit(h) \/ StartUpload(h)
      BY <1>4, <1>5, <3>6 DEF Quit, StartUpload
    <3>7. CASE ReadSiblings(h)
      <4>1. CASE Go(h, "missed")
        BY <1>4, <1>5, <4>1
      <4>2. CASE worker' = [worker EXCEPT ![h].pc = "probe", ![h].plan = SiblingParts(rows, h)]
        <5>1. worker'[h].row = worker[h].row /\ worker'[h].current = worker[h].current
          BY <1>1, <4>2 DEF WorkerState
        <5>. QED
          BY <1>4, <5>1
      <4>. QED
        BY <3>7, <4>1, <4>2 DEF ReadSiblings
    <3>8. CASE Probe(h)
      <4>1. CASE Go(h, "commit")
        BY <1>4, <1>5, <4>1
      <4>2. CASE worker' = [worker EXCEPT ![h].pc = "missed", ![h].plan = {}]
        <5>1. worker'[h].row = worker[h].row /\ worker'[h].current = worker[h].current
          BY <1>1, <4>2 DEF WorkerState
        <5>. QED
          BY <1>4, <5>1
      <4>. QED
        BY <3>8, <4>1, <4>2 DEF Probe
    <3>9. CASE Archive(h)
      <4>1. CASE Fail(h)
        BY <1>4, <1>5, <4>1
      <4>2. CASE ~Fail(h)
        <5>1. PICK n \in 1 .. NumParts :
                 worker' = [worker EXCEPT ![h].pc = "part", ![h].part = 0, ![h].count = n]
          BY <3>9, <4>2 DEF Archive
        <5>2. worker'[h].row = worker[h].row /\ worker'[h].current = worker[h].current
          BY <1>1, <5>1 DEF WorkerState
        <5>. QED
          BY <1>4, <5>2
      <4>. QED
        BY <4>1, <4>2
    <3>10. CASE BeginPart(h)
      <4>. DEFINE p == worker[h].part
                  id == IF p = 0 THEN worker[h].row ELSE NextId(rows, h, p)
      <4>1. ofHost(id)
        BY <1>2, <1>3
      <4>2. worker' = [worker EXCEPT ![h].pc = "send", ![h].current = id]
        BY <3>10 DEF BeginPart
      <4>. HIDE DEF id
      <4>3. worker'[h].row = worker[h].row /\ worker'[h].current = id
        BY <1>1, <4>2 DEF WorkerState
      <4>. QED
        BY <1>2, <4>1, <4>3
    <3>11. CASE SendPart(h)
      <4>1. CASE Fail(h)
        BY <1>4, <1>5, <4>1
      <4>2. CASE worker' = [worker EXCEPT ![h].pc = "part", ![h].current = NoId, ![h].part = @ + 1]
        <5>1. worker'[h].row = worker[h].row /\ worker'[h].current = NoId
          BY <1>1, <4>2 DEF WorkerState
        <5>. QED
          BY <1>2, <5>1
      <4>. QED
        BY <3>11, <4>1, <4>2 DEF SendPart
    <3>. QED
      BY <1>9, <3>1, <3>2, <3>3, <3>4, <3>5, <3>6, <3>7, <3>8, <3>9, <3>10, <3>11 DEF WorkerStep
  <2>. QED
    BY <1>2, <2>1, WorkerWorks DEF OwnRows, Works, ofHost
<1>. QED
  BY <1>7, <1>8, <1>9

-----------------------------------------------------------------------------
\* Where no token splits in two there are no more of them.
LEMMA MovedTokens ==
  ASSUME NEW S, IsFiniteSet(S), NEW f, NEW T, T \subseteq {f[t] : t \in S}
  PROVE  IsFiniteSet(T) /\ Cardinality(T) <= Cardinality(S)
<1>. DEFINE U == {f[t] : t \in S}
            m == [t \in S |-> f[t]]
<1>1. m \in Surjection(S, U)
  BY DEF Surjection
<1>2. IsFiniteSet(U) /\ Cardinality(U) <= Cardinality(S)
  BY <1>1, FS_Surjection
<1>. HIDE DEF U
<1>3. IsFiniteSet(T) /\ Cardinality(T) <= Cardinality(U)
  BY <1>2, FS_Subset DEF U
<1>4. Cardinality(T) \in Nat /\ Cardinality(U) \in Nat /\ Cardinality(S) \in Nat
  BY <1>2, <1>3, FS_CardinalityType
<1>. QED
  BY <1>2, <1>3, <1>4

LEMMA SameTokens ==
  ASSUME NEW S, NEW T, T \subseteq S
  PROVE  \E f : T \subseteq {f[t] : t \in S}
<1>. DEFINE f == [t \in S |-> t]
<1>1. \A t \in S : f[t] = t
  OBVIOUS
<1>. HIDE DEF f
<1>2. T \subseteq {f[t] : t \in S}
  BY <1>1
<1>. QED
  BY <1>2

LEMMA FiniteRetries ==
  ASSUME NEW rs
  PROVE  IsFiniteSet({r \in Hosts \X (1 .. MaxRetries) : r[2] <= rs[<<r[1], 0>>].retries})
<1>1. IsFiniteSet(Hosts) /\ IsFiniteSet(1 .. MaxRetries)
  BY SizeAssumption, WorkerAssumption, FS_Interval DEF Hosts
<1>2. IsFiniteSet(Hosts \X (1 .. MaxRetries))
  BY <1>1, FS_Product
<1>. QED
  BY <1>2, FS_Subset

\* The head of g keeps its number of retries, or is retried.
Tries(g) ==
    /\ rows[<<g, 0>>].retries \in Nat
    /\ rows'[<<g, 0>>].retries \in {rows[<<g, 0>>].retries, rows[<<g, 0>>].retries + 1}

LEMMA RetriesStay ==
  ASSUME \A g \in Hosts : Tries(g)
  PROVE  AutoRetries \subseteq AutoRetries'
<1>1. SUFFICES ASSUME NEW r \in AutoRetries PROVE r \in AutoRetries'
  OBVIOUS
<1>2. r \in Hosts \X (1 .. MaxRetries) /\ r[1] \in Hosts /\ r[2] \in Nat
      /\ r[2] <= rows[<<r[1], 0>>].retries
  BY DEF AutoRetries
<1>. DEFINE n == rows[<<r[1], 0>>].retries
            m == rows'[<<r[1], 0>>].retries
<1>3. n \in Nat /\ m \in {n, n + 1} /\ r[2] <= n
  BY <1>2 DEF Tries
<1>. HIDE DEF n, m
<1>4. r[2] <= m
  BY <1>2, <1>3
<1>. QED
  BY <1>2, <1>4 DEF AutoRetries, m

LEMMA TurnsStayCounted ==
  ASSUME TurnsCounted, \A g \in Hosts : Tries(g),
         \E f : Turns' \subseteq {f[t] : t \in Turns}
  PROVE  TurnsCounted'
<1>1. PICK f : Turns' \subseteq {f[t] : t \in Turns}
  OBVIOUS
<1>2. IsFiniteSet(Turns') /\ Cardinality(Turns') <= Cardinality(Turns)
  BY <1>1, MovedTokens DEF TurnsCounted
<1>3. IsFiniteSet(AutoRetries) /\ IsFiniteSet(AutoRetries')
  BY FiniteRetries DEF AutoRetries
<1>4. Cardinality(AutoRetries) <= Cardinality(AutoRetries')
  BY <1>3, RetriesStay, FS_Subset
<1>5. /\ Cardinality(Turns) \in Nat /\ Cardinality(Turns') \in Nat
      /\ Cardinality(AutoRetries) \in Nat /\ Cardinality(AutoRetries') \in Nat
  BY <1>2, <1>3, FS_CardinalityType DEF TurnsCounted
<1>. QED
  BY <1>2, <1>4, <1>5 DEF TurnsCounted

\* A retry brings one turn, and is counted.
LEMMA RetriedCounted ==
  ASSUME TurnsCounted, \A g \in Hosts : Tries(g), NEW y, Turns' \subseteq Turns \union {y},
         NEW h \in Hosts, rows[<<h, 0>>].retries < MaxRetries,
         rows'[<<h, 0>>].retries = rows[<<h, 0>>].retries + 1
  PROVE  TurnsCounted'
<1>. DEFINE n == rows[<<h, 0>>].retries
            z == <<h, n + 1>>
<1>1. n \in Nat /\ n < MaxRetries /\ MaxRetries \in Nat
  BY WorkerAssumption DEF Tries
<1>2. z \notin AutoRetries /\ z \in AutoRetries'
  <2>1. rows'[<<h, 0>>].retries = n + 1 /\ rows[<<h, 0>>].retries = n
    OBVIOUS
  <2>2. z[1] = h /\ z[2] = n + 1
    OBVIOUS
  <2>. HIDE DEF n
  <2>3. n + 1 \in 1 .. MaxRetries /\ ~(n + 1 <= n)
    BY <1>1
  <2>. QED
    BY <2>1, <2>2, <2>3 DEF AutoRetries
<1>. HIDE DEF z
<1>3. IsFiniteSet(AutoRetries) /\ IsFiniteSet(AutoRetries')
  BY FiniteRetries DEF AutoRetries
<1>4. AutoRetries \union {z} \subseteq AutoRetries'
  BY <1>2, RetriesStay
<1>5. Cardinality(AutoRetries) + 1 <= Cardinality(AutoRetries')
  <2>1. IsFiniteSet(AutoRetries \union {z}) /\ Cardinality(AutoRetries \union {z}) = Cardinality(AutoRetries) + 1
    BY <1>2, <1>3, FS_AddElement
  <2>2. Cardinality(AutoRetries \union {z}) <= Cardinality(AutoRetries')
    BY <1>3, <1>4, FS_Subset
  <2>. QED
    BY <2>1, <2>2
<1>6. IsFiniteSet(Turns') /\ Cardinality(Turns') <= Cardinality(Turns) + 1
  <2>1. /\ IsFiniteSet(Turns \union {y}) /\ Cardinality(Turns) \in Nat
        /\ Cardinality(Turns \union {y}) \in {Cardinality(Turns), Cardinality(Turns) + 1}
    BY FS_AddElement, FS_CardinalityType DEF TurnsCounted
  <2>2. IsFiniteSet(Turns') /\ Cardinality(Turns') <= Cardinality(Turns \union {y})
    BY <2>1, FS_Subset
  <2>3. Cardinality(Turns') \in Nat
    BY <2>2, FS_CardinalityType
  <2>. QED
    BY <2>1, <2>2, <2>3
<1>7. /\ Cardinality(Turns) \in Nat /\ Cardinality(Turns') \in Nat
      /\ Cardinality(AutoRetries) \in Nat /\ Cardinality(AutoRetries') \in Nat
  BY <1>3, <1>6, FS_CardinalityType DEF TurnsCounted
<1>. QED
  BY <1>5, <1>6, <1>7 DEF TurnsCounted

LEMMA TurnsAre ==
  /\ \A h \in Hosts : <<"row", h>> \in Turns <=> RowTurn(h)
  /\ \A h \in Hosts : <<"end", h>> \in Turns <=> EndTurn(h)
  /\ \A i : <<"signal", i>> \in Turns <=> i \in SignalTurns(events)
  /\ <<"answer", 0>> \in Turns <=> main.pc = "react"
  /\ <<"write", 0>> \in Turns <=> First(main.todo) # {}
  BY DEF Turns

\* All the places a turn can be in.
LEMMA TurnsWithin ==
  ASSUME NEW S,
         \A h \in Hosts : (RowTurn(h)' => <<"row", h>> \in S) /\ (EndTurn(h)' => <<"end", h>> \in S),
         \A i \in SignalTurns(events') : <<"signal", i>> \in S,
         main'.pc = "react" => <<"answer", 0>> \in S,
         First(main'.todo) # {} => <<"write", 0>> \in S
  PROVE  Turns' \subseteq S
BY DEF Turns, SignalTurns

\* Before the first write there is no other turn than that.
LEMMA BegunFacts ==
  ASSUME NoneStored, NotBegun
  PROVE  /\ \A h \in Hosts : ~RowTurn(h) /\ ~EndTurn(h)
         /\ SignalTurns(events) = {} /\ main.pc # "react"
<1>1. Turns \subseteq {<<"write", 0>>}
  BY DEF NoneStored
<1>2. \A t \in Turns : t[1] = "write"
  BY <1>1
<1>3. /\ \A h \in Hosts : <<"row", h>> \notin Turns /\ <<"end", h>> \notin Turns
      /\ \A i : <<"signal", i>> \notin Turns
      /\ <<"answer", 0>> \notin Turns
  BY <1>2
<1>4. SignalTurns(events) = {}
  BY <1>3, TurnsAre
<1>. QED
  BY <1>3, <1>4, TurnsAre

LEMMA NoneStoredStays ==
  ASSUME NoneStored, \A h \in Hosts : RowFirst(h)' /\ WorkerFirst(h)',
         TodoFirst(main.todo)', SignalsFirst(events)', pollers' = {}, main'.pc # "unblock",
         main'.pc = "react" => ~main'.ev.ok, NotBegun' => Turns' \subseteq {<<"write", 0>>},
         \A g \in Hosts : Tries(g),
         \/ Turns' \subseteq Turns
         \/ \E x \in Turns : \E y : Turns' \subseteq (Turns \ {x}) \union {y}
         \/ \E f : Turns' \subseteq {f[t] : t \in Turns}
  PROVE  NoneStored'
<1>1. \E f : Turns' \subseteq {f[t] : t \in Turns}
  <2>1. CASE Turns' \subseteq Turns
    BY <2>1, SameTokens
  <2>2. CASE \E x \in Turns : \E y : Turns' \subseteq (Turns \ {x}) \union {y}
    <3>1. PICK x \in Turns : \E y : Turns' \subseteq (Turns \ {x}) \union {y}
      BY <2>2
    <3>2. PICK y : Turns' \subseteq (Turns \ {x}) \union {y}
      BY <3>1
    <3>. DEFINE f == [t \in Turns |-> IF t = x THEN y ELSE t]
    <3>3. f[x] = y /\ \A t \in Turns \ {x} : f[t] = t
      OBVIOUS
    <3>. HIDE DEF f
    <3>4. \A u \in Turns' : \E t \in Turns : u = f[t]
      BY <3>2, <3>3
    <3>5. Turns' \subseteq {f[t] : t \in Turns}
      BY <3>4
    <3>. QED
      BY <3>5
  <2>. QED
    BY <2>1, <2>2
<1>2. TurnsCounted'
  BY <1>1, TurnsStayCounted DEF NoneStored
<1>. QED
  BY <1>2 DEF NoneStored

\* What may be appended to the signals, and what is left of them.
LEMMA AppendedSignal ==
  ASSUME NEW q \in Seq(Event), NEW e \in Event, SignalsFirst(q), e.kind = "settled" => ~e.ok
  PROVE  /\ SignalsFirst(Append(q, e))
         /\ \A i \in SignalTurns(Append(q, e)) :
               i \in SignalTurns(q) \/ (e.kind = "settled" /\ i = Len(q) + 1)
<1>. DEFINE r == Append(q, e)
            last == Len(q) + 1
<1>1. /\ DOMAIN r = 1 .. last /\ r[last] = e /\ DOMAIN q = 1 .. Len(q) /\ Len(q) \in Nat
      /\ \A i \in DOMAIN q : r[i] = q[i]
  OBVIOUS
<1>. HIDE DEF r
<1>2. \A i \in DOMAIN r : i \in DOMAIN q \/ i = last
  BY <1>1
<1>. HIDE DEF last
<1>3. \A i \in SignalTurns(r) : i \in SignalTurns(q) \/ (e.kind = "settled" /\ i = last)
  BY <1>1, <1>2 DEF SignalTurns
<1>4. \A i \in SignalTurns(r) : ~r[i].ok
  BY <1>1, <1>3 DEF SignalsFirst, SignalTurns
<1>. QED
  BY <1>3, <1>4 DEF SignalsFirst, r, last

LEMMA TakenSignal ==
  ASSUME NEW q \in Seq(Event), q # <<>>
  PROVE  /\ SignalsFirst(q) => SignalsFirst(Tail(q))
         /\ \A i \in SignalTurns(Tail(q)) : i \in Nat \ {0} /\ i + 1 \in SignalTurns(q)
         /\ q[1].kind = "settled" => 1 \in SignalTurns(q)
<1>. DEFINE r == Tail(q)
<1>1. \A i \in DOMAIN r : i + 1 \in DOMAIN q /\ r[i] = q[i + 1] /\ i \in Nat \ {0}
  OBVIOUS
<1>2. 1 \in DOMAIN q
  OBVIOUS
<1>. HIDE DEF r
<1>3. \A i \in SignalTurns(r) : i \in Nat \ {0} /\ i + 1 \in SignalTurns(q) /\ r[i] = q[i + 1]
  BY <1>1 DEF SignalTurns
<1>4. SignalsFirst(q) => SignalsFirst(r)
  BY <1>3 DEF SignalsFirst
<1>5. q[1].kind = "settled" => 1 \in SignalTurns(q)
  BY <1>2 DEF SignalTurns
<1>. QED
  BY <1>3, <1>4, <1>5 DEF r

\* The first signal is taken, and the others move up.
LEMMA SignalsMoveUp ==
  ASSUME events \in Seq(Event), events # <<>>, events' = Tail(events), NoneStored,
         \A h \in Hosts : (RowTurn(h)' => RowTurn(h)) /\ (EndTurn(h)' => EndTurn(h)),
         First(main'.todo) # {} => First(main.todo) # {},
         main'.pc = "react" => main.pc = "react" \/ events[1].kind = "settled"
  PROVE  /\ \E f : Turns' \subseteq {f[t] : t \in Turns}
         /\ NotBegun => Turns' \subseteq {<<"write", 0>>}
<1>1. /\ \A i \in SignalTurns(events') : i \in Nat \ {0} /\ i + 1 \in SignalTurns(events)
      /\ events[1].kind = "settled" => 1 \in SignalTurns(events)
  BY TakenSignal
<1>. DEFINE moved(t) == IF t = <<"signal", 1>> THEN <<"answer", 0>>
                        ELSE IF t[1] = "signal" THEN <<"signal", t[2] - 1>> ELSE t
            f == [t \in Turns |-> moved(t)]
            S == {f[t] : t \in Turns}
<1>2. \A t \in Turns : moved(t) \in S
  OBVIOUS
<1>3. /\ \A h : moved(<<"row", h>>) = <<"row", h>> /\ moved(<<"end", h>>) = <<"end", h>>
      /\ moved(<<"answer", 0>>) = <<"answer", 0>> /\ moved(<<"write", 0>>) = <<"write", 0>>
      /\ moved(<<"signal", 1>>) = <<"answer", 0>>
  OBVIOUS
<1>4. \A i \in Nat \ {0} : moved(<<"signal", i + 1>>) = <<"signal", i>>
  <2>1. SUFFICES ASSUME NEW i \in Nat \ {0} PROVE moved(<<"signal", i + 1>>) = <<"signal", i>>
    OBVIOUS
  <2>. DEFINE t == <<"signal", i + 1>>
  <2>2. t # <<"signal", 1>> /\ t[1] = "signal" /\ t[2] - 1 = i
    OBVIOUS
  <2>. QED
    BY <2>2
<1>. HIDE DEF moved, S
<1>5. Turns' \subseteq S
  <2>1. \A h \in Hosts : (RowTurn(h)' => <<"row", h>> \in S) /\ (EndTurn(h)' => <<"end", h>> \in S)
    BY <1>2, <1>3, TurnsAre
  <2>2. \A i \in SignalTurns(events') : <<"signal", i>> \in S
    BY <1>1, <1>2, <1>4, TurnsAre
  <2>3. main'.pc = "react" => <<"answer", 0>> \in S
    BY <1>1, <1>2, <1>3, TurnsAre
  <2>4. First(main'.todo) # {} => <<"write", 0>> \in S
    BY <1>2, <1>3, TurnsAre
  <2>. QED
    BY <2>1, <2>2, <2>3, <2>4, TurnsWithin
<1>6. ASSUME NotBegun PROVE Turns' \subseteq {<<"write", 0>>}
  <2>1. /\ \A h \in Hosts : ~RowTurn(h) /\ ~EndTurn(h)
        /\ SignalTurns(events) = {} /\ main.pc # "react"
    BY <1>6, BegunFacts
  <2>. QED
    BY <1>1, <2>1, TurnsWithin
<1>. QED
  BY <1>5, <1>6 DEF S

\* The worker of h ends its turn, announces that end, is retried, or goes on.
LEMMA FirstByWorker ==
  ASSUME rows \in Table, main \in MainState, NoneStored, NEW h \in Hosts,
         \A g \in Hosts \ {h} : worker'[g] = worker[g] /\ rows'[<<g, 0>>] = rows[<<g, 0>>],
         rows'[<<h, 0>>].gen = rows[<<h, 0>>].gen, HeadIs(h, {"blocked"}) => HeadIs(h, {"blocked"})',
         UNCHANGED <<main, pollers>>, Tries(h),
         RowFirst(h)', WorkerFirst(h)', SignalsFirst(events)',
         \/ /\ RowTurn(h)' => RowTurn(h)
            /\ EndTurn(h)' => EndTurn(h)
            /\ SignalTurns(events') \subseteq SignalTurns(events)
         \/ RowTurn(h) /\ ~RowTurn(h)' /\ UNCHANGED events
         \/ /\ EndTurn(h) /\ ~EndTurn(h)' /\ (RowTurn(h)' => RowTurn(h))
            /\ \E last : SignalTurns(events') \subseteq SignalTurns(events) \union {last}
         \/ /\ RowTurn(h) /\ UNCHANGED events
            /\ rows[<<h, 0>>].retries < MaxRetries
            /\ rows'[<<h, 0>>].retries = rows[<<h, 0>>].retries + 1
  PROVE  NoneStored'
<1>1. \A g \in Hosts : rows'[<<g, 0>>].gen = rows[<<g, 0>>].gen
  OBVIOUS
<1>2. ASSUME NEW g \in Hosts PROVE RowFirst(g)' /\ WorkerFirst(g)' /\ Tries(g)
  <2>1. CASE g = h
    BY <2>1
  <2>2. CASE g # h
    <3>1. worker'[g] = worker[g] /\ rows'[<<g, 0>>] = rows[<<g, 0>>]
      BY <2>2
    <3>2. RowFirst(g) /\ WorkerFirst(g)
      BY DEF NoneStored
    <3>3. Tries(g)
      BY <3>1, PartZero DEF Tries, Table, Row
    <3>. QED
      BY <3>1, <3>2, <3>3 DEF RowFirst, WorkerFirst, HeadIs, RowTurn, HeadId, IdAt
  <2>. QED
    BY <2>1, <2>2
<1>3. TodoFirst(main.todo)'
  <2>1. ASSUME NEW w \in main.todo
        PROVE  /\ w.op \in Queues \union {"promote", "reassign"}
               /\ w.op \in Queues => rows'[<<w.id.host, 0>>].gen = 0
               /\ w.op = "promote" => HeadIs(w.id.host, {"blocked"})'
    <3>1. /\ w.op \in Queues \union {"promote", "reassign"}
          /\ w.op \in Queues => rows[<<w.id.host, 0>>].gen = 0
          /\ w.op = "promote" => HeadIs(w.id.host, {"blocked"})
      BY DEF NoneStored, TodoFirst
    <3>2. w.id.host \in Hosts
      BY DEF MainState, Write, RowId
    <3>3. HeadIs(w.id.host, {"blocked"}) => HeadIs(w.id.host, {"blocked"})'
      BY <3>2 DEF HeadIs
    <3>. QED
      BY <3>1, <3>2, <3>3, <1>1
  <2>. QED
    BY <2>1 DEF NoneStored, TodoFirst
<1>4. NotBegun' => NotBegun
  BY <1>1 DEF NotBegun
<1>5. \A g \in Hosts \ {h} : (RowTurn(g)' <=> RowTurn(g)) /\ (EndTurn(g)' <=> EndTurn(g))
  BY DEF RowTurn, EndTurn, HeadIs
<1>6. /\ TodoFirst(main.todo)' /\ pollers' = {} /\ main'.pc # "unblock"
      /\ main'.pc = "react" => ~main'.ev.ok
      /\ \A g \in Hosts : RowFirst(g)' /\ WorkerFirst(g)' /\ Tries(g)
  BY <1>2, <1>3 DEF NoneStored
<1>7. CASE /\ RowTurn(h)' => RowTurn(h)
           /\ EndTurn(h)' => EndTurn(h)
           /\ SignalTurns(events') \subseteq SignalTurns(events)
  <2>1. \A g \in Hosts : (RowTurn(g)' => RowTurn(g)) /\ (EndTurn(g)' => EndTurn(g))
    BY <1>5, <1>7
  <2>2. Turns' \subseteq Turns
    BY <1>7, <2>1, TurnsAre, TurnsWithin
  <2>3. NotBegun' => Turns' \subseteq {<<"write", 0>>}
    BY <1>4, <2>2 DEF NoneStored
  <2>. QED
    BY <1>6, <2>2, <2>3, NoneStoredStays
<1>8. CASE RowTurn(h) /\ ~RowTurn(h)' /\ UNCHANGED events
  <2>. DEFINE x == <<"row", h>>
              y == <<"end", h>>
              S == (Turns \ {x}) \union {y}
  <2>1. x \in Turns /\ ~NotBegun
    BY <1>8, TurnsAre, BegunFacts
  <2>2. Turns' \subseteq S
    <3>1. \A g \in Hosts : (RowTurn(g)' => <<"row", g>> \in S) /\ (EndTurn(g)' => <<"end", g>> \in S)
      BY <1>5, <1>8, TurnsAre
    <3>2. \A i \in SignalTurns(events') : <<"signal", i>> \in S
      BY <1>8, TurnsAre
    <3>3. (main'.pc = "react" => <<"answer", 0>> \in S) /\ (First(main'.todo) # {} => <<"write", 0>> \in S)
      BY TurnsAre
    <3>. HIDE DEF S
    <3>. QED
      BY <3>1, <3>2, <3>3, TurnsWithin
  <2>3. \E u \in Turns : \E v : Turns' \subseteq (Turns \ {u}) \union {v}
    BY <2>1, <2>2
  <2>. HIDE DEF S
  <2>. QED
    BY <1>4, <1>6, <2>1, <2>3, NoneStoredStays
<1>9. CASE /\ EndTurn(h) /\ ~EndTurn(h)' /\ (RowTurn(h)' => RowTurn(h))
           /\ \E last : SignalTurns(events') \subseteq SignalTurns(events) \union {last}
  <2>1. PICK last : SignalTurns(events') \subseteq SignalTurns(events) \union {last}
    BY <1>9
  <2>. DEFINE x == <<"end", h>>
              y == <<"signal", last>>
              S == (Turns \ {x}) \union {y}
  <2>2. x \in Turns /\ ~NotBegun
    BY <1>9, TurnsAre, BegunFacts
  <2>3. Turns' \subseteq S
    <3>1. \A g \in Hosts : (RowTurn(g)' => <<"row", g>> \in S) /\ (EndTurn(g)' => <<"end", g>> \in S)
      BY <1>5, <1>9, TurnsAre
    <3>2. \A i \in SignalTurns(events') : <<"signal", i>> \in S
      BY <2>1, TurnsAre
    <3>3. (main'.pc = "react" => <<"answer", 0>> \in S) /\ (First(main'.todo) # {} => <<"write", 0>> \in S)
      BY TurnsAre
    <3>. HIDE DEF S
    <3>. QED
      BY <3>1, <3>2, <3>3, TurnsWithin
  <2>4. \E u \in Turns : \E v : Turns' \subseteq (Turns \ {u}) \union {v}
    BY <2>2, <2>3
  <2>. HIDE DEF S
  <2>. QED
    BY <1>4, <1>6, <2>2, <2>4, NoneStoredStays
<1>10. CASE /\ RowTurn(h) /\ UNCHANGED events
            /\ rows[<<h, 0>>].retries < MaxRetries
            /\ rows'[<<h, 0>>].retries = rows[<<h, 0>>].retries + 1
  <2>. DEFINE y == <<"end", h>>
              S == Turns \union {y}
  <2>1. ~NotBegun'
    BY <1>4, <1>10, BegunFacts
  <2>2. Turns' \subseteq S
    <3>1. \A g \in Hosts : (RowTurn(g)' => <<"row", g>> \in S) /\ (EndTurn(g)' => <<"end", g>> \in S)
      BY <1>5, <1>10, TurnsAre
    <3>2. \A i \in SignalTurns(events') : <<"signal", i>> \in S
      BY <1>10, TurnsAre
    <3>3. (main'.pc = "react" => <<"answer", 0>> \in S) /\ (First(main'.todo) # {} => <<"write", 0>> \in S)
      BY TurnsAre
    <3>. HIDE DEF S
    <3>. QED
      BY <3>1, <3>2, <3>3, TurnsWithin
  <2>3. TurnsCounted'
    BY <1>6, <1>10, <2>2, RetriedCounted DEF NoneStored
  <2>. QED
    BY <1>6, <2>1, <2>3 DEF NoneStored
<1>. QED
  BY <1>7, <1>8, <1>9, <1>10

\* What happens to the head of a worker that has its turn.
LEMMA HeadUpdated ==
  ASSUME rows \in Table, NEW h \in Hosts, NEW new \in Row, new.gen = rows[<<h, 0>>].gen,
         rows' = UpdateRow(rows, HeadId(h), new)
  PROVE  rows'[<<h, 0>>] = new
  BY PartZero DEF HeadId, IdAt, UpdateRow, Live, Place, Table

LEMMA WorkerFirstStep ==
  ASSUME OneByOne, rows \in Table, events \in Seq(Event), main \in MainState,
         WorkerTypeOK, OwnRows, NoneStored,
         NEW h \in Hosts, WorkerStep(h), UNCHANGED <<main, pollers>>
  PROVE  NoneStored' \/ StoredBy(h)'
<1>. USE DEF At
<1>1. /\ worker \in [Hosts -> WorkerState] /\ worker[h] \in WorkerState
      /\ rows[<<h, 0>>] \in Row /\ Parts = {0}
  BY OnePart, PartZero DEF WorkerTypeOK, Table
<1>2. RowFirst(h) /\ WorkerFirst(h) /\ SignalsFirst(events)
  BY DEF NoneStored
<1>3. \A new : Commits(new) => rows' = new
  BY DEF Commits, Charge, OneByOne
<1>4. /\ \A g \in Hosts \ {h} : worker'[g] = worker[g] /\ rows'[<<g, 0>>] = rows[<<g, 0>>]
      /\ rows'[<<h, 0>>].gen = rows[<<h, 0>>].gen
  BY WorkerRows, WorkerWorks DEF Works
<1>5. UNCHANGED rows => HeadId(h)' = HeadId(h) /\ (RowTurn(h)' <=> RowTurn(h)) /\ RowFirst(h)'
  BY <1>2 DEF HeadId, RowTurn, RowFirst, HeadIs
<1>25. /\ UNCHANGED rows => Tries(h) /\ (HeadIs(h, {"blocked"}) => HeadIs(h, {"blocked"})')
       /\ worker[h].pc \in AtWork => ~HeadIs(h, {"blocked"})
       /\ rows'[<<h, 0>>].retries = rows[<<h, 0>>].retries => Tries(h)
  BY <1>1, <1>2 DEF Tries, Row, HeadIs, WorkerFirst, RowTurn
<1>6. ASSUME UNCHANGED <<rows, events, main, pollers>>, WorkerFirst(h)', ~EndTurn(h)'
      PROVE  NoneStored'
  <2>1. SignalTurns(events') \subseteq SignalTurns(events) /\ SignalsFirst(events)'
    BY <1>2, <1>6 DEF SignalsFirst
  <2>. QED
    BY <1>4, <1>5, <1>6, <1>25, <2>1, FirstByWorker
<1>7. HeadId(h) \in RowId /\ HeadId(h)' = HeadId(h)
  BY <1>4, PartZero, IdAtType DEF HeadId, IdAt
<1>8. ASSUME NEW s \in {"uploading", "failed"}, rows' = SetStatus(rows, HeadId(h), s)
      PROVE  /\ rows'[<<h, 0>>].status = s /\ rows'[<<h, 0>>].dedupOnly = rows[<<h, 0>>].dedupOnly
             /\ rows'[<<h, 0>>].retries = rows[<<h, 0>>].retries
  <2>. DEFINE new == [rows[<<h, 0>>] EXCEPT !.status = s]
  <2>1. new \in Row /\ new.status = s /\ new.gen = rows[<<h, 0>>].gen
        /\ new.dedupOnly = rows[<<h, 0>>].dedupOnly /\ new.retries = rows[<<h, 0>>].retries
    BY <1>1 DEF Row, Status
  <2>2. rows' = UpdateRow(rows, HeadId(h), new)
    BY <1>8 DEF SetStatus, Place, HeadId, IdAt
  <2>. HIDE DEF new
  <2>. QED
    BY <2>1, <2>2, HeadUpdated
<1>9. /\ \A q : Go(h, q) => worker'[h] = [worker[h] EXCEPT !.pc = q]
      /\ Fail(h) => /\ worker'[h].pc = "except" /\ worker'[h].row = worker[h].row
                    /\ worker'[h].dedupOnly = worker[h].dedupOnly
      /\ Rest(h) => worker'[h].pc = "idle"
      /\ ToSettle(h) => worker'[h].pc = "settle"
  <2>1. \A q : Go(h, q) => worker'[h] = [worker[h] EXCEPT !.pc = q]
    BY <1>1 DEF Go
  <2>2. Fail(h) => /\ worker'[h].pc = "except" /\ worker'[h].row = worker[h].row
                   /\ worker'[h].dedupOnly = worker[h].dedupOnly
    BY <1>1 DEF Fail, WorkerState
  <2>3. (Rest(h) => worker'[h].pc = "idle") /\ (ToSettle(h) => worker'[h].pc = "settle")
    BY <1>1 DEF Rest, ToSettle, Fresh
  <2>. QED
    BY <2>1, <2>2, <2>3
<1>10. worker[h].pc \in AtWork =>
          /\ RowTurn(h) /\ worker[h].row = HeadId(h) /\ ~worker[h].dedupOnly
          /\ rows[<<h, 0>>].gen # 0
  BY <1>2 DEF WorkerFirst, RowFirst, RowTurn, HeadIs
<1>11. CASE Pick(h)
  <2>1. /\ rows[<<h, 0>>].status = "pending" /\ UNCHANGED <<rows, events>>
        /\ worker' = [worker EXCEPT ![h].pc = "picked", ![h].row = IdAt(rows, h, 0),
                                    ![h].dedupOnly = rows[<<h, 0>>].dedupOnly]
    BY <1>1, <1>11 DEF Pick, tableVars
  <2>2. /\ worker'[h].pc = "picked" /\ worker'[h].row = HeadId(h) /\ ~worker'[h].dedupOnly
    BY <1>1, <1>2, <2>1 DEF WorkerState, HeadId, RowFirst
  <2>3. RowTurn(h)'
    BY <2>1 DEF RowTurn, HeadIs
  <2>4. WorkerFirst(h)' /\ ~EndTurn(h)'
    BY <1>7, <2>2, <2>3 DEF WorkerFirst, AtWork, EndTurn
  <2>. QED
    BY <1>6, <2>1, <2>4
<1>12. CASE FailFast(h)
  <2>1. rows' = SetStatus(rows, HeadId(h), "failed") /\ worker'[h].pc = "idle" /\ UNCHANGED events
    BY <1>3, <1>9, <1>10, <1>12 DEF FailFast, AtWork
  <2>2. /\ rows'[<<h, 0>>].status = "failed" /\ rows'[<<h, 0>>].dedupOnly = rows[<<h, 0>>].dedupOnly
        /\ rows'[<<h, 0>>].retries = rows[<<h, 0>>].retries
    BY <1>8, <2>1
  <2>3. RowFirst(h)' /\ ~RowTurn(h)' /\ ~HeadIs(h, {"blocked"})
    BY <1>2, <1>4, <1>10, <1>12, <1>25, <2>2 DEF RowFirst, HeadIs, RowTurn, FailFast, AtWork
  <2>4. WorkerFirst(h)' /\ ~EndTurn(h)' /\ SignalsFirst(events)' /\ Tries(h)
    BY <1>2, <1>25, <2>1, <2>2 DEF WorkerFirst, AtWork, EndTurn, SignalsFirst
  <2>5. RowTurn(h)
    BY <1>10, <1>12 DEF FailFast, AtWork
  <2>. QED
    BY <1>4, <2>1, <2>3, <2>4, <2>5, FirstByWorker
<1>13. CASE StartUpload(h)
  <2>1. /\ rows' = SetStatus(rows, HeadId(h), "uploading") /\ UNCHANGED events
        /\ worker'[h] = [worker[h] EXCEPT !.pc = "archive"]
    BY <1>3, <1>9, <1>10, <1>13 DEF StartUpload, AtWork
  <2>2. /\ rows'[<<h, 0>>].status = "uploading" /\ rows'[<<h, 0>>].dedupOnly = rows[<<h, 0>>].dedupOnly
        /\ rows'[<<h, 0>>].retries = rows[<<h, 0>>].retries
    BY <1>8, <2>1
  <2>3. RowFirst(h)' /\ RowTurn(h)' /\ RowTurn(h) /\ ~HeadIs(h, {"blocked"})
    BY <1>2, <1>4, <1>10, <1>13, <1>25, <2>2 DEF RowFirst, HeadIs, RowTurn, StartUpload, AtWork
  <2>4. /\ worker'[h].pc = "archive" /\ worker'[h].row = worker[h].row
        /\ worker'[h].dedupOnly = worker[h].dedupOnly
    BY <1>1, <2>1 DEF WorkerState
  <2>5. WorkerFirst(h)' /\ ~EndTurn(h)'
    BY <1>7, <1>10, <1>13, <2>3, <2>4 DEF WorkerFirst, AtWork, EndTurn, StartUpload
  <2>6. SignalsFirst(events)' /\ SignalTurns(events') \subseteq SignalTurns(events) /\ Tries(h)
    BY <1>2, <1>25, <2>1, <2>2 DEF SignalsFirst
  <2>. QED
    BY <1>4, <2>3, <2>5, <2>6, FirstByWorker
<1>14. CASE HandleError(h)
  <2>1. /\ RowTurn(h) /\ ~HeadIs(h, {"blocked"}) /\ worker[h].row = HeadId(h) /\ rows[<<h, 0>>].gen # 0
        /\ rows' = AfterError(h) /\ worker'[h].pc = "settle" /\ UNCHANGED events
    BY <1>3, <1>9, <1>10, <1>14, <1>25 DEF HandleError, AtWork
  <2>2. SignalsFirst(events)'
    BY <1>2, <2>1 DEF SignalsFirst
  <2>3. CASE rows' = SetStatus(rows, HeadId(h), "failed")
    <3>1. /\ rows'[<<h, 0>>].status = "failed" /\ rows'[<<h, 0>>].dedupOnly = rows[<<h, 0>>].dedupOnly
          /\ rows'[<<h, 0>>].retries = rows[<<h, 0>>].retries
      BY <1>8, <2>3
    <3>2. RowFirst(h)' /\ ~RowTurn(h)' /\ HeadIs(h, {"pending", "failed"})' /\ Tries(h)
      BY <1>2, <1>4, <1>25, <2>1, <3>1 DEF RowFirst, HeadIs, RowTurn
    <3>3. WorkerFirst(h)'
      BY <2>1, <3>2 DEF WorkerFirst, AtWork
    <3>. QED
      BY <1>4, <2>1, <2>2, <3>2, <3>3, FirstByWorker
  <2>4. CASE rows' = Requeued(HeadId(h)) /\ RetriesLeft(HeadId(h))
    <3>. DEFINE r == rows[<<h, 0>>]
                n == r.retries + 1
                new == [r EXCEPT !.status = "pending", !.retries = n]
    <3>1. Place(HeadId(h)) = <<h, 0>> /\ Live(rows, HeadId(h))
      BY DEF Place, HeadId, IdAt, Live
    <3>2. r.retries \in Nat /\ r.retries < MaxRetries
      BY <1>1, <2>4, <3>1 DEF RetriesLeft, Row
    <3>3. n \in Nat
      BY <3>2
    <3>4. rows' = UpdateRow(rows, HeadId(h), new)
      BY <1>1, <2>4, <3>1 DEF Requeued, Row
    <3>. HIDE DEF n
    <3>5. /\ new \in Row /\ new.status = "pending" /\ new.retries = n /\ new.gen = r.gen
          /\ new.dedupOnly = r.dedupOnly
      BY <1>1, <3>3 DEF Row, Status
    <3>. HIDE DEF new
    <3>6. rows'[<<h, 0>>] = new
      BY <3>4, <3>5, HeadUpdated
    <3>7. RowFirst(h)' /\ HeadIs(h, {"pending", "failed"})'
      BY <1>2, <2>1, <3>5, <3>6 DEF RowFirst, HeadIs
    <3>8. WorkerFirst(h)'
      BY <2>1, <3>7 DEF WorkerFirst, AtWork
    <3>9. rows'[<<h, 0>>].retries = rows[<<h, 0>>].retries + 1 /\ Tries(h)
      BY <3>2, <3>5, <3>6 DEF Tries, n
    <3>. QED
      BY <1>4, <2>1, <2>2, <3>2, <3>7, <3>8, <3>9, FirstByWorker
  <2>. QED
    BY <2>1, <2>3, <2>4 DEF AfterError
<1>15. CASE Quit(h)
  <2>1. UNCHANGED <<rows, events>> /\ worker'[h] = [worker[h] EXCEPT !.pc = "stopped"]
    BY <1>9, <1>15 DEF Quit, tableVars
  <2>2. worker'[h].pc = "stopped"
    BY <1>1, <2>1 DEF WorkerState
  <2>3. WorkerFirst(h)' /\ ~EndTurn(h)'
    BY <2>2 DEF WorkerFirst, AtWork, EndTurn
  <2>. QED
    BY <1>6, <2>1, <2>3
<1>16. CASE ReadSiblings(h)
  <2>1. ~Mirrorable(h)
    BY <1>1 DEF Mirrorable, SiblingParts, CompletedAt, NoneStored, RowFirst, HeadIs
  <2>2. UNCHANGED <<rows, events>> /\ worker'[h] = [worker[h] EXCEPT !.pc = "missed"]
    BY <1>9, <1>16, <2>1 DEF ReadSiblings, tableVars
  <2>3. /\ worker'[h].pc = "missed" /\ worker'[h].row = worker[h].row
        /\ worker'[h].dedupOnly = worker[h].dedupOnly
    BY <1>1, <2>2 DEF WorkerState
  <2>4. WorkerFirst(h)' /\ ~EndTurn(h)'
    BY <1>5, <1>7, <1>10, <1>16, <2>2, <2>3 DEF WorkerFirst, AtWork, EndTurn, ReadSiblings
  <2>. QED
    BY <1>6, <2>2, <2>4
<1>17. ~(Probe(h) \/ CommitAdd(h) \/ CommitPart(h) \/ CommitHead(h) \/ GiveUp(h))
  BY <1>2, <1>10 DEF WorkerFirst, Probe, CommitAdd, CommitPart, CommitHead, GiveUp, AtWork
<1>18. ASSUME Fail(h), UNCHANGED <<rows, events>>, worker[h].pc \in AtWork PROVE NoneStored'
  <2>1. WorkerFirst(h)' /\ ~EndTurn(h)'
    BY <1>5, <1>7, <1>9, <1>10, <1>18 DEF WorkerFirst, AtWork, EndTurn
  <2>. QED
    BY <1>6, <1>18, <2>1
<1>19. CASE Archive(h)
  <2>1. CASE Fail(h)
    BY <1>18, <1>19, <2>1 DEF Archive, AtWork, tableVars
  <2>2. CASE ~Fail(h)
    <3>1. PICK n \in 1 .. NumParts :
             worker' = [worker EXCEPT ![h].pc = "part", ![h].part = 0, ![h].count = n]
      BY <1>19, <2>2 DEF Archive
    <3>2. /\ worker'[h].pc = "part" /\ worker'[h].row = worker[h].row /\ worker'[h].part = 0
          /\ worker'[h].dedupOnly = worker[h].dedupOnly /\ UNCHANGED <<rows, events>>
      BY <1>1, <1>19, <3>1 DEF WorkerState, Archive, tableVars
    <3>3. WorkerFirst(h)' /\ ~EndTurn(h)'
      BY <1>5, <1>7, <1>10, <1>19, <3>2 DEF WorkerFirst, AtWork, EndTurn, Archive
    <3>. QED
      BY <1>6, <3>2, <3>3
  <2>. QED
    BY <2>1, <2>2
<1>20. CASE BeginPart(h)
  <2>1. worker[h].part = 0 /\ worker[h].row = HeadId(h)
    BY <1>2, <1>10, <1>20 DEF BeginPart, WorkerFirst, AtWork
  <2>. DEFINE new == WithHash(h, rows[<<h, 0>>])
  <2>2. /\ new \in Row /\ new.gen = rows[<<h, 0>>].gen /\ new.status = rows[<<h, 0>>].status
        /\ new.dedupOnly = rows[<<h, 0>>].dedupOnly /\ new.retries = rows[<<h, 0>>].retries
    BY <1>1 DEF WithHash, Row
  <2>3. /\ rows' = UpdateRow(rows, HeadId(h), new) /\ UNCHANGED events
        /\ worker' = [worker EXCEPT ![h].pc = "send", ![h].current = HeadId(h)]
    <3>1. Place(HeadId(h)) = <<h, 0>> /\ WithPartRow(h, 0) = rows
      BY DEF Place, HeadId, IdAt, WithPartRow
    <3>. QED
      BY <1>20, <2>1, <3>1 DEF BeginPart
  <2>. HIDE DEF new
  <2>4. rows'[<<h, 0>>] = new
    BY <2>2, <2>3, HeadUpdated
  <2>5. RowFirst(h)' /\ (RowTurn(h)' <=> RowTurn(h))
    BY <1>2, <2>2, <2>4 DEF RowFirst, HeadIs, RowTurn
  <2>6. /\ worker'[h].pc = "send" /\ worker'[h].row = worker[h].row /\ worker'[h].part = 0
        /\ worker'[h].dedupOnly = worker[h].dedupOnly /\ worker'[h].current = HeadId(h)
    BY <1>1, <2>1, <2>3 DEF WorkerState
  <2>7. WorkerFirst(h)' /\ ~EndTurn(h)'
    BY <1>7, <1>10, <1>20, <2>5, <2>6 DEF WorkerFirst, AtWork, EndTurn, BeginPart
  <2>8. /\ Tries(h) /\ ~HeadIs(h, {"blocked"})
        /\ SignalsFirst(events)' /\ SignalTurns(events') \subseteq SignalTurns(events)
    BY <1>2, <1>20, <1>25, <2>2, <2>3, <2>4 DEF SignalsFirst, BeginPart, AtWork
  <2>. QED
    BY <1>4, <2>5, <2>7, <2>8, FirstByWorker
<1>21. CASE SendPart(h)
  <2>1. CASE Fail(h) /\ UNCHANGED rows
    BY <1>18, <1>21, <2>1 DEF SendPart, AtWork
  <2>2. CASE ~(Fail(h) /\ UNCHANGED rows)
    <3>1. PICK url \in BOOLEAN :
             Commits(UpdateRow(rows, worker[h].current,
                        [rows[Place(worker[h].current)] EXCEPT !.status = "completed", !.url = url]))
      BY <1>21, <2>2 DEF SendPart
    <3>. DEFINE new == [rows[<<h, 0>>] EXCEPT !.status = "completed", !.url = url]
    <3>2. worker[h].current = HeadId(h) /\ Place(HeadId(h)) = <<h, 0>>
      BY <1>2, <1>21 DEF SendPart, WorkerFirst, Place, HeadId, IdAt
    <3>3. rows' = UpdateRow(rows, HeadId(h), new)
      BY <1>3, <3>1, <3>2
    <3>4. new \in Row /\ new.gen = rows[<<h, 0>>].gen /\ new.status = "completed"
      BY <1>1 DEF Row, Status
    <3>. HIDE DEF new
    <3>5. HeadIs(h, {"completed"})' /\ rows'[<<h, 0>>].gen # 0
      BY <1>10, <1>21, <3>3, <3>4, HeadUpdated DEF HeadIs, SendPart, AtWork
    <3>6. worker'[h].pc = "part" /\ worker'[h].part # 0
      <4>1. worker' = [worker EXCEPT ![h].pc = "part", ![h].current = NoId, ![h].part = @ + 1]
        BY <1>21, <2>2 DEF SendPart
      <4>2. worker[h].part = 0
        BY <1>2, <1>21 DEF SendPart, WorkerFirst
      <4>. QED
        BY <1>1, <4>1, <4>2 DEF WorkerState
    <3>7. Leaves(main.todo, h)
      <4>1. rows[<<h, 0>>].gen # 0 /\ ~HeadIs(h, {"blocked"})
        BY <1>10, <1>21, <1>25 DEF SendPart, AtWork
      <4>2. ASSUME NEW w \in main.todo, w.op # "reassign", w.id.host = h PROVE FALSE
        BY <4>1, <4>2 DEF NoneStored, TodoFirst
      <4>. QED
        BY <4>2 DEF Leaves
    <3>. QED
      BY <3>5, <3>6, <3>7 DEF StoredBy, NoneStored
  <2>. QED
    BY <2>1, <2>2
<1>22. CASE EndParts(h)
  <2>1. worker[h].part = 0
    BY <1>2, <1>22 DEF EndParts, WorkerFirst
  <2>2. /\ worker' = [worker EXCEPT ![h].pc = "except", ![h].retryable = TRUE]
        /\ UNCHANGED <<rows, events>>
    BY <1>22, <2>1 DEF EndParts, tableVars
  <2>3. /\ worker'[h].pc = "except" /\ worker'[h].row = worker[h].row
        /\ worker'[h].dedupOnly = worker[h].dedupOnly
    BY <1>1, <2>2 DEF WorkerState
  <2>4. WorkerFirst(h)' /\ ~EndTurn(h)'
    BY <1>5, <1>7, <1>10, <1>22, <2>2, <2>3 DEF WorkerFirst, AtWork, EndTurn, EndParts
  <2>. QED
    BY <1>6, <2>2, <2>4
<1>23. CASE ReadOutcome(h)
  <2>1. HeadIs(h, {"pending", "failed"}) /\ EndTurn(h) /\ UNCHANGED <<rows, events>>
    BY <1>2, <1>23 DEF ReadOutcome, WorkerFirst, EndTurn, tableVars
  <2>2. worker'[h].pc = "announce" /\ ~worker'[h].ok
    <3>1. rows[<<h, 0>>].status \notin {"absent", "completed"} /\ 0 \in Parts
      BY <1>1, <2>1 DEF HeadIs
    <3>2. ~ \A p \in Parts : rows[<<h, p>>].status \in {"absent", "completed"}
      BY <3>1
    <3>. QED
      BY <1>1, <1>23, <3>2 DEF ReadOutcome, WorkerState
  <2>3. WorkerFirst(h)' /\ SignalsFirst(events)' /\ SignalTurns(events') \subseteq SignalTurns(events)
    BY <1>2, <2>1, <2>2 DEF WorkerFirst, AtWork, SignalsFirst
  <2>. QED
    BY <1>4, <1>5, <1>25, <2>1, <2>3, FirstByWorker
<1>24. CASE Announce(h)
  <2>. DEFINE e == Settled(h, worker[h].ok)
  <2>1. /\ events' = Append(events, e) /\ ~worker[h].ok /\ worker'[h].pc = "idle" /\ UNCHANGED rows
        /\ EndTurn(h)
    BY <1>2, <1>9, <1>24 DEF Announce, WorkerFirst, EndTurn
  <2>2. e \in Event /\ ~e.ok /\ e.kind = "settled"
    BY <1>1, <2>1 DEF Settled, Event, WorkerState
  <2>. HIDE DEF e
  <2>3. /\ SignalsFirst(events')
        /\ SignalTurns(events') \subseteq SignalTurns(events) \union {Len(events) + 1}
    BY <1>2, <2>1, <2>2, AppendedSignal
  <2>4. SignalsFirst(events)'
    BY <2>3 DEF SignalsFirst, SignalTurns
  <2>5. WorkerFirst(h)' /\ ~EndTurn(h)'
    BY <2>1 DEF WorkerFirst, AtWork, EndTurn
  <2>. QED
    BY <1>4, <1>5, <1>25, <2>1, <2>3, <2>4, <2>5, FirstByWorker
<1>. QED
  BY <1>11, <1>12, <1>13, <1>14, <1>15, <1>16, <1>17, <1>19, <1>20, <1>21, <1>22, <1>23, <1>24
  DEF WorkerStep

LEMMA SpinUpFirst ==
  ASSUME rows \in Table, events \in Seq(Event), main \in MainState, WorkerTypeOK, NoneStored,
         NEW h \in Hosts, SpinUp(h), UNCHANGED <<main, pollers>>
  PROVE  NoneStored'
<1>1. worker \in [Hosts -> WorkerState] /\ UNCHANGED rows /\ worker[h].pc = "spinup"
  BY DEF WorkerTypeOK, SpinUp, At
<1>2. PICK ok \in BOOLEAN :
        /\ Go(h, IF ok THEN "idle" ELSE "stopped") /\ events' = Append(events, Spun(h, ok))
  BY DEF SpinUp
<1>3. /\ worker'[h].pc \in {"idle", "stopped"}
      /\ \A g \in Hosts \ {h} : worker'[g] = worker[g]
  BY <1>1, <1>2 DEF Go, WorkerState
<1>4. WorkerFirst(h)' /\ ~EndTurn(h)'
  BY <1>3 DEF WorkerFirst, AtWork, EndTurn
<1>. DEFINE e == Spun(h, ok)
<1>5. e \in Event /\ e.kind # "settled" /\ events' = Append(events, e)
  BY <1>2 DEF Spun, Event
<1>. HIDE DEF e
<1>6. SignalsFirst(events') /\ SignalTurns(events') \subseteq SignalTurns(events)
  BY <1>5, AppendedSignal DEF NoneStored
<1>8. SignalsFirst(events)'
  BY <1>6 DEF SignalsFirst, SignalTurns
<1>7. RowFirst(h)' /\ (RowTurn(h)' => RowTurn(h)) /\ Tries(h) /\ (HeadIs(h, {"blocked"}) => HeadIs(h, {"blocked"})')
  <2>1. rows[<<h, 0>>].retries \in Nat
    BY PartZero DEF Table, Row
  <2>. QED
    BY <1>1, <2>1 DEF NoneStored, RowFirst, RowTurn, HeadIs, Tries
<1>. QED
  BY <1>1, <1>3, <1>4, <1>6, <1>7, <1>8, FirstByWorker

\* The worker of a member that has stored the gallery only comes to rest.
LEMMA StoredByWorker ==
  ASSUME OneByOne, rows \in Table, WorkerTypeOK, OwnRows, NEW k \in Hosts, StoredBy(k),
         NEW h \in Hosts, WorkerStep(h) \/ SpinUp(h), UNCHANGED <<main, pollers>>
  PROVE  StoredBy(k)'
<1>. USE DEF At
<1>1. worker \in [Hosts -> WorkerState] /\ worker[h] \in WorkerState /\ Parts = {0}
  BY OnePart DEF WorkerTypeOK
<1>2. ASSUME worker'[k] = worker[k], rows'[<<k, 0>>] = rows[<<k, 0>>]
      PROVE  StoredBy(k)'
  BY <1>2 DEF StoredBy, HeadIs
<1>3. ASSUME worker'[k].pc \in {"idle", "stopped", "settle", "announce"}, UNCHANGED rows
      PROVE  StoredBy(k)'
  BY <1>3 DEF StoredBy, HeadIs
<1>4. CASE SpinUp(h)
  <2>1. /\ UNCHANGED rows /\ \A g \in Hosts \ {h} : worker'[g] = worker[g]
        /\ worker'[h].pc \in {"idle", "stopped"}
    BY <1>1, <1>4 DEF SpinUp, Go, WorkerState
  <2>. QED
    BY <1>2, <1>3, <2>1
<1>5. CASE WorkerStep(h) /\ h # k
  <2>1. worker'[k] = worker[k] /\ rows'[<<k, 0>>] = rows[<<k, 0>>]
    BY <1>5, WorkerRows, WorkerWorks DEF Works
  <2>. QED
    BY <1>2, <2>1
<1>6. CASE WorkerStep(h) /\ h = k
  <2>1. /\ worker[h].pc \in {"idle", "stopped", "spinup", "settle", "announce", "part"}
        /\ worker[h].pc = "part" => worker[h].part # 0
        /\ rows[<<h, 0>>].status = "completed"
    BY <1>6 DEF StoredBy, HeadIs
  <2>2. ~(FailFast(h) \/ CommitPart(h) \/ CommitHead(h) \/ GiveUp(h) \/ StartUpload(h)
          \/ SendPart(h) \/ HandleError(h) \/ ReadSiblings(h) \/ Probe(h) \/ CommitAdd(h)
          \/ Archive(h))
    BY <2>1 DEF FailFast, CommitPart, CommitHead, GiveUp, StartUpload, SendPart, HandleError,
       ReadSiblings, Probe, CommitAdd, Archive
  <2>3. ~Pick(h)
    BY <1>1, <2>1 DEF Pick
  <2>4. ~BeginPart(h)
    <3>1. worker[h].part \in 0 .. 1 /\ worker[h].count \in 0 .. 1
      BY <1>1 DEF WorkerState, OneByOne
    <3>. QED
      BY <2>1, <3>1 DEF BeginPart
  <2>5. CASE Quit(h)
    <3>1. worker' = [worker EXCEPT ![h].pc = "stopped"] /\ UNCHANGED rows
      BY <2>5 DEF Quit, Go, tableVars
    <3>2. worker'[h].pc = "stopped"
      BY <1>1, <3>1 DEF WorkerState
    <3>. QED
      BY <1>3, <1>6, <3>1, <3>2
  <2>6. CASE EndParts(h)
    <3>1. ToSettle(h) /\ UNCHANGED rows
      BY <2>1, <2>6 DEF EndParts, tableVars
    <3>2. worker'[h].pc = "settle"
      BY <1>1, <3>1 DEF ToSettle, Fresh
    <3>. QED
      BY <1>3, <1>6, <3>1, <3>2
  <2>7. CASE ReadOutcome(h)
    <3>1. worker'[h].pc = "announce" /\ UNCHANGED rows
      BY <1>1, <2>7 DEF ReadOutcome, WorkerState, tableVars
    <3>. QED
      BY <1>3, <1>6, <3>1
  <2>8. CASE Announce(h)
    <3>1. worker'[h].pc = "idle" /\ UNCHANGED rows
      BY <1>1, <2>8 DEF Announce, Rest, Fresh
    <3>. QED
      BY <1>3, <1>6, <3>1
  <2>. QED
    BY <1>6, <2>2, <2>3, <2>4, <2>5, <2>6, <2>7, <2>8 DEF WorkerStep
<1>. QED
  BY <1>4, <1>5, <1>6

LEMMA OneTurnByWorker ==
  ASSUME OneByOne, IInv, OneTurn, NEW h \in Hosts, Worker(h)
  PROVE  OneTurn'
<1>1. /\ rows \in Table /\ events \in Seq(Event) /\ main \in MainState /\ WorkerTypeOK
      /\ dedup /\ OwnRows /\ UNCHANGED <<main, pollers>> /\ (WorkerStep(h) \/ SpinUp(h))
  BY DEF IInv, CoordinatorOK, TableTypeOK, CoordinatorTypeOK, ThreadsOK, OneTurn, Worker
<1>2. dedup'
  <2>1. CASE WorkerStep(h)
    BY <1>1, <2>1 DEF WorkerStep, FailFast, CommitPart, CommitHead, GiveUp, StartUpload, SendPart,
       HandleError, Pick, Quit, ReadSiblings, Probe, CommitAdd, Archive, BeginPart, EndParts,
       ReadOutcome, Announce, tableVars
  <2>. QED
    BY <1>1, <2>1 DEF SpinUp
<1>3. OwnRows'
  <2>1. CASE SpinUp(h)
    <3>1. /\ worker \in [Hosts -> WorkerState]
          /\ worker' = [worker EXCEPT ![h].pc = "idle"] \/ worker' = [worker EXCEPT ![h].pc = "stopped"]
      BY <1>1, <2>1 DEF WorkerTypeOK, SpinUp, Go
    <3>2. \A g \in Hosts : worker'[g].row = worker[g].row /\ worker'[g].current = worker[g].current
      BY <3>1 DEF WorkerState
    <3>. QED
      BY <1>1, <3>2 DEF OwnRows
  <2>. QED
    BY <1>1, <2>1, WorkerIds
<1>4. CASE NoneStored
  BY <1>1, <1>2, <1>3, <1>4, WorkerFirstStep, SpinUpFirst DEF OneTurn
<1>5. ASSUME NEW k \in Hosts, StoredBy(k) PROVE OneTurn'
  BY <1>1, <1>2, <1>3, <1>5, StoredByWorker DEF OneTurn
<1>. QED
  BY <1>4, <1>5 DEF OneTurn

-----------------------------------------------------------------------------
\* The main thread only decides what to write.
LEMMA FirstByMain ==
  ASSUME rows \in Table, NoneStored, UNCHANGED <<rows, worker, pollers, events>>,
         main'.pc \notin {"unblock", "react"}, TodoFirst(main'.todo),
         First(main'.todo) # {} => main.pc = "react" \/ First(main.todo) # {} \/ NotBegun
  PROVE  NoneStored'
<1>1. \A h \in Hosts : /\ RowFirst(h)' /\ WorkerFirst(h)'
                       /\ RowTurn(h)' <=> RowTurn(h)
                       /\ EndTurn(h)' <=> EndTurn(h)
                       /\ Tries(h)
  <2>1. \A h \in Hosts : rows[<<h, 0>>].retries \in Nat
    BY PartZero DEF Table, Row
  <2>. QED
    BY <2>1 DEF NoneStored, RowFirst, WorkerFirst, HeadIs, RowTurn, EndTurn, HeadId, Tries
<1>2. TodoFirst(main.todo)'
  BY DEF TodoFirst, HeadIs
<1>3. SignalsFirst(events)' /\ SignalTurns(events') = SignalTurns(events) /\ (NotBegun' <=> NotBegun)
  BY DEF NoneStored, SignalsFirst, SignalTurns, NotBegun
<1>4. /\ pollers' = {} /\ main'.pc # "unblock" /\ (main'.pc = "react" => ~main'.ev.ok)
  BY DEF NoneStored
<1>5. CASE First(main'.todo) = {} \/ First(main.todo) # {}
  <2>1. Turns' \subseteq Turns
    BY <1>1, <1>3, <1>5, TurnsAre, TurnsWithin
  <2>2. NotBegun' => Turns' \subseteq {<<"write", 0>>}
    BY <1>3, <2>1 DEF NoneStored
  <2>. QED
    BY <1>1, <1>2, <1>3, <1>4, <2>1, <2>2, NoneStoredStays
<1>6. CASE main.pc = "react"
  <2>. DEFINE x == <<"answer", 0>>
              y == <<"write", 0>>
              S == (Turns \ {x}) \union {y}
  <2>1. x \in Turns /\ ~NotBegun'
    BY <1>3, <1>6, TurnsAre, BegunFacts
  <2>2. Turns' \subseteq S
    <3>1. \A g \in Hosts : (RowTurn(g)' => <<"row", g>> \in S) /\ (EndTurn(g)' => <<"end", g>> \in S)
      BY <1>1, TurnsAre
    <3>2. \A i \in SignalTurns(events') : <<"signal", i>> \in S
      BY <1>3, TurnsAre
    <3>. HIDE DEF S
    <3>. QED
      BY <3>1, <3>2, TurnsWithin DEF S
  <2>3. \E u \in Turns : \E v : Turns' \subseteq (Turns \ {u}) \union {v}
    BY <2>1, <2>2
  <2>. HIDE DEF S
  <2>. QED
    BY <1>1, <1>2, <1>3, <1>4, <2>1, <2>3, NoneStoredStays
<1>7. CASE NotBegun
  <2>1. Turns' \subseteq {<<"write", 0>>}
    <3>1. /\ \A h \in Hosts : ~RowTurn(h)' /\ ~EndTurn(h)'
          /\ SignalTurns(events') = {}
      BY <1>1, <1>3, <1>7, BegunFacts
    <3>. QED
      BY <3>1, TurnsWithin
  <2>2. IsFiniteSet(Turns') /\ Cardinality(Turns') \in Nat /\ Cardinality(Turns') <= 1
    <3>1. IsFiniteSet({<<"write", 0>>}) /\ Cardinality({<<"write", 0>>}) = 1
      BY FS_Singleton
    <3>2. IsFiniteSet(Turns') /\ Cardinality(Turns') <= 1
      BY <2>1, <3>1, FS_Subset
    <3>. QED
      BY <3>2, FS_CardinalityType
  <2>3. Cardinality(AutoRetries') \in Nat
    <3>1. IsFiniteSet(AutoRetries')
      BY FiniteRetries DEF AutoRetries
    <3>. QED
      BY <3>1, FS_CardinalityType
  <2>4. TurnsCounted'
    BY <2>2, <2>3 DEF TurnsCounted
  <2>. QED
    BY <1>1, <1>2, <1>3, <1>4, <2>1, <2>4 DEF NoneStored
<1>. QED
  BY <1>5, <1>6, <1>7

\* One row of the gallery is written, while nobody has the turn but the writer.
LEMMA FirstByWrite ==
  ASSUME OneByOne, rows \in Table, main \in MainState, NoneStored, MainWrite, UNCHANGED worker
  PROVE  NoneStored'
<1>1. PICK w \in main.todo :
        /\ First(main.todo) # {} => w \in First(main.todo)
        /\ rows' = Apply(rows, w)
        /\ main' = [main EXCEPT !.todo = @ \ {w}]
  BY DEF MainWrite, Commits, Charge, OneByOne
<1>. DEFINE g == w.id.host
<1>2. /\ w \in Write /\ g \in Hosts /\ UNCHANGED <<events, pollers>>
      /\ main'.pc = main.pc /\ main'.ev = main.ev /\ main'.todo = main.todo \ {w}
  BY <1>1 DEF MainWrite, MainState, Write, RowId
<1>3. \A h \in Hosts \ {g} : rows'[<<h, 0>>] = rows[<<h, 0>>]
  BY <1>1, <1>2, ApplyElsewhere
<1>4. /\ \A h \in Hosts : RowFirst(h) /\ WorkerFirst(h)
      /\ TodoFirst(main.todo)
      /\ w.op \in Queues \union {"promote", "reassign"}
  BY DEF NoneStored, TodoFirst
<1>5. SignalsFirst(events)' /\ SignalTurns(events') = SignalTurns(events)
  BY <1>2 DEF NoneStored, SignalsFirst, SignalTurns
<1>6. \A h \in Hosts : EndTurn(h)' <=> EndTurn(h)
  BY DEF EndTurn
<1>7. rows[<<g, 0>>] \in Row
  BY <1>2, PartZero DEF Table
<1>8. ASSUME NEW h \in Hosts \ {g}
      PROVE  RowFirst(h)' /\ WorkerFirst(h)' /\ (RowTurn(h)' <=> RowTurn(h)) /\ Tries(h)
  <2>1. rows'[<<h, 0>>] = rows[<<h, 0>>] /\ rows[<<h, 0>>].retries \in Nat
    BY <1>3, <1>8, PartZero DEF Table, Row
  <2>. QED
    BY <1>4, <2>1 DEF RowFirst, WorkerFirst, HeadIs, RowTurn, HeadId, IdAt, Tries
<1>9. /\ main'.pc # "unblock" /\ (main'.pc = "react" => ~main'.ev.ok) /\ pollers' = {}
  BY <1>2 DEF NoneStored
<1>10. First(main'.todo) \subseteq First(main.todo) \ {w}
  BY <1>2 DEF First
<1>11. CASE w.op = "reassign"
  <2>1. First(main.todo) = {}
    BY <1>1, <1>11 DEF First
  <2>2. \A h \in Hosts : /\ rows'[<<h, 0>>].status = rows[<<h, 0>>].status
                         /\ rows'[<<h, 0>>].gen = rows[<<h, 0>>].gen
                         /\ rows'[<<h, 0>>].dedupOnly = rows[<<h, 0>>].dedupOnly
                         /\ rows'[<<h, 0>>].retries = rows[<<h, 0>>].retries
    BY <1>1, <1>2, <1>11, ReassignKeeps
  <2>7. \A h \in Hosts : rows[<<h, 0>>].retries \in Nat
    BY PartZero DEF Table, Row
  <2>3. \A h \in Hosts : RowFirst(h)' /\ WorkerFirst(h)' /\ (RowTurn(h)' <=> RowTurn(h)) /\ Tries(h)
    BY <1>4, <2>2, <2>7 DEF RowFirst, WorkerFirst, HeadIs, RowTurn, HeadId, IdAt, Tries
  <2>4. TodoFirst(main.todo)'
    <3>1. \A v \in main.todo : v.id.host \in Hosts
      BY DEF MainState, Write, RowId
    <3>2. \A v \in main'.todo : /\ v \in main.todo
                                /\ rows'[<<v.id.host, 0>>].gen = rows[<<v.id.host, 0>>].gen
                                /\ HeadIs(v.id.host, {"blocked"}) => HeadIs(v.id.host, {"blocked"})'
      BY <1>2, <2>2, <3>1 DEF HeadIs
    <3>3. First(main'.todo) = {}
      BY <1>10, <2>1
    <3>. QED
      BY <1>4, <3>2, <3>3 DEF TodoFirst
  <2>5. Turns' \subseteq Turns
    BY <1>2, <1>5, <1>6, <1>10, <2>1, <2>3, TurnsAre, TurnsWithin
  <2>6. NotBegun' => Turns' \subseteq {<<"write", 0>>}
    BY <2>2, <2>5 DEF NotBegun, NoneStored
  <2>. QED
    BY <1>5, <1>9, <2>3, <2>4, <2>5, <2>6, NoneStoredStays
<1>12. CASE w.op = "queueBlocked"
  <2>1. First(main.todo) = {}
    BY <1>1, <1>12 DEF First
  <2>2. rows[<<g, 0>>].gen = 0 /\ HeadIs(g, {"absent"})
    BY <1>2, <1>4, <1>12 DEF TodoFirst, RowFirst
  <2>3. rows' = Queued(rows, g, "blocked", w.on)
    BY <1>1, <1>12 DEF Apply, Queued
  <2>4. /\ rows'[<<g, 0>>].gen = rows[<<g, 0>>].gen + 1 /\ rows'[<<g, 0>>].status = "blocked"
        /\ ~rows'[<<g, 0>>].dedupOnly /\ rows'[<<g, 0>>].retries = 0
    <3>1. "blocked" \in Status
      BY DEF Status
    <3>. QED
      BY <1>2, <2>3, <3>1, QueuedRow
  <2>5. rows'[<<g, 0>>].gen # 0
    BY <2>2, <2>4
  <2>6. RowFirst(g)' /\ ~RowTurn(g)' /\ Tries(g)
    BY <1>2, <1>4, <2>2, <2>4, <2>5 DEF RowFirst, HeadIs, RowTurn, Tries
  <2>7. WorkerFirst(g)'
    BY <1>2, <1>4, <2>2 DEF WorkerFirst, RowTurn, HeadIs, AtWork
  <2>8. TodoFirst(main.todo)'
    <3>1. ASSUME NEW v \in main'.todo
          PROVE  /\ v.op \in Queues \union {"reassign"}
                 /\ v.op \in Queues => rows'[<<v.id.host, 0>>].gen = 0
      <4>1. v \in main.todo /\ v # w /\ v \notin First(main.todo) /\ v.id.host \in Hosts
        BY <1>2, <2>1 DEF MainState, Write, RowId
      <4>2. v.op \in Queues => v.id.host # g
        BY <1>4, <1>12, <4>1 DEF TodoFirst, Queues
      <4>. QED
        BY <1>3, <1>4, <4>1, <4>2 DEF TodoFirst, First, Queues
    <3>. QED
      BY <1>2, <1>4, <1>10, <2>1, <3>1 DEF TodoFirst, Queues
  <2>9. Turns' \subseteq Turns
    <3>1. First(main'.todo) = {}
      BY <1>10, <2>1
    <3>. QED
      BY <1>2, <1>5, <1>6, <1>8, <2>6, <3>1, TurnsAre, TurnsWithin
  <2>10. ~NotBegun'
    BY <1>2, <2>5 DEF NotBegun
  <2>11. \A h \in Hosts : RowFirst(h)' /\ WorkerFirst(h)' /\ Tries(h)
    BY <1>8, <2>6, <2>7
  <2>. QED
    BY <1>5, <1>9, <2>8, <2>9, <2>10, <2>11, NoneStoredStays
<1>13. CASE w.op \in {"queuePending", "promote"}
  <2>1. w \in First(main.todo) /\ First(main'.todo) = {}
    BY <1>4, <1>10, <1>13 DEF First, TodoFirst
  <2>2. HeadIs(g, {"absent", "blocked"}) /\ ~RowTurn(g)
    BY <1>2, <1>4, <1>13 DEF TodoFirst, Queues, RowFirst, HeadIs, RowTurn
  <2>4. /\ rows'[<<g, 0>>].gen # 0 /\ rows'[<<g, 0>>].status # "completed"
        /\ ~rows'[<<g, 0>>].dedupOnly /\ rows'[<<g, 0>>].retries = rows[<<g, 0>>].retries
    <3>1. CASE w.op = "queuePending"
      <4>1. rows' = Queued(rows, g, "pending", NoId)
        BY <1>1, <3>1 DEF Apply, Queued
      <4>2. /\ rows'[<<g, 0>>].gen = rows[<<g, 0>>].gen + 1 /\ rows'[<<g, 0>>].status = "pending"
            /\ ~rows'[<<g, 0>>].dedupOnly /\ rows'[<<g, 0>>].retries = 0
        <5>1. "pending" \in Status
          BY DEF Status
        <5>. QED
          BY <1>2, <4>1, <5>1, QueuedRow
      <4>3. rows[<<g, 0>>].gen = 0 /\ rows[<<g, 0>>].retries = 0
        BY <1>2, <1>4, <3>1 DEF TodoFirst, Queues, RowFirst
      <4>. QED
        BY <4>2, <4>3
    <3>2. CASE w.op = "promote"
      <4>. DEFINE new == [rows[Place(w.id)] EXCEPT !.status = "pending", !.blockedBy = NoId]
      <4>1. rows' = UpdateRow(rows, w.id, new)
        BY <1>1, <3>2 DEF Apply, Updated
      <4>2. rows[<<g, 0>>].gen # 0 /\ rows[<<g, 0>>].status # "completed" /\ ~rows[<<g, 0>>].dedupOnly
        BY <1>2, <1>4, <3>2 DEF TodoFirst, RowFirst, HeadIs
      <4>3. w.id \in RowId /\ Place(w.id) \in Hosts \X Parts /\ rows[Place(w.id)] \in Row
        BY <1>2, PlaceType DEF Write, Table
      <4>4. /\ new.gen = rows[Place(w.id)].gen /\ new.status = "pending"
            /\ new.dedupOnly = rows[Place(w.id)].dedupOnly
            /\ new.retries = rows[Place(w.id)].retries
        BY <4>3 DEF Row
      <4>. HIDE DEF new
      <4>5. \/ rows'[<<g, 0>>] = rows[<<g, 0>>]
            \/ Place(w.id) = <<g, 0>> /\ rows'[<<g, 0>>] = new
        BY <1>2, <4>1, <4>3, PartZero DEF UpdateRow, Table
      <4>. QED
        BY <4>2, <4>4, <4>5
    <3>. QED
      BY <1>13, <3>1, <3>2
  <2>5. RowFirst(g)' /\ ~NotBegun' /\ Tries(g)
    BY <1>2, <1>7, <2>4 DEF RowFirst, HeadIs, NotBegun, Tries, Row
  <2>6. WorkerFirst(g)'
    BY <1>2, <1>4, <2>2 DEF WorkerFirst, HeadIs, AtWork
  <2>7. TodoFirst(main.todo)'
    <3>1. ASSUME NEW v \in main'.todo
          PROVE  /\ v.op \in Queues \union {"reassign"}
                 /\ v.op \in Queues => rows'[<<v.id.host, 0>>].gen = 0
      <4>1. v \in main.todo /\ v # w /\ v \notin First(main'.todo) /\ v.id.host \in Hosts
        BY <1>2, <2>1 DEF MainState, Write, RowId
      <4>2. ASSUME v.op \in Queues PROVE v.id.host # g
        <5>1. CASE w.op = "queuePending"
          BY <1>4, <4>1, <4>2, <5>1 DEF TodoFirst, Queues
        <5>2. CASE w.op = "promote"
          <6>1. rows[<<g, 0>>].gen # 0 /\ rows[<<v.id.host, 0>>].gen = 0
            BY <1>2, <1>4, <4>1, <4>2, <5>2 DEF TodoFirst, RowFirst, HeadIs
          <6>. QED
            BY <6>1
        <5>. QED
          BY <1>13, <5>1, <5>2
      <4>3. v.op # "promote"
        BY <3>1, <4>1 DEF First
      <4>. QED
        BY <1>3, <1>4, <4>1, <4>2, <4>3 DEF TodoFirst, Queues
    <3>2. \A u, v \in main'.todo : u.op \in Queues /\ v.op \in Queues /\ u.id.host = v.id.host => u = v
      BY <1>2, <1>4 DEF TodoFirst
    <3>. QED
      BY <2>1, <3>1, <3>2 DEF TodoFirst, Queues
  <2>. DEFINE x == <<"write", 0>>
              y == <<"row", g>>
              S == (Turns \ {x}) \union {y}
  <2>8. x \in Turns
    BY <2>1, TurnsAre
  <2>9. Turns' \subseteq S
    <3>1. \A h \in Hosts : (RowTurn(h)' => <<"row", h>> \in S) /\ (EndTurn(h)' => <<"end", h>> \in S)
      BY <1>6, <1>8, TurnsAre
    <3>2. \A i \in SignalTurns(events') : <<"signal", i>> \in S
      BY <1>5, TurnsAre
    <3>3. main'.pc = "react" => <<"answer", 0>> \in S
      BY <1>2, TurnsAre
    <3>. HIDE DEF S
    <3>. QED
      BY <2>1, <3>1, <3>2, <3>3, TurnsWithin
  <2>10. \E u \in Turns : \E v : Turns' \subseteq (Turns \ {u}) \union {v}
    BY <2>8, <2>9
  <2>. HIDE DEF S
  <2>11. \A h \in Hosts : RowFirst(h)' /\ WorkerFirst(h)' /\ Tries(h)
    BY <1>8, <2>5, <2>6
  <2>. QED
    BY <1>5, <1>9, <2>5, <2>7, <2>10, <2>11, NoneStoredStays
<1>. QED
  BY <1>4, <1>11, <1>12, <1>13 DEF Queues

LEMMA FirstBySignal ==
  ASSUME rows \in Table, events \in Seq(Event), main \in MainState, dedup, NoneStored, TakeEvent,
         UNCHANGED worker
  PROVE  NoneStored'
<1>1. /\ events # <<>> /\ events[1].kind = "settled" /\ events' = Tail(events)
      /\ main' = [main EXCEPT !.pc = "react", !.ev = events[1]] /\ UNCHANGED <<rows, pollers>>
  BY DEF TakeEvent
<1>2. SignalsFirst(events)' /\ ~events[1].ok
  <2>1. SignalsFirst(events)
    BY DEF NoneStored
  <2>2. SignalsFirst(Tail(events)) /\ 1 \in SignalTurns(events)
    BY <1>1, <2>1, TakenSignal
  <2>3. ~events[1].ok
    BY <2>1, <2>2 DEF SignalsFirst
  <2>. QED
    BY <1>1, <2>2, <2>3 DEF SignalsFirst, SignalTurns
<1>3. main'.pc = "react" /\ ~main'.ev.ok /\ main'.todo = main.todo
  BY <1>1, <1>2 DEF MainState
<1>4. /\ \A h \in Hosts : /\ RowFirst(h)' /\ WorkerFirst(h)' /\ Tries(h)
                          /\ RowTurn(h)' <=> RowTurn(h)
                          /\ EndTurn(h)' <=> EndTurn(h)
      /\ NotBegun' <=> NotBegun
  <2>1. \A h \in Hosts : rows[<<h, 0>>].retries \in Nat
    BY PartZero DEF Table, Row
  <2>. QED
    BY <1>1, <2>1 DEF NoneStored, RowFirst, WorkerFirst, HeadIs, RowTurn, EndTurn, HeadId, NotBegun,
       Tries
<1>5. TodoFirst(main.todo)'
  BY <1>1, <1>3 DEF NoneStored, TodoFirst, HeadIs
<1>6. /\ \E f : Turns' \subseteq {f[t] : t \in Turns}
      /\ NotBegun => Turns' \subseteq {<<"write", 0>>}
  BY <1>1, <1>3, <1>4, SignalsMoveUp
<1>. QED
  BY <1>1, <1>2, <1>3, <1>4, <1>5, <1>6, NoneStoredStays DEF NoneStored

LEMMA FirstByDecision ==
  ASSUME TableTypeOK, main \in MainState, NoneStored,
         HandleSuccess \/ MainUnblock \/ HandleFailure \/ RetryScan \/ WritesDone, UNCHANGED worker
  PROVE  NoneStored'
<1>1. ~HandleSuccess /\ ~MainUnblock
  BY DEF NoneStored, HandleSuccess, MainUnblock
<1>2. UNCHANGED <<rows, events, pollers>>
  BY <1>1 DEF HandleFailure, RetryScan, WritesDone, tableVars
<1>3. \A pc, todo : MainGo(pc, todo) => main'.pc = pc /\ main'.todo = todo
  BY DEF MainGo, MainState
<1>4. TodoFirst({}) /\ First({}) = {}
  BY DEF TodoFirst, First
<1>5. ASSUME main'.todo = {}, main'.pc \notin {"unblock", "react"} PROVE NoneStored'
  BY <1>2, <1>4, <1>5, FirstByMain DEF TableTypeOK
<1>6. CASE RetryScan
  <2>1. {h \in Heads : HeadRow(h).status = "completed"} = {}
    BY HeadSets DEF NoneStored, RowFirst, HeadIs, HeadRow
  <2>2. main'.pc = "finish" /\ main'.todo = {}
    BY <1>3, <1>6, <2>1 DEF RetryScan
  <2>. QED
    BY <1>5, <2>2
<1>7. CASE WritesDone
  <2>1. main'.todo = {} /\ main'.pc \in {"scan", "idle"}
    BY <1>3, <1>7 DEF WritesDone, MainIdle
  <2>. QED
    BY <1>5, <2>1
<1>8. CASE HandleFailure
  <2>. DEFINE h == main.ev.host
  <2>1. CASE NotPromoting(h)
    <3>1. main'.pc = "scan" /\ main'.todo = {}
      BY <1>3, <1>8, <2>1 DEF HandleFailure
    <3>. QED
      BY <1>5, <3>1
  <2>2. CASE ~NotPromoting(h)
    <3>. DEFINE next == Primary(BlockedHeads \ {h})
                first == W("promote", HeadId(next), NoId)
    <3>1. main'.pc = "write" /\ main'.todo = Promotion(h) /\ main.pc = "react"
      BY <1>3, <1>8, <2>2 DEF HandleFailure
    <3>2. next \in BlockedHeads /\ next \in Hosts
      BY <2>2, PrimaryIn, HeadSets DEF NotPromoting
    <3>3. HeadId(next).host = next
      BY <3>2, HeadIdType
    <3>4. HeadIs(next, {"blocked"})
      BY <3>2 DEF HeadIs, BlockedHeads, HeadRow
    <3>. HIDE DEF next
    <3>5. first.op = "promote" /\ first.id.host = next
      BY <3>3 DEF W
    <3>6. \A w \in Promotion(h) : w = first \/ w.op = "reassign"
      BY DEF Promotion, Reassignments, W, next
    <3>. HIDE DEF first
    <3>7. \A w \in First(Promotion(h)) : w = first
      BY <3>6 DEF First
    <3>8. TodoFirst(Promotion(h))
      BY <3>4, <3>5, <3>6, <3>7 DEF TodoFirst, Queues
    <3>. QED
      BY <1>2, <3>1, <3>8, FirstByMain DEF TableTypeOK
  <2>. QED
    BY <2>1, <2>2
<1>. QED
  BY <1>1, <1>6, <1>7, <1>8

\* The first trigger queues one pending row.
LEMMA FirstByTrigger ==
  ASSUME TableTypeOK, main \in MainState, dedup, NoneStored, FirstTrigger
  PROVE  NoneStored'
<1>1. /\ \A h \in Hosts : rows[<<h, 0>>].gen = 0
      /\ UNCHANGED <<rows, worker, pollers, events>>
  BY DEF FirstTrigger, QueueGallery, tableVars
<1>2. PICK S \in TriggerSets : QueueGallery(S)
  BY DEF FirstTrigger
<1>3. S \in SUBSET Hosts /\ S # {}
  BY TriggerAssumption
<1>. DEFINE todo == IF Cardinality(S) > 1 THEN QueueFamily(S) ELSE QueuePlain(S)
<1>4. main' = [main EXCEPT !.pc = "finish", !.todo = todo, !.primary = NoId]
  BY <1>2 DEF QueueGallery, MainGo
<1>5. main'.pc = "finish" /\ main'.todo = todo
  <2>. HIDE DEF todo
  <2>. QED
    BY <1>4 DEF MainState
<1>6. \E first \in Hosts :
         \A w \in todo : \/ w.op = "queuePending" /\ w = W("queuePending", HeadId(first), NoId)
                         \/ w.op = "queueBlocked" /\ \E h \in S \ {first} :
                               w = W("queueBlocked", HeadId(h), NextId(rows, first, 0))
  <2>1. CASE Cardinality(S) > 1
    <3>1. Primary(S) \in Hosts
      BY <1>3, PrimaryIn
    <3>2. todo = QueueFamily(S)
      BY <2>1
    <3>. QED
      BY <3>1, <3>2 DEF QueueFamily, QueuePlain, W
  <2>2. CASE ~(Cardinality(S) > 1)
    <3>1. \E first \in Hosts : S = {first}
      <4>1. IsFiniteSet(Hosts)
        BY SizeAssumption, FS_Interval DEF Hosts
      <4>2. IsFiniteSet(S)
        BY <1>3, <4>1, FS_Subset
      <4>3. Cardinality(S) \in Nat /\ Cardinality(S) # 0
        BY <1>3, <4>2, FS_CardinalityType, FS_EmptySet
      <4>4. Cardinality(S) = 1
        BY <2>2, <4>3
      <4>. QED
        BY <1>3, <4>2, <4>4, FS_Singleton
    <3>2. todo = QueuePlain(S)
      BY <2>2
    <3>. QED
      BY <3>1, <3>2 DEF QueuePlain, W
  <2>. QED
    BY <2>1, <2>2
<1>7. PICK first \in Hosts :
         \A w \in todo : \/ w.op = "queuePending" /\ w = W("queuePending", HeadId(first), NoId)
                         \/ w.op = "queueBlocked" /\ \E h \in S \ {first} :
                               w = W("queueBlocked", HeadId(h), NextId(rows, first, 0))
  BY <1>6
<1>. HIDE DEF todo
<1>8. ASSUME NEW w \in todo
      PROVE  /\ w.op \in Queues /\ w.id.host \in Hosts
             /\ w.op = "queuePending" => w.id.host = first
             /\ w.op = "queueBlocked" =>
                   /\ w.id.host # first
                   /\ w = W("queueBlocked", HeadId(w.id.host), NextId(rows, first, 0))
  <2>1. CASE w.op = "queuePending"
    <3>1. w = W("queuePending", HeadId(first), NoId)
      BY <1>7, <2>1
    <3>2. w.id.host = first
      BY <3>1, HeadIdType DEF W
    <3>. QED
      BY <2>1, <3>2 DEF Queues
  <2>2. CASE w.op = "queueBlocked"
    <3>1. PICK h \in S \ {first} : w = W("queueBlocked", HeadId(h), NextId(rows, first, 0))
      BY <1>7, <2>2
    <3>2. w.id.host = h
      BY <1>3, <3>1, HeadIdType DEF W
    <3>. QED
      BY <1>3, <2>2, <3>1, <3>2 DEF Queues
  <2>. QED
    BY <1>7, <2>1, <2>2
<1>9. \A v, w \in todo : v.id.host = w.id.host => v = w
  <2>1. ASSUME NEW v \in todo, NEW w \in todo, v.id.host = w.id.host PROVE v = w
    <3>1. CASE v.op = "queuePending" /\ w.op = "queuePending"
      BY <1>7, <3>1
    <3>2. CASE v.op = "queueBlocked" /\ w.op = "queueBlocked"
      BY <1>8, <2>1, <3>2
    <3>. QED
      BY <1>8, <2>1, <3>1, <3>2 DEF Queues
  <2>. QED
    BY <2>1
<1>10. \A w \in First(todo) : w = W("queuePending", HeadId(first), NoId)
  BY <1>7 DEF First
<1>11. TodoFirst(todo)
  BY <1>1, <1>8, <1>9, <1>10 DEF TodoFirst, Queues
<1>12. NotBegun
  BY <1>1 DEF NotBegun
<1>. QED
  BY <1>1, <1>5, <1>11, <1>12, FirstByMain DEF TableTypeOK

-----------------------------------------------------------------------------
\* What a member has stored is not written again.
LEMMA StoredStays ==
  ASSUME NEW k \in Hosts, StoredBy(k),
         rows'[<<k, 0>>].status = rows[<<k, 0>>].status,
         rows'[<<k, 0>>].gen = rows[<<k, 0>>].gen,
         \/ worker'[k].pc = worker[k].pc /\ worker'[k].part = worker[k].part
         \/ worker'[k].pc \in {"spinup", "stopped"},
         Leaves(main'.todo, k), \A p \in pollers' : Leaves(p.todo, k)
  PROVE  StoredBy(k)'
BY DEF StoredBy, HeadIs, Leaves

LEMMA BlockedLeaves ==
  ASSUME TableTypeOK, NEW k \in Hosts, HeadIs(k, {"completed"})
  PROVE  /\ \A id : Leaves(Unblocks(id), k)
         /\ \A h : ~NotPromoting(h) => Leaves(Promotion(h), k)
         /\ \A h \in Heads : Leaves({RetryOf(g, h) : g \in Losers}, k)
<1>1. k \notin BlockedHeads /\ k \notin Losers
  BY DEF HeadIs, BlockedHeads, Losers, HeadRow
<1>2. \A h \in Hosts : HeadId(h).host = h
  BY HeadIdType
<1>3. \A id : Leaves(Unblocks(id), k)
  <2>1. ASSUME NEW id, NEW w \in Unblocks(id) PROVE w.id.host # k
    <3>1. PICK h \in WaitersOn(id) : w = W("unblock", HeadId(h), NoId)
      BY DEF Unblocks
    <3>. QED
      BY <1>1, <1>2, <3>1, HeadSets DEF W, WaitersOn
  <2>. QED
    BY <2>1 DEF Leaves
<1>4. ASSUME NEW h, ~NotPromoting(h) PROVE Leaves(Promotion(h), k)
  <2>. DEFINE next == Primary(BlockedHeads \ {h})
  <2>1. next \in BlockedHeads /\ next \in Hosts
    BY <1>4, PrimaryIn, HeadSets DEF NotPromoting
  <2>2. HeadId(next).host # k
    BY <1>1, <1>2, <2>1
  <2>. HIDE DEF next
  <2>3. W("promote", HeadId(next), NoId).id.host # k
    BY <2>2 DEF W
  <2>4. \A w \in Promotion(h) : w = W("promote", HeadId(next), NoId) \/ w.op = "reassign"
    BY DEF Promotion, Reassignments, W, next
  <2>. QED
    BY <2>3, <2>4 DEF Leaves
<1>5. ASSUME NEW h \in Heads PROVE Leaves({RetryOf(g, h) : g \in Losers}, k)
  <2>1. ASSUME NEW g \in Losers PROVE RetryOf(g, h).id.host # k
    <3>1. g \in Hosts /\ g # k
      BY <1>1, HeadSets DEF Losers
    <3>2. HeadId(g).host # k
      BY <1>2, <3>1
    <3>. QED
      BY <3>2 DEF RetryOf, W
  <2>. QED
    BY <2>1 DEF Leaves
<1>. QED
  BY <1>3, <1>4, <1>5

LEMMA StoredByMain ==
  ASSUME OneByOne, CoordinatorOK, NEW k \in Hosts, StoredBy(k), MainStep, UNCHANGED worker
  PROVE  StoredBy(k)'
<1>1. /\ TableTypeOK /\ rows \in Table /\ main \in MainState /\ IsFiniteSet(pollers)
      /\ HeadIs(k, {"completed"}) /\ Leaves(main.todo, k) /\ \A p \in pollers : Leaves(p.todo, k)
  BY DEF CoordinatorOK, CoordinatorTypeOK, TableTypeOK, PollersOK, StoredBy
<1>2. \A pc, todo : MainGo(pc, todo) => main'.todo = todo
  BY <1>1 DEF MainGo, MainState
<1>3. Leaves({}, k)
  BY DEF Leaves
<1>4. ASSUME UNCHANGED <<rows, pollers>>, Leaves(main'.todo, k) PROVE StoredBy(k)'
  BY <1>1, <1>4, StoredStays
<1>5. CASE MainWrite
  <2>1. PICK w \in main.todo :
          /\ rows' = Apply(rows, w)
          /\ main' = [main EXCEPT !.todo = @ \ {w}]
    BY <1>5 DEF MainWrite, Commits, Charge, OneByOne
  <2>2. w \in Write /\ main'.todo = main.todo \ {w} /\ UNCHANGED pollers
    BY <1>1, <1>5, <2>1 DEF MainState, MainWrite
  <2>3. /\ rows'[<<k, 0>>].status = rows[<<k, 0>>].status
        /\ rows'[<<k, 0>>].gen = rows[<<k, 0>>].gen
    <3>1. CASE w.op = "reassign"
      BY <1>1, <2>1, <2>2, <3>1, ReassignKeeps
    <3>2. CASE w.op # "reassign"
      <4>1. w.id.host # k
        BY <1>1, <3>2 DEF Leaves
      <4>. QED
        BY <1>1, <2>1, <2>2, <4>1, ApplyElsewhere
    <3>. QED
      BY <3>1, <3>2
  <2>4. Leaves(main'.todo, k)
    BY <1>1, <2>2 DEF Leaves
  <2>. QED
    BY <1>1, <2>2, <2>3, <2>4, StoredStays
<1>6. CASE TakeEvent
  <2>1. main'.todo = main.todo /\ UNCHANGED <<rows, pollers>>
    <3>1. main' = main \/ main' = [main EXCEPT !.pc = "react", !.ev = events[1]]
      BY <1>6 DEF TakeEvent
    <3>. QED
      BY <1>1, <1>6, <3>1 DEF TakeEvent, MainState
  <2>. QED
    BY <1>1, <1>4, <2>1
<1>7. CASE HandleSuccess
  <2>. DEFINE h == main.ev.host
  <2>1. CASE h \notin Heads \/ WaitersOn(HeadId(h)) = {}
    <3>1. main'.todo = {} /\ UNCHANGED <<rows, pollers>>
      BY <1>2, <1>7, <2>1 DEF HandleSuccess, tableVars
    <3>. QED
      BY <1>3, <1>4, <3>1
  <2>2. CASE ~(h \notin Heads \/ WaitersOn(HeadId(h)) = {}) /\ (HeadRow(h).md5 \/ ~HeadRow(h).url)
    <3>1. main' = [main EXCEPT !.pc = "unblock", !.primary = HeadId(h)] /\ UNCHANGED <<rows, pollers>>
      BY <1>7, <2>2 DEF HandleSuccess, tableVars
    <3>2. main'.todo = main.todo
      BY <1>1, <3>1 DEF MainState
    <3>. QED
      BY <1>1, <1>4, <3>1, <3>2
  <2>3. CASE ~(h \notin Heads \/ WaitersOn(HeadId(h)) = {}) /\ ~(HeadRow(h).md5 \/ ~HeadRow(h).url)
    <3>. DEFINE id == HeadId(h)
    <3>1. /\ MainGo("scan", {}) /\ UNCHANGED rows
          /\ pollers' = Displaced(id) \union {NewPoller(id)}
      BY <1>7, <2>3 DEF HandleSuccess, tableVars
    <3>2. id \in RowId
      BY <1>1, <2>3, HeadIdType, HeadSets
    <3>3. NewPoller(id).todo = {}
      BY <1>1, <3>2, NewPollerType
    <3>4. \A q \in pollers : [q EXCEPT !.registered = FALSE].todo = q.todo
      BY DEF CoordinatorOK, CoordinatorTypeOK, Poller
    <3>. HIDE DEF id
    <3>5. \A p \in Displaced(id) : \E q \in pollers : p.todo = q.todo
      BY <3>4 DEF Displaced
    <3>6. \A p \in pollers' : Leaves(p.todo, k)
      BY <1>1, <1>3, <3>1, <3>3, <3>5
    <3>7. main'.todo = {}
      BY <1>2, <3>1
    <3>. QED
      BY <1>3, <3>1, <3>6, <3>7, StoredStays
  <2>. QED
    BY <2>1, <2>2, <2>3
<1>8. CASE MainUnblock
  <2>1. main'.todo = Unblocks(main.primary) /\ UNCHANGED <<rows, pollers>>
    BY <1>2, <1>8 DEF MainUnblock, tableVars
  <2>. QED
    BY <1>1, <1>4, <2>1, BlockedLeaves
<1>9. CASE HandleFailure
  <2>. DEFINE h == main.ev.host
  <2>1. /\ main'.todo = {} \/ (~NotPromoting(h) /\ main'.todo = Promotion(h))
        /\ UNCHANGED <<rows, pollers>>
    BY <1>2, <1>9 DEF HandleFailure, tableVars
  <2>2. Leaves(main'.todo, k)
    BY <1>1, <1>3, <2>1, BlockedLeaves
  <2>. QED
    BY <1>4, <2>1, <2>2
<1>10. CASE RetryScan
  <2>1. /\ main'.todo = {} \/ \E h \in Heads : main'.todo = {RetryOf(g, h) : g \in Losers}
        /\ UNCHANGED <<rows, pollers>>
    BY <1>2, <1>10 DEF RetryScan, tableVars
  <2>2. Leaves(main'.todo, k)
    BY <1>1, <1>3, <2>1, BlockedLeaves
  <2>. QED
    BY <1>4, <2>1, <2>2
<1>11. CASE WritesDone
  <2>1. main'.todo = {} /\ UNCHANGED <<rows, pollers>>
    BY <1>2, <1>11 DEF WritesDone, MainIdle, tableVars
  <2>. QED
    BY <1>3, <1>4, <2>1
<1>. QED
  BY <1>5, <1>6, <1>7, <1>8, <1>9, <1>10, <1>11 DEF MainStep

LEMMA StoredByPollers ==
  ASSUME OneByOne, CoordinatorOK, NEW k \in Hosts, StoredBy(k), PollerStep, UNCHANGED worker
  PROVE  StoredBy(k)'
<1>1. /\ TableTypeOK /\ rows \in Table
      /\ HeadIs(k, {"completed"}) /\ Leaves(main.todo, k) /\ \A q \in pollers : Leaves(q.todo, k)
  BY DEF CoordinatorOK, TableTypeOK, StoredBy
<1>2. PICK p \in pollers : PollerWrite(p) \/ Fire(p) \/ PollMd5(p) \/ PollerUnblock(p) \/ PollerEnds(p)
  BY DEF PollerStep
<1>3. /\ p \in Poller /\ p.primary \in RowId /\ p.todo \in SUBSET Write
      /\ \A w \in p.todo : w.op = "unblock"
  BY PollerTypes
<1>4. ASSUME NEW q, Replace(p, q), Leaves(q.todo, k) PROVE \A r \in pollers' : Leaves(r.todo, k)
  BY <1>1, <1>4 DEF Replace
<1>5. CASE PollerWrite(p)
  <2>1. PICK w \in p.todo : rows' = Apply(rows, w) /\ Replace(p, [p EXCEPT !.todo = @ \ {w}])
    BY <1>5 DEF PollerWrite, Commits, Charge, OneByOne
  <2>2. Leaves([p EXCEPT !.todo = @ \ {w}].todo, k)
    <3>1. [p EXCEPT !.todo = @ \ {w}].todo = p.todo \ {w}
      BY <1>3 DEF Poller
    <3>. QED
      BY <1>1, <3>1 DEF Leaves
  <2>3. w.id.host # k /\ w \in Write
    BY <1>1, <1>3 DEF Leaves
  <2>4. rows'[<<k, 0>>] = rows[<<k, 0>>]
    BY <1>1, <2>1, <2>3, ApplyElsewhere
  <2>5. \A r \in pollers' : Leaves(r.todo, k)
    BY <1>4, <2>1, <2>2
  <2>6. UNCHANGED main
    BY <1>5 DEF PollerWrite
  <2>. QED
    BY <1>1, <2>4, <2>5, <2>6, StoredStays
<1>6. CASE Fire(p)
  <2>1. Replace(p, [p EXCEPT !.pc = "poll"]) /\ UNCHANGED <<rows, main>>
    BY <1>6 DEF Fire, tableVars
  <2>2. [p EXCEPT !.pc = "poll"].todo = p.todo
    BY <1>3 DEF Poller
  <2>3. \A r \in pollers' : Leaves(r.todo, k)
    BY <1>1, <1>4, <2>1, <2>2
  <2>. QED
    BY <1>1, <2>1, <2>3, StoredStays
<1>7. CASE PollMd5(p)
  <2>. DEFINE new == [rows[Place(p.primary)] EXCEPT !.md5 = TRUE]
  <2>1. /\ rows' = UpdateRow(rows, p.primary, new) \/ rows' = rows
        /\ Replace(p, [p EXCEPT !.pc = "unblock"]) /\ UNCHANGED main
    BY <1>7 DEF PollMd5
  <2>2. [p EXCEPT !.pc = "unblock"].todo = p.todo
    BY <1>3 DEF Poller
  <2>3. \A r \in pollers' : Leaves(r.todo, k)
    BY <1>1, <1>4, <2>1, <2>2
  <2>4. Place(p.primary) \in Hosts \X Parts /\ rows[Place(p.primary)] \in Row
    BY <1>1, <1>3, PlaceType DEF Table
  <2>5. new.status = rows[Place(p.primary)].status /\ new.gen = rows[Place(p.primary)].gen
    BY <2>4 DEF Row
  <2>. HIDE DEF new
  <2>6. \/ rows'[<<k, 0>>] = rows[<<k, 0>>]
        \/ <<k, 0>> = Place(p.primary) /\ rows'[<<k, 0>>] = new
    BY <1>1, <2>1, <2>4, PartZero DEF UpdateRow, Table
  <2>7. /\ rows'[<<k, 0>>].status = rows[<<k, 0>>].status
        /\ rows'[<<k, 0>>].gen = rows[<<k, 0>>].gen
    BY <2>5, <2>6
  <2>. QED
    BY <1>1, <2>1, <2>3, <2>7, StoredStays
<1>8. CASE PollerUnblock(p)
  <2>. DEFINE q == [p EXCEPT !.pc = "write", !.todo = Unblocks(p.primary)]
  <2>1. Replace(p, q) /\ UNCHANGED <<rows, main>>
    BY <1>8 DEF PollerUnblock, tableVars
  <2>2. q.todo = Unblocks(p.primary)
    BY <1>3 DEF Poller
  <2>. HIDE DEF q
  <2>3. Leaves(q.todo, k)
    BY <1>1, <2>2, BlockedLeaves
  <2>4. \A r \in pollers' : Leaves(r.todo, k)
    BY <1>4, <2>1, <2>3
  <2>. QED
    BY <1>1, <2>1, <2>4, StoredStays
<1>9. CASE PollerEnds(p)
  <2>1. pollers' = Deregistered(p) /\ UNCHANGED <<rows, main>>
    BY <1>9 DEF PollerEnds, tableVars
  <2>2. \A q \in pollers : [q EXCEPT !.registered = FALSE].todo = q.todo
    BY DEF CoordinatorOK, CoordinatorTypeOK, Poller
  <2>3. \A r \in pollers' : \E q \in pollers : r.todo = q.todo
    BY <2>1, <2>2 DEF Deregistered
  <2>4. \A r \in pollers' : Leaves(r.todo, k)
    BY <1>1, <2>3
  <2>. QED
    BY <1>1, <2>1, <2>4, StoredStays
<1>. QED
  BY <1>2, <1>5, <1>6, <1>7, <1>8, <1>9

LEMMA OneTurnByMain ==
  ASSUME OneByOne, IInv, OneTurn, MainStep \/ PollerStep \/ FirstTrigger, UNCHANGED worker
  PROVE  OneTurn'
<1>1. /\ TableTypeOK /\ rows \in Table /\ events \in Seq(Event) /\ main \in MainState /\ dedup
      /\ CoordinatorOK
  BY DEF IInv, CoordinatorOK, TableTypeOK, CoordinatorTypeOK, OneTurn
<1>2. dedup' /\ OwnRows'
  <2>1. UNCHANGED dedup
    BY DEF MainStep, PollerStep, FirstTrigger, MainWrite, TakeEvent, HandleSuccess, MainUnblock,
       HandleFailure, RetryScan, WritesDone, PollerWrite, Fire, PollMd5, PollerUnblock,
       PollerEnds, QueueGallery, tableVars
  <2>. QED
    BY <1>1, <2>1 DEF OneTurn, OwnRows
<1>3. CASE NoneStored
  <2>1. ~PollerStep
    BY <1>3 DEF NoneStored, PollerStep
  <2>2. NoneStored'
    BY <1>1, <1>3, <2>1, FirstByWrite, FirstBySignal, FirstByDecision, FirstByTrigger DEF MainStep
  <2>. QED
    BY <1>2, <2>2 DEF OneTurn
<1>4. ASSUME NEW k \in Hosts, StoredBy(k) PROVE OneTurn'
  <2>1. ~FirstTrigger
    BY <1>4 DEF StoredBy, FirstTrigger
  <2>2. StoredBy(k)'
    BY <1>1, <1>4, <2>1, StoredByMain, StoredByPollers
  <2>. QED
    BY <1>2, <2>2 DEF OneTurn
<1>. QED
  BY <1>3, <1>4 DEF OneTurn

\* Nothing is given a turn by starting and stopping threads.
Paused(w, v) ==
    \/ /\ v.pc = w.pc /\ v.row = w.row /\ v.current = w.current /\ v.part = w.part
       /\ v.ok = w.ok /\ v.dedupOnly = w.dedupOnly /\ v.plan = w.plan
    \/ v.pc \in {"spinup", "stopped"} /\ v.row = NoId /\ v.current = NoId

LEMMA OneTurnByThreads ==
  ASSUME IInv, OneTurn, UNCHANGED <<rows, dedup>>,
         \A h \in Hosts : Paused(worker[h], worker'[h]),
         \/ UNCHANGED <<main, events>> /\ pollers' \subseteq pollers
         \/ UNCHANGED <<main, pollers>> /\ events # <<>> /\ events' = Tail(events)
         \/ main' = MainIdle /\ events' = <<>> /\ pollers' = {}
  PROVE  OneTurn'
<1>1. rows \in Table /\ events \in Seq(Event) /\ dedup
  BY DEF IInv, CoordinatorOK, TableTypeOK, OneTurn
<1>2. dedup' /\ OwnRows'
  BY <1>1 DEF OneTurn, OwnRows, Paused
<1>3. main'.todo \in {main.todo, {}} /\ pollers' \subseteq pollers
  BY DEF MainIdle
<1>4. CASE NoneStored
  <2>1. SignalsFirst(events)'
    <3>1. SignalsFirst(events)
      BY <1>4 DEF NoneStored
    <3>2. CASE UNCHANGED events
      BY <3>1, <3>2 DEF SignalsFirst, SignalTurns
    <3>3. CASE events # <<>> /\ events' = Tail(events)
      <4>1. SignalsFirst(Tail(events))
        BY <1>1, <3>1, <3>3, TakenSignal
      <4>. QED
        BY <3>3, <4>1 DEF SignalsFirst, SignalTurns
    <3>4. CASE events' = <<>>
      BY <3>4 DEF SignalsFirst, SignalTurns
    <3>. QED
      BY <3>2, <3>3, <3>4
  <2>2. \A h \in Hosts : /\ RowFirst(h)' /\ WorkerFirst(h)' /\ Tries(h)
                         /\ RowTurn(h)' <=> RowTurn(h)
                         /\ EndTurn(h)' => EndTurn(h)
    <3>1. ASSUME NEW h \in Hosts
          PROVE  /\ RowFirst(h)' /\ WorkerFirst(h)' /\ Tries(h)
                 /\ RowTurn(h)' <=> RowTurn(h)
                 /\ EndTurn(h)' => EndTurn(h)
      <4>1. /\ RowFirst(h) /\ WorkerFirst(h) /\ Paused(worker[h], worker'[h])
            /\ rows[<<h, 0>>].retries \in Nat
        BY <1>1, <1>4, PartZero DEF NoneStored, Table, Row
      <4>. QED
        BY <4>1 DEF Paused, RowFirst, WorkerFirst, HeadIs, RowTurn, EndTurn, HeadId, AtWork, Tries
    <3>. QED
      BY <3>1
  <2>3. TodoFirst(main.todo)' /\ (First(main.todo)' # {} => First(main.todo) # {})
    BY <1>3, <1>4 DEF NoneStored, TodoFirst, First, HeadIs
  <2>4. /\ main'.pc # "unblock" /\ (main'.pc = "react" => main.pc = "react" /\ ~main'.ev.ok)
        /\ pollers' = {}
    BY <1>3, <1>4 DEF NoneStored, MainIdle
  <2>5. NotBegun' => NotBegun
    BY DEF NotBegun
  <2>6. CASE events # <<>> /\ events' = Tail(events)
    <3>1. /\ \E f : Turns' \subseteq {f[t] : t \in Turns}
          /\ NotBegun => Turns' \subseteq {<<"write", 0>>}
      BY <1>1, <1>4, <2>2, <2>3, <2>4, <2>6, SignalsMoveUp
    <3>2. NoneStored'
      BY <1>4, <2>1, <2>2, <2>3, <2>4, <2>5, <3>1, NoneStoredStays
    <3>. QED
      BY <1>2, <3>2 DEF OneTurn
  <2>7. CASE UNCHANGED events \/ events' = <<>>
    <3>1. SignalTurns(events') \subseteq SignalTurns(events)
      BY <2>7 DEF SignalTurns
    <3>2. Turns' \subseteq Turns
      BY <2>2, <2>3, <2>4, <3>1, TurnsAre, TurnsWithin
    <3>3. NotBegun' => Turns' \subseteq {<<"write", 0>>}
      BY <1>4, <2>5, <3>2 DEF NoneStored
    <3>4. NoneStored'
      BY <1>4, <2>1, <2>2, <2>3, <2>4, <3>2, <3>3, NoneStoredStays
    <3>. QED
      BY <1>2, <3>4 DEF OneTurn
  <2>. QED
    BY <2>6, <2>7
<1>5. ASSUME NEW k \in Hosts, StoredBy(k) PROVE OneTurn'
  <2>1. Leaves(main'.todo, k) /\ \A p \in pollers' : Leaves(p.todo, k)
    BY <1>3, <1>5 DEF StoredBy, Leaves
  <2>2. \/ worker'[k].pc = worker[k].pc /\ worker'[k].part = worker[k].part
        \/ worker'[k].pc \in {"spinup", "stopped"}
    BY DEF Paused
  <2>3. StoredBy(k)'
    BY <1>5, <2>1, <2>2, StoredStays
  <2>. QED
    BY <1>2, <2>3 DEF OneTurn
<1>. QED
  BY <1>4, <1>5 DEF OneTurn

LEMMA ThreadsPause ==
  ASSUME WorkerTypeOK, events \in Seq(Event),
         \/ \E h \in Hosts : Disable(h) \/ Enable(h)
         \/ Disabled \/ CloseNext \/ TakeSpinup \/ Launch
  PROVE  \A h \in Hosts : Paused(worker[h], worker'[h])
<1>1. worker \in [Hosts -> WorkerState]
  BY DEF WorkerTypeOK
<1>2. ASSUME NEW h \in Hosts, NEW stop, NEW enabled,
             worker' = [worker EXCEPT ![h].stop = stop, ![h].enabled = enabled]
      PROVE  \A g \in Hosts : Paused(worker[g], worker'[g])
  <2>1. \A g \in Hosts : /\ worker'[g].pc = worker[g].pc /\ worker'[g].row = worker[g].row
                         /\ worker'[g].current = worker[g].current
                         /\ worker'[g].part = worker[g].part /\ worker'[g].ok = worker[g].ok
                         /\ worker'[g].dedupOnly = worker[g].dedupOnly
                         /\ worker'[g].plan = worker[g].plan
    BY <1>1, <1>2 DEF WorkerState
  <2>. QED
    BY <2>1 DEF Paused
<1>3. ASSUME NEW h \in Hosts, NEW enabled, worker' = [worker EXCEPT ![h].enabled = enabled]
      PROVE  \A g \in Hosts : Paused(worker[g], worker'[g])
  <2>1. \A g \in Hosts : /\ worker'[g].pc = worker[g].pc /\ worker'[g].row = worker[g].row
                         /\ worker'[g].current = worker[g].current
                         /\ worker'[g].part = worker[g].part /\ worker'[g].ok = worker[g].ok
                         /\ worker'[g].dedupOnly = worker[g].dedupOnly
                         /\ worker'[g].plan = worker[g].plan
    BY <1>1, <1>3 DEF WorkerState
  <2>. QED
    BY <2>1 DEF Paused
<1>4. ASSUME NEW h \in Hosts, NEW stop, worker' = [worker EXCEPT ![h].stop = stop]
      PROVE  \A g \in Hosts : Paused(worker[g], worker'[g])
  <2>1. \A g \in Hosts : /\ worker'[g].pc = worker[g].pc /\ worker'[g].row = worker[g].row
                         /\ worker'[g].current = worker[g].current
                         /\ worker'[g].part = worker[g].part /\ worker'[g].ok = worker[g].ok
                         /\ worker'[g].dedupOnly = worker[g].dedupOnly
                         /\ worker'[g].plan = worker[g].plan
    BY <1>1, <1>4 DEF WorkerState
  <2>. QED
    BY <2>1 DEF Paused
<1>5. ASSUME NEW h \in Hosts, Disable(h) PROVE \A g \in Hosts : Paused(worker[g], worker'[g])
  <2>1. PICK saved \in BOOLEAN :
          worker' = [worker EXCEPT ![h].enabled = @ /\ ~saved, ![h].stop = @ \/ h \in Registered]
    BY <1>5 DEF Disable
  <2>. DEFINE e == worker[h].enabled /\ ~saved
              s == worker[h].stop \/ h \in Registered
  <2>2. worker' = [worker EXCEPT ![h].stop = s, ![h].enabled = e]
    BY <1>1, <2>1
  <2>. HIDE DEF e, s
  <2>. QED
    BY <1>2, <2>2
<1>6. ASSUME NEW h \in Hosts, Enable(h) PROVE \A g \in Hosts : Paused(worker[g], worker'[g])
  <2>1. PICK saved \in BOOLEAN : Spinning(h, worker[h].enabled \/ saved)
    BY <1>6 DEF Enable
  <2>. DEFINE on == worker[h].enabled \/ saved
              v == [Fresh EXCEPT !.pc = "spinup", !.enabled = on]
  <2>2. v.pc = "spinup" /\ v.row = NoId /\ v.current = NoId
    BY DEF Fresh
  <2>3. worker' = [worker EXCEPT ![h] = v]
    BY <2>1 DEF Spinning
  <2>. HIDE DEF v
  <2>4. worker'[h] = v /\ \A g \in Hosts \ {h} : worker'[g] = worker[g]
    BY <1>1, <2>3
  <2>. QED
    BY <2>2, <2>4 DEF Paused
<1>7. CASE Disabled
  <2>1. worker' = [worker EXCEPT ![manager.host].enabled = FALSE]
    BY <1>7 DEF Disabled
  <2>2. CASE manager.host \in Hosts
    BY <1>3, <2>1, <2>2
  <2>3. CASE manager.host \notin Hosts
    <3>1. worker' = worker
      BY <1>1, <2>1, <2>3
    <3>. QED
      BY <3>1 DEF Paused
  <2>. QED
    BY <2>2, <2>3
<1>8. CASE CloseNext
  <2>1. PICK h \in Registered : worker' = [worker EXCEPT ![h].stop = TRUE]
    BY <1>8 DEF CloseNext
  <2>. QED
    BY <1>4, <2>1 DEF Registered
<1>9. CASE TakeSpinup
  <2>. DEFINE h == events[1].host
              e == worker[h].enabled \/ (events[1].ok /\ registry[h] = "pending")
  <2>1. h \in Hosts
    <3>1. events[1] \in Event
      BY <1>9 DEF TakeSpinup
    <3>. QED
      BY <3>1 DEF Event
  <2>2. worker' = [worker EXCEPT ![h].enabled = e]
    BY <1>1, <1>9, <2>1 DEF TakeSpinup
  <2>. HIDE DEF h, e
  <2>. QED
    BY <1>3, <2>1, <2>2
<1>10. CASE Launch
  <2>1. ASSUME NEW h \in Hosts PROVE Paused(worker[h], worker'[h])
    <3>. DEFINE pc == IF worker[h].enabled THEN "spinup" ELSE "stopped"
                on == worker[h].enabled
                v == [Fresh EXCEPT !.pc = pc, !.enabled = on]
    <3>1. pc \in {"spinup", "stopped"}
      OBVIOUS
    <3>2. worker'[h] = v
      BY <1>10 DEF Launch
    <3>. HIDE DEF pc, on
    <3>3. v.pc = pc /\ v.row = NoId /\ v.current = NoId
      BY DEF Fresh
    <3>. QED
      BY <3>1, <3>2, <3>3 DEF Paused
  <2>. QED
    BY <2>1
<1>. QED
  BY <1>5, <1>6, <1>7, <1>8, <1>9, <1>10

LEMMA InitOneTurn == Init => OneTurn
<1>1. SUFFICES ASSUME Init PROVE OneTurn
  OBVIOUS
<1>2. \A h \in Hosts :
        /\ rows[<<h, 0>>].gen = 0 /\ rows[<<h, 0>>].status = "absent"
        /\ ~rows[<<h, 0>>].dedupOnly /\ rows[<<h, 0>>].retries = 0
        /\ worker[h].pc = "idle" /\ worker[h].row = NoId /\ worker[h].current = NoId
  <2>1. \A h \in Hosts : /\ rows[<<h, 0>>] = NewRow(0, "absent", NoId, FALSE)
                         /\ worker[h] = Fresh
    BY <1>1, PartZero DEF Init, TableInit, WorkerInit
  <2>. DEFINE new == NewRow(0, "absent", NoId, FALSE)
  <2>2. new.gen = 0 /\ new.status = "absent" /\ new.dedupOnly = FALSE /\ new.retries = 0
    BY DEF NewRow
  <2>3. Fresh.pc = "idle" /\ Fresh.row = NoId /\ Fresh.current = NoId
    BY DEF Fresh
  <2>. HIDE DEF new
  <2>4. \A h \in Hosts : /\ worker[h].pc = "idle" /\ worker[h].row = NoId
                         /\ worker[h].current = NoId
    BY <2>1, <2>3
  <2>5. \A h \in Hosts : rows[<<h, 0>>] = new
    BY <2>1 DEF new
  <2>6. \A h \in Hosts : /\ rows[<<h, 0>>].gen = 0 /\ rows[<<h, 0>>].status = "absent"
                         /\ rows[<<h, 0>>].dedupOnly = FALSE /\ rows[<<h, 0>>].retries = 0
    BY <2>2, <2>5
  <2>. QED
    BY <2>4, <2>6
<1>3. /\ events = <<>> /\ dedup /\ main = MainIdle /\ pollers = {}
  BY <1>1 DEF Init, TableInit, CoordinatorInit
<1>4. \A h \in Hosts : RowFirst(h) /\ WorkerFirst(h) /\ ~RowTurn(h) /\ ~EndTurn(h)
  BY <1>2 DEF RowFirst, WorkerFirst, RowTurn, EndTurn, HeadIs, AtWork
<1>5. main.pc = "idle" /\ main.todo = {}
  BY <1>3 DEF MainIdle
<1>6. TodoFirst(main.todo) /\ First(main.todo) = {}
  BY <1>5 DEF TodoFirst, First
<1>7. SignalsFirst(events) /\ SignalTurns(events) = {}
  BY <1>3 DEF SignalsFirst, SignalTurns
<1>8. Turns = {}
  BY <1>4, <1>5, <1>6, <1>7 DEF Turns
<1>10. TurnsCounted
  <2>1. IsFiniteSet(AutoRetries)
    BY FiniteRetries DEF AutoRetries
  <2>2. Cardinality(AutoRetries) \in Nat
    BY <2>1, FS_CardinalityType
  <2>. QED
    BY <1>8, <2>2, FS_EmptySet DEF TurnsCounted
<1>9. OwnRows
  BY <1>2 DEF OwnRows
<1>. QED
  BY <1>3, <1>4, <1>5, <1>6, <1>7, <1>8, <1>9, <1>10 DEF OneTurn, NoneStored

LEMMA NextOneTurn == ASSUME OneByOne, IInv, OneTurn, [Next]_vars PROVE OneTurn'
<1>1. WorkerTypeOK /\ events \in Seq(Event)
  BY DEF IInv, ThreadsOK, CoordinatorOK, TableTypeOK
<1>2. CASE UNCHANGED vars
  <2>1. \A h \in Hosts : Paused(worker[h], worker'[h])
    BY <1>2 DEF vars, Paused
  <2>. QED
    BY <1>2, <2>1, OneTurnByThreads DEF vars
<1>3. CASE \E h \in Hosts : Worker(h)
  BY <1>3, OneTurnByWorker
<1>4. CASE Main
  <2>1. CASE MainStep /\ UNCHANGED <<worker, managerVars>>
    BY <2>1, OneTurnByMain
  <2>2. CASE TakeSpinup /\ UNCHANGED <<main, pollers, faults>>
    <3>1. events # <<>> /\ events' = Tail(events) /\ UNCHANGED <<rows, dedup, main, pollers>>
      BY <2>2 DEF TakeSpinup
    <3>. QED
      BY <1>1, <2>2, <3>1, ThreadsPause, OneTurnByThreads
  <2>. QED
    BY <1>4, <2>1, <2>2 DEF Main
<1>5. CASE Md5Poller
  BY <1>5, OneTurnByMain DEF Md5Poller
<1>6. CASE Manager
  <2>1. UNCHANGED <<rows, dedup, events, main, pollers>>
    BY <1>6 DEF Manager, Disabled, CloseNext, tableVars
  <2>. QED
    BY <1>1, <1>6, <2>1, ThreadsPause, OneTurnByThreads DEF Manager
<1>7. CASE FirstTrigger
  BY <1>7, OneTurnByMain DEF FirstTrigger
<1>8. CASE DisableHost \/ EnableHost
  <2>1. UNCHANGED <<rows, dedup, events, main, pollers>> /\ \E h \in Hosts : Disable(h) \/ Enable(h)
    BY <1>8 DEF DisableHost, EnableHost, Disable, Enable, tableVars
  <2>. QED
    BY <1>1, <2>1, ThreadsPause, OneTurnByThreads
<1>9. CASE Crash \/ Exit
  BY <1>1, <1>9, ThreadsPause, OneTurnByThreads DEF Crash, Exit, Relaunch
<1>10. CASE Shutdown
  <2>1. UNCHANGED <<rows, dedup, events, main, worker>> /\ pollers' \subseteq pollers
    BY <1>10 DEF Shutdown, CloseAll, tableVars
  <2>2. \A h \in Hosts : Paused(worker[h], worker'[h])
    BY <2>1 DEF Paused
  <2>. QED
    BY <2>1, <2>2, OneTurnByThreads
<1>11. ~(Retrigger \/ UserReupload \/ InsertFails \/ WorkerFails \/ BookkeepingFails
         \/ SettledHandlerFails \/ Md5PollerFails \/ ToggleDedup)
  BY DEF OneByOne, Charge, Retrigger, UserReupload, InsertFails, WorkerFails, BookkeepingFails,
     SettledHandlerFails, Md5PollerFails, ToggleDedup
<1>. QED
  BY <1>2, <1>3, <1>4, <1>5, <1>6, <1>7, <1>8, <1>9, <1>10, <1>11 DEF Next, Environment

LEMMA OneTurnUploads == OneTurn => OneUploadAndRetries
<1>1. SUFFICES ASSUME OneTurn, NoneHasIt
               PROVE  Cardinality(Uploaders) <= 1 + Cardinality(AutoRetries)
  BY DEF OneUploadAndRetries
<1>2. NoneStored
  BY <1>1 DEF OneTurn, StoredBy, NoneHasIt
<1>3. \A h \in Uploaders : <<"row", h>> \in Turns
  BY TurnsAre DEF Uploaders, RowTurn, HeadIs
<1>. DEFINE place == [h \in Uploaders |-> <<"row", h>>]
<1>4. place \in Injection(Uploaders, Turns)
  BY <1>3 DEF Injection, IsInjective
<1>. HIDE DEF place
<1>5. IsFiniteSet(Uploaders) /\ Cardinality(Uploaders) <= Cardinality(Turns)
  BY <1>2, <1>4, FS_Injection DEF NoneStored, TurnsCounted
<1>6. IsFiniteSet(AutoRetries)
  BY FiniteRetries DEF AutoRetries
<1>7. /\ Cardinality(Uploaders) \in Nat /\ Cardinality(Turns) \in Nat
      /\ Cardinality(AutoRetries) \in Nat
  BY <1>2, <1>5, <1>6, FS_CardinalityType DEF NoneStored, TurnsCounted
<1>. QED
  BY <1>2, <1>5, <1>7 DEF NoneStored, TurnsCounted

\* Until a member has stored the gallery, one member uploads the archive, and
\* at most one more for each retry that a worker made by itself.  constants.py
\* promises that only the highest-priority member performs a full upload:
\* without auto-retry so it is, and with it this is how far the code can stray
\* (it does, see ClaimOneUploads).  With archives of one part it holds whatever
\* fails at a host, whoever is stopped, and however often the program dies.
THEOREM OneMemberUploads == ASSUME OneByOne PROVE Spec => []OneUploadAndRetries
<1>1. Init => OneTurn
  BY InitOneTurn
<1>2. IInv /\ OneTurn /\ [Next]_vars => OneTurn'
  BY NextOneTurn
<1>3. OneTurn => OneUploadAndRetries
  BY OneTurnUploads
<1>. QED
  BY <1>1, <1>2, <1>3, SpecIInv, PTL DEF Spec

-----------------------------------------------------------------------------
\* Archives of one part, and two members, or more of them when every one hashes
\* before it uploads.  Of the faults four are left out, for each takes a row
\* back: a lost write, a row queued again or reuploaded, and bookkeeping that
\* raises once the row is completed, after which the worker fails or requeues it.
Orderly ==
    /\ NumParts = 1
    /\ NumHosts <= 2 \/ HashFirst = Hosts
    /\ Faults \cap {"lostwrite", "requeue", "reupload", "bookkeeping"} = {}

Free(h) == ~HeadIs(h, {"absent", "blocked"})
Known(h) == HeadIs(h, {"completed"}) /\ rows[<<h, 0>>].md5
Resting(h) == worker[h].pc \in {"idle", "stopped", "spinup"}

HeadFits(h) ==
    /\ HeadIs(h, {"absent"}) <=> rows[<<h, 0>>].gen = 0
    /\ HeadIs(h, {"absent", "uploading"}) => ~rows[<<h, 0>>].dedupOnly
    /\ h \in HashFirst /\ HeadIs(h, {"completed"}) => Known(h)

Chainless(h) == HeadIs(h, {"blocked"}) => Free(rows[<<h, 0>>].blockedBy.host)

WorkerFits(h) ==
    LET w == worker[h] IN
    /\ ~Resting(h) => ~HeadIs(h, {"absent"})
    /\ w.pc \in {"picked", "probe", "commit", "missed"} =>
          /\ HeadIs(h, {"pending"}) /\ w.row = HeadId(h)
          /\ w.dedupOnly = rows[<<h, 0>>].dedupOnly
    /\ w.pc \in {"archive", "send", "except"} =>
          HeadIs(h, {"uploading"}) /\ w.row = HeadId(h)
    /\ w.pc = "part" =>
          /\ w.row = HeadId(h)
          /\ HeadIs(h, IF w.part = 0 THEN {"uploading"} ELSE {"completed"})
    /\ w.pc = "send" =>
          /\ w.part = 0 /\ w.current = HeadId(h)
          /\ h \in HashFirst => rows[<<h, 0>>].md5
    /\ w.pc \in {"probe", "commit"} =>
          w.plan = {0} /\ \E g \in Hosts \ {h} : Known(g)
    /\ w.pc # "commitPart"
    /\ w.pc = "announce" /\ w.ok => HeadIs(h, {"completed"})

\* What a write that is still to be made finds at its target.
WriteFits(todo, w) ==
    LET h == w.id.host IN
    /\ w.op \in Queues => HeadIs(h, {"absent"})
    /\ w.op \in {"unblock", "promote"} => HeadIs(h, {"blocked"}) /\ w.id = HeadId(h)
    /\ w.op \in RetryOps =>
          /\ HeadIs(h, {"failed"}) /\ ~rows[<<h, 0>>].dedupOnly
          /\ \E g \in Hosts \ {h} : HeadIs(g, {"completed"})
    /\ w.op = "retryWait" =>
          /\ NumHosts <= 2
          /\ w.on.host \in Hosts \ {h} /\ HeadIs(w.on.host, {"completed"})
    /\ w.op \in {"queueBlocked", "reassign"} =>
          /\ w.on.host \in Hosts
          /\ Free(w.on.host) \/ \E v \in First(todo) : v.id.host = w.on.host

TodoFits(todo) ==
    /\ \A w \in todo : WriteFits(todo, w)
    /\ \A v, w \in todo :
          v.op # "reassign" /\ w.op # "reassign" /\ v.id.host = w.id.host => v = w
    /\ \E ops \in {Queues, RetryOps, {"unblock", "promote", "reassign"}} :
          \A w \in todo : w.op \in ops

\* A settled signal of h is in q from the i-th on.
Speaks(q, h, i) ==
    \E j \in DOMAIN q : j >= i /\ q[j].kind = "settled" /\ q[j].host = h

\* h has the gallery, its worker is through with it and q brings no signal.
Silent(q, h, i) == HeadIs(h, {"completed"}) /\ Resting(h) /\ ~Speaks(q, h, i)

SignalsFit(q) ==
    \A i \in DOMAIN q :
        q[i].kind = "settled" /\ q[i].ok => Silent(q, q[i].host, i + 1)

MainFits ==
    /\ main.pc \notin {"write", "finish"} => main.todo = {}
    /\ TodoFits(main.todo)
    /\ main.pc = "react" =>
          /\ main.ev.host \in Hosts
          /\ main.ev.ok => Silent(events, main.ev.host, 1)

PollersFit ==
    /\ \A p, q \in pollers : p = q
    /\ \A p \in pollers :
          /\ NumHosts <= 2
          /\ main.pc # "unblock"
          /\ \A w \in main.todo : w.op \notin {"unblock", "promote"}
          /\ TodoFits(p.todo)
          /\ Silent(events, p.primary.host, 1)
          /\ main.pc = "react" => main.ev.host # p.primary.host

OrderInv ==
    /\ \A h \in Hosts : HeadFits(h) /\ Chainless(h) /\ WorkerFits(h)
    /\ SignalsFit(events) /\ MainFits /\ PollersFit

-----------------------------------------------------------------------------
(* What any step does to the heads: it moves one of them, in one of the ways
   of UploadLifecycle. *)

Becomes(h, from, to) == HeadIs(h, from) /\ HeadIs(h, to)'

Advances(h) ==
    \/ /\ rows'[<<h, 0>>].status = rows[<<h, 0>>].status
       /\ HeadIs(h, {"completed"}) => rows'[<<h, 0>>].md5 \in {rows[<<h, 0>>].md5, TRUE}
    \/ Becomes(h, {"blocked"}, {"pending"})
    \/ Becomes(h, {"pending"}, {"uploading"}) /\ ~rows[<<h, 0>>].dedupOnly
    \/ Becomes(h, {"uploading"}, {"pending"})
    \/ Becomes(h, {"pending", "uploading"}, {"failed"})
    \/ /\ Becomes(h, {"uploading"}, {"completed"})
       /\ h \in HashFirst => Known(h)'
    \/ /\ Becomes(h, {"pending"}, {"completed"})
       /\ Known(h)' /\ \E g \in Hosts \ {h} : Known(g)

Legal(h) ==
    \/ /\ Becomes(h, {"absent"}, {"pending", "blocked"})
       /\ rows'[<<h, 0>>].gen = rows[<<h, 0>>].gen + 1
       /\ ~rows'[<<h, 0>>].dedupOnly
    \/ /\ rows'[<<h, 0>>].gen = rows[<<h, 0>>].gen
       /\ rows'[<<h, 0>>].dedupOnly = rows[<<h, 0>>].dedupOnly
       /\ Advances(h)
    \/ /\ rows'[<<h, 0>>].gen = rows[<<h, 0>>].gen
       /\ Becomes(h, {"failed"}, {"pending", "blocked"})
       /\ ~rows[<<h, 0>>].dedupOnly /\ rows'[<<h, 0>>].dedupOnly
       /\ \E g \in Hosts \ {h} : HeadIs(g, {"completed"})

MoveOf(h) ==
    /\ rows' \in Table
    /\ Legal(h)
    /\ \A g \in Hosts \ {h} : rows'[<<g, 0>>] = rows[<<g, 0>>]

\* What is stored stays stored, and no row goes away.
Lasting ==
    \A g \in Hosts :
        /\ HeadIs(g, {"completed"}) => HeadIs(g, {"completed"})'
        /\ Known(g) => Known(g)'
        /\ ~HeadIs(g, {"absent"}) =>
              ~HeadIs(g, {"absent"})' /\ rows'[<<g, 0>>].gen = rows[<<g, 0>>].gen

LEMMA StandStill == ASSUME rows \in Table, UNCHANGED rows, NEW h \in Hosts PROVE MoveOf(h)
  BY DEF MoveOf, Legal, Advances

LEMMA MoveLasts == ASSUME rows \in Table, NEW h \in Hosts, MoveOf(h) PROVE Lasting
<1>1. ASSUME NEW g \in Hosts
      PROVE  /\ HeadIs(g, {"completed"}) => HeadIs(g, {"completed"})'
             /\ Known(g) => Known(g)'
             /\ ~HeadIs(g, {"absent"}) =>
                   ~HeadIs(g, {"absent"})' /\ rows'[<<g, 0>>].gen = rows[<<g, 0>>].gen
  <2>1. CASE g # h
    BY <1>1, <2>1 DEF MoveOf, HeadIs, Known
  <2>2. CASE g = h
    BY <2>2 DEF MoveOf, Legal, Advances, Becomes, HeadIs, Known
  <2>. QED
    BY <2>1, <2>2
<1>. QED
  BY <1>1 DEF Lasting

LEMMA MoveFits ==
  ASSUME rows \in Table, NEW h \in Hosts, MoveOf(h), NEW g \in Hosts, HeadFits(g)
  PROVE  HeadFits(g)'
<1>1. CASE g # h
  BY <1>1 DEF MoveOf, HeadIs, Known, HeadFits
<1>2. CASE g = h
  <2>1. rows[<<h, 0>>].gen \in Nat /\ HeadFits(h)
    BY <1>2, GenType, PartZero
  <2>2. HeadIs(h, {"absent"})' <=> rows'[<<h, 0>>].gen = 0
    <3>1. \/ HeadIs(h, {"absent"}) /\ ~HeadIs(h, {"absent"})'
             /\ rows'[<<h, 0>>].gen = rows[<<h, 0>>].gen + 1
          \/ rows'[<<h, 0>>].gen = rows[<<h, 0>>].gen
             /\ (HeadIs(h, {"absent"})' <=> HeadIs(h, {"absent"}))
      BY DEF MoveOf, Legal, Advances, Becomes, HeadIs
    <3>2. HeadIs(h, {"absent"}) <=> rows[<<h, 0>>].gen = 0
      BY <2>1 DEF HeadFits
    <3>. QED
      BY <2>1, <3>1, <3>2
  <2>3. HeadIs(h, {"absent", "uploading"})' => ~rows'[<<h, 0>>].dedupOnly
    BY <2>1 DEF MoveOf, Legal, Advances, Becomes, HeadIs, HeadFits
  <2>4. h \in HashFirst /\ HeadIs(h, {"completed"})' => Known(h)'
    BY <2>1 DEF MoveOf, Legal, Advances, Becomes, HeadIs, HeadFits, Known
  <2>. QED
    BY <1>2, <2>2, <2>3, <2>4 DEF HeadFits
<1>. QED
  BY <1>1, <1>2

\* Nobody is kept waiting for a row that waits itself, unless a row is made to
\* wait.
LEMMA MoveChainless ==
  ASSUME rows \in Table, NEW h \in Hosts, MoveOf(h),
         ~HeadIs(h, {"blocked"})' \/ rows'[<<h, 0>>] = rows[<<h, 0>>],
         \A g \in Hosts : HeadIs(g, {"blocked"}) => rows[<<g, 0>>].blockedBy.host \in Hosts,
         \A g \in Hosts : Chainless(g)
  PROVE  \A g \in Hosts : Chainless(g)'
<1>1. \A g \in Hosts : Free(g) => Free(g)'
  BY MoveLasts DEF MoveOf, HeadIs, Free, Lasting
<1>2. ASSUME NEW g \in Hosts, HeadIs(g, {"blocked"})' PROVE Free(rows[<<g, 0>>].blockedBy.host)'
  <2>1. rows'[<<g, 0>>] = rows[<<g, 0>>]
    BY <1>2 DEF MoveOf
  <2>2. rows[<<g, 0>>].blockedBy.host \in Hosts /\ Free(rows[<<g, 0>>].blockedBy.host)
    BY <1>2, <2>1 DEF Chainless, HeadIs
  <2>3. PICK b \in Hosts : b = rows[<<g, 0>>].blockedBy.host
    BY <2>2
  <2>4. Free(b)'
    BY <1>1, <2>2, <2>3
  <2>5. rows'[<<g, 0>>].blockedBy.host = b
    BY <2>1, <2>3
  <2>. QED
    BY <2>4, <2>5 DEF Free, HeadIs
<1>. QED
  BY <1>2 DEF Chainless

-----------------------------------------------------------------------------
(* A move keeps the promises of the family. *)

LEMMA MoveTerminal ==
  ASSUME NumParts = 1, rows \in Table, \A g \in Hosts : HeadFits(g),
         NEW h \in Hosts, MoveOf(h)
  PROVE  \A k \in DOMAIN rows : rows[k].dedupOnly /\ SameRow(k) =>
            /\ rows'[k].status # "uploading"
            /\ rows[k].status = "failed" => rows'[k].status = "failed"
<1>1. ASSUME NEW k \in DOMAIN rows, rows[k].dedupOnly, SameRow(k)
      PROVE  /\ rows'[k].status # "uploading"
             /\ rows[k].status = "failed" => rows'[k].status = "failed"
  <2>1. PICK g \in Hosts : k = <<g, 0>>
    BY <1>1 DEF Table, Parts
  <2>2. HeadFits(g) /\ rows[<<g, 0>>].gen \in Nat
    BY GenType, PartZero
  <2>3. CASE g # h
    BY <1>1, <2>1, <2>2, <2>3 DEF MoveOf, HeadFits, HeadIs
  <2>4. CASE g = h
    <3>1. rows'[<<h, 0>>].gen # rows[<<h, 0>>].gen + 1
      BY <1>1, <2>1, <2>2, <2>4 DEF SameRow
    <3>. QED
      BY <1>1, <2>1, <2>2, <2>4, <3>1 DEF MoveOf, Legal, Advances, Becomes, HeadFits, HeadIs
  <2>. QED
    BY <2>3, <2>4
<1>. QED
  BY <1>1

Phases == [h \in Hosts |-> PhaseOf(rows[<<h, 0>>].status)]
Onlys == [h \in Hosts |-> rows[<<h, 0>>].dedupOnly]
Knowns == [h \in Hosts |-> HeadIs(h, {"completed"}) /\ rows[<<h, 0>>].md5]

\* What a move makes of the variables of UploadLifecycle.
LEMMA MovePhases ==
  ASSUME rows \in Table, NEW h \in Hosts, MoveOf(h)
  PROVE  /\ Phases' = [Phases EXCEPT ![h] = PhaseOf(rows'[<<h, 0>>].status)]
         /\ Onlys' = [Onlys EXCEPT ![h] = rows'[<<h, 0>>].dedupOnly]
         /\ Knowns' = [Knowns EXCEPT ![h] = Known(h)']
<1>1. \A g \in Hosts \ {h} : rows'[<<g, 0>>] = rows[<<g, 0>>]
  BY DEF MoveOf
<1>2. Phases' = [Phases EXCEPT ![h] = PhaseOf(rows'[<<h, 0>>].status)]
  BY <1>1 DEF Phases
<1>3. Onlys' = [Onlys EXCEPT ![h] = rows'[<<h, 0>>].dedupOnly]
  BY <1>1 DEF Onlys
<1>4. Knowns' = [Knowns EXCEPT ![h] = Known(h)']
  <2>1. \A g \in Hosts \ {h} : (HeadIs(g, {"completed"}) /\ rows[<<g, 0>>].md5)'
                                = (HeadIs(g, {"completed"}) /\ rows[<<g, 0>>].md5)
    BY <1>1 DEF HeadIs
  <2>2. Known(h)' = (HeadIs(h, {"completed"}) /\ rows[<<h, 0>>].md5)'
    BY DEF Known
  <2>. QED
    BY <2>1, <2>2 DEF Knowns
<1>. QED
  BY <1>2, <1>3, <1>4

LEMMA MoveKeepsPromise ==
  ASSUME rows \in Table, NEW h \in Hosts, MoveOf(h), HeadFits(h)
  PROVE  [Lifecycle!Next]_(Lifecycle!vars)
<1>. DEFINE r == rows[<<h, 0>>]
            s == rows'[<<h, 0>>]
<1>1. /\ Phases' = [Phases EXCEPT ![h] = PhaseOf(s.status)]
      /\ Onlys' = [Onlys EXCEPT ![h] = s.dedupOnly]
      /\ Knowns' = [Knowns EXCEPT ![h] = Known(h)']
  BY MovePhases
<1>2. /\ \A g \in Hosts : /\ Phases[g] = PhaseOf(rows[<<g, 0>>].status)
                          /\ Knowns[g] = Known(g)
      /\ Onlys[h] = r.dedupOnly
  BY DEF Phases, Onlys, Knowns, Known
<1>3. s.dedupOnly = r.dedupOnly => Onlys' = Onlys
  BY <1>1, <1>2 DEF Onlys
<1>4. Known(h)' = Known(h) => Knowns' = Knowns
  BY <1>1, <1>2 DEF Knowns
<1>5. s.status = r.status => Phases' = Phases
  BY <1>1, <1>2 DEF Phases
<1>6. ASSUME NEW from, NEW to, Phases[h] \in from, PhaseOf(s.status) \in to
      PROVE  Lifecycle!Move(h, from, to)
  BY <1>1, <1>6 DEF Lifecycle!Move, Phases
<1>7. /\ r.dedupOnly \in BOOLEAN /\ s.dedupOnly \in BOOLEAN
      /\ Known(h) \in BOOLEAN /\ Known(h)' \in BOOLEAN
      /\ r.md5 \in BOOLEAN /\ s.md5 \in BOOLEAN
  <2>1. r \in Row /\ s \in Row
    BY PartZero DEF MoveOf, Table
  <2>2. r.dedupOnly \in BOOLEAN /\ s.dedupOnly \in BOOLEAN /\ r.md5 \in BOOLEAN /\ s.md5 \in BOOLEAN
    BY <2>1 DEF Row
  <2>. QED
    BY <2>2 DEF Known, HeadIs
<1>8. ASSUME Lifecycle!Queue(h) \/ Lifecycle!Release(h) \/ Lifecycle!Start(h)
             \/ Lifecycle!Retry(h) \/ Lifecycle!Fail(h) \/ Lifecycle!Store(h)
             \/ Lifecycle!Mirror(h) \/ Lifecycle!Learn(h) \/ Lifecycle!SecondChance(h)
      PROVE  [Lifecycle!Next]_(Lifecycle!vars)
  BY <1>8 DEF Lifecycle!Next
<1>9. CASE UNCHANGED <<Phases, Onlys, Knowns>>
  BY <1>9 DEF Lifecycle!vars, Phases, Onlys, Knowns
<1>10. CASE Becomes(h, {"absent"}, {"pending", "blocked"}) /\ ~s.dedupOnly
  <2>1. Phases[h] \in {"absent"} /\ PhaseOf(s.status) \in {"ready", "waiting"}
    BY <1>2, <1>10 DEF Becomes, HeadIs, PhaseOf
  <2>2. Lifecycle!Move(h, {"absent"}, {"ready", "waiting"})
    BY <1>6, <2>1
  <2>3. s.dedupOnly = r.dedupOnly /\ Known(h)' = Known(h)
    BY <1>7, <1>10 DEF Becomes, HeadIs, Known, HeadFits
  <2>4. Onlys' = Onlys /\ Knowns' = Knowns
    BY <1>3, <1>4, <2>3
  <2>5. Lifecycle!Queue(h)
    BY <2>2, <2>4 DEF Lifecycle!Queue, Onlys, Knowns
  <2>. QED
    BY <1>8, <2>5
<1>11. CASE s.dedupOnly = r.dedupOnly /\ Advances(h)
  <2>1. Onlys' = Onlys
    BY <1>3, <1>11
  <2>2. CASE s.status = r.status /\ (HeadIs(h, {"completed"}) => s.md5 \in {r.md5, TRUE})
    <3>1. Phases' = Phases
      BY <1>5, <2>2
    <3>2. CASE Known(h)' = Known(h)
      BY <1>4, <1>9, <2>1, <3>1, <3>2
    <3>3. CASE Known(h)' # Known(h)
      <4>1. HeadIs(h, {"completed"}) /\ ~Known(h) /\ Known(h)'
        BY <1>7, <2>2, <3>3 DEF Known, HeadIs
      <4>2. Knowns' = [Knowns EXCEPT ![h] = TRUE] /\ Phases[h] = "done" /\ ~Knowns[h]
        BY <1>1, <1>2, <1>7, <4>1 DEF PhaseOf, HeadIs
      <4>3. Lifecycle!Learn(h)
        BY <2>1, <3>1, <4>2 DEF Lifecycle!Learn, Lifecycle!Done, Phases, Onlys, Knowns
      <4>. QED
        BY <1>8, <4>3
    <3>. QED
      BY <3>2, <3>3
  <2>3. ASSUME ~HeadIs(h, {"completed"}), ~HeadIs(h, {"completed"})' PROVE Knowns' = Knowns
    BY <1>4, <2>3 DEF Known
  <2>4. CASE Becomes(h, {"blocked"}, {"pending"})
    <3>1. Phases[h] \in {"waiting"} /\ PhaseOf(s.status) \in {"ready"} /\ Knowns' = Knowns
      BY <1>2, <2>3, <2>4 DEF Becomes, HeadIs, PhaseOf
    <3>2. Lifecycle!Move(h, {"waiting"}, {"ready"})
      BY <1>6, <3>1
    <3>3. Lifecycle!Release(h)
      BY <2>1, <3>1, <3>2 DEF Lifecycle!Release, Onlys, Knowns
    <3>. QED
      BY <1>8, <3>3
  <2>5. CASE Becomes(h, {"pending"}, {"uploading"}) /\ ~r.dedupOnly
    <3>1. Phases[h] \in {"ready"} /\ PhaseOf(s.status) \in {"busy"} /\ Knowns' = Knowns
      BY <1>2, <2>3, <2>5 DEF Becomes, HeadIs, PhaseOf
    <3>2. Lifecycle!Move(h, {"ready"}, {"busy"}) /\ ~Onlys[h]
      BY <1>2, <1>6, <2>5, <3>1
    <3>3. Lifecycle!Start(h)
      BY <2>1, <3>1, <3>2 DEF Lifecycle!Start, Onlys, Knowns
    <3>. QED
      BY <1>8, <3>3
  <2>6. CASE Becomes(h, {"uploading"}, {"pending"})
    <3>1. Phases[h] \in {"busy"} /\ PhaseOf(s.status) \in {"ready"} /\ Knowns' = Knowns
      BY <1>2, <2>3, <2>6 DEF Becomes, HeadIs, PhaseOf
    <3>2. Lifecycle!Move(h, {"busy"}, {"ready"})
      BY <1>6, <3>1
    <3>3. Lifecycle!Retry(h)
      BY <2>1, <3>1, <3>2 DEF Lifecycle!Retry, Onlys, Knowns
    <3>. QED
      BY <1>8, <3>3
  <2>7. CASE Becomes(h, {"pending", "uploading"}, {"failed"})
    <3>1. Phases[h] \in {"ready", "busy"} /\ PhaseOf(s.status) \in {"failed"} /\ Knowns' = Knowns
      BY <1>2, <2>3, <2>7 DEF Becomes, HeadIs, PhaseOf
    <3>2. Lifecycle!Move(h, {"ready", "busy"}, {"failed"})
      BY <1>6, <3>1
    <3>3. Lifecycle!Fail(h)
      BY <2>1, <3>1, <3>2 DEF Lifecycle!Fail, Onlys, Knowns
    <3>. QED
      BY <1>8, <3>3
  <2>8. CASE Becomes(h, {"uploading"}, {"completed"})
    <3>1. Phases[h] \in {"busy"} /\ PhaseOf(s.status) \in {"done"}
      BY <1>2, <2>8 DEF Becomes, HeadIs, PhaseOf
    <3>2. Lifecycle!Move(h, {"busy"}, {"done"})
      BY <1>6, <3>1
    <3>3. \E k \in BOOLEAN : Knowns' = [Knowns EXCEPT ![h] = k]
      BY <1>1, <1>7
    <3>4. Lifecycle!Store(h)
      BY <2>1, <3>2, <3>3 DEF Lifecycle!Store, Onlys, Knowns
    <3>. QED
      BY <1>8, <3>4
  <2>9. CASE /\ Becomes(h, {"pending"}, {"completed"})
             /\ Known(h)' /\ \E g \in Hosts \ {h} : Known(g)
    <3>1. Phases[h] \in {"ready"} /\ PhaseOf(s.status) \in {"done"}
      BY <1>2, <2>9 DEF Becomes, HeadIs, PhaseOf
    <3>2. Lifecycle!Move(h, {"ready"}, {"done"})
      BY <1>6, <3>1
    <3>3. Knowns' = [Knowns EXCEPT ![h] = TRUE]
      BY <1>1, <1>7, <2>9
    <3>4. PICK g \in Hosts \ {h} : Known(g)
      BY <2>9
    <3>5. Phases[g] = "done" /\ Knowns[g]
      BY <1>2, <3>4 DEF Known, HeadIs, PhaseOf
    <3>6. Lifecycle!DoneAndKnown(g)
      BY <3>5 DEF Lifecycle!DoneAndKnown, Phases, Knowns
    <3>7. Lifecycle!Others(h, Lifecycle!DoneAndKnown)
      BY <3>6 DEF Lifecycle!Others
    <3>8. Lifecycle!Mirror(h)
      BY <2>1, <3>2, <3>3, <3>7 DEF Lifecycle!Mirror, Onlys, Knowns
    <3>. QED
      BY <1>8, <3>8
  <2>. QED
    BY <1>11, <2>2, <2>4, <2>5, <2>6, <2>7, <2>8, <2>9 DEF Advances
<1>12. CASE /\ Becomes(h, {"failed"}, {"pending", "blocked"})
            /\ ~r.dedupOnly /\ s.dedupOnly
            /\ \E g \in Hosts \ {h} : HeadIs(g, {"completed"})
  <2>1. Phases[h] \in {"failed"} /\ PhaseOf(s.status) \in {"ready", "waiting"}
    BY <1>2, <1>12 DEF Becomes, HeadIs, PhaseOf
  <2>2. Lifecycle!Move(h, {"failed"}, {"ready", "waiting"})
    BY <1>6, <2>1
  <2>3. Onlys' = [Onlys EXCEPT ![h] = TRUE] /\ ~Onlys[h]
    BY <1>1, <1>2, <1>7, <1>12
  <2>4. Knowns' = Knowns
    BY <1>4, <1>12 DEF Becomes, HeadIs, Known
  <2>5. PICK g \in Hosts \ {h} : HeadIs(g, {"completed"})
    BY <1>12
  <2>6. Lifecycle!Done(g)
    BY <1>2, <2>5 DEF Lifecycle!Done, Phases, HeadIs, PhaseOf
  <2>7. Lifecycle!Others(h, Lifecycle!Done)
    BY <2>6 DEF Lifecycle!Others
  <2>8. Lifecycle!SecondChance(h)
    BY <2>2, <2>3, <2>4, <2>7 DEF Lifecycle!SecondChance, Onlys, Knowns
  <2>. QED
    BY <1>8, <2>8
<1>. QED
  BY <1>10, <1>11, <1>12 DEF MoveOf, Legal

-----------------------------------------------------------------------------
(* What a step leaves alone goes on fitting. *)

SameHead(h) ==
    /\ rows'[<<h, 0>>].status = rows[<<h, 0>>].status
    /\ rows'[<<h, 0>>].gen = rows[<<h, 0>>].gen
    /\ rows'[<<h, 0>>].dedupOnly = rows[<<h, 0>>].dedupOnly

LEMMA StillFits ==
  ASSUME NEW h \in Hosts, WorkerFits(h), Lasting, SameHead(h),
         rows[<<h, 0>>].md5 => rows'[<<h, 0>>].md5,
         Paused(worker[h], worker'[h])
  PROVE  WorkerFits(h)'
<1>1. HeadId(h)' = HeadId(h) /\ \A S : HeadIs(h, S)' <=> HeadIs(h, S)
  BY DEF SameHead, HeadId, IdAt, HeadIs
<1>2. CASE worker'[h].pc \in {"spinup", "stopped"} /\ worker'[h].pc # worker[h].pc
  BY <1>2 DEF WorkerFits, Resting
<1>3. CASE /\ worker'[h].pc = worker[h].pc /\ worker'[h].row = worker[h].row
           /\ worker'[h].current = worker[h].current /\ worker'[h].part = worker[h].part
           /\ worker'[h].ok = worker[h].ok /\ worker'[h].dedupOnly = worker[h].dedupOnly
           /\ worker'[h].plan = worker[h].plan
  <2>1. Resting(h)' <=> Resting(h)
    BY <1>3 DEF Resting
  <2>2. (\E g \in Hosts \ {h} : Known(g)) => (\E g \in Hosts \ {h} : Known(g)')
    BY DEF Lasting
  <2>3. HeadIs(h, IF worker[h].part = 0 THEN {"uploading"} ELSE {"completed"})'
          <=> HeadIs(h, IF worker[h].part = 0 THEN {"uploading"} ELSE {"completed"})
    BY <1>3 DEF SameHead, HeadIs
  <2>. QED
    BY <1>1, <1>3, <2>1, <2>2, <2>3 DEF WorkerFits, SameHead
<1>4. CASE worker'[h].pc \in {"spinup", "stopped"}
  BY <1>4 DEF WorkerFits, Resting
<1>. QED
  BY <1>3, <1>4 DEF Paused

\* The worker of a row that waits, failed or is not there is not at work on it.
LEMMA AwayFits ==
  ASSUME NEW h \in Hosts, WorkerFits(h), worker'[h] = worker[h],
         HeadIs(h, {"absent", "blocked", "failed"}), ~HeadIs(h, {"absent"})'
  PROVE  WorkerFits(h)'
<1>1. worker[h].pc \notin {"picked", "probe", "commit", "commitPart", "missed", "archive",
                           "part", "send", "except"}
  BY DEF WorkerFits, HeadIs
<1>2. ~(worker[h].pc = "announce" /\ worker[h].ok)
  BY DEF WorkerFits, HeadIs
<1>. QED
  BY <1>1, <1>2 DEF WorkerFits

\* The rest of a list of writes, after a step that leaves its targets alone.
LEMMA TodoStays ==
  ASSUME NEW todo \in SUBSET Write, NEW rest \in SUBSET todo, TodoFits(todo), Lasting,
         \A w \in rest : w.op # "reassign" => SameHead(w.id.host),
         \A w \in rest : w.op \in {"queueBlocked", "reassign"} =>
            Free(w.on.host)' \/ \E v \in First(rest) : v.id.host = w.on.host
  PROVE  TodoFits(rest)'
<1>1. ASSUME NEW w \in rest PROVE WriteFits(rest, w)'
  <2>. DEFINE h == w.id.host
  <2>1. WriteFits(todo, w) /\ w.id \in RowId /\ h \in Hosts
    BY DEF TodoFits, Write, RowId
  <2>2. w.op # "reassign" => HeadId(h)' = HeadId(h) /\ \A S : HeadIs(h, S)' <=> HeadIs(h, S)
    BY DEF SameHead, HeadId, IdAt, HeadIs
  <2>3. w.op \in Queues => HeadIs(h, {"absent"})'
    BY <2>1, <2>2 DEF WriteFits, Queues
  <2>4. w.op \in {"unblock", "promote"} => HeadIs(h, {"blocked"})' /\ w.id = HeadId(h)'
    BY <2>1, <2>2 DEF WriteFits
  <2>5. w.op \in RetryOps =>
          /\ HeadIs(h, {"failed"})' /\ ~rows'[<<h, 0>>].dedupOnly
          /\ \E g \in Hosts \ {h} : HeadIs(g, {"completed"})'
    BY <2>1, <2>2 DEF WriteFits, RetryOps, SameHead, Lasting
  <2>6. w.op = "retryWait" =>
          /\ NumHosts <= 2
          /\ w.on.host \in Hosts \ {h} /\ HeadIs(w.on.host, {"completed"})'
    BY <2>1 DEF WriteFits, Lasting
  <2>7. w.op \in {"queueBlocked", "reassign"} =>
          /\ w.on.host \in Hosts
          /\ Free(w.on.host)' \/ \E v \in First(rest) : v.id.host = w.on.host
    BY <2>1 DEF WriteFits
  <2>. QED
    BY <2>3, <2>4, <2>5, <2>6, <2>7 DEF WriteFits, First
<1>2. \A v, w \in rest :
         v.op # "reassign" /\ w.op # "reassign" /\ v.id.host = w.id.host => v = w
  BY DEF TodoFits
<1>3. \E ops \in {Queues, RetryOps, {"unblock", "promote", "reassign"}} : \A w \in rest : w.op \in ops
  BY DEF TodoFits
<1>. QED
  BY <1>1, <1>2, <1>3 DEF TodoFits

LEMMA NothingTodo == TodoFits({}) /\ TodoFits({})'
  BY DEF TodoFits

-----------------------------------------------------------------------------
(* Signals *)

Rests == \A g \in Hosts : HeadIs(g, {"completed"}) /\ Resting(g) => Resting(g)'

LEMMA SilentStays ==
  ASSUME Lasting, Rests, NEW q, NEW h \in Hosts, NEW i, Silent(q, h, i)
  PROVE  Silent(q, h, i)'
  BY DEF Lasting, Rests, Silent, Speaks

LEMMA SpeakerIn == ASSUME NEW q \in Seq(Event) PROVE \A i \in DOMAIN q : q[i] \in Event /\ q[i].host \in Hosts
<1>1. \A i \in DOMAIN q : q[i] \in Event
  OBVIOUS
<1>. QED
  BY <1>1 DEF Event

LEMMA SignalsStay ==
  ASSUME Lasting, Rests, NEW q \in Seq(Event), SignalsFit(q)
  PROVE  SignalsFit(q)'
<1>1. ASSUME NEW i \in DOMAIN q, q[i].kind = "settled" /\ q[i].ok
      PROVE  Silent(q, q[i].host, i + 1)'
  <2>1. Silent(q, q[i].host, i + 1) /\ q[i].host \in Hosts
    BY <1>1, SpeakerIn DEF SignalsFit
  <2>. QED
    BY <2>1, SilentStays
<1>. QED
  BY <1>1 DEF SignalsFit

LEMMA SignalsTaken ==
  ASSUME NEW q \in Seq(Event), q # <<>>, SignalsFit(q)
  PROVE  /\ Tail(q) \in Seq(Event)
         /\ SignalsFit(Tail(q))
         /\ q[1].kind = "settled" /\ q[1].ok => Silent(Tail(q), q[1].host, 1)
         /\ \A h : Speaks(Tail(q), h, 1) => Speaks(q, h, 1)
<1>1. /\ Tail(q) \in Seq(Event) /\ Len(q) \in Nat \ {0} /\ DOMAIN q = 1 .. Len(q)
      /\ DOMAIN Tail(q) = 1 .. Len(q) - 1
      /\ \A j \in 1 .. Len(q) - 1 : Tail(q)[j] = q[j + 1] /\ j + 1 \in DOMAIN q
  BY EmptySeq, HeadTailProperties
<1>2. ASSUME NEW h, NEW i \in Nat, Speaks(Tail(q), h, i) PROVE Speaks(q, h, i + 1)
  <2>1. PICK j \in DOMAIN Tail(q) : j >= i /\ Tail(q)[j].kind = "settled" /\ Tail(q)[j].host = h
    BY <1>2 DEF Speaks
  <2>2. j + 1 \in DOMAIN q /\ j + 1 >= i + 1 /\ q[j + 1] = Tail(q)[j]
    BY <1>1, <2>1
  <2>. QED
    BY <2>1, <2>2 DEF Speaks
<1>3. ASSUME NEW h, Speaks(q, h, 2) PROVE Speaks(q, h, 1)
  BY <1>1, <1>3 DEF Speaks
<1>4. \A h : Speaks(Tail(q), h, 1) => Speaks(q, h, 2)
  <2>1. ASSUME NEW h, Speaks(Tail(q), h, 1) PROVE Speaks(q, h, 2)
    <3>1. Speaks(q, h, 1 + 1)
      BY <1>2, <2>1
    <3>. QED
      BY <3>1
  <2>. QED
    BY <2>1
<1>5. ASSUME NEW i \in DOMAIN Tail(q), Tail(q)[i].kind = "settled" /\ Tail(q)[i].ok
      PROVE  Silent(Tail(q), Tail(q)[i].host, i + 1)
  <2>1. i \in Nat /\ i + 1 \in Nat /\ i + 1 \in DOMAIN q /\ Tail(q)[i] = q[i + 1]
    BY <1>1
  <2>2. Silent(q, q[i + 1].host, (i + 1) + 1)
    BY <1>5, <2>1 DEF SignalsFit
  <2>. QED
    BY <1>2, <2>1, <2>2 DEF Silent
<1>6. q[1].kind = "settled" /\ q[1].ok => Silent(Tail(q), q[1].host, 1)
  <2>1. 1 \in DOMAIN q
    BY <1>1
  <2>2. q[1].kind = "settled" /\ q[1].ok => Silent(q, q[1].host, 1 + 1)
    BY <2>1 DEF SignalsFit
  <2>. QED
    BY <1>4, <2>2 DEF Silent
<1>. QED
  BY <1>1, <1>3, <1>4, <1>5, <1>6 DEF SignalsFit

LEMMA SignalsAppended ==
  ASSUME Lasting, Rests, NEW q \in Seq(Event), NEW e \in Event, SignalsFit(q),
         e.kind = "settled" => ~Resting(e.host),
         e.kind = "settled" /\ e.ok => HeadIs(e.host, {"completed"})' /\ Resting(e.host)'
  PROVE  /\ SignalsFit(Append(q, e))'
         /\ \A h \in Hosts : Silent(q, h, 1) => Silent(Append(q, e), h, 1)'
<1>1. /\ Len(q) \in Nat /\ DOMAIN q = 1 .. Len(q) /\ DOMAIN Append(q, e) = 1 .. Len(q) + 1
      /\ \A j \in 1 .. Len(q) : Append(q, e)[j] = q[j]
      /\ Append(q, e)[Len(q) + 1] = e
  BY AppendProperties
<1>2. ASSUME NEW h, NEW i \in Nat, Speaks(Append(q, e), h, i)
      PROVE  Speaks(q, h, i) \/ (e.kind = "settled" /\ e.host = h)
  <2>1. PICK j \in DOMAIN Append(q, e) : /\ j >= i /\ Append(q, e)[j].kind = "settled"
                                         /\ Append(q, e)[j].host = h
    BY <1>2 DEF Speaks
  <2>2. CASE j \in 1 .. Len(q)
    BY <1>1, <2>1, <2>2 DEF Speaks
  <2>3. CASE j = Len(q) + 1
    BY <1>1, <2>1, <2>3
  <2>. QED
    BY <1>1, <2>2, <2>3
<1>3. ASSUME NEW h \in Hosts, NEW i \in Nat, Silent(q, h, i) PROVE Silent(Append(q, e), h, i)'
  <2>1. Resting(h) /\ ~Speaks(q, h, i) /\ Silent(q, h, i)'
    BY <1>3, SilentStays DEF Silent
  <2>2. ~(e.kind = "settled" /\ e.host = h)
    BY <2>1
  <2>3. ~Speaks(Append(q, e), h, i)
    BY <1>2, <2>1, <2>2
  <2>. QED
    BY <2>1, <2>3 DEF Silent, Speaks
<1>4. ASSUME NEW i \in DOMAIN Append(q, e),
             Append(q, e)[i].kind = "settled" /\ Append(q, e)[i].ok
      PROVE  Silent(Append(q, e), Append(q, e)[i].host, i + 1)'
  <2>1. CASE i \in 1 .. Len(q)
    <3>1. Append(q, e)[i] = q[i] /\ q[i].host \in Hosts /\ i + 1 \in Nat
      BY <1>1, <2>1, SpeakerIn
    <3>2. Silent(q, q[i].host, i + 1)
      BY <1>1, <1>4, <2>1, <3>1 DEF SignalsFit
    <3>. QED
      BY <1>3, <3>1, <3>2
  <2>2. CASE i = Len(q) + 1
    <3>1. Append(q, e)[i] = e /\ e.kind = "settled" /\ e.ok
      BY <1>1, <1>4, <2>2
    <3>2. \A h : ~Speaks(Append(q, e), h, i + 1)
      BY <1>1, <2>2 DEF Speaks
    <3>. QED
      BY <3>1, <3>2 DEF Silent, Speaks
  <2>. QED
    BY <1>1, <2>1, <2>2
<1>. QED
  BY <1>3, <1>4 DEF SignalsFit

-----------------------------------------------------------------------------
(* A step of a worker *)

LEMMA OneRowEach == ASSUME NumParts = 1 PROVE Parts = {0} /\ \A k \in Hosts \X Parts : k = <<k[1], 0>>
<1>1. Parts = {0}
  BY DEF Parts
<1>. QED
  BY <1>1

LEMMA NoneLost == ASSUME Orderly PROVE \A new : Commits(new) => rows' = new
  BY DEF Orderly, Commits, Charge

LEMMA HeadWritten ==
  ASSUME rows \in Table, NEW h \in Hosts, NEW new \in Row, new.gen = rows[<<h, 0>>].gen,
         rows' = UpdateRow(rows, HeadId(h), new)
  PROVE  /\ rows' \in Table
         /\ rows'[<<h, 0>>] = new
         /\ \A g \in Hosts \ {h} : rows'[<<g, 0>>] = rows[<<g, 0>>]
         /\ HeadId(h)' = HeadId(h)
<1>1. HeadId(h) \in RowId /\ HeadId(h).host = h /\ Place(HeadId(h)) = <<h, 0>>
  BY PartZero, IdAtType DEF HeadId, IdAt, Place
<1>2. rows' \in Table
  BY <1>1, UpdateRowShape
<1>3. rows'[<<h, 0>>] = new
  BY HeadUpdated
<1>4. ASSUME NEW g \in Hosts \ {h} PROVE rows'[<<g, 0>>] = rows[<<g, 0>>]
  <2>1. HeadId(h) \in RowId \union {NoId} /\ HeadId(h).host # g
    BY <1>1
  <2>. QED
    BY <2>1, UpdateElsewhere
<1>5. HeadId(h)' = HeadId(h)
  BY <1>3 DEF HeadId, IdAt
<1>. QED
  BY <1>2, <1>3, <1>4, <1>5

WorkerMoved(h) ==
    /\ MoveOf(h) /\ WorkerFits(h)'
    /\ \/ rows'[<<h, 0>>] = rows[<<h, 0>>]
       \/ /\ HeadIs(h, {"pending", "uploading"})
          /\ HeadIs(h, {"pending", "uploading", "completed", "failed"})'
    /\ HeadIs(h, {"completed"}) /\ Resting(h) => Resting(h)'

\* The sibling part a worker mirrors is one of another host, with an md5.
LEMMA BestIsKnown ==
  ASSUME NumParts = 1, rows \in Table, NEW h \in Hosts, Mirrorable(h)
  PROVE  SiblingParts(rows, h) = {0} /\ \E g \in Hosts \ {h} : Known(g)
<1>1. Parts = {0}
  BY OneRowEach
<1>2. SiblingParts(rows, h) = {0} /\ CompletedAt(rows, 0) # {} /\ BestAt(rows, 0) # h
  BY <1>1 DEF Mirrorable, SiblingParts
<1>3. rows[<<BestAt(rows, 0), 0>>].md5
  BY <1>2 DEF Mirrorable
<1>. DEFINE all == CompletedAt(rows, 0)
            hashed == {g \in all : rows[<<g, 0>>].md5}
            Best(b) == \A g \in all \ {b} : \/ rows[<<b, 0>>].md5 /\ ~rows[<<g, 0>>].md5
                                            \/ rows[<<b, 0>>].md5 = rows[<<g, 0>>].md5 /\ b < g
<1>4. all \in SUBSET Nat /\ hashed \in SUBSET Nat /\ all \subseteq Hosts
  BY DEF CompletedAt, Hosts
<1>5. \A g \in all : rows[<<g, 0>>].md5 \in BOOLEAN
  BY <1>4, PartZero DEF Table, Row
<1>6. \E b \in all : Best(b)
  <2>1. CASE hashed # {}
    <3>1. PICK b \in hashed : \A g \in hashed : b <= g
      BY <1>4, <2>1, LeastExists
    <3>2. ASSUME NEW g \in all \ {b}
          PROVE  \/ rows[<<b, 0>>].md5 /\ ~rows[<<g, 0>>].md5
                 \/ rows[<<b, 0>>].md5 = rows[<<g, 0>>].md5 /\ b < g
      <4>1. CASE rows[<<g, 0>>].md5
        <5>1. b <= g /\ b # g /\ b \in Nat /\ g \in Nat
          BY <1>4, <3>1, <4>1
        <5>2. b < g
          BY <5>1
        <5>3. rows[<<b, 0>>].md5 = rows[<<g, 0>>].md5
          BY <1>5, <3>1, <4>1
        <5>. QED
          BY <5>2, <5>3
      <4>2. CASE ~rows[<<g, 0>>].md5
        BY <3>1, <4>2
      <4>. QED
        BY <4>1, <4>2
    <3>. QED
      BY <3>1, <3>2
  <2>2. CASE hashed = {}
    <3>1. PICK b \in all : \A g \in all : b <= g
      BY <1>2, <1>4, LeastExists
    <3>2. ASSUME NEW g \in all \ {b}
          PROVE  rows[<<b, 0>>].md5 = rows[<<g, 0>>].md5 /\ b < g
      <4>1. b <= g /\ b # g /\ b \in Nat /\ g \in Nat
        BY <1>4, <3>1
      <4>2. b < g
        BY <4>1
      <4>3. rows[<<b, 0>>].md5 = FALSE /\ rows[<<g, 0>>].md5 = FALSE
        BY <1>5, <2>2
      <4>. QED
        BY <4>2, <4>3
    <3>. QED
      BY <3>1, <3>2
  <2>. QED
    BY <2>1, <2>2
<1>7. BestAt(rows, 0) = CHOOSE b \in all : Best(b)
  BY DEF BestAt
<1>8. BestAt(rows, 0) \in all
  BY <1>6, <1>7
<1>9. Known(BestAt(rows, 0))
  BY <1>3, <1>8 DEF Known, HeadIs, CompletedAt
<1>. QED
  BY <1>2, <1>4, <1>8, <1>9

LEMMA WorkerMoves ==
  ASSUME Orderly, TableTypeOK, WorkerTypeOK, SendOK,
         \A g \in Hosts : HeadFits(g) /\ WorkerFits(g),
         NEW h \in Hosts, WorkerStep(h) \/ WorkerDbFails(h) \/ SpinUp(h)
  PROVE  WorkerMoved(h)
<1>. USE DEF At
<1>. DEFINE r == rows[<<h, 0>>]
            w == worker[h]
            v == worker'[h]
<1>1. /\ worker \in [Hosts -> WorkerState] /\ w \in WorkerState
      /\ rows \in Table /\ r \in Row /\ Parts = {0}
  BY OneRowEach, PartZero DEF Orderly, WorkerTypeOK, TableTypeOK, Table
<1>2. HeadFits(h) /\ WorkerFits(h)
  OBVIOUS
<1>3. \A new : Commits(new) => rows' = new
  BY NoneLost
<1>4. /\ HeadId(h) \in RowId /\ Place(HeadId(h)) = <<h, 0>>
      /\ HeadId(h) = IdAt(rows, h, 0)
  BY HeadIdType DEF HeadId
<1>5. ASSUME UNCHANGED rows, WorkerFits(h)', HeadIs(h, {"completed"}) /\ Resting(h) => Resting(h)'
      PROVE  WorkerMoved(h)
  BY <1>1, <1>5, StandStill DEF WorkerMoved
<1>6. ASSUME NEW new \in Row, new.gen = r.gen, rows' = UpdateRow(rows, HeadId(h), new)
      PROVE  /\ rows' \in Table /\ rows'[<<h, 0>>] = new
             /\ \A g \in Hosts \ {h} : rows'[<<g, 0>>] = rows[<<g, 0>>]
             /\ HeadId(h)' = HeadId(h)
  BY <1>1, <1>6, HeadWritten
<1>7. ASSUME NEW status \in {"uploading", "failed"}, rows' = SetStatus(rows, HeadId(h), status)
      PROVE  /\ rows' \in Table /\ rows'[<<h, 0>>].status = status
             /\ rows'[<<h, 0>>].dedupOnly = r.dedupOnly /\ rows'[<<h, 0>>].gen = r.gen
             /\ \A g \in Hosts \ {h} : rows'[<<g, 0>>] = rows[<<g, 0>>]
             /\ HeadId(h)' = HeadId(h)
  <2>. DEFINE new == [r EXCEPT !.status = status]
  <2>1. new \in Row /\ new.gen = r.gen /\ new.status = status /\ new.dedupOnly = r.dedupOnly
    BY <1>1 DEF Row, Status
  <2>2. rows' = UpdateRow(rows, HeadId(h), new)
    BY <1>4, <1>7 DEF SetStatus
  <2>. HIDE DEF new
  <2>. QED
    BY <1>6, <2>1, <2>2
<1>8. /\ \A q : Go(h, q) => v = [w EXCEPT !.pc = q]
      /\ Fail(h) => v.pc = "except" /\ v.row = w.row
      /\ Rest(h) => v.pc = "idle"
      /\ ToSettle(h) => v.pc = "settle"
  <2>1. \A q : Go(h, q) => v = [w EXCEPT !.pc = q]
    BY <1>1 DEF Go
  <2>2. Fail(h) => v.pc = "except" /\ v.row = w.row
    BY <1>1 DEF Fail, WorkerState
  <2>3. (Rest(h) => v.pc = "idle") /\ (ToSettle(h) => v.pc = "settle")
    BY <1>1 DEF Rest, ToSettle, Fresh
  <2>. QED
    BY <2>1, <2>2, <2>3
<1>9. UNCHANGED rows => /\ HeadId(h)' = HeadId(h)
                        /\ \A S : HeadIs(h, S)' <=> HeadIs(h, S)
                        /\ \A g : Known(g)' <=> Known(g)
  BY DEF HeadId, HeadIs, Known
<1>10. /\ w.pc \in {"picked", "missed", "commit"} =>
            HeadIs(h, {"pending"}) /\ w.row = HeadId(h) /\ w.dedupOnly = r.dedupOnly
       /\ w.pc \in {"archive", "send", "except"} =>
            HeadIs(h, {"uploading"}) /\ w.row = HeadId(h)
       /\ ~Resting(h) => ~HeadIs(h, {"absent"})
  BY <1>2 DEF WorkerFits
<1>11. CASE Pick(h)
  <2>1. /\ r.status = "pending" /\ UNCHANGED rows
        /\ worker' = [worker EXCEPT ![h].pc = "picked", ![h].row = IdAt(rows, h, 0),
                                    ![h].dedupOnly = rows[<<h, 0>>].dedupOnly]
    BY <1>1, <1>11 DEF Pick, tableVars
  <2>2. v.pc = "picked" /\ v.row = HeadId(h) /\ v.dedupOnly = r.dedupOnly
    BY <1>1, <1>4, <2>1 DEF WorkerState
  <2>3. WorkerFits(h)'
    BY <1>9, <2>1, <2>2 DEF WorkerFits, HeadIs
  <2>. QED
    BY <1>5, <2>1, <2>3 DEF HeadIs
<1>12. CASE FailFast(h)
  <2>1. w.pc = "picked" /\ rows' = SetStatus(rows, HeadId(h), "failed") /\ v.pc = "idle"
    BY <1>3, <1>8, <1>10, <1>12 DEF FailFast
  <2>2. /\ rows' \in Table /\ rows'[<<h, 0>>].status = "failed"
        /\ rows'[<<h, 0>>].dedupOnly = r.dedupOnly /\ rows'[<<h, 0>>].gen = r.gen
        /\ \A g \in Hosts \ {h} : rows'[<<g, 0>>] = rows[<<g, 0>>]
    BY <1>7, <2>1
  <2>3. MoveOf(h)
    BY <1>10, <2>1, <2>2 DEF MoveOf, Legal, Advances, Becomes, HeadIs
  <2>. QED
    BY <1>10, <2>1, <2>2, <2>3 DEF WorkerMoved, WorkerFits, Resting, HeadIs
<1>13. CASE StartUpload(h)
  <2>1. /\ w.pc = "missed" /\ ~w.dedupOnly /\ rows' = SetStatus(rows, HeadId(h), "uploading")
        /\ v = [w EXCEPT !.pc = "archive"]
    BY <1>3, <1>8, <1>10, <1>13 DEF StartUpload
  <2>2. /\ rows' \in Table /\ rows'[<<h, 0>>].status = "uploading"
        /\ rows'[<<h, 0>>].dedupOnly = r.dedupOnly /\ rows'[<<h, 0>>].gen = r.gen
        /\ \A g \in Hosts \ {h} : rows'[<<g, 0>>] = rows[<<g, 0>>]
        /\ HeadId(h)' = HeadId(h)
    BY <1>7, <2>1
  <2>3. MoveOf(h)
    BY <1>10, <2>1, <2>2 DEF MoveOf, Legal, Advances, Becomes, HeadIs
  <2>4. v.pc = "archive" /\ v.row = HeadId(h)
    BY <1>1, <1>10, <2>1 DEF WorkerState
  <2>5. WorkerFits(h)'
    BY <2>2, <2>4 DEF WorkerFits, Resting, HeadIs
  <2>. QED
    BY <1>10, <2>1, <2>2, <2>3, <2>5 DEF WorkerMoved, HeadIs
<1>14. CASE GiveUp(h)
  <2>1. /\ w.pc = "missed" /\ rows' = SetStatus(rows, HeadId(h), "failed")
        /\ v = [w EXCEPT !.pc = "announce", !.ok = FALSE]
    BY <1>1, <1>3, <1>10, <1>14 DEF GiveUp
  <2>2. /\ rows' \in Table /\ rows'[<<h, 0>>].status = "failed"
        /\ rows'[<<h, 0>>].dedupOnly = r.dedupOnly /\ rows'[<<h, 0>>].gen = r.gen
        /\ \A g \in Hosts \ {h} : rows'[<<g, 0>>] = rows[<<g, 0>>]
    BY <1>7, <2>1
  <2>3. MoveOf(h)
    BY <1>10, <2>1, <2>2 DEF MoveOf, Legal, Advances, Becomes, HeadIs
  <2>4. v.pc = "announce" /\ v.ok = FALSE
    BY <1>1, <2>1 DEF WorkerState
  <2>5. WorkerFits(h)'
    BY <2>2, <2>4 DEF WorkerFits, Resting, HeadIs
  <2>. QED
    BY <1>10, <2>1, <2>2, <2>3, <2>5 DEF WorkerMoved, HeadIs
<1>15. CASE HandleError(h)
  <2>1. /\ w.pc = "except" /\ rows' = AfterError(h) /\ v.pc = "settle"
    BY <1>3, <1>8, <1>15 DEF HandleError
  <2>2. CASE rows' = SetStatus(rows, HeadId(h), "failed")
    <3>1. /\ rows' \in Table /\ rows'[<<h, 0>>].status = "failed"
          /\ rows'[<<h, 0>>].dedupOnly = r.dedupOnly /\ rows'[<<h, 0>>].gen = r.gen
          /\ \A g \in Hosts \ {h} : rows'[<<g, 0>>] = rows[<<g, 0>>]
      BY <1>7, <2>2
    <3>2. MoveOf(h)
      BY <1>10, <2>1, <3>1 DEF MoveOf, Legal, Advances, Becomes, HeadIs
    <3>3. WorkerFits(h)'
      BY <2>1, <3>1 DEF WorkerFits, Resting, HeadIs
    <3>. QED
      BY <1>10, <2>1, <3>1, <3>2, <3>3 DEF WorkerMoved, HeadIs
  <2>3. CASE rows' = Requeued(HeadId(h))
    <3>. DEFINE new == [r EXCEPT !.status = "pending", !.retries = @ + 1]
    <3>1. /\ new \in Row /\ new.gen = r.gen /\ new.status = "pending"
          /\ new.dedupOnly = r.dedupOnly
      <4>. DEFINE k == r.retries + 1
      <4>1. k \in Nat
        BY <1>1 DEF Row
      <4>2. new = [r EXCEPT !.status = "pending", !.retries = k]
        BY <1>1 DEF Row
      <4>. HIDE DEF k
      <4>. QED
        BY <1>1, <4>1, <4>2 DEF Row, Status
    <3>2. rows' = UpdateRow(rows, HeadId(h), new)
      BY <1>4, <2>3 DEF Requeued
    <3>. HIDE DEF new
    <3>3. /\ rows' \in Table /\ rows'[<<h, 0>>] = new
          /\ \A g \in Hosts \ {h} : rows'[<<g, 0>>] = rows[<<g, 0>>]
      BY <1>6, <3>1, <3>2
    <3>4. MoveOf(h)
      BY <1>10, <2>1, <3>1, <3>3 DEF MoveOf, Legal, Advances, Becomes, HeadIs
    <3>5. WorkerFits(h)'
      BY <2>1, <3>1, <3>3 DEF WorkerFits, Resting, HeadIs
    <3>. QED
      BY <1>10, <2>1, <3>1, <3>3, <3>4, <3>5 DEF WorkerMoved, HeadIs
  <2>. QED
    BY <1>10, <2>1, <2>2, <2>3 DEF AfterError
<1>16. CASE CommitHead(h)
  <2>1. w.pc = "commit" /\ w.plan = {0} /\ w.row = HeadId(h) /\ HeadIs(h, {"pending"})
    BY <1>2, <1>16 DEF CommitHead, WorkerFits
  <2>2. PICK g \in Hosts \ {h} : Known(g)
    BY <1>2, <2>1 DEF WorkerFits
  <2>. DEFINE new == [r EXCEPT !.status = "completed", !.md5 = TRUE, !.url = TRUE]
  <2>3. /\ new \in Row /\ new.gen = r.gen /\ new.status = "completed" /\ new.md5 = TRUE
        /\ new.dedupOnly = r.dedupOnly
    BY <1>1 DEF Row, Status
  <2>4. rows' = UpdateRow(rows, HeadId(h), new)
    BY <1>3, <1>4, <1>16, <2>1 DEF CommitHead, WithHead, Mirrored
  <2>. HIDE DEF new
  <2>5. /\ rows' \in Table /\ rows'[<<h, 0>>] = new
        /\ \A k \in Hosts \ {h} : rows'[<<k, 0>>] = rows[<<k, 0>>]
    BY <1>6, <2>3, <2>4
  <2>6. Known(h)' /\ HeadIs(h, {"completed"})'
    BY <2>3, <2>5 DEF Known, HeadIs
  <2>7. MoveOf(h)
    BY <2>1, <2>2, <2>3, <2>5, <2>6 DEF MoveOf, Legal, Advances, Becomes
  <2>8. v.pc = "announce"
    BY <1>1, <1>16 DEF CommitHead, WorkerState
  <2>9. WorkerFits(h)'
    BY <2>6, <2>8 DEF WorkerFits, Resting, HeadIs
  <2>. QED
    BY <2>1, <2>6, <2>7, <2>9 DEF WorkerMoved, HeadIs
<1>17. CASE BeginPart(h)
  <2>1. w.pc = "part" /\ w.part = 0 /\ w.row = HeadId(h) /\ HeadIs(h, {"uploading"})
    <3>1. w.pc = "part" /\ w.part < w.count
      BY <1>17 DEF BeginPart
    <3>2. w.part \in 0 .. 1 /\ w.count \in 0 .. 1
      BY <1>1 DEF WorkerState, Orderly
    <3>3. w.part = 0
      BY <3>1, <3>2
    <3>. QED
      BY <1>2, <3>1, <3>3 DEF WorkerFits
  <2>. DEFINE new == WithHash(h, r)
  <2>2. /\ new \in Row /\ new.gen = r.gen /\ new.status = r.status
        /\ new.dedupOnly = r.dedupOnly /\ (h \in HashFirst => new.md5)
    BY <1>1 DEF WithHash, Row
  <2>3. rows' = UpdateRow(rows, HeadId(h), new) /\ v = [w EXCEPT !.pc = "send", !.current = HeadId(h)]
    BY <1>1, <1>4, <1>17, <2>1 DEF BeginPart, WithPartRow
  <2>. HIDE DEF new
  <2>4. /\ rows' \in Table /\ rows'[<<h, 0>>] = new /\ HeadId(h)' = HeadId(h)
        /\ \A k \in Hosts \ {h} : rows'[<<k, 0>>] = rows[<<k, 0>>]
    BY <1>6, <2>2, <2>3
  <2>5. MoveOf(h)
    BY <2>1, <2>2, <2>4 DEF MoveOf, Legal, Advances, HeadIs
  <2>6. v.pc = "send" /\ v.row = HeadId(h) /\ v.current = HeadId(h) /\ v.part = 0
    BY <1>1, <2>1, <2>3 DEF WorkerState
  <2>7. WorkerFits(h)'
    BY <2>1, <2>2, <2>4, <2>6 DEF WorkerFits, Resting, HeadIs
  <2>. QED
    BY <2>1, <2>2, <2>4, <2>5, <2>7 DEF WorkerMoved, HeadIs
<1>18. CASE SendPart(h)
  <2>1. /\ w.pc = "send" /\ w.part = 0 /\ w.current = HeadId(h) /\ w.row = HeadId(h)
        /\ HeadIs(h, {"uploading"}) /\ (h \in HashFirst => r.md5)
    BY <1>2, <1>18 DEF SendPart, WorkerFits
  <2>2. CASE Fail(h) /\ UNCHANGED rows
    <3>1. v.pc = "except" /\ v.row = HeadId(h)
      BY <1>8, <2>1, <2>2
    <3>2. WorkerFits(h)'
      BY <1>9, <2>1, <2>2, <3>1 DEF WorkerFits, HeadIs
    <3>. QED
      BY <1>5, <2>1, <2>2, <3>2 DEF Resting
  <2>3. CASE /\ \E url \in IF "badurl" \in Faults THEN BOOLEAN ELSE {TRUE} :
                  Commits(UpdateRow(rows, HeadId(h), [r EXCEPT !.status = "completed", !.url = url]))
             /\ worker' = [worker EXCEPT ![h].pc = "part", ![h].current = NoId, ![h].part = @ + 1]
    <3>1. PICK url \in BOOLEAN :
              rows' = UpdateRow(rows, HeadId(h), [r EXCEPT !.status = "completed", !.url = url])
      BY <1>3, <2>3
    <3>. DEFINE new == [r EXCEPT !.status = "completed", !.url = url]
    <3>2. /\ new \in Row /\ new.gen = r.gen /\ new.status = "completed" /\ new.md5 = r.md5
          /\ new.dedupOnly = r.dedupOnly
      BY <1>1 DEF Row, Status
    <3>3. rows' = UpdateRow(rows, HeadId(h), new)
      BY <3>1
    <3>. HIDE DEF new
    <3>4. /\ rows' \in Table /\ rows'[<<h, 0>>] = new /\ HeadId(h)' = HeadId(h)
          /\ \A k \in Hosts \ {h} : rows'[<<k, 0>>] = rows[<<k, 0>>]
      BY <1>6, <3>2, <3>3
    <3>5. HeadIs(h, {"completed"})' /\ (h \in HashFirst => Known(h)')
      BY <2>1, <3>2, <3>4 DEF HeadIs, Known
    <3>6. MoveOf(h)
      BY <2>1, <3>2, <3>4, <3>5 DEF MoveOf, Legal, Advances, Becomes
    <3>7. v.pc = "part" /\ v.row = HeadId(h) /\ v.part = 1
      BY <1>1, <2>1, <2>3 DEF WorkerState
    <3>8. WorkerFits(h)'
      BY <3>4, <3>5, <3>7 DEF WorkerFits, Resting, HeadIs
    <3>. QED
      BY <2>1, <3>5, <3>6, <3>8 DEF WorkerMoved, HeadIs
  <2>. QED
    BY <1>4, <1>18, <2>1, <2>2, <2>3 DEF SendPart
<1>19. CASE Archive(h)
  <2>1. w.pc = "archive" /\ UNCHANGED rows /\ w.row = HeadId(h) /\ HeadIs(h, {"uploading"})
    BY <1>10, <1>19 DEF Archive, tableVars
  <2>2. CASE Fail(h)
    BY <1>5, <1>8, <1>9, <2>1, <2>2 DEF WorkerFits, Resting, HeadIs
  <2>3. CASE \E n \in 1 .. NumParts :
               worker' = [worker EXCEPT ![h].pc = "part", ![h].part = 0, ![h].count = n]
    <3>1. v.pc = "part" /\ v.part = 0 /\ v.row = HeadId(h)
      BY <1>1, <2>1, <2>3 DEF WorkerState
    <3>2. WorkerFits(h)'
      BY <1>9, <2>1, <3>1 DEF WorkerFits, Resting, HeadIs
    <3>. QED
      BY <1>5, <2>1, <3>2 DEF Resting
  <2>. QED
    BY <1>19, <2>2, <2>3 DEF Archive
<1>20. CASE EndParts(h)
  <2>1. /\ w.pc = "part" /\ UNCHANGED rows /\ w.row = HeadId(h)
        /\ ~HeadIs(h, {"absent"}) /\ (w.part = 0 => HeadIs(h, {"uploading"}))
    BY <1>2, <1>20 DEF EndParts, tableVars, WorkerFits, Resting
  <2>2. CASE w.part = 0 /\ worker' = [worker EXCEPT ![h].pc = "except", ![h].retryable = TRUE]
    <3>1. v.pc = "except" /\ v.row = HeadId(h)
      BY <1>1, <2>1, <2>2 DEF WorkerState
    <3>2. WorkerFits(h)'
      BY <1>9, <2>1, <2>2, <3>1 DEF WorkerFits, Resting, HeadIs
    <3>. QED
      BY <1>5, <2>1, <3>2 DEF Resting
  <2>3. CASE ToSettle(h)
    BY <1>5, <1>8, <1>9, <2>1, <2>3 DEF WorkerFits, Resting, HeadIs
  <2>. QED
    BY <1>20, <2>2, <2>3 DEF EndParts
<1>21. CASE ReadOutcome(h) \/ OutcomeUnread(h)
  <2>1. w.pc = "settle" /\ UNCHANGED rows /\ ~HeadIs(h, {"absent"})
    BY <1>10, <1>21 DEF ReadOutcome, OutcomeUnread, tableVars, Resting
  <2>2. v.pc = "announce" /\ (v.ok => HeadIs(h, {"completed"}))
    <3>1. CASE ReadOutcome(h)
      <4>. DEFINE ok == \A p \in Parts : rows[<<h, p>>].status \in {"absent", "completed"}
      <4>1. worker' = [worker EXCEPT ![h].pc = "announce", ![h].ok = ok]
        BY <3>1 DEF ReadOutcome
      <4>2. ok => HeadIs(h, {"completed"})
        BY <1>1, <2>1 DEF HeadIs
      <4>. HIDE DEF ok
      <4>3. v.pc = "announce" /\ v.ok = ok
        BY <1>1, <4>1 DEF WorkerState
      <4>. QED
        BY <4>2, <4>3
    <3>2. CASE OutcomeUnread(h)
      <4>1. v.pc = "announce" /\ v.ok = FALSE
        BY <1>1, <3>2 DEF OutcomeUnread, WorkerState
      <4>. QED
        BY <4>1
    <3>. QED
      BY <1>21, <3>1, <3>2
  <2>3. WorkerFits(h)'
    BY <1>9, <2>1, <2>2 DEF WorkerFits, Resting
  <2>. QED
    BY <1>5, <2>1, <2>3 DEF Resting
<1>22. CASE Quit(h) \/ SpinUp(h) \/ Announce(h) \/ RowDropped(h)
  <2>1. UNCHANGED rows /\ v.pc \in {"idle", "stopped"}
    <3>0. \A q : [w EXCEPT !.pc = q].pc = q
      BY <1>1 DEF WorkerState
    <3>1. CASE Quit(h)
      <4>1. UNCHANGED rows /\ v = [w EXCEPT !.pc = "stopped"]
        BY <1>8, <3>1 DEF Quit, tableVars
      <4>. QED
        BY <3>0, <4>1
    <3>2. CASE SpinUp(h)
      <4>1. UNCHANGED rows /\ (v = [w EXCEPT !.pc = "stopped"] \/ v = [w EXCEPT !.pc = "idle"])
        BY <1>8, <3>2 DEF SpinUp
      <4>. QED
        BY <3>0, <4>1
    <3>3. CASE Announce(h) \/ RowDropped(h)
      BY <1>8, <3>3 DEF Announce, RowDropped, tableVars
    <3>. QED
      BY <1>22, <3>1, <3>2, <3>3
  <2>. QED
    BY <1>5, <2>1 DEF WorkerFits, Resting
<1>23. CASE UploadDropped(h)
  <2>1. UNCHANGED rows /\ v.pc = "settle" /\ ~HeadIs(h, {"absent"}) /\ ~Resting(h)
    BY <1>8, <1>10, <1>23 DEF UploadDropped, tableVars, Resting
  <2>. QED
    BY <1>5, <1>9, <2>1 DEF WorkerFits, Resting
<1>24. CASE ReadSiblings(h)
  <2>1. /\ w.pc = "picked" /\ UNCHANGED rows /\ HeadIs(h, {"pending"}) /\ w.row = HeadId(h)
        /\ w.dedupOnly = r.dedupOnly
    BY <1>10, <1>24 DEF ReadSiblings, tableVars
  <2>2. CASE Mirrorable(h)
    <3>1. SiblingParts(rows, h) = {0} /\ \E g \in Hosts \ {h} : Known(g)
      BY <1>1, <2>2, BestIsKnown DEF Orderly
    <3>2. v = [w EXCEPT !.pc = "probe", !.plan = {0}]
      BY <1>1, <1>24, <2>2, <3>1 DEF ReadSiblings
    <3>3. v.pc = "probe" /\ v.plan = {0} /\ v.row = w.row /\ v.dedupOnly = w.dedupOnly
      BY <1>1, <3>2 DEF WorkerState
    <3>4. WorkerFits(h)'
      BY <1>9, <2>1, <3>1, <3>3 DEF WorkerFits, Resting, HeadIs
    <3>. QED
      BY <1>5, <2>1, <3>4 DEF Resting
  <2>3. CASE ~Mirrorable(h)
    <3>1. v = [w EXCEPT !.pc = "missed"]
      BY <1>8, <1>24, <2>3 DEF ReadSiblings
    <3>2. v.pc = "missed" /\ v.row = w.row /\ v.dedupOnly = w.dedupOnly
      BY <1>1, <3>1 DEF WorkerState
    <3>3. WorkerFits(h)'
      BY <1>9, <2>1, <3>2 DEF WorkerFits, Resting, HeadIs
    <3>. QED
      BY <1>5, <2>1, <3>3 DEF Resting
  <2>. QED
    BY <2>2, <2>3
<1>25. CASE Probe(h) \/ CommitFails(h)
  <2>1. /\ w.pc \in {"probe", "commit"} /\ UNCHANGED rows /\ HeadIs(h, {"pending"})
        /\ w.row = HeadId(h) /\ w.dedupOnly = r.dedupOnly
        /\ w.plan = {0} /\ \E g \in Hosts \ {h} : Known(g)
    BY <1>2, <1>25 DEF Probe, CommitFails, tableVars, WorkerFits
  <2>2. v.row = w.row /\ v.dedupOnly = w.dedupOnly
        /\ ((v.pc = "commit" /\ v.plan = w.plan) \/ v.pc = "missed")
    <3>1. CASE Probe(h) /\ Go(h, "commit")
      <4>1. v = [w EXCEPT !.pc = "commit"]
        BY <1>8, <3>1
      <4>. QED
        BY <1>1, <4>1 DEF WorkerState
    <3>2. CASE worker' = [worker EXCEPT ![h].pc = "missed", ![h].plan = {}]
      BY <1>1, <3>2 DEF WorkerState
    <3>3. CASE CommitFails(h)
      BY <1>1, <3>3 DEF CommitFails, WorkerState
    <3>. QED
      BY <1>25, <3>1, <3>2, <3>3 DEF Probe
  <2>3. WorkerFits(h)'
    BY <1>9, <2>1, <2>2 DEF WorkerFits, Resting, HeadIs
  <2>. QED
    BY <1>5, <2>1, <2>3 DEF Resting
<1>26. CASE BeginPartFails(h)
  <2>1. w.pc = "part" /\ w.part = 0 /\ w.row = HeadId(h) /\ HeadIs(h, {"uploading"})
    <3>1. w.pc = "part" /\ w.part < w.count
      BY <1>26 DEF BeginPartFails
    <3>2. w.part \in 0 .. 1 /\ w.count \in 0 .. 1
      BY <1>1 DEF WorkerState, Orderly
    <3>3. w.part = 0
      BY <3>1, <3>2
    <3>. QED
      BY <1>2, <3>1, <3>3 DEF WorkerFits
  <2>2. UNCHANGED rows
    BY <1>26, <2>1 DEF BeginPartFails, WithPartRow
  <2>3. v.pc = "except" /\ v.row = w.row
    BY <1>1, <1>26 DEF BeginPartFails, WorkerState
  <2>4. WorkerFits(h)'
    BY <1>9, <2>1, <2>2, <2>3 DEF WorkerFits, Resting, HeadIs
  <2>. QED
    BY <1>5, <2>1, <2>2, <2>4 DEF Resting
<1>27. ~CommitAdd(h) /\ ~CommitPart(h)
  BY <1>2 DEF CommitAdd, CommitPart, WorkerFits
<1>. QED
  BY <1>11, <1>12, <1>13, <1>14, <1>15, <1>16, <1>17, <1>18, <1>19, <1>20, <1>21, <1>22,
     <1>23, <1>24, <1>25, <1>26, <1>27
  DEF WorkerStep, WorkerDbFails

\* A worker speaks of its gallery when it is through with it.
LEMMA WorkerSignals ==
  ASSUME WorkerTypeOK, NEW h \in Hosts, WorkerStep(h) \/ WorkerDbFails(h) \/ SpinUp(h)
  PROVE  \/ UNCHANGED events
         \/ \E e \in Event :
              /\ events' = Append(events, e)
              /\ e.kind = "settled" =>
                    /\ e.host = h /\ e.ok = worker[h].ok
                    /\ worker[h].pc = "announce" /\ Resting(h)'
<1>1. ASSUME WorkerStep(h), ~Announce(h) PROVE UNCHANGED events
  <2>1. CASE FailFast(h) \/ CommitPart(h) \/ CommitHead(h) \/ GiveUp(h) \/ StartUpload(h)
             \/ SendPart(h) \/ HandleError(h)
    BY <2>1 DEF FailFast, CommitPart, CommitHead, GiveUp, StartUpload, SendPart, HandleError
  <2>2. CASE Pick(h) \/ Quit(h) \/ ReadSiblings(h) \/ Probe(h) \/ CommitAdd(h)
             \/ Archive(h) \/ BeginPart(h) \/ EndParts(h) \/ ReadOutcome(h)
    BY <2>2 DEF Pick, Quit, ReadSiblings, Probe, CommitAdd, Archive, BeginPart, EndParts,
                ReadOutcome, tableVars
  <2>. QED
    BY <1>1, <2>1, <2>2 DEF WorkerStep
<1>2. ASSUME WorkerDbFails(h) PROVE UNCHANGED events
  BY <1>2 DEF WorkerDbFails, CommitFails, RowDropped, UploadDropped, BeginPartFails,
              OutcomeUnread, tableVars
<1>3. CASE SpinUp(h)
  <2>1. PICK ok \in BOOLEAN : events' = Append(events, Spun(h, ok))
    BY <1>3 DEF SpinUp
  <2>2. Spun(h, ok) \in Event /\ Spun(h, ok).kind # "settled"
    BY DEF Spun, Event
  <2>. QED
    BY <2>1, <2>2
<1>4. CASE Announce(h)
  <2>1. worker[h].ok \in BOOLEAN /\ worker \in [Hosts -> WorkerState]
    BY DEF WorkerTypeOK, WorkerState
  <2>. DEFINE e == Settled(h, worker[h].ok)
  <2>2. e \in Event /\ e.host = h /\ e.ok = worker[h].ok
    BY <2>1 DEF Settled, Event
  <2>3. events' = Append(events, e) /\ worker[h].pc = "announce"
    BY <1>4 DEF Announce, At
  <2>4. worker'[h].pc = "idle"
    BY <1>4, <2>1 DEF Announce, Rest, Fresh
  <2>. HIDE DEF e
  <2>5. Resting(h)'
    BY <2>4 DEF Resting
  <2>. QED
    BY <2>2, <2>3, <2>5
<1>. QED
  BY <1>1, <1>2, <1>3, <1>4

\* The step moves a head that no list of writes has in view.
InHand(h) ==
    \/ rows'[<<h, 0>>] = rows[<<h, 0>>]
    \/ HeadIs(h, {"pending", "uploading", "completed"}) /\ Free(h)'

LEMMA FreeStays ==
  ASSUME rows \in Table, NEW h \in Hosts, MoveOf(h), InHand(h)
  PROVE  \A g \in Hosts : Free(g) => Free(g)'
  BY DEF MoveOf, InHand, Free, HeadIs

LEMMA TodoUnseen ==
  ASSUME rows \in Table, NEW h \in Hosts, MoveOf(h), InHand(h),
         NEW todo \in SUBSET Write, TodoFits(todo)
  PROVE  TodoFits(todo)'
<1>1. Lasting
  BY MoveLasts
<1>2. ASSUME NEW w \in todo, w.op # "reassign" PROVE SameHead(w.id.host)
  <2>1. w.id.host \in Hosts /\ w.op \in WriteOp /\ WriteFits(todo, w)
    BY DEF Write, RowId, TodoFits
  <2>2. HeadIs(w.id.host, {"absent", "blocked", "failed"})
    BY <1>2, <2>1 DEF WriteFits, HeadIs, WriteOp, Queues, RetryOps
  <2>3. rows'[<<w.id.host, 0>>] = rows[<<w.id.host, 0>>]
    BY <2>1, <2>2 DEF MoveOf, InHand, HeadIs
  <2>. QED
    BY <2>3 DEF SameHead
<1>3. ASSUME NEW w \in todo, w.op \in {"queueBlocked", "reassign"}
      PROVE  Free(w.on.host)' \/ \E v \in First(todo) : v.id.host = w.on.host
  <2>1. w.on.host \in Hosts /\ (Free(w.on.host) \/ \E v \in First(todo) : v.id.host = w.on.host)
    BY <1>3 DEF TodoFits, WriteFits
  <2>2. PICK b \in Hosts : b = w.on.host
    BY <2>1
  <2>3. Free(b) => Free(b)'
    BY FreeStays
  <2>. QED
    BY <2>1, <2>2, <2>3
<1>. QED
  BY <1>1, <1>2, <1>3, TodoStays

\* The signals after a step that at most adds one.
SignalsStep ==
    /\ SignalsFit(events)'
    /\ \A h \in Hosts : Silent(events, h, 1) => Silent(events, h, 1)'

LEMMA SignalsSame ==
  ASSUME events \in Seq(Event), Lasting, Rests, SignalsFit(events), UNCHANGED events
  PROVE  SignalsStep
<1>1. PICK q \in Seq(Event) : q = events
  OBVIOUS
<1>2. SignalsFit(q)'
  BY <1>1, SignalsStay
<1>3. \A h \in Hosts : Silent(q, h, 1) => Silent(q, h, 1)'
  BY SilentStays
<1>. QED
  BY <1>1, <1>2, <1>3 DEF SignalsStep, SignalsFit, Silent, Speaks

LEMMA SignalsAdded ==
  ASSUME events \in Seq(Event), Lasting, Rests, SignalsFit(events),
         NEW e \in Event, events' = Append(events, e),
         e.kind = "settled" => ~Resting(e.host),
         e.kind = "settled" /\ e.ok => HeadIs(e.host, {"completed"})' /\ Resting(e.host)'
  PROVE  SignalsStep
<1>1. PICK q \in Seq(Event) : q = events
  OBVIOUS
<1>2. /\ SignalsFit(Append(q, e))'
      /\ \A h \in Hosts : Silent(q, h, 1) => Silent(Append(q, e), h, 1)'
  BY <1>1, SignalsAppended
<1>3. PICK s : s = Append(q, e)
  OBVIOUS
<1>4. events' = s /\ SignalsFit(s)' /\ \A h \in Hosts : Silent(q, h, 1) => Silent(s, h, 1)'
  BY <1>1, <1>2, <1>3
<1>. QED
  BY <1>1, <1>4 DEF SignalsStep, SignalsFit, Silent, Speaks

\* The main thread and the pollers wait while a worker or a poller steps.
LEMMA OthersFit ==
  ASSUME CoordinatorTypeOK, rows \in Table, OrderInv, NEW h \in Hosts, MoveOf(h), InHand(h),
         SignalsStep, UNCHANGED <<main, pollers>>
  PROVE  MainFits' /\ PollersFit'
<1>1. /\ main \in MainState /\ main.todo \in SUBSET Write
      /\ \A p \in pollers : p \in Poller
  BY DEF CoordinatorTypeOK, MainState
<1>2. \A p \in pollers : p.primary.host \in Hosts /\ p.todo \in SUBSET Write
  BY <1>1 DEF Poller, RowId
<1>3. ASSUME NEW todo \in SUBSET Write, TodoFits(todo) PROVE TodoFits(todo)'
  BY <1>3, TodoUnseen
<1>4. TodoFits(main.todo)'
  <2>1. PICK todo \in SUBSET Write : todo = main.todo
    BY <1>1
  <2>2. TodoFits(todo)'
    BY <1>3, <2>1 DEF OrderInv, MainFits
  <2>. QED
    BY <2>1, <2>2
<1>5. main.pc = "react" /\ main.ev.ok => Silent(events, main.ev.host, 1)'
  <2>1. ASSUME main.pc = "react", main.ev.ok PROVE Silent(events, main.ev.host, 1)'
    <3>1. Silent(events, main.ev.host, 1)
      BY <2>1 DEF OrderInv, MainFits
    <3>2. main.ev.host \in Hosts
      BY <1>1, <2>1 DEF MainState, Event, NoEvent
    <3>3. PICK g \in Hosts : g = main.ev.host
      BY <3>2
    <3>4. Silent(events, g, 1)'
      BY <3>1, <3>3 DEF SignalsStep
    <3>. QED
      BY <3>3, <3>4
  <2>. QED
    BY <2>1
<1>6. MainFits'
  BY <1>4, <1>5 DEF OrderInv, MainFits
<1>7. ASSUME NEW p \in pollers PROVE TodoFits(p.todo)' /\ Silent(events, p.primary.host, 1)'
  <2>1. TodoFits(p.todo) /\ Silent(events, p.primary.host, 1)
    BY DEF OrderInv, PollersFit
  <2>. QED
    BY <1>2, <1>3, <2>1 DEF SignalsStep
<1>8. PollersFit'
  BY <1>7 DEF OrderInv, PollersFit
<1>. QED
  BY <1>6, <1>8

LEMMA WorkerOrder ==
  ASSUME Orderly, IInv, OrderInv, NEW h \in Hosts,
         WorkerStep(h) \/ WorkerDbFails(h) \/ SpinUp(h), UNCHANGED <<main, pollers>>
  PROVE  OrderInv' /\ MoveOf(h)
<1>1. /\ TableTypeOK /\ WorkerTypeOK /\ SendOK /\ rows \in Table /\ events \in Seq(Event)
      /\ CoordinatorTypeOK /\ WaitsOK(rows) /\ worker[h] \in WorkerState
  BY DEF IInv, CoordinatorOK, ThreadsOK, TableTypeOK, WorkerTypeOK
<1>2. \A g \in Hosts : HeadFits(g) /\ Chainless(g) /\ WorkerFits(g)
  BY DEF OrderInv
<1>3. WorkerMoved(h)
  BY <1>1, <1>2, WorkerMoves
<1>4. MoveOf(h) /\ InHand(h) /\ WorkerFits(h)' /\ (~HeadIs(h, {"blocked"})' \/ rows'[<<h, 0>>] = rows[<<h, 0>>])
  BY <1>3 DEF WorkerMoved, InHand, HeadIs, Free
<1>5. Lasting
  BY <1>1, <1>4, MoveLasts
<1>6. \A g \in Hosts \ {h} : worker'[g] = worker[g]
  <2>1. CASE WorkerStep(h) \/ WorkerDbFails(h)
    BY <1>1, <2>1, WorkerWorks DEF Works
  <2>2. CASE SpinUp(h)
    BY <1>1, <2>2 DEF SpinUp, Go, WorkerTypeOK
  <2>. QED
    BY <2>1, <2>2
<1>7. Rests
  BY <1>3, <1>6 DEF Rests, WorkerMoved, Resting
<1>8. \A g \in Hosts : HeadFits(g)'
  BY <1>1, <1>2, <1>4, MoveFits
<1>9. \A g \in Hosts : Chainless(g)'
  <2>1. \A g \in Hosts : HeadIs(g, {"blocked"}) => rows[<<g, 0>>].blockedBy.host \in Hosts
    BY <1>1 DEF WaitsOK, PointsBack, HeadIs, RowId
  <2>. QED
    BY <1>1, <1>2, <1>4, <2>1, MoveChainless
<1>10. ASSUME NEW g \in Hosts PROVE WorkerFits(g)'
  <2>1. CASE g = h
    BY <1>4, <2>1
  <2>2. CASE g # h
    <3>1. worker'[g] = worker[g] /\ rows'[<<g, 0>>] = rows[<<g, 0>>]
      BY <1>4, <1>6, <2>2 DEF MoveOf
    <3>2. SameHead(g) /\ (rows[<<g, 0>>].md5 => rows'[<<g, 0>>].md5) /\ Paused(worker[g], worker'[g])
      BY <3>1 DEF SameHead, Paused
    <3>. QED
      BY <1>2, <1>5, <3>2, StillFits
  <2>. QED
    BY <2>1, <2>2
<1>11. SignalsStep
  <2>1. SignalsFit(events)
    BY DEF OrderInv
  <2>2. CASE UNCHANGED events
    BY <1>1, <1>5, <1>7, <2>1, <2>2, SignalsSame
  <2>3. ASSUME NEW e \in Event, events' = Append(events, e),
               e.kind = "settled" =>
                    /\ e.host = h /\ e.ok = worker[h].ok
                    /\ worker[h].pc = "announce" /\ Resting(h)'
        PROVE  SignalsStep
    <3>1. e.kind = "settled" => ~Resting(e.host)
      BY <2>3 DEF Resting
    <3>2. e.kind = "settled" /\ e.ok => HeadIs(e.host, {"completed"})' /\ Resting(e.host)'
      BY <1>2, <1>5, <2>3 DEF WorkerFits, Lasting, Resting, HeadIs
    <3>. QED
      BY <1>1, <1>5, <1>7, <2>1, <2>3, <3>1, <3>2, SignalsAdded
  <2>. QED
    BY <1>1, <2>2, <2>3, WorkerSignals
<1>12. MainFits' /\ PollersFit'
  BY <1>1, <1>4, <1>11, OthersFit
<1>. QED
  BY <1>4, <1>8, <1>9, <1>10, <1>11, <1>12 DEF OrderInv, SignalsStep

-----------------------------------------------------------------------------
(* Steps that leave the table alone *)

LEMMA TableKept ==
  ASSUME rows \in Table, UNCHANGED rows
  PROVE  /\ Lasting
         /\ \A h \in Hosts : SameHead(h) /\ (Free(h)' <=> Free(h))
         /\ \A h \in Hosts : HeadFits(h) => HeadFits(h)'
         /\ \A h \in Hosts : Chainless(h) => Chainless(h)'
         /\ \A todo : TodoFits(todo) => TodoFits(todo)'
<1>1. \A h, S : HeadIs(h, S)' <=> HeadIs(h, S)
  BY DEF HeadIs
<1>2. \A h : (Known(h)' <=> Known(h)) /\ (Free(h)' <=> Free(h)) /\ HeadId(h)' = HeadId(h)
  BY DEF Known, HeadIs, Free, HeadId
<1>3. Lasting /\ \A h \in Hosts : SameHead(h)
  BY <1>1, <1>2 DEF Lasting, SameHead
<1>4. \A h \in Hosts : HeadFits(h) => HeadFits(h)'
  BY <1>1, <1>2 DEF HeadFits
<1>5. \A h \in Hosts : Chainless(h) => Chainless(h)'
  BY <1>1, <1>2 DEF Chainless
<1>6. ASSUME NEW todo, TodoFits(todo) PROVE TodoFits(todo)'
  <2>1. ASSUME NEW w \in todo PROVE WriteFits(todo, w)'
    <3>1. WriteFits(todo, w)
      BY <1>6 DEF TodoFits
    <3>. QED
      BY <1>1, <1>2, <3>1 DEF WriteFits
  <2>. QED
    BY <1>6, <2>1 DEF TodoFits
<1>. QED
  BY <1>2, <1>3, <1>4, <1>5, <1>6

\* Everybody but the main thread and the pollers, when no row is written.
LEMMA QuietFits ==
  ASSUME rows \in Table, events \in Seq(Event), OrderInv, UNCHANGED rows,
         \A h \in Hosts : Paused(worker[h], worker'[h])
  PROVE  /\ Lasting /\ Rests
         /\ \A h \in Hosts : HeadFits(h)' /\ Chainless(h)' /\ WorkerFits(h)'
         /\ UNCHANGED events => SignalsStep
<1>1. /\ Lasting
      /\ \A h \in Hosts : SameHead(h)
      /\ \A h \in Hosts : HeadFits(h) => HeadFits(h)'
      /\ \A h \in Hosts : Chainless(h) => Chainless(h)'
  BY TableKept
<1>2. Rests
  BY DEF Rests, Resting, Paused
<1>3. ASSUME NEW h \in Hosts PROVE WorkerFits(h)'
  BY <1>1, StillFits DEF OrderInv
<1>4. UNCHANGED events => SignalsStep
  BY <1>1, <1>2, SignalsSame DEF OrderInv
<1>. QED
  BY <1>1, <1>2, <1>3, <1>4 DEF OrderInv

LEMMA ThreadsOrder ==
  ASSUME CoordinatorTypeOK, rows \in Table, events \in Seq(Event), OrderInv, UNCHANGED rows,
         \A h \in Hosts : Paused(worker[h], worker'[h]),
         \/ UNCHANGED <<main, events>> /\ pollers' \subseteq pollers
         \/ UNCHANGED <<main, pollers>> /\ events # <<>> /\ events' = Tail(events)
         \/ main' = MainIdle /\ events' = <<>> /\ pollers' = {}
  PROVE  OrderInv'
<1>1. /\ Lasting /\ Rests
      /\ \A h \in Hosts : HeadFits(h)' /\ Chainless(h)' /\ WorkerFits(h)'
      /\ UNCHANGED events => SignalsStep
  BY QuietFits
<1>2. CASE main' = MainIdle /\ events' = <<>> /\ pollers' = {}
  <2>1. main'.pc = "idle" /\ main'.todo = {}
    BY <1>2 DEF MainIdle
  <2>2. MainFits'
    BY <2>1, NothingTodo DEF MainFits, TodoFits
  <2>. QED
    BY <1>1, <1>2, <2>2 DEF OrderInv, PollersFit, SignalsFit
<1>3. CASE \/ UNCHANGED <<main, events>> /\ pollers' \subseteq pollers
           \/ UNCHANGED <<main, pollers>> /\ events # <<>> /\ events' = Tail(events)
  <2>1. SignalsStep
    <3>1. CASE UNCHANGED events
      BY <1>1, <3>1
    <3>2. CASE events # <<>> /\ events' = Tail(events)
      <4>1. PICK q \in Seq(Event) : q = events
        OBVIOUS
      <4>2. PICK s : s = Tail(q)
        OBVIOUS
      <4>3. /\ s \in Seq(Event) /\ SignalsFit(s)
            /\ \A h : Speaks(s, h, 1) => Speaks(q, h, 1)
        BY <3>2, <4>1, <4>2, SignalsTaken DEF OrderInv
      <4>4. SignalsFit(s)'
        BY <1>1, <4>3, SignalsStay
      <4>5. ASSUME NEW h \in Hosts, Silent(q, h, 1) PROVE Silent(s, h, 1)'
        <5>1. Silent(s, h, 1)
          BY <4>3, <4>5 DEF Silent
        <5>. QED
          BY <1>1, <5>1, SilentStays
      <4>. QED
        BY <3>2, <4>1, <4>2, <4>4, <4>5 DEF SignalsStep, SignalsFit, Silent, Speaks
    <3>. QED
      BY <1>3, <3>1, <3>2
  <2>2. /\ main \in MainState /\ \A p \in pollers : p \in Poller /\ p.primary.host \in Hosts
    BY DEF CoordinatorTypeOK, Poller, RowId
  <2>3. \A todo : TodoFits(todo) => TodoFits(todo)'
    BY TableKept
  <2>4. MainFits'
    <3>1. TodoFits(main.todo)'
      BY <1>3, <2>3 DEF OrderInv, MainFits, TodoFits
    <3>2. ASSUME main.pc = "react", main.ev.ok PROVE Silent(events, main.ev.host, 1)'
      <4>1. Silent(events, main.ev.host, 1)
        BY <3>2 DEF OrderInv, MainFits
      <4>2. main.ev.host \in Hosts
        BY <2>2, <3>2 DEF MainState, Event, NoEvent
      <4>3. PICK g \in Hosts : g = main.ev.host
        BY <4>2
      <4>4. Silent(events, g, 1)'
        BY <2>1, <4>1, <4>3 DEF SignalsStep
      <4>. QED
        BY <1>3, <4>3, <4>4
    <3>. QED
      BY <1>3, <3>1, <3>2 DEF OrderInv, MainFits
  <2>5. PollersFit'
    <3>1. ASSUME NEW p \in pollers PROVE TodoFits(p.todo)' /\ Silent(events, p.primary.host, 1)'
      BY <2>1, <2>2, <2>3 DEF OrderInv, PollersFit, SignalsStep
    <3>. QED
      BY <1>3, <3>1 DEF OrderInv, PollersFit
  <2>. QED
    BY <1>1, <2>1, <2>4, <2>5 DEF OrderInv, SignalsStep
<1>. QED
  BY <1>2, <1>3

-----------------------------------------------------------------------------
(* Decisions of the main thread *)

\* A step of the main thread that only reads, and what it has to show of what
\* it will write.
LEMMA DecisionOrder ==
  ASSUME rows \in Table, events \in Seq(Event), OrderInv,
         UNCHANGED <<rows, events, worker>>,
         NEW todo, main'.todo = todo, TodoFits(todo),
         main'.pc \notin {"write", "finish"} => todo = {}, main'.pc # "react",
         pollers' = pollers,
         pollers # {} => /\ main'.pc # "unblock"
                         /\ \A w \in todo : w.op \notin {"unblock", "promote"}
  PROVE  OrderInv'
<1>1. \A h \in Hosts : Paused(worker[h], worker'[h])
  BY DEF Paused
<1>2. /\ \A h \in Hosts : HeadFits(h)' /\ Chainless(h)' /\ WorkerFits(h)'
      /\ SignalsStep
  BY <1>1, QuietFits
<1>3. TodoFits(main.todo)' /\ \A p \in pollers : TodoFits(p.todo)'
  <2>1. TodoFits(todo)' /\ \A p \in pollers : TodoFits(p.todo)'
    BY TableKept DEF OrderInv, PollersFit
  <2>. QED
    BY <2>1 DEF TodoFits
<1>4. MainFits'
  BY <1>3 DEF MainFits
<1>5. ASSUME NEW p \in pollers PROVE Silent(events, p.primary.host, 1)'
  BY DEF OrderInv, PollersFit, Silent, Speaks, HeadIs, Resting
<1>6. PollersFit'
  BY <1>3, <1>5 DEF OrderInv, PollersFit
<1>. QED
  BY <1>2, <1>4, <1>6 DEF OrderInv, SignalsStep

\* Nobody waits once two members have the gallery: there are no more of them.
LEMMA NoThird ==
  ASSUME NumHosts <= 2
  PROVE  \A a, b, h \in Hosts : a # b => h \in {a, b}
  BY SizeAssumption DEF Hosts

LEMMA TakeEventOrder ==
  ASSUME CoordinatorTypeOK, rows \in Table, events \in Seq(Event), OrderInv,
         TakeEvent, UNCHANGED worker
  PROVE  OrderInv'
<1>1. /\ main.pc = "idle" /\ events # <<>> /\ events' = Tail(events) /\ events[1].kind = "settled"
      /\ UNCHANGED <<rows, pollers>>
  BY DEF TakeEvent
<1>2. /\ \A h \in Hosts : Paused(worker[h], worker'[h])
      /\ main \in MainState
  BY DEF Paused, CoordinatorTypeOK
<1>3. CASE main' = main
  BY <1>1, <1>2, <1>3, ThreadsOrder
<1>4. CASE main' = [main EXCEPT !.pc = "react", !.ev = events[1]]
  <2>1. /\ Lasting /\ Rests
        /\ \A h \in Hosts : HeadFits(h)' /\ Chainless(h)' /\ WorkerFits(h)'
    BY <1>1, <1>2, QuietFits
  <2>2. main'.pc = "react" /\ main'.ev = events[1] /\ main'.todo = main.todo /\ main.todo = {}
    BY <1>1, <1>2, <1>4 DEF OrderInv, MainFits, MainState
  <2>3. PICK q \in Seq(Event) : q = events
    OBVIOUS
  <2>4. PICK s : s = Tail(q)
    OBVIOUS
  <2>5. /\ s \in Seq(Event) /\ SignalsFit(s)
        /\ q[1].kind = "settled" /\ q[1].ok => Silent(s, q[1].host, 1)
        /\ \A h : Speaks(s, h, 1) => Speaks(q, h, 1)
    BY <1>1, <2>3, <2>4, SignalsTaken DEF OrderInv
  <2>6. SignalsFit(s)'
    BY <2>1, <2>5, SignalsStay
  <2>7. 1 \in DOMAIN q /\ q[1].host \in Hosts /\ q[1] \in Event
    <3>1. 1 \in DOMAIN q
      BY <1>1, <2>3, EmptySeq
    <3>. QED
      BY <3>1, SpeakerIn
  <2>8. q[1].ok => Silent(s, q[1].host, 1)'
    BY <1>1, <2>1, <2>3, <2>5, <2>7, SilentStays
  <2>9. SignalsFit(events)' /\ (main'.ev.ok => Silent(events, main.ev.host, 1)')
    BY <1>1, <2>2, <2>3, <2>4, <2>6, <2>8 DEF SignalsFit, Silent, Speaks
  <2>10. MainFits'
    <3>1. TodoFits(main.todo)'
      BY <2>2, NothingTodo DEF TodoFits
    <3>. QED
      BY <2>2, <2>3, <2>7, <2>9, <3>1 DEF MainFits
  <2>11. ASSUME NEW p \in pollers
         PROVE  /\ TodoFits(p.todo)' /\ Silent(events, p.primary.host, 1)'
                /\ main'.ev.host # p.primary.host
    <3>1. /\ TodoFits(p.todo) /\ Silent(q, p.primary.host, 1) /\ p.primary.host \in Hosts
      BY <2>3 DEF OrderInv, PollersFit, CoordinatorTypeOK, Poller, RowId
    <3>2. TodoFits(p.todo)'
      BY <1>1, <3>1, TableKept
    <3>3. Silent(s, p.primary.host, 1)
      BY <2>5, <3>1 DEF Silent
    <3>4. PICK g \in Hosts : g = p.primary.host
      BY <3>1
    <3>5. Silent(s, g, 1)'
      BY <2>1, <3>3, <3>4, SilentStays
    <3>6. q[1].host # g
      BY <1>1, <2>3, <2>7, <3>1, <3>4 DEF Silent, Speaks
    <3>. QED
      BY <1>1, <2>2, <2>3, <2>4, <3>2, <3>4, <3>5, <3>6 DEF Silent, Speaks
  <2>12. PollersFit'
    BY <1>1, <2>2, <2>11 DEF OrderInv, PollersFit
  <2>. QED
    BY <2>1, <2>9, <2>10, <2>12 DEF OrderInv
<1>. QED
  BY <1>3, <1>4 DEF TakeEvent

LEMMA WentTo ==
  ASSUME CoordinatorTypeOK, NEW pc, NEW todo, MainGo(pc, todo)
  PROVE  main'.pc = pc /\ main'.todo = todo
  BY DEF CoordinatorTypeOK, MainState, MainGo

LEMMA UnblocksFit == ASSUME TableTypeOK, NEW id PROVE TodoFits(Unblocks(id))
<1>. DEFINE todo == Unblocks(id)
<1>1. ASSUME NEW w \in todo
      PROVE  /\ w.op = "unblock" /\ w.on = NoId /\ w.id.host \in Hosts
             /\ w.id = HeadId(w.id.host) /\ HeadIs(w.id.host, {"blocked"})
  <2>1. PICK h \in WaitersOn(id) : w = W("unblock", HeadId(h), NoId)
    BY DEF Unblocks
  <2>2. h \in Hosts /\ HeadId(h) \in RowId /\ HeadId(h).host = h
    BY HeadSets, HeadIdType
  <2>3. HeadIs(h, {"blocked"})
    BY <2>1 DEF WaitersOn, BlockedHeads, HeadRow, HeadIs
  <2>4. w.op = "unblock" /\ w.id = HeadId(h) /\ w.on = NoId
    BY <2>1 DEF W
  <2>. QED
    BY <2>2, <2>3, <2>4
<1>2. todo \in SUBSET Write
  BY UnblocksType
<1>. HIDE DEF todo
<1>3. ASSUME NEW w \in todo PROVE WriteFits(todo, w)
  BY <1>1 DEF WriteFits, Queues, RetryOps
<1>4. ASSUME NEW v \in todo, NEW w \in todo, v.id.host = w.id.host PROVE v = w
  <2>1. v.op = w.op /\ v.id = w.id /\ v.on = w.on
    BY <1>1, <1>4
  <2>. QED
    BY <1>2, <2>1 DEF Write
<1>. QED
  BY <1>1, <1>3, <1>4 DEF TodoFits, todo

LEMMA PromotionFits ==
  ASSUME TableTypeOK, NEW h \in Hosts, BlockedHeads \ {h} # {}
  PROVE  TodoFits(Promotion(h))
<1>. DEFINE next == Primary(BlockedHeads \ {h})
            todo == Promotion(h)
            first == W("promote", HeadId(next), NoId)
<1>1. next \in BlockedHeads \ {h} /\ next \in Hosts /\ HeadIs(next, {"blocked"})
  <2>1. BlockedHeads \ {h} \in SUBSET Hosts
    BY HeadSets
  <2>2. next \in BlockedHeads \ {h}
    BY <2>1, PrimaryIn
  <2>. QED
    BY <2>1, <2>2 DEF BlockedHeads, HeadRow, HeadIs
<1>2. todo = {first} \union {W("reassign", HeadId(g), HeadId(next)) : g \in WaitersOn(HeadId(h)) \ {next}}
  BY DEF Promotion, Reassignments
<1>3. first.op = "promote" /\ first.id = HeadId(next) /\ first.id.host = next
  BY <1>1, HeadIdType DEF W
<1>4. HeadId(next).host = next
  BY <1>1, HeadIdType
<1>5. ASSUME NEW w \in todo
      PROVE  w = first \/ (w.op = "reassign" /\ w.on.host = next)
  <2>1. CASE w = first
    BY <2>1
  <2>2. CASE \E g : w = W("reassign", HeadId(g), HeadId(next))
    BY <1>4, <2>2 DEF W
  <2>. QED
    BY <1>2, <2>1, <2>2
<1>6. first \in todo
  BY <1>2
<1>. HIDE DEF todo, first, next
<1>7. first \in First(todo)
  BY <1>3, <1>6 DEF First
<1>8. ASSUME NEW w \in todo PROVE WriteFits(todo, w)
  <2>1. CASE w = first
    BY <1>1, <1>3, <2>1 DEF WriteFits, Queues, RetryOps
  <2>2. CASE w.op = "reassign" /\ w.on.host = next
    BY <1>1, <1>3, <1>7, <2>2 DEF WriteFits, Queues, RetryOps
  <2>. QED
    BY <1>5, <2>1, <2>2
<1>9. \A v, w \in todo : v.op # "reassign" /\ w.op # "reassign" => v = w
  BY <1>5
<1>10. \A w \in todo : w.op \in {"unblock", "promote", "reassign"}
  BY <1>3, <1>5
<1>11. TodoFits(todo)
  BY <1>8, <1>9, <1>10 DEF TodoFits
<1>. QED
  BY <1>11 DEF todo

LEMMA RetriesFit ==
  ASSUME Orderly, TableTypeOK, \A h \in Hosts : HeadFits(h),
         NEW win \in Hosts, HeadIs(win, {"completed"})
  PROVE  /\ TodoFits({RetryOf(g, win) : g \in Losers})
         /\ \A w \in {RetryOf(g, win) : g \in Losers} : w.op \in RetryOps
<1>. DEFINE todo == {RetryOf(g, win) : g \in Losers}
<1>1. HeadId(win) \in RowId /\ HeadId(win).host = win
  BY HeadIdType
<1>2. HeadRow(win).md5 \/ NumHosts <= 2
  BY DEF Orderly, HeadFits, Known, HeadRow
<1>3. ASSUME NEW w \in todo
      PROVE  /\ w.op \in RetryOps /\ w.id.host \in Hosts \ {win} /\ w = RetryOf(w.id.host, win)
             /\ HeadIs(w.id.host, {"failed"}) /\ ~rows[<<w.id.host, 0>>].dedupOnly
             /\ w.op = "retryWait" => w.on.host = win /\ NumHosts <= 2
  <2>1. PICK g \in Losers : w = RetryOf(g, win)
    OBVIOUS
  <2>2. g \in Hosts /\ HeadIs(g, {"failed"}) /\ ~rows[<<g, 0>>].dedupOnly
    BY HeadSets DEF Losers, HeadRow, HeadIs
  <2>3. g # win /\ HeadId(g).host = g
    BY <2>2, HeadIdType DEF HeadIs
  <2>4. w.id = HeadId(g) /\ w.op \in RetryOps /\ (w.op = "retryWait" => w.on = HeadId(win) /\ NumHosts <= 2)
    BY <1>2, <2>1 DEF RetryOf, W, RetryOps
  <2>. QED
    BY <1>1, <2>1, <2>2, <2>3, <2>4
<1>. HIDE DEF todo
<1>4. ASSUME NEW w \in todo PROVE WriteFits(todo, w)
  <2>1. w.op \in {"retryNow", "retryWait"}
    BY <1>3 DEF RetryOps
  <2>. QED
    BY <1>3, <2>1 DEF WriteFits, Queues, RetryOps
<1>5. ASSUME NEW v \in todo, NEW w \in todo, v.id.host = w.id.host PROVE v = w
  BY <1>3, <1>5
<1>. QED
  BY <1>3, <1>4, <1>5 DEF TodoFits, todo

LEMMA QueuesFit ==
  ASSUME TableTypeOK, NEW S \in SUBSET Hosts, \A h \in S : HeadIs(h, {"absent"})
  PROVE  /\ TodoFits(QueuePlain(S)) /\ \A w \in QueuePlain(S) : w.op \in Queues
         /\ S # {} => TodoFits(QueueFamily(S)) /\ \A w \in QueueFamily(S) : w.op \in Queues
<1>1. ASSUME NEW todo, \A w \in todo : w.op \in Queues /\ w.id.host \in S,
             \A v, w \in todo : v.id.host = w.id.host => v = w,
             \A w \in todo : w.op = "queueBlocked" =>
                w.on.host \in Hosts /\ \E v \in First(todo) : v.id.host = w.on.host
      PROVE  TodoFits(todo)
  <2>1. ASSUME NEW w \in todo PROVE WriteFits(todo, w)
    <3>1. w.op \in {"queuePending", "queueBlocked"} /\ HeadIs(w.id.host, {"absent"})
      BY <1>1 DEF Queues
    <3>. QED
      BY <1>1, <3>1 DEF WriteFits, RetryOps
  <2>. QED
    BY <1>1, <2>1 DEF TodoFits
<1>2. ASSUME NEW w \in QueuePlain(S)
      PROVE  \E h \in S : w = W("queuePending", HeadId(h), NoId) /\ w.op = "queuePending" /\ w.id.host = h
  <2>1. PICK h \in S : w = W("queuePending", HeadId(h), NoId)
    BY DEF QueuePlain
  <2>2. w.op = "queuePending" /\ w.id.host = h
    BY <2>1, HeadIdType DEF W
  <2>. QED
    BY <2>1, <2>2
<1>3. TodoFits(QueuePlain(S)) /\ \A w \in QueuePlain(S) : w.op \in Queues
  <2>1. PICK todo : todo = QueuePlain(S)
    OBVIOUS
  <2>2. \A w \in todo : w.op \in Queues /\ w.id.host \in S /\ w.op = "queuePending"
    BY <1>2, <2>1 DEF Queues
  <2>3. \A v, w \in todo : v.id.host = w.id.host => v = w
    BY <1>2, <2>1
  <2>4. TodoFits(todo)
    BY <1>1, <2>2, <2>3
  <2>. QED
    BY <2>1, <2>2, <2>4
<1>4. ASSUME S # {} PROVE TodoFits(QueueFamily(S)) /\ \A w \in QueueFamily(S) : w.op \in Queues
  <2>1. PICK first \in S : first = Primary(S)
    BY <1>4, PrimaryIn
  <2>2. PICK next : next = NextId(rows, first, 0)
    OBVIOUS
  <2>3. next.host = first
    BY <2>2 DEF NextId, IdAt
  <2>4. PICK todo : todo = QueueFamily(S)
    OBVIOUS
  <2>5. PICK head : head = W("queuePending", HeadId(first), NoId)
    OBVIOUS
  <2>6. todo = {head} \union {W("queueBlocked", HeadId(h), next) : h \in S \ {first}}
    BY <2>1, <2>2, <2>4, <2>5 DEF QueueFamily, QueuePlain
  <2>7. head.op = "queuePending" /\ head.id.host = first
    BY <2>5, HeadIdType DEF W
  <2>8. ASSUME NEW w \in todo
        PROVE  \/ w = head
               \/ \E h \in S \ {first} : /\ w = W("queueBlocked", HeadId(h), next)
                                         /\ w.op = "queueBlocked" /\ w.id.host = h /\ w.on = next
    <3>1. CASE \E h \in S \ {first} : w = W("queueBlocked", HeadId(h), next)
      <4>1. PICK h \in S \ {first} : w = W("queueBlocked", HeadId(h), next)
        BY <3>1
      <4>2. w.op = "queueBlocked" /\ w.id.host = h /\ w.on = next
        BY <4>1, HeadIdType DEF W
      <4>. QED
        BY <4>1, <4>2
    <3>. QED
      BY <2>6, <3>1
  <2>9. \A w \in todo : w.op \in Queues /\ w.id.host \in S
    BY <2>7, <2>8 DEF Queues
  <2>10. \A v, w \in todo : v.id.host = w.id.host => v = w
    BY <2>7, <2>8
  <2>11. head \in First(todo)
    BY <2>6, <2>7 DEF First
  <2>12. \A w \in todo : w.op = "queueBlocked" =>
           w.on.host \in Hosts /\ \E v \in First(todo) : v.id.host = w.on.host
    BY <2>3, <2>7, <2>8, <2>11
  <2>13. TodoFits(todo)
    BY <1>1, <2>9, <2>10, <2>12
  <2>. QED
    BY <2>4, <2>9, <2>13
<1>. QED
  BY <1>3, <1>4

LEMMA MainDecides ==
  ASSUME Orderly, IInv, OrderInv, UNCHANGED worker,
         HandleSuccess \/ MainUnblock \/ HandleFailure \/ RetryScan \/ WritesDone
  PROVE  OrderInv'
<1>1. /\ TableTypeOK /\ CoordinatorTypeOK /\ rows \in Table /\ events \in Seq(Event)
      /\ main \in MainState
  BY DEF IInv, CoordinatorOK, TableTypeOK, CoordinatorTypeOK
<1>2. UNCHANGED <<rows, events>>
  BY DEF HandleSuccess, MainUnblock, HandleFailure, RetryScan, WritesDone, tableVars
<1>3. /\ main.pc \notin {"write", "finish"} => main.todo = {}
      /\ main.pc = "react" /\ main.ev.ok => Silent(events, main.ev.host, 1)
      /\ \A h \in Hosts : HeadFits(h)
  BY DEF OrderInv, MainFits
<1>4. \A p \in pollers : /\ NumHosts <= 2 /\ main.pc # "unblock"
                         /\ p.primary.host \in Hosts /\ HeadIs(p.primary.host, {"completed"})
                         /\ main.pc = "react" => main.ev.host # p.primary.host
  BY <1>1 DEF OrderInv, PollersFit, Silent, CoordinatorTypeOK, Poller, RowId
<1>5. main.pc = "react" => main.ev.host \in Hosts
  BY DEF OrderInv, MainFits
<1>6. ASSUME NEW pc, pc \in {"idle", "scan"}, main'.pc = pc, main'.todo = {}, pollers' = pollers
      PROVE  OrderInv'
  BY <1>1, <1>2, <1>6, NothingTodo, DecisionOrder
<1>. DEFINE h == main.ev.host
\* With a poller about, nobody is left to wait for the host that speaks.
<1>7. ASSUME main.pc = "react", pollers # {} PROVE BlockedHeads \ {h} = {}
  <2>1. PICK p \in pollers : TRUE
    BY <1>7
  <2>2. ASSUME NEW g \in BlockedHeads \ {h} PROVE FALSE
    <3>1. g \in Hosts /\ HeadIs(g, {"blocked"})
      BY HeadSets DEF BlockedHeads, HeadRow, HeadIs
    <3>2. g # p.primary.host
      BY <1>4, <3>1 DEF HeadIs
    <3>. QED
      BY <1>4, <1>5, <1>7, <3>1, <3>2, NoThird
  <2>. QED
    BY <2>2
<1>8. ASSUME NEW id PROVE TodoFits(Unblocks(id))
  BY <1>1, UnblocksFit
<1>9. CASE WritesDone
  <2>1. CASE main.pc = "write" /\ MainGo("scan", {})
    <3>1. main'.pc = "scan" /\ main'.todo = {}
      BY <1>1, <2>1, WentTo
    <3>. QED
      BY <1>6, <1>9, <3>1 DEF WritesDone
  <2>2. CASE main' = MainIdle
    BY <1>6, <1>9, <2>2 DEF WritesDone, MainIdle
  <2>. QED
    BY <1>9, <2>1, <2>2 DEF WritesDone
<1>10. CASE MainUnblock
  <2>1. PICK todo : todo = Unblocks(main.primary)
    OBVIOUS
  <2>2. MainGo("write", todo) /\ pollers' = pollers /\ pollers = {}
    BY <1>4, <1>10, <2>1 DEF MainUnblock
  <2>3. main'.pc = "write" /\ main'.todo = todo /\ TodoFits(todo)
    BY <1>1, <1>8, <2>1, <2>2, WentTo
  <2>. QED
    BY <1>1, <1>2, <2>2, <2>3, DecisionOrder
<1>11. CASE HandleFailure
  <2>1. main.pc = "react" /\ pollers' = pollers /\ h \in Hosts
    BY <1>5, <1>11 DEF HandleFailure
  <2>2. CASE NotPromoting(h)
    <3>1. MainGo("scan", {})
      BY <1>11, <2>2 DEF HandleFailure
    <3>2. main'.pc = "scan" /\ main'.todo = {}
      BY <1>1, <3>1, WentTo
    <3>. QED
      BY <1>6, <2>1, <3>2
  <2>3. CASE ~NotPromoting(h)
    <3>1. PICK todo : todo = Promotion(h)
      OBVIOUS
    <3>2. MainGo("write", todo) /\ BlockedHeads \ {h} # {}
      BY <1>11, <2>3, <3>1 DEF HandleFailure, NotPromoting
    <3>3. main'.pc = "write" /\ main'.todo = todo /\ TodoFits(todo) /\ pollers = {}
      BY <1>1, <1>7, <2>1, <3>1, <3>2, WentTo, PromotionFits
    <3>. QED
      BY <1>1, <1>2, <2>1, <3>3, DecisionOrder
  <2>. QED
    BY <2>2, <2>3
<1>12. CASE RetryScan
  <2>1. CASE MainGo("finish", {})
    <3>1. main'.pc = "finish" /\ main'.todo = {} /\ pollers' = pollers
      BY <1>1, <1>12, <2>1, WentTo DEF RetryScan
    <3>. QED
      BY <1>1, <1>2, <3>1, NothingTodo, DecisionOrder
  <2>2. ASSUME NEW win \in {g \in Heads : HeadRow(g).status = "completed"},
               MainGo("finish", {RetryOf(g, win) : g \in Losers})
        PROVE  OrderInv'
    <3>1. win \in Hosts /\ HeadIs(win, {"completed"}) /\ pollers' = pollers
      BY <1>12, HeadSets DEF RetryScan, HeadRow, HeadIs
    <3>2. PICK todo : todo = {RetryOf(g, win) : g \in Losers}
      OBVIOUS
    <3>3. TodoFits(todo) /\ \A w \in todo : w.op \in RetryOps
      BY <1>1, <1>3, <3>1, <3>2, RetriesFit
    <3>4. main'.pc = "finish" /\ main'.todo = todo
      BY <1>1, <2>2, <3>2, WentTo
    <3>5. \A w \in todo : w.op \notin {"unblock", "promote"}
      BY <3>3 DEF RetryOps
    <3>. QED
      BY <1>1, <1>2, <3>1, <3>3, <3>4, <3>5, DecisionOrder
  <2>. QED
    BY <1>12, <2>1, <2>2 DEF RetryScan
<1>13. CASE HandleSuccess
  <2>1. main.pc = "react" /\ main.ev.ok /\ h \in Hosts /\ Silent(events, h, 1)
        /\ HeadIs(h, {"completed"}) /\ main.todo = {}
    BY <1>3, <1>5, <1>13 DEF HandleSuccess, Silent
  <2>2. CASE MainGo("scan", {}) /\ UNCHANGED pollers
    <3>1. main'.pc = "scan" /\ main'.todo = {}
      BY <1>1, <2>2, WentTo
    <3>. QED
      BY <1>6, <2>2, <3>1
  <2>3. ASSUME WaitersOn(HeadId(h)) # {} PROVE pollers = {}
    <3>1. PICK g \in WaitersOn(HeadId(h)) : TRUE
      BY <2>3
    <3>2. g \in BlockedHeads /\ g # h
      BY <2>1 DEF WaitersOn, BlockedHeads, HeadRow, HeadIs
    <3>. QED
      BY <1>7, <2>1, <3>2
  <2>4. CASE /\ WaitersOn(HeadId(h)) # {}
             /\ main' = [main EXCEPT !.pc = "unblock", !.primary = HeadId(h)]
             /\ UNCHANGED pollers
    <3>1. main'.pc = "unblock" /\ main'.todo = {}
      BY <1>1, <2>1, <2>4 DEF MainState
    <3>. QED
      BY <1>1, <1>2, <2>3, <2>4, <3>1, NothingTodo, DecisionOrder
  <2>5. CASE /\ WaitersOn(HeadId(h)) # {} /\ ~HeadRow(h).md5
             /\ MainGo("scan", {})
             /\ pollers' = Displaced(HeadId(h)) \union {NewPoller(HeadId(h))}
    <3>1. pollers = {} /\ Displaced(HeadId(h)) = {}
      BY <2>3, <2>5 DEF Displaced
    <3>2. PICK p : p = NewPoller(HeadId(h))
      OBVIOUS
    <3>3. pollers' = {p}
      BY <2>5, <3>1, <3>2
    <3>4. p.primary.host = h /\ p.todo = {}
      <4>. DEFINE n == CHOOSE n \in 0 .. Cardinality(pollers) : \A q \in pollers : q.n # n
      <4>1. p = [n |-> n, primary |-> HeadId(h), pc |-> "timer", registered |-> TRUE, todo |-> {}]
        BY <3>2 DEF NewPoller
      <4>2. HeadId(h).host = h
        BY <1>1, <2>1, HeadIdType
      <4>. HIDE DEF n
      <4>. QED
        BY <4>1, <4>2
    <3>5. NumHosts <= 2
      BY <1>3, <2>1, <2>5 DEF Orderly, HeadFits, Known, HeadRow
    <3>6. main'.pc = "scan" /\ main'.todo = {}
      BY <1>1, <2>5, WentTo
    <3>7. /\ \A g \in Hosts : HeadFits(g)' /\ Chainless(g)' /\ WorkerFits(g)'
          /\ SignalsStep
      <4>1. \A g \in Hosts : Paused(worker[g], worker'[g])
        BY DEF Paused
      <4>. QED
        BY <1>1, <1>2, <4>1, QuietFits
    <3>8. MainFits'
      <4>1. TodoFits(main.todo)'
        BY <3>6, NothingTodo DEF TodoFits
      <4>. QED
        BY <3>6, <4>1 DEF MainFits
    <3>9. TodoFits(p.todo)' /\ Silent(events, p.primary.host, 1)'
      <4>1. PICK g \in Hosts : g = h
        BY <2>1
      <4>2. Silent(events, g, 1)'
        BY <2>1, <3>7, <4>1 DEF SignalsStep
      <4>3. TodoFits(p.todo)'
        BY <3>4, NothingTodo DEF TodoFits
      <4>. QED
        BY <3>4, <4>1, <4>2, <4>3 DEF Silent, Speaks
    <3>10. PollersFit'
      BY <3>3, <3>5, <3>6, <3>9 DEF PollersFit
    <3>. QED
      BY <3>7, <3>8, <3>10 DEF OrderInv, SignalsStep
  <2>. QED
    BY <1>13, <2>2, <2>4, <2>5 DEF HandleSuccess
<1>. QED
  BY <1>9, <1>10, <1>11, <1>12, <1>13

-----------------------------------------------------------------------------
(* A write of a handler or a poller *)

\* What one write does to the head it names.
LEMMA ApplyMoves ==
  ASSUME NumParts = 1, TableTypeOK, NEW todo, NEW w \in Write, WriteFits(todo, w),
         NEW h \in Hosts, h = w.id.host, rows' = Apply(rows, w)
  PROVE  /\ MoveOf(h)
         /\ w.op = "reassign" => SameHead(h) /\ rows'[<<h, 0>>].md5 = rows[<<h, 0>>].md5
         /\ w.op # "reassign" =>
               HeadIs(h, {"absent", "blocked", "failed"}) /\ ~HeadIs(h, {"absent"})'
         /\ w.op \in {"queuePending", "unblock", "promote"} => HeadIs(h, {"pending"})'
         /\ HeadIs(h, {"blocked"})' =>
               \/ HeadIs(h, {"blocked"}) /\ rows'[<<h, 0>>].blockedBy = rows[<<h, 0>>].blockedBy
               \/ w.op \in Blocking /\ rows'[<<h, 0>>].blockedBy = w.on
         /\ w.op # "retryWait" => (Free(h) => Free(h)')
<1>. DEFINE r == rows[<<h, 0>>]
            s == rows'[<<h, 0>>]
<1>1. /\ rows \in Table /\ r \in Row /\ w.id \in RowId /\ w.op \in WriteOp
      /\ Place(w.id) = <<h, 0>> /\ HeadId(h) \in RowId /\ Place(HeadId(h)) = <<h, 0>>
  <2>1. rows \in Table /\ r \in Row /\ w.id \in RowId /\ w.op \in WriteOp
    BY PartZero DEF TableTypeOK, Table, Write
  <2>2. w.id.part = 0
    BY <2>1, OneRowEach DEF RowId
  <2>. QED
    BY <2>1, <2>2, HeadIdType DEF Place
<1>2. /\ rows' \in Table
      /\ \A g \in Hosts \ {h} : rows'[<<g, 0>>] = rows[<<g, 0>>]
      /\ HeadIs(h, {"blocked"})' =>
            \/ HeadIs(h, {"blocked"}) /\ s.blockedBy = r.blockedBy
            \/ w.op \in Blocking /\ s.blockedBy = w.on
  BY <1>1, ApplyLemma, ApplyElsewhere DEF HeadIs
<1>3. CASE w.op = "reassign"
  <2>1. SameHead(h)
    BY <1>1, <1>3, ReassignKeeps DEF SameHead
  <2>2. s.md5 = r.md5
    <3>. DEFINE new == [r EXCEPT !.blockedBy = w.on]
    <3>1. rows' = UpdateRow(rows, w.id, new) /\ new.md5 = r.md5
      BY <1>1, <1>3 DEF Apply, Updated, Row
    <3>. HIDE DEF new
    <3>. QED
      BY <1>1, <3>1, PartZero DEF UpdateRow, Table
  <2>3. MoveOf(h)
    BY <1>2, <2>1, <2>2 DEF MoveOf, Legal, Advances, SameHead
  <2>. QED
    BY <1>2, <1>3, <2>1, <2>2, <2>3 DEF SameHead, Free, HeadIs
<1>4. CASE w.op \in Queues
  <2>1. HeadIs(h, {"absent"})
    BY <1>4 DEF WriteFits
  <2>2. PICK status \in {"pending", "blocked"} :
            /\ status = IF w.op = "queuePending" THEN "pending" ELSE "blocked"
            /\ \E by : rows' = Queued(rows, h, status, by)
    BY <1>4 DEF Queues, Apply, Queued
  <2>3. s.gen = r.gen + 1 /\ s.status = status /\ ~s.dedupOnly
    BY <1>1, <2>2, QueuedRow DEF Status
  <2>4. MoveOf(h)
    BY <1>2, <2>1, <2>2, <2>3 DEF MoveOf, Legal, Becomes, HeadIs
  <2>. QED
    BY <1>2, <1>4, <2>1, <2>2, <2>3, <2>4 DEF Queues, Free, HeadIs
<1>5. ASSUME w.op \in {"unblock", "promote", "retryNow", "retryWait"}
      PROVE  rows' = rows \/ s = Updated(r, w)
  <2>. DEFINE new == Updated(r, w)
  <2>1. rows' = UpdateRow(rows, w.id, new)
    BY <1>1, <1>5 DEF Apply
  <2>. HIDE DEF new
  <2>2. rows' = rows \/ s = new
    BY <1>1, <2>1, PartZero DEF UpdateRow, Table
  <2>. QED
    BY <2>2 DEF new
<1>6. CASE w.op \in {"unblock", "promote"}
  <2>1. HeadIs(h, {"blocked"}) /\ w.id = HeadId(h)
    BY <1>6 DEF WriteFits
  <2>2. s.status = "pending" /\ s.gen = r.gen /\ s.dedupOnly = r.dedupOnly
    <3>. DEFINE new == Updated(r, w)
    <3>1. /\ new \in Row /\ new.gen = r.gen /\ new.status = "pending"
          /\ new.dedupOnly = r.dedupOnly
      <4>1. new \in Row /\ new.gen = r.gen
        BY <1>1, UpdatedLemma
      <4>2. new.status = "pending" /\ new.dedupOnly = r.dedupOnly
        BY <1>1, <1>6 DEF Updated, Row
      <4>. QED
        BY <4>1, <4>2
    <3>2. rows' = UpdateRow(rows, HeadId(h), new)
      BY <1>1, <1>6, <2>1 DEF Apply
    <3>. HIDE DEF new
    <3>3. s = new
      BY <1>1, <3>1, <3>2, HeadUpdated
    <3>. QED
      BY <3>1, <3>3
  <2>3. MoveOf(h)
    BY <1>2, <2>1, <2>2 DEF MoveOf, Legal, Advances, Becomes, HeadIs
  <2>. QED
    BY <1>2, <1>6, <2>1, <2>2, <2>3 DEF Free, HeadIs
<1>7. CASE w.op \in RetryOps
  <2>1. /\ HeadIs(h, {"failed"}) /\ ~r.dedupOnly
        /\ \E g \in Hosts \ {h} : HeadIs(g, {"completed"})
    BY <1>7 DEF WriteFits
  <2>2. \/ rows' = rows
        \/ /\ s.status = IF w.op = "retryNow" THEN "pending" ELSE "blocked"
           /\ s.gen = r.gen /\ s.dedupOnly
    <3>1. Updated(r, w).gen = r.gen
      BY <1>1, UpdatedLemma
    <3>2. /\ Updated(r, w).status = IF w.op = "retryNow" THEN "pending" ELSE "blocked"
          /\ Updated(r, w).dedupOnly
      BY <1>1, <1>7 DEF Updated, Row, RetryOps
    <3>. QED
      BY <1>5, <1>7, <3>1, <3>2 DEF RetryOps
  <2>3. MoveOf(h)
    <3>1. CASE rows' = rows
      BY <1>1, <3>1, StandStill
    <3>2. CASE rows' # rows
      BY <1>2, <2>1, <2>2, <3>2 DEF MoveOf, Legal, Becomes, HeadIs
    <3>. QED
      BY <3>1, <3>2
  <2>4. ~HeadIs(h, {"absent"})' /\ (w.op = "retryNow" => Free(h)')
    BY <2>1, <2>2 DEF HeadIs, Free
  <2>. QED
    BY <1>2, <1>7, <2>1, <2>3, <2>4 DEF RetryOps, HeadIs
<1>. QED
  BY <1>1, <1>3, <1>4, <1>6, <1>7 DEF WriteOp, Queues, RetryOps

\* What a write of a list leaves to the rest of it, to the heads and to the
\* workers.
LEMMA WriteMoves ==
  ASSUME Orderly, IInv, OrderInv, UNCHANGED <<worker, events>>,
         NEW todo \in SUBSET Write, TodoFits(todo),
         NEW w \in todo, First(todo) # {} => w \in First(todo),
         NEW h \in Hosts, h = w.id.host, rows' = Apply(rows, w)
  PROVE  /\ MoveOf(h) /\ Lasting
         /\ w.op = "reassign" => SameHead(h)
         /\ w.op # "reassign" => HeadIs(h, {"absent", "blocked", "failed"})
         /\ w.op # "retryWait" => \A b \in Hosts : Free(b) => Free(b)'
         /\ \A g \in Hosts : HeadFits(g)' /\ Chainless(g)' /\ WorkerFits(g)'
         /\ SignalsStep
         /\ TodoFits(todo \ {w})'
<1>1. /\ TableTypeOK /\ rows \in Table /\ events \in Seq(Event) /\ WaitsOK(rows)
      /\ NumParts = 1 /\ WriteFits(todo, w) /\ w \in Write
      /\ \A g \in Hosts : HeadFits(g) /\ Chainless(g) /\ WorkerFits(g)
  BY DEF IInv, CoordinatorOK, TableTypeOK, Orderly, TodoFits, OrderInv
<1>2. /\ MoveOf(h)
      /\ w.op = "reassign" => SameHead(h) /\ rows'[<<h, 0>>].md5 = rows[<<h, 0>>].md5
      /\ w.op # "reassign" =>
            HeadIs(h, {"absent", "blocked", "failed"}) /\ ~HeadIs(h, {"absent"})'
      /\ w.op \in {"queuePending", "unblock", "promote"} => HeadIs(h, {"pending"})'
      /\ HeadIs(h, {"blocked"})' =>
            \/ HeadIs(h, {"blocked"}) /\ rows'[<<h, 0>>].blockedBy = rows[<<h, 0>>].blockedBy
            \/ w.op \in Blocking /\ rows'[<<h, 0>>].blockedBy = w.on
      /\ w.op # "retryWait" => (Free(h) => Free(h)')
  BY <1>1, ApplyMoves
<1>3. Lasting
  BY <1>1, <1>2, MoveLasts
<1>4. Rests
  BY DEF Rests, Resting
<1>5. \A g \in Hosts \ {h} : rows'[<<g, 0>>] = rows[<<g, 0>>] /\ SameHead(g) /\ (Free(g) => Free(g)')
  BY <1>2 DEF MoveOf, SameHead, Free, HeadIs
<1>6. w.op # "retryWait" => \A b \in Hosts : Free(b) => Free(b)'
  BY <1>2, <1>5
<1>7. \A g \in Hosts : HeadFits(g)'
  BY <1>1, <1>2, MoveFits
<1>8. ASSUME NEW g \in Hosts PROVE WorkerFits(g)'
  <2>1. worker'[g] = worker[g] /\ Paused(worker[g], worker'[g])
    BY DEF Paused
  <2>2. CASE g # h
    BY <1>1, <1>3, <1>5, <2>1, <2>2, StillFits
  <2>3. CASE g = h /\ w.op = "reassign"
    BY <1>1, <1>2, <1>3, <2>1, <2>3, StillFits
  <2>4. CASE g = h /\ w.op # "reassign"
    BY <1>1, <1>2, <2>1, <2>4, AwayFits
  <2>. QED
    BY <2>2, <2>3, <2>4
<1>9. ASSUME NEW g \in Hosts, HeadIs(g, {"blocked"})' PROVE Free(rows[<<g, 0>>].blockedBy.host)'
  <2>1. ASSUME NEW b \in Hosts, rows'[<<g, 0>>].blockedBy.host = b, Free(b)'
        PROVE  Free(rows[<<g, 0>>].blockedBy.host)'
    BY <2>1 DEF Free, HeadIs
  <2>2. CASE w.op \in Blocking /\ rows'[<<g, 0>>].blockedBy = w.on /\ g = h
    <3>1. PICK b : b = w.on.host
      OBVIOUS
    <3>2. CASE w.op = "retryWait"
      <4>1. b \in Hosts /\ HeadIs(b, {"completed"})
        BY <1>1, <3>1, <3>2 DEF WriteFits
      <4>2. Free(b)'
        BY <1>3, <4>1 DEF Lasting, Free, HeadIs
      <4>. QED
        BY <2>1, <2>2, <3>1, <4>1, <4>2
    <3>3. CASE w.op # "retryWait"
      <4>1. w.op \in {"queueBlocked", "reassign"} /\ First(todo) = {}
        BY <2>2, <3>3 DEF Blocking, First
      <4>2. b \in Hosts /\ Free(b)
        BY <1>1, <3>1, <4>1 DEF WriteFits
      <4>. QED
        BY <1>6, <2>1, <2>2, <3>1, <3>3, <4>2
    <3>. QED
      BY <3>2, <3>3
  <2>3. CASE HeadIs(g, {"blocked"}) /\ rows'[<<g, 0>>].blockedBy = rows[<<g, 0>>].blockedBy
    <3>1. PICK b : b = rows[<<g, 0>>].blockedBy.host
      OBVIOUS
    <3>2. b \in Hosts /\ Free(b)
      BY <1>1, <2>3, <3>1 DEF WaitsOK, PointsBack, HeadIs, RowId, Chainless
    <3>3. w.op # "retryWait"
      <4>1. SUFFICES ASSUME w.op = "retryWait" PROVE FALSE
        OBVIOUS
      <4>2. /\ NumHosts <= 2 /\ w.on.host \in Hosts \ {h} /\ HeadIs(w.on.host, {"completed"})
            /\ HeadIs(h, {"failed"})
        BY <1>1, <4>1 DEF WriteFits, RetryOps
      <4>3. g # h /\ g # w.on.host
        BY <2>3, <4>2 DEF HeadIs
      <4>. QED
        BY <4>2, <4>3, NoThird
    <3>. QED
      BY <1>6, <2>1, <2>3, <3>1, <3>2, <3>3
  <2>4. g # h => HeadIs(g, {"blocked"}) /\ rows'[<<g, 0>>].blockedBy = rows[<<g, 0>>].blockedBy
    BY <1>5, <1>9 DEF HeadIs
  <2>. QED
    BY <1>2, <1>9, <2>2, <2>3, <2>4
<1>10. \A g \in Hosts : Chainless(g)'
  BY <1>9 DEF Chainless
<1>11. SignalsStep
  BY <1>1, <1>3, <1>4, SignalsSame DEF OrderInv
<1>12. TodoFits(todo \ {w})'
  <2>1. PICK rest \in SUBSET todo : rest = todo \ {w}
    OBVIOUS
  <2>2. ASSUME NEW v \in rest, v.op # "reassign" PROVE SameHead(v.id.host)
    <3>1. v.id.host \in Hosts /\ v \in todo /\ v # w
      BY <2>1 DEF Write, RowId
    <3>2. CASE w.op = "reassign"
      BY <1>2, <1>5, <3>1, <3>2
    <3>3. CASE w.op # "reassign"
      <4>1. v.id.host # h
        BY <2>2, <3>1, <3>3 DEF TodoFits
      <4>. QED
        BY <1>5, <3>1, <4>1
    <3>. QED
      BY <3>2, <3>3
  <2>3. ASSUME NEW v \in rest, v.op \in {"queueBlocked", "reassign"}
        PROVE  Free(v.on.host)' \/ \E u \in First(rest) : u.id.host = v.on.host
    <3>1. v \in todo /\ v # w /\ WriteFits(todo, v)
      BY <2>1 DEF TodoFits
    <3>2. w.op # "retryWait"
      BY <2>3, <3>1 DEF TodoFits, Queues, RetryOps
    <3>3. PICK b \in Hosts : b = v.on.host
      BY <2>3, <3>1 DEF WriteFits
    <3>4. CASE Free(b)
      BY <1>6, <3>2, <3>3, <3>4
    <3>5. ASSUME NEW u \in First(todo), u.id.host = b
          PROVE  Free(b)' \/ \E x \in First(rest) : x.id.host = b
      <4>1. CASE u = w
        <5>1. w.op \in {"queuePending", "promote"}
          BY <4>1 DEF First
        <5>. QED
          BY <1>2, <3>5, <4>1, <5>1 DEF Free, HeadIs
      <4>2. CASE u # w
        BY <2>1, <3>5, <4>2 DEF First
      <4>. QED
        BY <4>1, <4>2
    <3>6. Free(b) \/ \E u \in First(todo) : u.id.host = b
      BY <2>3, <3>1, <3>3 DEF WriteFits
    <3>. QED
      BY <3>3, <3>4, <3>5, <3>6
  <2>4. TodoFits(rest)'
    BY <1>3, <2>2, <2>3, TodoStays
  <2>. QED
    BY <2>1, <2>4
<1>. QED
  BY <1>2, <1>3, <1>6, <1>7, <1>8, <1>10, <1>11, <1>12

LEMMA MainWriteOrder ==
  ASSUME Orderly, IInv, OrderInv, MainWrite, UNCHANGED worker
  PROVE  OrderInv' /\ \E h \in Hosts : MoveOf(h)
<1>1. /\ main \in MainState /\ main.todo \in SUBSET Write /\ TodoFits(main.todo)
      /\ \A p \in pollers : p.primary.host \in Hosts /\ p.todo \in SUBSET Write
      /\ \A p \in pollers : \A v \in p.todo : v.op = "unblock"
  BY DEF IInv, CoordinatorOK, CoordinatorTypeOK, PollersOK, MainState, Poller, RowId, OrderInv,
         MainFits
<1>2. PICK w \in main.todo :
        /\ First(main.todo) # {} => w \in First(main.todo)
        /\ \/ Commits(Apply(rows, w)) /\ ~PrimaryInsert(w)
           \/ rows' = Apply(rows, w) /\ PrimaryInsert(w) /\ UNCHANGED faults
        /\ main' = [main EXCEPT !.todo = @ \ {w}]
  BY DEF MainWrite
<1>3. /\ rows' = Apply(rows, w) /\ UNCHANGED <<events, pollers>>
      /\ main.pc \in {"write", "finish"}
  BY <1>2, NoneLost DEF MainWrite
<1>4. PICK h \in Hosts : h = w.id.host
  BY <1>1 DEF Write, RowId
<1>5. PICK todo \in SUBSET Write : todo = main.todo
  BY <1>1
<1>6. /\ MoveOf(h) /\ Lasting
      /\ w.op = "reassign" => SameHead(h)
      /\ w.op # "reassign" => HeadIs(h, {"absent", "blocked", "failed"})
      /\ \A g \in Hosts : HeadFits(g)' /\ Chainless(g)' /\ WorkerFits(g)'
      /\ SignalsStep
      /\ TodoFits(todo \ {w})'
  BY <1>1, <1>2, <1>3, <1>4, <1>5, WriteMoves
<1>7. main'.pc = main.pc /\ main'.todo = todo \ {w}
  BY <1>1, <1>2, <1>5 DEF MainState
<1>8. TodoFits(main.todo)'
  BY <1>6, <1>7 DEF TodoFits
<1>9. MainFits'
  BY <1>3, <1>7, <1>8 DEF MainFits
<1>10. ASSUME NEW p \in pollers PROVE TodoFits(p.todo)' /\ Silent(events, p.primary.host, 1)'
  <2>1. /\ TodoFits(p.todo) /\ Silent(events, p.primary.host, 1)
        /\ w.op \notin {"unblock", "promote"}
    BY <1>2 DEF OrderInv, PollersFit
  <2>2. Silent(events, p.primary.host, 1)'
    BY <1>1, <1>6, <2>1 DEF SignalsStep
  <2>3. ASSUME NEW v \in p.todo PROVE SameHead(v.id.host) /\ v.op = "unblock"
    <3>1. v.id.host \in Hosts /\ v.op = "unblock" /\ HeadIs(v.id.host, {"blocked"})
      <4>1. v \in Write /\ v.op = "unblock"
        BY <1>1
      <4>2. WriteFits(p.todo, v)
        BY <2>1 DEF TodoFits
      <4>. QED
        BY <4>1, <4>2 DEF Write, RowId, WriteFits
    <3>2. CASE v.id.host = h
      <4>1. w \in todo /\ WriteFits(todo, w) /\ w.op \in WriteOp
        BY <1>1, <1>2, <1>5 DEF TodoFits, Write
      <4>2. w.op = "reassign"
        BY <1>4, <2>1, <3>1, <3>2, <4>1 DEF WriteFits, WriteOp, Queues, RetryOps, HeadIs
      <4>. QED
        BY <1>6, <3>1, <3>2, <4>2
    <3>3. CASE v.id.host # h
      BY <1>6, <3>1, <3>3 DEF MoveOf, SameHead
    <3>. QED
      BY <3>2, <3>3
  <2>4. TodoFits(p.todo)'
    <3>1. PICK list \in SUBSET Write : list = p.todo
      BY <1>1
    <3>2. /\ \A v \in list : v.op # "reassign" => SameHead(v.id.host)
          /\ \A v \in list : v.op \notin {"queueBlocked", "reassign"}
      BY <2>3, <3>1
    <3>3. TodoFits(list)'
      BY <1>6, <2>1, <3>1, <3>2, TodoStays
    <3>. QED
      BY <3>1, <3>3
  <2>. QED
    BY <2>2, <2>4
<1>11. PollersFit'
  BY <1>3, <1>7, <1>5, <1>10 DEF OrderInv, PollersFit
<1>. QED
  BY <1>6, <1>9, <1>11 DEF OrderInv, SignalsStep

-----------------------------------------------------------------------------
(* The pollers *)

\* A poller goes on: what it will write and everybody else have to fit.
LEMMA PollerGoesOn ==
  ASSUME OrderInv, NEW p \in pollers, NEW q, Replace(p, q), q.primary = p.primary,
         p.primary.host \in Hosts,
         \A g \in Hosts : HeadFits(g)' /\ Chainless(g)' /\ WorkerFits(g)',
         SignalsStep, UNCHANGED main, TodoFits(main.todo)', TodoFits(q.todo)'
  PROVE  OrderInv'
<1>1. pollers' = {q}
  BY DEF Replace, OrderInv, PollersFit
<1>2. \A h \in Hosts : Silent(events, h, 1) => Silent(events, h, 1)'
  BY DEF SignalsStep
<1>3. PICK h \in Hosts : h = p.primary.host
  OBVIOUS
<1>4. Silent(events, h, 1) /\ Silent(events, h, 1)'
  BY <1>2, <1>3 DEF OrderInv, PollersFit
<1>5. MainFits'
  <2>1. ASSUME main.pc = "react", main.ev.ok PROVE Silent(events, main.ev.host, 1)'
    <3>1. PICK g \in Hosts : g = main.ev.host
      BY <2>1 DEF OrderInv, MainFits
    <3>2. Silent(events, g, 1)'
      BY <1>2, <2>1, <3>1 DEF OrderInv, MainFits
    <3>. QED
      BY <3>1, <3>2 DEF Silent, Speaks
  <2>2. main'.pc = main.pc /\ main'.todo = main.todo /\ main'.ev = main.ev
    OBVIOUS
  <2>. QED
    BY <2>1, <2>2 DEF OrderInv, MainFits
<1>6. PollersFit'
  <2>1. /\ NumHosts <= 2 /\ main.pc # "unblock"
        /\ \A w \in main.todo : w.op \notin {"unblock", "promote"}
        /\ main.pc = "react" => main.ev.host # h
    BY <1>3 DEF OrderInv, PollersFit
  <2>2. Silent(events, q.primary.host, 1)' /\ q.primary.host = h
    BY <1>3, <1>4 DEF Silent, Speaks
  <2>. QED
    BY <1>1, <2>1, <2>2 DEF PollersFit
<1>. QED
  BY <1>5, <1>6 DEF OrderInv, SignalsStep

LEMMA PollerOrder ==
  ASSUME Orderly, IInv, OrderInv, UNCHANGED worker, NEW p \in pollers,
         \/ Fire(p) \/ PollMd5(p) \/ PollerUnblock(p) \/ PollerWrite(p)
         \/ PollerEnds(p) \/ PollerFails(p)
  PROVE  OrderInv' /\ \E h \in Hosts : MoveOf(h)
<1>1. /\ TableTypeOK /\ CoordinatorTypeOK /\ rows \in Table /\ events \in Seq(Event)
      /\ main \in MainState /\ main.todo \in SUBSET Write
      /\ p \in Poller /\ p.primary.host \in Hosts /\ p.todo \in SUBSET Write
      /\ \A w \in p.todo : w.op = "unblock"
  <2>1. CoordinatorOK
    BY DEF IInv
  <2>2. p \in Poller /\ p.primary \in RowId /\ p.todo \in SUBSET Write
        /\ \A w \in p.todo : w.op = "unblock"
    BY <2>1, PollerTypes
  <2>. QED
    BY <2>1, <2>2 DEF CoordinatorOK, TableTypeOK, CoordinatorTypeOK, MainState, RowId
<1>2. /\ TodoFits(p.todo) /\ Silent(events, p.primary.host, 1)
      /\ \A w \in main.todo : w.op \notin {"unblock", "promote"}
      /\ TodoFits(main.todo) /\ \A q \in pollers : q = p
  BY DEF OrderInv, PollersFit, MainFits
<1>3. UNCHANGED <<events, main>>
  BY DEF Fire, PollMd5, PollerUnblock, PollerWrite, PollerEnds, PollerFails, tableVars
<1>4. PICK h \in Hosts : h = p.primary.host
  BY <1>1
<1>5. \A g \in Hosts : Paused(worker[g], worker'[g])
  BY DEF Paused
<1>6. ASSUME UNCHANGED rows, NEW q, Replace(p, q), q.primary = p.primary, TodoFits(q.todo)
      PROVE  OrderInv' /\ \E g \in Hosts : MoveOf(g)
  <2>1. /\ \A g \in Hosts : HeadFits(g)' /\ Chainless(g)' /\ WorkerFits(g)'
        /\ SignalsStep
    BY <1>1, <1>3, <1>5, <1>6, QuietFits
  <2>2. \A todo : TodoFits(todo) => TodoFits(todo)'
    BY <1>1, <1>6, TableKept
  <2>3. TodoFits(q.todo)' /\ TodoFits(main.todo)'
    BY <1>2, <1>3, <1>6, <2>2 DEF TodoFits
  <2>4. MoveOf(h)
    BY <1>1, <1>6, StandStill
  <2>. QED
    BY <1>1, <1>3, <1>6, <2>1, <2>3, <2>4, PollerGoesOn
<1>7. CASE Fire(p)
  <2>1. PICK q : q = [p EXCEPT !.pc = "poll"]
    OBVIOUS
  <2>2. Replace(p, q) /\ UNCHANGED rows
    BY <1>7, <2>1 DEF Fire, tableVars
  <2>3. q.primary = p.primary /\ q.todo = p.todo
    BY <1>1, <2>1 DEF Poller
  <2>. QED
    BY <1>2, <1>6, <2>2, <2>3
<1>8. CASE PollerUnblock(p)
  <2>1. PICK q : q = [p EXCEPT !.pc = "write", !.todo = Unblocks(p.primary)]
    OBVIOUS
  <2>2. Replace(p, q) /\ UNCHANGED rows
    BY <1>8, <2>1 DEF PollerUnblock, tableVars
  <2>3. q.primary = p.primary /\ q.todo = Unblocks(p.primary)
    BY <1>1, <2>1 DEF Poller
  <2>4. TodoFits(q.todo)
    BY <1>1, <2>3, UnblocksFit
  <2>. QED
    BY <1>6, <2>2, <2>3, <2>4
<1>9. CASE PollerEnds(p) \/ PollerFails(p)
  <2>1. UNCHANGED rows /\ pollers' = Deregistered(p)
    BY <1>9 DEF PollerEnds, PollerFails, tableVars
  <2>2. pollers' = {}
    BY <1>2, <2>1 DEF Deregistered
  <2>3. pollers' \subseteq pollers
    BY <2>2
  <2>4. OrderInv'
    BY <1>1, <1>3, <1>5, <2>1, <2>3, ThreadsOrder
  <2>5. MoveOf(h)
    BY <1>1, <2>1, StandStill
  <2>. QED
    BY <2>4, <2>5
<1>10. CASE PollMd5(p)
  <2>1. PICK q : q = [p EXCEPT !.pc = "unblock"]
    OBVIOUS
  <2>2. Replace(p, q)
    BY <1>10, <2>1 DEF PollMd5
  <2>3. q.primary = p.primary /\ q.todo = p.todo
    BY <1>1, <2>1 DEF Poller
  <2>4. CASE UNCHANGED rows
    BY <1>2, <1>6, <2>2, <2>3, <2>4
  <2>5. CASE rows' = UpdateRow(rows, p.primary, [rows[Place(p.primary)] EXCEPT !.md5 = TRUE])
    <3>. DEFINE r == rows[<<h, 0>>]
                new == [r EXCEPT !.md5 = TRUE]
    <3>1. /\ p.primary \in RowId /\ Place(p.primary) = <<h, 0>> /\ r \in Row
          /\ HeadIs(h, {"completed"}) /\ Parts = {0}
      <4>1. p.primary \in RowId /\ Parts = {0}
        BY <1>1, OneRowEach DEF Poller, Orderly
      <4>2. Place(p.primary) = <<h, 0>>
        BY <1>4, <4>1 DEF Place, RowId
      <4>3. r \in Row
        BY <1>1, PartZero DEF Table
      <4>. QED
        BY <1>2, <1>4, <4>1, <4>2, <4>3 DEF Silent
    <3>2. /\ new \in Row /\ new.gen = r.gen /\ new.status = r.status /\ new.md5 = TRUE
          /\ new.dedupOnly = r.dedupOnly
      BY <3>1 DEF Row
    <3>3. rows' = UpdateRow(rows, p.primary, new)
      BY <2>5, <3>1
    <3>. HIDE DEF new
    <3>4. CASE rows' = rows
      BY <1>2, <1>6, <2>2, <2>3, <3>4
    <3>5. CASE rows' # rows
      <4>1. rows' = [rows EXCEPT ![<<h, 0>>] = new]
        BY <3>1, <3>3, <3>5 DEF UpdateRow
      <4>2. /\ rows' \in Table /\ rows'[<<h, 0>>] = new
            /\ \A g \in Hosts \ {h} : rows'[<<g, 0>>] = rows[<<g, 0>>]
        BY <1>1, <3>2, <4>1, PartZero DEF Table
      <4>3. MoveOf(h)
        BY <3>1, <3>2, <4>2 DEF MoveOf, Legal, Advances, HeadIs
      <4>4. InHand(h) /\ ~HeadIs(h, {"blocked"})'
        BY <3>1, <3>2, <4>2 DEF InHand, Free, HeadIs
      <4>5. Lasting /\ \A g \in Hosts : SameHead(g) /\ (rows[<<g, 0>>].md5 => rows'[<<g, 0>>].md5)
        <5>1. Lasting
          BY <1>1, <4>3, MoveLasts
        <5>2. ASSUME NEW g \in Hosts
              PROVE  SameHead(g) /\ (rows[<<g, 0>>].md5 => rows'[<<g, 0>>].md5)
          BY <3>2, <4>2 DEF SameHead
        <5>. QED
          BY <5>1, <5>2
      <4>6. \A g \in Hosts : HeadFits(g)' /\ Chainless(g)' /\ WorkerFits(g)'
        <5>1. \A g \in Hosts : HeadFits(g)'
          BY <1>1, <4>3, MoveFits DEF OrderInv
        <5>2. \A g \in Hosts : HeadIs(g, {"blocked"}) => rows[<<g, 0>>].blockedBy.host \in Hosts
          BY DEF IInv, CoordinatorOK, WaitsOK, PointsBack, HeadIs, RowId
        <5>3. \A g \in Hosts : Chainless(g)'
          BY <1>1, <4>3, <4>4, <5>2, MoveChainless DEF OrderInv
        <5>4. \A g \in Hosts : WorkerFits(g)'
          BY <1>5, <4>5, StillFits DEF OrderInv
        <5>. QED
          BY <5>1, <5>3, <5>4
      <4>7. SignalsStep
        <5>1. Rests
          BY DEF Rests, Resting
        <5>. QED
          BY <1>1, <1>3, <4>5, <5>1, SignalsSame DEF OrderInv
      <4>8. TodoFits(main.todo)' /\ TodoFits(q.todo)'
        <5>1. \A todo \in SUBSET Write : TodoFits(todo) => TodoFits(todo)'
          BY <1>1, <4>3, <4>4, TodoUnseen
        <5>2. PICK list \in SUBSET Write, other \in SUBSET Write : list = main.todo /\ other = q.todo
          BY <1>1, <2>3
        <5>3. TodoFits(list)' /\ TodoFits(other)'
          BY <1>2, <2>3, <5>1, <5>2
        <5>. QED
          BY <1>3, <5>2, <5>3 DEF TodoFits
      <4>. QED
        BY <1>1, <1>3, <2>2, <2>3, <4>3, <4>6, <4>7, <4>8, PollerGoesOn
    <3>. QED
      BY <3>4, <3>5
  <2>. QED
    BY <1>10, <2>4, <2>5 DEF PollMd5
<1>11. CASE PollerWrite(p)
  <2>1. PICK w \in p.todo : Commits(Apply(rows, w)) /\ Replace(p, [p EXCEPT !.todo = @ \ {w}])
    BY <1>11 DEF PollerWrite
  <2>2. PICK q : q = [p EXCEPT !.todo = @ \ {w}]
    OBVIOUS
  <2>3. PICK todo \in SUBSET Write : todo = p.todo
    BY <1>1
  <2>4. /\ rows' = Apply(rows, w) /\ Replace(p, q) /\ q.primary = p.primary
        /\ q.todo = todo \ {w}
    BY <1>1, <2>1, <2>2, <2>3, NoneLost DEF Poller
  <2>5. PICK g \in Hosts : g = w.id.host
    BY <1>1, <2>1 DEF Write, RowId
  <2>6. w.op = "unblock" /\ First(todo) = {} /\ TodoFits(todo) /\ w \in todo
    BY <1>1, <1>2, <2>1, <2>3 DEF First
  <2>7. /\ MoveOf(g) /\ Lasting
        /\ \A b \in Hosts : Free(b) => Free(b)'
        /\ \A b \in Hosts : HeadFits(b)' /\ Chainless(b)' /\ WorkerFits(b)'
        /\ SignalsStep
        /\ TodoFits(todo \ {w})'
    BY <1>3, <2>4, <2>5, <2>6, WriteMoves
  <2>8. TodoFits(q.todo)'
    BY <2>4, <2>7 DEF TodoFits
  <2>9. TodoFits(main.todo)'
    <3>1. PICK list \in SUBSET Write : list = main.todo
      BY <1>1
    <3>2. TodoFits(list) /\ \A v \in list : v.op \notin {"unblock", "promote"}
      BY <1>2, <3>1
    <3>3. HeadIs(g, {"blocked"})
      BY <2>5, <2>6 DEF TodoFits, WriteFits
    <3>4. ASSUME NEW v \in list, v.op # "reassign" PROVE SameHead(v.id.host)
      <4>1. v.id.host \in Hosts /\ v.op \in WriteOp /\ WriteFits(list, v)
        BY <3>2 DEF Write, RowId, TodoFits
      <4>2. v.id.host # g
        BY <3>2, <3>3, <3>4, <4>1 DEF WriteFits, WriteOp, Queues, RetryOps, HeadIs
      <4>. QED
        BY <2>7, <4>1, <4>2 DEF MoveOf, SameHead
    <3>5. ASSUME NEW v \in list, v.op \in {"queueBlocked", "reassign"}
          PROVE  Free(v.on.host)' \/ \E u \in First(list) : u.id.host = v.on.host
      <4>1. WriteFits(list, v)
        BY <3>2 DEF TodoFits
      <4>2. PICK b \in Hosts : b = v.on.host
        BY <3>5, <4>1 DEF WriteFits
      <4>3. Free(b) => Free(b)'
        BY <2>7
      <4>. QED
        BY <3>5, <4>1, <4>2, <4>3 DEF WriteFits
    <3>6. TodoFits(list)'
      BY <2>7, <3>2, <3>4, <3>5, TodoStays
    <3>. QED
      BY <1>3, <3>1, <3>6 DEF TodoFits
  <2>10. OrderInv'
    BY <1>1, <1>3, <2>4, <2>7, <2>8, <2>9, PollerGoesOn
  <2>. QED
    BY <2>7, <2>10
<1>. QED
  BY <1>7, <1>8, <1>9, <1>10, <1>11

-----------------------------------------------------------------------------
(* Every step *)

LEMMA AnyStandStill == ASSUME TableTypeOK, UNCHANGED rows PROVE \E h \in Hosts : MoveOf(h)
<1>1. 1 \in Hosts /\ rows \in Table
  BY SizeAssumption DEF Hosts, TableTypeOK
<1>. QED
  BY <1>1, StandStill

LEMMA TriggerOrder ==
  ASSUME IInv, OrderInv, UNCHANGED worker, FirstTrigger \/ QueuePrimaryFails
  PROVE  OrderInv' /\ UNCHANGED rows
<1>1. /\ TableTypeOK /\ CoordinatorTypeOK /\ rows \in Table /\ events \in Seq(Event)
      /\ main \in MainState /\ main.todo \in SUBSET Write
      /\ UNCHANGED <<rows, events, pollers>>
  BY DEF IInv, CoordinatorOK, TableTypeOK, CoordinatorTypeOK, MainState, FirstTrigger,
         QueueGallery, QueuePrimaryFails, tableVars
<1>2. ASSUME NEW todo, MainGo("finish", todo), TodoFits(todo), \A w \in todo : w.op \in Queues
      PROVE  OrderInv'
  <2>1. main'.pc = "finish" /\ main'.todo = todo
    BY <1>1, <1>2, WentTo
  <2>2. \A w \in todo : w.op \notin {"unblock", "promote"}
    BY <1>2 DEF Queues
  <2>. QED
    BY <1>1, <1>2, <2>1, <2>2, DecisionOrder
<1>3. CASE FirstTrigger
  <2>1. \A h \in Hosts : HeadIs(h, {"absent"})
    BY <1>3 DEF FirstTrigger, OrderInv, HeadFits
  <2>2. PICK S \in TriggerSets : QueueGallery(S)
    BY <1>3 DEF FirstTrigger
  <2>3. S \in SUBSET Hosts /\ S # {}
    BY TriggerAssumption
  <2>4. PICK todo \in {QueueFamily(S), QueuePlain(S)} : MainGo("finish", todo)
    BY <2>2 DEF QueueGallery
  <2>5. TodoFits(todo) /\ \A w \in todo : w.op \in Queues
    BY <1>1, <2>1, <2>3, <2>4, QueuesFit
  <2>. QED
    BY <1>1, <1>2, <2>4, <2>5
<1>4. CASE QueuePrimaryFails
  <2>1. PICK S : S = {v.id.host : v \in main.todo}
    OBVIOUS
  <2>2. PICK w \in main.todo : w.op = "queueBlocked"
    BY <1>4 DEF QueuePrimaryFails
  <2>3. TodoFits(main.todo)
    BY DEF OrderInv, MainFits
  <2>4. \A v \in main.todo : v.op \in Queues
    BY <2>2, <2>3 DEF TodoFits, Queues, RetryOps
  <2>5. ASSUME NEW v \in main.todo PROVE v.id.host \in Hosts /\ HeadIs(v.id.host, {"absent"})
    <3>1. v \in Write /\ WriteFits(main.todo, v) /\ v.op \in Queues
      BY <1>1, <2>3, <2>4 DEF TodoFits
    <3>. QED
      BY <3>1 DEF Write, RowId, WriteFits
  <2>6. S \in SUBSET Hosts /\ \A h \in S : HeadIs(h, {"absent"})
    BY <2>1, <2>5
  <2>7. PICK todo : todo = QueuePlain(S)
    OBVIOUS
  <2>8. TodoFits(todo) /\ \A v \in todo : v.op \in Queues
    BY <1>1, <2>6, <2>7, QueuesFit
  <2>9. MainGo("finish", todo)
    BY <1>4, <2>1, <2>7 DEF QueuePrimaryFails
  <2>. QED
    BY <1>1, <1>2, <2>8, <2>9
<1>. QED
  BY <1>1, <1>3, <1>4

LEMMA NextOrder ==
  ASSUME Orderly, IInv, OrderInv, [Next]_vars
  PROVE  OrderInv' /\ \E h \in Hosts : MoveOf(h)
<1>1. /\ TableTypeOK /\ CoordinatorTypeOK /\ WorkerTypeOK
      /\ rows \in Table /\ events \in Seq(Event)
  BY DEF IInv, CoordinatorOK, ThreadsOK, TableTypeOK
<1>2. ASSUME UNCHANGED rows, OrderInv' PROVE OrderInv' /\ \E h \in Hosts : MoveOf(h)
  BY <1>1, <1>2, AnyStandStill
<1>3. ASSUME UNCHANGED worker PROVE \A h \in Hosts : Paused(worker[h], worker'[h])
  BY <1>3 DEF Paused
<1>4. CASE UNCHANGED vars
  <2>1. UNCHANGED <<rows, events, main, worker>> /\ pollers' \subseteq pollers
    BY <1>4 DEF vars
  <2>. QED
    BY <1>1, <1>2, <1>3, <2>1, ThreadsOrder
<1>5. CASE (\E h \in Hosts : Worker(h)) \/ WorkerFails
  <2>1. PICK h \in Hosts : WorkerStep(h) \/ WorkerDbFails(h) \/ SpinUp(h)
    BY <1>5 DEF Worker, WorkerFails
  <2>2. UNCHANGED <<main, pollers>>
    BY <1>5 DEF Worker, WorkerFails
  <2>. QED
    BY <2>1, <2>2, WorkerOrder
<1>6. CASE Main
  <2>1. CASE MainStep /\ UNCHANGED <<worker, managerVars>>
    <3>1. CASE MainWrite
      BY <2>1, <3>1, MainWriteOrder
    <3>2. CASE TakeEvent
      BY <1>1, <1>2, <2>1, <3>2, TakeEventOrder DEF TakeEvent
    <3>3. CASE HandleSuccess \/ MainUnblock \/ HandleFailure \/ RetryScan \/ WritesDone
      <4>1. UNCHANGED rows
        BY <3>3 DEF HandleSuccess, MainUnblock, HandleFailure, RetryScan, WritesDone, tableVars
      <4>. QED
        BY <1>2, <2>1, <3>3, <4>1, MainDecides
    <3>. QED
      BY <2>1, <3>1, <3>2, <3>3 DEF MainStep
  <2>2. CASE TakeSpinup /\ UNCHANGED <<main, pollers, faults>>
    <3>1. events # <<>> /\ events' = Tail(events) /\ UNCHANGED <<rows, main, pollers>>
      BY <2>2 DEF TakeSpinup
    <3>2. \A h \in Hosts : Paused(worker[h], worker'[h])
      BY <1>1, <2>2, ThreadsPause
    <3>. QED
      BY <1>1, <1>2, <3>1, <3>2, ThreadsOrder
  <2>. QED
    BY <1>6, <2>1, <2>2 DEF Main
<1>7. CASE Md5Poller \/ Md5PollerFails
  <2>1. PICK p \in pollers : \/ Fire(p) \/ PollMd5(p) \/ PollerUnblock(p) \/ PollerWrite(p)
                             \/ PollerEnds(p) \/ PollerFails(p)
    BY <1>7 DEF Md5Poller, PollerStep, Md5PollerFails
  <2>2. UNCHANGED worker
    BY <1>7 DEF Md5Poller, Md5PollerFails
  <2>. QED
    BY <2>1, <2>2, PollerOrder
<1>8. CASE Manager
  <2>1. UNCHANGED <<rows, events, main, pollers>>
    BY <1>8 DEF Manager, Disabled, CloseNext, tableVars
  <2>2. \A h \in Hosts : Paused(worker[h], worker'[h])
    BY <1>1, <1>8, ThreadsPause DEF Manager
  <2>. QED
    BY <1>1, <1>2, <2>1, <2>2, ThreadsOrder
<1>9. CASE FirstTrigger \/ InsertFails
  <2>1. UNCHANGED worker
    BY <1>9 DEF FirstTrigger, InsertFails
  <2>2. FirstTrigger \/ QueuePrimaryFails
    BY <1>9 DEF InsertFails
  <2>. QED
    BY <1>2, <2>1, <2>2, TriggerOrder
<1>10. CASE SettledHandlerFails
  <2>1. /\ UNCHANGED <<rows, events, worker>> /\ pollers' = pollers
        /\ main'.pc = "idle" /\ main'.todo = {}
    BY <1>10 DEF SettledHandlerFails, HandlerFails, MainIdle, tableVars
  <2>. QED
    BY <1>1, <1>2, <2>1, NothingTodo, DecisionOrder
<1>11. CASE DisableHost \/ EnableHost
  <2>1. UNCHANGED <<rows, events, main, pollers>> /\ \E h \in Hosts : Disable(h) \/ Enable(h)
    BY <1>11 DEF DisableHost, EnableHost, Disable, Enable, tableVars
  <2>2. \A h \in Hosts : Paused(worker[h], worker'[h])
    BY <1>1, <2>1, ThreadsPause
  <2>. QED
    BY <1>1, <1>2, <2>1, <2>2, ThreadsOrder
<1>12. CASE Crash \/ Exit
  <2>1. UNCHANGED rows /\ main' = MainIdle /\ events' = <<>> /\ pollers' = {}
    BY <1>12 DEF Crash, Exit, Relaunch
  <2>2. \A h \in Hosts : Paused(worker[h], worker'[h])
    BY <1>1, <1>12, ThreadsPause DEF Crash, Exit, Relaunch
  <2>. QED
    BY <1>1, <1>2, <2>1, <2>2, ThreadsOrder
<1>13. CASE Shutdown \/ ToggleDedup
  <2>1. UNCHANGED <<rows, events, main, worker>> /\ pollers' \subseteq pollers
    BY <1>13 DEF Shutdown, CloseAll, ToggleDedup, tableVars
  <2>. QED
    BY <1>1, <1>2, <1>3, <2>1, ThreadsOrder
<1>14. ~(Retrigger \/ UserReupload \/ BookkeepingFails)
  BY DEF Orderly, Charge, Retrigger, UserReupload, BookkeepingFails
<1>. QED
  BY <1>4, <1>5, <1>6, <1>7, <1>8, <1>9, <1>10, <1>11, <1>12, <1>13, <1>14
  DEF Next, Environment

LEMMA InitOrder == Init => OrderInv
<1>1. SUFFICES ASSUME Init PROVE OrderInv
  OBVIOUS
<1>2. \A h \in Hosts :
        /\ rows[<<h, 0>>].gen = 0 /\ HeadIs(h, {"absent"})
        /\ ~rows[<<h, 0>>].dedupOnly
        /\ worker[h].pc = "idle"
  <2>. DEFINE new == NewRow(0, "absent", NoId, FALSE)
  <2>1. \A h \in Hosts : rows[<<h, 0>>] = new /\ worker[h] = Fresh
    BY <1>1, PartZero DEF Init, TableInit, WorkerInit
  <2>2. new.gen = 0 /\ new.status = "absent" /\ new.dedupOnly = FALSE
    BY DEF NewRow
  <2>3. Fresh.pc = "idle"
    BY DEF Fresh
  <2>. HIDE DEF new
  <2>. QED
    BY <2>1, <2>2, <2>3 DEF HeadIs
<1>3. \A h \in Hosts : HeadFits(h) /\ Chainless(h) /\ WorkerFits(h)
  BY <1>2 DEF HeadFits, Chainless, WorkerFits, Resting, HeadIs
<1>4. SignalsFit(events) /\ PollersFit
  BY <1>1 DEF Init, TableInit, CoordinatorInit, SignalsFit, PollersFit
<1>5. main.pc = "idle" /\ main.todo = {}
  BY <1>1 DEF Init, CoordinatorInit, MainIdle
<1>6. MainFits
  BY <1>5, NothingTodo DEF MainFits
<1>. QED
  BY <1>3, <1>4, <1>6 DEF OrderInv

LEMMA SpecOrder == ASSUME Orderly PROVE Spec => [](IInv /\ OrderInv)
<1>1. Init => OrderInv
  BY InitOrder
<1>2. IInv /\ OrderInv /\ [Next]_vars => OrderInv'
  BY NextOrder
<1>. QED
  BY <1>1, <1>2, SpecIInv, PTL DEF Spec

LEMMA OrderOwns == IInv /\ OrderInv => InFlightOwned
<1>1. SUFFICES ASSUME IInv, OrderInv, NEW h \in Hosts, Uploading(h)
               PROVE  LET id == worker[h].row IN
                      \/ rows[Place(id)].status = "uploading"
                      \/ rows[Place(id)].status = "completed" /\ worker[h].part > 0
  BY DEF InFlightOwned
<1>2. WorkerFits(h) /\ worker[h].part \in Nat /\ Place(HeadId(h)) = <<h, 0>>
  <2>1. TableTypeOK /\ worker[h] \in WorkerState
    BY <1>1 DEF IInv, CoordinatorOK, ThreadsOK, WorkerTypeOK
  <2>2. worker[h].part \in Nat
    BY <2>1, SizeAssumption DEF WorkerState
  <2>. QED
    BY <1>1, <2>1, <2>2, HeadIdType DEF OrderInv
<1>3. CASE worker[h].pc = "part"
  BY <1>2, <1>3 DEF WorkerFits, HeadIs
<1>4. CASE worker[h].pc \in {"archive", "send", "except"}
  BY <1>2, <1>4 DEF WorkerFits, HeadIs
<1>. QED
  BY <1>1, <1>3, <1>4 DEF Uploading

\* The status of a row in flight belongs to the worker that uploads it: neither
\* a promotion, nor a retry, nor a release by a late poller reaches it, whatever
\* host is disabled, whatever fails, and however often the program dies.
THEOREM RowsInFlightAreOwned == ASSUME Orderly PROVE Spec => []InFlightOwned
  BY SpecOrder, OrderOwns, PTL

LEMMA OrderChainless == OrderInv => NoWaitChain /\ \A h \in Hosts : Chainless(h)
  BY DEF OrderInv, Chainless, Free, HeadIs, NoWaitChain

\* No member waits for a member that waits itself, nor for one without a row:
\* _handle_failure points the waiters at a row it has promoted first, and the
\* retry scan makes a failed member wait only for one that has the gallery.
THEOREM NobodyWaitsForAWaiter ==
  ASSUME Orderly
  PROVE  Spec => [](NoWaitChain /\ \A h \in Hosts : Chainless(h))
  BY SpecOrder, OrderChainless, PTL

LEMMA OrderTerminal ==
  ASSUME Orderly, IInv, OrderInv, [Next]_vars
  PROVE  [\A k \in DOMAIN rows : rows[k].dedupOnly /\ SameRow(k) =>
            /\ rows'[k].status # "uploading"
            /\ rows[k].status = "failed" => rows'[k].status = "failed"]_vars
<1>1. rows \in Table /\ NumParts = 1 /\ \A g \in Hosts : HeadFits(g)
  BY DEF IInv, CoordinatorOK, TableTypeOK, Orderly, OrderInv
<1>. QED
  BY <1>1, NextOrder, MoveTerminal

\* A dedup_only row is never uploaded, and once failed it stays failed: no
\* promotion, no second retry scan and no error handler gives it a further try.
THEOREM DedupOnlyRowsEnd == ASSUME Orderly PROVE Spec => DedupOnlyIsTerminal
<1>1. IInv /\ OrderInv /\ [Next]_vars =>
        [\A k \in DOMAIN rows : rows[k].dedupOnly /\ SameRow(k) =>
            /\ rows'[k].status # "uploading"
            /\ rows[k].status = "failed" => rows'[k].status = "failed"]_vars
  BY OrderTerminal
<1>. QED
  BY <1>1, SpecOrder, PTL DEF Spec, DedupOnlyIsTerminal

LEMMA OrderPromises ==
  ASSUME Orderly, IInv, OrderInv, [Next]_vars
  PROVE  [Lifecycle!Next]_(Lifecycle!vars)
<1>1. rows \in Table /\ \A g \in Hosts : HeadFits(g)
  BY DEF IInv, CoordinatorOK, TableTypeOK, OrderInv
<1>. QED
  BY <1>1, NextOrder, MoveKeepsPromise

LEMMA InitPromises == Init => Lifecycle!Init
<1>1. SUFFICES ASSUME Init PROVE Lifecycle!Init
  OBVIOUS
<1>2. \A h \in Hosts : rows[<<h, 0>>].status = "absent" /\ rows[<<h, 0>>].dedupOnly = FALSE
  <2>. DEFINE new == NewRow(0, "absent", NoId, FALSE)
  <2>1. \A h \in Hosts : rows[<<h, 0>>] = new
    BY <1>1, PartZero DEF Init, TableInit
  <2>2. new.status = "absent" /\ new.dedupOnly = FALSE
    BY DEF NewRow
  <2>. HIDE DEF new
  <2>. QED
    BY <2>1, <2>2
<1>3. Phases = [h \in Hosts |-> "absent"]
  BY <1>2 DEF Phases, PhaseOf
<1>4. Onlys = [h \in Hosts |-> FALSE]
  BY <1>2 DEF Onlys
<1>5. Knowns = [h \in Hosts |-> FALSE]
  <2>1. \A h \in Hosts : (HeadIs(h, {"completed"}) /\ rows[<<h, 0>>].md5) = FALSE
    BY <1>2 DEF HeadIs
  <2>. QED
    BY <2>1 DEF Knowns
<1>. QED
  BY <1>3, <1>4, <1>5 DEF Lifecycle!Init, Phases, Onlys, Knowns

\* Workers, main thread and pollers implement the promise of the family: every
\* step of theirs moves the life of one member's upload as UploadLifecycle lets
\* it, or leaves all of them alone.  So it is as long as what follows an upload
\* in _process_upload and _try_family_mirror does not raise; when it does, a
\* member that is done is back among the pending or the failed.
THEOREM FamilyKeepsItsPromise == ASSUME Orderly PROVE Spec => KeepsPromise
<1>1. IInv /\ OrderInv /\ [Next]_vars => [Lifecycle!Next]_(Lifecycle!vars)
  BY OrderPromises
<1>2. Init => Lifecycle!Init
  BY InitPromises
<1>. QED
  BY <1>1, <1>2, SpecOrder, PTL DEF Spec, KeepsPromise, Lifecycle!Spec
=============================================================================
