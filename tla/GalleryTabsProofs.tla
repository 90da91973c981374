---------------------------- MODULE GalleryTabsProofs ----------------------------
(***************************************************************************)
(* After an orderly end every gallery that was saved is in the tab where   *)
(* the user last put it: a proof for any galleries, tabs and bounds, where *)
(* no tab is given a name that items still carry.                          *)
(***************************************************************************)
EXTENDS GalleryTabs, SequenceTheorems, TLAPS

Row(table, t) == [name |-> table[t], tab |-> t]

UniqueNames == \A t, u \in TabIds : Exists(t) /\ tabs[t] = tabs[u] => t = u

Renaming == operation.kind \in {"rename rows", "rename items"}
Deleting == operation.kind \in {"delete: move", "delete: reassign", "delete: drop"}

\* The main thread's operation is about a tab that exists, and a rename has taken
\* the old name from all of them.
OperationApplies ==
    /\ Doing("move items") \/ Renaming => Exists(operation.tab)
    /\ Renaming \/ Deleting => operation.tab # MainTab
    /\ Renaming => operation.name # NoName /\ \A t \in TabIds : tabs[t] # operation.name

\* The name an item carries leads to the chosen tab: itself, by the rename under
\* way, or to Main since no tab has it any more.
Resolves == \A g \in Galleries : Known(g) =>
    chosen[g] = IF Renaming /\ items[g] = operation.name THEN operation.tab
                ELSE IdOf(tabs, items[g])

\* What waits for the writer ends in writing the name the item has now.
Agrees(queue, g, name, from) == \A j \in DOMAIN queue : j > from =>
    queue[j][g] = NoName \/ queue[j][g] = name
EndsWith(queue, g, name) == \E i \in DOMAIN queue :
    queue[i][g] = name /\ Agrees(queue, g, name, i)
Chosen(g) == Row(tabs, chosen[g])
Settled(g) ==
    \/ EndsWith(saves, g, items[g])
    \/ /\ Agrees(saves, g, items[g], 0)
       /\ IF g \in upserts["store"].of THEN upserts["store"].row = Chosen(g)
          ELSE galleries[g] = Chosen(g)

UploadAgrees(g) == g \in upserts["upload"].of => upserts["upload"].row = Chosen(g)

Covers ==
    /\ quit => Doing("idle")
    /\ ~quit => covered = {}
    /\ \A g \in covered : Known(g) /\ Settled(g) /\ UploadAgrees(g)

IInv == TabsTypeOK /\ UniqueNames /\ OperationApplies /\ Resolves /\ Covers

-----------------------------------------------------------------------------
(* Looking up a name.                                                      *)

Table(table) == table \in [TabIds -> NamesOrNone] /\ table[MainTab] = "Main"

LEMMA MainExists == MainTab \in TabIds /\ "Main" # NoName /\ NoName \notin TabNames
<1>1. MainTab \in TabIds
  <2>1. MaxTabs \in Nat \ {0}
    BY TabsAssumption DEF TabsAssumption
  <2> QED
    BY <2>1 DEF MainTab, TabIds
<1>2. "Main" \in TabNames /\ NoName \notin TabNames
  BY TabsAssumption DEF TabsAssumption, NoName
<1> QED
  BY <1>1, <1>2

LEMMA LookedUp ==
    ASSUME NEW table, NEW name, Table(table)
    PROVE  /\ IdOf(table, name) \in TabIds /\ table[IdOf(table, name)] # NoName
           /\ (\A t \in TabIds : table[t] # name) => IdOf(table, name) = MainTab
           /\ \A t \in TabIds : name # NoName /\ table[t] = name =>
                  table[IdOf(table, name)] = name
<1>1. CASE name # NoName /\ \E t \in TabIds : table[t] = name
  <2>1. IdOf(table, name) = CHOOSE t \in TabIds : table[t] = name
    BY <1>1 DEF IdOf
  <2>2. IdOf(table, name) \in TabIds /\ table[IdOf(table, name)] = name
    BY <1>1, <2>1
  <2> QED
    BY <1>1, <2>2
<1>2. CASE ~(name # NoName /\ \E t \in TabIds : table[t] = name)
  BY <1>2, MainExists DEF IdOf, Table
<1> QED
  BY <1>1, <1>2

\* Two tables in which the same tab, if any, has a name lead to the same tab.
LEMMA SameTab ==
    ASSUME NEW before, NEW after, NEW name, Table(before), Table(after),
           \A t, u \in TabIds : before[t] = name /\ before[u] = name /\ name # NoName => t = u,
           \A t \in TabIds : before[t] = name <=> after[t] = name
    PROVE  IdOf(after, name) = IdOf(before, name)
<1>1. CASE name # NoName /\ \E t \in TabIds : before[t] = name
  <2>1. PICK t \in TabIds : before[t] = name
    BY <1>1
  <2>2. IdOf(before, name) = t
    BY <1>1, <2>1, LookedUp
  <2>3. IdOf(after, name) = t
    BY <1>1, <2>1, LookedUp
  <2> QED
    BY <2>2, <2>3
<1>2. CASE ~(name # NoName /\ \E t \in TabIds : before[t] = name)
  BY <1>2 DEF IdOf
<1> QED
  BY <1>1, <1>2

-----------------------------------------------------------------------------
(* Type correctness.                                                       *)

\* The queue of saves grows at its end and loses its head.
LEMMA Grown ==
    ASSUME NEW S, saves \in Seq(S), NEW snapshot \in S, HandOver(snapshot)
    PROVE  /\ saves' \in Seq(S)
           /\ Len(saves) \in Nat /\ DOMAIN saves = 1..Len(saves)
           /\ DOMAIN saves' = 1..(Len(saves) + 1) /\ saves'[Len(saves) + 1] = snapshot
           /\ \A i \in DOMAIN saves : saves'[i] = saves[i]
  BY AppendProperties DEF HandOver

LEMMA RowTyped ==
    ASSUME TabsTypeOK, NEW t \in TabIds
    PROVE  RowOf(t) \in TabRow /\ MainRow \in TabRow
  BY MainExists DEF TabsTypeOK, RowOf, MainRow, TabRow, NamesOrNone

LEMMA NoRowTyped == NoRow \in TabRow
  BY MainExists DEF NoRow, TabRow, NamesOrNone

LEMMA SnapshotTyped ==
    ASSUME TabsTypeOK
    PROVE  \A P : Snapshot(P) \in [Galleries -> NamesOrNone]
  BY DEF TabsTypeOK, Snapshot, NamesOrNone

\* The writer has taken a gallery from the first save, and the save itself with
\* the last one.
LEMMA WriterTakes ==
    ASSUME TabsTypeOK, NEW g \in Galleries, WriterLooksUp(g)
    PROVE  /\ saves' \in Seq([Galleries -> NamesOrNone])
           /\ Len(saves) \in Nat \ {0} /\ DOMAIN saves = 1..Len(saves)
           /\ saves[1][g] # NoName /\ LooksUp("store", g, saves[1][g])
           /\ \/ /\ \A h \in Galleries : h # g => saves[1][h] = NoName
                 /\ DOMAIN saves' = 1..(Len(saves) - 1)
                 /\ \A i \in DOMAIN saves' : saves'[i] = saves[i + 1]
              \/ /\ DOMAIN saves' = DOMAIN saves
                 /\ saves'[1] = [saves[1] EXCEPT ![g] = NoName]
                 /\ \A i \in DOMAIN saves : i # 1 => saves'[i] = saves[i]
<1> DEFINE S == [Galleries -> NamesOrNone]
           rest == [saves[1] EXCEPT ![g] = NoName]
<1>1. saves \in Seq(S) /\ saves # <<>>
  BY DEF TabsTypeOK, WriterLooksUp
<1>2. Len(saves) \in Nat \ {0} /\ DOMAIN saves = 1..Len(saves) /\ Head(saves) = saves[1] /\ saves[1] \in S
  BY <1>1, HeadTailProperties
<1>3. rest \in S
  BY <1>2 DEF NamesOrNone
<1>4. saves' = IF \A h \in Galleries : rest[h] = NoName THEN Tail(saves) ELSE [saves EXCEPT ![1] = rest]
  BY <1>2 DEF WriterLooksUp
<1>5. saves[1][g] # NoName /\ LooksUp("store", g, saves[1][g])
  BY <1>2 DEF WriterLooksUp
<1>6. CASE \A h \in Galleries : rest[h] = NoName
  <2>1. saves' = Tail(saves)
    BY <1>4, <1>6
  <2>2. \A h \in Galleries : h # g => saves[1][h] = NoName
    BY <1>2, <1>6
  <2>3. /\ saves' \in Seq(S) /\ DOMAIN saves' = 1..(Len(saves) - 1)
        /\ \A i \in DOMAIN saves' : saves'[i] = saves[i + 1]
    BY <1>1, <2>1, HeadTailProperties
  <2> QED
    BY <1>2, <1>5, <2>2, <2>3
<1>7. CASE ~\A h \in Galleries : rest[h] = NoName
  <2>1. saves' = [saves EXCEPT ![1] = rest]
    BY <1>4, <1>7
  <2>2. saves' \in Seq(S)
    BY <1>1, <1>2, <1>3, <2>1, ExceptSeq
  <2>3. /\ DOMAIN saves' = DOMAIN saves /\ saves'[1] = rest
        /\ \A i \in DOMAIN saves : i # 1 => saves'[i] = saves[i]
    BY <1>2, <2>1
  <2> QED
    BY <1>2, <1>5, <2>2, <2>3
<1> QED
  BY <1>6, <1>7

LEMMA OperationTyped ==
    ASSUME NEW kind \in Kinds, NEW t \in TabIds, NEW name \in NamesOrNone, NEW P \in SUBSET Galleries
    PROVE  Operation(kind, t, name, P) \in Operations
  BY DEF Operation, Operations

\* What the user begins.
LEMMA UserStepsTyped ==
    ASSUME TabsTypeOK, NEW t \in TabIds, TabStep(t)
    PROVE  TabsTypeOK'
<1>1. tabSteps' \in Nat /\ MainTab \in TabIds /\ "Main" \in NamesOrNone /\ tabs[t] \in NamesOrNone
  <2>1. AtUser
    BY DEF TabStep, DeleteTab, CreateTab, RenameTab, AddGallery, MoveGalleries
  <2>2. tabSteps \in Nat /\ tabSteps' = tabSteps + 1
    BY <2>1 DEF AtUser, TabsTypeOK
  <2> QED
    BY <2>2, MainExists DEF NamesOrNone, TabsTypeOK
<1>2. CASE DeleteTab(t)
  BY <1>1, <1>2 DEF DeleteTab, TabsTypeOK, Operation, Operations, Kinds, NamesOrNone, writing, ending, tabTables
<1>3. ASSUME NEW name \in TabNames, CreateTab(t, name)
      PROVE  TabsTypeOK'
  <2>1. t # MainTab
    BY <1>3, MainExists DEF CreateTab, Exists, TabsTypeOK
  <2> QED
    BY <1>1, <1>3, <2>1 DEF CreateTab, TabsTypeOK, NamesOrNone, writing, ending
<1>4. ASSUME NEW name \in TabNames, RenameTab(t, name)
      PROVE  TabsTypeOK'
  BY <1>1, <1>4 DEF RenameTab, TabsTypeOK, Operation, Operations, Kinds, NamesOrNone, writing, ending
<1>5. ASSUME NEW g \in Galleries, AddGallery(g, t)
      PROVE  TabsTypeOK'
  <2>1. items' \in [Galleries -> NamesOrNone] /\ chosen' \in [Galleries -> TabIds]
    <3>1. /\ items' \in {[items EXCEPT ![g] = tabs[t]], [items EXCEPT ![g] = "Main"]}
          /\ chosen' \in {[chosen EXCEPT ![g] = t], [chosen EXCEPT ![g] = MainTab]}
      BY <1>5 DEF AddGallery
    <3> QED
      BY <1>1, <3>1 DEF TabsTypeOK
  <2>2. operation' \in Operations
    <3>1. operation' = operation \/ operation' = Operation("move items", t, NoName, {g})
      BY <1>5 DEF AddGallery
    <3>2. /\ operation \in Operations /\ "move items" \in Kinds /\ NoName \in NamesOrNone
          /\ {g} \in SUBSET Galleries
      BY DEF TabsTypeOK, Kinds, NamesOrNone
    <3> QED
      BY <3>1, <3>2, OperationTyped
  <2>3. stage' \in [Galleries -> {"new", "scan", "rest", "upload"}] /\ timed' \in BOOLEAN
    BY <1>5 DEF AddGallery, TabsTypeOK
  <2> QED
    BY <1>1, <1>5, <2>1, <2>2, <2>3 DEF AddGallery, TabsTypeOK, writing, tabTables
<1>6. ASSUME NEW P \in SUBSET Galleries, MoveGalleries(P, t)
      PROVE  TabsTypeOK'
  <2>1. galleries' \in [Galleries -> TabRow]
    BY <1>6, RowTyped DEF MoveGalleries, TabsTypeOK
  <2>2. operation' \in Operations
    <3>1. operation' = operation \/ operation' = Operation("move items", t, NoName, P)
      BY <1>6 DEF MoveGalleries
    <3>2. /\ operation \in Operations /\ "move items" \in Kinds /\ NoName \in NamesOrNone
          /\ P \in SUBSET Galleries
      BY DEF TabsTypeOK, Kinds, NamesOrNone
    <3> QED
      BY <3>1, <3>2, OperationTyped
  <2> QED
    BY <1>1, <1>6, <2>1, <2>2 DEF MoveGalleries, TabsTypeOK, writing, ending
<1> QED
  BY <1>2, <1>3, <1>4, <1>5, <1>6 DEF TabStep

\* What it goes on with.
LEMMA OperationsTyped ==
    ASSUME TabsTypeOK, OperationApplies, OperationStep
    PROVE  TabsTypeOK'
<1>1. /\ operation.tab \in TabIds /\ operation.name \in NamesOrNone /\ operation.of \subseteq Galleries
      /\ tabs[operation.tab] \in NamesOrNone
  BY DEF TabsTypeOK, Operations
<1>2. /\ Idle \in Operations
      /\ \A kind \in Kinds : [operation EXCEPT !.kind = kind] \in Operations
  BY OperationTyped, MainExists DEF TabsTypeOK, Operations, Idle, Kinds, NamesOrNone
<1>3. CASE MoveItems
  BY <1>1, <1>2, <1>3 DEF MoveItems, TabsTypeOK, writing, ending, tabTables
<1>4. CASE RenameRows
  <2>1. galleries' \in [Galleries -> TabRow]
    BY <1>1, <1>4, RowTyped DEF RenameRows, TabsTypeOK
  <2>2. operation' \in Operations
    BY <1>2, <1>4 DEF RenameRows, Kinds
  <2> QED
    BY <1>4, <2>1, <2>2 DEF RenameRows, TabsTypeOK, writing, ending
<1>5. CASE RenameItems
  BY <1>1, <1>2, <1>5 DEF RenameItems, TabsTypeOK, writing, ending, tabTables
<1>6. CASE DeleteMoves \/ DeleteReassigns
  <2>1. galleries' \in [Galleries -> TabRow]
    BY <1>1, <1>6, RowTyped DEF DeleteMoves, DeleteReassigns, ToMain, TabsTypeOK
  <2>2. operation' \in Operations
    BY <1>2, <1>6 DEF DeleteMoves, DeleteReassigns, Kinds
  <2> QED
    BY <1>6, <2>1, <2>2 DEF DeleteMoves, DeleteReassigns, TabsTypeOK, writing, ending
<1>7. CASE DeleteDrops
  <2>1. operation.tab # MainTab
    BY <1>7 DEF DeleteDrops, Doing, Deleting, OperationApplies
  <2> QED
    BY <1>1, <1>2, <1>7, <2>1, MainExists DEF DeleteDrops, TabsTypeOK, NamesOrNone, writing, ending
<1> QED
  BY <1>3, <1>4, <1>5, <1>6, <1>7 DEF OperationStep

LEMMA LookUpTyped ==
    ASSUME TabsTypeOK, NEW thread \in Threads, NEW g \in Galleries, NEW name,
           LooksUp(thread, g, name)
    PROVE  upserts' \in [Threads -> [of : SUBSET Galleries, row : TabRow]]
<1>1. RowOf(IdOf(tabs, name)) \in TabRow
  BY LookedUp, RowTyped DEF TabsTypeOK, Table
<1> QED
  BY <1>1 DEF LooksUp, TabsTypeOK

\* The threads.
LEMMA GalleryStepsTyped ==
    ASSUME TabsTypeOK, NEW g \in Galleries, GalleryStep(g)
    PROVE  TabsTypeOK'
<1>1. CASE HostRow(g)
  <2>1. MainRow \in TabRow
    BY MainExists, RowTyped
  <2> QED
    BY <1>1, <2>1 DEF HostRow, TabsTypeOK, writing, ending
<1>2. CASE TabScanEnds(g) \/ SaveOne(g)
  <2>1. saves' \in Seq([Galleries -> NamesOrNone])
    BY <1>2, SnapshotTyped, Grown DEF TabScanEnds, SaveOne, TabsTypeOK
  <2> QED
    BY <1>2, <2>1 DEF TabScanEnds, SaveOne, TabsTypeOK, tabTables, ending
<1>3. CASE TabUploadBegins(g) \/ TabScanBegins(g)
  BY <1>3 DEF TabUploadBegins, TabScanBegins, TabsTypeOK, tabTables, writing, ending
<1>4. CASE TabUploadEnds(g)
  <2>1. upserts' \in [Threads -> [of : SUBSET Galleries, row : TabRow]]
    BY <1>4, LookUpTyped DEF TabUploadEnds, TabsTypeOK, Threads
  <2> QED
    BY <1>4, <2>1 DEF TabUploadEnds, TabsTypeOK, tabTables, ending
<1>5. CASE WriterLooksUp(g)
  <2>1. upserts' \in [Threads -> [of : SUBSET Galleries, row : TabRow]]
    BY <1>5, LookUpTyped DEF WriterLooksUp, TabsTypeOK, Threads
  <2>2. saves' \in Seq([Galleries -> NamesOrNone])
    BY <1>5, WriterTakes
  <2> QED
    BY <1>5, <2>1, <2>2 DEF WriterLooksUp, TabsTypeOK, tabTables, ending
<1> QED
  BY <1>1, <1>2, <1>3, <1>4, <1>5 DEF GalleryStep

LEMMA OtherStepsTyped ==
    ASSUME TabsTypeOK,
           \/ \E P \in SUBSET Galleries : SaveTabs(P)
           \/ \E w \in Threads : Inserts(w)
           \/ QuitTabs \/ Relaunch \/ UNCHANGED tabVars
    PROVE  TabsTypeOK'
<1>1. ASSUME NEW P \in SUBSET Galleries, SaveTabs(P)
      PROVE  TabsTypeOK'
  <2>1. saves' \in Seq([Galleries -> NamesOrNone])
    BY <1>1, SnapshotTyped, Grown DEF SaveTabs, TabsTypeOK
  <2> QED
    BY <1>1, <2>1 DEF SaveTabs, TabsTypeOK, tabTables
<1>2. ASSUME NEW w \in Threads, Inserts(w)
      PROVE  TabsTypeOK'
  <2>1. upserts[w].row \in TabRow
    BY DEF TabsTypeOK
  <2>2. NoUpsert \in [of : SUBSET Galleries, row : TabRow]
    BY NoRowTyped DEF NoUpsert
  <2> QED
    BY <1>2, <2>1, <2>2 DEF Inserts, TabsTypeOK, ending
<1>3. CASE QuitTabs
  <2>1. covered' \subseteq Galleries
    BY <1>3 DEF QuitTabs, AtRest
  <2>2. saves' \in Seq([Galleries -> NamesOrNone])
    <3>1. saves' = saves \/ HandOver(Snapshot(covered'))
      BY <1>3 DEF QuitTabs
    <3> QED
      BY <3>1, Grown, SnapshotTyped DEF TabsTypeOK
  <2> QED
    BY <1>3, <2>1, <2>2 DEF QuitTabs, TabsTypeOK, tabTables
<1>4. CASE Relaunch
  <2>1. chosen' \in [Galleries -> TabIds]
    BY <1>4, LookedUp DEF Relaunch, TabsTypeOK, Table
  <2>2. items' \in [Galleries -> NamesOrNone]
    BY <1>4 DEF Relaunch, TabsTypeOK, TabRow
  <2>3. saves' \in Seq([Galleries -> NamesOrNone])
    BY <1>4 DEF Relaunch
  <2>4. upserts' \in [Threads -> [of : SUBSET Galleries, row : TabRow]]
    BY <1>4, NoRowTyped DEF Relaunch, NoUpsert
  <2>5. operation' \in Operations
    BY <1>4, MainExists, OperationTyped DEF Relaunch, Idle, Kinds, NamesOrNone
  <2> QED
    BY <1>4, <2>1, <2>2, <2>3, <2>4, <2>5 DEF Relaunch, TabsTypeOK, tabTables
<1>5. CASE UNCHANGED tabVars
  BY <1>5 DEF tabVars, tabTables, writing, ending, TabsTypeOK
<1> QED
  BY <1>1, <1>2, <1>3, <1>4, <1>5

-----------------------------------------------------------------------------
(* The names that items carry lead to the chosen tabs.                     *)

Filed == TabsTypeOK /\ UniqueNames /\ OperationApplies /\ Resolves

LEMMA OwnTab ==
    ASSUME TabsTypeOK, UniqueNames, NEW t \in TabIds, Exists(t)
    PROVE  IdOf(tabs, tabs[t]) = t
  BY LookedUp DEF TabsTypeOK, Table, UniqueNames, Exists

\* Idle, or about something else than a name.
LEMMA NotRenaming ==
    ASSUME Filed, NEW g \in Galleries, Known(g), ~Renaming
    PROVE  chosen[g] = IdOf(tabs, items[g])
  BY DEF Filed, Resolves

LEMMA IdleIsNeither ==
    ASSUME Doing("idle") \/ Doing("move items")
    PROVE  ~Renaming /\ ~Deleting
  BY DEF Doing, Renaming, Deleting

\* A change to the table that gives no name away which an item other than those
\* of the operation carries.
LEMMA SameLookUp ==
    ASSUME Filed, TabsTypeOK', NEW name \in NamesOrNone, name # NoName,
           \A t \in TabIds : tabs[t] = name <=> tabs'[t] = name
    PROVE  IdOf(tabs', name) = IdOf(tabs, name)
<1>1. Table(tabs) /\ Table(tabs')
  BY DEF Filed, TabsTypeOK, Table
<1>2. \A t, u \in TabIds : tabs[t] = name /\ tabs[u] = name /\ name # NoName => t = u
  BY DEF Filed, UniqueNames, Exists
<1> QED
  BY <1>1, <1>2, SameTab

LEMMA CreateFiles ==
    ASSUME Filed, TabsTypeOK', ~NamesReturn, NEW t \in TabIds, NEW name \in TabNames, CreateTab(t, name)
    PROVE  UniqueNames' /\ OperationApplies' /\ Resolves'
<1>1. /\ Doing("idle") /\ operation' = operation /\ items' = items /\ chosen' = chosen
      /\ tabs' = [tabs EXCEPT ![t] = name] /\ tabs[t] = NoName /\ ~Carried(name)
      /\ \A u \in TabIds : tabs[u] # name
  BY DEF CreateTab, AtUser, Fresh, Exists
<1>2. tabs \in [TabIds -> NamesOrNone] /\ items \in [Galleries -> NamesOrNone]
  BY DEF Filed, TabsTypeOK
<1>3. UniqueNames'
  BY <1>1, <1>2, MainExists DEF Filed, UniqueNames, Exists
<1>4. ~Renaming /\ ~Renaming' /\ OperationApplies'
  BY <1>1, IdleIsNeither DEF OperationApplies, Renaming, Deleting, Doing
<1>5. ASSUME NEW g \in Galleries, items[g] # NoName
      PROVE  chosen'[g] = IdOf(tabs', items'[g])
  <2>1. items[g] # name
    BY <1>1 DEF Carried
  <2>2. \A u \in TabIds : tabs[u] = items[g] <=> tabs'[u] = items[g]
    BY <1>1, <1>2, <1>5, <2>1
  <2>3. IdOf(tabs', items[g]) = IdOf(tabs, items[g])
    BY <1>2, <1>5, <2>2, SameLookUp
  <2> QED
    BY <1>1, <1>4, <1>5, <2>3, NotRenaming DEF Known
<1> QED
  BY <1>1, <1>3, <1>4, <1>5 DEF Resolves, Known

LEMMA RenameFiles ==
    ASSUME Filed, TabsTypeOK', ~NamesReturn, NEW t \in TabIds, NEW name \in TabNames, RenameTab(t, name)
    PROVE  UniqueNames' /\ OperationApplies' /\ Resolves'
<1>1. /\ Doing("idle") /\ items' = items /\ chosen' = chosen
      /\ tabs' = [tabs EXCEPT ![t] = name] /\ tabs[t] # NoName /\ t # MainTab /\ ~Carried(name)
      /\ \A u \in TabIds : tabs[u] # name
      /\ operation' = Operation("rename rows", t, tabs[t], {})
  BY DEF RenameTab, AtUser, Fresh, Exists
<1>2. tabs \in [TabIds -> NamesOrNone] /\ items \in [Galleries -> NamesOrNone]
  BY DEF Filed, TabsTypeOK
<1>3. UniqueNames'
  BY <1>1, <1>2, MainExists DEF Filed, UniqueNames, Exists
<1>4. \A u \in TabIds : tabs'[u] # tabs[t]
  BY <1>1, <1>2 DEF Filed, UniqueNames, Exists
<1>5. Renaming' /\ operation'.tab = t /\ operation'.name = tabs[t]
  BY <1>1 DEF Operation, Renaming
<1>6. OperationApplies'
  <2>1. tabs'[t] # NoName
    BY <1>1, <1>2, MainExists
  <2> QED
    BY <1>1, <1>4, <1>5, <2>1 DEF OperationApplies, Exists
<1>7. ASSUME NEW g \in Galleries, items[g] # NoName
      PROVE  chosen'[g] = IF items[g] = tabs[t] THEN t ELSE IdOf(tabs', items[g])
  <2>1. chosen[g] = IdOf(tabs, items[g])
    BY <1>1, <1>7, IdleIsNeither, NotRenaming DEF Known
  <2>2. CASE items[g] = tabs[t]
    BY <1>1, <2>1, <2>2, OwnTab DEF Filed, Exists
  <2>3. CASE items[g] # tabs[t]
    <3>1. items[g] # name
      BY <1>1 DEF Carried
    <3>2. \A u \in TabIds : tabs[u] = items[g] <=> tabs'[u] = items[g]
      BY <1>1, <1>2, <2>3, <3>1
    <3>3. IdOf(tabs', items[g]) = IdOf(tabs, items[g])
      BY <1>2, <1>7, <3>2, SameLookUp
    <3> QED
      BY <1>1, <2>1, <2>3, <3>3
  <2> QED
    BY <2>2, <2>3
<1> QED
  BY <1>1, <1>3, <1>5, <1>6, <1>7 DEF Resolves, Known

LEMMA DropFiles ==
    ASSUME Filed, TabsTypeOK', DeleteDrops
    PROVE  UniqueNames' /\ OperationApplies' /\ Resolves'
<1> DEFINE d == operation.tab
<1>1. /\ operation' = Idle /\ items' = items /\ tabs' = [tabs EXCEPT ![d] = NoName]
      /\ chosen' = [g \in Galleries |-> IF chosen[g] = d THEN MainTab ELSE chosen[g]]
      /\ ~Renaming /\ d # MainTab
  BY DEF DeleteDrops, Filed, OperationApplies, Doing, Renaming, Deleting
<1>2. /\ tabs \in [TabIds -> NamesOrNone] /\ items \in [Galleries -> NamesOrNone]
      /\ d \in TabIds /\ Table(tabs) /\ Table(tabs')
  BY DEF Filed, TabsTypeOK, Operations, Table
<1>3. UniqueNames'
  BY <1>1, <1>2 DEF Filed, UniqueNames, Exists
<1>4. ~Renaming' /\ OperationApplies'
  BY <1>1 DEF OperationApplies, Renaming, Deleting, Doing, Idle, Operation
<1>5. ASSUME NEW g \in Galleries, items[g] # NoName
      PROVE  chosen'[g] = IdOf(tabs', items'[g])
  <2>1. chosen[g] = IdOf(tabs, items[g])
    BY <1>1, <1>5, NotRenaming DEF Known
  <2>2. CASE chosen[g] = d
    <3>1. tabs[d] = items[g]
      <4>1. IdOf(tabs, items[g]) = d /\ d # MainTab
        BY <1>1, <2>1, <2>2
      <4>2. PICK t \in TabIds : tabs[t] = items[g]
        BY <1>2, <4>1, LookedUp
      <4> QED
        BY <1>2, <1>5, <4>1, <4>2, LookedUp
    <3>2. \A u \in TabIds : tabs'[u] # items[g]
      BY <1>1, <1>2, <1>5, <3>1 DEF Filed, UniqueNames, Exists
    <3> QED
      BY <1>1, <1>2, <2>2, <3>2, LookedUp
  <2>3. CASE chosen[g] # d
    <3>1. tabs[d] # items[g]
      BY <1>2, <1>5, <2>1, <2>3, OwnTab DEF Filed, Exists
    <3>2. \A u \in TabIds : tabs[u] = items[g] <=> tabs'[u] = items[g]
      BY <1>1, <1>2, <1>5, <3>1
    <3>3. IdOf(tabs', items[g]) = IdOf(tabs, items[g])
      BY <1>2, <1>5, <3>2, SameLookUp
    <3> QED
      BY <1>1, <2>1, <2>3, <3>3
  <2> QED
    BY <2>2, <2>3
<1> QED
  BY <1>1, <1>3, <1>4, <1>5 DEF Resolves, Known

LEMMA BegunOrIdle ==
    ASSUME Doing("idle"), NEW t, NEW P,
           operation' = operation \/ operation' = Operation("move items", t, NoName, P)
    PROVE  ~Renaming' /\ ~Deleting' /\ (Doing("move items")' => operation'.tab = t)
<1>1. CASE operation' = operation
  BY <1>1 DEF Renaming, Deleting, Doing
<1>2. CASE operation' = Operation("move items", t, NoName, P)
  <2>1. operation'.kind = "move items" /\ operation'.tab = t
    BY <1>2 DEF Operation
  <2> QED
    BY <2>1 DEF Renaming, Deleting, Doing
<1> QED
  BY <1>1, <1>2

\* Additions and the items' part of a move: an item takes the name of a tab.
LEMMA ItemsFile ==
    ASSUME Filed,
           \/ MoveItems
           \/ \E g \in Galleries, t \in TabIds : AddGallery(g, t)
    PROVE  UniqueNames' /\ OperationApplies' /\ Resolves'
<1>1. /\ tabs \in [TabIds -> NamesOrNone] /\ items \in [Galleries -> NamesOrNone]
      /\ chosen \in [Galleries -> TabIds]
      /\ operation.tab \in TabIds /\ tabs[MainTab] = "Main"
  BY DEF Filed, TabsTypeOK, Operations
<1>2. CASE MoveItems
  <2>1. ~Renaming /\ Exists(operation.tab) /\ tabs' = tabs /\ operation' = Idle
    BY <1>2, IdleIsNeither DEF MoveItems, Filed, OperationApplies, Doing, tabTables
  <2>2. UniqueNames' /\ OperationApplies' /\ ~Renaming'
    BY <2>1 DEF Filed, UniqueNames, OperationApplies, Exists, Renaming, Deleting, Doing, Idle, Operation
  <2>3. ASSUME NEW g \in Galleries, items'[g] # NoName
        PROVE  chosen'[g] = IdOf(tabs, items'[g])
    <3>1. /\ items'[g] = IF g \in operation.of THEN tabs[operation.tab] ELSE items[g]
          /\ chosen'[g] = IF g \in operation.of THEN operation.tab ELSE chosen[g]
      BY <1>2 DEF MoveItems
    <3> QED
      BY <1>1, <2>1, <2>3, <3>1, NotRenaming, OwnTab DEF Filed, Known
  <2> QED
    BY <2>1, <2>2, <2>3 DEF Resolves, Known
<1>3. ASSUME NEW h \in Galleries, NEW t \in TabIds, AddGallery(h, t)
      PROVE  UniqueNames' /\ OperationApplies' /\ Resolves'
  <2>1. Doing("idle") /\ Exists(t) /\ tabs' = tabs
    BY <1>3 DEF AddGallery, AtUser, tabTables
  <2>2. operation' = operation \/ operation' = Operation("move items", t, NoName, {h})
    BY <1>3 DEF AddGallery
  <2>3. UniqueNames' /\ ~Renaming /\ ~Renaming'
    BY <2>1, <2>2, IdleIsNeither, BegunOrIdle DEF Filed, UniqueNames, Exists
  <2>4. OperationApplies'
    BY <2>1, <2>2, BegunOrIdle DEF OperationApplies, Exists
  <2>5. \/ items' = [items EXCEPT ![h] = tabs[t]] /\ chosen' = [chosen EXCEPT ![h] = t]
        \/ items' = [items EXCEPT ![h] = tabs[MainTab]] /\ chosen' = [chosen EXCEPT ![h] = MainTab]
    BY <1>1, <1>3 DEF AddGallery
  <2>6. Exists(MainTab) /\ MainTab \in TabIds
    BY <1>1, MainExists DEF Exists
  <2>7. ASSUME NEW g \in Galleries, items'[g] # NoName
        PROVE  chosen'[g] = IdOf(tabs, items'[g])
    <3>1. CASE g = h
      BY <1>1, <2>1, <2>5, <2>6, <3>1, OwnTab DEF Filed
    <3>2. CASE g # h
      BY <1>1, <2>3, <2>5, <2>7, <3>2, NotRenaming DEF Known
    <3> QED
      BY <3>1, <3>2
  <2> QED
    BY <2>1, <2>3, <2>4, <2>7 DEF Resolves, Known
<1> QED
  BY <1>2, <1>3

LEMMA RenameItemsFiles ==
    ASSUME Filed, RenameItems
    PROVE  UniqueNames' /\ OperationApplies' /\ Resolves'
<1> DEFINE t == operation.tab
<1>1. /\ Renaming /\ tabs' = tabs /\ chosen' = chosen /\ operation' = Idle
      /\ Exists(t) /\ t \in TabIds /\ operation.name # NoName
  BY DEF RenameItems, Filed, TabsTypeOK, Operations, OperationApplies, Renaming, Doing, tabTables
<1>2. UniqueNames' /\ OperationApplies' /\ ~Renaming'
  BY <1>1 DEF Filed, UniqueNames, OperationApplies, Exists, Renaming, Deleting, Doing, Idle, Operation
<1>3. ASSUME NEW g \in Galleries, items'[g] # NoName
      PROVE  chosen[g] = IdOf(tabs, items'[g])
  <2>1. items'[g] = IF items[g] = operation.name THEN tabs[t] ELSE items[g]
    BY DEF RenameItems
  <2>2. Known(g)
    BY <1>1, <1>3, <2>1 DEF Known
  <2> QED
    BY <1>1, <2>1, <2>2, OwnTab DEF Filed, Resolves
<1> QED
  BY <1>1, <1>2, <1>3 DEF Resolves, Known

\* The rows' part of a rename or a deletion, and the steps that begin with the rows.
LEMMA RowsFile ==
    ASSUME Filed,
           \/ RenameRows \/ DeleteMoves \/ DeleteReassigns
           \/ \E t \in TabIds : DeleteTab(t) \/ \E P \in SUBSET Galleries : MoveGalleries(P, t)
    PROVE  UniqueNames' /\ OperationApplies' /\ Resolves'
<1>1. tabs' = tabs /\ items' = items /\ chosen' = chosen
  BY DEF RenameRows, DeleteMoves, DeleteReassigns, DeleteTab, MoveGalleries, tabTables
<1>2. UniqueNames'
  BY <1>1 DEF Filed, UniqueNames, Exists
<1>3. CASE RenameRows \/ DeleteMoves \/ DeleteReassigns
  <2>1. /\ Renaming' <=> Renaming
        /\ Deleting' <=> Deleting
        /\ operation'.tab = operation.tab /\ operation'.name = operation.name
        /\ ~Doing("move items")'
    BY <1>3 DEF RenameRows, DeleteMoves, DeleteReassigns, Doing, Renaming, Deleting,
                Filed, TabsTypeOK, Operations
  <2> QED
    BY <1>1, <1>2, <2>1 DEF Filed, OperationApplies, Resolves, Exists, Known
<1>4. ASSUME NEW t \in TabIds, DeleteTab(t)
      PROVE  OperationApplies' /\ Resolves'
  <2>1. /\ ~Renaming' /\ ~Doing("move items")' /\ operation'.tab = t /\ t # MainTab /\ Doing("idle")
    BY <1>4 DEF DeleteTab, AtUser, Renaming, Doing, Operation
  <2> QED
    BY <1>1, <2>1, IdleIsNeither DEF Filed, OperationApplies, Resolves, Known
<1>5. ASSUME NEW t \in TabIds, NEW P \in SUBSET Galleries, MoveGalleries(P, t)
      PROVE  OperationApplies' /\ Resolves'
  <2>1. /\ Doing("idle") /\ Exists(t)
        /\ operation' = operation \/ operation' = Operation("move items", t, NoName, P)
    BY <1>5 DEF MoveGalleries, AtUser
  <2>2. ~Renaming' /\ ~Deleting' /\ (Doing("move items")' => operation'.tab = t)
    BY <2>1, BegunOrIdle
  <2> QED
    BY <1>1, <2>1, <2>2, IdleIsNeither DEF Filed, OperationApplies, Resolves, Known, Exists
<1> QED
  BY <1>2, <1>3, <1>4, <1>5

LEMMA RelaunchFiles ==
    ASSUME Filed, Relaunch
    PROVE  UniqueNames' /\ OperationApplies' /\ Resolves'
<1>1. tabs' = tabs /\ operation' = Idle
  BY DEF Relaunch, tabTables
<1>2. UniqueNames' /\ OperationApplies' /\ ~Renaming'
  BY <1>1 DEF Filed, UniqueNames, OperationApplies, Exists, Renaming, Deleting, Doing, Idle, Operation
<1>3. \A g \in Galleries : chosen'[g] = IdOf(tabs, items'[g])
  BY DEF Relaunch
<1> QED
  BY <1>1, <1>2, <1>3 DEF Resolves, Known

\* Every other step leaves the tabs, the items and the operation alone.
Quiet == tabs' = tabs /\ items' = items /\ operation' = operation /\ chosen' = chosen

LEMMA QuietSteps ==
    ASSUME \/ \E g \in Galleries : GalleryStep(g)
           \/ \E P \in SUBSET Galleries : SaveTabs(P)
           \/ \E w \in Threads : Inserts(w)
           \/ QuitTabs \/ UNCHANGED tabVars
    PROVE  Quiet
  BY DEF Quiet, GalleryStep, HostRow, SaveOne, TabScanBegins, TabScanEnds, TabUploadBegins,
         TabUploadEnds, WriterLooksUp, SaveTabs, Inserts, QuitTabs, tabVars, tabTables

LEMMA QuietFiles ==
    ASSUME Filed, Quiet
    PROVE  UniqueNames' /\ OperationApplies' /\ Resolves'
  BY DEF Filed, Quiet, UniqueNames, OperationApplies, Resolves, Exists, Known, Renaming, Deleting, Doing

-----------------------------------------------------------------------------
(* What is written after the shutdown.                                     *)

Held(g) == Known(g) /\ Settled(g) /\ UploadAgrees(g)

LEMMA CoveredIsChosen ==
    ASSUME IInv, NEW g \in covered
    PROVE  /\ g \in Galleries /\ Held(g) /\ quit /\ Doing("idle")
           /\ chosen[g] = IdOf(tabs, items[g]) /\ RowOf(IdOf(tabs, items[g])) = Chosen(g)
           /\ Chosen(g) # NoRow
<1>1. g \in Galleries /\ Held(g) /\ quit /\ Doing("idle")
  BY DEF IInv, Covers, Held, TabsTypeOK
<1>2. chosen[g] = IdOf(tabs, items[g])
  BY <1>1, IdleIsNeither, NotRenaming DEF IInv, Filed, Held
<1>3. tabs[chosen[g]] # NoName
  BY <1>2, LookedUp DEF IInv, TabsTypeOK, Table
<1>4. Chosen(g).name = tabs[chosen[g]] /\ NoRow.name = NoName
  BY DEF Chosen, Row, NoRow
<1> QED
  BY <1>1, <1>2, <1>3, <1>4 DEF Chosen, Row, RowOf

\* The saves of one gallery, as the queue of them changes.
LEMMA Appended ==
    ASSUME NEW q, NEW r, NEW n \in Nat, DOMAIN q = 1..n, DOMAIN r = 1..(n + 1),
           \A i \in 1..n : r[i] = q[i],
           NEW g, NEW name, r[n + 1][g] = NoName \/ r[n + 1][g] = name
    PROVE  /\ EndsWith(q, g, name) => EndsWith(r, g, name)
           /\ Agrees(q, g, name, 0) => Agrees(r, g, name, 0)
<1>1. \A i \in 1..(n + 1) : i = n + 1 \/ i \in 1..n
  OBVIOUS
<1>2. \A i \in 1..n : i \in 1..(n + 1)
  OBVIOUS
<1>3. ASSUME NEW from, Agrees(q, g, name, from)
      PROVE  Agrees(r, g, name, from)
  BY <1>1, <1>3 DEF Agrees
<1> QED
  BY <1>2, <1>3 DEF EndsWith

LEMMA Shifted ==
    ASSUME NEW q, NEW r, NEW n \in Nat \ {0}, DOMAIN q = 1..n, DOMAIN r = 1..(n - 1),
           \A i \in 1..(n - 1) : r[i] = q[i + 1], NEW g, NEW name
    PROVE  /\ Agrees(q, g, name, 0) => Agrees(r, g, name, 0)
           /\ EndsWith(q, g, name) /\ (~Agrees(q, g, name, 0) \/ q[1][g] # name) => EndsWith(r, g, name)
<1>1. \A i \in 1..(n - 1) : i \in Nat /\ i > 0 /\ i + 1 \in 1..n /\ i + 1 > 0
  OBVIOUS
<1>2. Agrees(q, g, name, 0) => Agrees(r, g, name, 0)
  BY <1>1 DEF Agrees
<1>3. ASSUME EndsWith(q, g, name), ~Agrees(q, g, name, 0) \/ q[1][g] # name
      PROVE  EndsWith(r, g, name)
  <2>1. PICK i \in 1..n : q[i][g] = name /\ Agrees(q, g, name, i)
    BY <1>3 DEF EndsWith
  <2>2. i # 1
    <3>1. \A j \in 1..n : j = 1 \/ j > 1
      OBVIOUS
    <3> QED
      BY <1>3, <2>1, <3>1 DEF Agrees
  <2>3. i \in Nat /\ i - 1 \in 1..(n - 1) /\ (i - 1) + 1 = i
    BY <2>2
  <2>4. r[i - 1][g] = name
    BY <2>1, <2>3
  <2>5. \A j \in 1..(n - 1) : j > i - 1 => j + 1 > i
    BY <2>3
  <2>6. Agrees(r, g, name, i - 1)
    BY <1>1, <2>1, <2>5 DEF Agrees
  <2> QED
    BY <2>3, <2>4, <2>6 DEF EndsWith
<1> QED
  BY <1>2, <1>3

LEMMA Trimmed ==
    ASSUME NEW q, NEW r, NEW n \in Nat \ {0}, DOMAIN q = 1..n, DOMAIN r = 1..n,
           \A i \in 1..n : i # 1 => r[i] = q[i],
           NEW g, NEW name, r[1][g] = NoName \/ r[1][g] = q[1][g]
    PROVE  /\ Agrees(q, g, name, 0) => Agrees(r, g, name, 0)
           /\ EndsWith(q, g, name) /\ (~Agrees(q, g, name, 0) \/ r[1][g] = q[1][g]) => EndsWith(r, g, name)
<1>1. Agrees(q, g, name, 0) => Agrees(r, g, name, 0)
  BY DEF Agrees
<1>2. ASSUME EndsWith(q, g, name), ~Agrees(q, g, name, 0) \/ r[1][g] = q[1][g]
      PROVE  EndsWith(r, g, name)
  <2>1. PICK i \in 1..n : q[i][g] = name /\ Agrees(q, g, name, i)
    BY <1>2 DEF EndsWith
  <2>2. \A j \in 1..n : j = 1 \/ j > 1
    OBVIOUS
  <2>3. i # 1 \/ r[1][g] = q[1][g]
    BY <1>2, <2>1, <2>2 DEF Agrees
  <2>4. \A j \in 1..n : j > i => j # 1
    BY <2>2
  <2> QED
    BY <2>1, <2>3, <2>4 DEF EndsWith, Agrees
<1> QED
  BY <1>1, <1>2

\* A save appended to the others that has the name of the item, or does not have g.
LEMMA AppendHolds ==
    ASSUME TabsTypeOK, NEW g \in Galleries, Settled(g), Quiet,
           galleries' = galleries, upserts' = upserts, NEW P, HandOver(Snapshot(P))
    PROVE  Settled(g)'
<1> DEFINE n == Len(saves)
<1>1. /\ n \in Nat /\ DOMAIN saves = 1..n /\ DOMAIN saves' = 1..(n + 1) /\ saves'[n + 1] = Snapshot(P)
      /\ \A i \in 1..n : saves'[i] = saves[i]
  BY SnapshotTyped, Grown DEF TabsTypeOK
<1>2. saves'[n + 1][g] = NoName \/ saves'[n + 1][g] = items[g]
  BY <1>1 DEF Snapshot
<1>3. items' = items /\ Chosen(g)' = Chosen(g)
  BY DEF Quiet, Chosen, Row
<1>4. /\ EndsWith(saves, g, items[g]) => EndsWith(saves', g, items[g])
      /\ Agrees(saves, g, items[g], 0) => Agrees(saves', g, items[g], 0)
  <2> HIDE DEF n
  <2> QED
    BY <1>1, <1>2, Appended
<1> QED
  BY <1>3, <1>4 DEF Settled

LEMMA WriterHolds ==
    ASSUME IInv, NEW g \in covered, NEW h \in Galleries, WriterLooksUp(h)
    PROVE  Settled(g)'
<1> DEFINE n == Len(saves)
           name == items[g]
<1>1. /\ n \in Nat \ {0} /\ DOMAIN saves = 1..n /\ 1 \in 1..n
      /\ saves[1][h] # NoName /\ LooksUp("store", h, saves[1][h])
  <2>1. /\ n \in Nat \ {0} /\ DOMAIN saves = 1..n
        /\ saves[1][h] # NoName /\ LooksUp("store", h, saves[1][h])
    BY WriterTakes DEF IInv
  <2>2. \A m \in Nat \ {0} : 1 \in 1..m
    OBVIOUS
  <2> QED
    BY <2>1, <2>2
<1>2. /\ g \in Galleries /\ name # NoName /\ Settled(g) /\ RowOf(IdOf(tabs, name)) = Chosen(g)
  BY CoveredIsChosen DEF Held, Known
<1>3. items' = items /\ galleries' = galleries /\ Chosen(g)' = Chosen(g)
  BY DEF WriterLooksUp, Chosen, Row, tabTables
<1>4. /\ upserts["store"].of = {}
      /\ upserts'["store"] = [of |-> {h}, row |-> RowOf(IdOf(tabs, saves[1][h]))]
  BY <1>1 DEF LooksUp, NoUpsert, Threads, IInv, TabsTypeOK
<1>5. saves[1] \in [Galleries -> NamesOrNone]
  <2>1. saves \in Seq([Galleries -> NamesOrNone])
    BY DEF IInv, TabsTypeOK
  <2> QED
    BY <1>1, <2>1, ElementOfSeq
<1>6. /\ Agrees(saves, g, name, 0) => Agrees(saves', g, name, 0)
      /\ EndsWith(saves, g, name) /\ (~Agrees(saves, g, name, 0) \/ g # h) => EndsWith(saves', g, name)
  <2>1. CASE /\ \A u \in Galleries : u # h => saves[1][u] = NoName
             /\ DOMAIN saves' = 1..(n - 1)
             /\ \A i \in 1..(n - 1) : saves'[i] = saves[i + 1]
    <3>1. g # h => saves[1][g] # name
      BY <1>2, <2>1
    <3>2. n \in Nat \ {0} /\ DOMAIN saves = 1..n
      BY <1>1
    <3> HIDE DEF n, name
    <3>3. /\ Agrees(saves, g, name, 0) => Agrees(saves', g, name, 0)
          /\ EndsWith(saves, g, name) /\ (~Agrees(saves, g, name, 0) \/ saves[1][g] # name)
             => EndsWith(saves', g, name)
      BY <2>1, <3>2, Shifted
    <3> QED
      BY <3>1, <3>3
  <2>2. CASE /\ DOMAIN saves' = 1..n
             /\ saves'[1] = [saves[1] EXCEPT ![h] = NoName]
             /\ \A i \in 1..n : i # 1 => saves'[i] = saves[i]
    <3>1. saves'[1][g] = NoName \/ saves'[1][g] = saves[1][g]
      BY <1>2, <1>5, <2>2
    <3>2. g # h => saves'[1][g] = saves[1][g]
      BY <1>2, <1>5, <2>2
    <3>3. n \in Nat \ {0} /\ DOMAIN saves = 1..n
      BY <1>1
    <3> HIDE DEF n, name
    <3>4. /\ Agrees(saves, g, name, 0) => Agrees(saves', g, name, 0)
          /\ EndsWith(saves, g, name) /\ (~Agrees(saves, g, name, 0) \/ saves'[1][g] = saves[1][g])
             => EndsWith(saves', g, name)
      BY <2>2, <3>1, <3>3, Trimmed
    <3> QED
      BY <3>2, <3>4
  <2> QED
    BY <2>1, <2>2, WriterTakes DEF IInv
<1>7. CASE EndsWith(saves, g, name) /\ (~Agrees(saves, g, name, 0) \/ g # h)
  BY <1>3, <1>6, <1>7 DEF Settled
<1>8. CASE ~EndsWith(saves, g, name) /\ g # h
  BY <1>2, <1>3, <1>4, <1>6, <1>8 DEF Settled
<1>9. CASE Agrees(saves, g, name, 0) /\ g = h
  <2>1. 1 > 0
    OBVIOUS
  <2>2. saves[1][g] = name
    <3>1. saves[1][g] # NoName
      BY <1>1, <1>9
    <3> HIDE DEF n, name
    <3> QED
      BY <1>1, <1>9, <2>1, <3>1 DEF Agrees
  <2> QED
    BY <1>2, <1>3, <1>4, <1>6, <1>9, <2>2 DEF Settled
<1> QED
  BY <1>2, <1>7, <1>8, <1>9 DEF Settled

\* Steps of the threads: what they write of a covered gallery is what was chosen.
LEMMA GalleryStepHolds ==
    ASSUME IInv, NEW g \in covered, NEW h \in Galleries, GalleryStep(h)
    PROVE  Settled(g)' /\ UploadAgrees(g)'
<1>1. /\ g \in Galleries /\ Settled(g) /\ UploadAgrees(g) /\ Chosen(g) # NoRow
      /\ RowOf(IdOf(tabs, items[g])) = Chosen(g)
  BY CoveredIsChosen DEF Held
<1>2. Quiet /\ items' = items /\ Chosen(g)' = Chosen(g)
  BY QuietSteps DEF Quiet, Chosen, Row
<1>3. galleries \in [Galleries -> TabRow] /\ upserts \in [Threads -> [of : SUBSET Galleries, row : TabRow]]
  BY DEF IInv, TabsTypeOK
<1>4. CASE HostRow(h)
  <2>1. /\ saves' = saves /\ upserts' = upserts /\ galleries[h] = NoRow
        /\ galleries' = [galleries EXCEPT ![h] = MainRow]
    BY <1>4 DEF HostRow, HasRow, writing
  <2>2. galleries[g] = Chosen(g) => galleries'[g] = galleries[g]
    BY <1>1, <1>3, <2>1
  <2> QED
    BY <1>1, <1>2, <2>1, <2>2 DEF Settled, UploadAgrees
<1>5. CASE TabScanEnds(h) \/ SaveOne(h)
  <2>1. upserts' = upserts /\ galleries' = galleries
    BY <1>5 DEF TabScanEnds, SaveOne, tabTables
  <2>2. CASE saves' = saves
    BY <1>1, <1>2, <2>1, <2>2 DEF Settled, UploadAgrees
  <2>3. CASE HandOver(Snapshot({h}))
    BY <1>1, <1>2, <2>1, <2>3, AppendHolds DEF IInv, UploadAgrees
  <2> QED
    BY <1>5, <2>2, <2>3 DEF TabScanEnds, SaveOne
<1>6. CASE TabUploadBegins(h) \/ TabScanBegins(h)
  BY <1>1, <1>2, <1>6 DEF TabUploadBegins, TabScanBegins, Settled, UploadAgrees, tabTables, writing
<1>7. CASE TabUploadEnds(h)
  <2>1. saves' = saves /\ galleries' = galleries
    BY <1>7 DEF TabUploadEnds, tabTables
  <2>2. CASE upserts' = upserts
    BY <1>1, <1>2, <2>1, <2>2 DEF Settled, UploadAgrees
  <2>3. CASE LooksUp("upload", h, items[h])
    <3>1. /\ upserts'["store"] = upserts["store"]
          /\ upserts'["upload"] = [of |-> {h}, row |-> RowOf(IdOf(tabs, items[h]))]
      BY <1>3, <2>3 DEF LooksUp, Threads
    <3>2. Settled(g)'
      BY <1>1, <1>2, <2>1, <3>1 DEF Settled
    <3>3. UploadAgrees(g)'
      BY <1>1, <1>2, <3>1 DEF UploadAgrees
    <3> QED
      BY <3>2, <3>3
  <2> QED
    BY <1>7, <2>2, <2>3 DEF TabUploadEnds
<1>8. CASE WriterLooksUp(h)
  <2>1. upserts'["upload"] = upserts["upload"]
    BY <1>3, <1>8 DEF WriterLooksUp, LooksUp, Threads
  <2> QED
    BY <1>1, <1>2, <1>8, <2>1, WriterHolds DEF UploadAgrees
<1> QED
  BY <1>4, <1>5, <1>6, <1>7, <1>8 DEF GalleryStep

LEMMA InsertHolds ==
    ASSUME IInv, NEW g \in covered, NEW w \in Threads, Inserts(w)
    PROVE  Settled(g)' /\ UploadAgrees(g)'
<1>1. g \in Galleries /\ Settled(g) /\ UploadAgrees(g)
  BY CoveredIsChosen DEF Held
<1>2. /\ items' = items /\ saves' = saves /\ Chosen(g)' = Chosen(g)
      /\ galleries'[g] = IF g \in upserts[w].of THEN upserts[w].row ELSE galleries[g]
      /\ upserts' = [upserts EXCEPT ![w] = NoUpsert]
  BY <1>1 DEF Inserts, Chosen, Row
<1>3. upserts \in [Threads -> [of : SUBSET Galleries, row : TabRow]] /\ NoUpsert.of = {}
  BY DEF IInv, TabsTypeOK, NoUpsert
<1>4. CASE w = "store"
  <2>1. upserts'["store"].of = {} /\ upserts'["upload"] = upserts["upload"]
    BY <1>2, <1>3, <1>4 DEF Threads
  <2> QED
    BY <1>1, <1>2, <1>4, <2>1 DEF Settled, UploadAgrees
<1>5. CASE w = "upload"
  <2>1. upserts'["upload"].of = {} /\ upserts'["store"] = upserts["store"]
    BY <1>2, <1>3, <1>5 DEF Threads
  <2> QED
    BY <1>1, <1>2, <1>5, <2>1 DEF Settled, UploadAgrees
<1> QED
  BY <1>4, <1>5 DEF Threads

\* The last save has the names that the items have, and nothing comes after it.
LEMMA QuitHolds ==
    ASSUME TabsTypeOK, QuitTabs
    PROVE  Covers'
<1>1. quit' /\ Doing("idle")'
  BY DEF QuitTabs, Doing
<1>2. ASSUME NEW g \in covered'
      PROVE  (Known(g) /\ Settled(g) /\ UploadAgrees(g))'
  <2>1. /\ covered' = AtRest /\ HandOver(Snapshot(AtRest)) /\ items' = items /\ upserts' = upserts
        /\ g \in Galleries /\ items[g] # NoName
    BY <1>2 DEF QuitTabs, AtRest, Known
  <2> DEFINE n == Len(saves)
  <2>2. n \in Nat /\ DOMAIN saves' = 1..(n + 1) /\ saves'[n + 1] = Snapshot(AtRest)
    BY <2>1, SnapshotTyped, Grown DEF TabsTypeOK
  <2>3. Snapshot(AtRest)[g] = items[g]
    BY <1>2, <2>1 DEF Snapshot
  <2>4. n + 1 \in DOMAIN saves' /\ \A j \in DOMAIN saves' : ~(j > n + 1)
    <3> HIDE DEF n
    <3> QED
      BY <2>2
  <2>5. EndsWith(saves', g, items[g])
    BY <2>2, <2>3, <2>4 DEF EndsWith, Agrees
  <2>6. upserts'["upload"].of = {}
    BY <2>1 DEF QuitTabs, Unlocked, NoUpsert
  <2> QED
    BY <2>1, <2>5, <2>6 DEF Known, Settled, UploadAgrees
<1> QED
  BY <1>1, <1>2 DEF Covers

LEMMA CoversKeeps ==
    ASSUME IInv, [TabsNext]_tabVars
    PROVE  Covers'
<1>1. ASSUME quit' = quit, covered' = covered, ~quit
      PROVE  Covers'
  BY <1>1 DEF IInv, Covers
<1>2. ASSUME NEW t \in TabIds, TabStep(t)
      PROVE  Covers'
  BY <1>1, <1>2 DEF TabStep, DeleteTab, CreateTab, RenameTab, AddGallery, MoveGalleries, AtUser, ending
<1>3. CASE OperationStep
  <2>1. quit' = quit /\ covered' = covered /\ ~Doing("idle")
    BY <1>3 DEF OperationStep, MoveItems, RenameRows, RenameItems, DeleteMoves, DeleteReassigns,
                DeleteDrops, ending, Doing
  <2> QED
    BY <1>1, <2>1 DEF IInv, Covers
<1>4. ASSUME NEW P \in SUBSET Galleries, SaveTabs(P)
      PROVE  Covers'
  BY <1>1, <1>4 DEF SaveTabs
<1>5. ASSUME NEW h \in Galleries, GalleryStep(h)
      PROVE  Covers'
  <2>1. quit' = quit /\ covered' = covered /\ operation' = operation /\ items' = items
    BY <1>5 DEF GalleryStep, HostRow, SaveOne, TabScanBegins, TabScanEnds, TabUploadBegins,
                TabUploadEnds, WriterLooksUp, ending
  <2> QED
    BY <1>5, <2>1, GalleryStepHolds DEF IInv, Covers, Doing, Known
<1>6. ASSUME NEW w \in Threads, Inserts(w)
      PROVE  Covers'
  <2>1. quit' = quit /\ covered' = covered /\ operation' = operation /\ items' = items
    BY <1>6 DEF Inserts, ending
  <2> QED
    BY <1>6, <2>1, InsertHolds DEF IInv, Covers, Doing, Known
<1>7. CASE QuitTabs
  BY <1>7, QuitHolds DEF IInv
<1>8. CASE Relaunch
  BY <1>8 DEF Relaunch, Covers
<1>9. CASE UNCHANGED tabVars
  BY <1>9 DEF IInv, Covers, Doing, Known, Settled, UploadAgrees, EndsWith, Agrees, Chosen, Row,
              tabVars, tabTables, writing, ending
<1> QED
  BY <1>2, <1>3, <1>4, <1>5, <1>6, <1>7, <1>8, <1>9 DEF TabsNext

-----------------------------------------------------------------------------

LEMMA InitIInv ==
    ASSUME TabsInit
    PROVE  IInv
<1>1. PICK name \in (TabNames \ {"Main"}) \cup {NoName} :
          tabs = [t \in TabIds |-> IF t = MainTab THEN "Main" ELSE IF t = 2 THEN name ELSE NoName]
  BY DEF TabsInit
<1>2. Table(tabs)
  <2>1. "Main" \in NamesOrNone /\ name \in NamesOrNone /\ NoName \in NamesOrNone
    BY TabsAssumption DEF TabsAssumption, NamesOrNone
  <2>2. \A t \in TabIds : tabs[t] \in NamesOrNone
    BY <1>1, <2>1
  <2>3. tabs = [t \in TabIds |-> tabs[t]] /\ tabs[MainTab] = "Main"
    BY <1>1, MainExists
  <2> QED
    BY <2>2, <2>3 DEF Table
<1>3. UniqueNames
  BY <1>1, MainExists DEF UniqueNames, Exists
<1>4. \A t \in TabIds : RowOf(t) \in TabRow
  BY <1>2 DEF RowOf, TabRow, Table
<1>5. \A g \in Galleries : galleries[g] = NoRow \/ \E t \in TabIds : Exists(t) /\ galleries[g] = RowOf(t)
  BY DEF TabsInit
<1>6. galleries \in [Galleries -> TabRow]
  <2>1. galleries = [g \in Galleries |-> galleries[g]]
    BY DEF TabsInit
  <2> QED
    BY <1>4, <1>5, <2>1, NoRowTyped
<1>7. /\ items = [g \in Galleries |-> galleries[g].name] /\ chosen = [g \in Galleries |-> galleries[g].tab]
      /\ stage = [g \in Galleries |-> "rest"] /\ saves = <<>>
      /\ upserts = [w \in Threads |-> NoUpsert] /\ operation = Idle
      /\ timed = FALSE /\ covered = {} /\ quit = FALSE /\ tabSteps = 0
  BY DEF TabsInit
<1>8. TabsTypeOK
  <2>1. items \in [Galleries -> NamesOrNone] /\ chosen \in [Galleries -> TabIds]
    BY <1>6, <1>7 DEF TabRow
  <2>2. upserts \in [Threads -> [of : SUBSET Galleries, row : TabRow]]
    BY <1>7, NoRowTyped DEF NoUpsert
  <2>3. operation \in Operations
    BY <1>7, MainExists, OperationTyped DEF Idle, Kinds, NamesOrNone
  <2>4. saves \in Seq([Galleries -> NamesOrNone])
    BY <1>7
  <2> QED
    BY <1>2, <1>6, <1>7, <2>1, <2>2, <2>3, <2>4 DEF TabsTypeOK, Table
<1>9. ~Renaming /\ OperationApplies
  BY <1>7 DEF Idle, Operation, Renaming, Deleting, OperationApplies, Doing
<1>10. Resolves
  <2>1. ASSUME NEW g \in Galleries, items[g] # NoName
        PROVE  chosen[g] = IdOf(tabs, items[g])
    <3>1. galleries[g] # NoRow
      BY <1>7, <2>1 DEF NoRow
    <3>2. PICK t \in TabIds : Exists(t) /\ galleries[g] = RowOf(t)
      BY <1>5, <3>1
    <3>3. items[g] = tabs[t] /\ chosen[g] = t
      BY <1>7, <3>2 DEF RowOf
    <3> QED
      BY <1>3, <1>8, <3>2, <3>3, OwnTab
  <2> QED
    BY <1>9, <2>1 DEF Resolves, Known
<1> QED
  BY <1>3, <1>7, <1>8, <1>9, <1>10 DEF IInv, Covers

LEMMA NextFiled ==
    ASSUME IInv, ~NamesReturn, [TabsNext]_tabVars
    PROVE  TabsTypeOK' /\ UniqueNames' /\ OperationApplies' /\ Resolves'
<1>1. Filed
  BY DEF IInv, Filed
<1>2. TabsTypeOK'
  BY UserStepsTyped, OperationsTyped, GalleryStepsTyped, OtherStepsTyped DEF IInv, TabsNext
<1>3. ASSUME NEW t \in TabIds, TabStep(t)
      PROVE  UniqueNames' /\ OperationApplies' /\ Resolves'
  BY <1>1, <1>2, <1>3, CreateFiles, RenameFiles, ItemsFile, RowsFile DEF TabStep
<1>4. CASE OperationStep
  BY <1>1, <1>2, <1>4, DropFiles, ItemsFile, RenameItemsFiles, RowsFile DEF OperationStep
<1>5. CASE Relaunch
  BY <1>1, <1>2, <1>5, RelaunchFiles
<1>6. CASE \/ \E g \in Galleries : GalleryStep(g)
           \/ \E P \in SUBSET Galleries : SaveTabs(P)
           \/ \E w \in Threads : Inserts(w)
           \/ QuitTabs \/ UNCHANGED tabVars
  <2>1. Quiet
    BY <1>6, QuietSteps
  <2> QED
    BY <1>1, <1>2, <2>1, QuietFiles
<1> QED
  BY <1>2, <1>3, <1>4, <1>5, <1>6 DEF TabsNext

LEMMA InvariantHolds == ~NamesReturn => (TabsSpec => []IInv)
<1> SUFFICES ASSUME ~NamesReturn
             PROVE  TabsSpec => []IInv
  OBVIOUS
<1>1. TabsInit => IInv
  BY InitIInv
<1>2. IInv /\ [TabsNext]_tabVars => IInv'
  BY NextFiled, CoversKeeps DEF IInv
<1> QED
  BY <1>1, <1>2, PTL DEF TabsSpec

\* While no tab is given a name that items still carry, tables, items, saves and the
\* rows in the writers' hands keep to their types: of storage/database.py and
\* storage/queue_manager.py, over every interleaving of the user and the writers.
THEOREM TabsTypeCorrect == ~NamesReturn => (TabsSpec => []TabsTypeOK)
<1>1. IInv => TabsTypeOK
  BY DEF IInv
<1> QED
  BY <1>1, InvariantHolds, PTL

\* While no tab is given a name that items still carry, an orderly end leaves each
\* gallery that it saves in the tab where the user last put it, although the saves
\* look tabs up by names taken before tabs were renamed, deleted and filled
\* (_upsert_gallery_row against update_tab, delete_tab and move_galleries_to_tab).
THEOREM TabsAreWhereChosen == ~NamesReturn => (TabsSpec => []TabsSurviveQuit)
<1>1. IInv => TabsSurviveQuit
  <2> SUFFICES ASSUME IInv, quit, Drained, NEW g \in covered
               PROVE  galleries[g] = RowOf(chosen[g])
    BY DEF TabsSurviveQuit
  <2>1. Settled(g) /\ Chosen(g) = RowOf(chosen[g])
    BY CoveredIsChosen DEF Held, Chosen, Row, RowOf
  <2>2. DOMAIN saves = {} /\ upserts["store"].of = {}
    BY DEF Drained, Threads, NoUpsert
  <2> QED
    BY <2>1, <2>2 DEF Settled, EndsWith
<1> QED
  BY <1>1, InvariantHolds, PTL
=============================================================================
