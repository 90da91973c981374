------------------------------ MODULE GalleryTabs ------------------------------
(***************************************************************************)
(* The tabs that galleries are filed under.  A gallery's tab is kept three *)
(* times: by id and by name in its row of storage/database.py, and by name *)
(* in the item of storage/queue_manager.py.  The main thread changes the   *)
(* tables statement by statement (each commits by itself) and the items    *)
(* after them (gui/widgets/tabbed_gallery.py, gui/tab_manager.py), while   *)
(* the writer of QueueStore and the upload thread write rows from items as *)
(* they were.  Removals and row ids are in QueueStore.                     *)
(***************************************************************************)
EXTENDS Naturals, Sequences, FiniteSets

CONSTANTS
    Galleries,
    TabNames,       \* "Main" among them
    MaxTabs,        \* bound on the ids of tabs
    MaxTabSteps,    \* bound on what the user does with tabs
    MaxSaves,       \* bound on the saves that wait for the writer
    NamesReturn     \* a name that items still carry may be given to a tab

ASSUME TabsAssumption ==
    /\ MaxTabs \in Nat \ {0} /\ MaxTabSteps \in Nat /\ MaxSaves \in Nat
    /\ "Main" \in TabNames /\ "" \notin TabNames /\ NamesReturn \in BOOLEAN

TabIds == 1..MaxTabs
MainTab == 1
NoName == ""
NoRow == [name |-> NoName, tab |-> MainTab]
MainRow == [name |-> "Main", tab |-> MainTab]

VARIABLES
    tabs,           \* the tabs table: the name of each id, or NoName
    galleries,      \* the galleries table: [name, tab] of each, or NoRow
    items,          \* tab_name of the items in memory, or NoName
    stage,          \* "new" and "upload" keep an item from being saved
    saves,          \* jobs of QueueStore's executor: names, as they were
    upserts,        \* per writing thread, the row between its SELECT and its INSERT
    operation,      \* what the main thread is in the midst of
    timed,          \* a save timer has been made
    covered,        \* history: what the save at shutdown covers
    quit,           \* shutdown has been called
    chosen,         \* history: the tab where the user last put the gallery
    tabSteps

tabTables == <<tabs, galleries>>
writing == <<saves, upserts>>
ending == <<timed, covered, quit>>
tabVars == <<tabTables, items, stage, writing, operation, ending, chosen, tabSteps>>

Threads == {"store", "upload"}
NoUpsert == [of |-> {}, row |-> NoRow]
Operation(kind, t, name, P) == [kind |-> kind, tab |-> t, name |-> name, of |-> P]
Idle == Operation("idle", MainTab, NoName, {})
Doing(kind) == operation.kind = kind

Exists(t) == tabs[t] # NoName
Known(g) == items[g] # NoName
HasRow(g) == galleries[g] # NoRow
RowOf(t) == [name |-> tabs[t], tab |-> t]

\* The queue's mutex: update_item_status holds it while it writes, and whoever
\* reads or changes the items waits for it.
Unlocked == upserts["upload"] = NoUpsert

\* The look-up by name of _upsert_gallery_row, and the Main tab where it finds none.
IdOf(table, name) ==
    IF name # NoName /\ \E t \in TabIds : table[t] = name
    THEN CHOOSE t \in TabIds : table[t] = name ELSE MainTab

\* A launch with one tab of the user's, if any, and galleries in either.
TabsInit ==
    /\ \E name \in (TabNames \ {"Main"}) \cup {NoName} :
          tabs = [t \in TabIds |-> IF t = MainTab THEN "Main" ELSE IF t = 2 THEN name ELSE NoName]
    /\ galleries \in [Galleries -> {NoRow} \cup {RowOf(t) : t \in {u \in TabIds : Exists(u)}}]
    /\ items = [g \in Galleries |-> galleries[g].name]
    /\ chosen = [g \in Galleries |-> galleries[g].tab]
    /\ stage = [g \in Galleries |-> "rest"]
    /\ saves = <<>> /\ upserts = [w \in Threads |-> NoUpsert] /\ operation = Idle
    /\ timed = FALSE /\ covered = {} /\ quit = FALSE /\ tabSteps = 0

-----------------------------------------------------------------------------
(* What the user does: the main thread, which is in one operation at a     *)
(* time and runs no timer before it is through.                            *)

AtUser == Doing("idle") /\ ~quit /\ tabSteps < MaxTabSteps /\ tabSteps' = tabSteps + 1

Carried(name) == \E g \in Galleries : items[g] = name
Fresh(name) ==
    /\ name \in TabNames /\ \A t \in TabIds : tabs[t] # name
    /\ NamesReturn \/ ~Carried(name)

\* create_tab.  The ids come without AUTOINCREMENT: that of the last tab returns.
CreateTab(t, name) ==
    /\ AtUser /\ Fresh(name)
    /\ ~Exists(t) /\ Exists(t - 1) /\ \A u \in TabIds : u > t => ~Exists(u)
    /\ tabs' = [tabs EXCEPT ![t] = name]
    /\ UNCHANGED <<galleries, items, stage, writing, operation, ending, chosen>>

\* The additions to the current tab.  A folder added with others is first in Main.
AddGallery(g, t) ==
    /\ AtUser /\ Unlocked /\ ~Known(g) /\ Exists(t)
    /\ \/ /\ items' = [items EXCEPT ![g] = tabs[t]] /\ chosen' = [chosen EXCEPT ![g] = t]
          /\ UNCHANGED operation
       \/ /\ items' = [items EXCEPT ![g] = "Main"] /\ chosen' = [chosen EXCEPT ![g] = MainTab]
          /\ operation' = Operation("move items", t, NoName, {g})
    /\ stage' = [stage EXCEPT ![g] = "new"] /\ timed' = TRUE
    /\ UNCHANGED <<tabTables, writing, covered, quit>>

\* move_galleries_to_tab.  The context menu forgets a move that met no row; after
\* a drop main_window changes the items all the same.
MoveGalleries(P, t) ==
    /\ AtUser /\ P # {} /\ \A g \in P : Known(g)
    /\ Exists(t)
    /\ galleries' = [g \in Galleries |-> IF g \in P /\ HasRow(g) THEN RowOf(t) ELSE galleries[g]]
    /\ \/ operation' = Operation("move items", t, NoName, P)
       \/ (\A g \in P : ~HasRow(g)) /\ UNCHANGED operation
    /\ UNCHANGED <<tabs, items, stage, writing, ending, chosen>>

MoveItems ==
    /\ Doing("move items") /\ Unlocked /\ operation' = Idle
    /\ items' = [g \in Galleries |-> IF g \in operation.of THEN tabs[operation.tab] ELSE items[g]]
    /\ chosen' = [g \in Galleries |-> IF g \in operation.of THEN operation.tab ELSE chosen[g]]
    /\ UNCHANGED <<tabTables, stage, writing, ending, tabSteps>>

\* _rename_tab: update_tab with its two statements, then the items.
RenameTab(t, name) ==
    /\ AtUser /\ t # MainTab /\ Exists(t) /\ Fresh(name)
    /\ tabs' = [tabs EXCEPT ![t] = name]
    /\ operation' = Operation("rename rows", t, tabs[t], {})
    /\ UNCHANGED <<galleries, items, stage, writing, ending, chosen>>

RenameRows ==
    /\ Doing("rename rows") /\ operation' = [operation EXCEPT !.kind = "rename items"]
    /\ galleries' = [g \in Galleries |->
           IF HasRow(g) /\ galleries[g].tab = operation.tab THEN RowOf(operation.tab)
           ELSE galleries[g]]
    /\ UNCHANGED <<tabs, items, stage, writing, ending, chosen, tabSteps>>

\* Mutant: the rows have the new name, and that is thought to be enough.
RenameItems_RowsOnly ==
    /\ Doing("rename items") /\ operation' = Idle
    /\ UNCHANGED <<tabTables, items, stage, writing, ending, chosen, tabSteps>>

RenameItems ==
    /\ Doing("rename items") /\ Unlocked /\ operation' = Idle
    /\ items' = [g \in Galleries |->
           IF items[g] = operation.name THEN tabs[operation.tab] ELSE items[g]]
    /\ UNCHANGED <<tabTables, stage, writing, ending, chosen, tabSteps>>

\* _delete_tab_without_confirmation moves the rows it has read, then delete_tab
\* those that are there by now.  The items keep the name of the tab.
DeleteTab(t) ==
    /\ AtUser /\ t # MainTab /\ Exists(t)
    /\ operation' = Operation("delete: move", t, NoName,
           {g \in Galleries : HasRow(g) /\ galleries[g].tab = t})
    /\ UNCHANGED <<tabTables, items, stage, writing, ending, chosen>>

ToMain(P) == galleries' = [g \in Galleries |-> IF g \in P THEN MainRow ELSE galleries[g]]

DeleteMoves ==
    /\ Doing("delete: move") /\ operation' = [operation EXCEPT !.kind = "delete: reassign"]
    /\ ToMain(operation.of)
    /\ UNCHANGED <<tabs, items, stage, writing, ending, chosen, tabSteps>>

DeleteReassigns ==
    /\ Doing("delete: reassign") /\ operation' = [operation EXCEPT !.kind = "delete: drop"]
    /\ ToMain({g \in Galleries : HasRow(g) /\ galleries[g].tab = operation.tab})
    /\ UNCHANGED <<tabs, items, stage, writing, ending, chosen, tabSteps>>

DeleteDrops ==
    /\ Doing("delete: drop") /\ operation' = Idle
    /\ tabs' = [tabs EXCEPT ![operation.tab] = NoName]
    /\ chosen' = [g \in Galleries |-> IF chosen[g] = operation.tab THEN MainTab ELSE chosen[g]]
    /\ UNCHANGED <<galleries, items, stage, writing, ending, tabSteps>>

-----------------------------------------------------------------------------
(* Saves and uploads.                                                      *)

AtRest == {g \in Galleries : Known(g) /\ stage[g] \in {"scan", "rest"}}
Snapshot(P) == [g \in Galleries |-> IF g \in P THEN items[g] ELSE NoName]
HandOver(snapshot) == Len(saves) < MaxSaves /\ saves' = Append(saves, snapshot)

\* save_persistent_queue on the main thread, by a timer or without one.
SaveTabs(P) ==
    /\ Doing("idle") /\ ~quit /\ Unlocked
    /\ P # {} /\ P \subseteq AtRest
    /\ HandOver(Snapshot(P)) /\ timed' \in {timed, TRUE}
    /\ UNCHANGED <<tabTables, items, stage, upserts, operation, covered, quit, chosen, tabSteps>>

\* A file host is queued for a gallery that has no row (add_file_host_upload).
HostRow(g) ==
    /\ Doing("idle") /\ Known(g) /\ ~HasRow(g)
    /\ galleries' = [galleries EXCEPT ![g] = MainRow]
    /\ UNCHANGED <<tabs, items, stage, writing, operation, ending, chosen, tabSteps>>

\* _save_single_item asks neither for the status nor for the mutex.
SaveOne(g) ==
    /\ Doing("idle") /\ ~quit /\ Known(g)
    /\ HandOver(Snapshot({g}))
    /\ UNCHANGED <<tabTables, items, stage, upserts, operation, ending, chosen, tabSteps>>

TabScanBegins(g) ==
    /\ stage[g] = "new" /\ Unlocked /\ stage' = [stage EXCEPT ![g] = "scan"]
    /\ UNCHANGED <<tabTables, items, writing, operation, ending, chosen, tabSteps>>

\* The scan thread may have no event loop to save for it.
TabScanEnds(g) ==
    /\ stage[g] = "scan" /\ Unlocked /\ stage' = [stage EXCEPT ![g] = "rest"]
    /\ HandOver(Snapshot({g})) \/ UNCHANGED saves
    /\ UNCHANGED <<tabTables, items, upserts, operation, ending, chosen, tabSteps>>

TabUploadBegins(g) ==
    /\ Known(g) /\ stage[g] = "rest" /\ Unlocked /\ \A h \in Galleries : stage[h] # "upload"
    /\ stage' = [stage EXCEPT ![g] = "upload"]
    /\ UNCHANGED <<tabTables, items, writing, operation, ending, chosen, tabSteps>>

\* _upsert_gallery_row: the SELECT of the tab, then the INSERT.
LooksUp(thread, g, name) ==
    /\ upserts[thread] = NoUpsert
    /\ upserts' = [upserts EXCEPT ![thread] = [of |-> {g}, row |-> RowOf(IdOf(tabs, name))]]

\* The end is written at once, or, for a gallery that is stopped, with a later save.
TabUploadEnds(g) ==
    /\ stage[g] = "upload" /\ stage' = [stage EXCEPT ![g] = "rest"]
    /\ LooksUp("upload", g, items[g]) \/ UNCHANGED upserts
    /\ UNCHANGED <<tabTables, items, saves, operation, ending, chosen, tabSteps>>

WriterLooksUp(g) ==
    /\ saves # <<>> /\ Head(saves)[g] # NoName
    /\ LooksUp("store", g, Head(saves)[g])
    /\ LET rest == [Head(saves) EXCEPT ![g] = NoName]
       IN  saves' = IF \A h \in Galleries : rest[h] = NoName THEN Tail(saves)
                    ELSE [saves EXCEPT ![1] = rest]
    /\ UNCHANGED <<tabTables, items, stage, operation, ending, chosen, tabSteps>>

Inserts(thread) ==
    /\ upserts[thread] # NoUpsert /\ upserts' = [upserts EXCEPT ![thread] = NoUpsert]
    /\ galleries' = [g \in Galleries |->
           IF g \in upserts[thread].of THEN upserts[thread].row ELSE galleries[g]]
    /\ UNCHANGED <<tabs, items, stage, saves, operation, ending, chosen, tabSteps>>

-----------------------------------------------------------------------------
(* The end of a process and the start of the next.                         *)

\* Everything is saved if a timer was ever made.
QuitTabs ==
    /\ Doing("idle") /\ ~quit /\ Unlocked /\ quit' = TRUE
    /\ covered' = IF timed THEN AtRest ELSE {}
    /\ IF covered' = {} THEN UNCHANGED saves ELSE HandOver(Snapshot(covered'))
    /\ UNCHANGED <<tabTables, items, stage, upserts, operation, timed, chosen, tabSteps>>

\* After a quit or a crash: the items take the names that the rows have.
Relaunch ==
    /\ items' = [g \in Galleries |-> galleries[g].name]
    /\ chosen' = [g \in Galleries |-> IdOf(tabs, galleries[g].name)]
    /\ stage' = [g \in Galleries |-> "rest"]
    /\ saves' = <<>> /\ upserts' = [w \in Threads |-> NoUpsert] /\ operation' = Idle
    /\ timed' = FALSE /\ covered' = {} /\ quit' = FALSE
    /\ UNCHANGED <<tabTables, tabSteps>>

TabStep(t) ==
    \/ DeleteTab(t)
    \/ \E name \in TabNames : CreateTab(t, name) \/ RenameTab(t, name)
    \/ \E g \in Galleries : AddGallery(g, t)
    \/ \E P \in SUBSET Galleries : MoveGalleries(P, t)
OperationStep ==
    MoveItems \/ RenameRows \/ RenameItems \/ DeleteMoves \/ DeleteReassigns \/ DeleteDrops
GalleryStep(g) ==
    \/ SaveOne(g) \/ HostRow(g) \/ WriterLooksUp(g)
    \/ TabScanBegins(g) \/ TabScanEnds(g) \/ TabUploadBegins(g) \/ TabUploadEnds(g)

TabsNext ==
    \/ \E t \in TabIds : TabStep(t)
    \/ OperationStep
    \/ \E P \in SUBSET Galleries : SaveTabs(P)
    \/ \E g \in Galleries : GalleryStep(g)
    \/ \E w \in Threads : Inserts(w)
    \/ QuitTabs \/ Relaunch

TabsSpec == TabsInit /\ [][TabsNext]_tabVars

-----------------------------------------------------------------------------

NamesOrNone == TabNames \cup {NoName}
TabRow == [name : NamesOrNone, tab : TabIds]
Kinds == {"idle", "move items", "rename rows", "rename items",
          "delete: move", "delete: reassign", "delete: drop"}
Operations == [kind : Kinds, tab : TabIds, name : NamesOrNone, of : SUBSET Galleries]

TabsTypeOK ==
    /\ tabs \in [TabIds -> NamesOrNone] /\ tabs[MainTab] = "Main"
    /\ galleries \in [Galleries -> TabRow] /\ items \in [Galleries -> NamesOrNone]
    /\ stage \in [Galleries -> {"new", "scan", "rest", "upload"}]
    /\ saves \in Seq([Galleries -> NamesOrNone])
    /\ upserts \in [Threads -> [of : SUBSET Galleries, row : TabRow]]
    /\ operation \in Operations
    /\ timed \in BOOLEAN /\ covered \subseteq Galleries /\ quit \in BOOLEAN
    /\ chosen \in [Galleries -> TabIds] /\ tabSteps \in Nat

Drained == saves = <<>> /\ \A w \in Threads : upserts[w] = NoUpsert

\* Saves of a gallery race with the statements by which the user renames, deletes
\* and fills tabs, and leave rows in the wrong tab, or in one that no longer is.
\* When the program has ended in order, each gallery that was saved at the end is,
\* by id and by name, in the tab where the user last put it: Main if that was deleted.
TabsSurviveQuit ==
    quit /\ Drained => \A g \in covered : galleries[g] = RowOf(chosen[g])
=============================================================================
