----------------------------- MODULE FileManager -----------------------------
(***************************************************************************)
(* The file manager: gui/file_manager_controller.py on the main thread and *)
(* the one thread of processing/file_manager_worker.py, which answers its  *)
(* requests in turn.  A listing is what a folder held at some version of   *)
(* its host.  Whether a cached listing is within its time to live is left  *)
(* open, and so is the folder tree, which is loaded the same way.          *)
(***************************************************************************)
EXTENDS Naturals, Sequences

CONSTANTS
    FileHosts, SessionHosts,    \* the latter use the session of an upload worker
    Folders, Root,
    MaxUserSteps,       \* bound on what the user does
    MaxManagerErrors    \* bound on requests that fail

ASSUME FoldersAssumption == Root \in Folders

Trash == "trash"
Keys == Folders \cup {Trash}
Pages == 1..2
Nowhere == "no host"

ASSUME HostsAssumption == Nowhere \notin FileHosts

VARIABLES
    host, folder, page, inTrash,    \* _current_host and so on
    hostFolder,     \* _host_folder
    shown,          \* the listing on the screen
    told,           \* the last answer for the view on the screen was an error
    fileCache,      \* _file_cache
    disk,           \* file_manager_cache.db, first pages only
    asking,         \* the dialog that is open
    requests,       \* the worker's _queue
    results,        \* signals on their way to the main thread
    remote,         \* the version of each host's files
    due,            \* history: what must show of each folder, since the host was chosen
    userSteps, managerErrors

viewVars == <<host, folder, page, inTrash, hostFolder>>
screenVars == <<shown, told>>
listingVars == <<fileCache, disk>>
boundVars == <<userSteps, managerErrors>>
managerVars == <<viewVars, screenVars, listingVars, asking, requests, results, remote, due,
                 boundVars>>

Place(h, k, p) == [host |-> h, key |-> k, page |-> p]
Places == [host : FileHosts, key : Keys, page : Pages]
View == Place(host, IF inTrash THEN Trash ELSE folder, page)
Listing(place, version) == [place |-> place, version |-> version]
NoListing == Listing(Place(Nowhere, Root, 1), 0)
NotAsking == [action |-> "nothing", items |-> Nowhere]
Unknown == 0    \* not in a cache; the versions of a host start with 1
NothingDue == [k \in Folders |-> 0]

\* A request is known while the controller remembers what it was for.
Request(action, place, items) ==
    [action |-> action, place |-> place, items |-> items, known |-> TRUE]

\* The dialog opens with a host, and nothing in its cache but what is on the disk.
ManagerInit ==
    /\ host \in FileHosts /\ folder = Root /\ page = 1 /\ inTrash = FALSE
    /\ hostFolder = [h \in FileHosts |-> Root]
    /\ disk \in [FileHosts -> {[k \in Keys |-> v] : v \in {Unknown, 1}}]
    /\ fileCache = [place \in Places |->
         IF place.host = host /\ place.page = 1 THEN disk[host][place.key] ELSE Unknown]
    /\ shown = IF disk[host][Root] = Unknown THEN NoListing ELSE Listing(View, 1)
    /\ told = FALSE /\ asking = NotAsking
    /\ requests = <<Request("list", View, Nowhere)>> /\ results = <<>>
    /\ remote = [h \in FileHosts |-> 1] /\ due = NothingDue
    /\ userSteps = 0 /\ managerErrors = 0

-----------------------------------------------------------------------------
(* Requests.                                                               *)

Submit(request) == requests' = Append(requests, request)

\* _load_files and _load_trash, for the view at place and the cache as it is
\* then: what is cached is shown at once, and fetched again when it is too old.
Load(place, cache) ==
    IF place.host = Nowhere THEN UNCHANGED <<screenVars, requests>>
    ELSE LET fetch == Submit(Request("list", place, Nowhere)) IN
         IF cache[place] = Unknown THEN fetch /\ told' = FALSE /\ UNCHANGED shown
         ELSE /\ shown' = Listing(place, cache[place]) /\ told' = FALSE
              /\ fetch \/ UNCHANGED requests

\* The pending maps are cleared: what was asked is forgotten, answered or not.
Forgotten(queue) == [i \in DOMAIN queue |-> [queue[i] EXCEPT !.known = FALSE]]
ResultsForgotten ==
    results' = [i \in DOMAIN results |-> [results[i] EXCEPT !.request.known = FALSE]]

UserDoes == userSteps < MaxUserSteps /\ userSteps' = userSteps + 1 /\ asking = NotAsking

-----------------------------------------------------------------------------
(* Choosing a host and walking about.                                      *)

\* The first pages of the host's listings come from the disk.
Warmed(h) == [place \in Places |->
    IF place.host = h /\ place.page = 1 /\ disk[h][place.key] # Unknown
    THEN disk[h][place.key] ELSE fileCache[place]]

\* Mutant: the listing of the old host stays on the screen.
SetHost_Keeps(h) ==
    /\ UserDoes /\ h # host /\ ResultsForgotten
    /\ host' = h /\ folder' = hostFolder[h] /\ page' = 1 /\ inTrash' = FALSE
    /\ fileCache' = Warmed(h) /\ due' = NothingDue /\ told' = FALSE
    /\ LET place == Place(h, hostFolder[h], 1)
           known == Warmed(h)[place] # Unknown IN
         /\ shown' = IF known THEN Listing(place, Warmed(h)[place]) ELSE shown
         /\ \/ requests' = Append(Forgotten(requests), Request("list", place, Nowhere))
            \/ known /\ requests' = Forgotten(requests)
    /\ UNCHANGED <<hostFolder, disk, asking, remote, managerErrors>>

\* The host can be reached, and its folder is loaded.
SetHost(h) ==
    /\ UserDoes /\ h # host /\ ResultsForgotten
    /\ host' = h /\ folder' = hostFolder[h] /\ page' = 1 /\ inTrash' = FALSE
    /\ fileCache' = Warmed(h) /\ due' = NothingDue /\ told' = FALSE
    /\ LET place == Place(h, hostFolder[h], 1)
           known == Warmed(h)[place] # Unknown IN
         /\ shown' = IF known THEN Listing(place, Warmed(h)[place]) ELSE NoListing
         /\ \/ requests' = Append(Forgotten(requests), Request("list", place, Nowhere))
            \/ known /\ requests' = Forgotten(requests)
    /\ UNCHANGED <<hostFolder, disk, asking, remote, managerErrors>>

\* The probe fails: no host is current, and nothing is shown.
ProbeFails(h) ==
    /\ UserDoes /\ h # host /\ host' = Nowhere /\ inTrash' = FALSE
    /\ requests' = Forgotten(requests) /\ ResultsForgotten
    /\ shown' = NoListing /\ told' = FALSE /\ due' = NothingDue
    /\ UNCHANGED <<folder, page, hostFolder, listingVars, asking, remote, managerErrors>>

\* Its upload worker is disabled, whatever dialog is open.
HostDisabled ==
    /\ host \in SessionHosts /\ host' = Nowhere
    /\ folder' = Root /\ page' = 1 /\ inTrash' = FALSE
    /\ requests' = Forgotten(requests) /\ ResultsForgotten
    /\ shown' = NoListing /\ told' = FALSE /\ due' = NothingDue
    /\ UNCHANGED <<hostFolder, listingVars, asking, remote, boundVars>>

\* To a folder of the tree or the list, back, up or to the root.
Navigate(f) ==
    /\ UserDoes /\ host # Nowhere
    /\ folder' = f /\ page' = 1 /\ hostFolder' = [hostFolder EXCEPT ![host] = f]
    /\ Load(Place(host, f, 1), fileCache)
    /\ UNCHANGED <<host, inTrash, listingVars, asking, results, remote, due, managerErrors>>

TurnPage(p) ==
    /\ UserDoes /\ page' = p /\ Load([View EXCEPT !.page = p], fileCache)
    /\ UNCHANGED <<host, folder, inTrash, hostFolder, listingVars, asking, results, remote, due,
                   managerErrors>>

ToggleTrash(on) ==
    /\ UserDoes /\ inTrash' = on
    /\ Load(Place(host, IF on THEN Trash ELSE folder, page), fileCache)
    /\ UNCHANGED <<host, folder, page, hostFolder, listingVars, asking, results, remote, due,
                   managerErrors>>

\* _invalidate_cache: all pages of the current folder, also in the trash.
Invalidated == [place \in Places |->
    IF place.host = host /\ place.key = folder THEN Unknown ELSE fileCache[place]]

\* refresh.
Reload ==
    /\ IF host = Nowhere THEN UNCHANGED fileCache ELSE fileCache' = Invalidated
    /\ Load(View, IF host = Nowhere THEN fileCache ELSE Invalidated)

Refresh ==
    /\ UserDoes /\ Reload
    /\ UNCHANGED <<viewVars, disk, asking, results, remote, due, managerErrors>>

-----------------------------------------------------------------------------
(* Changes.  Most ask the user first, in a dialog that lets answers in.    *)

\* delete, move, copy, access and restore name the files that are selected;
\* a new folder or a new name is answered with a single result.
Ask(action) ==
    /\ UserDoes /\ host # Nowhere /\ (shown # NoListing \/ action = "single")
    /\ asking' = [action |-> action, items |-> shown.place.host]
    /\ UNCHANGED <<viewVars, screenVars, listingVars, requests, results, remote, due,
                   managerErrors>>

Confirm ==
    /\ asking # NotAsking /\ asking' = NotAsking
    /\ Submit(Request(asking.action, View, asking.items))
    /\ UNCHANGED <<viewVars, screenVars, listingVars, results, remote, due, boundVars>>

Cancel ==
    /\ asking # NotAsking /\ asking' = NotAsking
    /\ UNCHANGED <<viewVars, screenVars, listingVars, requests, results, remote, due, boundVars>>

-----------------------------------------------------------------------------
(* The worker.                                                             *)

AnswerTo(request, outcome, version) ==
    results' = Append(results, [request |-> request, outcome |-> outcome, version |-> version])

\* The handler of the request's action; one that fails may have done its work.
Process ==
    /\ requests # <<>> /\ requests' = Tail(requests)
    /\ LET request == Head(requests)
           h == request.place.host
           changed == [remote EXCEPT ![h] = @ + 1] IN
         IF h = Nowhere
         THEN AnswerTo(request, "error", 0) /\ UNCHANGED <<remote, managerErrors>>
         ELSE \/ /\ remote' = IF request.action = "list" THEN remote ELSE changed
                 /\ AnswerTo(request, "done", remote'[h]) /\ UNCHANGED managerErrors
              \/ /\ managerErrors < MaxManagerErrors /\ managerErrors' = managerErrors + 1
                 /\ remote' \in {remote, IF request.action = "list" THEN remote ELSE changed}
                 /\ AnswerTo(request, "error", 0)
    /\ UNCHANGED <<viewVars, screenVars, listingVars, asking, due, userSteps>>

-----------------------------------------------------------------------------
(* Answers, on the main thread.                                            *)

Arrives(result) == results # <<>> /\ result = Head(results) /\ results' = Tail(results)

\* Mutant: the page a listing is of is not looked at.
IsOnScreen_AnyPage(place) == place.host = View.host /\ place.key = View.key

\* A late answer for another view is cached and not shown.
IsOnScreen(place) == place = View

\* _on_files_loaded.
FilesLoaded(result) ==
    /\ Arrives(result) /\ result.request.action = "list" /\ result.outcome = "done"
    /\ LET place == result.request.place IN
         IF ~result.request.known THEN UNCHANGED <<listingVars, screenVars>>
         ELSE /\ fileCache' = [fileCache EXCEPT ![place] = result.version]
              /\ disk' = IF place.page = 1
                         THEN [disk EXCEPT ![place.host][place.key] = result.version] ELSE disk
              /\ IF IsOnScreen(place)
                 THEN shown' = Listing(place, result.version) /\ told' = FALSE
                 ELSE UNCHANGED screenVars
    /\ UNCHANGED <<viewVars, asking, requests, remote, due, boundVars>>

\* _on_operation_complete: a batch reloads whatever is on the screen, a single
\* operation only while its request is known.
OperationComplete(result) ==
    /\ Arrives(result) /\ result.request.action # "list" /\ result.outcome = "done"
    /\ IF result.request.action = "batch" \/ result.request.known
       THEN /\ Reload
            /\ due' = IF result.request.place.host = host
                      THEN [due EXCEPT ![folder] = result.version] ELSE due
       ELSE UNCHANGED <<fileCache, screenVars, requests, due>>
    /\ UNCHANGED <<viewVars, disk, asking, remote, boundVars>>

\* _on_error shows a message whatever the request was for.
ErrorShown(result) ==
    /\ Arrives(result) /\ result.outcome = "error"
    /\ told' = (\/ told
                \/ /\ result.request.action = "list" /\ result.request.known
                   /\ IsOnScreen(result.request.place))
    /\ UNCHANGED <<viewVars, shown, listingVars, asking, requests, remote, due, boundVars>>

HandleResult ==
    /\ results # <<>>
    /\ \E result \in {Head(results)} :
         FilesLoaded(result) \/ OperationComplete(result) \/ ErrorShown(result)

ManagerNext ==
    \/ \E h \in FileHosts : SetHost(h) \/ ProbeFails(h)
    \/ HostDisabled \/ Refresh \/ Confirm \/ Cancel \/ Process \/ HandleResult
    \/ \E f \in Folders : Navigate(f)
    \/ \E p \in Pages : TurnPage(p)
    \/ \E on \in BOOLEAN : ToggleTrash(on)
    \/ \E action \in {"batch", "single"} : Ask(action)

ManagerSpec == ManagerInit /\ [][ManagerNext]_managerVars

-----------------------------------------------------------------------------

Requests == [action : {"list", "batch", "single"},
             place : [host : FileHosts \cup {Nowhere}, key : Keys, page : Pages],
             items : FileHosts \cup {Nowhere}, known : BOOLEAN]

ManagerTypeOK ==
    /\ host \in FileHosts \cup {Nowhere} /\ folder \in Folders /\ page \in Pages
    /\ inTrash \in BOOLEAN /\ hostFolder \in [FileHosts -> Folders]
    /\ shown \in [place : Places, version : Nat] \cup {NoListing} /\ told \in BOOLEAN
    /\ fileCache \in [Places -> Nat] /\ disk \in [FileHosts -> [Keys -> Nat]]
    /\ asking \in [action : {"nothing", "batch", "single"}, items : FileHosts \cup {Nowhere}]
    /\ requests \in Seq(Requests)
    /\ results \in Seq([request : Requests, outcome : {"done", "error"}, version : Nat])
    /\ remote \in [FileHosts -> Nat] /\ due \in [Folders -> Nat]

\* Files of one host are never named in a request to another, whatever arrives
\* and whatever is disabled while a dialog is open.
ItemsStayAtTheirHost ==
    \A i \in DOMAIN requests :
        requests[i].items \in {Nowhere, requests[i].place.host} \/ requests[i].place.host = Nowhere

Resting == requests = <<>> /\ results = <<>> /\ host # Nowhere /\ ~inTrash /\ ~told

\* When all answers are in, the folder and page that the user has gone to are on
\* the screen, and no older than the last change that has reloaded the folder,
\* unless the last answer for them was an error.  A late answer, or a page left
\* in the cache, would break it.
ViewSettles == Resting => shown.place = View /\ shown.version >= due[folder]
=============================================================================
