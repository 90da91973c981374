--------------------------- MODULE ServicesProofs ---------------------------
(***************************************************************************)
(* The link scanner and the file manager, for any number of hosts, scans,  *)
(* folders and requests; and the types of the six services together.       *)
(***************************************************************************)
EXTENDS MCServices, TransferProofs, ForumProofs

-----------------------------------------------------------------------------
(* LINK SCANNER                                                            *)

\* A dashboard runs one scan at a time and shows that it does; it has no report
\* to take before that one has ended; and what stops a scan that was stopped is
\* not taken back while it runs.
ScanInv ==
    /\ reports \subseteq {dashboard} \ {0}
    /\ dashboard \in reports => scanning
    /\ \A n \in ScanRuns : scan[n].pc = "jobs" =>
         /\ scan[n].owner \in Dashboards
         /\ scan[n].owner = dashboard => scanning /\ dashboard \notin reports
         /\ scan[n].halted => stopScan[scan[n].owner]
         /\ \A m \in ScanRuns : scan[m].pc = "jobs" /\ scan[m].owner = scan[n].owner => m = n

\* No scan starts, and none is stopped that was not.
ScansGoOn ==
    \A n \in ScanRuns : scan'[n].pc = "jobs" =>
        /\ scan[n].pc = "jobs" /\ scan'[n].owner = scan[n].owner
        /\ scan'[n].halted => scan[n].halted

LEMMA VerdictTypes ==
    ASSUME ScanTypeOK, NEW n \in ScanRuns, NEW h \in LinkHosts, NEW v \in Checked(n, h)
    PROVE  v \in Verdicts \cup {"none"}
<1>1. True(h) \in Verdicts
  BY DEF True, Verdicts
<1>2. Kind[h] \in Kinds
  BY KindAssumption
<1>. QED
  BY <1>1, <1>2 DEF Checked, FromImx, FromThumbnails, FromLinks, FromInventory, Verdicts, Kinds

LEMMA RunFields ==
    /\ \A r \in ScanRun : /\ r.pc \in {"free", "jobs", "over"} /\ r.owner \in 0..MaxDashboards
                          /\ r.todo \subseteq LinkHosts /\ r.halted \in BOOLEAN
                          /\ r.found \in [LinkHosts -> Verdicts \cup {"none"}]
    /\ \A r \in ScanRun : [r EXCEPT !.halted = TRUE] \in ScanRun
    /\ \A r \in ScanRun, h \in LinkHosts : [r EXCEPT !.todo = @ \ {h}] \in ScanRun
    /\ \A r \in ScanRun, h \in LinkHosts, v \in Verdicts \cup {"none"} :
         [r EXCEPT !.todo = @ \ {h}, !.found[h] = v] \in ScanRun
    /\ \A r \in ScanRun : [r EXCEPT !.pc = "over", !.found = NothingFound, !.halted = FALSE] \in ScanRun
    /\ NothingFound \in [LinkHosts -> Verdicts \cup {"none"}]
<1>1. NothingFound \in [LinkHosts -> Verdicts \cup {"none"}]
  BY DEF NothingFound
<1>. QED
  BY <1>1 DEF ScanRun

LEMMA LeaveRuns ==
    ASSUME ScanTypeOK, NEW n \in ScanRuns, Leave(n)
    PROVE  scan' \in [ScanRuns -> ScanRun] /\ ScansGoOn /\ scan'[n].pc = "over"
<1>1. PICK r : r = [scan[n] EXCEPT !.pc = "over", !.found = NothingFound, !.halted = FALSE]
  OBVIOUS
<1>2. scan \in [ScanRuns -> ScanRun] /\ scan' = [scan EXCEPT ![n] = r]
  BY <1>1 DEF ScanTypeOK, Leave
<1>3. r \in ScanRun
  BY <1>1, <1>2, RunFields
<1>4. r.pc = "over"
  BY <1>1, <1>2 DEF ScanRun
<1>. QED
  BY <1>2, <1>3, <1>4 DEF ScansGoOn

LEMMA RunJobRuns ==
    ASSUME ScanTypeOK, NEW n \in ScanRuns, NEW h \in LinkHosts, RunJob(n, h)
    PROVE  scan' \in [ScanRuns -> ScanRun] /\ ScansGoOn /\ scan'[n].pc = "jobs"
<1>1. scan \in [ScanRuns -> ScanRun] /\ scan[n].pc = "jobs"
  BY DEF ScanTypeOK, RunJob
<1>2. \/ scan' = [scan EXCEPT ![n] = [scan[n] EXCEPT !.todo = @ \ {h}]]
      \/ \E v \in Verdicts \cup {"none"} :
           scan' = [scan EXCEPT ![n] = [scan[n] EXCEPT !.todo = @ \ {h}, !.found[h] = v]]
  BY VerdictTypes DEF RunJob
<1>3. PICK r \in ScanRun : /\ scan' = [scan EXCEPT ![n] = r] /\ r.pc = "jobs"
                           /\ r.owner = scan[n].owner /\ r.halted = scan[n].halted
  <2>1. CASE scan' = [scan EXCEPT ![n] = [scan[n] EXCEPT !.todo = @ \ {h}]]
    <3>1. [scan[n] EXCEPT !.todo = @ \ {h}] \in ScanRun
      BY <1>1, RunFields
    <3>. QED
      BY <1>1, <2>1, <3>1 DEF ScanRun
  <2>2. ASSUME NEW v \in Verdicts \cup {"none"},
               scan' = [scan EXCEPT ![n] = [scan[n] EXCEPT !.todo = @ \ {h}, !.found[h] = v]]
        PROVE  \E r \in ScanRun : /\ scan' = [scan EXCEPT ![n] = r] /\ r.pc = "jobs"
                                  /\ r.owner = scan[n].owner /\ r.halted = scan[n].halted
    <3>1. [scan[n] EXCEPT !.todo = @ \ {h}, !.found[h] = v] \in ScanRun
      BY <1>1, RunFields
    <3>. QED
      BY <1>1, <2>2, <3>1 DEF ScanRun
  <2>. QED
    BY <1>2, <2>1, <2>2
<1>. QED
  BY <1>1, <1>3 DEF ScansGoOn

\* Every step by which no scan starts or is stopped.
LEMMA QuietScan ==
    ASSUME ScanTypeOK, ScanInv, ScansGoOn, UNCHANGED <<dashboard, scanning, stopScan>>,
           \/ reports' = reports
           \/ /\ reports' = reports \cup {dashboard} /\ dashboard # 0 /\ scanning
              /\ \A n \in ScanRuns : scan'[n].pc = "jobs" => scan[n].owner # dashboard
    PROVE  ScanInv'
<1>1. reports' \subseteq {dashboard'} \ {0} /\ (dashboard' \in reports' => scanning')
  BY DEF ScanInv
<1>2. ASSUME NEW n \in ScanRuns, scan'[n].pc = "jobs"
      PROVE  /\ scan'[n].owner \in Dashboards
             /\ scan'[n].owner = dashboard' => scanning' /\ dashboard' \notin reports'
             /\ scan'[n].halted => stopScan'[scan'[n].owner]
             /\ \A m \in ScanRuns : scan'[m].pc = "jobs" /\ scan'[m].owner = scan'[n].owner => m = n
  BY <1>2 DEF ScanInv, ScansGoOn
<1>. QED
  BY <1>1, <1>2 DEF ScanInv

LEMMA StartKeeps ==
    ASSUME ScanTypeOK, ScanInv, NEW n \in ScanRuns, StartScan(n)
    PROVE  ScanTypeOK' /\ ScanInv'
<1>1. PICK r : r = [pc |-> "jobs", owner |-> dashboard, todo |-> Linked, found |-> NothingFound,
                    halted |-> FALSE]
  OBVIOUS
<1>2. /\ dashboard \in Dashboards /\ ~scanning /\ scanning' = TRUE
      /\ stopScan' = [stopScan EXCEPT ![dashboard] = FALSE]
      /\ scan' = [scan EXCEPT ![n] = r] /\ UNCHANGED <<dashboard, reports>>
      /\ scan \in [ScanRuns -> ScanRun] /\ stopScan \in [Dashboards -> BOOLEAN]
  BY <1>1, ScanBoundsAssumption DEF StartScan, ScanTypeOK, Dashboards
<1>3. /\ r.pc = "jobs" /\ r.owner = dashboard /\ r.halted = FALSE /\ r \in ScanRun
  BY <1>1, <1>2, RunFields DEF ScanRun, Linked, ScanTypeOK
<1>4. ScanTypeOK'
  BY <1>2, <1>3 DEF ScanTypeOK, StartScan
<1>5. dashboard \notin reports /\ \A m \in ScanRuns : scan[m].pc = "jobs" => scan[m].owner # dashboard
  BY <1>2 DEF ScanInv
<1>6. /\ scan'[n] = r /\ \A m \in ScanRuns \ {n} : scan'[m] = scan[m]
      /\ \A d \in Dashboards \ {dashboard} : stopScan'[d] = stopScan[d]
  BY <1>2
<1>7. ASSUME NEW m \in ScanRuns, scan'[m].pc = "jobs"
      PROVE  /\ scan'[m].owner \in Dashboards
             /\ scan'[m].owner = dashboard' => scanning' /\ dashboard' \notin reports'
             /\ scan'[m].halted => stopScan'[scan'[m].owner]
             /\ \A k \in ScanRuns : scan'[k].pc = "jobs" /\ scan'[k].owner = scan'[m].owner => k = m
  <2>1. CASE m = n
    BY <1>2, <1>3, <1>5, <1>6, <2>1
  <2>2. CASE m # n
    BY <1>2, <1>3, <1>5, <1>6, <1>7, <2>2 DEF ScanInv
  <2>. QED
    BY <2>1, <2>2
<1>8. reports' \subseteq {dashboard'} \ {0} /\ (dashboard' \in reports' => scanning')
  BY <1>2 DEF ScanInv
<1>. QED
  BY <1>4, <1>7, <1>8 DEF ScanInv

LEMMA StopKeeps ==
    ASSUME ScanTypeOK, ScanInv, StopScan
    PROVE  ScanTypeOK' /\ ScanInv'
<1>1. /\ scan' = Halted /\ UNCHANGED <<dashboard, scanning, reports>>
      /\ scan \in [ScanRuns -> ScanRun] /\ stopScan \in [Dashboards -> BOOLEAN]
      /\ stopScan' = [stopScan EXCEPT ![dashboard] = TRUE]
  BY DEF StopScan, ScanTypeOK
<1>2. ASSUME NEW n \in ScanRuns
      PROVE  /\ scan'[n] \in ScanRun /\ scan'[n].pc = scan[n].pc /\ scan'[n].owner = scan[n].owner
             /\ scan'[n].halted => scan[n].halted \/ scan[n].owner = dashboard
  <2>1. CASE n \in Running(dashboard) /\ scan[n].todo # {}
    <3>1. scan'[n] = [scan[n] EXCEPT !.halted = TRUE] /\ scan[n].owner = dashboard
      BY <1>1, <2>1 DEF Halted, Running
    <3>2. scan'[n].pc = scan[n].pc /\ scan'[n].owner = scan[n].owner
      BY <1>1, <3>1 DEF ScanRun
    <3>3. scan'[n] \in ScanRun
      <4>1. scan[n] \in ScanRun
        BY <1>1
      <4>. QED
        BY <3>1, <4>1, RunFields
    <3>. QED
      BY <3>1, <3>2, <3>3
  <2>2. CASE ~(n \in Running(dashboard) /\ scan[n].todo # {})
    BY <1>1, <2>2 DEF Halted
  <2>. QED
    BY <2>1, <2>2
<1>3. scan' \in [ScanRuns -> ScanRun]
  BY <1>1, <1>2 DEF Halted
<1>4. ScanTypeOK'
  BY <1>1, <1>3 DEF ScanTypeOK, StopScan
<1>5. ASSUME NEW n \in ScanRuns, scan'[n].pc = "jobs"
      PROVE  /\ scan'[n].owner \in Dashboards
             /\ scan'[n].owner = dashboard' => scanning' /\ dashboard' \notin reports'
             /\ scan'[n].halted => stopScan'[scan'[n].owner]
             /\ \A m \in ScanRuns : scan'[m].pc = "jobs" /\ scan'[m].owner = scan'[n].owner => m = n
  BY <1>1, <1>2, <1>5 DEF ScanInv
<1>. QED
  BY <1>1, <1>4, <1>5 DEF ScanInv

LEMMA DashboardKeeps ==
    ASSUME ScanTypeOK, ScanInv,
           (\E d \in Dashboards : OpenDashboard(d)) \/ CloseDashboard \/ TakeReport
    PROVE  ScanTypeOK' /\ ScanInv'
<1>1. /\ UNCHANGED <<link, stopScan, inventory, scan, verdict, staleFlag, dbFailures>>
      /\ scanning' = FALSE /\ dashboard' \in 0..MaxDashboards
  BY ScanBoundsAssumption DEF OpenDashboard, CloseDashboard, TakeReport, ScanTypeOK, Dashboards
<1>2. reports' \subseteq Dashboards
  BY DEF OpenDashboard, CloseDashboard, TakeReport, ScanTypeOK
<1>3. reports' = {}
  BY DEF OpenDashboard, CloseDashboard, TakeReport, ScanInv
<1>4. \A n \in ScanRuns : scan[n].pc = "jobs" => scan[n].owner # dashboard'
  <2>1. ASSUME NEW d \in Dashboards, OpenDashboard(d)
        PROVE  \A n \in ScanRuns : scan[n].pc = "jobs" => scan[n].owner # dashboard'
    <3>1. \A n \in ScanRuns : scan[n].owner < d /\ dashboard' = d
      BY <2>1 DEF OpenDashboard
    <3>. QED
      BY <3>1, ScanBoundsAssumption DEF Dashboards
  <2>2. CASE CloseDashboard
    BY <2>2, ScanBoundsAssumption DEF CloseDashboard, ScanInv, Dashboards
  <2>3. CASE TakeReport
    BY <2>3 DEF TakeReport, ScanInv
  <2>. QED
    BY <2>1, <2>2, <2>3
<1>5. ScanTypeOK'
  BY <1>1, <1>2 DEF ScanTypeOK
<1>. QED
  BY <1>1, <1>3, <1>4, <1>5 DEF ScanInv

LEMMA ScanInvInit == ScanInit => ScanTypeOK /\ ScanInv
<1>. SUFFICES ASSUME ScanInit PROVE ScanTypeOK /\ ScanInv
  OBVIOUS
<1>1. PICK r : r = [pc |-> "free", owner |-> 0, todo |-> {}, found |-> NothingFound, halted |-> FALSE]
  OBVIOUS
<1>2. r \in ScanRun /\ r.pc = "free"
  <2>1. 0 \in 0..MaxDashboards /\ {} \subseteq LinkHosts
    BY ScanBoundsAssumption
  <2>. QED
    BY <1>1, <2>1, RunFields DEF ScanRun
<1>3. scan = [n \in ScanRuns |-> r]
  BY <1>1 DEF ScanInit
<1>4. ScanTypeOK
  <2>1. 0 \in 0..MaxDashboards /\ 0 \in 0..MaxDbFailures
    BY ScanBoundsAssumption
  <2>2. link \in [LinkHosts -> {"none", "live", "dead"}]
    BY DEF ScanInit
  <2>3. /\ inventory \in [Dashboards -> [LinkHosts -> {"none", "live", "dead"}]]
        /\ stopScan \in [Dashboards -> BOOLEAN]
    BY DEF ScanInit
  <2>4. verdict \in [LinkHosts -> Verdicts \cup {"none"}]
    BY RunFields DEF ScanInit
  <2>. QED
    BY <1>2, <1>3, <2>1, <2>2, <2>3, <2>4 DEF ScanInit, ScanTypeOK
<1>. QED
  BY <1>2, <1>3, <1>4 DEF ScanInit, ScanInv

LEMMA ScanInvNext == ScanTypeOK /\ ScanInv /\ [ScanNext]_scanVars => ScanTypeOK' /\ ScanInv'
<1>. SUFFICES ASSUME ScanTypeOK, ScanInv, [ScanNext]_scanVars PROVE ScanTypeOK' /\ ScanInv'
  OBVIOUS
<1>1. CASE FlagChanges \/ UNCHANGED scanVars \/ \E h \in LinkHosts : LinkDies(h) \/ LinkAdded(h)
  <2>1. UNCHANGED <<dashboard, scanning, stopScan, inventory, scan, reports, verdict, dbFailures>>
    BY <1>1 DEF FlagChanges, LinkDies, LinkAdded, scanVars
  <2>2. link' \in [LinkHosts -> {"none", "live", "dead"}] /\ staleFlag' \in BOOLEAN
    BY <1>1 DEF FlagChanges, LinkDies, LinkAdded, scanVars, ScanTypeOK
  <2>3. ScanTypeOK'
    BY <2>1, <2>2 DEF ScanTypeOK
  <2>. QED
    BY <2>1, <2>3, QuietScan DEF ScansGoOn
<1>2. ASSUME NEW n \in ScanRuns, NEW h \in LinkHosts, ListAccount(n, h) PROVE ScanTypeOK' /\ ScanInv'
  <2>1. UNCHANGED <<link, dashboard, scanning, stopScan, scan, reports, verdict, staleFlag, dbFailures>>
    BY <1>2 DEF ListAccount
  <2>2. inventory' \in [Dashboards -> [LinkHosts -> {"none", "live", "dead"}]]
    BY <1>2 DEF ListAccount, ScanTypeOK
  <2>3. ScanTypeOK'
    BY <2>1, <2>2 DEF ScanTypeOK
  <2>. QED
    BY <2>1, <2>3, QuietScan DEF ScansGoOn
<1>3. ASSUME NEW n \in ScanRuns, NEW h \in LinkHosts, RunJob(n, h) PROVE ScanTypeOK' /\ ScanInv'
  <2>1. UNCHANGED <<link, dashboard, scanning, stopScan, inventory, reports, verdict, staleFlag, dbFailures>>
    BY <1>3 DEF RunJob
  <2>2. scan' \in [ScanRuns -> ScanRun] /\ ScansGoOn
    BY <1>3, RunJobRuns
  <2>3. ScanTypeOK'
    BY <2>1, <2>2 DEF ScanTypeOK
  <2>. QED
    BY <2>1, <2>2, <2>3, QuietScan
<1>4. ASSUME NEW n \in ScanRuns, EndScan(n) \/ FailScan(n) PROVE ScanTypeOK' /\ ScanInv'
  <2>1. /\ UNCHANGED <<link, dashboard, scanning, stopScan, inventory, staleFlag>>
        /\ scan[n].pc = "jobs" /\ Leave(n)
    BY <1>4 DEF EndScan, FailScan
  <2>2. scan' \in [ScanRuns -> ScanRun] /\ ScansGoOn /\ scan'[n].pc = "over"
    BY <2>1, LeaveRuns
  <2>3. reports' \in {reports, Reported(n)}
    BY <1>4 DEF EndScan, FailScan
  <2>4. scan[n].owner = dashboard => dashboard \in Dashboards /\ scanning
    BY <2>1 DEF ScanInv
  <2>5. reports' \subseteq Dashboards
    BY <2>3, <2>4 DEF Reported, ScanTypeOK
  <2>6. verdict' \in [LinkHosts -> Verdicts \cup {"none"}] /\ dbFailures' \in 0..MaxDbFailures
    <3>1. scan[n].found \in [LinkHosts -> Verdicts \cup {"none"}]
      BY RunFields DEF ScanTypeOK
    <3>2. Stored(n) \in [LinkHosts -> Verdicts \cup {"none"}]
      BY <3>1 DEF Stored, ScanTypeOK
    <3>. QED
      BY <1>4, <3>2, ScanBoundsAssumption DEF EndScan, FailScan, ScanTypeOK
  <2>7. ScanTypeOK'
    BY <2>1, <2>2, <2>5, <2>6 DEF ScanTypeOK
  <2>8. CASE reports' = reports
    BY <2>1, <2>2, <2>8, <2>7, QuietScan
  <2>9. CASE reports' = reports \cup {dashboard} /\ scan[n].owner = dashboard
    <3>1. \A m \in ScanRuns : scan'[m].pc = "jobs" => scan[m].owner # dashboard
      BY <2>1, <2>2, <2>9 DEF ScanInv, ScansGoOn
    <3>2. dashboard # 0
      BY <2>4, <2>9, ScanBoundsAssumption DEF Dashboards
    <3>. QED
      BY <2>1, <2>2, <2>4, <2>7, <2>9, <3>1, <3>2, QuietScan
  <2>. QED
    BY <2>3, <2>8, <2>9 DEF Reported
<1>. QED
  BY <1>1, <1>2, <1>3, <1>4, StartKeeps, StopKeeps, DashboardKeeps DEF ScanNext, ScanStep

\* ScanTypeOK, for any number of dashboards and scans.
THEOREM ScansTyped == ScanSpec => []ScanTypeOK
  BY ScanInvInit, ScanInvNext, PTL DEF ScanSpec

\* The scan that was stopped half-way leaves the results as they were: nobody
\* has cleared the flag it looks at when it comes to the end.
THEOREM StoppedScansStoreNothing == ScanSpec => StoppedStoresNothing
<1>1. ScanTypeOK /\ ScanInv /\ [ScanNext]_scanVars =>
        \A n \in ScanRuns : scan[n].halted /\ scan[n].pc = "jobs" /\ scan'[n].pc = "over"
          => verdict' = verdict
  <2>. SUFFICES ASSUME ScanTypeOK, ScanInv, [ScanNext]_scanVars, NEW n \in ScanRuns,
                       scan[n].halted, scan[n].pc = "jobs", scan'[n].pc = "over"
                PROVE  verdict' = verdict
    OBVIOUS
  <2>1. ASSUME NEW m \in ScanRuns, EndScan(m) PROVE verdict' = verdict
    <3>1. m = n
      BY <2>1 DEF EndScan, Leave, ScanTypeOK
    <3>2. stopScan[scan[n].owner]
      BY DEF ScanInv
    <3>. QED
      BY <2>1, <3>1, <3>2 DEF EndScan
  <2>. QED
    BY <2>1 DEF ScanNext, ScanStep, OpenDashboard, CloseDashboard, StopScan, TakeReport, FlagChanges,
               StartScan, ListAccount, RunJob, FailScan, LinkDies, LinkAdded, scanVars
<1>. QED
  BY <1>1, ScanInvInit, ScanInvNext, PTL DEF ScanSpec, StoppedStoresNothing

-----------------------------------------------------------------------------
(* FILE MANAGER                                                            *)
(* Types, and what can be said of each request and answer by itself.       *)

AllHosts == FileHosts \cup {Nowhere}
AllPlaces == [host : AllHosts, key : Keys, page : Pages]

\* Files are named in a request to their own host alone.
OwnItems == {q \in Requests : q.items \in {Nowhere, q.place.host} \/ q.place.host = Nowhere}
Results == [request : Requests, outcome : {"done", "error"}, version : Nat]
\* Only a host does what is asked.
Outcomes == {r \in Results : r.outcome = "done" => r.request.place.host \in FileHosts}

ManagerTypes ==
    /\ host \in AllHosts /\ folder \in Folders /\ page \in Pages
    /\ inTrash \in BOOLEAN /\ hostFolder \in [FileHosts -> Folders]
    /\ shown \in [place : AllPlaces, version : Nat] /\ shown.place.host \in {Nowhere, host}
    /\ shown \in [place : Places, version : Nat] \cup {NoListing}
    /\ told \in BOOLEAN /\ fileCache \in [Places -> Nat] /\ disk \in [FileHosts -> [Keys -> Nat]]
    /\ asking \in [action : {"batch", "single"}, items : AllHosts] \cup {NotAsking}
    /\ asking.items \in {Nowhere, host} \/ host = Nowhere
    /\ requests \in Seq(OwnItems) /\ results \in Seq(Outcomes)
    /\ remote \in [FileHosts -> Nat] /\ due \in [Folders -> Nat]

LEMMA PlaceTypes ==
    ASSUME NEW h \in AllHosts, NEW k \in Keys, NEW p \in Pages
    PROVE  /\ Place(h, k, p) \in AllPlaces
           /\ Place(h, k, p).host = h /\ Place(h, k, p).key = k /\ Place(h, k, p).page = p
           /\ h # Nowhere => Place(h, k, p) \in Places
  BY DEF Place, AllPlaces, Places, AllHosts

LEMMA PlaceFields ==
    /\ \A place \in AllPlaces : place.host \in AllHosts /\ place.key \in Keys /\ place.page \in Pages
    /\ \A place \in AllPlaces : place.host # Nowhere => place \in Places
    /\ \A place \in Places : place \in AllPlaces /\ place.host \in FileHosts /\ place.host # Nowhere
  BY HostsAssumption DEF AllPlaces, Places, AllHosts

LEMMA ListingTypes ==
    ASSUME NEW place \in Places, NEW v \in Nat
    PROVE  /\ Listing(place, v) \in [place : Places, version : Nat]
           /\ Listing(place, v) \in [place : AllPlaces, version : Nat]
           /\ Listing(place, v).place = place /\ Listing(place, v).version = v
  BY PlaceFields DEF Listing

LEMMA NoListingTypes ==
    /\ NoListing \in [place : AllPlaces, version : Nat]
    /\ NoListing.place.host = Nowhere
<1>1. Root \in Keys /\ 1 \in Pages /\ Nowhere \in AllHosts
  BY FoldersAssumption DEF Keys, Pages, AllHosts
<1>2. Place(Nowhere, Root, 1) \in AllPlaces /\ Place(Nowhere, Root, 1).host = Nowhere
  BY <1>1, PlaceTypes
<1>. QED
  BY <1>2 DEF NoListing, Listing

LEMMA ViewTypes ==
    ASSUME ManagerTypes
    PROVE  /\ View \in AllPlaces /\ View.host = host /\ View.page = page
           /\ View.key = IF inTrash THEN Trash ELSE folder
           /\ host # Nowhere => View \in Places
<1>1. PICK k \in Keys : k = IF inTrash THEN Trash ELSE folder
  BY DEF ManagerTypes, Keys
<1>2. View = Place(host, k, page)
  BY <1>1 DEF View
<1>. QED
  BY <1>1, <1>2, PlaceTypes DEF ManagerTypes

LEMMA RequestTypes ==
    ASSUME NEW a \in {"list", "batch", "single"}, NEW place \in AllPlaces, NEW i \in AllHosts,
           i \in {Nowhere, place.host} \/ place.host = Nowhere
    PROVE  /\ Request(a, place, i) \in OwnItems /\ Request(a, place, i).known = TRUE
           /\ Request(a, place, i).action = a /\ Request(a, place, i).place = place
  BY DEF Request, OwnItems, Requests, AllPlaces, AllHosts

LEMMA RequestFields ==
    /\ \A q \in OwnItems : q \in Requests /\ (q.items \in {Nowhere, q.place.host} \/ q.place.host = Nowhere)
    /\ \A q \in Requests : /\ q.action \in {"list", "batch", "single"} /\ q.place \in AllPlaces
                           /\ q.items \in AllHosts /\ q.known \in BOOLEAN
    /\ \A r \in Outcomes : /\ r.request \in Requests /\ r.outcome \in {"done", "error"} /\ r.version \in Nat
                           /\ r.outcome = "done" => r.request.place.host \in FileHosts
  BY DEF OwnItems, Requests, Outcomes, Results, AllPlaces, AllHosts

\* What Load does for the view of a host.
LEMMA LoadDoes ==
    ASSUME NEW place, NEW cache, Load(place, cache), place.host # Nowhere
    PROVE  /\ told' = FALSE
           /\ requests' \in {requests, Append(requests, Request("list", place, Nowhere))}
           /\ \/ /\ cache[place] = Unknown /\ shown' = shown
                 /\ requests' = Append(requests, Request("list", place, Nowhere))
              \/ cache[place] # Unknown /\ shown' = Listing(place, cache[place])
  BY DEF Load, Submit, screenVars

LEMMA LoadTypes ==
    ASSUME ManagerTypes, NEW place \in AllPlaces, place.host = host, NEW cache \in [Places -> Nat],
           Load(place, cache)
    PROVE  /\ shown' \in [place : AllPlaces, version : Nat] /\ shown'.place.host \in {Nowhere, host}
           /\ shown' \in [place : Places, version : Nat] \cup {NoListing}
           /\ told' \in BOOLEAN /\ requests' \in Seq(OwnItems)
<1>1. CASE place.host = Nowhere
  BY <1>1 DEF Load, screenVars, ManagerTypes
<1>2. CASE place.host # Nowhere
  <2>1. place \in Places
    BY <1>2, PlaceFields
  <2>2. cache[place] \in Nat
    BY <2>1
  <2>3. Request("list", place, Nowhere) \in OwnItems
    BY RequestTypes DEF AllHosts
  <2>4. requests' \in Seq(OwnItems)
    <3>1. requests \in Seq(OwnItems)
      BY DEF ManagerTypes
    <3>2. Append(requests, Request("list", place, Nowhere)) \in Seq(OwnItems)
      BY <2>3, <3>1, AppendProperties
    <3>. QED
      BY <1>2, <3>1, <3>2, LoadDoes
  <2>5. CASE shown' = shown
    BY <1>2, <2>4, <2>5, LoadDoes DEF ManagerTypes
  <2>6. CASE shown' = Listing(place, cache[place])
    BY <1>2, <2>1, <2>2, <2>4, <2>6, LoadDoes, ListingTypes
  <2>. QED
    BY <1>2, <2>5, <2>6, LoadDoes
<1>. QED
  BY <1>1, <1>2

\* What was asked is forgotten, and stays what it was.
SameBut(q, r) == /\ q.place = r.place /\ q.action = r.action /\ q.items = r.items /\ q.known = FALSE
LEMMA Forgets ==
    ASSUME ManagerTypes
    PROVE  /\ Forgotten(requests) \in Seq(OwnItems) /\ Len(Forgotten(requests)) = Len(requests)
           /\ \A i \in 1..Len(requests) : SameBut(Forgotten(requests)[i], requests[i])
<1>1. requests \in Seq(OwnItems) /\ DOMAIN requests = 1..Len(requests) /\ Len(requests) \in Nat
  BY DEF ManagerTypes
<1>2. ASSUME NEW q \in OwnItems
      PROVE  [q EXCEPT !.known = FALSE] \in OwnItems /\ SameBut([q EXCEPT !.known = FALSE], q)
  BY <1>2 DEF OwnItems, Requests, SameBut
<1>3. ASSUME NEW i \in 1..Len(requests)
      PROVE  /\ [requests[i] EXCEPT !.known = FALSE] \in OwnItems
             /\ SameBut([requests[i] EXCEPT !.known = FALSE], requests[i])
  <2>1. requests[i] \in OwnItems
    BY <1>1, ElementOfSeq
  <2>. QED
    BY <1>2, <2>1
<1>4. Forgotten(requests) = [i \in 1..Len(requests) |-> [requests[i] EXCEPT !.known = FALSE]]
  BY <1>1 DEF Forgotten
<1>5. Forgotten(requests) \in [1..Len(requests) -> OwnItems]
  BY <1>3, <1>4
<1>. QED
  BY <1>1, <1>3, <1>4, <1>5

SameResult(r, s) == /\ r.outcome = s.outcome /\ r.version = s.version
                    /\ r.request.place = s.request.place /\ r.request.known = FALSE
LEMMA ForgetsResults ==
    ASSUME ManagerTypes, ResultsForgotten
    PROVE  /\ results' \in Seq(Outcomes) /\ Len(results') = Len(results)
           /\ \A i \in 1..Len(results) : SameResult(results'[i], results[i])
<1>1. results \in Seq(Outcomes) /\ DOMAIN results = 1..Len(results) /\ Len(results) \in Nat
  BY DEF ManagerTypes
<1>2. ASSUME NEW r \in Outcomes
      PROVE  /\ [r EXCEPT !.request.known = FALSE] \in Outcomes
             /\ SameResult([r EXCEPT !.request.known = FALSE], r)
  <2>1. PICK q : q = [r.request EXCEPT !.known = FALSE]
    OBVIOUS
  <2>2. q \in Requests /\ q.place = r.request.place /\ q.known = FALSE
    BY <2>1, RequestFields DEF Requests
  <2>3. [r EXCEPT !.request.known = FALSE] = [r EXCEPT !.request = q]
    BY <2>1 DEF Outcomes, Results
  <2>4. /\ [r EXCEPT !.request = q].request = q /\ [r EXCEPT !.request = q].outcome = r.outcome
        /\ [r EXCEPT !.request = q].version = r.version /\ [r EXCEPT !.request = q] \in Results
    BY <2>2 DEF Outcomes, Results
  <2>. QED
    BY <2>2, <2>3, <2>4 DEF Outcomes, SameResult
<1>3. ASSUME NEW i \in 1..Len(results)
      PROVE  /\ [results[i] EXCEPT !.request.known = FALSE] \in Outcomes
             /\ SameResult([results[i] EXCEPT !.request.known = FALSE], results[i])
  <2>1. results[i] \in Outcomes
    BY <1>1, ElementOfSeq
  <2>. QED
    BY <1>2, <2>1
<1>4. results' = [i \in 1..Len(results) |-> [results[i] EXCEPT !.request.known = FALSE]]
  BY <1>1 DEF ResultsForgotten
<1>5. results' \in [1..Len(results) -> Outcomes]
  BY <1>3, <1>4
<1>. QED
  BY <1>1, <1>3, <1>4, <1>5

LEMMA WarmedTypes ==
    ASSUME ManagerTypes, NEW h \in FileHosts
    PROVE  Warmed(h) \in [Places -> Nat]
<1>1. ASSUME NEW place \in Places
      PROVE  (IF place.host = h /\ place.page = 1 /\ disk[h][place.key] # Unknown
              THEN disk[h][place.key] ELSE fileCache[place]) \in Nat
  BY <1>1, PlaceFields DEF ManagerTypes
<1>. QED
  BY <1>1 DEF Warmed

LEMMA InvalidatedTypes ==
    ASSUME ManagerTypes
    PROVE  /\ Invalidated \in [Places -> Nat]
           /\ \A place \in Places : Invalidated[place] =
                IF place.host = host /\ place.key = folder THEN Unknown ELSE fileCache[place]
  BY DEF ManagerTypes, Invalidated, Unknown

\* A host is chosen, or is none any more.
LEMMA HostTypes ==
    ASSUME ManagerTypes, HostDisabled \/ \E h \in FileHosts : SetHost(h) \/ ProbeFails(h)
    PROVE  ManagerTypes'
<1>1. results' \in Seq(Outcomes)
  BY ForgetsResults DEF HostDisabled, SetHost, ProbeFails
<1>2. due' \in [Folders -> Nat]
  BY DEF HostDisabled, SetHost, ProbeFails, NothingDue
<1>3. CASE HostDisabled \/ \E h \in FileHosts : ProbeFails(h)
  <2>1. /\ host' = Nowhere /\ shown' = NoListing /\ told' = FALSE /\ requests' = Forgotten(requests)
        /\ folder' \in {folder, Root} /\ page' \in {page, 1} /\ inTrash' = FALSE
        /\ UNCHANGED <<hostFolder, listingVars, asking, remote>>
    BY <1>3 DEF HostDisabled, ProbeFails
  <2>2. requests' \in Seq(OwnItems)
    BY <2>1, Forgets
  <2>3. Root \in Folders /\ 1 \in Pages
    BY FoldersAssumption DEF Pages
  <2>. QED
    BY <1>1, <1>2, <2>1, <2>2, <2>3, NoListingTypes DEF ManagerTypes, listingVars, AllHosts
<1>4. ASSUME NEW h \in FileHosts, SetHost(h) PROVE ManagerTypes'
  <2>1. PICK place : place = Place(h, hostFolder[h], 1)
    OBVIOUS
  <2>2. hostFolder[h] \in Folders /\ hostFolder[h] \in Keys /\ 1 \in Pages /\ h \in AllHosts /\ h # Nowhere
    BY HostsAssumption DEF ManagerTypes, Keys, Pages, AllHosts
  <2>3. place \in Places /\ place.host = h /\ place \in AllPlaces
    BY <2>1, <2>2, PlaceTypes
  <2>4. /\ host' = h /\ folder' = hostFolder[h] /\ page' = 1 /\ inTrash' = FALSE /\ told' = FALSE
        /\ fileCache' = Warmed(h) /\ asking = NotAsking
        /\ UNCHANGED <<hostFolder, disk, asking, remote>>
        /\ shown' = IF Warmed(h)[place] # Unknown THEN Listing(place, Warmed(h)[place]) ELSE NoListing
        /\ requests' \in {Forgotten(requests), Append(Forgotten(requests), Request("list", place, Nowhere))}
    BY <1>4, <2>1 DEF SetHost, UserDoes
  <2>5. requests' \in Seq(OwnItems)
    <3>1. Request("list", place, Nowhere) \in OwnItems /\ Forgotten(requests) \in Seq(OwnItems)
      BY <2>3, RequestTypes, Forgets DEF AllHosts
    <3>2. Append(Forgotten(requests), Request("list", place, Nowhere)) \in Seq(OwnItems)
      BY <3>1, AppendProperties
    <3>. QED
      BY <2>4, <3>1, <3>2
  <2>6. Warmed(h) \in [Places -> Nat] /\ Warmed(h)[place] \in Nat
    BY <2>3, WarmedTypes
  <2>7. /\ shown' \in [place : AllPlaces, version : Nat] /\ shown'.place.host \in {Nowhere, h}
        /\ shown' \in [place : Places, version : Nat] \cup {NoListing}
    BY <2>3, <2>4, <2>6, ListingTypes, NoListingTypes
  <2>8. asking.items = Nowhere
    BY <2>4 DEF NotAsking
  <2>. QED
    BY <1>1, <1>2, <2>2, <2>4, <2>5, <2>6, <2>7, <2>8 DEF ManagerTypes
<1>. QED
  BY <1>3, <1>4

\* The user goes somewhere, and what is there is loaded from the cache as it is then.
LEMMA ViewMoves ==
    ASSUME ManagerTypes,
           Refresh \/ (\E f \in Folders : Navigate(f)) \/ (\E p \in Pages : TurnPage(p))
             \/ \E on \in BOOLEAN : ToggleTrash(on)
    PROVE  /\ UNCHANGED <<host, disk, asking, results, remote, due, managerErrors>>
           /\ folder' \in Folders /\ page' \in Pages /\ inTrash' \in BOOLEAN
           /\ hostFolder' \in [FileHosts -> Folders]
           /\ fileCache' = fileCache \/ (fileCache' = Invalidated /\ host # Nowhere)
           /\ \E place \in AllPlaces :
                /\ Load(place, fileCache') /\ place.host = host
                /\ ~inTrash' => place = Place(host, folder', page')
<1>1. host \in AllHosts /\ folder \in Keys /\ page \in Pages /\ 1 \in Pages /\ Trash \in Keys
  BY DEF ManagerTypes, Keys, Pages
<1>2. CASE Refresh
  <2>1. /\ UNCHANGED <<host, folder, page, inTrash, hostFolder, disk, asking, results, remote, due, managerErrors>>
        /\ IF host = Nowhere THEN fileCache' = fileCache ELSE fileCache' = Invalidated
        /\ Load(View, IF host = Nowhere THEN fileCache ELSE Invalidated)
    BY <1>2 DEF Refresh, Reload, viewVars
  <2>2. Load(View, fileCache')
    BY <2>1
  <2>3. View \in AllPlaces /\ View.host = host
    BY ViewTypes
  <2>4. ~inTrash => View = Place(host, folder, page)
    BY DEF View
  <2>. QED
    BY <2>1, <2>2, <2>3, <2>4 DEF ManagerTypes
<1>3. ASSUME NEW f \in Folders, Navigate(f)
      PROVE  /\ UNCHANGED <<host, disk, asking, results, remote, due, managerErrors>>
             /\ folder' \in Folders /\ page' \in Pages /\ inTrash' \in BOOLEAN
             /\ hostFolder' \in [FileHosts -> Folders]
             /\ fileCache' = fileCache
             /\ \E place \in AllPlaces :
                  /\ Load(place, fileCache') /\ place.host = host
                  /\ ~inTrash' => place = Place(host, folder', page')
  <2>1. /\ folder' = f /\ page' = 1 /\ hostFolder' = [hostFolder EXCEPT ![host] = f]
        /\ Load(Place(host, f, 1), fileCache) /\ fileCache' = fileCache
        /\ UNCHANGED <<host, inTrash, disk, asking, results, remote, due, managerErrors>>
    BY <1>3 DEF Navigate, listingVars
  <2>2. Place(host, f, 1) \in AllPlaces /\ Place(host, f, 1).host = host
    BY <1>1, PlaceTypes DEF Keys
  <2>. QED
    BY <1>1, <2>1, <2>2 DEF ManagerTypes
<1>4. ASSUME NEW p \in Pages, TurnPage(p)
      PROVE  /\ UNCHANGED <<host, disk, asking, results, remote, due, managerErrors>>
             /\ folder' \in Folders /\ page' \in Pages /\ inTrash' \in BOOLEAN
             /\ hostFolder' \in [FileHosts -> Folders]
             /\ fileCache' = fileCache
             /\ \E place \in AllPlaces :
                  /\ Load(place, fileCache') /\ place.host = host
                  /\ ~inTrash' => place = Place(host, folder', page')
  <2>1. /\ page' = p /\ Load([View EXCEPT !.page = p], fileCache) /\ fileCache' = fileCache
        /\ UNCHANGED <<host, folder, inTrash, hostFolder, disk, asking, results, remote, due, managerErrors>>
    BY <1>4 DEF TurnPage, listingVars
  <2>2. PICK k \in Keys : k = IF inTrash THEN Trash ELSE folder
    BY <1>1
  <2>3. [View EXCEPT !.page = p] = Place(host, k, p)
    BY <2>2 DEF View, Place
  <2>4. Place(host, k, p) \in AllPlaces /\ Place(host, k, p).host = host
    BY <1>1, PlaceTypes
  <2>. QED
    BY <2>1, <2>2, <2>3, <2>4 DEF ManagerTypes
<1>5. ASSUME NEW on \in BOOLEAN, ToggleTrash(on)
      PROVE  /\ UNCHANGED <<host, disk, asking, results, remote, due, managerErrors>>
             /\ folder' \in Folders /\ page' \in Pages /\ inTrash' \in BOOLEAN
             /\ hostFolder' \in [FileHosts -> Folders]
             /\ fileCache' = fileCache
             /\ \E place \in AllPlaces :
                  /\ Load(place, fileCache') /\ place.host = host
                  /\ ~inTrash' => place = Place(host, folder', page')
  <2>1. PICK k \in Keys : k = IF on THEN Trash ELSE folder
    BY <1>1
  <2>2. /\ inTrash' = on /\ Load(Place(host, k, page), fileCache) /\ fileCache' = fileCache
        /\ UNCHANGED <<host, folder, page, hostFolder, disk, asking, results, remote, due, managerErrors>>
    BY <1>5, <2>1 DEF ToggleTrash, listingVars
  <2>3. Place(host, k, page) \in AllPlaces /\ Place(host, k, page).host = host
    BY <1>1, PlaceTypes
  <2>. QED
    BY <2>1, <2>2, <2>3 DEF ManagerTypes
<1>. QED
  BY <1>2, <1>3, <1>4, <1>5

LEMMA MoveTypes ==
    ASSUME ManagerTypes,
           Refresh \/ (\E f \in Folders : Navigate(f)) \/ (\E p \in Pages : TurnPage(p))
             \/ \E on \in BOOLEAN : ToggleTrash(on)
    PROVE  ManagerTypes'
<1>1. PICK cache \in [Places -> Nat] : cache = fileCache'
  BY ViewMoves, InvalidatedTypes DEF ManagerTypes
<1>2. PICK place \in AllPlaces : Load(place, cache) /\ place.host = host
  BY <1>1, ViewMoves
<1>. QED
  BY <1>1, <1>2, ViewMoves, LoadTypes DEF ManagerTypes

\* The dialogs.
LEMMA DialogDoes ==
    ASSUME ManagerTypes, Confirm \/ Cancel \/ \E action \in {"batch", "single"} : Ask(action)
    PROVE  /\ UNCHANGED <<viewVars, screenVars, listingVars, results, remote, due>>
           /\ asking' \in [action : {"batch", "single"}, items : AllHosts] \cup {NotAsking}
           /\ asking'.items \in {Nowhere, host} \/ host = Nowhere
           /\ \/ requests' = requests
              \/ \E q \in OwnItems : requests' = Append(requests, q) /\ q.action # "list"
<1>1. shown.place.host \in AllHosts
  BY PlaceFields DEF ManagerTypes
<1>2. NotAsking.items = Nowhere
  BY DEF NotAsking
<1>3. CASE Cancel
  BY <1>2, <1>3 DEF Cancel
<1>4. CASE \E action \in {"batch", "single"} : Ask(action)
  <2>1. PICK a \in {"batch", "single"} : asking' = [action |-> a, items |-> shown.place.host]
    BY <1>4 DEF Ask
  <2>2. asking' \in [action : {"batch", "single"}, items : AllHosts]
    BY <1>1, <2>1
  <2>3. asking'.items \in {Nowhere, host}
    BY <2>1 DEF ManagerTypes
  <2>. QED
    BY <1>4, <2>2, <2>3 DEF Ask
<1>5. CASE Confirm
  <2>1. /\ asking # NotAsking /\ asking' = NotAsking
        /\ requests' = Append(requests, Request(asking.action, View, asking.items))
        /\ UNCHANGED <<viewVars, screenVars, listingVars, results, remote, due>>
    BY <1>5 DEF Confirm, Submit
  <2>2. asking.action \in {"batch", "single"} /\ asking.items \in AllHosts
    BY <2>1 DEF ManagerTypes
  <2>3. View \in AllPlaces /\ View.host = host
    BY ViewTypes
  <2>4. asking.items \in {Nowhere, View.host} \/ View.host = Nowhere
    BY <2>3 DEF ManagerTypes
  <2>5. Request(asking.action, View, asking.items) \in OwnItems
    BY <2>2, <2>3, <2>4, RequestTypes
  <2>6. Request(asking.action, View, asking.items).action # "list"
    BY <2>2 DEF Request
  <2>. QED
    BY <1>2, <2>1, <2>5, <2>6
<1>. QED
  BY <1>3, <1>4, <1>5

\* One request is answered, and a host's version only grows.
LEMMA ProcessDoes ==
    ASSUME ManagerTypes, Process
    PROVE  /\ UNCHANGED <<viewVars, screenVars, listingVars, asking, due>>
           /\ requests # <<>> /\ requests' = Tail(requests)
           /\ remote' \in [FileHosts -> Nat] /\ \A h \in FileHosts : remote[h] <= remote'[h]
           /\ \E r \in Outcomes : /\ results' = Append(results, r) /\ r.request = Head(requests)
                                  /\ r.outcome = "done" => r.version = remote'[r.request.place.host]
<1>1. /\ UNCHANGED <<viewVars, screenVars, listingVars, asking, due>>
      /\ requests # <<>> /\ requests' = Tail(requests)
  BY DEF Process
<1>2. PICK q \in Requests : q = Head(requests) /\ q.place.host \in AllHosts
  BY <1>1, RequestFields, PlaceFields DEF ManagerTypes
<1>3. PICK h \in AllHosts : h = q.place.host
  BY <1>2
<1>4. remote \in [FileHosts -> Nat]
  BY DEF ManagerTypes
<1>5. PICK changed : changed = [remote EXCEPT ![h] = @ + 1]
  OBVIOUS
<1>6. /\ changed \in [FileHosts -> Nat]
      /\ \A g \in FileHosts : remote[g] <= remote[g] /\ remote[g] <= changed[g]
  <2>1. changed \in [FileHosts -> Nat]
    <3>1. CASE h \in FileHosts
      BY <1>4, <1>5, <3>1
    <3>2. CASE h \notin FileHosts
      BY <1>4, <1>5, <3>2
    <3>. QED
      BY <3>1, <3>2
  <2>2. ASSUME NEW g \in FileHosts PROVE remote[g] <= remote[g] /\ remote[g] <= changed[g]
    <3>1. changed[g] = IF g = h THEN remote[g] + 1 ELSE remote[g]
      BY <1>4, <1>5
    <3>2. remote[g] \in Nat
      BY <1>4
    <3>. QED
      BY <3>1, <3>2
  <2>. QED
    BY <2>1, <2>2
<1>7. \/ h = Nowhere /\ remote' = remote /\ AnswerTo(q, "error", 0)
      \/ /\ h # Nowhere /\ remote' \in {remote, changed}
         /\ AnswerTo(q, "done", remote'[h]) \/ AnswerTo(q, "error", 0)
  BY <1>2, <1>3, <1>5 DEF Process
<1>8. remote' \in [FileHosts -> Nat] /\ \A g \in FileHosts : remote[g] <= remote'[g]
  BY <1>4, <1>6, <1>7
<1>9. \E r \in Outcomes : /\ results' = Append(results, r) /\ r.request = q
                          /\ r.outcome = "done" => r.version = remote'[r.request.place.host]
  <2>1. CASE AnswerTo(q, "error", 0)
    <3>1. PICK r : r = [request |-> q, outcome |-> "error", version |-> 0]
      OBVIOUS
    <3>2. r \in Outcomes /\ r.request = q /\ r.outcome = "error"
      BY <3>1 DEF Outcomes, Results
    <3>. QED
      BY <2>1, <3>1, <3>2 DEF AnswerTo
  <2>2. CASE h # Nowhere /\ AnswerTo(q, "done", remote'[h])
    <3>1. PICK v : v = remote'[h]
      OBVIOUS
    <3>2. v \in Nat /\ h \in FileHosts
      BY <1>8, <2>2, <3>1 DEF AllHosts
    <3>3. PICK r : r = [request |-> q, outcome |-> "done", version |-> v]
      OBVIOUS
    <3>4. r \in Outcomes /\ r.request = q /\ r.version = v
      BY <1>3, <3>2, <3>3 DEF Outcomes, Results
    <3>. QED
      BY <1>3, <2>2, <3>1, <3>3, <3>4 DEF AnswerTo
  <2>. QED
    BY <1>7, <2>1, <2>2
<1>. QED
  BY <1>1, <1>2, <1>8, <1>9

\* Answers are handled in the order they were given.
LEMMA HandleDoes ==
    ASSUME ManagerTypes, HandleResult
    PROVE  /\ results # <<>> /\ results' = Tail(results)
           /\ UNCHANGED <<viewVars, asking, remote>>
           /\ \E r \in Outcomes :
                /\ r = Head(results) /\ r = results[1]
                /\ FilesLoaded(r) \/ OperationComplete(r) \/ ErrorShown(r)
<1>1. results # <<>> /\ results \in Seq(Outcomes)
  BY DEF HandleResult, ManagerTypes
<1>2. PICK r \in Outcomes : r = Head(results) /\ r = results[1]
  BY <1>1, ElementOfSeq
<1>3. FilesLoaded(r) \/ OperationComplete(r) \/ ErrorShown(r)
  BY <1>2 DEF HandleResult
<1>. QED
  BY <1>1, <1>2, <1>3 DEF FilesLoaded, OperationComplete, ErrorShown, Arrives

LEMMA LoadedDoes ==
    ASSUME ManagerTypes, NEW r \in Outcomes, FilesLoaded(r)
    PROVE  /\ UNCHANGED <<requests, due>> /\ r.outcome = "done" /\ r.request.action = "list"
           /\ r.request.place \in Places
           /\ \/ ~r.request.known /\ UNCHANGED <<listingVars, screenVars>>
              \/ /\ r.request.known /\ fileCache' = [fileCache EXCEPT ![r.request.place] = r.version]
                 /\ disk' \in [FileHosts -> [Keys -> Nat]]
                 /\ \/ r.request.place = View /\ shown' = Listing(View, r.version) /\ told' = FALSE
                    \/ r.request.place # View /\ UNCHANGED screenVars
<1>1. r.outcome = "done" /\ r.request.action = "list" /\ UNCHANGED <<requests, due>>
  BY DEF FilesLoaded
<1>2. PICK place \in Places : place = r.request.place
  BY <1>1, RequestFields, PlaceFields, HostsAssumption
<1>3. r.request.known \in BOOLEAN /\ r.version \in Nat
  BY RequestFields
<1>4. CASE ~r.request.known
  BY <1>1, <1>2, <1>4 DEF FilesLoaded
<1>5. CASE r.request.known
  <2>1. /\ fileCache' = [fileCache EXCEPT ![place] = r.version]
        /\ disk' = IF place.page = 1
                   THEN [disk EXCEPT ![place.host][place.key] = r.version] ELSE disk
        /\ IF place = View THEN shown' = Listing(place, r.version) /\ told' = FALSE ELSE UNCHANGED screenVars
    BY <1>2, <1>5 DEF FilesLoaded, IsOnScreen
  <2>2. place.host \in FileHosts /\ place.key \in Keys
    BY <1>2, PlaceFields
  <2>3. [disk[place.host] EXCEPT ![place.key] = r.version] \in [Keys -> Nat]
    BY <1>3, <2>2 DEF ManagerTypes
  <2>4. disk' \in [FileHosts -> [Keys -> Nat]]
    BY <1>3, <2>1, <2>2, <2>3 DEF ManagerTypes
  <2>. QED
    BY <1>1, <1>2, <1>5, <2>1, <2>4
<1>. QED
  BY <1>3, <1>4, <1>5

LEMMA CompleteDoes ==
    ASSUME ManagerTypes, NEW r \in Outcomes, OperationComplete(r)
    PROVE  /\ UNCHANGED disk /\ r.outcome = "done" /\ r.request.action # "list"
           /\ \/ UNCHANGED <<fileCache, screenVars, requests, due>>
              \/ host = Nowhere /\ UNCHANGED <<fileCache, screenVars, requests, due>>
              \/ /\ host # Nowhere /\ fileCache' = Invalidated /\ Load(View, Invalidated)
                 /\ due' = IF r.request.place.host = host
                           THEN [due EXCEPT ![folder] = r.version] ELSE due
<1>1. /\ UNCHANGED disk /\ r.outcome = "done" /\ r.request.action # "list"
  BY DEF OperationComplete
<1>2. CASE UNCHANGED <<fileCache, screenVars, requests, due>>
  BY <1>1, <1>2
<1>3. CASE Reload /\ due' = IF r.request.place.host = host
                            THEN [due EXCEPT ![folder] = r.version] ELSE due
  <2>1. CASE host # Nowhere
    BY <1>1, <1>3, <2>1 DEF Reload
  <2>2. CASE host = Nowhere
    <3>1. r.request.place.host # host
      BY <1>1, <2>2, RequestFields, HostsAssumption
    <3>2. View.host = Nowhere /\ fileCache' = fileCache /\ Load(View, fileCache)
      BY <1>3, <2>2, ViewTypes DEF Reload
    <3>3. UNCHANGED <<screenVars, requests>>
      BY <3>2 DEF Load
    <3>. QED
      BY <1>1, <1>3, <2>2, <3>1, <3>2, <3>3
  <2>. QED
    BY <2>1, <2>2
<1>. QED
  BY <1>2, <1>3 DEF OperationComplete

LEMMA AnswerTypes ==
    ASSUME ManagerTypes, HandleResult
    PROVE  ManagerTypes'
<1>1. /\ results # <<>> /\ results' = Tail(results) /\ UNCHANGED <<viewVars, asking, remote>>
  BY HandleDoes
<1>2. PICK r \in Outcomes : FilesLoaded(r) \/ OperationComplete(r) \/ ErrorShown(r)
  BY HandleDoes
<1>3. results' \in Seq(Outcomes)
  BY <1>1, HeadTailProperties DEF ManagerTypes
<1>4. r.version \in Nat /\ View \in AllPlaces /\ View.host = host /\ View' = View
  BY <1>1, RequestFields, ViewTypes DEF View, viewVars
<1>5. CASE FilesLoaded(r)
  <2>1. fileCache' \in [Places -> Nat] /\ disk' \in [FileHosts -> [Keys -> Nat]]
    BY <1>4, <1>5, LoadedDoes DEF ManagerTypes, listingVars
  <2>2. CASE UNCHANGED screenVars
    BY <1>1, <1>3, <1>5, <2>1, <2>2, LoadedDoes DEF ManagerTypes, viewVars, screenVars
  <2>3. CASE View \in Places /\ shown' = Listing(View, r.version) /\ told' = FALSE
    <3>1. /\ shown' \in [place : Places, version : Nat] /\ shown' \in [place : AllPlaces, version : Nat]
          /\ shown'.place = View
      BY <1>4, <2>3, ListingTypes
    <3>. QED
      BY <1>1, <1>3, <1>4, <1>5, <2>1, <2>3, <3>1, LoadedDoes DEF ManagerTypes, viewVars
  <2>. QED
    BY <1>5, <2>2, <2>3, LoadedDoes
<1>6. CASE OperationComplete(r)
  <2>1. CASE UNCHANGED <<fileCache, screenVars, requests, due>>
    BY <1>1, <1>3, <1>6, <2>1, CompleteDoes DEF ManagerTypes, viewVars, screenVars
  <2>2. CASE host # Nowhere /\ fileCache' = Invalidated /\ Load(View, Invalidated)
             /\ due' = IF r.request.place.host = host THEN [due EXCEPT ![folder] = r.version] ELSE due
    <3>1. PICK cache \in [Places -> Nat] : cache = Invalidated
      BY InvalidatedTypes
    <3>2. PICK place \in AllPlaces : place = View
      BY <1>4
    <3>3. Load(place, cache) /\ place.host = host
      BY <1>4, <2>2, <3>1, <3>2
    <3>4. due' \in [Folders -> Nat]
      BY <1>4, <2>2 DEF ManagerTypes
    <3>. QED
      BY <1>1, <1>3, <1>6, <2>2, <3>1, <3>3, <3>4, CompleteDoes, LoadTypes DEF ManagerTypes, viewVars
  <2>. QED
    BY <1>6, <2>1, <2>2, CompleteDoes
<1>7. CASE ErrorShown(r)
  <2>1. UNCHANGED <<shown, listingVars, requests, due>> /\ told' \in BOOLEAN
    BY <1>7 DEF ErrorShown, ManagerTypes
  <2>. QED
    BY <1>1, <1>3, <2>1 DEF ManagerTypes, viewVars, listingVars
<1>. QED
  BY <1>2, <1>5, <1>6, <1>7

LEMMA ManagerTypesNext == ManagerTypes /\ [ManagerNext]_managerVars => ManagerTypes'
<1>. SUFFICES ASSUME ManagerTypes, [ManagerNext]_managerVars PROVE ManagerTypes'
  OBVIOUS
<1>1. CASE UNCHANGED managerVars
  BY <1>1 DEF ManagerTypes, managerVars, viewVars, screenVars, listingVars
<1>2. CASE Confirm \/ Cancel \/ \E action \in {"batch", "single"} : Ask(action)
  <2>1. requests' \in Seq(OwnItems)
    <3>1. requests \in Seq(OwnItems)
      BY DEF ManagerTypes
    <3>2. CASE \E q \in OwnItems : requests' = Append(requests, q)
      BY <3>1, <3>2, AppendProperties
    <3>. QED
      BY <1>2, <3>1, <3>2, DialogDoes
  <2>. QED
    BY <1>2, <2>1, DialogDoes DEF ManagerTypes, viewVars, screenVars, listingVars
<1>3. CASE Process
  <2>1. requests' \in Seq(OwnItems) /\ results' \in Seq(Outcomes)
    <3>1. requests \in Seq(OwnItems) /\ results \in Seq(Outcomes)
      BY DEF ManagerTypes
    <3>2. requests' \in Seq(OwnItems)
      BY <1>3, <3>1, ProcessDoes, HeadTailProperties
    <3>3. PICK r \in Outcomes : results' = Append(results, r)
      BY <1>3, ProcessDoes
    <3>. QED
      BY <3>1, <3>2, <3>3, AppendProperties
  <2>. QED
    BY <1>3, <2>1, ProcessDoes DEF ManagerTypes, viewVars, screenVars, listingVars
<1>. QED
  BY <1>1, <1>2, <1>3, HostTypes, MoveTypes, AnswerTypes DEF ManagerNext

LEMMA ManagerTypesInit == ManagerInit => ManagerTypes
<1>. SUFFICES ASSUME ManagerInit PROVE ManagerTypes
  OBVIOUS
<1>1. Root \in Folders /\ Root \in Keys /\ 1 \in Pages /\ host \in FileHosts /\ host \in AllHosts
  BY FoldersAssumption DEF Keys, Pages, AllHosts, ManagerInit
<1>2. disk \in [FileHosts -> [Keys -> Nat]]
  BY DEF ManagerInit, Unknown
<1>3. fileCache \in [Places -> Nat]
  <2>1. ASSUME NEW place \in Places
        PROVE  (IF place.host = host /\ place.page = 1 THEN disk[host][place.key] ELSE Unknown) \in Nat
    BY <1>1, <1>2, PlaceFields DEF Unknown
  <2>. QED
    BY <2>1 DEF ManagerInit
<1>4. PICK place \in Places : place = View /\ place.host = host
  <2>1. View = Place(host, Root, 1)
    BY DEF ManagerInit, View
  <2>. QED
    BY <1>1, <2>1, PlaceTypes, HostsAssumption
<1>5. /\ shown \in [place : AllPlaces, version : Nat] /\ shown.place.host \in {Nowhere, host}
      /\ shown \in [place : Places, version : Nat] \cup {NoListing}
  <2>1. shown \in {NoListing, Listing(place, 1)}
    BY <1>4 DEF ManagerInit
  <2>. QED
    BY <1>4, <2>1, ListingTypes, NoListingTypes
<1>6. requests \in Seq(OwnItems)
  <2>1. Request("list", place, Nowhere) \in OwnItems
    BY <1>4, PlaceFields, RequestTypes DEF AllHosts
  <2>2. requests = <<Request("list", place, Nowhere)>>
    BY <1>4 DEF ManagerInit
  <2>. QED
    BY <2>1, <2>2
<1>7. NotAsking.items = Nowhere
  BY DEF NotAsking
<1>. QED
  <2>1. /\ folder = Root /\ page = 1 /\ inTrash = FALSE /\ told = FALSE /\ asking = NotAsking /\ results = <<>>
        /\ hostFolder = [h \in FileHosts |-> Root] /\ remote = [h \in FileHosts |-> 1]
        /\ due = [k \in Folders |-> 0]
    BY DEF ManagerInit, NothingDue
  <2>2. /\ hostFolder \in [FileHosts -> Folders] /\ remote \in [FileHosts -> Nat]
        /\ due \in [Folders -> Nat] /\ results \in Seq(Outcomes)
    BY <1>1, <2>1
  <2>. QED
    BY <1>1, <1>2, <1>3, <1>5, <1>6, <1>7, <2>1, <2>2 DEF ManagerTypes

LEMMA ManagerTypesHold == ManagerTypes => ManagerTypeOK
<1>. SUFFICES ASSUME ManagerTypes PROVE ManagerTypeOK
  OBVIOUS
<1>1. OwnItems \subseteq Requests /\ Outcomes \subseteq [request : Requests, outcome : {"done", "error"}, version : Nat]
  BY DEF OwnItems, Outcomes, Results
<1>2. /\ requests \in Seq(Requests)
      /\ results \in Seq([request : Requests, outcome : {"done", "error"}, version : Nat])
  BY <1>1, SeqMonotonic DEF ManagerTypes
<1>3. asking \in [action : {"nothing", "batch", "single"}, items : FileHosts \cup {Nowhere}]
  BY DEF ManagerTypes, NotAsking, AllHosts
<1>. QED
  BY <1>2, <1>3 DEF ManagerTypes, ManagerTypeOK, AllHosts

\* ManagerTypeOK, for any number of hosts, folders and requests.
THEOREM ManagerTyped == ManagerSpec => []ManagerTypeOK
  BY ManagerTypesInit, ManagerTypesNext, ManagerTypesHold, PTL DEF ManagerSpec

\* What is selected at one host is never named to another: the dialog that asks
\* keeps the host from changing but to none.
THEOREM ItemsAreNamedToTheirHost == ManagerSpec => []ItemsStayAtTheirHost
<1>1. ManagerTypes => ItemsStayAtTheirHost
  <2>. SUFFICES ASSUME ManagerTypes, NEW i \in DOMAIN requests
                PROVE  requests[i].items \in {Nowhere, requests[i].place.host} \/ requests[i].place.host = Nowhere
    BY DEF ItemsStayAtTheirHost
  <2>1. requests[i] \in OwnItems
    BY ElementOfSeq DEF ManagerTypes
  <2>. QED
    BY <2>1, RequestFields
<1>. QED
  BY <1>1, ManagerTypesInit, ManagerTypesNext, PTL DEF ManagerSpec

-----------------------------------------------------------------------------
(* What answers and caches are worth.  The worker answers in turn, so that *)
(* an answer is no older than those before it; and once a change has been  *)
(* handled, neither an answer on its way nor a page in the cache is older. *)

Gives(r, h) == r.outcome = "done" /\ r.request.place.host = h
InOrder(rs) ==
    \A h \in FileHosts : \A i, j \in 1..Len(rs) :
        i < j /\ Gives(rs[i], h) /\ Gives(rs[j], h) => rs[i].version <= rs[j].version
UpTo(rs, versions) ==
    \A h \in FileHosts : \A i \in 1..Len(rs) : Gives(rs[i], h) => rs[i].version <= versions[h]
NoOlder(rs, h, v) == \A i \in 1..Len(rs) : Gives(rs[i], h) => v <= rs[i].version

DueIn(cache) ==
    \A k \in Folders, p \in Pages :
        cache[Place(host, k, p)] = Unknown \/ due[k] <= cache[Place(host, k, p)]

FreshInv ==
    /\ InOrder(results) /\ UpTo(results, remote)
    /\ host # Nowhere => /\ \A k \in Folders : due[k] <= remote[host] /\ NoOlder(results, host, due[k])
                         /\ DueIn(fileCache)

LEMMA AnswersForgotten ==
    ASSUME ManagerTypes, FreshInv, ResultsForgotten
    PROVE  InOrder(results') /\ UpTo(results', remote) /\ \A h \in FileHosts : NoOlder(results', h, 0)
<1>1. /\ results' \in Seq(Outcomes) /\ Len(results') = Len(results)
      /\ \A i \in 1..Len(results) : SameResult(results'[i], results[i])
  BY ForgetsResults
<1>2. ASSUME NEW i \in 1..Len(results), NEW h
      PROVE  /\ Gives(results'[i], h) <=> Gives(results[i], h)
             /\ results'[i].version = results[i].version
  BY <1>1 DEF SameResult, Gives
<1>3. ASSUME NEW i \in 1..Len(results') PROVE 0 <= results'[i].version
  <2>1. results'[i] \in Outcomes
    BY <1>1, ElementOfSeq
  <2>2. results'[i].version \in Nat
    BY <2>1, RequestFields
  <2>. QED
    BY <2>2
<1>4. InOrder(results')
  <2>. SUFFICES ASSUME NEW h \in FileHosts, NEW i \in 1..Len(results), NEW j \in 1..Len(results), i < j,
                       Gives(results'[i], h), Gives(results'[j], h)
                PROVE  results'[i].version <= results'[j].version
    BY <1>1 DEF InOrder
  <2>1. Gives(results[i], h) /\ Gives(results[j], h)
    BY <1>2
  <2>2. results[i].version <= results[j].version
    BY <2>1 DEF FreshInv, InOrder
  <2>. QED
    BY <1>2, <2>2
<1>5. UpTo(results', remote)
  BY <1>1, <1>2 DEF UpTo, FreshInv
<1>. QED
  BY <1>3, <1>4, <1>5 DEF NoOlder

LEMMA AnswersTaken ==
    ASSUME NEW rs \in Seq(Outcomes), rs # <<>>, NEW versions, InOrder(rs), UpTo(rs, versions)
    PROVE  /\ InOrder(Tail(rs)) /\ UpTo(Tail(rs), versions)
           /\ \A h \in FileHosts, v \in Nat : NoOlder(rs, h, v) => NoOlder(Tail(rs), h, v)
           /\ \A h \in FileHosts : Gives(rs[1], h) => /\ NoOlder(Tail(rs), h, rs[1].version)
                                                  /\ rs[1].version <= versions[h]
<1>1. PICK ts \in Seq(Outcomes) : ts = Tail(rs)
  BY HeadTailProperties
<1>2. /\ Len(ts) = Len(rs) - 1 /\ Len(rs) \in Nat /\ Len(rs) # 0 /\ 1 \in 1..Len(rs)
      /\ \A i \in 1..Len(ts) : /\ i + 1 \in 1..Len(rs) /\ 1 < i + 1 /\ ts[i] = rs[i + 1]
                               /\ \A j \in 1..Len(ts) : i < j => i + 1 < j + 1
  BY <1>1
<1>3. InOrder(ts)
  BY <1>2 DEF InOrder
<1>4. UpTo(ts, versions)
  BY <1>2 DEF UpTo
<1>5. ASSUME NEW h \in FileHosts, NEW v \in Nat, NoOlder(rs, h, v) PROVE NoOlder(ts, h, v)
  BY <1>2, <1>5 DEF NoOlder
<1>6. ASSUME NEW h \in FileHosts, Gives(rs[1], h) PROVE NoOlder(ts, h, rs[1].version) /\ rs[1].version <= versions[h]
  BY <1>2, <1>6 DEF NoOlder, InOrder, UpTo
<1>. QED
  BY <1>1, <1>3, <1>4, <1>5, <1>6

LEMMA AnswersGiven ==
    ASSUME NEW rs \in Seq(Outcomes), NEW r \in Outcomes, NEW old \in [FileHosts -> Nat],
           NEW new \in [FileHosts -> Nat], \A h \in FileHosts : old[h] <= new[h],
           \A h \in FileHosts : Gives(r, h) => r.version = new[h], InOrder(rs), UpTo(rs, old)
    PROVE  /\ InOrder(Append(rs, r)) /\ UpTo(Append(rs, r), new)
           /\ \A h \in FileHosts, v \in Nat : NoOlder(rs, h, v) /\ v <= old[h] => NoOlder(Append(rs, r), h, v)
<1>1. PICK as \in Seq(Outcomes) : as = Append(rs, r)
  BY AppendProperties
<1>2. /\ Len(as) = Len(rs) + 1 /\ Len(rs) \in Nat /\ as[Len(rs) + 1] = r
      /\ \A i \in 1..Len(rs) : as[i] = rs[i]
  BY <1>1, AppendProperties
<1>3. ASSUME NEW i \in 1..Len(as) PROVE i \in 1..Len(rs) \/ i = Len(as)
  BY <1>2
<1>4. \A i \in 1..Len(rs) : rs[i].version \in Nat
  BY RequestFields, ElementOfSeq
<1>5. ASSUME NEW h \in FileHosts, NEW i \in 1..Len(rs), Gives(rs[i], h)
      PROVE  rs[i].version <= old[h] /\ rs[i].version <= new[h] /\ old[h] \in Nat /\ new[h] \in Nat
  <2>1. rs[i].version <= old[h] /\ old[h] <= new[h] /\ old[h] \in Nat /\ new[h] \in Nat /\ rs[i].version \in Nat
    BY <1>4, <1>5 DEF UpTo
  <2>. QED
    BY <2>1
<1>6. UpTo(as, new)
  <2>. SUFFICES ASSUME NEW h \in FileHosts, NEW i \in 1..Len(as), Gives(as[i], h)
                PROVE  as[i].version <= new[h]
    BY DEF UpTo
  <2>1. CASE i \in 1..Len(rs)
    <3>1. as[i] = rs[i] /\ Gives(rs[i], h)
      BY <1>2, <2>1
    <3>. QED
      BY <1>5, <2>1, <3>1
  <2>2. CASE i = Len(as)
    <3>1. as[i] = r /\ r.version = new[h] /\ new[h] \in Nat
      BY <1>2, <2>2
    <3>. QED
      BY <3>1
  <2>. QED
    BY <1>3, <2>1, <2>2
<1>7. InOrder(as)
  <2>. SUFFICES ASSUME NEW h \in FileHosts, NEW i \in 1..Len(as), NEW j \in 1..Len(as), i < j,
                       Gives(as[i], h), Gives(as[j], h)
                PROVE  as[i].version <= as[j].version
    BY DEF InOrder
  <2>1. i \in 1..Len(rs)
    BY <1>2, <1>3
  <2>2. CASE j \in 1..Len(rs)
    BY <1>2, <2>1, <2>2 DEF InOrder
  <2>3. CASE j = Len(as)
    BY <1>2, <1>5, <2>1, <2>3
  <2>. QED
    BY <1>3, <2>2, <2>3
<1>8. ASSUME NEW h \in FileHosts, NEW v \in Nat, NoOlder(rs, h, v), v <= old[h] PROVE NoOlder(as, h, v)
  <2>. SUFFICES ASSUME NEW i \in 1..Len(as), Gives(as[i], h) PROVE v <= as[i].version
    BY DEF NoOlder
  <2>1. CASE i \in 1..Len(rs)
    BY <1>2, <1>8, <2>1 DEF NoOlder
  <2>2. CASE i = Len(as)
    <3>1. as[i].version = new[h] /\ old[h] <= new[h] /\ old[h] \in Nat /\ new[h] \in Nat
      BY <1>2, <2>2
    <3>. QED
      BY <1>8, <3>1
  <2>. QED
    BY <1>3, <2>1, <2>2
<1>. QED
  BY <1>1, <1>6, <1>7, <1>8

LEMMA FreshNext ==
    ASSUME ManagerTypes, FreshInv, [ManagerNext]_managerVars
    PROVE  FreshInv'
<1>1. /\ results \in Seq(Outcomes) /\ remote \in [FileHosts -> Nat] /\ due \in [Folders -> Nat]
      /\ host # Nowhere => host \in FileHosts
  BY DEF ManagerTypes, AllHosts
<1>2. CASE UNCHANGED <<results, remote, host, due, fileCache>>
  BY <1>2 DEF FreshInv, DueIn
<1>3. CASE HostDisabled \/ \E h \in FileHosts : SetHost(h) \/ ProbeFails(h)
  <2>1. ManagerTypes'
    BY <1>3, HostTypes
  <2>2. ResultsForgotten /\ due' = NothingDue /\ remote' = remote
    BY <1>3 DEF HostDisabled, SetHost, ProbeFails
  <2>3. InOrder(results') /\ UpTo(results', remote) /\ \A h \in FileHosts : NoOlder(results', h, 0)
    BY <2>2, AnswersForgotten
  <2>4. \A k \in Folders : due'[k] = 0
    BY <2>2 DEF NothingDue
  <2>5. ASSUME host' # Nowhere
        PROVE  /\ \A k \in Folders : due'[k] <= remote'[host'] /\ NoOlder(results', host', due'[k])
               /\ \A k \in Folders, p \in Pages : due'[k] <= fileCache'[Place(host', k, p)]
    <3>1. host' \in FileHosts /\ host' \in AllHosts /\ \A k \in Folders : k \in Keys
      BY <2>1, <2>5 DEF ManagerTypes, AllHosts, Keys
    <3>2. remote'[host'] \in Nat
      BY <2>1, <3>1 DEF ManagerTypes
    <3>3. ASSUME NEW k \in Folders, NEW p \in Pages PROVE fileCache'[Place(host', k, p)] \in Nat
      <4>1. Place(host', k, p) \in Places
        BY <2>5, <3>1, PlaceTypes
      <4>. QED
        BY <2>1, <4>1 DEF ManagerTypes
    <3>. QED
      BY <2>3, <2>4, <3>1, <3>2, <3>3
  <2>. QED
    BY <2>2, <2>3, <2>5 DEF FreshInv, DueIn
<1>4. CASE Refresh \/ (\E f \in Folders : Navigate(f)) \/ (\E p \in Pages : TurnPage(p))
             \/ \E on \in BOOLEAN : ToggleTrash(on)
  <2>1. /\ UNCHANGED <<host, results, remote, due>>
        /\ fileCache' = fileCache \/ fileCache' = Invalidated
    BY <1>4, ViewMoves
  <2>2. ASSUME host # Nowhere, DueIn(fileCache) PROVE DueIn(Invalidated)
    <3>1. \A k \in Folders, p \in Pages : Place(host, k, p) \in Places
      BY <1>1, <2>2, PlaceTypes DEF AllHosts, Keys
    <3>. QED
      BY <2>2, <3>1, InvalidatedTypes DEF DueIn
  <2>. QED
    BY <2>1, <2>2 DEF FreshInv, DueIn
<1>5. CASE Process
  <2>1. /\ UNCHANGED <<host, due, fileCache>> /\ remote' \in [FileHosts -> Nat]
        /\ \A h \in FileHosts : remote[h] <= remote'[h]
    BY <1>5, ProcessDoes DEF viewVars, listingVars
  <2>2. PICK r \in Outcomes : /\ results' = Append(results, r)
                              /\ r.outcome = "done" => r.version = remote'[r.request.place.host]
    BY <1>5, ProcessDoes
  <2>3. \A h \in FileHosts : Gives(r, h) => r.version = remote'[h]
    BY <2>2 DEF Gives
  <2>4. /\ InOrder(results') /\ UpTo(results', remote')
        /\ \A h \in FileHosts, v \in Nat : NoOlder(results, h, v) /\ v <= remote[h] => NoOlder(results', h, v)
    BY <1>1, <2>1, <2>2, <2>3, AnswersGiven DEF FreshInv
  <2>5. ASSUME host # Nowhere, NEW k \in Folders
        PROVE  due[k] <= remote'[host] /\ NoOlder(results', host, due[k])
    <3>1. /\ due[k] \in Nat /\ remote[host] \in Nat /\ remote'[host] \in Nat /\ remote[host] <= remote'[host]
          /\ due[k] <= remote[host] /\ NoOlder(results, host, due[k])
      BY <1>1, <2>1, <2>5 DEF FreshInv
    <3>. QED
      BY <1>1, <2>4, <2>5, <3>1
  <2>. QED
    BY <2>1, <2>4, <2>5 DEF FreshInv, DueIn
<1>6. CASE HandleResult
  <2>1. /\ results # <<>> /\ results' = Tail(results) /\ UNCHANGED <<host, folder, remote>>
    BY <1>6, HandleDoes DEF viewVars
  <2>2. PICK r \in Outcomes : r = results[1] /\ (FilesLoaded(r) \/ OperationComplete(r) \/ ErrorShown(r))
    BY <1>6, HandleDoes
  <2>3. /\ InOrder(results') /\ UpTo(results', remote)
        /\ \A h \in FileHosts, v \in Nat : NoOlder(results, h, v) => NoOlder(results', h, v)
        /\ \A h \in FileHosts : Gives(r, h) => NoOlder(results', h, r.version) /\ r.version <= remote[h]
    BY <1>1, <2>1, <2>2, AnswersTaken DEF FreshInv
  <2>4. \A k \in Folders : due[k] \in Nat
    BY <1>1
  <2>5. r.version \in Nat /\ Len(results) \in Nat /\ 1 \in 1..Len(results)
    BY <1>1, <2>1, RequestFields
  <2>6. CASE UNCHANGED <<due, fileCache>>
    BY <1>1, <2>1, <2>3, <2>4, <2>6 DEF FreshInv, DueIn
  <2>7. CASE FilesLoaded(r) /\ r.request.known
    <3>1. /\ due' = due /\ r.request.place \in Places /\ r.outcome = "done"
          /\ fileCache' = [fileCache EXCEPT ![r.request.place] = r.version]
      BY <2>7, LoadedDoes
    <3>2. ASSUME host # Nowhere, NEW k \in Folders, NEW p \in Pages
          PROVE  fileCache'[Place(host, k, p)] = Unknown \/ due[k] <= fileCache'[Place(host, k, p)]
      <4>1. Place(host, k, p) \in Places /\ Place(host, k, p).host = host
        BY <1>1, <3>2, PlaceTypes DEF AllHosts, Keys
      <4>2. CASE r.request.place = Place(host, k, p)
        <5>1. Gives(r, host)
          BY <3>1, <4>1, <4>2 DEF Gives
        <5>2. due[k] <= r.version
          BY <2>2, <2>5, <3>2, <5>1 DEF FreshInv, NoOlder
        <5>. QED
          BY <3>1, <4>1, <4>2, <5>2 DEF ManagerTypes
      <4>3. CASE r.request.place # Place(host, k, p)
        BY <3>1, <3>2, <4>1, <4>3 DEF FreshInv, DueIn, ManagerTypes
      <4>. QED
        BY <4>2, <4>3
    <3>. QED
      BY <1>1, <2>1, <2>3, <2>4, <3>1, <3>2 DEF FreshInv, DueIn
  <2>8. CASE OperationComplete(r) /\ host # Nowhere /\ fileCache' = Invalidated
             /\ due' = IF r.request.place.host = host THEN [due EXCEPT ![folder] = r.version] ELSE due
    <3>1. host \in FileHosts /\ folder \in Folders
      BY <1>1, <2>8 DEF ManagerTypes
    <3>2. r.outcome = "done"
      BY <2>8, CompleteDoes
    <3>3. ASSUME NEW k \in Folders
          PROVE  /\ due'[k] = due[k] \/ (k = folder /\ Gives(r, host) /\ due'[k] = r.version)
                 /\ due'[k] <= remote[host] /\ NoOlder(results', host, due'[k])
      <4>1. due'[k] = due[k] \/ (k = folder /\ Gives(r, host) /\ due'[k] = r.version)
        BY <1>1, <2>8, <3>2 DEF Gives
      <4>. QED
        BY <2>3, <2>4, <2>8, <3>1, <4>1 DEF FreshInv
    <3>4. ASSUME NEW k \in Folders, NEW p \in Pages
          PROVE  fileCache'[Place(host, k, p)] = Unknown \/ due'[k] <= fileCache'[Place(host, k, p)]
      <4>1. /\ Place(host, k, p) \in Places /\ Place(host, k, p).host = host /\ Place(host, k, p).key = k
        BY <2>8, <3>1, PlaceTypes DEF AllHosts, Keys
      <4>2. fileCache'[Place(host, k, p)] = IF k = folder THEN Unknown ELSE fileCache[Place(host, k, p)]
        BY <2>8, <4>1, InvalidatedTypes
      <4>. QED
        BY <2>8, <3>3, <4>2 DEF FreshInv, DueIn
    <3>. QED
      BY <2>1, <2>3, <2>8, <3>3, <3>4 DEF FreshInv, DueIn
  <2>. QED
    <3>1. CASE FilesLoaded(r)
      BY <2>6, <2>7, <3>1, LoadedDoes DEF listingVars
    <3>2. CASE OperationComplete(r)
      BY <2>6, <2>8, <3>2, CompleteDoes
    <3>3. CASE ErrorShown(r)
      BY <2>6, <3>3 DEF ErrorShown, listingVars
    <3>. QED
      BY <2>2, <3>1, <3>2, <3>3
<1>7. CASE Confirm \/ Cancel \/ \E action \in {"batch", "single"} : Ask(action)
  BY <1>2, <1>7 DEF Confirm, Cancel, Ask, viewVars, listingVars
<1>. QED
  <2>1. CASE UNCHANGED managerVars
    BY <1>2, <2>1 DEF managerVars, viewVars, listingVars
  <2>. QED
    BY <1>3, <1>4, <1>5, <1>6, <1>7, <2>1 DEF ManagerNext

-----------------------------------------------------------------------------
(* What is on the screen.  Unless the user has been told of an error, it is *)
(* what is due there, or the request for it or its answer is still coming.  *)

Fetches(q, place) == q.action = "list" /\ q.known /\ q.place = place
InRequests(qs, place) == \E i \in 1..Len(qs) : Fetches(qs[i], place)
InResults(rs, place) == \E i \in 1..Len(rs) : Fetches(rs[i].request, place)

Settled(place) ==
    \/ told \/ InRequests(requests, place) \/ InResults(results, place)
    \/ shown.place = place /\ due[folder] <= shown.version

Settling == host # Nowhere /\ ~inTrash => Settled(Place(host, folder, page))

LEMMA Submitted ==
    ASSUME NEW qs \in Seq(OwnItems), NEW q \in OwnItems
    PROVE  /\ \A place \in Places : Fetches(q, place) => InRequests(Append(qs, q), place)
           /\ \A place \in Places : InRequests(qs, place) => InRequests(Append(qs, q), place)
<1>1. PICK as : as = Append(qs, q)
  OBVIOUS
<1>2. /\ Len(as) = Len(qs) + 1 /\ Len(qs) \in Nat /\ as[Len(qs) + 1] = q
      /\ \A i \in 1..Len(qs) : as[i] = qs[i] /\ i \in 1..Len(as)
  BY <1>1, AppendProperties
<1>3. Len(qs) + 1 \in 1..Len(as)
  BY <1>2
<1>. QED
  BY <1>1, <1>2, <1>3 DEF InRequests

LEMMA AskedFor ==
    ASSUME NEW place \in Places
    PROVE  /\ Request("list", place, Nowhere) \in OwnItems
           /\ Fetches(Request("list", place, Nowhere), place)
<1>1. place \in AllPlaces /\ Nowhere \in AllHosts
  BY PlaceFields DEF AllHosts
<1>2. Request("list", place, Nowhere) \in OwnItems
  BY <1>1, RequestTypes
<1>. QED
  BY <1>2 DEF Fetches, Request

\* Loading a view settles it: what is cached is not too old.
LEMMA LoadSettles ==
    ASSUME ManagerTypes, NEW place \in Places, NEW cache \in [Places -> Nat], Load(place, cache),
           NEW v \in Nat, cache[place] = Unknown \/ v <= cache[place]
    PROVE  \/ InRequests(requests', place)
           \/ shown'.place = place /\ v <= shown'.version
<1>1. place.host # Nowhere /\ cache[place] \in Nat /\ requests \in Seq(OwnItems)
  BY PlaceFields DEF ManagerTypes
<1>2. CASE requests' = Append(requests, Request("list", place, Nowhere))
  BY <1>1, <1>2, AskedFor, Submitted
<1>3. CASE cache[place] # Unknown /\ shown' = Listing(place, cache[place])
  BY <1>1, <1>3, ListingTypes
<1>. QED
  BY <1>1, <1>2, <1>3, LoadDoes

LEMMA SettlingNext ==
    ASSUME ManagerTypes, FreshInv, Settling, [ManagerNext]_managerVars
    PROVE  Settling'
<1>. SUFFICES ASSUME host' # Nowhere, ~inTrash'
              PROVE  \/ told' \/ InRequests(requests', Place(host', folder', page'))
                     \/ InResults(results', Place(host', folder', page'))
                     \/ shown'.place = Place(host', folder', page') /\ due'[folder'] <= shown'.version
  BY DEF Settling, Settled
<1>1. PICK place : place = Place(host', folder', page')
  OBVIOUS
<1>2. ManagerTypes' /\ FreshInv'
  BY ManagerTypesNext, FreshNext
<1>3. place \in Places /\ host' \in FileHosts /\ host' \in AllHosts /\ folder' \in Folders /\ page' \in Pages
  BY <1>1, <1>2, PlaceTypes DEF ManagerTypes, AllHosts, Keys
<1>. SUFFICES \/ told' \/ InRequests(requests', place) \/ InResults(results', place)
              \/ shown'.place = place /\ due'[folder'] <= shown'.version
  BY <1>1
<1>4. /\ requests \in Seq(OwnItems) /\ results \in Seq(Outcomes) /\ Len(requests) \in Nat /\ Len(results) \in Nat
  BY DEF ManagerTypes
<1>5. ASSUME UNCHANGED viewVars
      PROVE  /\ place = Place(host, folder, page) /\ place = View
             /\ \/ told \/ InRequests(requests, place) \/ InResults(results, place)
                \/ shown.place = place /\ due[folder] <= shown.version
  <2>1. place = Place(host, folder, page) /\ ~inTrash /\ host # Nowhere
    BY <1>1, <1>5 DEF viewVars
  <2>. QED
    BY <2>1 DEF Settling, Settled, View
<1>6. CASE UNCHANGED managerVars
  BY <1>5, <1>6 DEF managerVars, viewVars, screenVars
<1>7. CASE HostDisabled \/ \E h \in FileHosts : SetHost(h) \/ ProbeFails(h)
  <2>1. PICK h \in FileHosts : SetHost(h)
    BY <1>7 DEF HostDisabled, ProbeFails
  <2>2. /\ place = Place(h, hostFolder[h], 1) /\ due' = NothingDue
        /\ shown' = IF Warmed(h)[place] # Unknown THEN Listing(place, Warmed(h)[place]) ELSE NoListing
        /\ \/ requests' = Append(Forgotten(requests), Request("list", place, Nowhere))
           \/ Warmed(h)[place] # Unknown
    BY <1>1, <2>1 DEF SetHost
  <2>3. CASE requests' = Append(Forgotten(requests), Request("list", place, Nowhere))
    BY <1>3, <2>3, AskedFor, Submitted, Forgets
  <2>4. CASE Warmed(h)[place] # Unknown
    <3>1. Warmed(h)[place] \in Nat
      BY <1>3, WarmedTypes
    <3>2. shown'.place = place /\ shown'.version \in Nat /\ due'[folder'] = 0
      BY <1>3, <2>2, <2>4, <3>1, ListingTypes DEF NothingDue
    <3>. QED
      BY <3>2
  <2>. QED
    BY <2>2, <2>3, <2>4
<1>8. CASE Refresh \/ (\E f \in Folders : Navigate(f)) \/ (\E p \in Pages : TurnPage(p))
             \/ \E on \in BOOLEAN : ToggleTrash(on)
  <2>1. UNCHANGED <<host, due>> /\ \E where \in AllPlaces : Load(where, fileCache') /\ where = Place(host, folder', page')
    BY <1>8, ViewMoves
  <2>2. PICK cache \in [Places -> Nat] : cache = fileCache'
    BY <1>2 DEF ManagerTypes
  <2>3. Load(place, cache)
    BY <1>1, <2>1, <2>2
  <2>4. cache[place] = Unknown \/ due'[folder'] <= cache[place]
    BY <1>1, <1>2, <1>3, <2>2 DEF FreshInv, DueIn
  <2>5. PICK v \in Nat : v = due'[folder']
    BY <1>2, <1>3 DEF ManagerTypes
  <2>. QED
    BY <1>3, <2>3, <2>4, <2>5, LoadSettles
<1>9. CASE Confirm \/ Cancel \/ \E action \in {"batch", "single"} : Ask(action)
  <2>1. /\ UNCHANGED <<viewVars, screenVars, results, due>>
        /\ requests' = requests \/ \E q \in OwnItems : requests' = Append(requests, q)
    BY <1>9, DialogDoes
  <2>2. InRequests(requests, place) => InRequests(requests', place)
    BY <1>3, <1>4, <2>1, Submitted
  <2>. QED
    BY <1>5, <2>1, <2>2 DEF screenVars, viewVars
<1>10. CASE Process
  <2>1. /\ UNCHANGED <<viewVars, screenVars, due>> /\ requests # <<>> /\ requests' = Tail(requests)
    BY <1>10, ProcessDoes
  <2>2. PICK r \in Outcomes : results' = Append(results, r) /\ r.request = Head(requests)
    BY <1>10, ProcessDoes
  <2>3. /\ Len(results') = Len(results) + 1 /\ results'[Len(results) + 1] = r
        /\ \A i \in 1..Len(results) : results'[i] = results[i] /\ i \in 1..Len(results')
        /\ Len(results) + 1 \in 1..Len(results')
    BY <1>4, <2>2, AppendProperties
  <2>4. /\ Head(requests) = requests[1] /\ Len(requests') = Len(requests) - 1
        /\ \A i \in 1..Len(requests) : i = 1 \/ (i - 1 \in 1..Len(requests') /\ requests'[i - 1] = requests[i])
    BY <1>4, <2>1
  <2>5. InResults(results, place) => InResults(results', place)
    BY <2>3 DEF InResults
  <2>6. InRequests(requests, place) => InRequests(requests', place) \/ InResults(results', place)
    BY <2>2, <2>3, <2>4 DEF InRequests, InResults
  <2>. QED
    BY <1>5, <2>1, <2>5, <2>6 DEF screenVars, viewVars
<1>11. CASE HandleResult
  <2>1. /\ results # <<>> /\ results' = Tail(results) /\ UNCHANGED <<viewVars, remote>>
    BY <1>11, HandleDoes
  <2>2. PICK r \in Outcomes : r = results[1] /\ (FilesLoaded(r) \/ OperationComplete(r) \/ ErrorShown(r))
    BY <1>11, HandleDoes
  <2>3. \A i \in 1..Len(results) : i = 1 \/ (i - 1 \in 1..Len(results') /\ results'[i - 1] = results[i])
    BY <1>4, <2>1
  <2>4. InResults(results, place) => Fetches(r.request, place) \/ InResults(results', place)
    BY <2>2, <2>3 DEF InResults
  <2>5. /\ place = Place(host, folder, page) /\ place = View /\ host \in FileHosts /\ folder \in Folders
        /\ place.host = host /\ folder' = folder /\ host # Nowhere
    BY <1>1, <1>3, <1>5, <2>1, PlaceTypes DEF viewVars, Keys
  <2>6. /\ \/ told \/ InRequests(requests, place) \/ InResults(results, place)
           \/ shown.place = place /\ due[folder] <= shown.version
    BY <1>5, <2>1
  <2>7. CASE FilesLoaded(r)
    <3>1. CASE r.request.known /\ r.request.place = View /\ shown' = Listing(View, r.version)
      <4>1. Gives(r, host) /\ due' = due
        BY <2>5, <2>7, <3>1, LoadedDoes DEF Gives
      <4>2. due[folder] <= r.version /\ r.version \in Nat
        <5>1. NoOlder(results, host, due[folder]) /\ 1 \in 1..Len(results)
          BY <1>4, <2>1, <2>5 DEF FreshInv
        <5>. QED
          BY <2>2, <4>1, <5>1, RequestFields DEF NoOlder
      <4>. QED
        BY <1>3, <2>5, <3>1, <4>1, <4>2, ListingTypes
    <3>2. CASE UNCHANGED screenVars /\ (~r.request.known \/ r.request.place # View)
      BY <2>4, <2>5, <2>6, <2>7, <3>2, LoadedDoes DEF screenVars, Fetches
    <3>. QED
      BY <2>7, <3>1, <3>2, LoadedDoes
  <2>8. CASE OperationComplete(r)
    <3>1. r.request.action # "list"
      BY <2>8, CompleteDoes
    <3>2. CASE UNCHANGED <<fileCache, screenVars, requests, due>>
      BY <2>4, <2>5, <2>6, <3>1, <3>2 DEF screenVars, Fetches
    <3>3. CASE fileCache' = Invalidated /\ Load(View, Invalidated)
      <4>1. PICK cache \in [Places -> Nat] : cache = Invalidated
        BY InvalidatedTypes
      <4>2. Load(place, cache)
        BY <2>5, <3>3, <4>1
      <4>3. cache[place] = Unknown
        <5>1. place.key = folder
          BY <2>5 DEF Place
        <5>. QED
          BY <1>3, <2>5, <4>1, <5>1, InvalidatedTypes
      <4>4. PICK v \in Nat : v = due'[folder']
        BY <1>2, <1>3 DEF ManagerTypes
      <4>. QED
        BY <1>3, <4>2, <4>3, <4>4, LoadSettles
    <3>. QED
      BY <2>5, <2>8, <3>2, <3>3, CompleteDoes
  <2>9. CASE ErrorShown(r)
    <3>1. /\ UNCHANGED <<shown, requests, due>>
          /\ told' = (told \/ (r.request.action = "list" /\ r.request.known /\ r.request.place = View))
      BY <2>9 DEF ErrorShown, IsOnScreen
    <3>. QED
      BY <2>4, <2>5, <2>6, <3>1 DEF Fetches
  <2>. QED
    BY <2>2, <2>7, <2>8, <2>9
<1>. QED
  BY <1>6, <1>7, <1>8, <1>9, <1>10, <1>11 DEF ManagerNext

LEMMA SettlingInit == ManagerInit => FreshInv /\ Settling
<1>. SUFFICES ASSUME ManagerInit, ManagerTypes PROVE FreshInv /\ Settling
  BY ManagerTypesInit
<1>1. /\ results = <<>> /\ due = [k \in Folders |-> 0] /\ remote = [h \in FileHosts |-> 1]
      /\ host \in FileHosts /\ folder = Root /\ page = 1 /\ inTrash = FALSE
      /\ requests = <<Request("list", View, Nowhere)>>
  BY DEF ManagerInit, NothingDue
<1>2. View \in Places /\ View = Place(host, folder, page) /\ host \in AllHosts
  BY <1>1, ViewTypes, HostsAssumption DEF View, AllHosts
<1>3. FreshInv
  <2>1. \A k \in Folders, p \in Pages : Place(host, k, p) \in Places
    BY <1>1, <1>2, PlaceTypes, HostsAssumption DEF Keys
  <2>2. \A k \in Folders, p \in Pages : fileCache[Place(host, k, p)] \in Nat
    BY <2>1 DEF ManagerTypes
  <2>. QED
    BY <1>1, <2>2 DEF FreshInv, InOrder, UpTo, NoOlder, DueIn
<1>4. InRequests(requests, View)
  <2>1. Len(requests) = 1 /\ requests[1] = Request("list", View, Nowhere)
    BY <1>1
  <2>. QED
    BY <1>2, <2>1, AskedFor DEF InRequests
<1>. QED
  BY <1>2, <1>3, <1>4 DEF Settling, Settled

\* The screen settles on what is due: wherever the user goes, whatever he changes
\* and in whatever order answers, errors and late answers come in.
THEOREM ScreenSettles == ManagerSpec => []ViewSettles
<1>1. ManagerTypes /\ Settling => ViewSettles
  <2>. SUFFICES ASSUME ManagerTypes, Settling, Resting
                PROVE  shown.place = View /\ shown.version >= due[folder]
    BY DEF ViewSettles
  <2>1. requests = <<>> /\ results = <<>> /\ ~told /\ host # Nowhere /\ ~inTrash
    BY DEF Resting
  <2>2. View = Place(host, folder, page) /\ ~InRequests(requests, View) /\ ~InResults(results, View)
    BY <2>1 DEF View, InRequests, InResults
  <2>3. shown.place = View /\ due[folder] <= shown.version
    BY <2>1, <2>2 DEF Settling, Settled
  <2>4. due[folder] \in Nat /\ shown.version \in Nat
    BY DEF ManagerTypes
  <2>. QED
    BY <2>3, <2>4
<1>. QED
  BY <1>1, ManagerTypesInit, ManagerTypesNext, SettlingInit, FreshNext, SettlingNext, PTL DEF ManagerSpec

-----------------------------------------------------------------------------
(* THE SIX SERVICES                                                        *)

\* A thread that has counted a transfer has not reached its bound.
Recording ==
    /\ \A r \in Recorders : /\ recorder[r].done <= MaxRecords
                            /\ recorder[r].host # NoHost => recorder[r].done < MaxRecords
    /\ closing \in BOOLEAN

LEMMA RecordingInit == MetricsInit => Recording
<1>. SUFFICES ASSUME MetricsInit PROVE Recording
  OBVIOUS
<1>1. \A r \in Recorders : recorder[r].done = 0 /\ recorder[r].host = NoHost
  BY DEF MetricsInit
<1>2. closing = FALSE /\ 0 <= MaxRecords
  BY MetricsAssumption DEF MetricsInit
<1>. QED
  BY <1>1, <1>2 DEF Recording

LEMMA RecordingNext == MetricsInv /\ Recording /\ [MetricsNext]_metricsVars => Recording'
<1>. SUFFICES ASSUME MetricsInv, Recording, [MetricsNext]_metricsVars PROVE Recording'
  OBVIOUS
<1>1. recorder \in [Recorders -> Recorder] /\ \A r \in Recorders : recorder[r].done \in Nat
  BY DEF MetricsInv, QueueTypes, Recorder
<1>2. ASSUME NEW r \in Recorders, NEW h \in MetricHosts, CountTransfer(r, h) PROVE Recording'
  <2>1. /\ recorder' = [recorder EXCEPT ![r] = [recorder[r] EXCEPT !.host = h]] /\ closing' = closing
        /\ recorder[r].done < MaxRecords
    BY <1>2 DEF CountTransfer, Idle, closeVars
  <2>2. [recorder[r] EXCEPT !.host = h].done = recorder[r].done
    BY <1>1 DEF Recorder
  <2>. QED
    BY <1>1, <2>1, <2>2, MetricsAssumption DEF Recording
<1>7. ASSUME NEW r \in Recorders, NEW h \in MetricHosts, RecordRaises(r, h) PROVE Recording'
  <2>1. /\ recorder' = [recorder EXCEPT ![r] = [recorder[r] EXCEPT !.done = recorder[r].done + 1]]
        /\ closing' = closing /\ recorder[r].done < MaxRecords /\ recorder[r].host = NoHost
    BY <1>7 DEF RecordRaises, Idle, closeVars
  <2>2. /\ [recorder[r] EXCEPT !.done = recorder[r].done + 1].done = recorder[r].done + 1
        /\ [recorder[r] EXCEPT !.done = recorder[r].done + 1].host = NoHost
        /\ recorder[r].done + 1 <= MaxRecords
    BY <1>1, <2>1, MetricsAssumption DEF Recorder
  <2>. QED
    BY <1>1, <2>1, <2>2 DEF Recording
<1>3. ASSUME NEW r \in Recorders, QueueWrite(r) PROVE Recording'
  <2>1. /\ recorder' = [recorder EXCEPT ![r] = [host |-> NoHost, done |-> recorder[r].done + 1]]
        /\ closing' = closing /\ recorder[r].done < MaxRecords
    BY <1>3 DEF QueueWrite, closeVars, Recording
  <2>2. recorder[r].done + 1 <= MaxRecords
    BY <1>1, <2>1, MetricsAssumption
  <2>. QED
    BY <1>1, <2>1, <2>2 DEF Recording
<1>4. CASE UNCHANGED <<recorder, closing>>
  BY <1>4 DEF Recording
<1>5. CASE Close \/ PutSentinel
  BY <1>5 DEF Close, PutSentinel, cacheVars, Recording
<1>6. CASE WriterStep \/ UNCHANGED metricsVars
  BY <1>4, <1>6 DEF WriterStep, Get, LeaveLoop, Drain, Write, cacheVars, closeVars, metricsVars
<1>. QED
  BY <1>2, <1>3, <1>5, <1>6, <1>7 DEF MetricsNext

LEMMA MetricsTyped == StatsInv /\ Recording => MetricsTypeOK
<1>. SUFFICES ASSUME StatsInv, Recording PROVE MetricsTypeOK
  OBVIOUS
<1>1. ASSUME NEW r \in Recorders PROVE recorder[r] \in [host : MetricHosts \cup {NoHost}, done : 0..MaxRecords]
  <2>1. recorder[r] \in Recorder /\ recorder[r].done <= MaxRecords
    BY DEF StatsInv, MetricsInv, QueueTypes, Recording
  <2>2. recorder[r].done \in 0..MaxRecords
    BY <2>1, MetricsAssumption DEF Recorder
  <2>. QED
    BY <2>1, <2>2 DEF Recorder
<1>2. recorder \in [Recorders -> [host : MetricHosts \cup {NoHost}, done : 0..MaxRecords]]
  BY <1>1 DEF StatsInv, MetricsInv, QueueTypes
<1>. QED
  BY <1>2 DEF StatsInv, MetricsInv, QueueTypes, StatsTypes, Cache, MetricsTypeOK, Recording, Queued

\* TypeOK of the six together, for every value of their constants: whichever of
\* them a behaviour follows, the others stay as they were.
THEOREM ServicesTyped == Spec => []TypeOK
<1>1. Init => UploadInit /\ ScanInit /\ ForumInit /\ MetricsInit /\ ManagerInit /\ AccountInit
  BY DEF Init
<1>2. [Next]_vars => /\ [UploadNext]_uploadVars /\ [ScanNext]_scanVars /\ [ForumNext]_forumVars
                     /\ [MetricsNext]_metricsVars /\ [ManagerNext]_managerVars /\ [AccountNext]_accountVars
  BY DEF Next, vars, others
<1>3. /\ Spec => UploadSpec /\ ScanSpec /\ ForumSpec
      /\ Spec => MetricsSpec /\ ManagerSpec /\ AccountSpec
  BY <1>1, <1>2, PTL DEF Spec, UploadSpec, ScanSpec, ForumSpec, MetricsSpec, ManagerSpec, AccountSpec
<1>4. MetricsSpec => []MetricsTypeOK
  <2>1. StatsInv => MetricsInv
    BY DEF StatsInv
  <2>. QED
    BY <2>1, StatsInitInv, StatsNextInv, RecordingInit, RecordingNext, MetricsTyped, PTL DEF MetricsSpec
<1>5. AccountSpec => []AccountTypeOK
  <2>1. AccountInv => AccountTypeOK
    BY DEF AccountInv
  <2>. QED
    BY <2>1, AccountInitInv, AccountNextInv, PTL DEF AccountSpec
<1>6. UploadTypeOK /\ ScanTypeOK /\ ForumTypeOK /\ MetricsTypeOK /\ ManagerTypeOK /\ AccountTypeOK => TypeOK
  BY DEF TypeOK
<1>. QED
  BY <1>3, <1>4, <1>5, <1>6, UploadTypeCorrect, ScansTyped, PostsTyped, ManagerTyped, PTL
=============================================================================
