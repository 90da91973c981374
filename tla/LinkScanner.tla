----------------------------- MODULE LinkScanner -----------------------------
(***************************************************************************)
(* The link scanner: processing/scan_coordinator.py, the checkers it runs  *)
(* and the dashboard that starts and stops it.  One gallery is looked at,  *)
(* with links at several hosts.  A dashboard that is closed and opened     *)
(* again has a coordinator of its own; the old scan goes on unseen.        *)
(***************************************************************************)
EXTENDS Naturals, FiniteSets

CONSTANTS
    LinkHosts,      \* hosts the gallery may have links at
    Kind,           \* how each is checked
    MaxDashboards,  \* bound: how often the dashboard is opened
    MaxScanRuns,    \* bound: scans that are started
    MaxDbFailures   \* bound: writes of results that fail

Kinds == {"imx", "thumbs", "inventory", "links"}
ASSUME KindAssumption == Kind \in [LinkHosts -> Kinds]
ASSUME ScanBoundsAssumption == MaxDashboards \in Nat /\ MaxDbFailures \in Nat

Dashboards == 1..MaxDashboards
ScanRuns == 1..MaxScanRuns
Verdicts == {"online", "offline", "partial", "unknown"}

VARIABLES
    link,           \* the link at each host: none yet, live or dead
    dashboard,      \* the dashboard on the screen, 0 without one
    scanning,       \* its controls are set to scanning
    stopScan,       \* _cancelled of each dashboard's coordinator
    inventory,      \* _k2s_inventory_by_host of each coordinator
    scan,           \* the threads of start_scan
    reports,        \* _complete_signal on its way to the main thread
    verdict,        \* the table host_scan_results
    staleFlag,      \* _status_check_cancelled of the rename worker
    dbFailures

scanVars == <<link, dashboard, scanning, stopScan, inventory, scan, reports, verdict,
              staleFlag, dbFailures>>

\* halted: the user has stopped this scan before its jobs were done.
ScanRun == [pc : {"free", "jobs", "over"}, owner : 0..MaxDashboards, todo : SUBSET LinkHosts,
            found : [LinkHosts -> Verdicts \cup {"none"}], halted : BOOLEAN]

NothingFound == [h \in LinkHosts |-> "none"]

ScanInit ==
    /\ link \in [LinkHosts -> {"none", "live"}]
    /\ dashboard = 0 /\ scanning = FALSE /\ reports = {}
    /\ stopScan = [d \in Dashboards |-> FALSE]
    /\ inventory = [d \in Dashboards |-> [h \in LinkHosts |-> "none"]]
    /\ scan = [n \in ScanRuns |-> [pc |-> "free", owner |-> 0, todo |-> {},
                                   found |-> NothingFound, halted |-> FALSE]]
    /\ verdict = NothingFound /\ staleFlag = FALSE /\ dbFailures = 0

-----------------------------------------------------------------------------
(* The dashboard, on the main thread.                                      *)

Running(d) == {n \in ScanRuns : scan[n].pc = "jobs" /\ scan[n].owner = d}

OpenDashboard(d) ==
    /\ dashboard = 0 /\ \A n \in ScanRuns : scan[n].owner < d
    /\ dashboard' = d /\ scanning' = FALSE
    /\ UNCHANGED <<link, stopScan, inventory, scan, reports, verdict, staleFlag, dbFailures>>

CloseDashboard ==
    /\ dashboard # 0 /\ dashboard' = 0 /\ scanning' = FALSE
    /\ reports' = reports \ {dashboard}
    /\ UNCHANGED <<link, stopScan, inventory, scan, verdict, staleFlag, dbFailures>>

\* get_galleries_for_scan.
Linked == {h \in LinkHosts : link[h] # "none"}

StartScan(n) ==
    /\ dashboard # 0 /\ ~scanning
    /\ scan[n].pc = "free" /\ \A m \in ScanRuns : m < n => scan[m].pc # "free"
    /\ scanning' = TRUE /\ stopScan' = [stopScan EXCEPT ![dashboard] = FALSE]
    /\ scan' = [scan EXCEPT ![n] = [pc |-> "jobs", owner |-> dashboard,
                                    todo |-> Linked,
                                    found |-> NothingFound, halted |-> FALSE]]
    /\ UNCHANGED <<link, dashboard, inventory, reports, verdict, staleFlag, dbFailures>>

Halted == [n \in ScanRuns |->
             IF n \in Running(dashboard) /\ scan[n].todo # {}
             THEN [scan[n] EXCEPT !.halted = TRUE] ELSE scan[n]]

\* Mutant: the controls are set free at once.
StopScan_AtOnce ==
    /\ scanning /\ scanning' = FALSE /\ stopScan' = [stopScan EXCEPT ![dashboard] = TRUE]
    /\ scan' = Halted
    /\ UNCHANGED <<link, dashboard, inventory, reports, verdict, staleFlag, dbFailures>>

\* The controls stay set to scanning until the scan has reported.
StopScan ==
    /\ scanning /\ ~stopScan[dashboard] /\ stopScan' = [stopScan EXCEPT ![dashboard] = TRUE]
    /\ scan' = Halted
    /\ UNCHANGED <<link, dashboard, scanning, inventory, reports, verdict, staleFlag, dbFailures>>

TakeReport ==
    /\ dashboard \in reports /\ reports' = reports \ {dashboard} /\ scanning' = FALSE
    /\ UNCHANGED <<link, dashboard, stopScan, inventory, scan, verdict, staleFlag, dbFailures>>

-----------------------------------------------------------------------------
(* The scan.                                                               *)

True(h) == IF link[h] = "live" THEN "online" ELSE "offline"

\* What the checkers make of the links of h, "none" for no result.

\* A status check that the user has cancelled earlier leaves its flag set, and
\* the answer to the scan empty.
FromImx(h) == {IF staleFlag THEN "unknown" ELSE True(h), "none"}

\* A host that does not answer has its thumbnails counted as offline.
FromThumbnails(h) == {True(h), "offline", "partial"}

FromLinks(h) == {True(h), "partial"}

FromInventory(n, h) ==
    {IF inventory[scan[n].owner][h] = "live" THEN "online" ELSE "offline"}

Checked(n, h) ==
    CASE Kind[h] = "imx"       -> FromImx(h)
      [] Kind[h] = "thumbs"    -> FromThumbnails(h)
      [] Kind[h] = "links"     -> FromLinks(h)
      [] Kind[h] = "inventory" -> FromInventory(n, h)

\* The account of an inventory host is listed once for every coordinator; one
\* that cannot be listed is taken for empty.
Unlisted(n, h) == Kind[h] = "inventory" /\ inventory[scan[n].owner][h] = "none"

ListAccount(n, h) ==
    /\ scan[n].pc = "jobs" /\ h \in scan[n].todo /\ ~stopScan[scan[n].owner] /\ Unlisted(n, h)
    /\ inventory' \in {[inventory EXCEPT ![scan[n].owner][h] = seen] : seen \in {link[h], "dead"}}
    /\ UNCHANGED <<link, dashboard, scanning, stopScan, scan, reports, verdict, staleFlag,
                   dbFailures>>

RunJob(n, h) ==
    /\ scan[n].pc = "jobs" /\ h \in scan[n].todo
    /\ \/ stopScan[scan[n].owner] /\ scan' = [scan EXCEPT ![n].todo = @ \ {h}]
       \/ /\ ~stopScan[scan[n].owner] /\ ~Unlisted(n, h)
          /\ \E v \in Checked(n, h) :
               scan' = [scan EXCEPT ![n].todo = @ \ {h}, ![n].found[h] = v]
    /\ UNCHANGED <<link, dashboard, scanning, stopScan, inventory, reports, verdict, staleFlag,
                   dbFailures>>

\* A dashboard that is gone is not told.
Reported(n) == IF scan[n].owner = dashboard THEN reports \cup {dashboard} ELSE reports

Stored(n) == [h \in LinkHosts |-> IF scan[n].found[h] = "none" THEN verdict[h]
                                  ELSE scan[n].found[h]]

\* What a scan has found goes with its thread.
Leave(n) == scan' = [scan EXCEPT ![n].pc = "over", ![n].found = NothingFound, ![n].halted = FALSE]

\* Mutant: a scan that was stopped ends without a word.
EndScan_Silent(n) ==
    /\ scan[n].pc = "jobs" /\ scan[n].todo = {} /\ Leave(n)
    /\ verdict' = IF stopScan[scan[n].owner] THEN verdict ELSE Stored(n)
    /\ reports' = IF stopScan[scan[n].owner] THEN reports ELSE Reported(n)
    /\ UNCHANGED <<link, dashboard, scanning, stopScan, inventory, staleFlag, dbFailures>>

\* The results are written in one transaction.
EndScan(n) ==
    /\ scan[n].pc = "jobs" /\ scan[n].todo = {} /\ Leave(n)
    /\ verdict' = IF stopScan[scan[n].owner] THEN verdict ELSE Stored(n)
    /\ reports' = Reported(n)
    /\ UNCHANGED <<link, dashboard, scanning, stopScan, inventory, staleFlag, dbFailures>>

\* A failed write ends the scan without a report.
FailScan(n) ==
    /\ scan[n].pc = "jobs" /\ scan[n].todo = {} /\ ~stopScan[scan[n].owner]
    /\ scan[n].found # NothingFound /\ dbFailures < MaxDbFailures
    /\ Leave(n) /\ dbFailures' = dbFailures + 1
    /\ UNCHANGED <<link, dashboard, scanning, stopScan, inventory, reports, verdict, staleFlag>>

-----------------------------------------------------------------------------

\* A host takes a file down; an upload adds a link.
LinkDies(h) ==
    /\ link[h] = "live" /\ link' = [link EXCEPT ![h] = "dead"]
    /\ UNCHANGED <<dashboard, scanning, stopScan, inventory, scan, reports, verdict, staleFlag,
                   dbFailures>>

LinkAdded(h) ==
    /\ link[h] = "none" /\ link' = [link EXCEPT ![h] = "live"]
    /\ UNCHANGED <<dashboard, scanning, stopScan, inventory, scan, reports, verdict, staleFlag,
                   dbFailures>>

\* The user cancels a status check of the rename worker, or starts one.
FlagChanges ==
    /\ \E h \in LinkHosts : Kind[h] = "imx"
    /\ staleFlag' = ~staleFlag
    /\ UNCHANGED <<link, dashboard, scanning, stopScan, inventory, scan, reports, verdict,
                   dbFailures>>

ScanStep(n) == EndScan(n) \/ \E h \in LinkHosts : ListAccount(n, h) \/ RunJob(n, h)

ScanNext ==
    \/ \E d \in Dashboards : OpenDashboard(d)
    \/ CloseDashboard \/ StopScan \/ TakeReport \/ FlagChanges
    \/ \E n \in ScanRuns : StartScan(n) \/ ScanStep(n) \/ FailScan(n)
    \/ \E h \in LinkHosts : LinkDies(h) \/ LinkAdded(h)

ScanSpec == ScanInit /\ [][ScanNext]_scanVars

ScanFairness == (\A n \in ScanRuns : WF_scanVars(ScanStep(n))) /\ WF_scanVars(TakeReport)

-----------------------------------------------------------------------------

ScanTypeOK ==
    /\ link \in [LinkHosts -> {"none", "live", "dead"}]
    /\ dashboard \in 0..MaxDashboards /\ scanning \in BOOLEAN
    /\ stopScan \in [Dashboards -> BOOLEAN]
    /\ inventory \in [Dashboards -> [LinkHosts -> {"none", "live", "dead"}]]
    /\ scan \in [ScanRuns -> ScanRun] /\ reports \subseteq Dashboards
    /\ verdict \in [LinkHosts -> Verdicts \cup {"none"}]
    /\ staleFlag \in BOOLEAN /\ dbFailures \in 0..MaxDbFailures

\* A scan the user stops half-way stores nothing of what it has found: starting
\* the next one clears the flag it looks at, but only after it has ended.
StoppedStoresNothing ==
    [][\A n \in ScanRuns : scan[n].halted /\ scan[n].pc = "jobs" /\ scan'[n].pc = "over"
         => verdict' = verdict]_scanVars

\* The dashboard is told of the end of the scan it has started, stopped or not,
\* and can start another, unless the results could not be written.
ScanReports == scanning ~> (~scanning \/ dbFailures > 0)
=============================================================================
