------------------------------ MODULE MCServices ------------------------------
(***************************************************************************)
(* Six parts of the application that share no state, checked in one run:   *)
(* a behaviour follows one of them, its subject, and the others stay at    *)
(* rest, so that their states add up instead of multiplying.               *)
(***************************************************************************)
EXTENDS UploadSlots, LinkScanner, ForumPosting, MetricsStore, FileManager, HostAccount

VARIABLE subject
others == <<uploadVars, scanVars, forumVars, metricsVars, managerVars, accountVars>>
vars == <<subject, others>>

\* Constants of the instance.
OwnShape == [h \in SlotHosts |-> h]
KindOf == [h \in LinkHosts |-> IF h = "imx" THEN "imx" ELSE "inventory"]

Services == {"slots", "scanner", "forum", "metrics", "files", "account"}
Is(service) == subject = service

\* A service at rest has one initial state.  The file manager opens with a host it
\* has not seen before, and has the listings of the other one on the disk.
Init ==
    /\ subject \in Services
    /\ UploadInit /\ ScanInit /\ ForumInit /\ MetricsInit /\ ManagerInit /\ AccountInit
    /\ Is("slots") \/ \A h \in SlotHosts : todo[h] = {}
    /\ Is("scanner") \/ \A h \in LinkHosts : link[h] = "none"
    /\ Is("forum") \/ policy = "skip_alert"
    /\ Is("metrics") \/ \A h \in MetricHosts : table[h] = 0
    /\ host = "k2s" /\ \A h \in FileHosts : disk[h][Root] = Unknown <=> h = "k2s"

\* Bound of the forum: while all updates are in mode whole there are all its posts,
\* and only one once another mode is used.
ForumBound ==
    \/ \A p \in Posts : posts'[p].modes \subseteq {"whole"}
    \/ \A p \in Posts \ {1} : posts'[p].status = "none"

Next ==
    /\ \/ /\ Is("slots") /\ UploadNext
          /\ UNCHANGED <<scanVars, forumVars, metricsVars, managerVars, accountVars>>
       \/ /\ Is("scanner") /\ ScanNext
          /\ UNCHANGED <<uploadVars, forumVars, metricsVars, managerVars, accountVars>>
       \/ /\ Is("forum") /\ ForumNext /\ ForumBound
          /\ UNCHANGED <<uploadVars, scanVars, metricsVars, managerVars, accountVars>>
       \/ /\ Is("metrics") /\ MetricsNext
          /\ UNCHANGED <<uploadVars, scanVars, forumVars, managerVars, accountVars>>
       \/ /\ Is("files") /\ ManagerNext
          /\ UNCHANGED <<uploadVars, scanVars, forumVars, metricsVars, accountVars>>
       \/ /\ Is("account") /\ AccountNext
          /\ UNCHANGED <<uploadVars, scanVars, forumVars, metricsVars, managerVars>>
    /\ UNCHANGED subject

\* A service at rest has no step to be fair to, and four have only safety to show.
Spec == Init /\ [][Next]_vars /\ UploadFairness /\ ScanFairness

TypeOK ==
    /\ UploadTypeOK /\ ScanTypeOK /\ ForumTypeOK
    /\ MetricsTypeOK /\ ManagerTypeOK /\ AccountTypeOK

=============================================================================
