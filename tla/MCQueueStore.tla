------------------------------ MODULE MCQueueStore ------------------------------
(***************************************************************************)
(* What is kept of the galleries, for TLC: the rows of the queue, the tabs *)
(* they are filed under, or the images of one upload.  A behaviour follows *)
(* one of the three, the others stay at rest.  The folders of the queue    *)
(* are interchangeable.                                                    *)
(***************************************************************************)
EXTENDS QueueStore, GalleryTabs, TLC

CONSTANTS Uploaded, Images, Skipped, AutoStart, Acts, None, MaxQueue, MaxScans,
          MaxWrites, BatchSize, MaxRetries, MaxSignals

VARIABLES subject,
          item, queue, scans, scanning, late, timer, writes, saved, sent, batch,
          worker, soft, signals

Upload == INSTANCE GalleryUpload WITH Galleries <- Uploaded

uploadVars == <<item, queue, scans, scanning, late, timer, writes, saved, sent, batch,
                worker, soft, signals>>
vars == <<subject, queueStoreVars, tabVars, uploadVars>>

Is(part) == subject = part

Init ==
    /\ subject \in {"rows", "tabs", "images"}
    /\ QueueStoreInit /\ TabsInit /\ Upload!Init
    /\ Is("rows") \/ habit = "images"
    /\ Is("tabs") \/ \A g \in Galleries : ~HasRow(g) /\ \A t \in TabIds : Exists(t) => t = MainTab

Next ==
    /\ \/ Is("rows") /\ QueueStoreNext /\ UNCHANGED <<tabVars, uploadVars>>
       \/ Is("tabs") /\ TabsNext /\ UNCHANGED <<queueStoreVars, uploadVars>>
       \/ Is("images") /\ Upload!Steps /\ UNCHANGED <<queueStoreVars, tabVars>>
    /\ UNCHANGED subject

Spec == Init /\ [][Next]_vars

ImagesAccounted == Upload!ImagesAccounted
KeepsDelivery == Upload!KeepsDelivery

Symmetry == Permutations(Paths)
=============================================================================
