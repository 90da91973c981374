------------------------------ MODULE MCSettling ------------------------------
(***************************************************************************)
(* The two kinds of upload under the fairness of their threads, for TLC:   *)
(* a behaviour follows a family of file hosts or the galleries on their    *)
(* way to the image host, and the other stays at rest.                     *)
(***************************************************************************)
EXTENDS MCHostFamily

CONSTANTS Galleries, Images, Skipped, AutoStart, Acts, None, MaxQueue, MaxScans,
          MaxWrites, BatchSize, MaxSignals

VARIABLES subject,
          item, queue, scans, scanning, late, timer, writes, saved, sent, batch,
          uploader, soft, signals

Images_ == INSTANCE GalleryUpload WITH worker <- uploader

imageVars == <<item, queue, scans, scanning, late, timer, writes, saved, sent, batch,
               uploader, soft, signals>>

MCInit == subject \in {"family", "images"} /\ Init /\ Images_!Init

MCNext ==
    /\ \/ subject = "family" /\ Next /\ UNCHANGED imageVars
       \/ subject = "images" /\ Images_!Steps /\ UNCHANGED vars
    /\ UNCHANGED subject

\* What is at rest has no step to be fair to.
MCFairSpec ==
    /\ MCInit /\ [][MCNext]_<<subject, vars, imageVars>>
    /\ Fairness /\ Images_!Fairness

SettledIsTrue == Images_!SettledIsTrue
UploadsEnd == Images_!UploadsEnd
QueuedIsTaken == Images_!QueuedIsTaken
=============================================================================
