-------------------------- MODULE UploadLifecycle --------------------------
(***************************************************************************)
(* What a backend family promises about the upload of one gallery, without *)
(* workers, signals, pollers or stale reads: the life of each host's       *)
(* upload, and what it may take from the others.                           *)
(*                                                                         *)
(*  - a host starts an upload only when it is its turn, and nobody takes   *)
(*    the turn back while it uploads;                                      *)
(*  - a host is served by a mirror, or restricted to one, only when        *)
(*    another member has the content;                                      *)
(*  - a host restricted to a mirror never uploads and gets one chance;     *)
(*  - what is done stays done.                                             *)
(***************************************************************************)
EXTENDS FiniteSets

CONSTANT Hosts

VARIABLES
    phase,      \* where each host's upload stands
    only,       \* the host may only mirror (dedup_only)
    known       \* the backend's md5 of the host's content is known

vars == <<phase, only, known>>

Phase == {"absent", "waiting", "ready", "busy", "done", "failed"}

Init ==
    /\ phase = [h \in Hosts |-> "absent"]
    /\ only = [h \in Hosts |-> FALSE]
    /\ known = [h \in Hosts |-> FALSE]

Others(h, P(_)) == \E g \in Hosts \ {h} : P(g)

Move(h, from, to) ==
    /\ phase[h] \in from
    /\ \E p \in to : phase' = [phase EXCEPT ![h] = p]

Done(h) == phase[h] = "done"
DoneAndKnown(h) == phase[h] = "done" /\ known[h]

Queue(h)   == Move(h, {"absent"}, {"ready", "waiting"}) /\ UNCHANGED <<only, known>>
Release(h) == Move(h, {"waiting"}, {"ready"}) /\ UNCHANGED <<only, known>>
Start(h)   == Move(h, {"ready"}, {"busy"}) /\ ~only[h] /\ UNCHANGED <<only, known>>
Retry(h)   == Move(h, {"busy"}, {"ready"}) /\ UNCHANGED <<only, known>>
Fail(h)    == Move(h, {"ready", "busy"}, {"failed"}) /\ UNCHANGED <<only, known>>

Store(h) ==
    /\ Move(h, {"busy"}, {"done"})
    /\ \E k \in BOOLEAN : known' = [known EXCEPT ![h] = k]
    /\ UNCHANGED only

Mirror(h) ==
    /\ Others(h, DoneAndKnown)
    /\ Move(h, {"ready"}, {"done"})
    /\ known' = [known EXCEPT ![h] = TRUE]
    /\ UNCHANGED only

Learn(h) ==
    /\ Done(h) /\ ~known[h]
    /\ known' = [known EXCEPT ![h] = TRUE]
    /\ UNCHANGED <<phase, only>>

SecondChance(h) ==
    /\ Others(h, Done) /\ ~only[h]
    /\ Move(h, {"failed"}, {"ready", "waiting"})
    /\ only' = [only EXCEPT ![h] = TRUE]
    /\ UNCHANGED known

Next == \E h \in Hosts :
    \/ Queue(h) \/ Release(h) \/ Start(h) \/ Retry(h) \/ Fail(h)
    \/ Store(h) \/ Mirror(h) \/ Learn(h) \/ SecondChance(h)

Spec == Init /\ [][Next]_vars
=============================================================================
