---------------------------- MODULE MCHostFamily ----------------------------
(***************************************************************************)
(* Instances of HostFamily for TLC: every trigger queues the gallery to    *)
(* the whole family, the case the protocol is there for.                   *)
(***************************************************************************)
EXTENDS HostFamily

MCTriggerSets == {Hosts}
=============================================================================
