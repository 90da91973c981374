--------------------------- MODULE ImageDelivery ---------------------------
(***************************************************************************)
(* What uploading galleries promises: an image reaches the host once, and  *)
(* a gallery is called completed only when all its images have.            *)
(***************************************************************************)
EXTENDS Naturals

CONSTANTS Galleries, Images

VARIABLES
    stored,     \* how often the host has stored an image for a gallery
    complete    \* galleries called completed

Init ==
    /\ stored = [g \in Galleries |-> [i \in Images |-> 0]]
    /\ complete = {}

Store(g, i) ==
    /\ stored[g][i] = 0
    /\ stored' = [stored EXCEPT ![g][i] = 1]
    /\ UNCHANGED complete

Full == {g \in Galleries : \A i \in Images : stored[g][i] = 1}

Announce == complete' \in SUBSET Full /\ UNCHANGED stored

Next == Announce \/ \E g \in Galleries, i \in Images : Store(g, i)

Spec == Init /\ [][Next]_<<stored, complete>>
=============================================================================
