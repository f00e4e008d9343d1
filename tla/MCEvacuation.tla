---------------------------- MODULE MCEvacuation ----------------------------
\* Evacuation of n0 on three nodes.
EXTENDS Evacuation, TLC

CONSTANTS g1, g2, g3, n0, n1, n2

MCRank == (n0 :> 0) @@ (n1 :> 1) @@ (n2 :> 2)

Idle == [n \in Nodes |-> 0]
Anywhere == [g \in Guests |-> Nodes]

\* Two guests that fit anywhere and two idle nodes.
TwoGuests == (g1 :> 1) @@ (g2 :> 2)
AnyStorage == {Anywhere}
AlwaysIdle == {Idle}

\* Three guests, one of which fits on n2 only.  Either of n1 and n2 may be found
\* the busier one, and n1 may be found without storage.
ThreeGuests == (g1 :> 1) @@ (g2 :> 2) @@ (g3 :> 3)
LocalStorage == [Anywhere EXCEPT ![g2] = {n0, n2}]
StorageOrNot == {LocalStorage, [g \in Guests |-> LocalStorage[g] \ {n1}]}
Uneven == {[Idle EXCEPT ![n2] = 5], [Idle EXCEPT ![n1] = 15]}
=============================================================================
