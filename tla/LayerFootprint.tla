--------------------------- MODULE LayerFootprint ---------------------------
(***************************************************************************)
(* What a registry of layers promises to a reader, without names of        *)
(* dependencies: the set of layer objects a read of a layer can touch, its *)
(* footprint, is fixed when the layer is added and never changes while the *)
(* layer is registered.  LayerContainer implements it.                     *)
(***************************************************************************)
CONSTANTS Names, Ids   \* the layers' names; the identities of the layer objects

VARIABLE footprint   \* registered name -> ids of the objects its reads touch

Init == footprint = [n \in {} |-> {}]

\* A new object on top of layers that are registered, under an unused name
Add(n, id, below) ==
  /\ n \notin DOMAIN footprint
  /\ \A m \in DOMAIN footprint : id \notin footprint[m]
  /\ footprint' = [m \in DOMAIN footprint \cup {n} |->
                     IF m = n THEN {id} \cup UNION {footprint[b] : b \in below}
                              ELSE footprint[m]]

\* Only a layer that nobody reads through goes away
Remove(n) ==
  /\ \A m \in DOMAIN footprint \ {n} : ~(footprint[n] \subseteq footprint[m])
  /\ footprint' = [m \in DOMAIN footprint \ {n} |-> footprint[m]]

Next ==
  \/ \E n \in Names, id \in Ids, below \in SUBSET DOMAIN footprint : Add(n, id, below)
  \/ \E n \in DOMAIN footprint : Remove(n)

Spec == Init /\ [][Next]_footprint

=============================================================================
