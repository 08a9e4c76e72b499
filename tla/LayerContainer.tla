--------------------------- MODULE LayerContainer ---------------------------
(***************************************************************************)
(* The registry of memory layers held by a Context:                        *)
(* volatility3/framework/interfaces/layers.py, class LayerContainer.       *)
(*                                                                         *)
(* A layer object knows the layers below it only by NAME; every read goes  *)
(* back through the registry (LayerContainer.read -> self[layer]).  The    *)
(* registry is therefore a graph of names that add_layer and del_layer     *)
(* must keep closed and free of cycles, although neither looks further     *)
(* than one edge and check_cycles() is not implemented.                    *)
(***************************************************************************)
EXTENDS Integers, FiniteSets

CONSTANTS
  NamePrefixes, \* the descriptive prefixes callers pass to free_layer_name
  MaxIndex,     \* bound: numbered names prefix_1 .. prefix_MaxIndex
  MaxLayers,    \* bound: how many layer objects are ever constructed
  MaxDeps       \* bound: how many layers one layer is configured on top of

ASSUME BoundsAssumption ==
  MaxIndex \in Nat /\ MaxLayers \in Nat /\ MaxDeps \in Nat

\* <<p, 0>> is the bare name p, <<p, i>> the name f"{p}_{i}"
Names == NamePrefixes \X (0..MaxIndex)

\* The names a layer's configuration may put below it: its own is not excluded
DependencySets == {deps \in SUBSET Names : Cardinality(deps) <= MaxDeps}

VARIABLES
  layers,      \* _layers: name -> the registered layer object
  pending,     \* layer objects constructed but not handed to add_layer yet
  destroyed,   \* ids of the layer objects whose destroy() has run
  nextId       \* ids given to the constructed objects, in order

vars == <<layers, pending, destroyed, nextId>>

Registered == DOMAIN layers

\* The objects; translation layers depend on others, data layers never do.
LayerObject ==
  {o \in [id : Nat, name : Names, translation : BOOLEAN, dependencies : SUBSET Names] :
     ~o.translation => o.dependencies = {}}

Deps(n) == layers[n].dependencies

\* free_layer_name(prefix): the bare prefix, else the first free number.
IsFreeLayerName(prefix, n) ==
  \/ n = <<prefix, 0>> /\ n \notin Registered
  \/ /\ <<prefix, 0>> \in Registered
     /\ \E count \in 1..MaxIndex :
          /\ n = <<prefix, count>>
          /\ n \notin Registered
          /\ \A c \in 1..(count - 1) : <<prefix, c>> \in Registered

-----------------------------------------------------------------------------
(* Deviations a bug could introduce; only the mutants of PROJECT.json use them. *)

NeverExists(layer) == FALSE

NeverUnmet(layer) == FALSE

\* The dependents are not looked at.
DelUnchecked(n) ==
  /\ n \in Registered
  /\ destroyed' = destroyed \cup {layers[n].id}
  /\ layers' = [l \in Registered \ {n} |-> layers[l]]
  /\ UNCHANGED <<pending, nextId>>

\* The layer is destroyed before its dependents are looked at.
DelDestroysFirst(n) ==
  /\ n \in Registered
  /\ destroyed' = destroyed \cup {layers[n].id}
  /\ layers' = IF \E l \in Registered : n \in layers[l].dependencies
               THEN layers ELSE [l \in Registered \ {n} |-> layers[l]]
  /\ UNCHANGED <<pending, nextId>>

-----------------------------------------------------------------------------
Init ==
  /\ layers = [n \in {} |-> {}]
  /\ pending = {}
  /\ destroyed = {}
  /\ nextId = 0

(***************************************************************************)
(* A caller builds a layer object.  The name is either asked from          *)
(* free_layer_name (stackers, processes) or fixed by the caller ("hive0x…",*)
(* "<pdb>_stream0"); the names below it come from the configuration and    *)
(* need not be registered, or may even be the object's own name.  Between  *)
(* asking for a free name and add_layer other layers may be added: a       *)
(* constructor that adds layers of its own, or another plugin.             *)
(***************************************************************************)
Construct(n, translation, deps) ==
  /\ nextId < MaxLayers
  /\ ~translation => deps = {}
  /\ pending' = pending \cup {[id |-> nextId, name |-> n,
                               translation |-> translation,
                               dependencies |-> deps]}
  /\ nextId' = nextId + 1
  /\ UNCHANGED <<layers, destroyed>>

ConstructFree(prefix, translation, deps) ==
  \E n \in Names : IsFreeLayerName(prefix, n) /\ Construct(n, translation, deps)

Exists(layer) == layer.name \in Registered
Unmet(layer) == layer.translation /\ ~(layer.dependencies \subseteq Registered)

AddLayer(layer) ==
  /\ ~Exists(layer)
  /\ ~Unmet(layer)
  /\ layers' = [n \in Registered \cup {layer.name} |->
                  IF n = layer.name THEN layer ELSE layers[n]]
  /\ pending' = pending \ {layer}
  /\ UNCHANGED <<destroyed, nextId>>

\* LayerException: the name is taken or a dependency is missing; the caller
\* drops the object.
AddLayerRaises(layer) ==
  /\ Exists(layer) \/ Unmet(layer)
  /\ pending' = pending \ {layer}
  /\ UNCHANGED <<layers, destroyed, nextId>>

\* The layers that name n among their dependencies: del_layer refuses.
Dependents(n) == {l \in Registered : n \in Deps(l)}

\* A registered name without dependents is destroyed and forgotten; every
\* other call raises (LayerException or KeyError) and changes nothing.
DelLayer(n) ==
  /\ n \in Registered
  /\ Dependents(n) = {}
  /\ destroyed' = destroyed \cup {layers[n].id}
  /\ layers' = [l \in Registered \ {n} |-> layers[l]]
  /\ UNCHANGED <<pending, nextId>>

Next ==
  \/ \E n \in Names, t \in BOOLEAN, deps \in DependencySets : Construct(n, t, deps)
  \/ \E p \in NamePrefixes, t \in BOOLEAN, deps \in DependencySets : ConstructFree(p, t, deps)
  \/ \E layer \in pending : AddLayer(layer) \/ AddLayerRaises(layer)
  \/ \E n \in Names : DelLayer(n)

Spec == Init /\ [][Next]_vars

-----------------------------------------------------------------------------
(* Properties *)

\* Types: the registry maps names to the objects that carry those names, and
\* no object is built with an id of another.
TypeOK ==
  /\ Registered \subseteq Names
  /\ layers \in [Registered -> LayerObject]
  /\ \A n \in Registered : layers[n].name = n
  /\ pending \subseteq LayerObject
  /\ nextId \in Nat
  /\ destroyed \subseteq Nat

\* add_layer's check and del_layer's check, made at different times by
\* different callers, together keep the registry closed: no registered layer
\* ever depends on a name that is not registered, so LayerContainer.read
\* never meets a KeyError below a registered layer.
DependenciesRegistered == \A n \in Registered : Deps(n) \subseteq Registered

\* The dependency graph is a DAG, although check_cycles() raises
\* NotImplementedError: every non-empty set of registered layers holds one
\* that depends on no member of the set (so no read can recurse for ever).
Acyclic ==
  \A S \in SUBSET Registered :
    S # {} => \E n \in S : Deps(n) \cap S = {}

\* del_layer checks before it destroys: a registered layer, and so whatever a
\* registered layer reads through, never has its file handle closed.
RegisteredIntact == \A n \in Registered : layers[n].id \notin destroyed

\* What is registered can be used, down to the data: nothing in a stack is closed or missing
\* (add_layer and del_layer, which look one edge deep, between constructors of others).
RegistryUsable == DependenciesRegistered /\ RegisteredIntact

\* A name is never rebound under its users' feet: while any layer depends on
\* it, the same object stays registered under it (add_layer cannot overwrite,
\* del_layer cannot remove).
UsedBindingStable ==
  [][\A n \in Registered :
       Dependents(n) # {} => n \in DOMAIN layers' /\ layers'[n] = layers[n]]_vars

-----------------------------------------------------------------------------
(* The promise to readers *)

\* The layers a read of n reaches: those in every set of layers that n is in and that is
\* closed under dependencies
Closed(S) == \A m \in S : Deps(m) \cap Registered \subseteq S
Below(n) == {m \in Registered : \A S \in SUBSET Registered : n \in S /\ Closed(S) => m \in S}

Footprint == [n \in Registered |-> {layers[m].id : m \in Below(n)}]

Promise == INSTANCE LayerFootprint WITH footprint <- Footprint, Ids <- 0..(MaxLayers - 1)

\* The registry implements LayerFootprint: no call changes what a registered
\* layer reads through, however far below it the call reaches.
FootprintsFixed == Promise!Spec

=============================================================================
