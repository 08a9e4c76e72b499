---------------------------- MODULE ContextProofs ----------------------------
(***************************************************************************)
(* What a Context holds, its layers and its configuration, is correct for  *)
(* any set of prefixes, keys and configurables and any bounds.             *)
(*                                                                         *)
(* The registry: closure is inductive with the types; acyclicity is        *)
(* inductive with closure (a new name has no dependents yet, so it cannot  *)
(* close a cycle); intactness needs that ids are unique over the           *)
(* registered and the pending objects and that only old objects were ever  *)
(* destroyed.                                                              *)
(*                                                                         *)
(* The configuration tree: that no dictionary is stored twice is inductive *)
(* with the types of the heap.  A configurable's section stays the one at  *)
(* its path because a tree leads to a dictionary by one path only, so that *)
(* what splice replaces can only be below the path it is given.            *)
(***************************************************************************)
EXTENDS LayerContainer, ConfigTree, ProofBasics

-----------------------------------------------------------------------------
(* The registry of layers *)


\* Ids: all below nextId, none shared by two registered names, by two pending
\* objects or by a registered and a pending one; pending objects are intact.
IdsUnique ==
  /\ \A n \in Registered : layers[n].id < nextId
  /\ \A x \in pending : x.id < nextId
  /\ \A d \in destroyed : d < nextId
  /\ \A m, n \in Registered : layers[m].id = layers[n].id => m = n
  /\ \A x, y \in pending : x.id = y.id => x = y
  /\ \A n \in Registered, x \in pending : layers[n].id # x.id
  /\ \A x \in pending : x.id \notin destroyed

IInv ==
  /\ TypeOK
  /\ DependenciesRegistered
  /\ Acyclic
  /\ IdsUnique
  /\ RegisteredIntact

\* What add_layer leaves of the registry: every old binding and the new one.
LEMMA AddedRegistry ==
  ASSUME NEW layer, AddLayer(layer)
  PROVE  /\ layer.name \notin Registered
         /\ DOMAIN layers' = Registered \cup {layer.name}
         /\ layers'[layer.name] = layer
         /\ \A n \in Registered : layers'[n] = layers[n]
  BY DEF AddLayer, Exists, Registered

\* What del_layer leaves of the registry: every other binding.
LEMMA DeletedRegistry ==
  ASSUME NEW n, DelLayer(n)
  PROVE  /\ n \in Registered
         /\ DOMAIN layers' = Registered \ {n}
         /\ \A l \in Registered \ {n} : layers'[l] = layers[l]
         /\ \A l \in Registered : n \notin Deps(l)
  BY DEF DelLayer, Dependents, Registered

\* A step of Construct touches only pending and nextId; ConstructFree is one.
LEMMA ConstructStep ==
  ASSUME NEW n \in Names, NEW t \in BOOLEAN, NEW deps \in DependencySets,
         TypeOK, Construct(n, t, deps)
  PROVE  /\ layers' = layers /\ destroyed' = destroyed
         /\ nextId' = nextId + 1
         /\ \E x \in LayerObject :
              /\ pending' = pending \cup {x}
              /\ x.id = nextId
              /\ x.translation = t /\ x.dependencies = deps
  <1> DEFINE x == [id |-> nextId, name |-> n, translation |-> t, dependencies |-> deps]
  <1>1. x \in LayerObject
    BY DEF LayerObject, TypeOK, DependencySets, Construct
  <1> QED
    BY <1>1 DEF Construct

\* Types are preserved by every call.
LEMMA TypePreserved ==
  ASSUME TypeOK, [Next]_vars
  PROVE  TypeOK'
  <1>1. ASSUME NEW n \in Names, NEW t \in BOOLEAN, NEW deps \in DependencySets,
               Construct(n, t, deps)
        PROVE  TypeOK'
    BY <1>1, ConstructStep DEF TypeOK, Registered
  <1>2. ASSUME NEW p \in NamePrefixes, NEW t \in BOOLEAN, NEW deps \in DependencySets,
               ConstructFree(p, t, deps)
        PROVE  TypeOK'
    BY <1>1, <1>2 DEF ConstructFree
  <1>3. ASSUME NEW layer \in pending, AddLayer(layer)
        PROVE  TypeOK'
    <2>1. layer \in LayerObject /\ layer.name \in Names
      BY DEF TypeOK, LayerObject
    <2>2. layers' \in [Registered \cup {layer.name} -> LayerObject]
      BY <1>3, <2>1 DEF AddLayer, TypeOK
    <2> QED
      BY <1>3, <2>1, <2>2, AddedRegistry DEF AddLayer, TypeOK, Registered
  <1>4. ASSUME NEW layer \in pending, AddLayerRaises(layer)
        PROVE  TypeOK'
    BY <1>4 DEF AddLayerRaises, TypeOK, Registered
  <1>5. ASSUME NEW n \in Names, DelLayer(n)
        PROVE  TypeOK'
    BY <1>5 DEF DelLayer, TypeOK, Registered, LayerObject
  <1>6. CASE UNCHANGED vars
    BY <1>6 DEF vars, TypeOK, Registered
  <1> QED
    BY <1>1, <1>2, <1>3, <1>4, <1>5, <1>6 DEF Next

\* A new layer on top of a closed registry cannot close a cycle.
LEMMA AddKeepsAcyclic ==
  ASSUME NEW layer, AddLayer(layer), DependenciesRegistered, Acyclic,
         layer.dependencies \subseteq Registered
  PROVE  Acyclic'
  <1> SUFFICES ASSUME NEW S \in SUBSET (DOMAIN layers'), S # {}
               PROVE  \E n \in S : layers'[n].dependencies \cap S = {}
    BY DEF Acyclic, Registered, Deps
  <1> DEFINE T == S \ {layer.name}
  <1>0. /\ layer.name \notin Registered
        /\ DOMAIN layers' = Registered \cup {layer.name}
        /\ layers'[layer.name] = layer
        /\ \A n \in Registered : layers'[n] = layers[n]
    BY AddedRegistry
  <1>1. T \in SUBSET Registered
    BY <1>0
  <1>2. CASE T = {}
    <2>1. S = {layer.name}
      BY <1>2
    <2> QED
      BY <1>0, <2>1
  <1>3. CASE T # {}
    <2>1. PICK n \in T : Deps(n) \cap T = {}
      BY <1>1, <1>3 DEF Acyclic
    <2>2. n \in Registered /\ layer.name \notin Deps(n)
      BY <1>0, <1>1 DEF DependenciesRegistered
    <2>3. layers'[n].dependencies \cap S = {}
      BY <1>0, <2>1, <2>2 DEF Deps
    <2> QED
      BY <2>3
  <1> QED
    BY <1>2, <1>3

\* The whole invariant is inductive.
LEMMA InductiveStep ==
  ASSUME IInv, [Next]_vars
  PROVE  IInv'
  <1>1. TypeOK'
    BY TypePreserved DEF IInv
  <1>2. ASSUME NEW n \in Names, NEW t \in BOOLEAN, NEW deps \in DependencySets,
               Construct(n, t, deps)
        PROVE  IInv'
    <2>1. layers' = layers /\ destroyed' = destroyed /\ nextId' = nextId + 1
      BY <1>2, ConstructStep DEF IInv
    <2>2. PICK x \in LayerObject : pending' = pending \cup {x} /\ x.id = nextId
      BY <1>2, ConstructStep DEF IInv
    <2>3. DependenciesRegistered' /\ Acyclic' /\ RegisteredIntact'
      BY <2>1 DEF IInv, DependenciesRegistered, Acyclic, RegisteredIntact, Registered, Deps
    <2>4. IdsUnique'
      BY <2>1, <2>2 DEF IInv, IdsUnique, TypeOK, LayerObject, Registered
    <2> QED
      BY <1>1, <2>3, <2>4 DEF IInv
  <1>3. ASSUME NEW p \in NamePrefixes, NEW t \in BOOLEAN, NEW deps \in DependencySets,
               ConstructFree(p, t, deps)
        PROVE  IInv'
    BY <1>2, <1>3 DEF ConstructFree
  <1>4. ASSUME NEW layer \in pending, AddLayer(layer)
        PROVE  IInv'
    <2>1. layer.dependencies \subseteq Registered
      BY <1>4 DEF AddLayer, Unmet, IInv, TypeOK, LayerObject
    <2>2. Acyclic'
      BY <1>4, <2>1, AddKeepsAcyclic DEF IInv
    <2>3. /\ DOMAIN layers' = Registered \cup {layer.name}
          /\ layers'[layer.name] = layer
          /\ \A n \in Registered : layers'[n] = layers[n]
      BY <1>4, AddedRegistry
    <2>4. DependenciesRegistered'
      BY <2>1, <2>3 DEF IInv, DependenciesRegistered, Registered, Deps
    <2>5. pending' = pending \ {layer} /\ UNCHANGED <<destroyed, nextId>>
      BY <1>4 DEF AddLayer
    <2>6. IdsUnique'
      BY <2>3, <2>5 DEF IInv, IdsUnique, Registered
    <2>7. RegisteredIntact'
      BY <2>3, <2>5 DEF IInv, IdsUnique, RegisteredIntact, Registered
    <2> QED
      BY <1>1, <2>2, <2>4, <2>6, <2>7 DEF IInv
  <1>5. ASSUME NEW layer \in pending, AddLayerRaises(layer)
        PROVE  IInv'
    <2>1. pending' = pending \ {layer} /\ UNCHANGED <<layers, destroyed, nextId>>
      BY <1>5 DEF AddLayerRaises
    <2>2. DependenciesRegistered' /\ Acyclic' /\ RegisteredIntact'
      BY <2>1 DEF IInv, DependenciesRegistered, Acyclic, RegisteredIntact, Registered, Deps
    <2>3. IdsUnique'
      BY <2>1 DEF IInv, IdsUnique, Registered
    <2> QED
      BY <1>1, <2>2, <2>3 DEF IInv
  <1>6. ASSUME NEW n \in Names, DelLayer(n)
        PROVE  IInv'
    <2>1. /\ n \in Registered
          /\ DOMAIN layers' = Registered \ {n}
          /\ \A l \in Registered \ {n} : layers'[l] = layers[l]
          /\ \A l \in Registered : n \notin Deps(l)
      BY <1>6, DeletedRegistry
    <2>2. destroyed' = destroyed \cup {layers[n].id} /\ UNCHANGED <<pending, nextId>>
      BY <1>6 DEF DelLayer
    <2>3. DependenciesRegistered'
      BY <2>1 DEF IInv, DependenciesRegistered, Registered, Deps
    <2>4. Acyclic'
      <3> SUFFICES ASSUME NEW S \in SUBSET (DOMAIN layers'), S # {}
                   PROVE  \E l \in S : layers'[l].dependencies \cap S = {}
        BY DEF Acyclic, Registered, Deps
      <3>1. PICK l \in S : Deps(l) \cap S = {}
        BY <2>1 DEF IInv, Acyclic
      <3> QED
        BY <2>1, <3>1 DEF Deps
    <2>5. IdsUnique'
      BY <2>1, <2>2 DEF IInv, IdsUnique, Registered
    <2>6. RegisteredIntact'
      BY <2>1, <2>2 DEF IInv, IdsUnique, RegisteredIntact, Registered
    <2> QED
      BY <1>1, <2>3, <2>4, <2>5, <2>6 DEF IInv
  <1>7. CASE UNCHANGED vars
    <2>1. UNCHANGED <<layers, pending, destroyed, nextId>>
      BY <1>7 DEF vars
    <2> QED
      BY <1>1, <2>1 DEF IInv, DependenciesRegistered, Acyclic, RegisteredIntact,
                        IdsUnique, Registered, Deps
  <1> QED
    BY <1>2, <1>3, <1>4, <1>5, <1>6, <1>7 DEF Next

\* The inductive invariant holds in every state of every registry.
THEOREM Inductive == Spec => []IInv
  <1>1. Init => IInv
    BY DEF Init, IInv, TypeOK, DependenciesRegistered, Acyclic, IdsUnique,
           RegisteredIntact, Registered, Deps
  <1>2. IInv /\ [Next]_vars => IInv'
    BY InductiveStep
  <1> QED
    BY <1>1, <1>2, PTL DEF Spec

\* Type correctness for every value of the constants.
THEOREM TypeCorrect == Spec => []TypeOK
  BY Inductive, PTL DEF IInv

\* The registry stays closed whatever order callers add and delete in.
THEOREM RegistryClosed == Spec => []DependenciesRegistered
  BY Inductive, PTL DEF IInv

\* The missing check_cycles() is not needed: the registry is always a DAG.
THEOREM NoCycles == Spec => []Acyclic
  BY Inductive, PTL DEF IInv

\* No registered layer has been destroyed.
THEOREM Intact == Spec => []RegisteredIntact
  BY Inductive, PTL DEF IInv

\* Whatever is registered, everything it depends on is there and has not been destroyed.
THEOREM Usable == Spec => []RegistryUsable
  BY RegistryClosed, Intact, PTL DEF RegistryUsable

\* Nobody can rebind or remove a name another layer depends on.
THEOREM UsersKeepTheirLayer == Spec => UsedBindingStable
  <1>1. ASSUME TypeOK, [Next]_vars, NEW n \in Registered, Dependents(n) # {}
        PROVE  n \in DOMAIN layers' /\ layers'[n] = layers[n]
    <2>1. CASE \E m \in Names, t \in BOOLEAN, deps \in DependencySets : Construct(m, t, deps)
      BY <2>1 DEF Construct, Registered
    <2>2. CASE \E p \in NamePrefixes, t \in BOOLEAN, deps \in DependencySets :
                 ConstructFree(p, t, deps)
      BY <2>2 DEF ConstructFree, Construct, Registered
    <2>3. CASE \E layer \in pending : AddLayer(layer)
      BY <2>3, AddedRegistry
    <2>4. CASE \E layer \in pending : AddLayerRaises(layer)
      BY <2>4 DEF AddLayerRaises, Registered
    <2>5. CASE \E m \in Names : DelLayer(m)
      BY <1>1, <2>5, DeletedRegistry DEF Dependents
    <2>6. CASE UNCHANGED vars
      BY <2>6 DEF vars, Registered
    <2> QED
      BY <1>1, <2>1, <2>2, <2>3, <2>4, <2>5, <2>6 DEF Next
  <1>2. TypeOK /\ [Next]_vars =>
          [\A n \in Registered :
             Dependents(n) # {} => n \in DOMAIN layers' /\ layers'[n] = layers[n]]_vars
    BY <1>1
  <1> QED
    BY <1>2, TypeCorrect, PTL DEF Spec, UsedBindingStable

-----------------------------------------------------------------------------
(* The registry implements LayerFootprint                                    *)

\* Objects are only built as long as there are ids for them.
IdsBounded == nextId <= MaxLayers

LEMMA BoundedIds == Spec => []IdsBounded
  <1>1. Init => IdsBounded
    BY BoundsAssumption DEF Init, IdsBounded
  <1>2. TypeOK /\ IdsBounded /\ [Next]_vars => IdsBounded'
    <2> SUFFICES ASSUME TypeOK, IdsBounded, [Next]_vars PROVE IdsBounded'
      OBVIOUS
    <2>1. nextId' = nextId \/ (nextId < MaxLayers /\ nextId' = nextId + 1)
      BY Zenon DEF Next, vars, Construct, ConstructFree, AddLayer, AddLayerRaises, DelLayer
    <2> QED BY <2>1, BoundsAssumption DEF IdsBounded, TypeOK
  <1> QED BY <1>1, <1>2, TypeCorrect, PTL DEF Spec

\* A layer is reached from itself, and what is reached from a layer below it is reached from it.
LEMMA BelowClosed ==
  ASSUME NEW n \in Registered
  PROVE  n \in Below(n) /\ Closed(Below(n)) /\ Below(n) \subseteq Registered
  BY DEF Below, Closed

\* Below(n) is the smallest closed set with n in it.
LEMMA BelowLeast ==
  ASSUME NEW n, NEW S \in SUBSET Registered, n \in S, Closed(S)
  PROVE  Below(n) \subseteq S
  BY DEF Below

\* As long as the layers that are registered depend on the same names, a read reaches the same.
LEMMA BelowUnchanged ==
  ASSUME layers' = layers
  PROVE  Footprint' = Footprint
  BY DEF Footprint, Below, Closed, Deps, Registered

\* A layer that is added changes nothing below the others, and reaches itself and what the
\* layers it depends on reach.
LEMMA AddedFootprint ==
  ASSUME IInv, NEW layer \in pending, AddLayer(layer)
  PROVE  /\ layer.dependencies \in SUBSET Registered
         /\ \A n \in Registered : Below(n)' = Below(n)
         /\ Below(layer.name)' = {layer.name} \cup UNION {Below(d) : d \in layer.dependencies}
  <1> DEFINE new == layer.name
             all == {new} \cup UNION {Below(d) : d \in layer.dependencies}
  <1>1. /\ new \notin Registered
        /\ Registered' = Registered \cup {new}
        /\ layers'[new] = layer
        /\ \A n \in Registered : layers'[n] = layers[n]
    BY AddedRegistry DEF Registered
  <1>2. layer.dependencies \in SUBSET Registered
    BY DEF AddLayer, Unmet, IInv, TypeOK, LayerObject
  <1>3. Deps(new)' = layer.dependencies /\ \A n \in Registered : Deps(n)' = Deps(n) /\ Deps(n) \subseteq Registered
    BY <1>1 DEF Deps, IInv, DependenciesRegistered
  <1>4. ASSUME NEW S \in SUBSET Registered, Closed(S)
        PROVE  S \in SUBSET (Registered') /\ Closed(S)'
    BY <1>1, <1>3, <1>4 DEF Closed
  <1>5. ASSUME NEW S \in SUBSET (Registered'), Closed(S)'
        PROVE  S \cap Registered \in SUBSET Registered /\ Closed(S \cap Registered)
    BY <1>1, <1>3, <1>5 DEF Closed
  <1>6. ASSUME NEW n \in Registered
        PROVE  Below(n)' = Below(n)
    <2>1. ASSUME NEW m \in Below(n)' PROVE m \in Below(n)
      <3>1. ASSUME NEW S \in SUBSET Registered, n \in S, Closed(S) PROVE m \in S
        BY <1>4, <2>1, <3>1 DEF Below
      <3>2. m \in Registered
        BY <3>1 DEF Closed
      <3> QED BY <3>1, <3>2 DEF Below
    <2>2. ASSUME NEW m \in Below(n) PROVE m \in Below(n)'
      <3>1. m \in Registered'
        BY <1>1, <2>2 DEF Below
      <3>2. ASSUME NEW S \in SUBSET (Registered'), n \in S, Closed(S)' PROVE m \in S
        BY <1>5, <2>2, <3>2 DEF Below
      <3> QED BY <3>1, <3>2 DEF Below
    <2> QED BY <2>1, <2>2
  <1>7. \A d \in layer.dependencies : d \in Below(d) /\ Closed(Below(d)) /\ Below(d) \subseteq Registered
    BY <1>2, BelowClosed
  <1> PICK reached : reached = all
    OBVIOUS
  <1>8. reached \in SUBSET (Registered') /\ Closed(reached)' /\ new \in reached
    <2>1. reached \in SUBSET (Registered')
      BY <1>1, <1>7
    <2>2. ASSUME NEW m \in reached, NEW k \in Deps(m)' \cap Registered' PROVE k \in reached
      <3>1. CASE m = new
        BY <1>3, <1>7, <2>2, <3>1
      <3>2. CASE m # new
        <4>1. PICK d \in layer.dependencies : m \in Below(d)
          BY <2>2, <3>2
        <4>2. m \in Registered /\ Closed(Below(d))
          BY <1>7, <4>1
        <4>3. k \in Deps(m) \cap Registered
          BY <1>3, <2>2, <4>2
        <4> QED BY <4>1, <4>2, <4>3 DEF Closed
      <3> QED BY <3>1, <3>2
    <2> QED BY <2>1, <2>2 DEF Closed
  <1>9. ASSUME NEW m \in reached, NEW S \in SUBSET (Registered'), new \in S, Closed(S)'
        PROVE  m \in S
    <2>1. layer.dependencies \subseteq S \cap Registered
      BY <1>1, <1>2, <1>3, <1>9 DEF Closed
    <2>2. ASSUME NEW d \in layer.dependencies PROVE Below(d) \subseteq S
      BY <1>5, <1>9, <2>1, <2>2, BelowLeast
    <2> QED BY <1>9, <2>2
  <1>10. Below(new)' = reached
    <2>1. ASSUME NEW m \in Below(new)' PROVE m \in reached
      BY <1>8, <2>1 DEF Below
    <2>2. ASSUME NEW m \in reached PROVE m \in Below(new)'
      BY <1>8, <1>9, <2>2 DEF Below
    <2> QED BY <2>1, <2>2
  <1> QED BY <1>2, <1>6, <1>10

\* A layer that is deleted was below none of the others, which reach what they did.
LEMMA DeletedFootprint ==
  ASSUME IInv, NEW n \in Names, DelLayer(n)
  PROVE  \A m \in Registered \ {n} : Below(m)' = Below(m) /\ n \notin Below(m)
  <1>1. /\ n \in Registered /\ Registered' = Registered \ {n}
        /\ \A m \in Registered \ {n} : Deps(m)' = Deps(m)
        /\ \A m \in Registered : n \notin Deps(m)
    BY DeletedRegistry DEF Registered, Deps
  <1>2. ASSUME NEW S \in SUBSET Registered, Closed(S)
        PROVE  S \ {n} \in SUBSET (Registered') /\ Closed(S \ {n})'
    BY <1>1, <1>2 DEF Closed
  <1>3. ASSUME NEW S \in SUBSET (Registered'), Closed(S)'
        PROVE  S \in SUBSET Registered /\ Closed(S)
    BY <1>1, <1>3 DEF Closed
  <1>4. Registered \ {n} \in SUBSET Registered /\ Closed(Registered \ {n})
    BY <1>1 DEF Closed
  <1> SUFFICES ASSUME NEW m \in Registered \ {n}
               PROVE  Below(m)' = Below(m) /\ n \notin Below(m)
    OBVIOUS
  <1>5. n \notin Below(m)
    BY <1>4, BelowLeast
  <1>6. ASSUME NEW k \in Below(m)' PROVE k \in Below(m)
    <2>1. k \in Registered
      BY <1>1, <1>6 DEF Below
    <2>2. ASSUME NEW S \in SUBSET Registered, m \in S, Closed(S) PROVE k \in S
      BY <1>2, <1>6, <2>2 DEF Below
    <2> QED BY <2>1, <2>2 DEF Below
  <1>7. ASSUME NEW k \in Below(m) PROVE k \in Below(m)'
    <2>1. k \in Registered'
      BY <1>1, <1>5, <1>7 DEF Below
    <2>2. ASSUME NEW S \in SUBSET (Registered'), m \in S, Closed(S)' PROVE k \in S
      BY <1>3, <1>7, <2>2 DEF Below
    <2> QED BY <2>1, <2>2 DEF Below
  <1> QED BY <1>5, <1>6, <1>7

\* add_layer adds a footprint, made of the new object and of the footprints below it.
LEMMA AddRefines ==
  ASSUME IInv, IdsBounded, NEW layer \in pending, AddLayer(layer)
  PROVE  Promise!Next
  <1> DEFINE new == layer.name
  <1>1. /\ new \notin Registered
        /\ Registered' = Registered \cup {new}
        /\ layers'[new] = layer
        /\ \A n \in Registered : layers'[n] = layers[n]
    BY AddedRegistry DEF Registered
  <1>2. /\ layer.dependencies \in SUBSET Registered
        /\ \A n \in Registered : Below(n)' = Below(n)
        /\ Below(new)' = {new} \cup UNION {Below(d) : d \in layer.dependencies}
    BY AddedFootprint
  <1>3. DOMAIN Footprint = Registered
    BY DEF Footprint
  <1>4. new \in Names /\ layer.id \in 0 .. (MaxLayers - 1)
    BY BoundsAssumption DEF IInv, TypeOK, LayerObject, IdsUnique, IdsBounded
  <1>5. \A m \in Registered : layer.id \notin Footprint[m]
    BY DEF Footprint, Below, IInv, IdsUnique
  <1>6. ASSUME NEW m \in Registered PROVE Footprint'[m] = Footprint[m]
    <2>1. m \in Registered' /\ Below(m) \subseteq Registered
      BY <1>1 DEF Below
    <2>2. Footprint'[m] = {layers'[k].id : k \in Below(m)'}
      BY <2>1 DEF Footprint
    <2>3. \A k \in Below(m) : layers'[k].id = layers[k].id
      BY <1>1, <2>1
    <2> QED BY <1>2, <2>2, <2>3 DEF Footprint
  <1>7. Footprint'[new] = {layer.id} \cup UNION {Footprint[d] : d \in layer.dependencies}
    <2>1. Footprint'[new] = {layers'[k].id : k \in Below(new)'}
      BY <1>1 DEF Footprint
    <2>2. \A d \in layer.dependencies : Footprint[d] = {layers[k].id : k \in Below(d)}
      BY <1>2 DEF Footprint
    <2>3. \A d \in layer.dependencies : \A k \in Below(d) : k \in Registered /\ layers'[k].id = layers[k].id
      BY <1>1 DEF Below
    <2> QED BY <1>1, <1>2, <2>1, <2>2, <2>3
  <1>8. Footprint' = [m \in Registered \cup {new} |->
                        IF m = new THEN {layer.id} \cup UNION {Footprint[d] : d \in layer.dependencies}
                        ELSE Footprint[m]]
    <2>1. DOMAIN Footprint' = Registered \cup {new} /\ Footprint' = [m \in Registered' |-> Footprint'[m]]
      BY <1>1 DEF Footprint
    <2> QED BY <1>1, <1>6, <1>7, <2>1
  <1>9. Promise!Add(new, layer.id, layer.dependencies)
    BY <1>1, <1>3, <1>5, <1>8 DEF Promise!Add
  <1> QED BY <1>2, <1>3, <1>4, <1>9 DEF Promise!Next

\* del_layer removes a footprint that is in no other.
LEMMA DeleteRefines ==
  ASSUME IInv, NEW n \in Names, DelLayer(n)
  PROVE  Promise!Next
  <1>1. n \in Registered /\ Registered' = Registered \ {n} /\ \A m \in Registered \ {n} : layers'[m] = layers[m]
    BY DeletedRegistry DEF Registered
  <1>2. \A m \in Registered \ {n} : Below(m)' = Below(m) /\ n \notin Below(m)
    BY DeletedFootprint
  <1>3. DOMAIN Footprint = Registered
    BY DEF Footprint
  <1>4. ASSUME NEW m \in Registered \ {n} PROVE ~(Footprint[n] \subseteq Footprint[m])
    <2>1. layers[n].id \in Footprint[n]
      BY <1>1, BelowClosed DEF Footprint
    <2>2. \A k \in Below(m) : k \in Registered /\ k # n
      BY <1>2 DEF Below
    <2>3. layers[n].id \notin Footprint[m]
      BY <1>1, <2>2 DEF Footprint, IInv, IdsUnique
    <2> QED BY <2>1, <2>3
  <1>5. ASSUME NEW m \in Registered \ {n} PROVE Footprint'[m] = Footprint[m]
    <2>1. Footprint'[m] = {layers'[k].id : k \in Below(m)'}
      BY <1>1 DEF Footprint
    <2>2. \A k \in Below(m) : layers'[k].id = layers[k].id
      BY <1>1, <1>2 DEF Below
    <2> QED BY <1>2, <2>1, <2>2 DEF Footprint
  <1>6. Footprint' = [m \in Registered \ {n} |-> Footprint[m]]
    <2>1. Footprint' = [m \in Registered' |-> Footprint'[m]]
      BY DEF Footprint
    <2> QED BY <1>1, <1>5, <2>1
  <1>7. Promise!Remove(n)
    BY <1>3, <1>4, <1>6 DEF Promise!Remove
  <1> QED BY <1>1, <1>3, <1>7 DEF Promise!Next

\* Whatever callers construct, add and delete, every step of the registry is one of
\* LayerFootprint or none: what a registered layer reads through never changes.
THEOREM FootprintsAreFixed == Spec => FootprintsFixed
  <1>1. Init => Promise!Init
    BY DEF Init, Promise!Init, Footprint, Registered
  <1>2. IInv /\ IdsBounded /\ [Next]_vars => [Promise!Next]_Footprint
    <2> SUFFICES ASSUME IInv, IdsBounded, [Next]_vars
                 PROVE  Promise!Next \/ Footprint' = Footprint
      OBVIOUS
    <2>1. CASE \E m \in Names, t \in BOOLEAN, deps \in DependencySets : Construct(m, t, deps)
      BY <2>1, BelowUnchanged DEF Construct
    <2>2. CASE \E p \in NamePrefixes, t \in BOOLEAN, deps \in DependencySets : ConstructFree(p, t, deps)
      BY <2>2, BelowUnchanged DEF ConstructFree, Construct
    <2>3. CASE \E layer \in pending : AddLayer(layer)
      BY <2>3, AddRefines
    <2>4. CASE \E layer \in pending : AddLayerRaises(layer)
      BY <2>4, BelowUnchanged DEF AddLayerRaises
    <2>5. CASE \E m \in Names : DelLayer(m)
      BY <2>5, DeleteRefines
    <2>6. CASE UNCHANGED vars
      BY <2>6, BelowUnchanged DEF vars
    <2> QED BY <2>1, <2>2, <2>3, <2>4, <2>5, <2>6 DEF Next
  <1> QED BY <1>1, <1>2, Inductive, BoundedIds, PTL DEF Spec, FootprintsFixed, Promise!Spec

-----------------------------------------------------------------------------
(* The configuration tree *)

\* The dictionaries that a heap may hold.
Dicts == [data : UNION {[D -> Values \cup {NoValue}] : D \in SUBSET Keys},
          sub : UNION {[D -> Nat] : D \in SUBSET Keys}]

\* A heap in which every dictionary but the root is stored in one place at most, and the root
\* in none.
TreeHeap(h) ==
  /\ h \in Seq(Dicts) /\ h # <<>>
  /\ \A d \in DOMAIN h : \A k \in DOMAIN h[d].sub : h[d].sub[k] \in 2 .. Len(h)
  /\ \A d, e \in DOMAIN h : \A k \in DOMAIN h[d].sub, l \in DOMAIN h[e].sub :
       h[d].sub[k] = h[e].sub[l] => d = e /\ k = l

\* g is h with the dictionary e under the key k of d.
LinksIn(h, g, d, k, e) ==
  /\ g \in Seq(Dicts) /\ Len(g) = Len(h)
  /\ \A x \in 1 .. Len(h) : g[x].data = h[x].data
  /\ \A x \in 1 .. Len(h) : x # d => g[x].sub = h[x].sub
  /\ DOMAIN g[d].sub = DOMAIN h[d].sub \cup {k} /\ g[d].sub[k] = e
  /\ \A l \in DOMAIN h[d].sub : l # k => g[d].sub[l] = h[d].sub[l]

\* What a dictionary that is replaced leaves of the heap.
LEMMA Replaced ==
  ASSUME NEW h \in Seq(Dicts), NEW d \in 1 .. Len(h), NEW c \in Dicts, NEW g,
         g = [h EXCEPT ![d] = c]
  PROVE  /\ g \in Seq(Dicts) /\ Len(g) = Len(h)
         /\ \A x \in 1 .. Len(h) : g[x] = IF x = d THEN c ELSE h[x]
  OBVIOUS

\* A dictionary without sub-dictionaries.
IsFlat(c) == c \in Dicts /\ DOMAIN c.sub = {}

\* A dictionary without contents is one.
LEMMA EmptyIsDict == EmptyDict \in Dicts /\ IsFlat(EmptyDict) /\ DOMAIN EmptyDict.sub = {}
  <1>1. <<>> \in [{} -> Nat] /\ <<>> \in [{} -> Values \cup {NoValue}]
    OBVIOUS
  <1>2. {} \in SUBSET Keys
    OBVIOUS
  <1> QED BY <1>1, <1>2 DEF EmptyDict, Dicts, IsFlat

\* self._subdict[key] = value changes one key of one dictionary.
LEMMA Linking ==
  ASSUME NEW h \in Seq(Dicts), NEW d \in 1 .. Len(h), NEW k \in Keys, NEW e \in Nat
  PROVE  LinksIn(h, Linked(h, d, k, e), d, k, e)
  <1>0. h[d] \in Dicts
    OBVIOUS
  <1>1. PICK D \in SUBSET Keys : h[d].sub \in [D -> Nat]
    BY <1>0 DEF Dicts
  <1>2. PICK f, s : f = h[d].sub /\ s = SetKey(f, k, e)
    OBVIOUS
  <1>3. /\ s \in [D \cup {k} -> Nat]
        /\ \A l \in D \cup {k} : s[l] = IF l = k THEN e ELSE f[l]
    <2>1. f \in [D -> Nat]
      BY <1>1, <1>2
    <2> QED BY <1>2, <2>1 DEF SetKey
  <1>4. PICK c : c = [h[d] EXCEPT !.sub = s]
    OBVIOUS
  <1>5. c \in Dicts /\ c.sub = s /\ c.data = h[d].data
    <2>1. D \cup {k} \in SUBSET Keys
      OBVIOUS
    <2>2. PICK E \in SUBSET Keys : h[d].data \in [E -> Values \cup {NoValue}]
      BY <1>0 DEF Dicts
    <2>3. c = [data |-> h[d].data, sub |-> s]
      BY <1>0, <1>4 DEF Dicts
    <2> QED BY <1>3, <2>1, <2>2, <2>3 DEF Dicts
  <1>6. PICK g : g = Linked(h, d, k, e)
    OBVIOUS
  <1>7. g = [h EXCEPT ![d] = c]
    BY <1>2, <1>4, <1>6 DEF Linked
  <1>8. /\ g \in Seq(Dicts) /\ Len(g) = Len(h)
        /\ \A x \in 1 .. Len(h) : g[x] = IF x = d THEN c ELSE h[x]
    BY <1>5, <1>7, Replaced
  <1>9. LinksIn(h, g, d, k, e)
    <2>1. \A x \in 1 .. Len(h) : g[x].data = h[x].data /\ (x # d => g[x].sub = h[x].sub)
      BY <1>5, <1>8
    <2>2. g[d].sub = s /\ DOMAIN s = D \cup {k} /\ D = DOMAIN h[d].sub
      BY <1>1, <1>3, <1>5, <1>8
    <2>3. \A l \in D \cup {k} : g[d].sub[l] = IF l = k THEN e ELSE h[d].sub[l]
      BY <1>2, <1>3, <2>2
    <2> QED BY <1>8, <2>1, <2>2, <2>3 DEF LinksIn
  <1> QED BY <1>6, <1>9

\* The heap h has become g by calls that store nothing over what there is: each dictionary has
\* what it had, and what is new in it is new in the heap.
Grows(h, g) ==
  /\ Len(h) <= Len(g)
  /\ \A d \in 1 .. Len(h) : DOMAIN h[d].sub \subseteq DOMAIN g[d].sub
  /\ \A d \in 1 .. Len(h) : \A k \in DOMAIN g[d].sub :
       IF k \in DOMAIN h[d].sub THEN g[d].sub[k] = h[d].sub[k] ELSE g[d].sub[k] > Len(h)
  /\ \A d \in Len(h) + 1 .. Len(g) : \A k \in DOMAIN g[d].sub : g[d].sub[k] > Len(h)

\* No value has changed from h to g.
SameData(h, g) == \A d \in 1 .. Len(h) : g[d].data = h[d].data

\* The dictionary e is stored nowhere.
Loose(h, e) == \A d \in 1 .. Len(h) : \A k \in DOMAIN h[d].sub : h[d].sub[k] # e

\* What a heap is made of.
LEMMA TreeFacts ==
  ASSUME NEW h, TreeHeap(h)
  PROVE  /\ h \in Seq(Dicts) /\ Len(h) \in Nat \ {0} /\ DOMAIN h = 1 .. Len(h)
         /\ \A d \in 1 .. Len(h) : h[d] \in Dicts /\ DOMAIN h[d].sub \subseteq Keys
         /\ \A d \in 1 .. Len(h) : \A k \in DOMAIN h[d].sub : h[d].sub[k] \in 2 .. Len(h)
  <1>1. h \in Seq(Dicts) /\ Len(h) \in Nat \ {0} /\ DOMAIN h = 1 .. Len(h)
    BY DEF TreeHeap
  <1>2. ASSUME NEW d \in 1 .. Len(h) PROVE h[d] \in Dicts /\ DOMAIN h[d].sub \subseteq Keys
    <2>1. h[d] \in Dicts
      BY <1>1
    <2>2. PICK D \in SUBSET Keys : h[d].sub \in [D -> Nat]
      BY <2>1 DEF Dicts
    <2> QED BY <2>1, <2>2
  <1> QED BY <1>1, <1>2 DEF TreeHeap

\* What is stored in two places is stored in one.
LEMMA StoredOnce ==
  ASSUME NEW h, TreeHeap(h), NEW d \in DOMAIN h, NEW e \in DOMAIN h,
         NEW k \in DOMAIN h[d].sub, NEW l \in DOMAIN h[e].sub, h[d].sub[k] = h[e].sub[l]
  PROVE  d = e /\ k = l
  <1>1. \A x, y \in DOMAIN h : \A i \in DOMAIN h[x].sub, j \in DOMAIN h[y].sub :
          h[x].sub[i] = h[y].sub[j] => x = y /\ i = j
    BY Zenon DEF TreeHeap
  <1>2. \A i \in DOMAIN h[d].sub, j \in DOMAIN h[e].sub :
          h[d].sub[i] = h[e].sub[j] => d = e /\ i = j
    BY Zenon, <1>1
  <1> QED BY Zenon, <1>2

\* A heap grows from itself, and growth adds up.
LEMMA GrowsSelf == ASSUME NEW h, TreeHeap(h) PROVE Grows(h, h) /\ SameData(h, h)
  BY TreeFacts DEF Grows, SameData

\* Growth adds up.
LEMMA GrowsOn ==
  ASSUME NEW h, NEW g, NEW f, TreeHeap(h), TreeHeap(g), TreeHeap(f), Grows(h, g), Grows(g, f)
  PROVE  Grows(h, f)
  <1>1. Len(h) \in Nat /\ Len(g) \in Nat /\ Len(f) \in Nat /\ Len(h) <= Len(g) /\ Len(g) <= Len(f)
    BY TreeFacts DEF Grows
  <1>2. ASSUME NEW d \in 1 .. Len(h) PROVE DOMAIN h[d].sub \subseteq DOMAIN f[d].sub
    BY <1>1 DEF Grows
  <1>3. ASSUME NEW d \in 1 .. Len(h), NEW k \in DOMAIN f[d].sub
        PROVE  IF k \in DOMAIN h[d].sub THEN f[d].sub[k] = h[d].sub[k] ELSE f[d].sub[k] > Len(h)
    <2>1. d \in 1 .. Len(g) /\ f[d].sub[k] \in 2 .. Len(f)
      <3>1. d \in 1 .. Len(g) /\ d \in 1 .. Len(f)
        BY <1>1
      <3> QED BY <3>1, TreeFacts
    <2>2. CASE k \in DOMAIN g[d].sub
      BY <2>1, <2>2 DEF Grows
    <2>3. CASE k \notin DOMAIN g[d].sub
      <3>1. f[d].sub[k] > Len(g) /\ k \notin DOMAIN h[d].sub
        BY <2>1, <2>3 DEF Grows
      <3> QED BY <1>1, <2>1, <3>1
    <2> QED BY <2>2, <2>3
  <1>4. ASSUME NEW d \in Len(h) + 1 .. Len(f), NEW k \in DOMAIN f[d].sub PROVE f[d].sub[k] > Len(h)
    <2>0. f[d].sub[k] \in 2 .. Len(f)
      <3>1. d \in 1 .. Len(f)
        BY <1>1
      <3> QED BY <3>1, TreeFacts
    <2>1. CASE d \in 1 .. Len(g)
      <3>1. CASE k \in DOMAIN g[d].sub
        <4>1. f[d].sub[k] = g[d].sub[k]
          BY <2>1, <3>1 DEF Grows
        <4>2. d \in Len(h) + 1 .. Len(g)
          BY <2>1, <1>1
        <4> QED BY <4>1, <4>2, <3>1 DEF Grows
      <3>2. CASE k \notin DOMAIN g[d].sub
        <4>1. f[d].sub[k] > Len(g)
          BY <2>1, <3>2 DEF Grows
        <4> QED BY <1>1, <4>1, <2>0
      <3> QED BY <3>1, <3>2
    <2>2. CASE d \notin 1 .. Len(g)
      <3>1. d \in Len(g) + 1 .. Len(f)
        BY <1>1, <2>2
      <3>2. f[d].sub[k] > Len(g)
        BY <3>1 DEF Grows
      <3> QED BY <3>2, <1>1, <2>0
    <2> QED BY <2>1, <2>2
  <1> QED BY <1>1, <1>2, <1>3, <1>4 DEF Grows

\* g is h with one more dictionary, c, which is stored nowhere.
AddedTo(h, g, c) ==
  /\ TreeHeap(g) /\ Len(g) = Len(h) + 1 /\ Grows(h, g) /\ SameData(h, g)
  /\ Loose(g, Len(g)) /\ g[Len(g)] = c /\ \A d \in 1 .. Len(h) : g[d] = h[d]

\* A new dictionary without sub-dictionaries.
LEMMA AddedTree ==
  ASSUME NEW h, TreeHeap(h), NEW c, IsFlat(c)
  PROVE  AddedTo(h, Append(h, c), c)
  <1> USE DEF IsFlat
  <1>7. PICK g : g = Append(h, c)
    OBVIOUS
  <1>0. /\ h \in Seq(Dicts) /\ Len(h) \in Nat \ {0} /\ DOMAIN h = 1 .. Len(h)
        /\ \A d \in 1 .. Len(h) : h[d] \in Dicts /\ DOMAIN h[d].sub \subseteq Keys
        /\ \A d \in 1 .. Len(h) : \A k \in DOMAIN h[d].sub : h[d].sub[k] \in 2 .. Len(h)
    BY TreeFacts
  <1>1. /\ g \in Seq(Dicts) /\ Len(g) = Len(h) + 1 /\ DOMAIN g = 1 .. Len(h) + 1
        /\ g[Len(h) + 1] = c
        /\ \A d \in 1 .. Len(h) : g[d] = h[d]
    BY <1>0, <1>7
  <1>2. \A d \in 1 .. Len(h) + 1 : d \in 1 .. Len(h) \/ d = Len(h) + 1
    BY <1>0
  <1>3. ASSUME NEW d \in DOMAIN g, NEW k \in DOMAIN g[d].sub
        PROVE  d \in 1 .. Len(h) /\ k \in DOMAIN h[d].sub /\ g[d].sub[k] = h[d].sub[k]
               /\ g[d].sub[k] \in 2 .. Len(h)
    BY <1>0, <1>1, <1>2
  <1>4. TreeHeap(g)
    <2>1. \A d \in DOMAIN g : \A k \in DOMAIN g[d].sub : g[d].sub[k] \in 2 .. Len(g)
      <3> SUFFICES ASSUME NEW d \in DOMAIN g, NEW k \in DOMAIN g[d].sub
                   PROVE  g[d].sub[k] \in 2 .. Len(g)
        OBVIOUS
      <3>1. g[d].sub[k] \in 2 .. Len(h)
        BY <1>3
      <3> QED BY <3>1, <1>1, <1>0
    <2>2. \A d, e \in DOMAIN g : \A k \in DOMAIN g[d].sub, l \in DOMAIN g[e].sub :
            g[d].sub[k] = g[e].sub[l] => d = e /\ k = l
      <3> SUFFICES ASSUME NEW d \in DOMAIN g, NEW e \in DOMAIN g, NEW k \in DOMAIN g[d].sub,
                          NEW l \in DOMAIN g[e].sub, g[d].sub[k] = g[e].sub[l]
                   PROVE  d = e /\ k = l
        OBVIOUS
      <3>1. /\ d \in DOMAIN h /\ k \in DOMAIN h[d].sub /\ g[d].sub[k] = h[d].sub[k]
            /\ e \in DOMAIN h /\ l \in DOMAIN h[e].sub /\ g[e].sub[l] = h[e].sub[l]
        BY <1>3, <1>0
      <3>2. h[d].sub[k] = h[e].sub[l]
        BY <3>1
      <3> QED BY <3>1, <3>2, StoredOnce, <1>0
    <2>3. g # <<>>
      BY <1>1, <1>0
    <2> QED BY <1>1, <2>1, <2>2, <2>3 DEF TreeHeap
  <1>5. Loose(g, Len(g))
    <2> SUFFICES ASSUME NEW d \in 1 .. Len(g), NEW k \in DOMAIN g[d].sub
                 PROVE  g[d].sub[k] # Len(g)
      BY DEF Loose
    <2>1. g[d].sub[k] \in 2 .. Len(h)
      BY <1>1, <1>3
    <2> QED BY <2>1, <1>1, <1>0
  <1>6. Grows(h, g)
    <2>1. \A d \in Len(h) + 1 .. Len(g) : \A k \in DOMAIN g[d].sub : FALSE
      <3> SUFFICES ASSUME NEW d \in Len(h) + 1 .. Len(g) PROVE DOMAIN g[d].sub = {}
        OBVIOUS
      <3>1. d = Len(h) + 1
        BY <1>1, <1>0
      <3> QED BY <3>1, <1>1
    <2> QED BY <1>0, <1>1, <2>1 DEF Grows
  <1> QED BY <1>7, <1>1, <1>4, <1>5, <1>6 DEF SameData, AddedTo

\* A dictionary that is stored nowhere, put under a key.
LEMMA LinkedTree ==
  ASSUME NEW h, TreeHeap(h), NEW d \in 1 .. Len(h), NEW k \in Keys, NEW e \in 2 .. Len(h),
         Loose(h, e), NEW g, LinksIn(h, g, d, k, e)
  PROVE  TreeHeap(g)
  <1>0. /\ h \in Seq(Dicts) /\ Len(h) \in Nat \ {0} /\ DOMAIN h = 1 .. Len(h)
        /\ \A x \in 1 .. Len(h) : \A l \in DOMAIN h[x].sub : h[x].sub[l] \in 2 .. Len(h)
    BY TreeFacts
  <1>1. g \in Seq(Dicts) /\ Len(g) = Len(h) /\ DOMAIN g = 1 .. Len(h)
    BY DEF LinksIn
  <1>2. ASSUME NEW x \in DOMAIN g, NEW l \in DOMAIN g[x].sub
        PROVE  \/ x = d /\ l = k /\ g[x].sub[l] = e
               \/ l \in DOMAIN h[x].sub /\ g[x].sub[l] = h[x].sub[l] /\ g[x].sub[l] # e
    <2>1. CASE x = d
      BY <1>1, <2>1 DEF LinksIn, Loose
    <2>2. CASE x # d
      BY <1>1, <2>2 DEF LinksIn, Loose
    <2> QED BY <2>1, <2>2
  <1>3. \A x \in DOMAIN g : \A l \in DOMAIN g[x].sub : g[x].sub[l] \in 2 .. Len(g)
    BY <1>0, <1>1, <1>2
  <1>4. ASSUME NEW x \in DOMAIN g, NEW y \in DOMAIN g, NEW l \in DOMAIN g[x].sub,
               NEW m \in DOMAIN g[y].sub, g[x].sub[l] = g[y].sub[m]
        PROVE  x = y /\ l = m
    <2>1. CASE g[x].sub[l] = e
      <3>1. x = d /\ l = k
        BY <1>2, <2>1
      <3>2. g[y].sub[m] = e
        BY <1>4, <2>1
      <3>3. y = d /\ m = k
        BY <1>2, <3>2
      <3> QED BY <3>1, <3>3
    <2>2. CASE g[x].sub[l] # e
      <3>1. /\ l \in DOMAIN h[x].sub /\ g[x].sub[l] = h[x].sub[l]
            /\ m \in DOMAIN h[y].sub /\ g[y].sub[m] = h[y].sub[m]
        BY <1>2, <1>4, <2>2
      <3>2. h[x].sub[l] = h[y].sub[m]
        BY <1>4, <3>1
      <3> QED BY <3>1, <3>2, <1>0, <1>1, StoredOnce
    <2> QED BY <2>1, <2>2
  <1>5. g # <<>>
    BY <1>0, <1>1
  <1> QED BY <1>1, <1>3, <1>4, <1>5 DEF TreeHeap

-----------------------------------------------------------------------------
(* Walks *)

\* What holds first, and of each value if of the one before, holds of all.
LEMMA Throughout ==
  ASSUME NEW n \in Nat, NEW f, NEW V, f[0] \in V,
         \A i \in 1 .. n : f[i - 1] \in V => f[i] \in V
  PROVE  \A i \in 0 .. n : f[i] \in V
  <1> DEFINE S == {i \in 0 .. n : f[i] \in V}
  <1>1. 0 \in S
    OBVIOUS
  <1>2. ASSUME NEW i \in 0 .. n - 1, i \in S PROVE i + 1 \in S
    <2>1. i + 1 \in 1 .. n /\ (i + 1) - 1 = i /\ i + 1 \in 0 .. n /\ f[i] \in V
      BY <1>2
    <2>2. f[i + 1] \in V
      BY <2>1
    <2> QED BY <2>1, <2>2
  <1> HIDE DEF S
  <1>3. 0 .. n \subseteq S
    BY <1>1, <1>2, UpTo
  <1> QED BY <1>3 DEF S

\* w is the walk from d along p.
IsWalk(w, h, d, p) ==
  /\ w \in [0 .. Len(p) -> 0 .. Len(h)] /\ w[0] = d
  /\ \A i \in 1 .. Len(p) : w[i] = SubDict(h, w[i - 1], p[i])

\* A step down is to a dictionary of the heap, or fails.
LEMMA SubDictType ==
  ASSUME NEW h, TreeHeap(h), NEW d \in 0 .. Len(h), NEW k
  PROVE  SubDict(h, d, k) \in 0 .. Len(h) /\ SubDict(h, d, k) # Root
  <1>1. CASE d # Absent /\ k \in DOMAIN h[d].sub
    <2>1. d \in 1 .. Len(h)
      BY <1>1, TreeFacts DEF Absent
    <2>2. h[d].sub[k] \in 2 .. Len(h) /\ Len(h) \in Nat
      BY <2>1, <1>1, TreeFacts
    <2>3. SubDict(h, d, k) = h[d].sub[k]
      BY <1>1 DEF SubDict
    <2>4. PICK e : e = h[d].sub[k]
      OBVIOUS
    <2>5. e \in 0 .. Len(h) /\ e # 1
      BY <2>2, <2>4
    <2> QED BY <2>3, <2>4, <2>5 DEF Root
  <1>2. CASE ~(d # Absent /\ k \in DOMAIN h[d].sub)
    BY <1>2, TreeFacts DEF SubDict, Absent, Root
  <1> QED BY <1>1, <1>2

\* Walk is the walk.
LEMMA WalkIs ==
  ASSUME NEW h, TreeHeap(h), NEW d \in 0 .. Len(h), NEW p \in Seq(Keys)
  PROVE  IsWalk(Walk(h, d, p), h, d, p) /\ DictAt(h, d, p) = Walk(h, d, p)[Len(p)]
         /\ DictAt(h, d, p) \in 0 .. Len(h)
  <1> DEFINE n == Len(p)
             V == 0 .. Len(h)
             next == [i \in 1 .. n |-> [x \in V |-> SubDict(h, x, p[i])]]
             Def(f) == f = [i \in 0 .. n |-> IF i = 0 THEN d ELSE SubDict(h, f[i - 1], p[i])]
             w == CHOOSE f : Def(f)
  <1>1. n \in Nat
    OBVIOUS
  <1>2. next \in [1 .. n -> [V -> V]]
    BY SubDictType
  <1>3. PICK g \in [0 .. n -> V] : Unfolds(g, n, d, next)
    <2> HIDE DEF n, V, next
    <2>1. d \in V
      BY DEF V
    <2> QED BY <1>1, <1>2, <2>1, Unfold
  <1>4. Def(g)
    <2>1. \A i \in 0 .. n : i # 0 => i \in 1 .. n /\ i - 1 \in 0 .. n
      BY <1>1
    <2>2. \A i \in 0 .. n : i # 0 => next[i][g[i - 1]] = SubDict(h, g[i - 1], p[i])
      BY <1>3, <2>1
    <2> HIDE DEF next
    <2>3. \A i \in 0 .. n : g[i] = IF i = 0 THEN d ELSE SubDict(h, g[i - 1], p[i])
      BY <1>3, <2>1, <2>2 DEF Unfolds
    <2> HIDE DEF V
    <2> QED BY <1>3, <2>3
  <1>5. Def(w)
    <2> HIDE DEF Def
    <2> QED BY <1>4
  <1>6. Walk(h, d, p) = w
    BY DEF Walk
  <1> HIDE DEF w
  <1>7. w[0] = d /\ \A i \in 1 .. n : w[i] = SubDict(h, w[i - 1], p[i])
    <2>1. 0 \in 0 .. n /\ \A i \in 1 .. n : i # 0 /\ i \in 0 .. n
      BY <1>1
    <2> QED BY <1>5, <2>1
  <1>8. \A i \in 0 .. n : w[i] \in V
    <2>1. \A i \in 1 .. n : w[i - 1] \in V => w[i] \in V
      BY <1>7, SubDictType
    <2>2. w[0] \in V
      BY <1>7
    <2> HIDE DEF n, V
    <2> QED BY <1>1, <2>1, <2>2, Throughout
  <1>9. w \in [0 .. n -> V]
    <2>1. w = [i \in 0 .. n |-> w[i]]
      BY <1>5
    <2> HIDE DEF V
    <2> QED BY <1>8, <2>1
  <1>10. IsWalk(w, h, d, p)
    BY <1>7, <1>9 DEF IsWalk
  <1>11. w[n] \in 0 .. Len(h)
    BY <1>8, <1>1
  <1> QED BY <1>6, <1>10, <1>11 DEF DictAt

\* Nothing but the walk is one.
LEMMA OneWalk ==
  ASSUME NEW h, TreeHeap(h), NEW d \in 0 .. Len(h), NEW p \in Seq(Keys), NEW w,
         IsWalk(w, h, d, p)
  PROVE  w = Walk(h, d, p) /\ DictAt(h, d, p) = w[Len(p)]
  <1>1. PICK v, n : v = Walk(h, d, p) /\ n = Len(p)
    OBVIOUS
  <1>2. IsWalk(v, h, d, p) /\ n \in Nat
    BY <1>1, WalkIs
  <1> DEFINE S == {i \in 0 .. n : v[i] = w[i]}
  <1>3. 0 \in S
    BY <1>1, <1>2 DEF IsWalk
  <1>4. ASSUME NEW i \in 0 .. n - 1, i \in S PROVE i + 1 \in S
    <2>1. i + 1 \in 1 .. n /\ (i + 1) - 1 = i /\ i + 1 \in 0 .. n /\ v[i] = w[i]
      BY <1>2, <1>4
    <2>2. v[i + 1] = SubDict(h, v[i], p[i + 1])
      BY <1>1, <1>2, <2>1 DEF IsWalk
    <2>3. w[i + 1] = SubDict(h, w[i], p[i + 1])
      BY <1>1, <2>1 DEF IsWalk
    <2> QED BY <2>1, <2>2, <2>3
  <1>5. 0 .. n \subseteq S
    <2> HIDE DEF S
    <2> QED BY <1>2, <1>3, <1>4, UpTo
  <1>6. \A i \in 0 .. n : v[i] = w[i]
    BY <1>5
  <1>7. v = w
    BY <1>1, <1>2, <1>6 DEF IsWalk
  <1>8. DictAt(h, d, p) = Walk(h, d, p)[Len(p)]
    BY DEF DictAt
  <1> QED BY <1>1, <1>7, <1>8

\* Two paths, one after the other, lead where the second one leads from the end of the first.
LEMMA WalkOnward ==
  ASSUME NEW h, TreeHeap(h), NEW d \in 0 .. Len(h), NEW p \in Seq(Keys), NEW q \in Seq(Keys)
  PROVE  DictAt(h, d, p \o q) = DictAt(h, DictAt(h, d, p), q)
  <1>1. PICK v, m, e : v = Walk(h, d, p) /\ m = Len(p) /\ e = DictAt(h, d, p)
    OBVIOUS
  <1>2. IsWalk(v, h, d, p) /\ e = v[m] /\ e \in 0 .. Len(h) /\ m \in Nat
    BY <1>1, WalkIs
  <1>3. PICK u, n : u = Walk(h, e, q) /\ n = Len(q)
    OBVIOUS
  <1>4. IsWalk(u, h, e, q) /\ DictAt(h, e, q) = u[n] /\ n \in Nat
    <2>1. e \in 0 .. Len(h)
      BY <1>2
    <2>2. IsWalk(Walk(h, e, q), h, e, q) /\ DictAt(h, e, q) = Walk(h, e, q)[Len(q)]
      BY <2>1, WalkIs
    <2> QED BY <1>3, <2>2
  <1>5. PICK r : r = p \o q
    OBVIOUS
  <1>6. /\ r \in Seq(Keys) /\ Len(r) = m + n
        /\ \A i \in 1 .. m : r[i] = p[i]
        /\ \A i \in 1 .. n : r[m + i] = q[i]
    BY <1>1, <1>3, <1>5
  <1> DEFINE w == [i \in 0 .. m + n |-> IF i <= m THEN v[i] ELSE u[i - m]]
  <1>7. /\ v \in [0 .. m -> 0 .. Len(h)] /\ v[0] = d
        /\ \A i \in 1 .. m : v[i] = SubDict(h, v[i - 1], p[i])
        /\ u \in [0 .. n -> 0 .. Len(h)] /\ u[0] = e
        /\ \A i \in 1 .. n : u[i] = SubDict(h, u[i - 1], q[i])
    BY <1>1, <1>2, <1>3, <1>4 DEF IsWalk
  <1>8. w \in [0 .. m + n -> 0 .. Len(h)]
    <2> SUFFICES ASSUME NEW i \in 0 .. m + n
                 PROVE  (IF i <= m THEN v[i] ELSE u[i - m]) \in 0 .. Len(h)
      OBVIOUS
    <2>1. CASE i <= m
      <3>1. i \in 0 .. m
        BY <1>2, <2>1
      <3> QED BY <3>1, <2>1, <1>7
    <2>2. CASE ~(i <= m)
      <3>1. i - m \in 0 .. n
        BY <1>2, <1>4, <2>2
      <3> QED BY <3>1, <2>2, <1>7
    <2> QED BY <2>1, <2>2
  <1>9. w[0] = d
    BY <1>2, <1>4, <1>7
  <1>10. ASSUME NEW i \in 1 .. m + n PROVE w[i] = SubDict(h, w[i - 1], r[i])
    <2>0. i \in 0 .. m + n /\ i - 1 \in 0 .. m + n
      BY <1>2, <1>4
    <2>1. CASE i <= m
      <3>1. i \in 1 .. m /\ i - 1 <= m
        BY <1>2, <2>1
      <3> QED BY <2>0, <2>1, <3>1, <1>6, <1>7
    <2>2. CASE ~(i <= m)
      <3>1. PICK j \in 1 .. n : i = m + j
        <4>1. i - m \in 1 .. n /\ i = m + (i - m)
          BY <1>2, <1>4, <2>2
        <4> QED BY <4>1
      <3>2. r[i] = q[j] /\ w[i] = u[j]
        <4>1. i - m = j
          BY <1>2, <3>1
        <4> QED BY <2>0, <2>2, <3>1, <4>1, <1>6
      <3>3. w[i - 1] = u[j - 1]
        <4>1. CASE j = 1
          <5>1. i - 1 = m
            BY <1>2, <3>1, <4>1
          <5> QED BY <2>0, <4>1, <5>1, <1>2, <1>7
        <4>2. CASE j # 1
          <5>1. ~(i - 1 <= m) /\ (i - 1) - m = j - 1
            BY <1>2, <3>1, <4>2
          <5> QED BY <2>0, <5>1
        <4> QED BY <4>1, <4>2
      <3> QED BY <1>7, <3>1, <3>2, <3>3
    <2> QED BY <2>1, <2>2
  <1>11. IsWalk(w, h, d, r)
    <2> HIDE DEF w
    <2> QED BY <1>6, <1>8, <1>9, <1>10 DEF IsWalk
  <1>12. w[m + n] = u[n]
    <2>1. m + n \in 0 .. m + n
      BY <1>2, <1>4
    <2>2. CASE n = 0
      BY <2>1, <2>2, <1>2, <1>7
    <2>3. CASE n # 0
      <3>1. ~(m + n <= m) /\ (m + n) - m = n
        BY <1>2, <1>4, <2>3
      <3> QED BY <2>1, <3>1
    <2> QED BY <2>2, <2>3
  <1>13. DictAt(h, d, r) = w[m + n]
    <2> HIDE DEF w
    <2> QED BY <1>6, <1>11, OneWalk
  <1> QED BY <1>1, <1>4, <1>5, <1>12, <1>13

\* Nothing is below what is missing.
LEMMA NothingBelowAbsent ==
  ASSUME NEW h, TreeHeap(h), NEW p \in Seq(Keys)
  PROVE  DictAt(h, Absent, p) = Absent
  <1>1. PICK w, n : w = Walk(h, Absent, p) /\ n = Len(p)
    OBVIOUS
  <1>2. Absent \in 0 .. Len(h)
    BY TreeFacts DEF Absent
  <1>3. IsWalk(w, h, Absent, p) /\ DictAt(h, Absent, p) = w[n] /\ n \in Nat
    BY <1>1, <1>2, WalkIs
  <1>4. w[0] \in {Absent} /\ \A i \in 1 .. n : w[i - 1] \in {Absent} => w[i] \in {Absent}
    BY <1>1, <1>3 DEF IsWalk, SubDict
  <1>5. \A i \in 0 .. n : w[i] \in {Absent}
    BY <1>3, <1>4, Throughout
  <1> QED BY <1>3, <1>5

\* A path leads where it led while the heap grows; if it led nowhere, it leads nowhere or to
\* a new dictionary.
LEMMA GrowsWalk ==
  ASSUME NEW h, TreeHeap(h), NEW g, TreeHeap(g), Grows(h, g), NEW d \in 1 .. Len(h),
         NEW p \in Seq(Keys)
  PROVE  /\ DictAt(h, d, p) # Absent => DictAt(g, d, p) = DictAt(h, d, p)
         /\ DictAt(h, d, p) = Absent => DictAt(g, d, p) = Absent \/ DictAt(g, d, p) > Len(h)
  <1>1. PICK w, v, n : w = Walk(h, d, p) /\ v = Walk(g, d, p) /\ n = Len(p)
    OBVIOUS
  <1>2. Len(h) \in Nat \ {0} /\ Len(g) \in Nat \ {0} /\ Len(h) <= Len(g)
    BY TreeFacts DEF Grows
  <1>3. IsWalk(w, h, d, p) /\ DictAt(h, d, p) = w[n] /\ n \in Nat
    <2>1. d \in 0 .. Len(h)
      BY <1>2
    <2> QED BY <1>1, <2>1, WalkIs
  <1>4. IsWalk(v, g, d, p) /\ DictAt(g, d, p) = v[n]
    <2>1. d \in 0 .. Len(g)
      BY <1>2
    <2> QED BY <1>1, <2>1, WalkIs
  <1> DEFINE Same(i) == /\ w[i] # Absent => v[i] = w[i]
                        /\ w[i] = Absent => v[i] = Absent \/ v[i] > Len(h)
             S == {i \in 0 .. n : Same(i)}
  <1>5. 0 \in S
    BY <1>2, <1>3, <1>4 DEF IsWalk, Absent
  <1>6. ASSUME NEW i \in 0 .. n - 1, i \in S PROVE i + 1 \in S
    <2>1. i + 1 \in 1 .. n /\ (i + 1) - 1 = i /\ i + 1 \in 0 .. n /\ i \in 0 .. n
      BY <1>3, <1>6
    <2>2. PICK k : k = p[i + 1]
      OBVIOUS
    <2>3. /\ w[i] \in 0 .. Len(h) /\ v[i] \in 0 .. Len(g)
          /\ w[i + 1] = SubDict(h, w[i], k) /\ v[i + 1] = SubDict(g, v[i], k)
      BY <1>1, <1>3, <1>4, <2>1, <2>2 DEF IsWalk
    <2>4. Same(i)
      BY <1>6
    <2>5. CASE w[i] # Absent
      <3>1. PICK x : x = w[i]
        OBVIOUS
      <3>2. x \in 1 .. Len(h) /\ x \in 1 .. Len(g) /\ v[i] = x /\ x # Absent
        BY <2>3, <2>4, <2>5, <3>1, <1>2 DEF Absent
      <3>3. DOMAIN h[x].sub \subseteq DOMAIN g[x].sub
        BY <3>2 DEF Grows
      <3>4. CASE k \in DOMAIN h[x].sub
        <4>1. g[x].sub[k] = h[x].sub[k] /\ k \in DOMAIN g[x].sub
          BY <3>2, <3>3, <3>4 DEF Grows
        <4>2. h[x].sub[k] # Absent
          <5>1. h[x].sub[k] \in 2 .. Len(h)
            BY <3>2, <3>4, TreeFacts
          <5> QED BY <5>1 DEF Absent
        <4>3. w[i + 1] = h[x].sub[k] /\ v[i + 1] = h[x].sub[k]
          BY <2>3, <3>1, <3>2, <3>4, <4>1 DEF SubDict
        <4> QED BY <2>1, <4>2, <4>3
      <3>5. CASE k \notin DOMAIN h[x].sub
        <4>1. w[i + 1] = Absent
          BY <2>3, <3>1, <3>5 DEF SubDict
        <4>2. v[i + 1] = Absent \/ v[i + 1] > Len(h)
          BY <2>3, <3>2, <3>5 DEF SubDict, Grows
        <4> QED BY <2>1, <4>1, <4>2
      <3> QED BY <3>4, <3>5
    <2>6. CASE w[i] = Absent
      <3>1. w[i + 1] = Absent
        BY <2>3, <2>6 DEF SubDict
      <3>2. v[i + 1] = Absent \/ v[i + 1] > Len(h)
        <4>1. CASE v[i] = Absent
          BY <2>3, <4>1 DEF SubDict
        <4>2. CASE v[i] > Len(h)
          <5>1. PICK x : x = v[i]
            OBVIOUS
          <5>2. x \in Len(h) + 1 .. Len(g)
            BY <2>3, <4>2, <5>1, <1>2
          <5> QED BY <2>3, <5>1, <5>2 DEF SubDict, Grows
        <4> QED BY <2>4, <2>6, <4>1, <4>2
      <3> QED BY <2>1, <3>1, <3>2
    <2> QED BY <2>5, <2>6
  <1>7. 0 .. n \subseteq S
    <2> HIDE DEF S
    <2> QED BY <1>3, <1>5, <1>6, UpTo
  <1>8. Same(n)
    BY <1>3, <1>7
  <1> QED BY <1>3, <1>4, <1>8

-----------------------------------------------------------------------------
(* Ways down that make what is missing *)

\* Where a way down may have come to: a heap, and a dictionary in it.
Places == {at \in [heap : Seq(Dicts), dict : Nat] : TreeHeap(at.heap) /\ at.dict \in 1 .. Len(at.heap)}

\* One step down: to the dictionary under the key, which is there afterwards.
LEMMA DescendStep ==
  ASSUME NEW h, TreeHeap(h), NEW d \in 1 .. Len(h), NEW k \in Keys,
         NEW b, b = Descend([heap |-> h, dict |-> d], k)
  PROVE  /\ b \in Places
         /\ Grows(h, b.heap) /\ SameData(h, b.heap) /\ SubDict(b.heap, d, k) = b.dict
  <1>1. PICK at : at = [heap |-> h, dict |-> d]
    OBVIOUS
  <1>2. at.heap = h /\ at.dict = d /\ b = Descend(at, k)
    BY <1>1
  <1>3. /\ h \in Seq(Dicts) /\ Len(h) \in Nat \ {0} /\ DOMAIN h = 1 .. Len(h)
        /\ \A x \in 1 .. Len(h) : \A l \in DOMAIN h[x].sub : h[x].sub[l] \in 2 .. Len(h)
    BY TreeFacts
  <1>4. CASE k \in DOMAIN h[d].sub
    <2>1. PICK e : e = h[d].sub[k]
      OBVIOUS
    <2>2. e \in 2 .. Len(h)
      BY <1>3, <1>4, <2>1
    <2>3. e \in 1 .. Len(h) /\ e \in Nat
      BY <2>2, <1>3
    <2>4. b = [heap |-> h, dict |-> e]
      <3>1. b = [at EXCEPT !.dict = e]
        BY <1>2, <1>4, <2>1 DEF Descend
      <3> QED BY <3>1, <1>1
    <2>5. SubDict(h, d, k) = e
      BY <1>3, <1>4, <2>1 DEF SubDict, Absent
    <2>6. b \in Places
      BY <1>3, <2>3, <2>4 DEF Places
    <2> QED BY <2>4, <2>5, <2>6, GrowsSelf
  <1>5. CASE k \notin DOMAIN h[d].sub
    <2>1. PICK n, f, g : n = Len(h) + 1 /\ f = Append(h, EmptyDict) /\ g = Linked(f, d, k, n)
      OBVIOUS
    <2>2. b = [heap |-> g, dict |-> n]
      BY <1>2, <1>5, <2>1 DEF Descend
    <2>3. IsFlat(EmptyDict) /\ DOMAIN EmptyDict.sub = {}
      BY EmptyIsDict
    <2>4. /\ TreeHeap(f) /\ Len(f) = n /\ Grows(h, f) /\ SameData(h, f)
          /\ Loose(f, n) /\ f[n] = EmptyDict /\ \A x \in 1 .. Len(h) : f[x] = h[x]
      <3>1. /\ TreeHeap(f) /\ Len(f) = Len(h) + 1 /\ Grows(h, f) /\ SameData(h, f)
            /\ Loose(f, Len(f)) /\ f[Len(f)] = EmptyDict /\ \A x \in 1 .. Len(h) : f[x] = h[x]
        BY <2>1, <2>3, AddedTree DEF AddedTo
      <3> QED BY <3>1, <2>1
    <2>5. d \in 1 .. Len(f) /\ n \in 2 .. Len(f) /\ n \in Nat /\ f \in Seq(Dicts)
      BY <1>3, <2>1, <2>4 DEF TreeHeap
    <2>6. LinksIn(f, g, d, k, n)
      <3>1. LinksIn(f, Linked(f, d, k, n), d, k, n)
        BY <2>5, Linking
      <3> QED BY <2>1, <3>1
    <2>7. TreeHeap(g)
      BY <2>4, <2>5, <2>6, LinkedTree
    <2>8. Len(g) = n
      BY <2>4, <2>6 DEF LinksIn
    <2>9. Grows(h, g)
      <3>1. \A x \in 1 .. Len(h) : x \in 1 .. Len(f)
        BY <1>3, <2>1, <2>4
      <3>2. ASSUME NEW x \in 1 .. Len(h)
            PROVE  /\ DOMAIN h[x].sub \subseteq DOMAIN g[x].sub
                   /\ \A l \in DOMAIN g[x].sub :
                        IF l \in DOMAIN h[x].sub THEN g[x].sub[l] = h[x].sub[l] ELSE g[x].sub[l] > Len(h)
        <4>1. x \in 1 .. Len(f) /\ f[x].sub = h[x].sub
          BY <3>1, <2>4
        <4>2. CASE x = d
          <5>1. /\ DOMAIN g[d].sub = DOMAIN h[d].sub \cup {k} /\ g[d].sub[k] = n
                /\ \A l \in DOMAIN h[d].sub : l # k => g[d].sub[l] = h[d].sub[l]
            BY <2>6, <4>1, <4>2 DEF LinksIn
          <5>2. n > Len(h)
            BY <1>3, <2>1
          <5> QED BY <1>5, <4>2, <5>1, <5>2
        <4>3. CASE x # d
          <5>1. g[x].sub = h[x].sub
            BY <2>6, <4>1, <4>3 DEF LinksIn
          <5> QED BY <5>1
        <4> QED BY <4>2, <4>3
      <3>3. ASSUME NEW x \in Len(h) + 1 .. Len(g) PROVE DOMAIN g[x].sub = {}
        <4>1. x = n /\ x # d /\ x \in 1 .. Len(f)
          BY <1>3, <2>1, <2>4, <2>8
        <4>2. g[x].sub = f[n].sub
          BY <2>6, <4>1 DEF LinksIn
        <4> QED BY <2>3, <2>4, <4>2
      <3>4. Len(h) <= Len(g)
        BY <1>3, <2>1, <2>8
      <3> QED BY <3>2, <3>3, <3>4 DEF Grows
    <2>10. SameData(h, g)
      <3>1. \A x \in 1 .. Len(h) : x \in 1 .. Len(f)
        BY <1>3, <2>1, <2>4
      <3> QED BY <3>1, <2>4, <2>6 DEF SameData, LinksIn
    <2>11. SubDict(g, d, k) = n
      BY <1>3, <2>6 DEF SubDict, LinksIn, Absent
    <2>12. b \in Places
      <3>1. n \in 1 .. Len(g) /\ g \in Seq(Dicts)
        BY <2>5, <2>6, <2>8, <1>3, <2>1 DEF LinksIn
      <3> QED BY <2>2, <2>5, <2>7, <3>1 DEF Places
    <2> QED BY <2>2, <2>9, <2>10, <2>11, <2>12
  <1> QED BY <1>4, <1>5

\* Where a way down along p, from d in h, has come to after i steps.
Descended(h, d, p, i, at) ==
  /\ at \in Places /\ Grows(h, at.heap) /\ SameData(h, at.heap)
  /\ Walk(at.heap, d, p)[i] = at.dict

\* A way down, step by step: every heap has grown from the first, and the dictionary is the
\* one that the path leads to by then.
LEMMA DescentIs ==
  ASSUME NEW h, TreeHeap(h), NEW d \in 1 .. Len(h), NEW p \in Seq(Keys)
  PROVE  Descended(h, d, p, Len(p), Reach(h, d, p))
  <1> DEFINE n == Len(p)
             V == Places
             first == [heap |-> h, dict |-> d]
             next == [i \in 1 .. n |-> [at \in V |-> Descend(at, p[i])]]
             Def(f) == f = [i \in 0 .. n |-> IF i = 0 THEN [heap |-> h, dict |-> d]
                                             ELSE Descend(f[i - 1], p[i])]
             w == CHOOSE f : Def(f)
  <1>1. n \in Nat /\ Len(h) \in Nat \ {0} /\ h \in Seq(Dicts)
    BY TreeFacts
  <1>2. first \in V
    BY <1>1 DEF Places
  <1>3. ASSUME NEW at \in V, NEW k \in Keys
        PROVE  /\ Descend(at, k) \in V /\ Grows(at.heap, Descend(at, k).heap)
               /\ SameData(at.heap, Descend(at, k).heap)
               /\ SubDict(Descend(at, k).heap, at.dict, k) = Descend(at, k).dict
    <2>1. PICK a, e, b : a = at.heap /\ e = at.dict /\ b = Descend(at, k)
      OBVIOUS
    <2>2. at = [heap |-> a, dict |-> e] /\ TreeHeap(a) /\ e \in 1 .. Len(a)
      BY <2>1 DEF Places
    <2>3. b = Descend([heap |-> a, dict |-> e], k)
      BY <2>1, <2>2
    <2>4. b \in Places /\ Grows(a, b.heap) /\ SameData(a, b.heap) /\ SubDict(b.heap, e, k) = b.dict
      BY <2>2, <2>3, DescendStep
    <2> QED BY <2>1, <2>4
  <1>4. \A i \in 1 .. n : p[i] \in Keys
    OBVIOUS
  <1>5. next \in [1 .. n -> [V -> V]]
    BY <1>3, <1>4
  <1>6. PICK g \in [0 .. n -> V] : Unfolds(g, n, first, next)
    <2> HIDE DEF n, V, next, first
    <2> QED BY <1>1, <1>2, <1>5, Unfold
  <1>7. Def(g)
    <2>1. \A i \in 0 .. n : i # 0 => i \in 1 .. n /\ i - 1 \in 0 .. n
      BY <1>1
    <2> HIDE DEF V
    <2>2. \A i \in 0 .. n : i # 0 => next[i][g[i - 1]] = Descend(g[i - 1], p[i])
      BY <1>6, <2>1
    <2> HIDE DEF next
    <2>3. \A i \in 0 .. n : g[i] = IF i = 0 THEN [heap |-> h, dict |-> d] ELSE Descend(g[i - 1], p[i])
      BY <1>6, <2>1, <2>2 DEF Unfolds
    <2> QED BY <1>6, <2>3
  <1>8. Def(w)
    <2> HIDE DEF Def
    <2> QED BY <1>7
  <1>9. Descent(h, d, p) = w
    BY DEF Descent
  <1> HIDE DEF w
  <1>10. w[0] = first /\ \A i \in 1 .. n : w[i] = Descend(w[i - 1], p[i])
    <2>1. 0 \in 0 .. n /\ \A i \in 1 .. n : i # 0 /\ i \in 0 .. n
      BY <1>1
    <2> QED BY <1>8, <2>1
  <1> DEFINE S == {i \in 0 .. n : Descended(h, d, p, i, w[i])}
  <1>11. 0 \in S
    <2>1. first.heap = h /\ first.dict = d
      OBVIOUS
    <2>2. Walk(h, d, p)[0] = d
      <3>1. d \in 0 .. Len(h)
        BY <1>1
      <3> QED BY <3>1, WalkIs DEF IsWalk
    <2> HIDE DEF first
    <2>3. Descended(h, d, p, 0, first)
      BY <1>2, <2>1, <2>2, GrowsSelf DEF Descended
    <2> QED BY <1>1, <1>10, <2>3
  <1>12. ASSUME NEW i \in 0 .. n - 1, i \in S PROVE i + 1 \in S
    <2>1. i + 1 \in 1 .. n /\ (i + 1) - 1 = i /\ i + 1 \in 0 .. n /\ i \in 0 .. n
      BY <1>1, <1>12
    <2>2. PICK at, b, k : at = w[i] /\ b = w[i + 1] /\ k = p[i + 1]
      OBVIOUS
    <2>3. Descended(h, d, p, i, at) /\ b = Descend(at, k) /\ k \in Keys
      BY <1>4, <1>10, <1>12, <2>1, <2>2
    <2>4. at \in Places /\ Grows(h, at.heap) /\ SameData(h, at.heap) /\ Walk(at.heap, d, p)[i] = at.dict
      BY <2>3 DEF Descended
    <2>5. /\ b \in Places /\ Grows(at.heap, b.heap) /\ SameData(at.heap, b.heap)
          /\ SubDict(b.heap, at.dict, k) = b.dict
      BY <1>3, <2>3, <2>4
    <2>6. PICK a, c, e : a = at.heap /\ c = b.heap /\ e = at.dict
      OBVIOUS
    <2>7. TreeHeap(a) /\ TreeHeap(c) /\ e \in 1 .. Len(a)
      BY <2>4, <2>5, <2>6 DEF Places
    <2>8. Grows(h, c)
      BY <2>4, <2>5, <2>6, <2>7, GrowsOn
    <2>9. SameData(h, c)
      <3>1. Len(h) <= Len(a) /\ Len(a) \in Nat
        BY <2>4, <2>6, <2>7, TreeFacts DEF Grows
      <3>2. \A x \in 1 .. Len(h) : x \in 1 .. Len(a)
        BY <1>1, <3>1
      <3> QED BY <2>4, <2>5, <2>6, <3>2 DEF SameData
    <2>10. Walk(c, d, p)[i] = e
      <3>1. PICK q : q = SubSeq(p, 1, i)
        OBVIOUS
      <3>2. q \in Seq(Keys) /\ Len(q) = i /\ \A j \in 1 .. i : q[j] = p[j]
        BY <1>1, <2>1, <3>1
      <3>3. ASSUME NEW f, TreeHeap(f), Len(h) <= Len(f) PROVE Walk(f, d, p)[i] = DictAt(f, d, q)
        <4>1. d \in 0 .. Len(f) /\ Len(f) \in Nat
          BY <1>1, <3>3, TreeFacts
        <4>2. IsWalk(Walk(f, d, p), f, d, p)
          BY <3>3, <4>1, WalkIs
        <4>3. PICK u, v : u = Walk(f, d, p) /\ v = [j \in 0 .. i |-> u[j]]
          OBVIOUS
        <4>4. IsWalk(v, f, d, q)
          <5>1. 0 .. i \subseteq 0 .. n /\ 1 .. i \subseteq 1 .. n
            BY <1>1, <2>1
          <5>2. /\ u \in [0 .. n -> 0 .. Len(f)] /\ u[0] = d
                /\ \A j \in 1 .. n : u[j] = SubDict(f, u[j - 1], p[j])
            BY <4>2, <4>3 DEF IsWalk
          <5>3. 0 \in 0 .. i /\ \A j \in 1 .. i : j \in 0 .. i /\ j - 1 \in 0 .. i
            BY <2>1
          <5> HIDE DEF n
          <5>4. v \in [0 .. i -> 0 .. Len(f)] /\ v[0] = d
            BY <4>3, <5>1, <5>2, <5>3
          <5>5. \A j \in 1 .. i : v[j] = SubDict(f, v[j - 1], q[j])
            BY <4>3, <5>1, <5>2, <5>3, <3>2
          <5> QED BY <5>4, <5>5, <3>2 DEF IsWalk
        <4>5. DictAt(f, d, q) = v[i]
          BY <3>2, <3>3, <4>1, <4>4, OneWalk
        <4>6. v[i] = u[i]
          BY <4>3, <2>1
        <4> QED BY <4>3, <4>5, <4>6
      <3>4. Len(h) <= Len(a) /\ Len(h) <= Len(c) /\ Len(a) \in Nat
        BY <2>4, <2>6, <2>8, <2>7, TreeFacts DEF Grows
      <3>5. DictAt(a, d, q) = e /\ e # Absent
        <4>1. Walk(a, d, p)[i] = e
          BY <2>4, <2>6
        <4>2. e # Absent
          BY <2>7 DEF Absent
        <4> QED BY <4>1, <4>2, <3>3, <3>4, <2>7
      <3>6. DictAt(c, d, q) = e
        <4>1. d \in 1 .. Len(a) /\ Grows(a, c)
          BY <1>1, <3>4, <2>5, <2>6
        <4> QED BY <4>1, <3>2, <3>5, <2>7, GrowsWalk
      <3> QED BY <3>3, <3>4, <3>6, <2>7
    <2>11. Walk(c, d, p)[i + 1] = b.dict
      <3>1. d \in 0 .. Len(c)
        <4>1. Len(h) <= Len(c) /\ Len(c) \in Nat
          BY <2>7, <2>8, TreeFacts DEF Grows
        <4> QED BY <1>1, <4>1
      <3>2. IsWalk(Walk(c, d, p), c, d, p)
        BY <3>1, <2>7, WalkIs
      <3>3. Walk(c, d, p)[i + 1] = SubDict(c, Walk(c, d, p)[i], p[i + 1])
        BY <3>2, <2>1 DEF IsWalk
      <3> QED BY <3>3, <2>2, <2>5, <2>6, <2>10
    <2>12. Descended(h, d, p, i + 1, b)
      BY <2>5, <2>6, <2>8, <2>9, <2>11 DEF Descended
    <2> QED BY <2>1, <2>2, <2>12
  <1>13. 0 .. n \subseteq S
    <2> HIDE DEF S
    <2> QED BY <1>1, <1>11, <1>12, UpTo
  <1>14. Descended(h, d, p, n, w[n])
    BY <1>1, <1>13
  <1> QED BY <1>9, <1>14 DEF Reach

-----------------------------------------------------------------------------
(* Values *)

\* The data of the dictionary d has become x.
DataIn(h, g, d, x) ==
  /\ TreeHeap(g) /\ Len(g) = Len(h) /\ Grows(h, g)
  /\ \A y \in 1 .. Len(h) : g[y].sub = h[y].sub /\ (y # d => g[y].data = h[y].data)
  /\ g[d].data = x

\* New values in a dictionary change nothing else.
LEMMA NewData ==
  ASSUME NEW h, TreeHeap(h), NEW d \in 1 .. Len(h), NEW E \in SUBSET Keys,
         NEW x \in [E -> Values \cup {NoValue}], NEW g, g = [h EXCEPT ![d].data = x]
  PROVE  DataIn(h, g, d, x)
  <1>1. /\ h \in Seq(Dicts) /\ Len(h) \in Nat \ {0} /\ DOMAIN h = 1 .. Len(h)
        /\ \A y \in 1 .. Len(h) : h[y] \in Dicts
        /\ \A y \in 1 .. Len(h) : \A k \in DOMAIN h[y].sub : h[y].sub[k] \in 2 .. Len(h)
    BY TreeFacts
  <1>2. PICK c : c = [h[d] EXCEPT !.data = x]
    OBVIOUS
  <1>3. c \in Dicts /\ c.sub = h[d].sub /\ c.data = x
    <2>1. h[d] \in Dicts
      BY <1>1
    <2>2. PICK D \in SUBSET Keys : h[d].sub \in [D -> Nat]
      BY <2>1 DEF Dicts
    <2>3. c = [data |-> x, sub |-> h[d].sub]
      BY <1>2, <2>1 DEF Dicts
    <2> QED BY <2>2, <2>3 DEF Dicts
  <1>4. g = [h EXCEPT ![d] = c]
    BY <1>2
  <1>5. /\ g \in Seq(Dicts) /\ Len(g) = Len(h)
        /\ \A y \in 1 .. Len(h) : g[y] = IF y = d THEN c ELSE h[y]
    BY <1>1, <1>3, <1>4, Replaced
  <1>6. \A y \in 1 .. Len(h) : g[y].sub = h[y].sub /\ (y # d => g[y].data = h[y].data)
    BY <1>3, <1>5
  <1>7. TreeHeap(g)
    <2>1. DOMAIN g = DOMAIN h /\ g # <<>>
      BY <1>1, <1>5
    <2>2. \A y \in DOMAIN g : \A k \in DOMAIN g[y].sub : g[y].sub[k] \in 2 .. Len(g)
      BY <1>1, <1>5, <1>6, <2>1
    <2>3. ASSUME NEW y \in DOMAIN g, NEW z \in DOMAIN g, NEW k \in DOMAIN g[y].sub,
                 NEW l \in DOMAIN g[z].sub, g[y].sub[k] = g[z].sub[l]
          PROVE  y = z /\ k = l
      <3>1. /\ y \in DOMAIN h /\ z \in DOMAIN h /\ k \in DOMAIN h[y].sub
            /\ l \in DOMAIN h[z].sub /\ h[y].sub[k] = h[z].sub[l]
        BY <1>1, <1>6, <2>1, <2>3
      <3> QED BY <3>1, StoredOnce
    <2> QED BY <1>5, <2>1, <2>2, <2>3 DEF TreeHeap
  <1>8. Grows(h, g)
    BY <1>1, <1>5, <1>6 DEF Grows
  <1> QED BY <1>3, <1>5, <1>6, <1>7, <1>8 DEF DataIn

\* The parts of a path.
LEMMA PathParts ==
  ASSUME NEW p \in Seq(Keys), p # <<>>
  PROVE  /\ Front(p) \in Seq(Keys) /\ Len(Front(p)) = Len(p) - 1 /\ Last(p) \in Keys
         /\ Len(p) \in Nat \ {0} /\ Last(p) = p[Len(p)]
         /\ \A i \in 1 .. Len(p) - 1 : Front(p)[i] = p[i]
  <1>1. PICK n, q : n = Len(p) - 1 /\ q = SubSeq(p, 1, n)
    OBVIOUS
  <1>2. Len(p) \in Nat \ {0} /\ n \in Nat /\ n <= Len(p)
    BY <1>1
  <1>3. q \in Seq(Keys) /\ Len(q) = n /\ \A i \in 1 .. n : q[i] = p[i]
    BY <1>1, <1>2
  <1>4. p[Len(p)] \in Keys
    BY <1>2
  <1> QED BY <1>1, <1>2, <1>3, <1>4 DEF Front, Last

\* p leads to where the value v is in g, and g is h otherwise.
ItemSet(h, g, d, p, v) ==
  \E e \in 1 .. Len(g) :
    /\ TreeHeap(g) /\ Grows(h, g)
    /\ DictAt(g, d, Front(p)) = e /\ Last(p) \in DOMAIN g[e].data /\ g[e].data[Last(p)] = v
    /\ \A x \in 1 .. Len(h) : x # e => g[x].data = h[x].data
    /\ \A k \in DOMAIN h[e].data : e \in 1 .. Len(h) /\ k # Last(p) =>
         k \in DOMAIN g[e].data /\ g[e].data[k] = h[e].data[k]

\* _setitem sets the value that the path leads to.
LEMMA SetItemIs ==
  ASSUME NEW h, TreeHeap(h), NEW d \in 1 .. Len(h), NEW p \in Seq(Keys), p # <<>>,
         NEW v \in Values \cup {NoValue}
  PROVE  ItemSet(h, SetItem(h, d, p, v), d, p, v)
  <1>1. PICK q, k : q = Front(p) /\ k = Last(p)
    OBVIOUS
  <1>2. q \in Seq(Keys) /\ k \in Keys
    BY <1>1, PathParts
  <1>3. PICK at : at = Reach(h, d, q)
    OBVIOUS
  <1>4. Descended(h, d, q, Len(q), at)
    BY <1>2, <1>3, DescentIs
  <1>5. PICK f, e : f = at.heap /\ e = at.dict
    OBVIOUS
  <1>6. TreeHeap(f) /\ e \in 1 .. Len(f) /\ Grows(h, f) /\ SameData(h, f)
    BY <1>4, <1>5 DEF Descended, Places
  <1>7. Len(h) \in Nat \ {0} /\ Len(f) \in Nat \ {0} /\ Len(h) <= Len(f) /\ d \in 1 .. Len(f)
    BY <1>6, TreeFacts DEF Grows
  <1>8. DictAt(f, d, q) = e
    BY <1>4, <1>5 DEF Descended, DictAt
  <1>9. PICK s : s = f[e].data
    OBVIOUS
  <1>10. PICK E \in SUBSET Keys : s \in [E -> Values \cup {NoValue}]
    <2>1. f[e] \in Dicts
      BY <1>6, TreeFacts
    <2> QED BY <1>9, <2>1 DEF Dicts
  <1>11. PICK x : x = SetKey(s, k, v)
    OBVIOUS
  <1>12. /\ x \in [E \cup {k} -> Values \cup {NoValue}] /\ E \cup {k} \in SUBSET Keys
         /\ \A l \in E \cup {k} : x[l] = IF l = k THEN v ELSE s[l]
    BY <1>2, <1>10, <1>11 DEF SetKey
  <1>13. PICK g : g = [f EXCEPT ![e].data = x]
    OBVIOUS
  <1>14. g = SetItem(h, d, p, v)
    BY <1>1, <1>3, <1>5, <1>9, <1>11, <1>13 DEF SetItem
  <1>15. DataIn(f, g, e, x)
    BY <1>6, <1>12, <1>13, NewData
  <1>16. TreeHeap(g) /\ Len(g) = Len(f) /\ Grows(f, g) /\ Grows(h, g)
    BY <1>6, <1>15, GrowsOn DEF DataIn
  <1>17. DictAt(g, d, q) = e
    <2>1. e # Absent
      BY <1>6, <1>7 DEF Absent
    <2> QED BY <1>2, <1>6, <1>7, <1>8, <1>16, <2>1, GrowsWalk
  <1>18. k \in DOMAIN g[e].data /\ g[e].data[k] = v
    BY <1>12, <1>15 DEF DataIn
  <1>19. \A y \in 1 .. Len(h) : y # e => g[y].data = h[y].data
    <2>1. \A y \in 1 .. Len(h) : y \in 1 .. Len(f)
      BY <1>7
    <2> QED BY <1>6, <1>15, <2>1 DEF DataIn, SameData
  <1>20. ASSUME NEW l \in DOMAIN h[e].data, e \in 1 .. Len(h), l # k
         PROVE  l \in DOMAIN g[e].data /\ g[e].data[l] = h[e].data[l]
    <2>1. s = h[e].data /\ g[e].data = x
      BY <1>6, <1>9, <1>15, <1>20 DEF SameData, DataIn
    <2> QED BY <1>10, <1>12, <1>20, <2>1
  <1>21. e \in 1 .. Len(g)
    BY <1>6, <1>16
  <1>22. ItemSet(h, g, d, p, v)
    BY <1>1, <1>16, <1>17, <1>18, <1>19, <1>20, <1>21 DEF ItemSet
  <1> QED BY <1>14, <1>22

\* No value that is there is lost or changed from h to g.
DataKept(h, g) ==
  \A d \in 1 .. Len(h) : \A k \in DOMAIN h[d].data :
    h[d].data[k] # NoValue => k \in DOMAIN g[d].data /\ g[d].data[k] = h[d].data[k]

\* Keeping values adds up.
LEMMA DataKeptOn ==
  ASSUME NEW h, NEW g, NEW f, TreeHeap(h), TreeHeap(g), Len(h) <= Len(g), DataKept(h, g), DataKept(g, f)
  PROVE  DataKept(h, f)
  <1>1. \A d \in 1 .. Len(h) : d \in 1 .. Len(g)
    BY TreeFacts
  <1> QED BY <1>1 DEF DataKept

\* What is found under a path stays there while the heap grows and keeps its values.
LEMMA GetKept ==
  ASSUME NEW h, TreeHeap(h), NEW g, TreeHeap(g), Grows(h, g), DataKept(h, g),
         NEW d \in 1 .. Len(h), NEW p \in Seq(Keys), p # <<>>, Get(h, d, p) # NoValue
  PROVE  Get(g, d, p) = Get(h, d, p)
  <1>1. PICK q, k, e : q = Front(p) /\ k = Last(p) /\ e = DictAt(h, d, q)
    OBVIOUS
  <1>2. q \in Seq(Keys) /\ k \in Keys
    BY <1>1, PathParts
  <1>3. e # Absent /\ k \in DOMAIN h[e].data /\ Get(h, d, p) = h[e].data[k]
    BY <1>1 DEF Get, HasItem
  <1>4. DictAt(g, d, q) = e
    BY <1>1, <1>2, <1>3, GrowsWalk
  <1>5. e \in 1 .. Len(h)
    <2>1. Len(h) \in Nat /\ d \in 0 .. Len(h)
      BY TreeFacts
    <2>2. e \in 0 .. Len(h)
      BY <1>1, <1>2, <2>1, WalkIs
    <2> QED BY <1>3, <2>1, <2>2 DEF Absent
  <1>6. k \in DOMAIN g[e].data /\ g[e].data[k] = h[e].data[k]
    BY <1>3, <1>5 DEF DataKept
  <1> QED BY <1>1, <1>3, <1>4, <1>6 DEF Get, HasItem

\* The parts of a path behind another one.
LEMMA PathsJoined ==
  ASSUME NEW p \in Seq(Keys), NEW q \in Seq(Keys), q # <<>>
  PROVE  /\ p \o q \in Seq(Keys) /\ p \o q # <<>>
         /\ Front(p \o q) = p \o Front(q) /\ Last(p \o q) = Last(q)
  <1>1. PICK r, m, n : r = p \o q /\ m = Len(p) /\ n = Len(q)
    OBVIOUS
  <1>2. /\ r \in Seq(Keys) /\ Len(r) = m + n /\ m \in Nat /\ n \in Nat \ {0}
        /\ \A i \in 1 .. m : r[i] = p[i]
        /\ \A i \in 1 .. n : r[m + i] = q[i]
    BY <1>1
  <1>3. r # <<>>
    BY <1>2
  <1>4. PICK a, b, c : a = Front(r) /\ b = Front(q) /\ c = p \o b
    OBVIOUS
  <1>5. /\ a \in Seq(Keys) /\ Len(a) = m + n - 1 /\ Last(r) = r[m + n]
        /\ \A i \in 1 .. (m + n) - 1 : a[i] = r[i]
    <2>1. /\ a \in Seq(Keys) /\ Len(a) = Len(r) - 1 /\ Last(r) = r[Len(r)]
          /\ \A i \in 1 .. Len(r) - 1 : a[i] = r[i]
      BY <1>2, <1>3, <1>4, PathParts
    <2>2. Len(r) - 1 = (m + n) - 1 /\ Len(r) = m + n /\ (m + n) - 1 = m + n - 1
      BY <1>2
    <2> QED BY <2>1, <2>2
  <1>6. b \in Seq(Keys) /\ Len(b) = n - 1 /\ Last(q) = q[n] /\ \A i \in 1 .. n - 1 : b[i] = q[i]
    BY <1>1, <1>4, <1>2, PathParts
  <1>7. /\ c \in Seq(Keys) /\ Len(c) = m + (n - 1)
        /\ \A i \in 1 .. m : c[i] = p[i]
        /\ \A i \in 1 .. n - 1 : c[m + i] = b[i]
    BY <1>1, <1>4, <1>6
  <1>8. Last(r) = Last(q)
    <2>1. n \in 1 .. n
      BY <1>2
    <2> QED BY <1>2, <1>5, <1>6, <2>1
  <1>9. a = c
    <2>1. Len(a) = Len(c) /\ Len(a) \in Nat
      BY <1>2, <1>5, <1>7
    <2>2. ASSUME NEW i \in 1 .. Len(a) PROVE a[i] = c[i]
      <3>1. i \in 1 .. (m + n) - 1
        BY <1>2, <1>5
      <3>2. CASE i <= m
        <4>1. i \in 1 .. m
          BY <1>2, <3>1, <3>2
        <4> QED BY <4>1, <3>1, <1>2, <1>5, <1>7
      <3>3. CASE ~(i <= m)
        <4>1. PICK j : j = i - m
          OBVIOUS
        <4>2. j \in 1 .. n - 1 /\ j \in 1 .. n /\ i = m + j
          BY <1>2, <3>1, <3>3, <4>1
        <4> QED BY <4>2, <3>1, <1>2, <1>5, <1>6, <1>7
      <3> QED BY <3>2, <3>3
    <2> QED BY <1>5, <1>7, <2>1, <2>2
  <1> QED BY <1>1, <1>2, <1>3, <1>4, <1>8, <1>9

\* What is found is a value, or none.
LEMMA GetType ==
  ASSUME NEW h, TreeHeap(h), NEW d \in 1 .. Len(h), NEW p \in Seq(Keys), p # <<>>
  PROVE  Get(h, d, p) \in Values \cup {NoValue}
  <1>1. PICK q, k, e : q = Front(p) /\ k = Last(p) /\ e = DictAt(h, d, q)
    OBVIOUS
  <1>2. CASE e # Absent /\ k \in DOMAIN h[e].data
    <2>1. q \in Seq(Keys) /\ Len(h) \in Nat /\ d \in 0 .. Len(h)
      BY <1>1, PathParts, TreeFacts
    <2>2. e \in 0 .. Len(h)
      BY <1>1, <2>1, WalkIs
    <2>3. e \in 1 .. Len(h)
      BY <1>2, <2>1, <2>2 DEF Absent
    <2>4. h[e] \in Dicts
      BY <2>3, TreeFacts
    <2>5. PICK D : h[e].data \in [D -> Values \cup {NoValue}]
      BY <2>4 DEF Dicts
    <2>6. h[e].data[k] \in Values \cup {NoValue}
      BY <1>2, <2>5
    <2> QED BY <1>1, <1>2, <2>6 DEF Get, HasItem
  <1>3. CASE ~(e # Absent /\ k \in DOMAIN h[e].data)
    BY <1>1, <1>3 DEF Get, HasItem
  <1> QED BY <1>2, <1>3

\* g is h after calls that store nothing over what there is.
Kept(h, g) == TreeHeap(g) /\ Grows(h, g) /\ DataKept(h, g)

\* It stays so.
LEMMA KeptOn ==
  ASSUME NEW h, NEW g, NEW f, TreeHeap(h), Kept(h, g), Kept(g, f)
  PROVE  Kept(h, f)
  <1>1. Len(h) <= Len(g)
    BY DEF Kept, Grows
  <1> QED BY <1>1, GrowsOn, DataKeptOn DEF Kept

\* A round of merge keeps what there is, and afterwards there is a value if one was merged in.
LEMMA PutIs ==
  ASSUME NEW h, TreeHeap(h), NEW d \in 1 .. Len(h), NEW p \in Seq(Keys), p # <<>>,
         NEW v \in Values \cup {NoValue}
  PROVE  /\ Kept(h, Put(h, d, p, v))
         /\ v # NoValue => Get(Put(h, d, p, v), d, p) # NoValue
  <1>1. CASE Get(h, d, p) # NoValue
    <2>1. Put(h, d, p, v) = h
      BY <1>1 DEF Put
    <2>2. DataKept(h, h)
      BY DEF DataKept
    <2> QED BY <1>1, <2>1, <2>2, GrowsSelf DEF Kept
  <1>2. CASE Get(h, d, p) = NoValue
    <2>1. PICK g : g = Put(h, d, p, v)
      OBVIOUS
    <2>2. g = SetItem(h, d, p, v)
      BY <1>2, <2>1 DEF Put
    <2>3. ItemSet(h, g, d, p, v)
      BY <2>2, SetItemIs
    <2>4. PICK e \in 1 .. Len(g) :
            /\ TreeHeap(g) /\ Grows(h, g)
            /\ DictAt(g, d, Front(p)) = e /\ Last(p) \in DOMAIN g[e].data /\ g[e].data[Last(p)] = v
            /\ \A x \in 1 .. Len(h) : x # e => g[x].data = h[x].data
            /\ \A k \in DOMAIN h[e].data : e \in 1 .. Len(h) /\ k # Last(p) =>
                 k \in DOMAIN g[e].data /\ g[e].data[k] = h[e].data[k]
      BY <2>3 DEF ItemSet
    <2>5. Len(g) \in Nat /\ Len(h) \in Nat
      BY <2>4, TreeFacts
    <2>6. Get(g, d, p) = v
      <3>1. e # Absent
        BY <2>4, <2>5 DEF Absent
      <3> QED BY <2>4, <3>1 DEF Get, HasItem
    <2>7. ASSUME NEW x \in 1 .. Len(h), NEW k \in DOMAIN h[x].data, h[x].data[k] # NoValue
          PROVE  k \in DOMAIN g[x].data /\ g[x].data[k] = h[x].data[k]
      <3>1. CASE x # e
        BY <2>4, <3>1
      <3>2. CASE x = e /\ k # Last(p)
        BY <2>4, <2>7, <3>2
      <3>3. CASE x = e /\ k = Last(p)
        <4>1. PICK y : y = DictAt(h, d, Front(p))
          OBVIOUS
        <4>2. Front(p) \in Seq(Keys)
          BY PathParts
        <4>3. CASE y = Absent
          <5>1. e = Absent \/ e > Len(h)
            BY <2>4, <4>1, <4>2, <4>3, GrowsWalk
          <5> QED BY <3>3, <5>1, <2>5 DEF Absent
        <4>4. CASE y # Absent
          <5>1. y = e
            BY <2>4, <4>1, <4>2, <4>4, GrowsWalk
          <5>2. Get(h, d, p) = h[x].data[k]
            BY <3>3, <4>1, <4>4, <5>1 DEF Get, HasItem
          <5> QED BY <1>2, <2>7, <5>2
        <4> QED BY <4>3, <4>4
      <3> QED BY <3>1, <3>2, <3>3
    <2>8. Kept(h, g)
      BY <2>4, <2>7 DEF Kept, DataKept
    <2> QED BY <2>1, <2>6, <2>8
  <1> QED BY <1>1, <1>2

\* There are finitely many paths.
LEMMA PathsFinite == IsFiniteSet(Paths)
  <1> DEFINE S == {n \in 0 .. MaxDepth : IsFiniteSet([1 .. n -> Keys])}
  <1>1. IsFiniteSet(Keys) /\ MaxDepth \in Nat
    BY KeysAssumption
  <1>2. 0 \in S
    <2> DEFINE e == [i \in {} |-> {}]
    <2>1. [1 .. 0 -> Keys] = {e}
      <3>1. 1 .. 0 = {}
        OBVIOUS
      <3>2. \A f \in [{} -> Keys] : f = e
        OBVIOUS
      <3>3. e \in [{} -> Keys]
        OBVIOUS
      <3> QED BY <3>1, <3>2, <3>3
    <2>2. IsFiniteSet({e})
      BY FS_Singleton
    <2> QED BY <1>1, <2>1, <2>2
  <1>3. ASSUME NEW n \in 0 .. MaxDepth - 1, n \in S PROVE n + 1 \in S
    <2> DEFINE T == [1 .. n -> Keys] \X Keys
               U == [1 .. n + 1 -> Keys]
               f == [x \in T |-> [i \in 1 .. n + 1 |-> IF i = n + 1 THEN x[2] ELSE x[1][i]]]
    <2>1. IsFiniteSet(T)
      BY <1>1, <1>3, FS_Product
    <2>2. n \in Nat /\ n + 1 \in 0 .. MaxDepth
      BY <1>1, <1>3
    <2>3. f \in [T -> U]
      <3> SUFFICES ASSUME NEW x \in T, NEW i \in 1 .. n + 1
                   PROVE  (IF i = n + 1 THEN x[2] ELSE x[1][i]) \in Keys
        OBVIOUS
      <3>1. i # n + 1 => i \in 1 .. n
        BY <2>2
      <3> QED BY <3>1
    <2>4. ASSUME NEW u \in U PROVE \E x \in T : f[x] = u
      <3> DEFINE a == [i \in 1 .. n |-> u[i]]
                 x == <<a, u[n + 1]>>
      <3>1. \A i \in 1 .. n : i \in 1 .. n + 1
        BY <2>2
      <3>2. a \in [1 .. n -> Keys] /\ u[n + 1] \in Keys
        BY <2>2, <3>1
      <3>3. x \in T
        BY <3>2
      <3>4. \A i \in 1 .. n + 1 : f[x][i] = u[i]
        <4> SUFFICES ASSUME NEW i \in 1 .. n + 1 PROVE f[x][i] = u[i]
          OBVIOUS
        <4>1. x[1] = a /\ x[2] = u[n + 1]
          OBVIOUS
        <4>2. i # n + 1 => i \in 1 .. n
          BY <2>2
        <4>3. f[x][i] = IF i = n + 1 THEN x[2] ELSE x[1][i]
          BY <3>3
        <4> HIDE DEF f, x
        <4> QED BY <4>1, <4>2, <4>3
      <3>5. f[x] \in U
        BY <2>3, <3>3
      <3> HIDE DEF f, x
      <3>6. f[x] = u
        BY <3>4, <3>5
      <3> QED BY <3>3, <3>6
    <2>5. f \in Surjection(T, U)
      <3> HIDE DEF f, T, U
      <3> QED BY <2>3, <2>4 DEF Surjection
    <2>6. IsFiniteSet(U)
      <3> HIDE DEF f, T, U
      <3> QED BY <2>1, <2>5, FS_Surjection
    <2> QED BY <2>2, <2>6
  <1>4. 0 .. MaxDepth \subseteq S
    <2> HIDE DEF S
    <2> QED BY <1>1, <1>2, <1>3, UpTo
  <1> DEFINE R == {[1 .. n -> Keys] : n \in 1 .. MaxDepth}
  <1>5. IsFiniteSet(R)
    <2> DEFINE f == [n \in 1 .. MaxDepth |-> [1 .. n -> Keys]]
    <2>1. f \in Surjection(1 .. MaxDepth, R)
      BY DEF Surjection
    <2>2. IsFiniteSet(1 .. MaxDepth)
      BY <1>1, FS_Interval
    <2> HIDE DEF f, R
    <2> QED BY <2>1, <2>2, FS_Surjection
  <1>6. \A T \in R : IsFiniteSet(T)
    <2>1. \A n \in 1 .. MaxDepth : n \in 0 .. MaxDepth
      BY <1>1
    <2> QED BY <1>4, <2>1
  <1>7. IsFiniteSet(UNION R)
    <2> HIDE DEF R
    <2> QED BY <1>5, <1>6, FS_UNION
  <1> QED BY <1>7 DEF Paths

\* A finite set, written down as a sequence.
LEMMA SetWritten ==
  ASSUME NEW S, IsFiniteSet(S)
  PROVE  /\ Cardinality(S) \in Nat /\ SetToSeq(S) \in [1 .. Cardinality(S) -> S]
         /\ \A x \in S : \E i \in 1 .. Cardinality(S) : SetToSeq(S)[i] = x
  <1>1. PICK n : n = Cardinality(S)
    OBVIOUS
  <1>2. n \in Nat /\ ExistsBijection(1 .. n, S)
    BY <1>1, FS_CardinalityType
  <1>3. PICK f : f \in Bijection(1 .. n, S)
    BY <1>2 DEF ExistsBijection
  <1>4. f \in [1 .. n -> S] /\ IsInjective(f)
    BY <1>3 DEF Bijection, Injection
  <1>5. PICK g : g = SetToSeq(S)
    OBVIOUS
  <1>6. g \in [1 .. n -> S] /\ IsInjective(g)
    BY <1>1, <1>4, <1>5 DEF SetToSeq
  <1>7. g \in Injection(1 .. n, S)
    BY <1>6 DEF Injection, IsInjective
  <1>8. Cardinality(1 .. n) = Cardinality(S) /\ IsFiniteSet(1 .. n)
    BY <1>1, <1>2, FS_Interval
  <1>9. g \in Surjection(1 .. n, S)
    BY <1>7, <1>8, FS_Injection
  <1> QED BY <1>1, <1>2, <1>5, <1>6, <1>9 DEF Surjection

\* merge keeps what there is, and afterwards every item that has a value in what is merged in
\* has one under the path.
LEMMA MergeIs ==
  ASSUME NEW h, TreeHeap(h), NEW d \in 1 .. Len(h), NEW p \in Seq(Keys), NEW e \in 1 .. Len(h)
  PROVE  /\ Kept(h, Merge(h, d, p, e))
         /\ \A q \in Paths : Get(h, e, q) # NoValue => Get(Merge(h, d, p, e), d, p \o q) # NoValue
  <1>1. PICK T : T = ItemsOf(h, e)
    OBVIOUS
  <1>2. T \subseteq Paths /\ \A q \in Paths : Get(h, e, q) # NoValue => q \in T
    BY <1>1 DEF ItemsOf, Get
  <1>3. IsFiniteSet(T)
    BY <1>2, PathsFinite, FS_Subset
  <1>4. PICK n, items : n = Cardinality(T) /\ items = SetToSeq(T)
    OBVIOUS
  <1>5. /\ n \in Nat /\ items \in [1 .. n -> T] /\ Len(items) = n
        /\ \A q \in T : \E i \in 1 .. n : items[i] = q
    <2>1. /\ n \in Nat /\ items \in [1 .. n -> T]
          /\ \A q \in T : \E i \in 1 .. n : items[i] = q
      BY <1>3, <1>4, SetWritten
    <2>2. Len(items) = n
      BY <2>1
    <2> QED BY <2>1, <2>2
  <1>6. ASSUME NEW q \in Paths
        PROVE  q \in Seq(Keys) /\ q # <<>> /\ p \o q \in Seq(Keys) /\ p \o q # <<>>
    <2>1. PICK m \in 1 .. MaxDepth : q \in [1 .. m -> Keys]
      BY DEF Paths
    <2>2. m \in Nat \ {0}
      BY KeysAssumption
    <2>3. q \in Seq(Keys) /\ q # <<>>
      BY <2>1, <2>2
    <2> QED BY <2>3, PathsJoined
  <1>7. Len(h) \in Nat \ {0} /\ h \in Seq(Dicts)
    BY TreeFacts
  <1> DEFINE V == {x \in Seq(Dicts) : Kept(h, x)}
             Round(x, i) == Put(x, d, p \o items[i], Get(x, e, items[i]))
             next == [i \in 1 .. n |-> [x \in V |-> Round(x, i)]]
             Def(f) == f = [i \in 0 .. Len(items) |->
                              IF i = 0 THEN h
                              ELSE Put(f[i - 1], d, p \o items[i], Get(f[i - 1], e, items[i]))]
             w == CHOOSE f : Def(f)
  <1>8. h \in V
    <2>1. Kept(h, h)
      BY GrowsSelf DEF Kept, DataKept
    <2> QED BY <1>7, <2>1
  <1>9. ASSUME NEW x \in V, NEW i \in 1 .. n
        PROVE  /\ Round(x, i) \in V /\ Kept(x, Round(x, i))
               /\ Get(x, e, items[i]) # NoValue => Get(Round(x, i), d, p \o items[i]) # NoValue
    <2>1. PICK q, v, y : q = items[i] /\ v = Get(x, e, q) /\ y = Round(x, i)
      OBVIOUS
    <2>2. q \in Paths
      BY <1>2, <1>5, <2>1
    <2>3. PICK r : r = p \o q
      OBVIOUS
    <2>4. q \in Seq(Keys) /\ q # <<>> /\ r \in Seq(Keys) /\ r # <<>>
      BY <1>6, <2>2, <2>3
    <2>5. TreeHeap(x) /\ Kept(h, x) /\ d \in 1 .. Len(x) /\ e \in 1 .. Len(x)
      <3>1. TreeHeap(x) /\ Kept(h, x) /\ Len(h) <= Len(x)
        BY DEF Kept, Grows
      <3>2. Len(x) \in Nat
        BY <3>1, TreeFacts
      <3> QED BY <3>1, <3>2, <1>7
    <2>6. v \in Values \cup {NoValue}
      BY <2>1, <2>4, <2>5, GetType
    <2>7. y = Put(x, d, r, v)
      BY <2>1, <2>3
    <2>8. Kept(x, y) /\ (v # NoValue => Get(y, d, r) # NoValue)
      BY <2>4, <2>5, <2>6, <2>7, PutIs
    <2>9. Kept(h, y)
      BY <2>5, <2>8, KeptOn
    <2>10. y \in V
      BY <2>9 DEF Kept, TreeHeap
    <2> QED BY <2>1, <2>3, <2>8, <2>10
  <1>10. next \in [1 .. n -> [V -> V]]
    <2> HIDE DEF V, Round
    <2> QED BY <1>9
  <1>11. PICK g \in [0 .. n -> V] : Unfolds(g, n, h, next)
    <2> HIDE DEF V, next
    <2> QED BY <1>5, <1>8, <1>10, Unfold
  <1>12. Def(g)
    <2> HIDE DEF V
    <2>1. \A i \in 0 .. n : i # 0 => i \in 1 .. n /\ i - 1 \in 0 .. n
      BY <1>5
    <2>2. \A i \in 0 .. n : i # 0 => next[i][g[i - 1]] = Round(g[i - 1], i)
      BY <1>11, <2>1
    <2> HIDE DEF next
    <2>3. \A i \in 0 .. n : g[i] = IF i = 0 THEN h ELSE Round(g[i - 1], i)
      BY <1>11, <2>1, <2>2 DEF Unfolds
    <2> QED BY <1>5, <1>11, <2>3
  <1>13. Def(w)
    <2> HIDE DEF Def
    <2> QED BY <1>12
  <1>14. Merge(h, d, p, e) = w[n]
    BY <1>1, <1>4 DEF Merge, Merging
  <1> HIDE DEF w
  <1>15. w[0] = h /\ \A i \in 1 .. n : w[i] = Round(w[i - 1], i)
    <2>1. 0 \in 0 .. n /\ \A i \in 1 .. n : i # 0 /\ i \in 0 .. n
      BY <1>5
    <2> QED BY <1>5, <1>13, <2>1
  <1> HIDE DEF Round, Def
  <1>16. \A i \in 0 .. n : w[i] \in V
    <2> HIDE DEF V
    <2>1. \A i \in 1 .. n : w[i - 1] \in V => w[i] \in V
      BY <1>9, <1>15
    <2> QED BY <1>5, <1>8, <1>15, <2>1, Throughout
  <1>17. Kept(h, w[n])
    BY <1>5, <1>16
  <1>18. ASSUME NEW q \in Paths, Get(h, e, q) # NoValue PROVE Get(w[n], d, p \o q) # NoValue
    <2>1. PICK j \in 1 .. n : items[j] = q
      BY <1>2, <1>5, <1>18
    <2>2. PICK r : r = p \o q
      OBVIOUS
    <2>3. q \in Seq(Keys) /\ q # <<>> /\ r \in Seq(Keys) /\ r # <<>>
      BY <1>6, <2>2
    <2>4. j \in Nat /\ j - 1 \in 0 .. n /\ j \in 0 .. n
      BY <1>5
    <2>5. w[j - 1] \in V /\ w[j] = Round(w[j - 1], j)
      BY <1>15, <1>16, <2>4
    <2>6. PICK x, y : x = w[j - 1] /\ y = w[j]
      OBVIOUS
    <2>7. Get(x, e, q) # NoValue
      <3>1. Kept(h, x)
        BY <2>5, <2>6
      <3>2. Get(x, e, q) = Get(h, e, q)
        BY <1>18, <2>3, <3>1, GetKept DEF Kept
      <3> QED BY <1>18, <3>2
    <2>8. Get(y, d, r) # NoValue
      BY <1>9, <2>1, <2>2, <2>5, <2>6, <2>7
    <2> DEFINE F == {i \in 0 .. n : i >= j => Get(w[i], d, r) # NoValue}
    <2>9. 0 \in F
      BY <1>5, <2>4
    <2>10. ASSUME NEW i \in 0 .. n - 1, i \in F PROVE i + 1 \in F
      <3>1. i + 1 \in 1 .. n /\ i + 1 \in 0 .. n /\ i \in 0 .. n /\ (i + 1) - 1 = i /\ i \in Nat
        BY <1>5
      <3>2. CASE i + 1 = j
        BY <2>6, <2>8, <3>1, <3>2
      <3>3. CASE i + 1 > j
        <4>1. Get(w[i], d, r) # NoValue
          BY <2>4, <2>10, <3>1, <3>3
        <4>2. PICK a, b : a = w[i] /\ b = w[i + 1]
          OBVIOUS
        <4>3. a \in V /\ b = Round(a, i + 1)
          BY <1>15, <1>16, <3>1, <4>2
        <4>4. Kept(a, b) /\ Kept(h, a)
          BY <1>9, <3>1, <4>3
        <4>5. d \in 1 .. Len(a) /\ TreeHeap(a)
          <5>1. Len(h) <= Len(a) /\ TreeHeap(a)
            BY <4>4 DEF Kept, Grows
          <5>2. Len(a) \in Nat
            BY <5>1, TreeFacts
          <5> QED BY <1>7, <5>1, <5>2
        <4>6. Get(b, d, r) = Get(a, d, r)
          BY <2>3, <4>1, <4>2, <4>4, <4>5, GetKept DEF Kept
        <4> QED BY <3>1, <4>1, <4>2, <4>6
      <3>4. CASE i + 1 < j
        BY <2>4, <3>1, <3>4
      <3> QED BY <2>4, <3>1, <3>2, <3>3, <3>4
    <2>11. 0 .. n \subseteq F
      <3> HIDE DEF F
      <3> QED BY <1>5, <2>9, <2>10, UpTo
    <2>12. n \in 0 .. n /\ n >= j
      BY <1>5
    <2> QED BY <2>2, <2>11, <2>12
  <1> QED BY <1>14, <1>17, <1>18

-----------------------------------------------------------------------------
(* branch and splice *)

\* branch(path) gives the dictionary under the path if there is one; else one is made there,
\* and one that is stored nowhere is given.
LEMMA BranchIs ==
  ASSUME NEW h, TreeHeap(h), NEW d \in 1 .. Len(h), NEW p \in Seq(Keys), NEW b, b = Branch(h, d, p)
  PROVE  /\ Kept(h, b.heap) /\ b.dict \in 1 .. Len(b.heap)
         /\ DictAt(h, d, p) # Absent => b.heap = h /\ b.dict = DictAt(h, d, p)
         /\ DictAt(h, d, p) = Absent => Loose(b.heap, b.dict) /\ b.dict > Len(h)
  <1>1. Len(h) \in Nat \ {0} /\ d \in 0 .. Len(h)
    BY TreeFacts
  <1>2. PICK e : e = DictAt(h, d, p)
    OBVIOUS
  <1>3. e \in 0 .. Len(h)
    BY <1>1, <1>2, WalkIs
  <1>4. CASE e # Absent
    <2>1. b = [heap |-> h, dict |-> e]
      BY <1>2, <1>4 DEF Branch
    <2>2. Kept(h, h)
      BY GrowsSelf DEF Kept, DataKept
    <2>3. e \in 1 .. Len(h)
      BY <1>1, <1>3, <1>4 DEF Absent
    <2> QED BY <1>2, <1>4, <2>1, <2>2, <2>3
  <1>5. CASE e = Absent
    <2>1. PICK at, f, g : at = Reach(h, d, p) /\ f = at.heap /\ g = Append(f, EmptyDict)
      OBVIOUS
    <2>2. b = [heap |-> g, dict |-> Len(f) + 1]
      BY <1>2, <1>5, <2>1 DEF Branch
    <2>3. Descended(h, d, p, Len(p), at)
      BY <2>1, DescentIs
    <2>4. TreeHeap(f) /\ Grows(h, f) /\ SameData(h, f)
      BY <2>1, <2>3 DEF Descended, Places
    <2>5. AddedTo(f, g, EmptyDict)
      BY <2>1, <2>4, EmptyIsDict, AddedTree
    <2>6. /\ TreeHeap(g) /\ Len(g) = Len(f) + 1 /\ Grows(f, g) /\ SameData(f, g) /\ Loose(g, Len(g))
      BY <2>5 DEF AddedTo
    <2>7. Grows(h, g) /\ Len(h) <= Len(f) /\ Len(f) \in Nat
      BY <2>4, <2>6, GrowsOn, TreeFacts DEF Grows
    <2>8. DataKept(h, g)
      <3>1. \A x \in 1 .. Len(h) : x \in 1 .. Len(f)
        BY <1>1, <2>7
      <3>2. \A x \in 1 .. Len(h) : g[x].data = h[x].data
        BY <2>4, <2>6, <3>1 DEF SameData
      <3> QED BY <3>2 DEF DataKept
    <2>9. Len(g) \in 1 .. Len(g) /\ Len(g) > Len(h)
      BY <1>1, <2>6, <2>7
    <2> QED BY <1>2, <1>5, <2>2, <2>6, <2>7, <2>8, <2>9 DEF Kept
  <1> QED BY <1>4, <1>5

\* A dictionary is found under one path only.
LEMMA OnePath ==
  ASSUME NEW h, TreeHeap(h), NEW p \in Seq(Keys), NEW q \in Seq(Keys),
         NEW i \in 0 .. Len(p), NEW j \in 0 .. Len(q),
         Walk(h, Root, p)[i] = Walk(h, Root, q)[j], Walk(h, Root, p)[i] # Absent
  PROVE  i = j /\ \A x \in 1 .. i : p[x] = q[x]
  <1>1. PICK w, v, m, n : w = Walk(h, Root, p) /\ v = Walk(h, Root, q) /\ m = Len(p) /\ n = Len(q)
    OBVIOUS
  <1>2. m \in Nat /\ n \in Nat /\ Len(h) \in Nat \ {0} /\ Root \in 0 .. Len(h)
    BY <1>1, TreeFacts DEF Root
  <1>3. IsWalk(w, h, Root, p) /\ IsWalk(v, h, Root, q)
    BY <1>1, <1>2, WalkIs
  <1>4. /\ w \in [0 .. m -> 0 .. Len(h)] /\ w[0] = Root
        /\ \A x \in 1 .. m : w[x] = SubDict(h, w[x - 1], p[x])
        /\ v \in [0 .. n -> 0 .. Len(h)] /\ v[0] = Root
        /\ \A x \in 1 .. n : v[x] = SubDict(h, v[x - 1], q[x])
    BY <1>1, <1>3 DEF IsWalk
  <1> DEFINE Once(a) == \A b \in 0 .. n : w[a] = v[b] /\ w[a] # Absent =>
                          a = b /\ \A x \in 1 .. a : p[x] = q[x]
             S == {a \in 0 .. m : Once(a)}
  <1>5. 0 \in S
    <2> SUFFICES ASSUME NEW b \in 0 .. n, b # 0, v[b] = Root PROVE FALSE
      BY <1>2, <1>4
    <2>1. b \in 1 .. n /\ b - 1 \in 0 .. n
      BY <1>2
    <2>2. v[b] = SubDict(h, v[b - 1], q[b]) /\ v[b - 1] \in 0 .. Len(h)
      BY <1>4, <2>1
    <2> QED BY <2>2, SubDictType
  <1>6. ASSUME NEW a \in 0 .. m - 1, a \in S PROVE a + 1 \in S
    <2>1. a + 1 \in 1 .. m /\ a + 1 \in 0 .. m /\ (a + 1) - 1 = a /\ a \in 0 .. m /\ a \in Nat
      BY <1>2
    <2>2. Once(a)
      BY <1>6
    <2>3. ASSUME NEW b \in 0 .. n, w[a + 1] = v[b], w[a + 1] # Absent
          PROVE  a + 1 = b /\ \A x \in 1 .. a + 1 : p[x] = q[x]
      <3>1. PICK k, e : k = p[a + 1] /\ e = w[a]
        OBVIOUS
      <3>2. w[a + 1] = SubDict(h, e, k) /\ e \in 0 .. Len(h)
        BY <1>4, <2>1, <3>1
      <3>3. e # Absent /\ k \in DOMAIN h[e].sub /\ w[a + 1] = h[e].sub[k]
        BY <2>3, <3>2 DEF SubDict
      <3>4. b # 0
        <4>1. SubDict(h, e, k) # Root
          BY <3>2, SubDictType
        <4> QED BY <1>4, <2>3, <3>2, <4>1
      <3>5. b \in 1 .. n /\ b - 1 \in 0 .. n /\ b \in Nat
        BY <1>2, <3>4
      <3>6. PICK l, f : l = q[b] /\ f = v[b - 1]
        OBVIOUS
      <3>7. v[b] = SubDict(h, f, l) /\ f \in 0 .. Len(h)
        BY <1>4, <3>5, <3>6
      <3>8. f # Absent /\ l \in DOMAIN h[f].sub /\ v[b] = h[f].sub[l]
        BY <2>3, <3>7 DEF SubDict
      <3>9. e \in DOMAIN h /\ f \in DOMAIN h
        <4>1. e \in 1 .. Len(h) /\ f \in 1 .. Len(h)
          BY <1>2, <3>2, <3>3, <3>7, <3>8 DEF Absent
        <4> QED BY <4>1, TreeFacts
      <3>10. h[e].sub[k] = h[f].sub[l]
        BY <2>3, <3>3, <3>8
      <3>11. e = f /\ k = l
        BY <3>3, <3>8, <3>9, <3>10, StoredOnce
      <3>12. a = b - 1 /\ \A x \in 1 .. a : p[x] = q[x]
        BY <2>2, <3>1, <3>3, <3>5, <3>6, <3>11
      <3>13. a + 1 = b
        BY <2>1, <3>5, <3>12
      <3>14. \A x \in 1 .. a + 1 : x \in 1 .. a \/ x = a + 1
        BY <2>1
      <3> QED BY <3>1, <3>6, <3>11, <3>12, <3>13, <3>14
    <2> QED BY <2>1, <2>3
  <1>7. 0 .. m \subseteq S
    <2> HIDE DEF S
    <2> QED BY <1>2, <1>5, <1>6, UpTo
  <1>8. Once(i)
    BY <1>1, <1>7
  <1> QED BY <1>1, <1>8

\* What a walk from the root comes to is stored somewhere, or the root.
LEMMA NotLoose ==
  ASSUME NEW h, TreeHeap(h), NEW p \in Seq(Keys), NEW e, Loose(h, e), e # Absent, e # Root
  PROVE  DictAt(h, Root, p) # e
  <1>1. PICK w, n : w = Walk(h, Root, p) /\ n = Len(p)
    OBVIOUS
  <1>2. Len(h) \in Nat \ {0} /\ Root \in 0 .. Len(h) /\ n \in Nat
    BY <1>1, TreeFacts DEF Root
  <1>3. IsWalk(w, h, Root, p) /\ DictAt(h, Root, p) = w[n]
    BY <1>1, <1>2, WalkIs
  <1>4. CASE n = 0
    BY <1>3, <1>4 DEF IsWalk
  <1>5. CASE n # 0
    <2>1. n \in 1 .. n /\ n - 1 \in 0 .. n
      BY <1>2, <1>5
    <2>2. PICK d, k : d = w[n - 1] /\ k = p[n]
      OBVIOUS
    <2>3. w[n] = SubDict(h, d, k) /\ d \in 0 .. Len(h)
      BY <1>1, <1>3, <2>1, <2>2 DEF IsWalk
    <2>4. CASE d # Absent /\ k \in DOMAIN h[d].sub
      <3>1. d \in 1 .. Len(h)
        BY <1>2, <2>3, <2>4 DEF Absent
      <3>2. h[d].sub[k] # e
        BY <2>4, <3>1 DEF Loose
      <3> QED BY <1>3, <2>3, <2>4, <3>2 DEF SubDict
    <2>5. CASE ~(d # Absent /\ k \in DOMAIN h[d].sub)
      BY <1>3, <2>3, <2>5 DEF SubDict
    <2> QED BY <2>4, <2>5
  <1> QED BY <1>4, <1>5

\* What a prefix is.
LEMMA PrefixIs ==
  ASSUME NEW p \in Seq(Keys), NEW q \in Seq(Keys)
  PROVE  /\ IsPrefix(p, q) <=> Len(p) <= Len(q) /\ \A i \in 1 .. Len(p) : p[i] = q[i]
         /\ IsPrefix(p, q) => \E r \in Seq(Keys) : q = p \o r
  <1>1. PICK m, n : m = Len(p) /\ n = Len(q)
    OBVIOUS
  <1>2. m \in Nat /\ n \in Nat
    BY <1>1
  <1>3. CASE m <= n
    <2>1. PICK a, b : a = SubSeq(p, 1, m) /\ b = SubSeq(q, 1, m)
      OBVIOUS
    <2>2. a \in Seq(Keys) /\ Len(a) = m /\ \A i \in 1 .. m : a[i] = p[i]
      BY <1>1, <1>2, <2>1
    <2>3. b \in Seq(Keys) /\ Len(b) = m /\ \A i \in 1 .. m : b[i] = q[i]
      BY <1>1, <1>2, <1>3, <2>1
    <2>4. (\A i \in 1 .. m : p[i] = q[i]) => a = b
      <3> SUFFICES ASSUME \A i \in 1 .. m : p[i] = q[i] PROVE a = b
        OBVIOUS
      <3>1. \A i \in 1 .. Len(a) : a[i] = b[i]
        BY <2>2, <2>3
      <3> QED BY <2>2, <2>3, <3>1
    <2>5. a = b => \A i \in 1 .. m : p[i] = q[i]
      BY <2>2, <2>3
    <2>6. IsPrefix(p, q) <=> a = b
      BY <1>1, <1>3, <2>1 DEF IsPrefix
    <2>7. ASSUME \A i \in 1 .. m : p[i] = q[i] PROVE \E r \in Seq(Keys) : q = p \o r
      <3>1. PICK r : r = SubSeq(q, m + 1, n)
        OBVIOUS
      <3>2. r \in Seq(Keys) /\ Len(r) = n - m /\ \A i \in 1 .. n - m : r[i] = q[m + i]
        <4>1. \A i \in (m + 1) .. n : q[i] \in Keys
          BY <1>1, <1>2
        <4>2. r \in Seq(Keys)
          BY <1>1, <1>2, <1>3, <3>1
        <4>3. Len(r) = n - m
          BY <1>1, <1>2, <1>3, <3>1
        <4>4. ASSUME NEW i \in 1 .. n - m PROVE r[i] = q[m + i]
          BY <1>1, <1>2, <1>3, <3>1, <4>3
        <4> QED BY <4>2, <4>3, <4>4
      <3>3. PICK t : t = p \o r
        OBVIOUS
      <3>4. /\ t \in Seq(Keys) /\ Len(t) = m + (n - m)
            /\ \A i \in 1 .. m : t[i] = p[i]
            /\ \A i \in 1 .. n - m : t[m + i] = r[i]
        BY <1>1, <3>2, <3>3
      <3>5. Len(t) = n
        BY <1>2, <3>4
      <3>6. ASSUME NEW i \in 1 .. n PROVE t[i] = q[i]
        <4>1. CASE i <= m
          <5>1. i \in 1 .. m
            BY <1>2, <4>1
          <5> QED BY <5>1, <3>4, <2>7
        <4>2. CASE ~(i <= m)
          <5>1. PICK j : j = i - m
            OBVIOUS
          <5>2. j \in 1 .. n - m /\ i = m + j
            BY <1>2, <4>2, <5>1
          <5> QED BY <5>2, <3>2, <3>4
        <4> QED BY <4>1, <4>2
      <3>7. t = q
        BY <1>1, <3>4, <3>5, <3>6
      <3> QED BY <3>2, <3>3, <3>7
    <2> QED BY <1>1, <1>3, <2>4, <2>5, <2>6, <2>7
  <1>4. CASE ~(m <= n)
    BY <1>1, <1>4 DEF IsPrefix
  <1> QED BY <1>3, <1>4

\* After splice, what was found under a path is still found there, unless the path leads through
\* what was replaced: then what is found is new, as is all that was not there before.
SplicedIn(h, g, p) ==
  /\ TreeHeap(g) /\ Len(h) < Len(g)
  /\ \A q \in Seq(Keys) :
       IF DictAt(h, Root, q) # Absent /\ ~IsPrefix(p, q)
       THEN DictAt(g, Root, q) = DictAt(h, Root, q)
       ELSE DictAt(g, Root, q) = Absent \/ DictAt(g, Root, q) > Len(h)

\* A link that is made to a dictionary that was stored nowhere: paths that do not lead through
\* it lead where they led, and those that do lead to the dictionary or to what is in it.
LEMMA LinkedWalk ==
  ASSUME NEW f, TreeHeap(f), NEW p \in Seq(Keys), p # <<>>, NEW d \in 1 .. Len(f),
         DictAt(f, Root, Front(p)) = d, NEW n \in 2 .. Len(f), NEW g, TreeHeap(g),
         LinksIn(f, g, d, Last(p), n)
  PROVE  \A q \in Seq(Keys) :
           /\ ~IsPrefix(p, q) => DictAt(g, Root, q) = DictAt(f, Root, q)
           /\ IsPrefix(p, q) => \E r \in Seq(Keys) : DictAt(g, Root, q) = DictAt(g, n, r)
  <1>1. PICK o, k, m : o = Front(p) /\ k = Last(p) /\ m = Len(p)
    OBVIOUS
  <1>2. /\ o \in Seq(Keys) /\ Len(o) = m - 1 /\ k \in Keys /\ m \in Nat \ {0} /\ k = p[m]
        /\ \A i \in 1 .. m - 1 : o[i] = p[i]
    BY <1>1, PathParts
  <1>3. Len(f) \in Nat \ {0} /\ Root \in 0 .. Len(f) /\ Len(g) = Len(f) /\ d # Absent
    BY TreeFacts DEF Root, LinksIn, Absent
  <1>4. ASSUME NEW q \in Seq(Keys), ~IsPrefix(p, q)
        PROVE  DictAt(g, Root, q) = DictAt(f, Root, q)
    <2>1. PICK v, l : v = Walk(f, Root, q) /\ l = Len(q)
      OBVIOUS
    <2>2. IsWalk(v, f, Root, q) /\ DictAt(f, Root, q) = v[l] /\ l \in Nat
      <3>1. IsWalk(Walk(f, Root, q), f, Root, q) /\ DictAt(f, Root, q) = Walk(f, Root, q)[Len(q)]
        BY <1>3, WalkIs
      <3> QED BY <2>1, <3>1
    <2>3. ASSUME NEW i \in 1 .. l PROVE v[i] = SubDict(g, v[i - 1], q[i])
      <3>1. PICK x, y : x = v[i - 1] /\ y = q[i]
        OBVIOUS
      <3>2. i - 1 \in 0 .. l /\ i \in 0 .. l
        BY <2>2
      <3>3. v[i] = SubDict(f, x, y) /\ x \in 0 .. Len(f)
        BY <2>1, <2>2, <3>1, <3>2 DEF IsWalk
      <3>4. CASE x = Absent
        BY <3>1, <3>3, <3>4 DEF SubDict
      <3>5. CASE x # Absent /\ x # d
        <4>1. x \in 1 .. Len(f)
          BY <1>3, <3>3, <3>5 DEF Absent
        <4>2. g[x].sub = f[x].sub
          BY <3>5, <4>1 DEF LinksIn
        <4> QED BY <3>1, <3>3, <4>2 DEF SubDict
      <3>6. CASE x = d /\ y # k
        <4>1. /\ DOMAIN g[d].sub = DOMAIN f[d].sub \cup {k}
              /\ \A j \in DOMAIN f[d].sub : j # k => g[d].sub[j] = f[d].sub[j]
          BY <1>1 DEF LinksIn
        <4> QED BY <3>1, <3>3, <3>6, <4>1 DEF SubDict
      <3>7. CASE x = d /\ y = k
        <4>1. Walk(f, Root, o)[m - 1] = d
          BY <1>1, <1>2 DEF DictAt
        <4>2. Walk(f, Root, q)[i - 1] = d
          BY <2>1, <3>1, <3>7
        <4>3. PICK a, b : a = i - 1 /\ b = m - 1
          OBVIOUS
        <4>4. a \in 0 .. Len(q) /\ b \in 0 .. Len(o)
          BY <1>2, <2>1, <3>2, <4>3
        <4>5. a = b /\ \A j \in 1 .. a : q[j] = o[j]
          <5>1. Walk(f, Root, q)[a] = Walk(f, Root, o)[b] /\ Walk(f, Root, q)[a] # Absent
            BY <1>3, <4>1, <4>2, <4>3
          <5>2. q \in Seq(Keys) /\ o \in Seq(Keys)
            BY <1>2
          <5> QED BY <4>4, <5>1, <5>2, OnePath
        <4>6. i = m
          BY <1>2, <2>2, <4>3, <4>5
        <4>7. m <= Len(q)
          BY <2>1, <2>2, <4>6
        <4>8. ASSUME NEW j \in 1 .. m PROVE p[j] = q[j]
          <5>1. CASE j = m
            BY <1>2, <3>1, <3>7, <4>6, <5>1
          <5>2. CASE j # m
            <6>1. j \in 1 .. m - 1 /\ j \in 1 .. a
              BY <1>2, <4>3, <4>5, <5>2
            <6> QED BY <1>2, <4>5, <6>1
          <5> QED BY <5>1, <5>2
        <4>9. IsPrefix(p, q)
          BY <1>1, <4>7, <4>8, PrefixIs
        <4> QED BY <1>4, <4>9
      <3> QED BY <3>4, <3>5, <3>6, <3>7
    <2>4. IsWalk(v, g, Root, q)
      BY <1>3, <2>1, <2>2, <2>3 DEF IsWalk
    <2> QED BY <1>3, <2>1, <2>2, <2>4, OneWalk
  <1>5. DictAt(g, Root, p) = n
    <2>1. ~IsPrefix(p, o)
      BY <1>1, <1>2, PrefixIs
    <2>2. DictAt(g, Root, o) = d
      BY <1>1, <1>2, <1>4, <2>1
    <2>3. PICK t : t = <<k>>
      OBVIOUS
    <2>4. t \in Seq(Keys) /\ Len(t) = 1 /\ t[1] = k
      BY <1>2, <2>3
    <2>5. p = o \o t
      <3>1. PICK c : c = o \o t
        OBVIOUS
      <3>2. /\ c \in Seq(Keys) /\ Len(c) = Len(o) + Len(t)
            /\ \A i \in 1 .. Len(o) : c[i] = o[i]
            /\ \A i \in 1 .. Len(t) : c[Len(o) + i] = t[i]
        <4>1. o \in Seq(Keys) /\ t \in Seq(Keys)
          BY <1>2, <2>4
        <4> QED BY <3>1, <4>1, ItemsOfBoth
      <3>3. Len(c) = m /\ c[m] = k
        <4>1. Len(o) + 1 = m /\ 1 \in 1 .. Len(t)
          BY <1>2, <2>4
        <4>2. c[Len(o) + 1] = t[1]
          BY <3>2, <4>1
        <4> QED BY <2>4, <3>2, <4>1, <4>2
      <3>4. ASSUME NEW i \in 1 .. m PROVE c[i] = p[i]
        <4>1. i = m \/ i \in 1 .. m - 1
          BY <1>2
        <4> QED BY <1>2, <3>2, <3>3, <4>1
      <3>5. c = p
        <4>1. Len(p) = m /\ Len(c) = Len(p)
          BY <1>1, <3>3
        <4> QED BY <3>2, <3>4, <4>1
      <3> QED BY <3>1, <3>5
    <2>6. DictAt(g, Root, p) = DictAt(g, d, t)
      BY <1>2, <1>3, <2>2, <2>4, <2>5, WalkOnward
    <2>7. PICK w : w = Walk(g, d, t)
      OBVIOUS
    <2>8. d \in 0 .. Len(g)
      BY <1>3
    <2>9. IsWalk(w, g, d, t) /\ DictAt(g, d, t) = w[1]
      BY <2>4, <2>7, <2>8, WalkIs
    <2>10. w[1] = SubDict(g, d, k)
      <3>1. w[0] = d /\ w[1] = SubDict(g, w[1 - 1], t[1]) /\ 1 - 1 = 0
        BY <2>4, <2>9 DEF IsWalk
      <3> QED BY <2>4, <3>1
    <2>11. SubDict(g, d, k) = n
      BY <1>1, <1>3 DEF SubDict, LinksIn
    <2> QED BY <2>6, <2>9, <2>10, <2>11
  <1>6. ASSUME NEW q \in Seq(Keys), IsPrefix(p, q)
        PROVE  \E r \in Seq(Keys) : DictAt(g, Root, q) = DictAt(g, n, r)
    <2>1. PICK r \in Seq(Keys) : q = p \o r
      BY <1>6, PrefixIs
    <2>2. DictAt(g, Root, q) = DictAt(g, n, r)
      BY <1>3, <1>5, <2>1, WalkOnward
    <2> QED BY <2>2
  <1> QED BY <1>4, <1>6

\* splice replaces what is under a path, and what is found through it.
LEMMA SpliceIs ==
  ASSUME NEW h, TreeHeap(h), NEW c, IsFlat(c), NEW p \in Seq(Keys), p # <<>>,
         NEW g, g = Splice(Append(h, c), Root, p, Len(h) + 1)
  PROVE  SplicedIn(h, g, p)
  <1>1. PICK o, k, n, e : o = Front(p) /\ k = Last(p) /\ n = Len(h) + 1 /\ e = Append(h, c)
    OBVIOUS
  <1>2. o \in Seq(Keys) /\ k \in Keys
    BY <1>1, PathParts
  <1>3. AddedTo(h, e, c)
    BY <1>1, AddedTree
  <1>4. /\ TreeHeap(e) /\ Len(e) = n /\ Grows(h, e) /\ Loose(e, n) /\ e[n] = c
        /\ n \in Nat \ {0} /\ n >= 2 /\ Len(h) \in Nat \ {0} /\ n > Len(h)
    <2>1. Len(h) \in Nat \ {0}
      BY TreeFacts
    <2> QED BY <1>1, <1>3, <2>1 DEF AddedTo
  <1>5. Root \in 1 .. Len(h) /\ Root \in 1 .. Len(e)
    BY <1>4 DEF Root
  <1>6. PICK at, f, d : at = Reach(e, Root, o) /\ f = at.heap /\ d = at.dict
    OBVIOUS
  <1>7. Descended(e, Root, o, Len(o), at)
    BY <1>2, <1>4, <1>5, <1>6, DescentIs
  <1>8. /\ TreeHeap(f) /\ d \in 1 .. Len(f) /\ Grows(e, f) /\ DictAt(f, Root, o) = d
    BY <1>6, <1>7 DEF Descended, Places, DictAt
  <1>9. Len(f) \in Nat /\ n <= Len(f) /\ n \in 2 .. Len(f)
    BY <1>4, <1>8, TreeFacts DEF Grows
  <1>10. Loose(f, n)
    <2> SUFFICES ASSUME NEW x \in 1 .. Len(f), NEW l \in DOMAIN f[x].sub, f[x].sub[l] = n PROVE FALSE
      BY DEF Loose
    <2>1. CASE x \in 1 .. Len(e)
      <3>1. CASE l \in DOMAIN e[x].sub
        BY <1>4, <1>8, <2>1, <3>1 DEF Loose, Grows
      <3>2. CASE l \notin DOMAIN e[x].sub
        BY <1>4, <1>8, <2>1, <3>2 DEF Grows
      <3> QED BY <3>1, <3>2
    <2>2. CASE x \notin 1 .. Len(e)
      <3>1. x \in Len(e) + 1 .. Len(f)
        BY <1>4, <1>9, <2>2
      <3> QED BY <1>4, <1>8, <3>1 DEF Grows
    <2> QED BY <2>1, <2>2
  <1>11. g = Linked(f, d, k, n)
    BY <1>1, <1>6 DEF Splice
  <1>12. LinksIn(f, g, d, k, n)
    <2>1. f \in Seq(Dicts)
      BY <1>8, TreeFacts
    <2>2. LinksIn(f, Linked(f, d, k, n), d, k, n)
      BY <1>2, <1>4, <1>8, <2>1, Linking
    <2> QED BY <1>11, <2>2
  <1>13. TreeHeap(g) /\ Len(g) = Len(f)
    <2>1. TreeHeap(g)
      BY <1>2, <1>8, <1>9, <1>10, <1>12, LinkedTree
    <2> QED BY <2>1, <1>12 DEF LinksIn
  \* What is in a new dictionary is new.
  <1>14. ASSUME NEW x \in n .. Len(g), NEW l \in DOMAIN g[x].sub PROVE g[x].sub[l] >= n
    <2>0. x \in 1 .. Len(f) /\ x \in Nat
      BY <1>4, <1>9, <1>13
    <2>1. ASSUME NEW j \in DOMAIN f[x].sub PROVE f[x].sub[j] > n
      <3>1. CASE x = n
        <4>1. DOMAIN e[n].sub = {} /\ n \in 1 .. Len(e)
          BY <1>4 DEF IsFlat
        <4> QED BY <1>4, <1>8, <2>1, <3>1, <4>1 DEF Grows
      <3>2. CASE x # n
        <4>1. x \in Len(e) + 1 .. Len(f)
          BY <1>4, <1>13, <2>0, <3>2
        <4> QED BY <1>4, <1>8, <2>1, <4>1 DEF Grows
      <3> QED BY <3>1, <3>2
    <2>2. f[x].sub[l] \in 2 .. Len(f) \/ l \notin DOMAIN f[x].sub
      BY <1>8, <2>0, TreeFacts
    <2>3. CASE x = d /\ l = k
      BY <1>4, <1>12, <2>3 DEF LinksIn
    <2>4. CASE ~(x = d /\ l = k)
      <3>1. l \in DOMAIN f[x].sub /\ g[x].sub[l] = f[x].sub[l]
        BY <1>12, <2>0, <2>4 DEF LinksIn
      <3> QED BY <1>4, <1>9, <2>1, <2>2, <3>1
    <2> QED BY <2>3, <2>4
  <1>15. ASSUME NEW r \in Seq(Keys) PROVE DictAt(g, n, r) \in {Absent} \cup n .. Len(g)
    <2>1. PICK w, l : w = Walk(g, n, r) /\ l = Len(r)
      OBVIOUS
    <2>2. n \in 0 .. Len(g) /\ Len(g) \in Nat
      BY <1>9, <1>13
    <2>3. IsWalk(w, g, n, r) /\ DictAt(g, n, r) = w[l] /\ l \in Nat
      <3>1. TreeHeap(g) /\ n \in 0 .. Len(g) /\ r \in Seq(Keys)
        BY <1>13, <1>15, <2>2
      <3>2. IsWalk(Walk(g, n, r), g, n, r) /\ DictAt(g, n, r) = Walk(g, n, r)[Len(r)]
        BY <3>1, WalkIs
      <3> QED BY <2>1, <3>2
    <2> DEFINE N == {Absent} \cup n .. Len(g)
    <2>4. w[0] \in N
      BY <1>4, <2>2, <2>3 DEF IsWalk
    <2>5. ASSUME NEW i \in 1 .. l, w[i - 1] \in N PROVE w[i] \in N
      <3>1. PICK x, y : x = w[i - 1] /\ y = r[i]
        OBVIOUS
      <3>2. w[i] = SubDict(g, x, y)
        BY <2>1, <2>3, <3>1 DEF IsWalk
      <3>3. CASE x # Absent /\ y \in DOMAIN g[x].sub
        <4>1. x \in n .. Len(g)
          BY <2>5, <3>1, <3>3
        <4>2. x \in 1 .. Len(g)
          BY <1>4, <2>2, <4>1
        <4>3. PICK z : z = g[x].sub[y]
          OBVIOUS
        <4>4. z >= n /\ z \in 2 .. Len(g)
          BY <1>13, <1>14, <3>3, <4>1, <4>2, <4>3, TreeFacts
        <4>5. z \in N
          BY <1>4, <2>2, <4>4
        <4> QED BY <3>2, <3>3, <4>3, <4>5 DEF SubDict
      <3>4. CASE ~(x # Absent /\ y \in DOMAIN g[x].sub)
        BY <3>2, <3>4 DEF SubDict
      <3> QED BY <3>3, <3>4
    <2>6. \A i \in 0 .. l : w[i] \in N
      <3> HIDE DEF N
      <3> QED BY <2>3, <2>4, <2>5, Throughout
    <2> QED BY <2>3, <2>6
  <1>16. Grows(h, f)
    BY <1>4, <1>8, GrowsOn
  <1>17. ASSUME NEW q \in Seq(Keys)
         PROVE  IF DictAt(h, Root, q) # Absent /\ ~IsPrefix(p, q)
                THEN DictAt(g, Root, q) = DictAt(h, Root, q)
                ELSE DictAt(g, Root, q) = Absent \/ DictAt(g, Root, q) > Len(h)
    <2>1. /\ ~IsPrefix(p, q) => DictAt(g, Root, q) = DictAt(f, Root, q)
          /\ IsPrefix(p, q) => \E r \in Seq(Keys) : DictAt(g, Root, q) = DictAt(g, n, r)
      BY <1>1, <1>8, <1>9, <1>12, <1>13, LinkedWalk
    <2>2. CASE IsPrefix(p, q)
      <3>1. PICK r \in Seq(Keys) : DictAt(g, Root, q) = DictAt(g, n, r)
        BY <2>1, <2>2
      <3>2. DictAt(g, Root, q) \in {Absent} \cup n .. Len(g)
        BY <1>15, <3>1
      <3>3. \A z \in n .. Len(g) : z > Len(h)
        BY <1>4, <1>9, <1>13
      <3> QED BY <2>2, <3>2, <3>3
    <2>3. CASE ~IsPrefix(p, q)
      <3>1. /\ DictAt(h, Root, q) # Absent => DictAt(f, Root, q) = DictAt(h, Root, q)
            /\ DictAt(h, Root, q) = Absent => DictAt(f, Root, q) = Absent \/ DictAt(f, Root, q) > Len(h)
        BY <1>5, <1>8, <1>16, GrowsWalk
      <3> QED BY <2>1, <2>3, <3>1
    <2> QED BY <2>2, <2>3
  <1>18. Len(h) < Len(g)
    BY <1>4, <1>9, <1>13
  <1> QED BY <1>13, <1>17, <1>18 DEF SplicedIn

-----------------------------------------------------------------------------
(* The invariant *)

\* The tree is one, every configurable's section is a dictionary, and is the one under its
\* path unless it is shadowed.
ConfigInv ==
  /\ TreeHeap(heap)
  /\ cached \in [Holders -> Nat] /\ \A o \in Holders : cached[o] \in 0 .. Len(heap)
  /\ LiveUnlessShadowed

\* A dictionary is, or is not, under a path as long as the heap only grows.
LEMMA StillThere ==
  ASSUME NEW h, TreeHeap(h), NEW g, TreeHeap(g), Grows(h, g), NEW p \in Seq(Keys),
         NEW e \in 1 .. Len(h)
  PROVE  e = DictAt(h, Root, p) <=> e = DictAt(g, Root, p)
  <1>1. Len(h) \in Nat \ {0} /\ Root \in 1 .. Len(h)
    BY TreeFacts DEF Root
  <1>2. /\ DictAt(h, Root, p) # Absent => DictAt(g, Root, p) = DictAt(h, Root, p)
        /\ DictAt(h, Root, p) = Absent => DictAt(g, Root, p) = Absent \/ DictAt(g, Root, p) > Len(h)
    BY <1>1, GrowsWalk
  <1> QED BY <1>1, <1>2 DEF Absent

\* What holds of the configurables goes on to hold if the heap only grows.
LEMMA GrowthKeeps ==
  ASSUME ConfigInv, TreeHeap(heap'), Grows(heap, heap'), UNCHANGED <<cached, shadowed>>
  PROVE  ConfigInv'
  <1>1. PICK h, g : h = heap /\ g = heap'
    OBVIOUS
  <1>2. TreeHeap(h) /\ TreeHeap(g) /\ Grows(h, g) /\ Len(h) \in Nat /\ Len(g) \in Nat /\ Len(h) <= Len(g)
    <2>1. TreeHeap(h) /\ TreeHeap(g) /\ Grows(h, g)
      BY <1>1 DEF ConfigInv
    <2> QED BY <2>1, TreeFacts DEF Grows
  <1>3. \A o \in Holders : HolderPath[o] \in Seq(Keys)
    BY PathsAssumption
  <1>4. \A o \in Holders : cached[o] \in 0 .. Len(h)
    BY <1>1 DEF ConfigInv
  <1>5. ASSUME NEW o \in Holders, cached[o] # Absent
        PROVE  o \notin shadowed <=> cached[o] = DictAt(g, Root, HolderPath[o])
    <2>1. PICK e, p : e = cached[o] /\ p = HolderPath[o]
      OBVIOUS
    <2>2. e \in 1 .. Len(h) /\ p \in Seq(Keys)
      BY <1>2, <1>3, <1>4, <1>5, <2>1 DEF Absent
    <2>3. e = DictAt(h, Root, p) <=> e = DictAt(g, Root, p)
      BY <1>2, <2>2, StillThere
    <2>4. o \notin shadowed <=> e = DictAt(h, Root, p)
      BY <1>1, <1>5, <2>1 DEF ConfigInv, LiveUnlessShadowed
    <2> QED BY <2>1, <2>3, <2>4
  <1>6. \A o \in Holders : cached[o] \in 0 .. Len(g)
    BY <1>2, <1>4
  <1> QED BY <1>1, <1>2, <1>5, <1>6 DEF ConfigInv, LiveUnlessShadowed

\* A configurable's first look at its section makes it live exactly if the section was there.
LEMMA LookKeeps ==
  ASSUME ConfigInv, NEW o \in Holders, Looked(o), TreeHeap(heap'), Grows(Config(o).heap, heap')
  PROVE  ConfigInv'
  <1>1. PICK h, g, b : h = heap /\ g = heap' /\ b = Config(o)
    OBVIOUS
  <1>2. TreeHeap(h) /\ TreeHeap(g) /\ Grows(b.heap, g)
    BY <1>1 DEF ConfigInv
  <1>3. /\ cached \in [Holders -> Nat] /\ \A x \in Holders : cached[x] \in 0 .. Len(h)
        /\ \A x \in Holders : HolderPath[x] \in Seq(Keys)
    BY <1>1, PathsAssumption DEF ConfigInv
  <1>4. Len(h) \in Nat \ {0} /\ Root \in 1 .. Len(h)
    BY <1>2, TreeFacts DEF Root
  <1>5. PICK p : p = HolderPath[o]
    OBVIOUS
  <1>6. /\ Kept(h, b.heap) /\ b.dict \in 1 .. Len(b.heap)
        /\ cached[o] = Absent => b = Branch(h, Root, p)
        /\ cached[o] # Absent => b.heap = h /\ b.dict = cached[o]
    <2>1. CASE cached[o] = Absent
      <3>1. b = Branch(h, Root, p)
        BY <1>1, <1>5, <2>1 DEF Config
      <3>2. p \in Seq(Keys)
        BY <1>3, <1>5
      <3>3. Kept(h, b.heap) /\ b.dict \in 1 .. Len(b.heap)
        BY <1>2, <1>4, <3>1, <3>2, BranchIs
      <3> QED BY <2>1, <3>1, <3>3
    <2>2. CASE cached[o] # Absent
      <3>1. b = [heap |-> h, dict |-> cached[o]]
        BY <1>1, <2>2 DEF Config
      <3>2. Kept(h, h)
        BY <1>2, GrowsSelf DEF Kept, DataKept
      <3>3. cached[o] \in 1 .. Len(h)
        BY <1>3, <1>4, <2>2 DEF Absent
      <3> QED BY <2>2, <3>1, <3>2, <3>3
    <2> QED BY <2>1, <2>2
  <1>7. Grows(h, g) /\ Len(h) <= Len(g) /\ Len(b.heap) <= Len(g) /\ Len(g) \in Nat /\ TreeHeap(b.heap)
    <2>1. PICK a : a = b.heap
      OBVIOUS
    <2>2. TreeHeap(a) /\ Grows(h, a) /\ Grows(a, g)
      BY <1>2, <1>6, <2>1 DEF Kept
    <2>3. Grows(h, g)
      BY <1>2, <2>2, GrowsOn
    <2> QED BY <1>2, <2>1, <2>2, <2>3, TreeFacts DEF Grows
  <1>8. cached' = [cached EXCEPT ![o] = b.dict]
    BY <1>1 DEF Looked
  <1>9. b.dict \in 1 .. Len(g) /\ b.dict \in Nat /\ b.dict # Absent
    <2>1. Len(b.heap) \in Nat
      BY <1>7, TreeFacts
    <2> QED BY <1>6, <1>7, <2>1 DEF Absent
  <1>10. cached' \in [Holders -> Nat] /\ \A x \in Holders : cached'[x] \in 0 .. Len(g)
    BY <1>3, <1>4, <1>7, <1>8, <1>9
  <1>11. ASSUME NEW x \in Holders, x # o, cached'[x] # Absent
         PROVE  x \notin shadowed' <=> cached'[x] = DictAt(g, Root, HolderPath[x])
    <2>1. PICK e, q : e = cached[x] /\ q = HolderPath[x]
      OBVIOUS
    <2>2. cached'[x] = e
      BY <1>3, <1>8, <1>11, <2>1
    <2>3. e \in 1 .. Len(h) /\ q \in Seq(Keys)
      BY <1>3, <1>4, <1>11, <2>1, <2>2 DEF Absent
    <2>4. e = DictAt(h, Root, q) <=> e = DictAt(g, Root, q)
      BY <1>2, <1>7, <2>3, StillThere
    <2>5. x \notin shadowed <=> e = DictAt(h, Root, q)
      BY <1>1, <1>11, <2>1, <2>2 DEF ConfigInv, LiveUnlessShadowed
    <2>6. x \in shadowed' <=> x \in shadowed
      BY <1>11 DEF Looked
    <2> QED BY <2>1, <2>2, <2>4, <2>5, <2>6
  <1>12. o \notin shadowed' <=> cached'[o] = DictAt(g, Root, p)
    <2>1. PICK e, a : e = b.dict /\ a = b.heap
      OBVIOUS
    <2>2. cached'[o] = e
      BY <1>3, <1>8, <2>1
    <2>3. p \in Seq(Keys) /\ TreeHeap(a) /\ e \in 1 .. Len(a) /\ Grows(a, g)
      BY <1>2, <1>3, <1>5, <1>6, <1>7, <2>1
    <2>4. e = DictAt(a, Root, p) <=> e = DictAt(g, Root, p)
      BY <1>2, <2>3, StillThere
    <2>5. CASE cached[o] # Absent
      <3>1. shadowed' = shadowed
        BY <2>5 DEF Looked
      <3>2. a = h /\ e = cached[o]
        BY <1>6, <2>1, <2>5
      <3>3. o \notin shadowed <=> e = DictAt(h, Root, p)
        BY <1>1, <1>5, <2>5, <3>2 DEF ConfigInv, LiveUnlessShadowed
      <3> QED BY <2>2, <2>4, <3>1, <3>2, <3>3
    <2>6. CASE cached[o] = Absent /\ DictAt(h, Root, p) = Absent
      <3>1. o \in shadowed'
        BY <1>1, <1>5, <2>6 DEF Looked
      <3>2. b = Branch(h, Root, p)
        BY <1>6, <2>6
      <3>3. Loose(a, e) /\ e > Len(h)
        BY <1>2, <1>4, <2>1, <2>3, <2>6, <3>2, BranchIs
      <3>4. e # Absent /\ e # Root
        BY <1>4, <1>9, <2>1, <3>3 DEF Root
      <3>5. DictAt(a, Root, p) # e
        BY <2>3, <3>3, <3>4, NotLoose
      <3> QED BY <2>2, <2>4, <3>1, <3>5
    <2>7. CASE cached[o] = Absent /\ DictAt(h, Root, p) # Absent
      <3>1. o \notin shadowed'
        BY <1>1, <1>5, <2>7 DEF Looked
      <3>2. b = Branch(h, Root, p)
        BY <1>6, <2>7
      <3>3. a = h /\ e = DictAt(h, Root, p)
        BY <1>2, <1>4, <2>1, <2>3, <2>7, <3>2, BranchIs
      <3> QED BY <2>2, <2>4, <3>1, <3>3
    <2> QED BY <2>5, <2>6, <2>7
  <1>13. TreeHeap(heap')
    OBVIOUS
  <1>14. LiveUnlessShadowed'
    BY <1>1, <1>5, <1>11, <1>12 DEF LiveUnlessShadowed
  <1> QED BY <1>1, <1>10, <1>13, <1>14 DEF ConfigInv

\* The paths that calls are made with.
LEMMA CallPaths ==
  /\ \A path \in SetPaths \cup Sections : path \in Seq(Keys) /\ path # <<>>
  /\ \A o \in Holders : HolderPath[o] \in Seq(Keys)
  BY PathsAssumption

\* context.config[path] = value
LEMMA SetKeeps ==
  ASSUME ConfigInv, NEW path \in SetPaths, NEW value \in Values \cup {NoValue}, ContextSet(path, value)
  PROVE  ConfigInv'
  <1>1. PICK h, g : h = heap /\ g = heap'
    OBVIOUS
  <1>2. TreeHeap(h) /\ g = SetItem(h, Root, path, value) /\ path \in Seq(Keys) /\ path # <<>>
    BY <1>1, CallPaths DEF ConfigInv, ContextSet
  <1>3. Root \in 1 .. Len(h)
    BY <1>2, TreeFacts DEF Root
  <1>4. ItemSet(h, g, Root, path, value)
    BY <1>2, <1>3, SetItemIs
  <1>5. TreeHeap(g) /\ Grows(h, g)
    BY <1>4 DEF ItemSet
  <1> QED BY <1>1, <1>5, GrowthKeeps DEF ContextSet

\* del context.config[path]
LEMMA DelKeeps ==
  ASSUME ConfigInv, NEW path \in SetPaths, ContextDel(path)
  PROVE  ConfigInv'
  <1>1. PICK h, g, d, k : h = heap /\ g = heap' /\ d = DictAt(h, Root, Front(path)) /\ k = Last(path)
    OBVIOUS
  <1>2. TreeHeap(h) /\ path \in Seq(Keys) /\ path # <<>>
    BY <1>1, CallPaths DEF ConfigInv
  <1>3. Front(path) \in Seq(Keys) /\ Len(h) \in Nat \ {0} /\ Root \in 0 .. Len(h)
    BY <1>2, PathParts, TreeFacts DEF Root
  <1>4. d \in 0 .. Len(h)
    BY <1>1, <1>2, <1>3, WalkIs
  <1>5. d \in 1 .. Len(h)
    BY <1>1, <1>3, <1>4 DEF ContextDel, HasItem, Absent
  <1>6. PICK s : s = h[d].data
    OBVIOUS
  <1>7. PICK E \in SUBSET Keys : s \in [E -> Values \cup {NoValue}]
    <2>1. h[d] \in Dicts
      BY <1>2, <1>5, TreeFacts
    <2> QED BY <1>6, <2>1 DEF Dicts
  <1>8. PICK x : x = Restrict(s, DOMAIN s \ {k})
    OBVIOUS
  <1>9. x \in [E \ {k} -> Values \cup {NoValue}] /\ E \ {k} \in SUBSET Keys
    BY <1>7, <1>8 DEF Restrict
  <1>10. g = [h EXCEPT ![d].data = x]
    BY <1>1, <1>6, <1>8 DEF ContextDel, DelItem
  <1>11. DataIn(h, g, d, x)
    BY <1>2, <1>5, <1>9, <1>10, NewData
  <1>12. TreeHeap(g) /\ Grows(h, g)
    BY <1>11 DEF DataIn
  <1> QED BY <1>1, <1>12, GrowthKeeps DEF ContextDel

\* What merge of a branch comes to.
LEMMA ContextMergeIs ==
  ASSUME ConfigInv, NEW path \in Sections, NEW from \in Sections, ContextMerge(path, from)
  PROVE  /\ Kept(heap, heap')
         /\ \A p \in Paths : Get(heap, Root, from \o p) # NoValue => Get(heap', Root, path \o p) # NoValue
  <1>1. PICK h, g, b : h = heap /\ g = heap' /\ b = Branch(h, Root, from)
    OBVIOUS
  <1>2. TreeHeap(h) /\ path \in Seq(Keys) /\ from \in Seq(Keys)
    BY <1>1, CallPaths DEF ConfigInv
  <1>3. Root \in 1 .. Len(h) /\ Root \in 0 .. Len(h) /\ Len(h) \in Nat
    BY <1>2, TreeFacts DEF Root
  <1>4. /\ Kept(h, b.heap) /\ b.dict \in 1 .. Len(b.heap)
        /\ DictAt(h, Root, from) # Absent => b.heap = h /\ b.dict = DictAt(h, Root, from)
    BY <1>1, <1>2, <1>3, BranchIs
  <1>5. PICK f, e : f = b.heap /\ e = b.dict
    OBVIOUS
  <1>6. TreeHeap(f) /\ Kept(h, f) /\ e \in 1 .. Len(f) /\ Root \in 1 .. Len(f)
    <2>1. TreeHeap(f) /\ Kept(h, f) /\ e \in 1 .. Len(f)
      BY <1>4, <1>5 DEF Kept
    <2> QED BY <2>1, TreeFacts DEF Root
  <1>7. g = Merge(f, Root, path, e)
    BY <1>1, <1>5 DEF ContextMerge
  <1>8. /\ Kept(f, g)
        /\ \A q \in Paths : Get(f, e, q) # NoValue => Get(g, Root, path \o q) # NoValue
    BY <1>2, <1>6, <1>7, MergeIs
  <1>9. Kept(h, g)
    BY <1>2, <1>6, <1>8, KeptOn
  <1>10. ASSUME NEW p \in Paths, Get(h, Root, from \o p) # NoValue
         PROVE  Get(g, Root, path \o p) # NoValue
    <2>1. p \in Seq(Keys) /\ p # <<>>
      <3>1. PICK m \in 1 .. MaxDepth : p \in [1 .. m -> Keys]
        BY DEF Paths
      <3>2. m \in Nat \ {0}
        BY KeysAssumption
      <3> QED BY <3>1, <3>2
    <2>2. PICK q, o : q = from \o p /\ o = Front(p)
      OBVIOUS
    <2>3. /\ q \in Seq(Keys) /\ q # <<>> /\ Front(q) = from \o o /\ Last(q) = Last(p)
          /\ o \in Seq(Keys)
      BY <1>2, <2>1, <2>2, PathsJoined, PathParts
    <2>4. PICK d : d = DictAt(h, Root, from)
      OBVIOUS
    <2>5. DictAt(h, Root, Front(q)) = DictAt(h, d, o)
      BY <1>2, <1>3, <2>3, <2>4, WalkOnward
    <2>6. DictAt(h, d, o) # Absent
      BY <1>10, <2>2, <2>5 DEF Get, HasItem
    <2>7. d # Absent
      BY <1>2, <2>3, <2>6, NothingBelowAbsent
    <2>8. f = h /\ e = d
      BY <1>4, <1>5, <2>4, <2>7
    <2>9. Get(f, e, p) = Get(h, Root, q)
      BY <2>2, <2>3, <2>5, <2>8 DEF Get, HasItem
    <2>10. Get(f, e, p) # NoValue
      BY <1>10, <2>2, <2>9
    <2> QED BY <1>8, <2>10
  <1> QED BY <1>1, <1>9, <1>10

\* context.config.merge(path, context.config.branch(from))
LEMMA MergingKeeps ==
  ASSUME ConfigInv, NEW path \in Sections, NEW from \in Sections, ContextMerge(path, from)
  PROVE  ConfigInv'
  <1>1. Kept(heap, heap')
    BY ContextMergeIs
  <1>2. TreeHeap(heap') /\ Grows(heap, heap')
    BY <1>1 DEF Kept
  <1> QED BY <1>2, GrowthKeeps DEF ContextMerge

\* context.config.splice(path, a new dictionary)
LEMMA SplicingKeeps ==
  ASSUME ConfigInv, NEW path \in Sections, NEW key \in Keys, NEW value \in Values,
         ContextSplice(path, [k \in {key} |-> value])
  PROVE  ConfigInv'
  <1>1. PICK h, g, c : h = heap /\ g = heap' /\ c = [data |-> [k \in {key} |-> value], sub |-> <<>>]
    OBVIOUS
  <1>2. TreeHeap(h) /\ path \in Seq(Keys) /\ path # <<>>
    BY <1>1, CallPaths DEF ConfigInv
  <1>3. IsFlat(c)
    <2>1. [k \in {key} |-> value] \in [{key} -> Values \cup {NoValue}] /\ {key} \in SUBSET Keys
      OBVIOUS
    <2>2. <<>> \in [{} -> Nat] /\ {} \in SUBSET Keys
      OBVIOUS
    <2> QED BY <1>1, <2>1, <2>2 DEF IsFlat, Dicts
  <1>4. g = Splice(Append(h, c), Root, path, Len(h) + 1)
    BY <1>1 DEF ContextSplice
  <1>5. SplicedIn(h, g, path)
    BY <1>2, <1>3, <1>4, SpliceIs
  <1>6. TreeHeap(g) /\ Len(h) < Len(g) /\ Len(h) \in Nat /\ Len(g) \in Nat
    BY <1>2, <1>5, TreeFacts DEF SplicedIn
  <1>7. ASSUME NEW o \in Holders, cached[o] # Absent
        PROVE  o \notin shadowed' <=> cached[o] = DictAt(g, Root, HolderPath[o])
    <2>1. PICK e, q : e = cached[o] /\ q = HolderPath[o]
      OBVIOUS
    <2>2. q \in Seq(Keys)
      BY <2>1, CallPaths
    <2>3. e \in 1 .. Len(h) /\ e # Absent
      BY <1>1, <1>6, <1>7, <2>1 DEF ConfigInv, Absent
    <2>4. o \notin shadowed <=> e = DictAt(h, Root, q)
      BY <1>1, <1>7, <2>1 DEF ConfigInv, LiveUnlessShadowed
    <2>5. o \in shadowed' <=> o \in shadowed \/ IsPrefix(path, q)
      BY <1>7, <2>1 DEF ContextSplice
    <2>6. IF DictAt(h, Root, q) # Absent /\ ~IsPrefix(path, q)
          THEN DictAt(g, Root, q) = DictAt(h, Root, q)
          ELSE DictAt(g, Root, q) = Absent \/ DictAt(g, Root, q) > Len(h)
      BY <1>5, <2>2 DEF SplicedIn
    <2>7. ~(e > Len(h))
      BY <1>6, <2>3
    <2> QED BY <2>1, <2>3, <2>4, <2>5, <2>6, <2>7
  <1>8. UNCHANGED cached
    BY DEF ContextSplice
  <1>9. \A o \in Holders : cached[o] \in 0 .. Len(g)
    BY <1>1, <1>6 DEF ConfigInv
  <1> QED BY <1>1, <1>6, <1>7, <1>8, <1>9 DEF ConfigInv, LiveUnlessShadowed

\* A configurable reads its section, writes to it, or forgets it.
LEMMA HolderKeeps ==
  ASSUME ConfigInv, NEW o \in Holders,
         \/ HolderReads(o)
         \/ HolderForgets(o)
         \/ \E key \in Keys, value \in Values : HolderSets(o, key, value)
  PROVE  ConfigInv'
  <1>1. PICK h, g, b : h = heap /\ g = heap' /\ b = Config(o)
    OBVIOUS
  <1>2. TreeHeap(h) /\ HolderPath[o] \in Seq(Keys) /\ Len(h) \in Nat /\ Root \in 1 .. Len(h)
    <2>1. TreeHeap(h) /\ HolderPath[o] \in Seq(Keys)
      BY <1>1, CallPaths DEF ConfigInv
    <2> QED BY <2>1, TreeFacts DEF Root
  <1>3. TreeHeap(b.heap) /\ b.dict \in 1 .. Len(b.heap)
    <2>1. CASE cached[o] = Absent
      <3>1. b = Branch(h, Root, HolderPath[o])
        BY <1>1, <2>1 DEF Config
      <3>2. Kept(h, b.heap) /\ b.dict \in 1 .. Len(b.heap)
        BY <1>2, <3>1, BranchIs
      <3> QED BY <3>2 DEF Kept
    <2>2. CASE cached[o] # Absent
      <3>1. b = [heap |-> h, dict |-> cached[o]]
        BY <1>1, <2>2 DEF Config
      <3>2. cached[o] \in 0 .. Len(h)
        BY <1>1 DEF ConfigInv
      <3>3. cached[o] \in 1 .. Len(h)
        BY <1>2, <2>2, <3>2 DEF Absent
      <3> QED BY <1>2, <3>1, <3>3
    <2> QED BY <2>1, <2>2
  <1>4. PICK a, e : a = b.heap /\ e = b.dict
    OBVIOUS
  <1>5. CASE HolderReads(o)
    <2>1. g = a /\ Looked(o)
      BY <1>1, <1>4, <1>5 DEF HolderReads
    <2>2. TreeHeap(g) /\ Grows(a, g)
      BY <1>3, <1>4, <2>1, GrowsSelf
    <2> QED BY <1>1, <1>4, <2>1, <2>2, LookKeeps
  <1>6. ASSUME NEW key \in Keys, NEW value \in Values, HolderSets(o, key, value) PROVE ConfigInv'
    <2>1. g = SetItem(a, e, <<key>>, value) /\ Looked(o)
      BY <1>1, <1>4, <1>6 DEF HolderSets
    <2>2. PICK p : p = <<key>>
      OBVIOUS
    <2>3. p \in Seq(Keys) /\ p # <<>>
      BY <2>2
    <2>4. ItemSet(a, g, e, p, value)
      BY <1>3, <1>4, <2>1, <2>2, <2>3, SetItemIs
    <2>5. TreeHeap(g) /\ Grows(a, g)
      BY <2>4 DEF ItemSet
    <2> QED BY <1>1, <1>4, <2>1, <2>5, LookKeeps
  <1>7. CASE HolderForgets(o)
    <2>1. UNCHANGED heap /\ cached' = [cached EXCEPT ![o] = Absent] /\ shadowed' = shadowed \ {o}
      BY <1>7 DEF HolderForgets
    <2>2. /\ cached \in [Holders -> Nat] /\ \A x \in Holders : cached[x] \in 0 .. Len(h)
          /\ \A x \in Holders : cached[x] # Absent =>
               (x \notin shadowed <=> cached[x] = DictAt(h, Root, HolderPath[x]))
      BY <1>1 DEF ConfigInv, LiveUnlessShadowed
    <2>3. cached' \in [Holders -> Nat] /\ \A x \in Holders : cached'[x] \in 0 .. Len(h)
      BY <1>2, <2>1, <2>2 DEF Absent
    <2>4. ASSUME NEW x \in Holders, cached'[x] # Absent
          PROVE  x \notin shadowed' <=> cached'[x] = DictAt(h, Root, HolderPath[x])
      <3>1. x # o /\ cached'[x] = cached[x]
        BY <2>1, <2>2, <2>4
      <3> QED BY <2>1, <2>2, <2>4, <3>1
    <2> QED BY <1>1, <1>2, <2>1, <2>3, <2>4 DEF ConfigInv, LiveUnlessShadowed
  <1> QED BY <1>5, <1>6, <1>7

\* The invariant holds in every state that calls on the configuration tree lead to: of the
\* context, and of those who keep sections of it, in any order.
THEOREM ConfigInductive == ConfigSpec => []ConfigInv
  <1>1. ConfigInit => ConfigInv
    <2> SUFFICES ASSUME ConfigInit PROVE ConfigInv
      OBVIOUS
    <2>1. PICK h, c : h = heap /\ c = EmptyDict
      OBVIOUS
    <2>2. h = <<c>> /\ c \in Dicts /\ DOMAIN c.sub = {}
      BY <2>1, EmptyIsDict DEF ConfigInit
    <2>3. h \in Seq(Dicts) /\ h # <<>> /\ DOMAIN h = {1} /\ h[1] = c
      BY <2>2
    <2>4. TreeHeap(h)
      <3>1. \A d \in DOMAIN h : DOMAIN h[d].sub = {}
        BY <2>2, <2>3
      <3> QED BY <2>3, <3>1 DEF TreeHeap
    <2>5. Len(h) \in Nat
      BY <2>4, TreeFacts
    <2>6. cached \in [Holders -> Nat] /\ \A o \in Holders : cached[o] = Absent
      BY DEF ConfigInit, Absent
    <2>7. \A o \in Holders : cached[o] \in 0 .. Len(h)
      BY <2>5, <2>6 DEF Absent
    <2> QED BY <2>1, <2>4, <2>6, <2>7 DEF ConfigInv, LiveUnlessShadowed
  <1>2. ConfigInv /\ [ConfigNext]_configVars => ConfigInv'
    <2> SUFFICES ASSUME ConfigInv, [ConfigNext]_configVars PROVE ConfigInv'
      OBVIOUS
    <2>1. ASSUME NEW path \in SetPaths, NEW value \in Values \cup {NoValue}, ContextSet(path, value)
          PROVE  ConfigInv'
      BY <2>1, SetKeeps
    <2>2. ASSUME NEW path \in SetPaths, ContextDel(path) PROVE ConfigInv'
      BY <2>2, DelKeeps
    <2>3. ASSUME NEW path \in Sections, NEW from \in Sections, ContextMerge(path, from) PROVE ConfigInv'
      BY <2>3, MergingKeeps
    <2>4. ASSUME NEW path \in Sections, NEW key \in Keys, NEW value \in Values,
                 ContextSplice(path, [k \in {key} |-> value])
          PROVE  ConfigInv'
      BY <2>4, SplicingKeeps
    <2>5. ASSUME NEW o \in Holders, HolderReads(o) \/ HolderForgets(o) PROVE ConfigInv'
      BY <2>5, HolderKeeps
    <2>6. ASSUME NEW o \in Holders, NEW key \in Keys, NEW value \in Values, HolderSets(o, key, value)
          PROVE  ConfigInv'
      BY <2>6, HolderKeeps
    <2>7. CASE UNCHANGED configVars
      BY <2>7 DEF configVars, ConfigInv, LiveUnlessShadowed
    <2> QED BY <2>1, <2>2, <2>3, <2>4, <2>5, <2>6, <2>7 DEF ConfigNext
  <1> QED BY <1>1, <1>2, PTL DEF ConfigSpec

\* No dictionary is ever stored in two places, and the root in none, whatever branch, splice
\* and merge hand around.
THEOREM ConfigIsATree == ConfigSpec => []TreeShaped
  <1>1. ConfigInv => TreeShaped
    <2> SUFFICES ASSUME ConfigInv PROVE TreeShaped
      OBVIOUS
    <2>1. PICK h : h = heap
      OBVIOUS
    <2>2. TreeHeap(h)
      BY <2>1 DEF ConfigInv
    <2>3. \A d, e \in DOMAIN h : \A k \in DOMAIN h[d].sub, l \in DOMAIN h[e].sub :
            h[d].sub[k] = h[e].sub[l] => d = e /\ k = l
      BY <2>2, Zenon DEF TreeHeap
    <2>4. \A d \in DOMAIN h : \A k \in DOMAIN h[d].sub : h[d].sub[k] # Root
      <3> SUFFICES ASSUME NEW d \in DOMAIN h, NEW k \in DOMAIN h[d].sub PROVE h[d].sub[k] # Root
        OBVIOUS
      <3>1. h[d].sub[k] \in 2 .. Len(h) /\ Len(h) \in Nat
        BY <2>2, TreeFacts
      <3> QED BY <3>1 DEF Root
    <2>5. \A d, e \in DOMAIN heap : \A k \in DOMAIN heap[d].sub, l \in DOMAIN heap[e].sub :
            heap[d].sub[k] = heap[e].sub[l] => d = e /\ k = l
      BY <2>1, <2>3
    <2>6. \A d \in DOMAIN heap : \A k \in DOMAIN heap[d].sub : heap[d].sub[k] # Root
      BY <2>1, <2>4
    <2> QED BY <2>5, <2>6, Zenon DEF TreeShaped
  <1> QED BY <1>1, ConfigInductive, PTL

\* A configurable works on the section of the context's tree at its path if, and only if, that
\* was there at its first look and has not been replaced since.
THEOREM SectionsAreLive == ConfigSpec => []LiveUnlessShadowed
  <1>1. ConfigInv => LiveUnlessShadowed
    BY DEF ConfigInv
  <1> QED BY <1>1, ConfigInductive, PTL

\* merge never takes away or changes a value, and brings every item of what is merged in.
THEOREM MergeIsKind == ConfigSpec => MergeKeepsValues
  <1> DEFINE Kind == \A path, from \in Sections : ContextMerge(path, from) =>
       /\ \A p \in Paths : Get(heap, Root, p) # NoValue => Get(heap', Root, p) = Get(heap, Root, p)
       /\ \A p \in Paths : Get(heap, Root, from \o p) # NoValue => Get(heap', Root, path \o p) # NoValue
  <1>1. ConfigInv /\ [ConfigNext]_configVars => [Kind]_configVars
    <2> SUFFICES ASSUME ConfigInv, NEW path \in Sections, NEW from \in Sections, ContextMerge(path, from)
                 PROVE  /\ \A p \in Paths : Get(heap, Root, p) # NoValue => Get(heap', Root, p) = Get(heap, Root, p)
                        /\ \A p \in Paths : Get(heap, Root, from \o p) # NoValue => Get(heap', Root, path \o p) # NoValue
      BY Zenon
    <2>1. /\ Kept(heap, heap')
          /\ \A p \in Paths : Get(heap, Root, from \o p) # NoValue => Get(heap', Root, path \o p) # NoValue
      BY ContextMergeIs
    <2>2. PICK h, g : h = heap /\ g = heap'
      OBVIOUS
    <2>3. TreeHeap(h) /\ TreeHeap(g) /\ Grows(h, g) /\ DataKept(h, g)
      BY <2>1, <2>2 DEF ConfigInv, Kept
    <2>4. Root \in 1 .. Len(h)
      BY <2>3, TreeFacts DEF Root
    <2>5. ASSUME NEW p \in Paths, Get(h, Root, p) # NoValue PROVE Get(g, Root, p) = Get(h, Root, p)
      <3>1. PICK m \in 1 .. MaxDepth : p \in [1 .. m -> Keys]
        BY DEF Paths
      <3>2. m \in Nat \ {0}
        BY KeysAssumption
      <3>3. p \in Seq(Keys) /\ p # <<>>
        BY <3>1, <3>2
      <3> QED BY <2>3, <2>4, <2>5, <3>3, GetKept
    <2> QED BY <2>1, <2>2, <2>5
  <1> HIDE DEF Kind
  <1>2. ConfigSpec => [][Kind]_configVars
    BY <1>1, ConfigInductive, PTL DEF ConfigSpec
  <1>3. [][Kind]_configVars => MergeKeepsValues
    BY DEF Kind, MergeKeepsValues
  <1> QED BY <1>2, <1>3

=============================================================================
