----------------------------- MODULE ConfigTree -----------------------------
(***************************************************************************)
(* The configuration tree of a Context: HierarchicalDict of                *)
(* volatility3/framework/interfaces/configuration.py, and the piece of it  *)
(* that every ConfigurableInterface keeps in _config_cache.                *)
(*                                                                         *)
(* A dictionary holds values and sub-dictionaries under separate keys.     *)
(* Dictionaries are objects: branch() hands out a reference, splice()      *)
(* stores one.  The heap maps their identities to their contents.          *)
(***************************************************************************)
EXTENDS Integers, Sequences, SequencesExt, FiniteSets, Functions

CONSTANTS
  Keys,        \* the names a path is made of
  Values,      \* configuration values, other than None
  Holders,     \* configurables
  HolderPath,  \* Holders -> their config_path
  SetPaths,    \* the paths callers set and delete in the context's tree
  Sections,    \* the paths callers merge and splice dictionaries at
  MaxDepth,    \* bound: the longest path that calls on those can lead to
  MaxCalls     \* bound: number of calls

ASSUME KeysAssumption == IsFiniteSet(Keys) /\ MaxDepth \in Nat

ASSUME PathsAssumption ==
  /\ HolderPath \in [Holders -> Seq(Keys)]
  /\ \A path \in SetPaths \cup Sections : path \in Seq(Keys) /\ path # <<>>

NoValue == "None"
Absent == 0          \* the configurable has not looked at its config yet
Root == 1            \* context.config

Paths == UNION {[1..n -> Keys] : n \in 1..MaxDepth}

VARIABLES
  heap,        \* identity -> [data, sub], the contents of each dictionary
  cached,      \* _config_cache of each configurable: an identity or Absent
  shadowed,    \* history: configurables whose config section did not exist, or
               \* was replaced by splice, when or after they looked at it
  calls        \* number of calls so far

configVars == <<heap, cached, shadowed, calls>>

EmptyDict == [data |-> <<>>, sub |-> <<>>]

\* A plain dictionary, of values or of dictionaries, once one is set
SetKey(plain, key, value) ==
  [k \in DOMAIN plain \cup {key} |-> IF k = key THEN value ELSE plain[k]]

-----------------------------------------------------------------------------
(* Lookups *)

\* One step down, Absent if it is missing
SubDict(h, dict, key) ==
  IF dict # Absent /\ key \in DOMAIN h[dict].sub THEN h[dict].sub[key] ELSE Absent

\* The dictionaries on a path, the first being where it starts
Walk(h, dict, path) ==
  LET at[i \in 0..Len(path)] == IF i = 0 THEN dict ELSE SubDict(h, at[i - 1], path[i])
  IN at

\* The dictionary under a path
DictAt(h, dict, path) == Walk(h, dict, path)[Len(path)]

\* key in self
HasItem(h, dict, path) ==
  LET d == DictAt(h, dict, Front(path))
  IN d # Absent /\ Last(path) \in DOMAIN h[d].data

\* self.get(key, None)
Get(h, dict, path) ==
  IF HasItem(h, dict, path) THEN h[DictAt(h, dict, Front(path))].data[Last(path)] ELSE NoValue

\* The keys of dict(self)
ItemsOf(h, dict) == {p \in Paths : HasItem(h, dict, p)}

-----------------------------------------------------------------------------
(* Deviations a bug could introduce; only the mutants of PROJECT.json use them. *)

\* A new sub-dictionary is a default argument, and so always the same object.
DescendShared(at, key) ==
  IF key \in DOMAIN at.heap[at.dict].sub
  THEN [at EXCEPT !.dict = at.heap[at.dict].sub[key]]
  ELSE LET grown == IF Len(at.heap) = 1 THEN Append(at.heap, EmptyDict) ELSE at.heap
       IN [heap |-> [grown EXCEPT ![at.dict].sub = SetKey(@, key, 2)], dict |-> 2]

\* What branch stores is what it returns.
BranchStores(h, dict, path) ==
  LET Step(at, k) ==
        IF k \in DOMAIN at.heap[at.dict].sub
        THEN [at EXCEPT !.dict = at.heap[at.dict].sub[k]]
        ELSE [heap |-> Append([at.heap EXCEPT ![at.dict].sub = SetKey(@, k, Len(at.heap) + 1)],
                              EmptyDict),
              dict |-> Len(at.heap) + 1]
  IN FoldLeft(Step, [heap |-> h, dict |-> dict], path)

-----------------------------------------------------------------------------
(* Updates: each returns the new heap *)

\* self._subdict[key] = value
Linked(h, dict, key, value) == [h EXCEPT ![dict].sub = SetKey(@, key, value)]

\* One step of _setitem along a path: self._subdict.get(head, HierarchicalDict())
Descend(at, key) ==
  IF key \in DOMAIN at.heap[at.dict].sub
  THEN [at EXCEPT !.dict = at.heap[at.dict].sub[key]]
  ELSE LET new == Len(at.heap) + 1
       IN [heap |-> Linked(Append(at.heap, EmptyDict), at.dict, key, new), dict |-> new]

\* The heaps and dictionaries on the way along a path
Descent(h, dict, path) ==
  LET at[i \in 0..Len(path)] ==
        IF i = 0 THEN [heap |-> h, dict |-> dict] ELSE Descend(at[i - 1], path[i])
  IN at

\* The dictionary a path leads to, created if need be
Reach(h, dict, path) == Descent(h, dict, path)[Len(path)]

\* _setitem(path, value, is_data=True)
SetItem(h, dict, path, value) ==
  LET at == Reach(h, dict, Front(path))
  IN [at.heap EXCEPT ![at.dict].data = SetKey(@, Last(path), value)]

\* __delitem__ of a path that is there
DelItem(h, dict, path) ==
  LET d == DictAt(h, dict, Front(path))
  IN [h EXCEPT ![d].data = Restrict(@, DOMAIN @ \ {Last(path)})]

(***************************************************************************)
(* branch(path): the dictionary under the path.  If there is none, one is  *)
(* stored there -- and another, new one is returned.                       *)
(***************************************************************************)
Branch(h, dict, path) ==
  IF DictAt(h, dict, path) # Absent THEN [heap |-> h, dict |-> DictAt(h, dict, path)]
  ELSE LET at == Reach(h, dict, path)
       IN [heap |-> Append(at.heap, EmptyDict), dict |-> Len(at.heap) + 1]

\* _setitem(path, value, is_data=False): the sub-dictionary is replaced
Splice(h, dict, path, value) ==
  LET at == Reach(h, dict, Front(path))
  IN Linked(at.heap, at.dict, Last(path), value)

\* A deviation for the mutants: the value of the merged dictionary always wins.
MergeOverwrites(h, dict, path, value) ==
  LET Store(acc, item) == SetItem(acc, dict, path \o item, Get(acc, value, item))
  IN FoldLeft(Store, h, SetToSeq(ItemsOf(h, value)))

\* One round of merge: an item that has a value already stays
Put(h, dict, item, value) ==
  IF Get(h, dict, item) # NoValue THEN h ELSE SetItem(h, dict, item, value)

\* The heaps between the rounds of merge: the items are read first, each value when its
\* turn has come
Merging(h, dict, path, value) ==
  LET items == SetToSeq(ItemsOf(h, value))
      at[i \in 0..Len(items)] ==
        IF i = 0 THEN h
        ELSE Put(at[i - 1], dict, path \o items[i], Get(at[i - 1], value, items[i]))
  IN at

\* merge(path, value)
Merge(h, dict, path, value) == Merging(h, dict, path, value)[Cardinality(ItemsOf(h, value))]

-----------------------------------------------------------------------------
ConfigInit ==
  /\ heap = <<EmptyDict>>
  /\ cached = [o \in Holders |-> Absent]
  /\ shadowed = {}
  /\ calls = 0

Call == calls < MaxCalls /\ calls' = calls + 1

\* context.config[path] = value
ContextSet(path, value) ==
  /\ Call
  /\ heap' = SetItem(heap, Root, path, value)
  /\ UNCHANGED <<cached, shadowed>>

\* del context.config[path]; KeyError, and no change, if it is not there
ContextDel(path) ==
  /\ Call
  /\ HasItem(heap, Root, path)
  /\ heap' = DelItem(heap, Root, path)
  /\ UNCHANGED <<cached, shadowed>>

\* context.config.merge(path, context.config.branch(from)): the stacker applies
\* the layer it has found for one requirement to another one
ContextMerge(path, from) ==
  /\ path # from
  /\ Call
  /\ LET source == Branch(heap, Root, from)
     IN heap' = Merge(source.heap, Root, path, source.dict)
  /\ UNCHANGED <<cached, shadowed>>

\* context.config.splice(path, a new dictionary): a configuration file, or the
\* configuration of a process layer
ContextSplice(path, data) ==
  /\ Call
  /\ heap' = Splice(Append(heap, [data |-> data, sub |-> <<>>]), Root, path, Len(heap) + 1)
  /\ shadowed' = shadowed \cup {o \in Holders : cached[o] # Absent /\ IsPrefix(path, HolderPath[o])}
  /\ UNCHANGED cached

\* The config property: the section is looked up once and kept
Config(o) ==
  IF cached[o] = Absent THEN Branch(heap, Root, HolderPath[o])
  ELSE [heap |-> heap, dict |-> cached[o]]

Looked(o) ==
  /\ cached' = [cached EXCEPT ![o] = Config(o).dict]
  /\ shadowed' = IF cached[o] # Absent THEN shadowed
                 ELSE IF DictAt(heap, Root, HolderPath[o]) = Absent THEN shadowed \cup {o}
                 ELSE shadowed \ {o}

\* A configurable reads its config
HolderReads(o) ==
  /\ Call
  /\ Looked(o)
  /\ heap' = Config(o).heap

\* self.config[key] = value: a symbol table records its isf_url, a plugin its
\* defaults
HolderSets(o, key, value) ==
  /\ Call
  /\ Looked(o)
  /\ heap' = SetItem(Config(o).heap, Config(o).dict, <<key>>, value)

\* The config_path setter forgets the section
HolderForgets(o) ==
  /\ Call
  /\ cached[o] # Absent
  /\ cached' = [cached EXCEPT ![o] = Absent]
  /\ shadowed' = shadowed \ {o}
  /\ UNCHANGED heap

ConfigNext ==
  \/ \E path \in SetPaths, value \in Values \cup {NoValue} : ContextSet(path, value)
  \/ \E path \in SetPaths : ContextDel(path)
  \/ \E path, from \in Sections : ContextMerge(path, from)
  \/ \E path \in Sections, key \in Keys, value \in Values : ContextSplice(path, [k \in {key} |-> value])
  \/ \E o \in Holders : HolderReads(o) \/ HolderForgets(o)
  \/ \E o \in Holders, key \in Keys, value \in Values : HolderSets(o, key, value)

ConfigSpec == ConfigInit /\ [][ConfigNext]_configVars

-----------------------------------------------------------------------------
(* Properties *)

\* No dictionary is ever stored in two places, and the root in none, however
\* branch, splice and merge pass references around: a change made through one
\* path cannot show under another, and no traversal runs in a circle.
TreeShaped ==
  /\ \A d, e \in DOMAIN heap : \A k \in DOMAIN heap[d].sub, l \in DOMAIN heap[e].sub :
       heap[d].sub[k] = heap[e].sub[l] => d = e /\ k = l
  /\ \A d \in DOMAIN heap : \A k \in DOMAIN heap[d].sub : heap[d].sub[k] # Root

\* A configurable's config is the section of the context's tree at its path if, and
\* only if, the section existed when the configurable first looked at it and splice
\* has not replaced it since.  Otherwise the two never meet again.
LiveUnlessShadowed ==
  \A o \in Holders : cached[o] # Absent =>
    (o \notin shadowed <=> cached[o] = DictAt(heap, Root, HolderPath[o]))

\* A value that is there survives every merge, and afterwards every item merged
\* in has a value: the stacker cannot undo what the user configured.
MergeKeepsValues ==
  [][\A path, from \in Sections : ContextMerge(path, from) =>
       /\ \A p \in Paths : Get(heap, Root, p) # NoValue => Get(heap', Root, p) = Get(heap, Root, p)
       /\ \A p \in Paths : Get(heap, Root, from \o p) # NoValue => Get(heap', Root, path \o p) # NoValue]_configVars

=============================================================================
