----------------------------- MODULE Automagic -----------------------------
(***************************************************************************)
(* From a plugin's requirements to a constructed plugin: automagic.run()   *)
(* and construct_plugin(), with the automagics that populate a context --  *)
(* ConstructionMagic, LayerStacker, SymbolFinder and KernelModule.  Several*)
(* plugins are run in one context with the same automagics, as timeliner   *)
(* does, or the same one again.                                            *)
(*                                                                         *)
(* A plugin requires a layer, or a kernel module made of a layer, a symbol *)
(* table and an offset.  Its section of the configuration describes the    *)
(* layer as a stack of classes, each with the name of the layer constructed*)
(* for it; the requirement of a layer has those of its class below it, and *)
(* one of these the next class.  What an exception does is part of every   *)
(* step: ConstructionMagic and run() swallow it and go on.                 *)
(***************************************************************************)
EXTENDS Integers, Sequences, SequencesExt, FiniteSetsExt

CONSTANTS
  Plugins,
  ModulePlugins,   \* those that require a kernel module, the others a layer
  Accepts,         \* plugin -> the kinds of layer its layer requirement accepts
  Provided,        \* plugin -> the sections a user may have configured for it
  Stackers,        \* the stackers in stack order: [over, gives], the kinds each
                   \* recognises and the kind of layer it puts on top
  FileLayer,       \* the kind every stack starts with
  Banners,         \* the kinds of layer for which a symbol file is known
  KernelOffsets,   \* the kinds whose stacker records the kernel's offset
  MaxRuns          \* bound: number of runs

None == 0
Unknown == "unknown"

(***************************************************************************)
(* What users configure is nothing, or, as an earlier run would have saved *)
(* it, a layer of a kind the plugin accepts with what is right for that    *)
(* layer.                                                                  *)
(***************************************************************************)
Configurable(p, section) ==
  LET levels == section.levels
      Right(value) == value # Unknown => levels # <<>> /\ value = Last(levels).kind
  IN /\ section = [levels |-> levels, isf |-> section.isf, offset |-> section.offset,
                   class |-> section.class, table |-> None, module |-> None]
     /\ levels \in Seq(Range(levels)) /\ section.class \in BOOLEAN
     /\ \A i \in DOMAIN levels :
          \E offset \in {levels[i].kind, Unknown} :
            levels[i] = [kind |-> levels[i].kind, name |-> None, kernelOffset |-> offset]
     /\ levels # <<>> => Last(levels).kind \in Accepts[p]
     /\ Right(section.isf) /\ Right(section.offset)

ASSUME ProvidedAssumption == \A p \in Plugins : \A section \in Provided[p] : Configurable(p, section)

ASSUME StackersAssumption == Stackers \in Seq(Range(Stackers))

VARIABLES
  layers,      \* context.layers: [kind, below], in the order they were added
  tables,      \* context.symbol_space: [kind], the kind of layer each table is for
  modules,     \* context.modules: [layer, table, offset]
  conf,        \* each plugin's section of context.config
  cached,      \* LayerStacker._cached: [top, from, depth], <<>> if not set
  working,     \* the stackers that recognise something in this image
  configured,  \* history: the plugins for which a user has configured something
  stacking,    \* stack_layer(): [left, at, stack], the stackers not yet used, the
               \* next one of them to try, and the kinds stacked, lowest first
  parts,       \* whether the layer requirement has the requirements of its class, which
               \* _validate_class() gives it where nothing is named
  depth,       \* find_suitable_requirements(): how far below the layer requirement is
               \* the one that what was stacked is for
  run,         \* [plugin, step, magic], magic being the call ConstructionMagic is in
  constructed, \* the plugins that construct_plugin() has returned
  unmet,       \* history: plugins whose last run raised UnsatisfiedException
  failed,      \* history: has constructing a layer or a table ever failed
  mixed,       \* history: plugins whose section was merged with that of another layer,
               \* or with one that was
  runs         \* number of runs

context == <<layers, tables, modules>>
given == <<working, configured>>
search == <<parts, depth>>
history == <<constructed, unmet, failed, mixed, runs>>
vars == <<context, conf, cached, given, stacking, search, run, history>>

(***************************************************************************)
(* A plugin's section: the layer's classes from the lowest up, each with   *)
(* the name of the layer made of it and kernel_virtual_offset; isf_url and *)
(* offset; the names of table and module.  An offset, and isf_url, is given*)
(* by the kind of layer it is right for.                                   *)
(***************************************************************************)
Empty ==
  [levels |-> <<>>, isf |-> Unknown, offset |-> Unknown, class |-> FALSE, table |-> None, module |-> None]

\* build_configuration() of a layer that was stacked
Unbuilt(kinds) ==
  [i \in DOMAIN kinds |->
     [kind |-> kinds[i], name |-> None,
      kernelOffset |-> IF kinds[i] \in KernelOffsets THEN kinds[i] ELSE Unknown]]

-----------------------------------------------------------------------------
(* Requirements *)

Kinds(levels) == [i \in DOMAIN levels |-> levels[i].kind]

LayerName(c) == IF c.levels = <<>> THEN None ELSE Last(c.levels).name

\* TranslationLayerRequirement: the value names a layer of the right kind
Suits(p, name) == name # None /\ layers[name].kind \in Accepts[p]

LayerSatisfied(p) == Suits(p, LayerName(conf[p]))

TableSatisfied(p) == conf[p].table # None

\* "if not requirement.unsatisfied(context, config_path)"
Satisfied(p) == IF p \in ModulePlugins THEN conf[p].module # None ELSE LayerSatisfied(p)

(***************************************************************************)
(* find_suitable_requirements(): the layer requirement, and then those of  *)
(* its class, and so on down.  One is suitable that is satisfied, or that  *)
(* a layer offered satisfies: the first whether it fits, those below it    *)
(* any, if one is offered at all.  To the depth of each is added one.      *)
(***************************************************************************)
Suitable(p, fits, offered, known) ==
  LET levels == conf[p].levels
  IN {d \in 0 .. Len(levels) :
        IF d = 0 THEN LayerSatisfied(p) \/ fits
        ELSE known /\ d < Len(levels) /\ (offered \/ levels[Len(levels) - d].name # None)}

-----------------------------------------------------------------------------
(* HierarchicalDict.merge of one layer's section into another's, at a depth  *)
(* below its top: what has a value keeps it.  Configuration below a class    *)
(* that requires no layer is never read and left out.                        *)

\* A layer's section, seen from the layer at that depth
Branch(p, d) == SubSeq(conf[p].levels, 1, Len(conf[p].levels) - d)

MergeLevel(into, from) ==
  [into EXCEPT !.name = IF @ = None THEN from.name ELSE @,
               !.kernelOffset = IF @ = Unknown THEN from.kernelOffset ELSE @]

MergeLevels(into, d, from) ==
  IF into = <<>> THEN from
  ELSE LET Same(i) == i + d - Len(into) + Len(from)
       IN [i \in DOMAIN into |->
             IF Same(i) \in DOMAIN from THEN MergeLevel(into[i], from[Same(i)]) ELSE into[i]]

\* History: the section holds other classes than those merged into it
MixedBy(p, d, levels) ==
  IF conf[p].levels # <<>> /\ Kinds(Branch(p, d)) # Kinds(levels) THEN mixed \cup {p} ELSE mixed

NameAt(levels, d, name) == [levels EXCEPT ![Len(levels) - d].name = name]

-----------------------------------------------------------------------------
(* Runs *)

Init ==
  /\ layers = <<>> /\ tables = <<>> /\ modules = <<>>
  /\ conf \in {c \in [Plugins -> UNION {Provided[p] : p \in Plugins}] : \A p \in Plugins : c[p] \in Provided[p]}
  /\ working \in SUBSET DOMAIN Stackers
  /\ configured = {p \in Plugins : conf[p] # Empty}
  /\ cached = <<>>
  /\ stacking = [left |-> <<>>, at |-> 1, stack |-> <<>>]
  /\ parts = FALSE /\ depth = 0
  /\ run = [plugin |-> CHOOSE p \in Plugins : TRUE, step |-> "idle", magic |-> "none"]
  /\ constructed = {} /\ unmet = {} /\ failed = FALSE /\ mixed = {} /\ runs = 0

-----------------------------------------------------------------------------
(* Deviations a bug could introduce; only the mutants of PROJECT.json use them. *)

\* The banner is looked for in the layer added last.
NewestLayer(p) == IF p \in ModulePlugins THEN Len(layers) ELSE None

\* After a stacker has stacked, the search goes on from where it was.
TryWithoutRestart ==
  /\ run.step = "scan" /\ stacking.at <= Len(stacking.left)
  /\ LET i == stacking.left[stacking.at]
     IN stacking' =
          IF i \in working /\ Last(stacking.stack) \in Stackers[i].over
          THEN [stacking EXCEPT !.left = RemoveAt(@, stacking.at), !.stack = Append(@, Stackers[i].gives)]
          ELSE [stacking EXCEPT !.at = @ + 1]
  /\ UNCHANGED <<context, conf, cached, given, search, run, history>>

\* LayerStacker does not use what it remembers.
NeverApplies(p) == FALSE

\* Only the top of the stack is offered to the requirement.
OnlyTop(p, stack) == IF Last(stack) \in Accepts[p] THEN Len(stack) ELSE 0

\* LayerStacker starts again after construction.
StacksAgain == "stack"

-----------------------------------------------------------------------------
At(step) == run.step = step

Go(step) == run' = [run EXCEPT !.step = step]

\* construct_plugin() calls run(), which calls ConstructionMagic first
Start(p) ==
  /\ At("idle") /\ runs < MaxRuns
  /\ run' = [plugin |-> p, step |-> "layer", magic |-> "first"]
  /\ runs' = runs + 1
  /\ parts' = (conf[p].levels # <<>> /\ LayerName(conf[p]) = None)
  /\ UNCHANGED <<context, conf, cached, given, stacking, depth, constructed, unmet, failed, mixed>>

(***************************************************************************)
(* ConstructionMagic: the layer from its lowest class up, as far as that   *)
(* goes; then the symbol table; then the module, if nothing is missing.    *)
(***************************************************************************)
AfterConstruction == IF run.magic = "first" THEN "stack" ELSE "remember"

\* The class above the highest, below the top, that is constructed; if the top one names
\* a layer of the wrong kind that one once more, alone if nothing is known of its class
ToBuild(levels) ==
  IF Last(levels).name # None /\ ~parts THEN Len(levels)
  ELSE 1 + Max({0} \cup {i \in 1 .. Len(levels) - 1 : levels[i].name # None})

Layer(levels, i) == [kind |-> levels[i].kind, below |-> IF i = 1 THEN None ELSE levels[i - 1].name]

\* The layer requirement has nothing (more) to construct
NothingToBuild(p) == Satisfied(p) \/ LayerSatisfied(p) \/ conf[p].levels = <<>>

SkipLayer ==
  /\ At("layer") /\ NothingToBuild(run.plugin)
  /\ Go("table")
  /\ UNCHANGED <<context, conf, cached, given, stacking, search, history>>

BuildLayer ==
  /\ At("layer") /\ ~NothingToBuild(run.plugin)
  /\ LET p == run.plugin
         levels == conf[p].levels
         i == ToBuild(levels)
     IN /\ i > 1 => levels[i - 1].name # None
        /\ layers' = Append(layers, Layer(levels, i))
        /\ conf' = [conf EXCEPT ![p].levels[i].name = Len(layers) + 1]
        /\ Go(IF i = Len(levels) THEN "table" ELSE "layer")
  /\ UNCHANGED <<tables, modules, cached, given, stacking, search, history>>

\* The constructor raises: the layers above are not tried
BuildLayerFails ==
  /\ At("layer") /\ ~NothingToBuild(run.plugin)
  /\ failed' = TRUE
  /\ Go("table")
  /\ UNCHANGED <<context, conf, cached, given, stacking, search, constructed, unmet, mixed, runs>>

\* The symbol table requirement has what it needs
TableKnown(p) == p \in ModulePlugins /\ ~Satisfied(p) /\ ~TableSatisfied(p) /\ conf[p].isf # Unknown

SkipTable ==
  /\ At("table") /\ ~TableKnown(run.plugin)
  /\ Go("module")
  /\ UNCHANGED <<context, conf, cached, given, stacking, search, history>>

BuildTable ==
  /\ At("table") /\ TableKnown(run.plugin)
  /\ tables' = Append(tables, [kind |-> conf[run.plugin].isf])
  /\ conf' = [conf EXCEPT ![run.plugin].table = Len(tables) + 1]
  /\ Go("module")
  /\ UNCHANGED <<layers, modules, cached, given, stacking, search, history>>

BuildTableFails ==
  /\ At("table") /\ TableKnown(run.plugin)
  /\ failed' = TRUE
  /\ Go("module")
  /\ UNCHANGED <<context, conf, cached, given, stacking, search, constructed, unmet, mixed, runs>>

\* ModuleRequirement.construct() with the section's values
AddModule(p, section) ==
  /\ modules' = Append(modules, [layer |-> LayerName(section), table |-> section.table,
                                 offset |-> section.offset])
  /\ conf' = [conf EXCEPT ![p] = [section EXCEPT !.module = Len(modules) + 1]]

ModuleComplete(p) ==
  /\ p \in ModulePlugins /\ ~Satisfied(p)
  /\ conf[p].class /\ LayerSatisfied(p) /\ TableSatisfied(p) /\ conf[p].offset # Unknown

SkipModule ==
  /\ At("module") /\ ~ModuleComplete(run.plugin)
  /\ Go(AfterConstruction)
  /\ UNCHANGED <<context, conf, cached, given, stacking, search, history>>

BuildModule ==
  /\ At("module") /\ ModuleComplete(run.plugin)
  /\ AddModule(run.plugin, conf[run.plugin])
  /\ Go(AfterConstruction)
  /\ UNCHANGED <<layers, tables, cached, given, stacking, search, history>>

-----------------------------------------------------------------------------
(* LayerStacker *)

\* "Quick exit if we're not needed"
NotNeeded ==
  /\ At("stack") /\ Satisfied(run.plugin)
  /\ Go("symbols")
  /\ UNCHANGED <<context, conf, cached, given, stacking, search, history>>

\* Where the layer stacked for an earlier run is suitable.  If its name is None, the layer
\* requirement has none while it is tried
CacheSuits(p) == Suitable(p, Suits(p, cached.top), cached.top # None, parts \/ cached.top = None)

CacheApplies(p) == cached # <<>> /\ CacheSuits(p) # {}

\* What is cached is merged into the section, there, and its layer takes the place of any
\* that is named
UseCached ==
  /\ At("stack") /\ ~Satisfied(run.plugin) /\ CacheApplies(run.plugin)
  /\ LET p == run.plugin
         d == Min(CacheSuits(p))
         branch == Branch(cached.from, cached.depth)
     IN /\ conf' = [conf EXCEPT ![p].levels = NameAt(MergeLevels(@, d, branch), d, cached.top)]
        /\ mixed' = MixedBy(p, d, branch) \cup {q \in {p} : cached.from \in mixed}
  /\ Go("symbols")
  /\ UNCHANGED <<context, cached, given, stacking, search, constructed, unmet, failed, runs>>

\* Otherwise the image is stacked, in a clone of the context
BeginStacking ==
  /\ At("stack") /\ ~Satisfied(run.plugin) /\ ~CacheApplies(run.plugin)
  /\ cached' = <<>>
  /\ stacking' = [left |-> [i \in DOMAIN Stackers |-> i], at |-> 1, stack |-> <<FileLayer>>]
  /\ parts' = (parts \/ (cached # <<>> /\ cached.top = None))
  /\ Go("scan")
  /\ UNCHANGED <<context, conf, given, depth, history>>

\* A stacker that raises stacks nothing, as one that returns None
Stacks(i, kind) == i \in working /\ kind \in Stackers[i].over

\* One turn of stack_layer()'s inner loop; after a stacker has stacked, the ones
\* left are tried again from the first
TryStacker ==
  /\ At("scan") /\ stacking.at <= Len(stacking.left)
  /\ LET i == stacking.left[stacking.at]
     IN stacking' =
          IF Stacks(i, Last(stacking.stack))
          THEN [left |-> RemoveAt(stacking.left, stacking.at), at |-> 1,
                stack |-> Append(stacking.stack, Stackers[i].gives)]
          ELSE [stacking EXCEPT !.at = @ + 1]
  /\ UNCHANGED <<context, conf, cached, given, search, run, history>>

(***************************************************************************)
(* find_suitable_requirements() for what was stacked: the layer requirement*)
(* takes the highest layer that suits, one below it the highest.  That     *)
(* layer's configuration is merged into the section and ConstructionMagic  *)
(* called; a requirement that is satisfied stays as it is.                 *)
(***************************************************************************)
Highest(p, stack) == Max({i \in DOMAIN stack : stack[i] \in Accepts[p]} \cup {0})

StackSuits(p) == Suitable(p, Highest(p, stacking.stack) # 0, TRUE, parts)

NothingSuits ==
  /\ At("scan") /\ stacking.at > Len(stacking.left)
  /\ StackSuits(run.plugin) = {}
  /\ Go("symbols")
  /\ UNCHANGED <<context, conf, cached, given, stacking, search, history>>

\* The requirement at that depth is satisfied
Named(p, d) == IF d = 0 THEN LayerSatisfied(p) ELSE conf[p].levels[Len(conf[p].levels) - d].name # None

ApplyStack ==
  /\ At("scan") /\ stacking.at > Len(stacking.left)
  /\ StackSuits(run.plugin) # {}
  /\ LET p == run.plugin
         d == Min(StackSuits(p))
         top == IF d = 0 THEN Highest(p, stacking.stack) ELSE Len(stacking.stack)
         found == Unbuilt(SubSeq(stacking.stack, 1, top))
     IN /\ conf' = IF Named(p, d) THEN conf ELSE [conf EXCEPT ![p].levels = MergeLevels(@, d, found)]
        /\ mixed' = IF Named(p, d) THEN mixed ELSE MixedBy(p, d, found)
        /\ depth' = d
  /\ run' = [run EXCEPT !.step = "layer", !.magic = "stacked"]
  /\ UNCHANGED <<context, cached, given, stacking, parts, constructed, unmet, failed, runs>>

\* self._cached = (the layer's name, or None; a reference to its section)
Remembered(p) ==
  [top |-> conf[p].levels[Len(conf[p].levels) - depth].name, from |-> p, depth |-> depth]

Remember ==
  /\ At("remember")
  /\ cached' = Remembered(run.plugin)
  /\ Go("symbols")
  /\ UNCHANGED <<context, conf, given, stacking, search, history>>

-----------------------------------------------------------------------------
(* SymbolFinder and KernelModule *)

\* The layer to scan for a banner; a table that is there is not looked for again
LayerToScan(p) ==
  IF p \in ModulePlugins /\ ~TableSatisfied(p) THEN LayerName(conf[p]) ELSE None

Banner(p) == LayerToScan(p) # None /\ layers[LayerToScan(p)].kind \in Banners

FoundIsf(p) == [conf EXCEPT ![p].isf = layers[LayerToScan(p)].kind]

NoBanner ==
  /\ At("symbols") /\ ~Banner(run.plugin)
  /\ Go("kernel")
  /\ UNCHANGED <<context, conf, cached, given, stacking, search, history>>

FindSymbols ==
  /\ At("symbols") /\ Banner(run.plugin)
  /\ LET p == run.plugin IN
     /\ tables' = Append(tables, [kind |-> FoundIsf(p)[p].isf])
     /\ conf' = [FoundIsf(p) EXCEPT ![p].table = Len(tables) + 1]
  /\ Go("kernel")
  /\ UNCHANGED <<layers, modules, cached, given, stacking, search, history>>

FindSymbolsFails ==
  /\ At("symbols") /\ Banner(run.plugin)
  /\ conf' = FoundIsf(run.plugin)
  /\ failed' = TRUE
  /\ Go("kernel")
  /\ UNCHANGED <<context, cached, given, stacking, search, constructed, unmet, mixed, runs>>

KernelOffset(p) == Last(conf[p].levels).kernelOffset

\* The module's class is set; without the layer and the table it goes no further,
\* nor without kernel_virtual_offset, which raises a KeyError
KernelModule ==
  /\ At("kernel") /\ run.plugin \in ModulePlugins /\ ~Satisfied(run.plugin)
  /\ LET p == run.plugin
         section == [conf[p] EXCEPT !.class = TRUE]
     IN IF LayerSatisfied(p) /\ TableSatisfied(p) /\ KernelOffset(p) # Unknown
        THEN AddModule(p, [section EXCEPT !.offset = KernelOffset(p)])
        ELSE conf' = [conf EXCEPT ![p] = section] /\ UNCHANGED modules
  /\ Go("check")
  /\ UNCHANGED <<layers, tables, cached, given, stacking, search, history>>

NoKernelModule ==
  /\ At("kernel") /\ (run.plugin \notin ModulePlugins \/ Satisfied(run.plugin))
  /\ Go("check")
  /\ UNCHANGED <<context, conf, cached, given, stacking, search, history>>

\* construct_plugin() constructs the plugin or raises UnsatisfiedException
Check ==
  /\ At("check")
  /\ IF Satisfied(run.plugin)
     THEN constructed' = constructed \cup {run.plugin} /\ unmet' = unmet \ {run.plugin}
     ELSE unmet' = unmet \cup {run.plugin} /\ UNCHANGED constructed
  /\ Go("idle")
  /\ UNCHANGED <<context, conf, cached, given, stacking, search, failed, mixed, runs>>

Step ==
  \/ SkipLayer \/ BuildLayer \/ BuildLayerFails
  \/ SkipTable \/ BuildTable \/ BuildTableFails
  \/ SkipModule \/ BuildModule
  \/ NotNeeded \/ UseCached \/ BeginStacking
  \/ TryStacker \/ NothingSuits \/ ApplyStack \/ Remember
  \/ NoBanner \/ FindSymbols \/ FindSymbolsFails
  \/ KernelModule \/ NoKernelModule \/ Check

Next == Step \/ \E p \in Plugins : Start(p)

\* run() is a plain call in one thread: it goes on until it returns
Spec == Init /\ [][Next]_vars /\ WF_vars(Step)

-----------------------------------------------------------------------------
(* Properties *)

\* However often plugins are run, whatever failed and was tried again, a kernel
\* module is made of one layer that suits its plugin, of the symbols found for that
\* layer and of the offset found for it -- unless sections of two layers were mixed.
ModuleOfOnePiece ==
  \A p \in (constructed \cap ModulePlugins) \ mixed :
    LET module == modules[conf[p].module]
        kind == layers[module.layer].kind
    IN /\ kind \in Accepts[p] /\ module.layer = LayerName(conf[p])
       /\ tables[module.table].kind = kind /\ module.offset = kind

\* stack_layer() goes as far as the image allows: when it is done no unused stacker
\* recognises the top, and each layer was put there by a stacker that recognised the
\* one below and was used once.
StackIsMaximal ==
  At("scan") /\ stacking.at > Len(stacking.left) =>
    LET used == DOMAIN Stackers \ Range(stacking.left)
        stack == stacking.stack
    IN /\ \A i \in Range(stacking.left) : ~Stacks(i, Last(stack))
       /\ Len(stack) = Cardinality(used) + 1
       /\ \A n \in 2..Len(stack) : \E i \in used : Stacks(i, stack[n - 1]) /\ Stackers[i].gives = stack[n]

\* As long as nothing has failed, the plugins with nothing of their own configured
\* share one stack of layers: the image is opened and stacked once for all of them,
\* if none that was run rejects its top.
OneStack ==
  LET sharing == {p \in Plugins \ (configured \cup mixed) : LayerName(conf[p]) # None}
      hasRun == {p \in Plugins : p \in constructed \cup unmet \/ (p = run.plugin /\ ~At("idle"))}
  IN ~failed =>
       \A p, q \in sharing :
         Kinds(conf[p].levels) = Kinds(conf[q].levels) /\ (\A r \in hasRun : Suits(r, LayerName(conf[p]))) =>
           LayerName(conf[p]) = LayerName(conf[q])

\* A run that ends with UnsatisfiedException, when nothing has failed and no
\* sections were mixed, has its reason in the image: no layer that suits was found,
\* no symbols are known for it, or it comes without a kernel offset.
UnmetForCause ==
  run.step = "idle" /\ run.plugin \in unmet \ mixed /\ ~failed =>
    LET p == run.plugin
        name == LayerName(conf[p])
    IN IF name = None THEN Range(stacking.stack) \cap Accepts[p] = {}
       ELSE /\ p \in ModulePlugins
            /\ layers[name].kind \notin Banners \/ KernelOffset(p) = Unknown

\* Every run comes to an end, with the plugin or with an exception: construction and
\* stacking make progress with each step.
RunEnds == run.step # "idle" ~> run.step = "idle"

=============================================================================
