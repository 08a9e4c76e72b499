# Verification of Volatility 3 in TLA+

Volatility 3 extracts information from images of memory. A *plugin* declares
requirements; *automagics* fill in what the user did not configure by stacking
*layers* on the image, finding *symbol tables* and making *modules*; the plugin
then reads, through the layers, *objects* described by types of the tables, and
yields a *TreeGrid*. This project models the parts of that machinery which keep
state, checks them with TLC, and proves theorems with TLAPS about the registry of layers, the
configuration tree, what is read and written through layers and what scans report, the types of the symbol space, the
stacking of layers and the runs of automagics, the tree of rows, the walks over kernel structures and the cache of symbols.

All paths below are relative to `src/volatility3/framework/` unless they start
with `src/`. `PROJECT.json` maps every definition to the lines it models and lists
the hazards of the code with the properties that cover them.

## 1. Inventory

| Part | State | Operations | What is hard about it | What makes it correct | Modelled |
|---|---|---|---|---|---|
| Layer registry (`interfaces/layers.py`, `LayerContainer`) | `_layers`: name -> layer | `add_layer`, `del_layer`, `free_layer_name`, `read`, `write` | layers know each other by name only; each call looks one edge deep; names are taken long before they are used; `check_cycles` is not implemented | closed, acyclic, nothing changes under a reader | `LayerContainer`, `LayerFootprint`, `ContextProofs` |
| Reading and writing (`layers/linear.py`, `segmented.py`, `physical.py`) | the buffer or file; one `lru_cache` | `read`, `write`, `mapping` | the cache outlives writes; partial writes; holes, padding, truncated images | each byte comes from where the mapping says | `LayerIO` |
| Scanning (`interfaces/layers.py`, `layers/scanners/`) | scan in progress | `scan`, `_coalesce_sections`, `_scan_iterator`, `_scan_chunk` | boundaries of sections, chunks and blocks; a pool of processes; exceptions swallowed | everything is found, once, in order | `LayerScan` |
| Intel translation and swap layers (`layers/intel.py`) | caches of tables and entries | `_translate`, `_translate_entry`, `_translate_swap`, `mapping` | pages of several sizes, swapped, missing, cut; joining and skipping; tables that change | agrees with the page tables byte by byte | `IntelLayer` |
| Configuration tree (`interfaces/configuration.py`, `HierarchicalDict`) | nested dictionaries | get, set, delete, `branch`, `splice`, `merge` | dictionaries are handed out by reference | a tree; configurables work on their section of it | `ConfigTree`, `ContextProofs` |
| Requirements (`interfaces/configuration.py`, `configuration/requirements.py`) | none of their own | `unsatisfied`, `construct` | depend on configuration and context at once | a satisfied requirement can be used | as part of `Automagic` |
| Automagic and plugin construction (`automagic/`, `plugins/__init__.py`) | `_cached` of the stacker, the context, the configuration | `run`, `construct_plugin`, each automagic's `__call__` | exceptions are swallowed at three levels; the stacker remembers former plugins; runs are repeated | a plugin gets one consistent stack, symbols and kernel, or a reason | `Automagic` |
| Kernel of Windows (`automagic/pdbscan.py`, `symbols/windows/pdbutil.py`) | offset and table in the configuration | `determine_valid_kernel` with its five methods, `pdbname_scan`, `load_windows_symbol_table` | headers and signatures are looked for in opposite directions, with pages missing; results of several layers; pointers that cannot be read | the kernel that is there, with its own symbols | `KernelPdbScan` |
| PDB conversion (`symbols/windows/pdbconv.py`) | types as read, the table | `read_tpi_stream`, `process_types`, `replace_forward_references`, `read_symbol_stream` | types that stand for others defined later; indexes from three origins; one error ends all | the table says what the file says | `PdbConvert` |
| Symbol space (`symbols/__init__.py`) | tables, caches of types and symbols | `append`, `remove`, `clear_symbol_cache`, `get_type`, `get_symbol` | types refer to each other in circles and across tables; caches across tables; exceptions in the middle | no type of a table that is gone; references resolved | `SymbolSpace` |
| TreeGrid (`renderers/__init__.py`) and renderers (`cli/text_renderer.py`, `cli/text_filter.py`) | rows, paths, the generator; what a renderer has printed | `populate`, `visit`, `_insert`, `render` | visits while populating; a failed population tried again; filters and hidden columns | every wanted row once, in order, where it belongs | `TreeGrid`, `Rendering` |
| Symbol cache (`automagic/symbol_cache.py`) | an SQLite file | `_connect_storage`, `update` | several programs on one file, transactions, two clocks | rows agree with the files; nobody is locked out | `SymbolCache` |
| Timeliner (`plugins/timeliner.py`) | the dictionary of all times | `_generator` | other plugins raise; loops share variables | every entry with its own times | `Timeliner` |
| Output files (`interfaces/plugins.py`, `cli/__init__.py`, plugins that dump) | a directory, temporary files | `open`, `write`, `close`, the finalizer | names are tested, then taken; exceptions on a dozen paths; programs that are killed | no file is lost or goes by another's name; whole files | `OutputFiles` |
| Remote resources (`layers/resources.py`) | a directory of downloads | `ResourceAccessor.open` | programs that are killed, or download the same at the same time | what is in the directory is whole | `ResourceCache` |
| Dump formats (`layers/lime.py`, `avml.py`, `elf.py`, `crash.py`, `xen.py`, `vmware.py`, `qemu.py`) | the segments | `_load_segments`, `_find_segment`, `_decode_data` | ill-formed and cut files; sections that depend on earlier ones | bytes are where the headers say; loading ends | `DumpFormats` |
| Kernel walks (`symbols/*/extensions`, `symbols/linux`, `symbols/mac`, `plugins/windows/handles.py`) | what has been seen | generators over lists, trees and tables | memory that is not consistent | everything once, nothing left out, an end | `KernelLists`, `KernelTrees`, `KernelWalksProofs` |
| Kernel log (`plugins/linux/kmsg.py`) | where a reader is in a ring | `run` of each version, `get_text_from_data_ring` | three rings, each gone round any number of times when the image is taken; damaged lengths | the lines that are there, once, in order; an end | `KernelLog` |
| Kernel symbols (`symbols/linux/kallsyms.py`) | the position in a stream of names, a cache of offsets, the generator | `get_core_symbols`, `lookup_address`, `lookup_name` | names are found by skipping others; two searches by halves; tables that are lost in part; calls between the turns of the generator | the symbol the kernel has, whatever was asked before, or none for something lost | `Kallsyms` |
| Kernel modules (`symbols/linux/utilities/modules.py`) | results of the gatherers, the file that is made | `run_modules_scanners`, `module_lookup_by_address`, `get_hidden_modules`, `get_load_parameters`, `ModuleExtract.extract_module` | one module by several ways, structures that are none or that cannot be read; numbers that refer to places in three orders | what is found by any way is known, once; the file describes what it holds | `KernelModules`, `ModuleExtract` |
| Registry hives (`plugins/windows/registry/hivelist.py`, `layers/registry.py`, `symbols/windows/extensions/registry.py`, `printkey.py`) | hives seen; the path to a key | `list_hive_objects`, `get_subkeys`, `get_values`, `decode_data`, `key_iterator`, `visit_nodes`, `get_key` | links astray, cells missing, keys and lists in loops | what can be read, once, in its place | `HiveList`, `HiveTree` |
| Modules of a context (`contexts/__init__.py`, `interfaces/context.py`) | names; where they are is in the configuration | `create`, `construct`, `free_module_name`, `get_module_symbols_by_absolute_location` | a module reads itself from the configuration each time; names are numbered by counting | a module stays what it was created as, and answers for its addresses | `ContextModules` |
| Symbols of executables (`plugins/windows/pe_symbols.py`) | modules collected, values that remain | `get_kernel_modules`, `get_process_modules`, `find_symbols`, `path_and_symbol_for_address` | two methods in every mapping, each of which may fail; lists that change while loops go on | what is wanted is found once, and right, or it is missing for a reason | `PeSymbols` |
| ISF tables, objects and templates, other plugins, command line | little, or none that is shared | parsing, reading, printing | formats | values | no (section 7) |

How the parts call each other. The command line gives `automagic.run()` a context,
its configuration and a plugin's requirements. `ConstructionMagic` constructs what
is satisfied, `LayerStacker` adds layers (`LayerContainer.add_layer`) and writes
the configuration (`HierarchicalDict.merge`, `splice`), `SymbolFinder` scans layers
(`scan`) and writes the location of a table, and modules are made of a layer, a
table and an offset. A `ConfigurableInterface` keeps its section of the tree. Every
read goes by name through `LayerContainer.read`, one layer after the other down to
a file. Everything runs in one thread, except the pool of processes in `scan()`;
what interleaves are *callers*: plugins run by other plugins (`timeliner`), layers
constructed inside constructors, generators resumed later, visitors that use the tree they
visit; and *programs* that run at the same time, which share a directory of downloads and
a database. The plugin's rows go into a `TreeGrid` while the renderer takes them out.

## 2. Modules

| Module | Models | EXTENDS / instance |
|---|---|---|
| `LayerContainer` | the registry and the layer objects on their way into it | |
| `LayerFootprint` | what the registry promises to readers | implemented by `LayerContainer`, which instantiates it (`Promise`) |
| `ContextProofs` | theorems about what a context holds: its registry of layers, which implements `LayerFootprint`, and its configuration tree | EXTENDS `LayerContainer`, `ConfigTree`, `ProofBasics` |
| `LayerIO` | reads and writes through two segmented layers on a buffer | |
| `LayerProofs` | theorems about the bytes read and written, and about what scans report | EXTENDS `LayerIO`, `LayerScan`, `ProofBasics` |
| `LayerScan` | one scan of a layer | |
| `ConfigTree` | the configuration tree and those who keep sections of it | |
| `SymbolSpace` | tables, types, symbols and their resolution | |
| `SymbolSpaceProofs` | theorems about the types in the cache | EXTENDS `SymbolSpace` |
| `Automagic` | several runs of plugins in one context | |
| `AutomagicProofs` | theorems about stacking, and about what runs leave in the context and the configuration | EXTENDS `Automagic`, `ProofBasics` |
| `KernelPdbScan` | how the kernel of a Windows image is found | |
| `PdbConvert` | how a PDB becomes a table of types and symbols | |
| `TreeGrid` | the tree of rows, populated and visited | |
| `Rendering` | the renderers, filters and hidden columns | EXTENDS `TreeGrid` |
| `Timeliner` | several plugins run by one, whose rows are rendered | EXTENDS `Rendering` |
| `TreeGridProofs` | theorems about the tree of rows, whoever uses it | EXTENDS `Timeliner`, `ProofBasics` |
| `OutputFiles` | the files plugins write memory to, in a directory of several programs | |
| `IntelLayer` | translation by page tables, `mapping`, the hex dump | |
| `KernelLists` | walks over lists of kernel structures | |
| `KernelTrees` | walks over trees and tables of them | EXTENDS `KernelLists` |
| `KernelWalksProofs` | theorems about the walks | EXTENDS `KernelTrees`, `ProofBasics` |
| `ResourceCache` | downloads shared by programs | |
| `SymbolCache` | the database of symbol files, and what updates it | EXTENDS `ResourceCache` |
| `SymbolCacheProofs` | theorems about the cache of downloads, the lock of the database and its rows | EXTENDS `SymbolCache` |
| `DumpFormats` | how files of eight formats become segments | |
| `KernelLog` | the log of a Linux kernel, written and read | |
| `Kallsyms` | the symbols of a Linux kernel, listed and looked up | |
| `KernelModules` | the modules of a Linux kernel, gathered and looked up; hidden ones, parameters | |
| `ModuleExtract` | an ELF file made of a kernel module in memory | |
| `ContextModules` | the modules of a context, their names and their places in the configuration | |
| `PeSymbols` | names and addresses resolved in mapped executables | |
| `HiveList` | how the hives of a Windows kernel are found | |
| `HiveTree` | keys, values and data of a hive, as they are walked | |
| `ProofBasics` | lemmas of several proofs: induction over numbers, functions defined by recursion, what is in sequences | |
| `MC*` | instances for TLC; `LayerContainer` is run as it is | EXTENDS the module it instantiates; `MCTimeliner` `Timeliner` and `OutputFiles`, `MCImageReaders` `KernelLog` and the hives, `MCKernelWalks` `KernelTrees`, `Kallsyms` and `KernelModules`, `MCDumpFormats` `DumpFormats` and `ModuleExtract`, `MCSymbolSpace` `SymbolSpace`, `ContextModules` and `PeSymbols`, `MCLayerScan` `LayerScan`, `KernelPdbScan` and `PdbConvert` |

In each module the definitions under "Deviations" are bugs one could make in the
code; they are used by the mutants of `PROJECT.json` only, to show that each
property can fail.

### LayerContainer

`layers` is `_layers`; `pending` holds the objects that were constructed and not
yet handed to `add_layer`, as the code has them between
`context.layers.free_layer_name(...)` and `context.add_layer(...)`; `destroyed`
those whose `destroy()` has run. `Construct` and `ConstructFree` build an object
under a fixed or a free name on top of any names whatever, registered or not;
`AddLayer` / `AddLayerRaises` are the two outcomes of `add_layer`, `DelLayer` the
only one of `del_layer` that changes anything. A data layer has no dependencies.

`LayerFootprint` has no dependencies at all, but the set of layer *objects* that a
read can touch. `FootprintsFixed` says that the registry implements it: from the
moment a layer is added until it is removed, what it reads through is fixed.

### LayerIO

`buffer` is the buffer of a `BufferDataLayer`, under two `SegmentedLayer`s. `stack`
holds the calls in progress: a call to the upper layer, and the one it makes to the
lower one. `Read` and `Write` are calls from outside, by a plugin directly or through
`LayerContainer`; `ReadChunk` and `WriteChunk` are one turn of the loop over
`mapping()`, a generator, whose next chunk (`NextChunk`) is therefore sought only when
it is asked for; `ReadReturns`, `WriteReturns`, `ReadRaises` and `WriteRaises` end a call, the
last two all of them, because nothing catches the exception. `Bisect` is the search of
`_find_segment`, which compares pairs, the second of them being the maximum address of
the layer *below*. So a segment that maps to that maximum, or behind it (`_load_segments` does not look), is
not found at its first address, but is at all others, and `mapping()` with `ignore_errors` finds it as the next one.
The properties say so in terms of addresses: `Missed` is such a first address, `Hidden` one that leads to such an address
in one of the layers, and `Found` what is behind an address for a call: nothing, without `pad`, if it is hidden. `cache` is the `lru_cache` around `LinearlyMappedLayer.read`, shared by
all layers and keyed by the arguments as they are passed (a `pad` passed by position is
another key than one passed by name). Bytes are numbers: every write brings new ones,
so each byte tells when it was written. `past` keeps every content the buffer has had.

### LayerScan

A scan starts with the sections joined (`Joined`), clips them to the layer one loop
turn at a time (`DropFirst` .. `LastFits`), cuts them into chunks (`DataChunks` is
`DataLayerInterface._scan_iterator`, `MappedChunks` with `PackBlock` and `PackChunk`
that of `TranslationLayerInterface`; the turns of each loop are a function of their number:
`Joining`, `DataTurns`, `MappedTurns`, `BlockTurns`), and runs the scanner on each: in sequence
(`ScanChunk`), or by a pool whose processes end in any order (`PoolChunk`) and whose
results are put together when all have (`PoolReady`). With threads there is no pool
at all, because the module `threading` has no `Pool`. Data is the sequence of the
addresses it comes from; the scanner reports every position at which something of
`Width` bytes could stand, so that a position which is missed, or reported twice,
shows whatever the needle is.

### ConfigTree

`heap` maps identities to dictionaries, because `branch` hands out references and
`splice` stores them. `Context*` are calls on `context.config`; `HolderReads`,
`HolderSets`, `HolderForgets` are a `ConfigurableInterface` that looks at `self.config`
(and keeps what it gets), sets a value in it, and is given another path. What the code does by
recursion on the rest of a path, or in a loop over items, is a function of the number of steps taken:
`Walk` (the dictionaries on a path), `Descent` (the same, created if missing) and `Merging` (the heaps between the
rounds of `merge`, whose keys are read first and whose values when their turn has come).

### SymbolSpace

`heap` holds the templates tables have made, `resolved` and `resolvedSymbols` are
`_resolved` and `_resolved_symbols`. `GetType` starts a traversal, `Visit` is one
turn of its loop, `Finish` its end, where references are replaced and the answer is
given; in between, a malformed type raises and leaves things as they are. No other
call runs during a traversal: it is one call of one thread. The references are looked
at in the order of the code's work lists. A chain of pointers and arrays is one
wrapper.

### Automagic

`conf` is each plugin's section of the configuration: the classes of the stacked
layers, each with the name of the layer constructed of it and the `kernel_virtual_offset` it carries, the symbol location,
the table, the offset of the module, the module. `Start` begins a run of any plugin; the steps of the run
follow the order of the automagics: `ConstructionMagic`, `LayerStacker` (cached or
not, one stacker at a time), `SymbolFinder`, `KernelModule`, and the construction of
the plugin, in which any `construct()` may raise. `Step` is whichever of these is
next. Which stackers recognise the image (`working`) is chosen at the start, so one
run covers all images. Three variables only remember: `configured`, the plugins whose section
was not empty at first; `mixed`, those whose section got what belongs to a stack of other classes (finding 5);
and `failed`. The properties say by them for whom, and until when, they hold.

A layer requirement gets the requirements of its class when `ConstructionMagic` meets it with a class but no layer (`parts`), so after a failure
that left half a stack. `find_suitable_requirements()` (stacker.py:296) then goes down from a requirement that is not satisfied into those of its
class, and so on (`Suitable`): what is cached (`CacheSuits`) or stacked (`StackSuits`) may be merged into the section below its top
(`MergeLevels` at a depth), the name that is cached put there (`UseCached`), and the lower layer remembered as if it were the top one (`depth`,
`Remembered`). `cached` is the name and the place of the section it refers to: the plugin and how far below the top. The name may be `None`, which
takes the name from a class that had one.

### KernelPdbScan

`windows` is the image: pages of physical memory, each with or without the `MZ` of a header and with any PDB
signatures, and one or two Intel layers that map them. `PdbNameScan` gives the signatures of a range, each with the
header in front of it; each of the five methods (`MethodLowStub` .. `MethodSlowScan`) is one call that gives a kernel, none, or
raises. `TryMethod` is one turn of the two loops of `determine_valid_kernel`, `Fulfil` what `__call__` does with
the result, `Begin` its loop over the requirements.

### PdbConvert

`pdb` is the file, as `consume_type` and the objects of the symbol stream give it: types that refer to earlier ones by index and to any by name, and
symbols. `ReadType` is one turn of `_read_info_stream`, `ProcessType` of `process_types`, with what `get_type_from_index`
does to the size of pointers (`pointerSize`); `Resolve` is `replace_forward_references` over all types, `ReadSymbol` one
turn of `read_symbol_stream`. `TypeFromIndex`, a chain of links such as array, pointer, base, `SizeFromIndex`, `Element` and `OmapLookup` are the functions
of those names; `SizeFromIndex` is 0 where the code raises.

### TreeGrid, Rendering, Timeliner

`nodes` and `kids` are the `TreeNode`s and their lists of children; `stack` holds the calls
of `populate` and `visit` in progress, with `prev_nodes` and the place in each list. A call
runs a function on each row, and that function may raise, or call `visit` itself, which
populates a tree that is not populated yet (`Proceed`, `FunctionReturns`, `Unwind`). `Insert`
is `_insert` with the paths it changes (`PathChanged`). In `Rendering` the function is that of a
renderer: plain (`quick`, CSV), aligned (`pretty`), nested (JSON, Arrow), or Mermaid,
which finds the parent by its own stack. In `Timeliner` the rows are those it yields when
the plugins it runs have ended or raised: `TakeTime`, `ListEntry` and `YieldRow` are one turn of its
loops, `times` is the variable that outlives them.

### OutputFiles

A program has a list of dumps to make, each by one of thirteen plugins, on files that are temporary
until they are closed or (`~direct`) kept in memory. The plugins differ in what a table says of them (`Producers`):
which exceptions they catch when a file is opened, written and closed, what they return then, whether they close the file
or leave it to its finalizer, and when they look at its name. `Open`, `Write`, `WriteFails`, `Written` are the part in the plugin;
`ChooseName` is `_get_final_filename()`, and `Rename`, or `Create` and `Copy`, what `close()` does then, with other programs in between;
`Report` is the row. The temporary file is there before `Open` looks at the name. A program is killed at any step.

### IntelLayer

`layer` holds the tables, what of the base layer is there, and the swap layers; an entry is a
kind, the PSE bit and a number. `Walk` is `_translate_entry` down the levels, with `tableCache` and
`entryCache` for the two `lru_cache`s; `Translate` adds the offset in the page, or takes the
path of `_translate_swap`. `Chunk` is one turn of the loop of `_mapping`, with the masks by which
it skips what is not there (`Skipped`), `Yields` the joining in `mapping`. `Dump*` is `render_bytes`.
`Write` changes a table between calls.

### KernelLists, KernelTrees

`memory` is any way the structures can be linked; a walk is one of twelve over lists or five
over trees, and `status` says how it ends. A loop over structures remembers their
addresses, one over `Pointer`s the places of the pointers. A generator that calls itself
is a stack of calls still to be made.

### ResourceCache, SymbolCache

Programs run `ResourceAccessor.open` on one URL, block by block, and may fail or be killed at
any step; a file that another program has created again is still written to under its old
inode. `SymbolCache` has each program connect, compare, check and read the files, and take
the remote list (through `ResourceCache`), with the transactions in between. `databases`
keeps also those that were unlinked while others use them. What SQLite does is
modelled by its effect: one writer at a time, that may have the whole file to itself. A program that asks for the
remote list has a SELECT open, and its rows not fetched (`reading`), until it stores the first entry of the list or its update ends.
As long as it has, nobody else can commit (`Readers`): `Commit` then raises, what was changed stays uncommitted, and
the lock that was asked for keeps everybody else from reading (`spilled`). `Outdated` compares with the midnight
before the period, as `date('now', ...)` does.

### DumpFormats

`dump` is a file: its records (headers, chunks, frames, words of a bitmap, sections) each with its
place. An action reads one of them and changes `segments`, or raises. `FindSegment` is the
search by bisection, `Decoded` the byte that comes out, given as a position in the
file. `Said` is the reference: what each header claims, whatever else is in the file.
In a file of Xen `names` is the table of strings and the records are the headers of sections; `HeaderFor`
takes the header at the place that a name has among the strings (xen.py:72-90), and `XenRefused` says when that
ends in an exception.

### KernelLog, HiveList, HiveTree

Each is one reader of an image that is damaged in one place. In `KernelLog` the kernel logs
(`LogChars`, `LogRecord`, `LogDescriptor`: external, they say what a reader is to expect of
kernels up to 3.5, up to 5.10, and later ones) until `Acquire`, and then `ReadChars`,
`ReadRecord` and `ReadDescriptor` are the loops of the three `run()`. A text is made of units that name their
record, so that one put together from two records shows. A reader that never ends is given up where it has come
back to what it has done before.

In `HiveList` a walk is one call of `_LIST_ENTRY.to_list` (`StartWalk`, `WalkRound`); `Over`
decides, as `list_hive_objects` does, which is next: backwards (`AfterBackward`) or from the
next hive of the scan (`ScanFrom`). In `HiveTree` `frames` are the generators that call each other, `get_subkeys` for a key
(`KeyTurn`), `_get_subkeys_recursive` for a list (`ListTurn`); what happens to a key that comes out of them
depends on who asks: `PrintKey`, `VisitNode`, `GetKey`. A cell can be read as far as its
signature, its lists, or its name and times; these are what the code asks for one
after the other, with an exception handled at another place each time.

### Kallsyms

`ksyms` is what the kernel keeps: the codes of the names and the stream they make, the addresses, the order
of the names if the kernel has one (from 6.2 on), the modules, and what of it is lost. `InStream` and `Entry`, which
are external, write names and addresses as the kernel does. `List` is one turn of the generator
`get_core_symbols`; between two turns callers look symbols up. `LookupAddress` is one call, of
`_get_symbol_pos`, `_get_symbol_offset` and `_expand_symbol`, and of `module_lookup_address` if the core has
no answer; a look-up by name goes turn by turn, from the front (`SlowTurn`) or by halves (`HalveTurn`), then back to
the first of equal names (`BackTurn`), and to the symbol (`FastTurn`). `namesIO` is the position of
`_kallsyms_names_io` and `offsets` the cache of `_get_symbol_offset`: both outlive a call.

### KernelModules, ModuleExtract

In `KernelModules` `lkms` is the image: what would be read as the structure of a module at each
place, the list, the objects of sysfs, the gatherers that are asked for. `Gathered` is what each of them yields;
`GatherModule` turns one into a `ModuleInfo`, `NextGatherer` goes to the next and in the end joins the
results (`FlattenResults`); `FindOwner` is `module_lookup_by_address`. `FindHidden` and
`GetLoadParameters` are what the plugins read beside it.

In `ModuleExtract` `lkm` lists the sections in the order of the kernel. `GatherSection` puts them into
`original_sections`; `LaySection` and `LaySymtab` are `_parse_sections`, with the symbols as
`_fix_sym_table` changes them (`Fixed`); `MakeHeader` and `MakeFile` are `extract_module`. `stage` also says how
it ended: `"made"`, `"none"` where the code returns `None`, or `"raised"`. The bytes of sections are read
with padding, but an entry of the list of sections, a symbol, or the pointers to the tables of symbols are not, and
may be unreadable (`there`, `tables`, `SymbolsThere`): `GatherSection`, `LaySection` and `LaySymtab` then raise.

### ContextModules, PeSymbols

In `ContextModules` a module of `modules` is a name and a path; where it lies, and in which table it looks, is
`moduleConf` at that path. `Create` is `Module.create` with `free_module_name`, `ConstructModule` the
`construct()` of a `ModuleRequirement`, `Locate` the look-up of an address. `createdAs` is a history.

In `PeSymbols` `mappings` is the image and `request` what a plugin asks for. `Collect` gathers the
modules; `FindIn` takes one of those wanted, and `finding` is then the state of `_resolve_symbols_through_methods`:
the method, the mapping that comes next, what was found and what remains. `ResolveThrough` is one turn over a mapping, with
`_get_symbol_value` folded over the values (`TakeValue`); `Resolved` stores what it returns. `AskAddress` is
`path_and_symbol_for_address`, over modules that were collected before.

## 3. Runs

Passing runs:

| Run | Instance | What it shows |
|---|---|---|
| `layer_container` | 2 prefixes, names with one number, 3 objects, at most 2 dependencies each | `RegistryUsable`, `Acyclic`, `UsedBindingStable` and the refinement `FootprintsFixed`, under every order of constructing, adding and deleting |
| `layer_io` | buffer of 4 bytes, two layers with holes, shared bytes and segments at and behind the end of what is below, 14 reads, 6 writes, cache of 2 | `BytesWereThere` (each byte has been at its place at some time), `FailureIsCurrent`, `WriteReachesFirstHole` |
| `layer_scan` | 13 layers of up to 12 bytes, every set of up to 3 of 7 sections, chunks of 3 with overlap 2, three modes; images of 4 pages, mapped in 4 ways, with pointers and start blocks that lead to them or not, and a second layer; PDBs of 3 types of any kinds, which 2 more have fields of, or of 2 symbols | `NothingOverlooked`: `NothingMissed` and `KernelFound` (`FoundOwnSignature`, `NoneToFind`, `OfTheLast`), and `PdbConverted` (`LaidOut`, `SymbolsRight`, `RaisedForCause`); `ReportedRightAndOnce` (and in the same order in each mode), and the liveness property `CoalesceReturns` |
| `config_tree` | 2 keys, paths of up to 3, 2 holders one above the other, 4 calls | `TreeShaped`, `LiveUnlessShadowed`, `MergeKeepsValues` |
| `symbol_space` | 2 table names, 2 types each, 2 contents, 6 calls; 3 modules, made with 2 names and a requirement, at 4 places; 3 processes and 2 modules of the kernel, whose tables can be read in some of the mappings | `OnlyCurrentTypes`, `AnswersRight`: `WrappersResolved`, `ModulesAnswer` (`NamesApart`, `KeptAsCreated`, `LocatedRight`) and `WantedFound` (`FoundRight`, `EachAccounted`, `MissingForCause`, `WantedCollected`, `OwnSymbol`) |
| `automagic` | 3 plugins, 2 of them with a kernel, 3 stackers, 4 runs | `ModuleOfOnePiece`, `StackIsMaximal`, `OneStack`, `UnmetForCause`, and the liveness property `RunEnds` |
| `timeliner` | rows of up to 3 levels and any order of levels, 10 renderings of 5 renderers, the timeliner over 2 plugins with 2 items and 2 types of times; two programs, one with a dump of any plugin or with two, under names that are free, taken or refused, in chunks of 2 | `NodesAtTheirPaths`, `YieldOrderKept`, `PopulatedIsComplete`, `WantedRowsInOrder`, over two calls, one nested, and an insertion; `PluginsHeard`: `EntriesListed`, and `OutputsKept`, `RowsNameFiles`, `FilesWhole` |
| `intel` | 2 levels of tables, pages of 4 bytes and large ones of 8, three systems, 2 calls with a write between | `MapsByteByByte`, `DumpMarksHoles`, and the liveness property `MappingReturns` |
| `kernel_walks` | 17 walks over every linking of 3 structures; kernels of 4 symbols with every choice of 4 names, a marker every 2, 2 modules in either order, any byte of a name or some addresses lost; every kind of structure of a module at 3 places | `EachElementOnce`, `WalkedToTheEnd`, `TreesRead` (`TreesWhole` and `HandlesNumbered`), `LookupsAnswered`: `SymbolsAnswered` (`ListedRight`, `AddressAnswered`, `NameAnswered`), for a look-up between any two turns of the list, and two look-ups in a row; and `ModulesAccounted` (`AllGathered`, `OwnerRight`, `HiddenRight`, `ParamsRight`) |
| `symbol_cache` | 2 programs, one local file that changes three times, a remote list of 2 blocks | `PartsForCause`, `LockHeldForCause`, `RowsRight`, with programs killed at any step |
| `dump_formats` | files of 8 formats with up to 3 headers, whole and cut; modules of 4 sections in any order | `FilesDescribed`: `BytesWhereHeadersSay` and `ModuleFileRight` (`HeadersInPlace`, `SectionsWhole`, `SymbolsInPlace`, `LinksInPlace`); and the liveness property `FilesReturn`: `LoadReturns`, and the end of `extract_module` |
| `image_readers` | logs of up to 9 lines or 5 records in rings of 12, every unit lost or zeroed; a ring of 3 hives with a link astray in each direction; hives of 3 keys and 2 lists, one cell damaged | `LogComplete`, `HivesListed`, `HiveWalked` |

Each property is stated with a comment in its module. Where the code departs from what
one would want, the passing property says *exactly how far*: `NothingMissed` excepts
the addresses that `_coalesce_sections` drops, `LiveUnlessShadowed` says when a
configurable's section is detached, `WrappersResolved` what is left unresolved and why,
`BytesWhereHeadersSay` for which files the search finds everything (those whose
headers name the segments in order), `SymbolsInPlace` when the index in a symbol is that of the header of its section, `AllGathered` which
modules are lost to others, `LogComplete` how often a ring may have gone round.

### Bounds, and why they are enough

- `LayerContainer`: a broken closure needs two layers and a third that takes a name or
  the place of one of them; a cycle, were one possible, two. Two dependencies per
  layer is what the code's layers have. The theorems need none of these bounds.
- `LayerIO`: one segment that begins at the last byte of the image, one that begins behind it, one of the upper layer
  that begins at the last address of the lower one, each longer than what is below; a byte reached by two addresses, reads that start in a hole, end in one and
  cross one; two cache entries and 14 possible reads, so entries are pushed out in
  the middle of a nested read. Writes make the buffer longer, so that an address that was hidden comes to light. Two writes tell a stale byte from one that never was.
- `LayerScan`: the last chunk of a data layer takes every size between 1 and
  `ChunkSize + Overlap`; sections touch, overlap, nest, and reach over both ends of
  the layer; blocks touch, have holes and hold bytes that cannot be read. Three
  sections are needed for the loop that does not return. Two chunks in a pool show any
  disorder.
- `KernelPdbScan`: four pages hold two modules with a signature each, headers with none, signatures without a header, and two
  in one page; maps leave out one page, or two (more than are put up with), and put the pages in another order; a hint lies in the second chunk.
- `PdbConvert`: three types make an array of what stands for a definition before it, behind it, or nowhere, directly and behind a modifier;
  three primitives are two plain ones and a pointer; symbols lie in every section, in none, and between, before and behind the entries that move them.
- `ConfigTree`: four calls detach a section, change both copies and merge them. Paths
  of three names reach below the deeper holder.
- `SymbolSpace`: a table, a second one, types of both, a replacement, and two questions.
- `Automagic`: a plugin, another one that takes the stacker's cache, one with a
  configured layer, and one of them again after a failure. Stacks of up to four classes may be left half
  built at any of them, so that a later run looks for its layer below the top, and what it remembers of it reaches one more plugin.
- `TreeGrid`: four rows go two levels up at a time, three have every order of levels; two calls
  and one in the other show a tree that is populated, or broken off, under a visitor.
- `IntelLayer`: ranges begin and end inside pages, span a large page and two small ones, and
  hit holes of the layer below; one write between two calls makes the caches stale.
- `KernelLists`, `KernelTrees`: three structures and the head give every loop (to the head,
  to itself, into the middle), every early end and every link to a node already seen.
- `Kallsyms`: names of one to four tokens, with lengths of two bytes from four tokens on; four symbols have a
  middle and two markers, aliases at the start, at the end and throughout, and names that are equal at either end of
  their order. A second look-up shows what the first has left in the cache and the stream.
- `SymbolCache`: two programs are enough for every conflict of a lock; three ticks of the clock
  with a period of one and days of two tell older, equal and younger rows, on the same day and not. With a
  remote list, time goes on only when the list is in the cache, so that rows of the list are old: commits fail
  after files were read, after rows of missing files were deleted, and after a list was entered. The two programs are symmetric.
- `DumpFormats`: three headers overlap, contain each other, leave gaps and come in any order; a
  bitmap of three words has runs that begin and end inside a word and at its ends. The names of a file of Xen
  are in the order of the headers or not, with and without one that has no section, and with `.xen_p2m`.
- `ModuleExtract`: four sections in every order of four places, one of them out of the area of modules, some at one place,
  with and without the bits above the mask; one section of each kind the code tells apart; one entry of the list, one
  symbol, or the pointers to the tables cannot be read.
- `KernelModules`: three structures, one of them not where pointers may lie, each sound, invalid or unreadable, with memory in one
  piece, in two, or over that of another; names that are in sysfs twice, and objects not referred to; every kind of parameter, arrays at their limit.
- `ContextModules`: three modules are enough for one that is deleted between two of its name, a path that is configured
  twice, and a name that another one's number makes; places overlap, touch and are of no known size.
- `PeSymbols`: a library at one place or at two, a process whose layer cannot be made, another library that ends with the name of
  the first; tables in none, one or several mappings; values wanted twice, absent, under one key and under both.
- `KernelLog`: nine lines go round a ring of 12 characters more than twice, five records one of
  12 units, and seven numbers of descriptors come back to the first; texts of 0, 1
  and 2 units end at, before and behind the end of the ring.
- `HiveList`: one link astray in each direction, with any of the entries damaged, gives breaks at the same and at
  different places, and hives that only a scan finds.
- `HiveTree`: two lists refer to each other, to themselves and to keys above and below; two names
  and paths of two tell the last name from the first. A stack of nine frames holds every path without a loop.
- Counters that would grow for ever (`MaxLayers`, `MaxWrites`, `MaxCalls`, `MaxRuns`)
  are bounded by guards of the actions that count. These are the only reasons why a
  model stops, and the reason for `CHECK_DEADLOCK FALSE`: the code is a library that
  waits for its next call, and a scan ends.

### Fairness

`Automagic` assumes `WF_vars(Step)`: `run()` and `construct_plugin()` are plain calls in
one thread, which go on until they return or raise. No fairness is assumed of `Start`.
`LayerScan` assumes `WF_scanVars(Coalesce)`, for `_coalesce_sections` is consumed whole by
`list()`; nothing is assumed of the rest, as the caller of a generator may never ask
for the next result. `IntelLayer` and `MCDumpFormats` assume weak fairness of their next step: `mapping()` is consumed
by `read`, `_load_segments` and `extract_module` are plain calls. The other modules have no liveness property and
no fairness; a program of `SymbolCache` may be killed at any time.

## 4. What is proved

`ContextProofs` is about what a `Context` holds. It proves of the registry, for any prefixes, any bounds and any number of layers,
from `BoundsAssumption` (the bounds are natural numbers) alone:

- `TypeCorrect`, `NoCycles`, `Usable`: `Spec => []` of `TypeOK`, `Acyclic`, and `RegistryUsable`, which is
  `DependenciesRegistered` (`Closed`) and `RegisteredIntact` (`Intact`);
- `UsersKeepTheirLayer`: `Spec => UsedBindingStable`, an action property.

The argument is the inductive invariant

    IInv == TypeOK /\ DependenciesRegistered /\ Acyclic /\ IdsUnique /\ RegisteredIntact

`Acyclic` alone is not inductive: a new layer could close a cycle if somebody already
depended on its name. That nobody does follows from `DependenciesRegistered` and the
check that the name is free (`AddKeepsAcyclic`). Acyclicity is stated as "every
non-empty set of layers has a member that depends on none of them", which needs no
induction along paths. `RegisteredIntact` needs `IdsUnique`: `del_layer` destroys an
object, and this must not be an object registered elsewhere, or one still to be added.
The lemmas follow the calls: `ConstructStep`, `AddedRegistry`, `DeletedRegistry`,
`TypePreserved`, `InductiveStep`.

- `FootprintsAreFixed`: `Spec => FootprintsFixed`, the refinement of `LayerFootprint`, with
  `Footprint` as the refinement mapping.

What lies below a layer (`Below`) is the least set of names that contains it and the dependencies of its members: a
definition without recursion, by which footprints can be compared. `AddRefines` says that a new layer has the footprints of its
dependencies and itself in its own, and that nobody else's changes, since nobody depends on the new name; `DeleteRefines` that
the removed object was in no other footprint. All other calls are stutters of `LayerFootprint`.

`LayerProofs` proves, for any two lists of segments, any calls, any number of writes and a cache of any size,

- `BytesAreRight`: `Spec => []BytesWereThere`;
- `FailuresAreCurrent`: `Spec => []FailureIsCurrent`;
- `WritesReachTheHole`: `Spec => []WriteReachesFirstHole`, by
- `IOInvariant`: `Spec => []IInv`, with `IInv == TypeOK /\ RightEntries(past, Len(buffer)) /\ StackRight /\ ReadAnswered`.

The assumptions are what `_load_segments` must leave (`SegmentsAssumption`: segments in the order of their addresses, none empty or over
another; where they map to is not looked at), and that nobody reads or writes nothing (`CallsAssumption`).

The argument goes from chunks to addresses. `SegmentFound` says that the bisection finds the segment an address is in, and `NextChunkRight`
that a chunk and what it maps to have the same bytes of the buffer behind them, address by address, while what is skipped before it has none.
An address at which `_find_segment` misses its segment is one more case of each (`Missed`): what is found behind an address is found there
as long as the buffer does not shrink (`FoundLater`), and what is hidden from the lower layer's search is hidden from the upper one's (`FoundBelow`).
So what a call has done is said of its addresses alone: a read has one right byte for each address up to where it is (`RightBytes`), a write has left the last
byte that goes there behind each (`Written`, and `Newest`, as two addresses may lead to one byte). `StackRight` says this of the one or two calls in progress; when the upper one waits
for the lower one, it has come to the end of its chunk and the two share what lies in between (`Shared`). A byte that is right stays right,
since the buffer only grows and what it has held stays in `past` (`StaysRight`); this is why the cache, which no write looks at,
returns old bytes and never those of another place (`RightEntries`). A call that raises does so at an address that has nothing behind it now (`ReadMeets`),
and a write has changed all before its first hole and nothing else (`UpToTheHole`).

It also proves, for any layers, sections, sizes of chunks, overlap and width of what is looked for that fits the overlap,

- `ReportsAreRight`: `ScanSpec => []ReportedRightAndOnce`, by
- `ScanInductive`: `ScanSpec => []ScanInv`, with `ScanInv == SectionsInv /\ Underway`.

Assumed is that sections are finitely many and have numbers for start and length (`RequestsAssumption`), that a layer has a byte at
least and that `mapping()` yields blocks in the order of their addresses, none over another (`ImagesAssumption`).

After the joining, the sections are in order with a gap between any two (`Apart`), and hold no address that was not asked for (`Within`): a
section that is taken next starts where the last one does or behind that (`JoinKeeps`). That it may *shorten* the one it is joined to loses
addresses (`Lost`), but brings no two sections together. Clipping keeps both, but for the loop that never ends (`Endless`), from which no chunk is made.
A chunk has one piece, of which all lies in a section and, in a layer of blocks, in one block (`ChunkFits`); the two iterators yield them so that each
starts behind the one before, or where that one's overlap starts, or else is the end of the section of a data layer (`Follows`, kept by `CutChunkKeeps` and
`PackChunkKeeps` from turn to turn). Hence two reports of one address are of one chunk, which counts its reports upwards, or they are of such an end. `Underway` says
of each step that what has been yielded is what the first chunks give, in the order of the chunks, and that none of these has raised;
for a pool that is all or nothing, in whichever order its processes end. TLC finds `ScanInv` to hold in the instance of the run.

`KernelWalksProofs` proves, for any set of elements, any image and any limits, from
`AnchorAndNull` (the head is not the null pointer) alone:

- `ElementsOnce`: `Spec => []EachElementOnce`, by
- `WalksInductive`: `IInv /\ [Next]_treeVars => IInv'`;
- `WalksReachTheEnd`: `Spec => []WalkedToTheEnd`;
- `TreesAreRead`: `Spec => []TreesRead`.

A walk that remembers elements has all it has yielded in `seen` (`ElementsRemembered`). One that
remembers the places of pointers has not: the last element yielded is the place of the
pointer it looks at, and not yet in `seen` (`PlacesRemembered`), which is why it notices a loop
one element late and why `EachElementOnce` excepts the last element. The lemmas say
what a step does to the sequence (`NothingYielded`, `ElementYielded`, `PlaceYielded`), and then go
over the walks.

That a walk comes to its end rightly rests on where it is: behind the last element yielded (`OneWay`), or, for
a queue, behind the last one of the direction it goes in (`BothWays`); and on what it remembers being only what was
yielded, or else it might stop for a loop that is none.

For trees the invariants say that nothing is lost between the nodes looked at and the calls that wait on the
stack: the kids of each are there or waiting (`VadInv`, `MapleInv`, `RbInv`), so that with an empty stack what was found is
closed under the links. An ID storage has each path of the height of the tree either waiting at some level or yielded
(`IdrInv`); a table of handles has yielded the entries of the first tables and those of no other (`HandlesInv`). A maple tree is whole only
if its root does not name another node as its parent (`TreesWhole` says so, and the run has both cases): the code
takes such a root for the node of another tree.

`SymbolCacheProofs` proves, for any number of programs, files, blocks and steps, from
`BlocksAssumption` (a resource has a block), `NobodyIsNoProgram`, and, for the rows, `PeriodAssumption` (the period and the length of a day are numbers, the latter not 0) and
`ListsAssumption` (what a remote list names is elsewhere than in the symbol directories; else a list entered by one program
would replace the rows another one relies on):

- `PartsHaveCause`: `Spec => []PartsForCause`, `HoldersHaveCause`: `Spec => []LockHeldForCause`, by
- `CacheInductive`: `Spec => [](ResourceInv /\ DatabaseInv)`.

That some program is downloading the file at the path is not inductive: it might be one whose file
was truncated by another, so that it would end and leave a hole. `SomebodyCompletes` says that
there is one that has written all blocks before the one it is at, the last one to have truncated
the file; it can only end with the file whole. The lock is found free because a
program is the writer only at certain places of `update()` (`WritersHold`), and because a list
is fetched only after everything has been committed (`FetchesAreRemote`). A commit that fails ends the update
with the transaction open; `LockHeldForCause` says that it is then for this, or for a list that could not be used, that an idle program is the writer. `AroundTheFetch`
covers a program that is killed.

- `RowsAreRight`: `Spec => RowsRight`, an action property, by `RowsInductive`: `Spec => []RowsInv`.

A row names what its file held when it was read (`RowTrue`), since a file that changes gets a time behind all others. That
the row a program has looked at is still right when its update ends is another matter: between its look and the end another program may commit one in
its place. `Stands` says why that does no harm. Either the row was left alone for its age, and what replaces it is not older (`DraftsNoOlder`: of no file does a program have
only rows that are older than those committed; it may have none, for a deletion that could not be committed stays in the
transaction, and those who miss rows when it is committed are `disturbed`); a row that was no older than the midnight of one day is no
older than that of an earlier one (`MidnightsGoOn`); or the program has
written it itself, so that the database is its own until it commits (`ViewGoesOn`). An argument from identifiers alone would not do: a file may be changed back to what it was.
A program whose rows were deleted by another one, or who found the database locked, is `disturbed`, which `RowsRight` excepts.
TLC finds `RowsInv` to hold in the instance of the run.

`SymbolSpaceProofs` proves, for any names, tables, contents and number of calls, from
`ContentsAssumption` (the members of a type are types, embedded ones first) alone:

- `TypesAreCurrent`: `Spec => []OnlyCurrentTypes`, by
- `SpaceInductive`: `Spec => []IInv`, with `IInv == Types /\ Underway /\ OnlyCurrentTypes`.

What a pointer will get is decided when its reference is met, and given only at the end of the
traversal. `Underway` says that between the two it stays in the cache: every reference met leads
to a name that is in `_resolved`, since nothing is removed before the call is over. `Types` says
what a template is; the cache of symbols and what calls answer do not matter (`Answered`).

`AutomagicProofs` proves, for any plugins, stackers, images and number of runs, whatever fails in them, from
`StackersAssumption` (the stackers are in a sequence) and `ProvidedAssumption` (what a user has configured is nothing, or a layer of a
kind the plugin accepts with values that are right for that layer, and names no layer made in an earlier process, which
`build_configuration()` leaves out):

- `StackingIsMaximal`: `Spec => []StackIsMaximal`, by `StackingInductive`: `Spec => []StackInv`;
- `ModulesAreOfOnePiece`: `Spec => []ModuleOfOnePiece`, by `PiecesFit`: `Spec => []PieceInv`;
- `StacksAreShared`: `Spec => []OneStack`, and `UnmetHaveTheirCause`: `Spec => []UnmetForCause`, by
  `FailFreeRuns`: `Spec => []FailFree`.

`StackInv` says what is so while the stackers are tried: the stackers before the one whose turn it
is decline the top (`TriedInVain`), which holds since a stacker that stacks makes the search start over;
and the layers on the stack number the used stackers, each over one that it recognises (`EachLayerByOne`).

`PieceInv` says of every section, not only of those of constructed plugins, that what it knows of a layer, at any class, is right for the
layer it names or will name (`OfOneKind`), or that it was mixed; that a module is made of what its section has now (`ModuleMade`), although
sections go on changing; and of what `LayerStacker` remembers that it is the layer of a section at the depth it has (`CacheInv`), for else `UseCached` would give a
plugin the layer of one kind with the classes of another. Every action changes one section at most (`ChangesOnly`) and only adds to the
context (`Grows`), so that one lemma per action, about that section, is enough (`LayerKept`, `PieceGoesOn`).

`FailFree` holds until the first exception. `TopsOnly`: nothing is looked for below a layer requirement, as none is left half built. `BuiltInv`: what was begun is made, so that a section has a layer or describes none.
`SharedInv`: if a plugin has a layer that suits all that were run, `LayerStacker` remembers that layer, or is about to. It is stronger than `OneStack` and says
why two plugins cannot have two: the second one found the first one's. `CauseInv` says behind each automagic that what it had to provide is
there or cannot be found.

`TreeGridProofs` proves, for any rows of any plugin, any functions, and any depth of calls within calls, from
`BoundsAreNumbers` and `SourcesAreGenerators` (what is rendered yields rows with a level):

- `TreeTyped`: `Spec => []Typed`; `NodesAreAtTheirPaths`: `Spec => []NodesAtTheirPaths`;
- `PopulatedTreesAreComplete`: `Spec => []PopulatedIsComplete`;
- `YieldOrderIsKept`: `Spec => []YieldOrderKept`.

They are about `Spec` of `Timeliner`, where rows come from the timeliner or another plugin and the functions are the renderers' or a
caller's, so that they hold for all uses of the tree in the models. `Tree` says that a node comes after its parent in the list of all nodes and is once among its
children, at the number that its path ends with. `_append` keeps that plainly. `_insert` shifts the paths of all that are behind the new node: `Behind` and `Shifted` say which
those are, and that no two get one path. `Counted` relates the number of rows counted to the nodes there are, less those inserted, and those whose
function still runs, in whichever of the nested calls (`Pending`): a function that visits the tree populates it in the middle of its own row. `Ordered`
says that the nodes in the order in which they were added are in depth-first order of their paths (`Precedes`), and, as long as rows are left,
that the innermost call of `populate()` has the last node of each depth in `prev_nodes` (`Latest`): so the next row goes behind all others. That fails when a
function goes on after a call of its own has failed, which `YieldOrderKept` excepts.

Of the configuration tree `ContextProofs` proves, for any keys, values, configurables and paths and any number of calls,
from `KeysAssumption` (finitely many keys: the items of a dictionary are a list) and `PathsAssumption` (paths are
sequences of keys, and those of calls are not empty):

- `ConfigIsATree`: `ConfigSpec => []TreeShaped`;
- `SectionsAreLive`: `ConfigSpec => []LiveUnlessShadowed`;
- `MergeIsKind`: `ConfigSpec => MergeKeepsValues`, an action property.

    ConfigInv == TreeHeap(heap) /\ (sections are Absent or in the heap) /\ LiveUnlessShadowed

is inductive (`ConfigInductive`). `TreeHeap` is `TreeShaped` with the types of the heap and the fact that whatever is stored in a
dictionary is in the heap. A dictionary is only ever stored when it is new, which is a matter of each caller: `_setitem` creates
what it stores, `branch` stores one dictionary and returns another (which is the reason why the caller's copy is detached, and also
the reason why the heap stays a tree), and callers splice new ones. Every update but `splice` and `del` is shown to `Grow` the heap: whatever a path
led to it still leads to, so that a section that was live stays so. `splice` is the one that cuts something off. What it
detaches is exactly what lies below its path (`OnePath`: in a tree, two paths lead to one dictionary only if they are equal), and no configurable
elsewhere is touched: without the tree, `LiveUnlessShadowed` would not be inductive. For `merge`, the loop invariant of
`MergeIs` says that each round keeps all values there are and that the items of the rounds so far have one; it also holds where
the source lies within the target or the other way round, because a value that is there is not replaced by a later round, and the
items were listed before the first one.

`ProofBasics` is what makes induction over data possible here. The induction theorems of the library take a predicate, which the installed
provers cannot instantiate; but a set of numbers has a least one (`LeastNumber`, from the well-foundedness of finite sets), so induction can be stated for the *set*
of numbers that have the property (`UpTo`), and a function that is defined by recursion exists (`Unfold`), so that a proof may
take it from one number to the next. `_find_children`, the search for a path in the tree, is unfolded by it.

Only model-checked:

- liveness (`RunEnds`, `CoalesceReturns`, `MappingReturns`, `FilesReturn`): out of the prover's reach altogether;
- `MapsByteByByte`, `DumpMarksHoles`: `IntelLayer` computes with the bits of addresses by the recursive operators of `Bitwise`, in whose presence the prover has no arithmetic;
- `WantedRowsInOrder`: five renderers with stacks of their own, over filters and hidden columns, whose output would have to be shown equal to that
  of a recursive definition;
- `FilesDescribed`, `LogComplete`, `HivesListed`, `HiveWalked`, `LookupsAnswered`, `AnswersRight`, `NothingOverlooked`, `PluginsHeard`: these compare what a loop
  over bytes, names or cells computes with what is in an image, and are about many small cases rather than about
  a number of steps.

## 5. What the models leave out

- `LayerContainer`: layers are objects with a name and dependencies. `check_cycles`
  raises `NotImplementedError` and changes nothing.
- `LayerIO`: instead of files, a buffer. A `FileLayer` differs in that it refuses to
  write past its end (and is opened for reading only), and has a lock. Layers that
  decode what they read (AVML, QEMU) are in `DumpFormats`, for one byte at a time.
- `LayerScan`: progress reports, the multi-string and regular-expression scanners. The
  pieces a translation layer reads, from itself or from the layer below, are given by
  the address they have in the scanned layer.
- `ConfigTree`: `clone()` copies and the sanitising of values changes nothing else.
- `SymbolSpace`: symbols without a type, enumerations, the mapping of table names
  (taken as applied), overridden classes.
- `Automagic`: a stacker that raises is one that declines, since the code treats both
  alike; values below a class that requires no layer, which a merge may bring there and nothing reads; a user configures what is right for a layer of a kind the plugin accepts, or nothing; free names are always
  free. The search of Windows images for page tables and swap layers (`automagic/windows.py`) is left out; what symbols are found for a layer (`Banners`) and which layers come with
  the kernel's offset (`KernelOffsets`) are constants.
- `KernelPdbScan`: addresses within a page, and pages cut by the end of an image; that a PDB is found in the symbol cache or downloaded and
  converted is one choice (`PdbsAvailable`). What `BytesScanner` finds is `LayerScan`'s matter.
- `PdbConvert`: how records are cut out of the streams; the size of a pointer is in its record; the constants of
  enumerations and the places of bits, which are copied; names as they are stripped.
- `TreeGrid`: sort keys, `is_ancestor` and the types of cells, which change nothing in the tree.
- `Rendering`: how cells look. `Timeliner`: time zones, the format of the body file, the names
  of plugins and which of them are run.
- `OutputFiles`: the names of files, of which only a separator matters; seeking in a file, which the pieces are written in order of. A directory
  that cannot be written to is one in which no temporary file can be made. `psscan`, that leaves the file of one process
  open until it opens that of the next, and names it before that, is left out; so are plugins that call the ones modelled (`dlllist`, `modules`, `malfind`).
- `IntelLayer`: the widths of real entries; a table is read as a whole, as
  `_get_valid_table` does. Bits that no condition looks at are left out.
- `KernelLists`: casts and symbols; how an address becomes a structure. The lists are given by
  their links.
- `SymbolCache`: the columns that only count things; `find_location` and the other queries, that
  answer from the rows. `ResourceCache`: schemes other than remote ones, and
  decompression.
- `DumpFormats`: the layout of headers, checks of magic numbers (a file is of the format it is
  taken for), and pages or words longer than a few bytes.
- `KernelLog`: the prefix of a line, dictionaries, the split of a text into lines. The kernel
  writes nothing while it is read; an image that was taken during a change is not covered.
- `Kallsyms`: filters (no caller has any), the types of symbols as exported or not, the masking of addresses that lie within the mask.
  The tables of tokens and markers can be read. Symbols of BPF programs and of ftrace, and the tree by which the kernel finds a
  module, are left out: where it gives none, as on a kernel without it, modules are looked for one by one, as `InModules` does.
- `ModuleExtract`: the bytes of a section are their place and number; headers and entries of the symbol table have small sizes, and widths of 32 and 64 bits are
  not told apart. The file that `module_extract.py` makes of it is in `OutputFiles`.
- `KernelModules`: members of an array are parameters of their own, as the code casts them; ranges behind a symbol, and the deprecated
  `lookup_module_address` and `mask_mods_list`. The plugins print what they get.
- `ContextModules`: the sizes of look-ups (all callers ask for one address), `object()` and `object_from_symbol()`, which add an offset.
- `PeSymbols`: how a PDB is found and downloaded and an executable is put together from its pages: whether it has a table, and which,
  is an input. `_validate_wanted_modules` refuses keys and types that no caller passes. That keys are passed in
  upper case is modelled.
- `HiveList`: the filter by name, which `str(hive.get_name())` decides; the files of hives are in `OutputFiles`.
- `HiveTree`: which of the three signatures a list has, inline data, what data means
  for each type. `RegistryHive._translate` (bins and tables of a hive) is not modelled.

## 6. Findings

Disagreements between the code and what it says of itself, or of the place beside it;
`PROJECT.json` quotes the lines. Each passing property says what is left of what one would
expect.

1. A read after a write of the same range returns the bytes from before it, so that
   `PrimitiveObject.write` returns an object with the old value (`BytesWereThere`).
2. `pad=True` does not prevent an exception past the end of a data layer
   (`FailureIsCurrent`).
3. `branch()` of a key that is not there returns a dictionary which is not the one it
   stores: what is set in it never reaches the context (`LiveUnlessShadowed`).
4. A structure embedded in a structure stays a reference (`WrappersResolved`).
5. A layer that a user configured for one plugin is replaced by the one stacked for
   another (`OneStack`).
6. `_coalesce_sections` raises over a section that starts with the last byte, and does
   not return over three when the last one does (`CoalesceReturns`).
7. The last byte of a layer is never scanned by default, and a section that holds
   another one is cut off where the inner one ends (`NothingMissed`).
8. At the end of a section of a data layer, what lies in the overlap may be reported
   twice (`ReportedRightAndOnce`).
9. With `--parallelism threads` thread-safe scanners yield nothing (`ReportedRightAndOnce`).
10. The segments of most dump formats are not sorted, but searched as if they were
    (`BytesWhereHeadersSay`, where it asks for segments that ascend).
11. The timeliner lists entries with the times of others, and more than once; those of a
    last plugin that raises are not listed (`EntriesListed`, of `PluginsHeard`).
12. A tree counts as populated after its generator has raised (`PopulatedIsComplete`); what is
    rendered then is what was left. Mermaid looks neither at the filter nor at
    hidden columns, and a column of the filter is counted before the hidden ones are
    taken out of the row (`WantedRowsInOrder`).
13. A byte of a page in a swap file is read from the start of that page; where one chunk is
    partly missing below, all of it is (`MapsByteByByte`). The hex dump shows the first byte
    of a hole, and sometimes the second, as if it were there (`DumpMarksHoles`).
14. `get_devices` yields an object at address 0; walks over pointers yield the element where a
    loop closes twice; some walks do not end on a loop (`EachElementOnce`, `WalkedToTheEnd`).
15. A stale slot of a maple tree hides the node it leads to, and in handle tables of
    three levels values repeat (`TreesRead`).
16. A file that changes around the time when its row is stored is never read again, and one whose row is from the day in which the
    period began, or from a later one, is not looked at (`RowsRight`); a list that cannot be used, or a commit while another program downloads the remote list,
    leaves the database locked (`LockHeldForCause`); a download cut off by the end of the program is taken for whole
    (`PartsForCause`).
17. AVML: loading does not end if a stream is longer than its chunk says (`LoadReturns`). QEMU: the hole
    is set too late for a section at the start, and not at all without an architecture (a
    `TypeError`); Xen passes over an entry 0, takes the place of a name among the strings for that of a
    section's header (what is wrong where they differ, `OutOfOrder`, is excepted), and never loads a dump with
    `.xen_p2m`, whose entries are numbers of which it asks a `pfn` (`BytesWhereHeadersSay`).
18. The log of a kernel up to 3.5 is turned at the wrong place once it has gone round twice; from
    5.10 on the newest record is not printed; in between, a length of zero makes the reader
    go round for ever (`LogComplete`).
19. A list of hives that ends early, but not at an invalid hive, is taken for whole; after a
    scan the entry that follows the found hive is left out (`HivesListed`).
20. Lost blocks of big data are left out instead of padded; `visit_nodes` does not end
    on a loop of keys, nor any walk on a loop of lists (`HiveWalked`).
21. Behind a name of 128 tokens or more, symbols get wrong names, which for look-ups depend on what was looked
    up before; from 6.2 on the first name of the order is not found; behind a name that cannot be read nothing is
    listed, and an address that cannot be read ends the list with a `TypeError`. A module's end lies
    behind all addresses, so that a module listed before hides others (`SymbolsAnswered`).
22. The file made of a module numbers sections in symbols as the kernel lists them, and links without the null section; a name with
    a damaged byte displaces those behind it; a name that cannot be read is an `AttributeError`; an entry of the list
    of sections, a symbol, or a pointer to their tables that cannot be read is an exception that leaves `extract_module`; from Linux 6.14 on no symbol is given to a
    section (`FilesDescribed`, by `SymbolsInPlace`, `LinksInPlace` and `HeadersInPlace`).
23. Modules are joined by where their memory begins, not by their offsets; from 6.4 on the range of a module is not where its memory
    is; a module whose sizes cannot be read ends the whole scan; integer parameters are read elsewhere if the kernel was
    moved (`LookupsAnswered`, by `AllGathered`, `OwnerRight` and `ParamsRight`).
24. Of symbols wanted by name and by address, those of one key are given up when the other is done; without a
    filter all modules of the kernel are collected under the kernel's name; modules wanted in capitals are neither found nor
    missing; an export without a name hides one at its address; an address of one process is looked for in
    the mappings of all (`AnswersRight`, by `EachAccounted`, `MissingForCause`, `WantedCollected`, `OwnSymbol` and `WantedFound`).
25. The address behind a module is taken for one inside of it (`AnswersRight`, by `LocatedRight`).
26. Of several Windows layers only the last one's kernel counts, even if it has none; a pointer to a module without a signature is taken
    for the kernel if another module follows; headers in page 0 or in the page of the signature before are not found; a pointer that cannot be read,
    or an image whose layer is not called `memory_layer`, ends the scan (`NothingOverlooked`, by `OfTheLast`, `FoundOwnSignature`, `NoneToFind` and
    `KernelFound`).
27. No symbol of the last section of a PDB is converted, and one behind the last entry of the moved ranges ends the conversion;
    so does an array of a type that stands for its definition, if it is the first type or comes behind it, and a
    type without fields, or else it gets those of another (`NothingOverlooked`, by `PdbConverted`).
28. What is written before an exception is kept, under the name asked for, as if it were whole; so is an empty file
    of which the plugin says that it is not written; and the last byte of a layer is left out if it begins a chunk (`PluginsHeard`, by `FilesWhole`).
    Four plugins say the name of a file before it has one, which may be that of another (`RowsNameFiles`). A name with a separator leaves
    a temporary file behind; two programs may choose one name (`OutputsKept`).

Met while reading, outside of the models: `walk_internal_list`
(`symbols/linux/__init__.py:468-518`) reads its own pointer's location, `idr_max`
(`symbols/linux/extensions/__init__.py:2844`) takes the size of an integer in bytes for
bits, a list of remote lists that names itself is followed without end, and `_mod_tree_comp`
(`symbols/linux/kallsyms.py:1012-1016`) adds the offsets of the members that lead from a structure to the node in it,
where it has to subtract them. `ModuleCollection.deduplicate` (`contexts/__init__.py:402-408`) gathers
names instead of modules and always raises over any; `ssdt` gives all drivers the kernel's table (`plugins/windows/ssdt.py:69-76`),
so that symbols of the kernel are named in them. `hivelist` writes text
into the file of a hive that has no base block (`plugins/windows/registry/hivelist.py:116`), which raises.

## 7. Not modelled, and why

ISF tables, and the streams of a PDB, are parsed: what comes of it (types, symbols) is an input
of `SymbolSpace` and `PdbConvert`. MSF streams and the addresses of registry hives are translations by a table, as segments
are. Objects and templates are values that are read anew at each access. Accessors of
kernel structures, and the plugins that use them, read and compute, and keep no
state but the layers and tables they add, which the models let any caller do: to
`TreeGrid` a plugin is its generator, to `OutputFiles` the exceptions it catches. Arguments, progress and volshell
are input and output.

## 8. Plan

Done: `LayerContainer` with its proofs and the refinement, `LayerIO` with its proofs, `ConfigTree`, `SymbolSpace` and
`Automagic` with theirs, `LayerScan` with its proofs; then `TreeGrid` with its proofs, `Rendering`, `Timeliner`, `IntelLayer`,
`KernelLists` and `KernelTrees` with their proofs, `ResourceCache` and `SymbolCache` with
their proofs, `DumpFormats`, and the readers `KernelLog`, `HiveList`, `HiveTree` and `Kallsyms`,
`KernelModules` and `ModuleExtract`; `ContextModules` and `PeSymbols`; `KernelPdbScan` and `PdbConvert`; `OutputFiles`.

Next: models of the search for page tables
and swap layers of Windows, and the addresses of registry hives.
