---------------------------- MODULE MCSymbolSpace ----------------------------
(* Three instances that have nothing to do with each other: the symbol space, *)
(* the modules of a context, and the executables of a Windows image.          *)
(*                                                                            *)
(* Symbol space: two table names and two contents.  Types refer to            *)
(* themselves, to types of the same and of another table, embedded and        *)
(* wrapped, to missing types and to a malformed one.                          *)
EXTENDS SymbolSpace, ContextModules, PeSymbols

Pointer(table, part) == [to |-> <<table, part>>, wrapped |-> TRUE]
Embedded(table, part) == [to |-> <<table, part>>, wrapped |-> FALSE]

MCContents ==
  {[types |-> ("x" :> <<Embedded("A", "y"), Pointer("A", "x")>>) @@ ("y" :> <<Pointer("B", "x")>>),
    symbols |-> ("x" :> Pointer("A", "x"))],
   [types |-> ("x" :> <<Pointer("B", "y")>>) @@ ("y" :> Malformed),
    symbols |-> ("x" :> Pointer("B", "x")) @@ ("y" :> Embedded("A", "x"))]}

-----------------------------------------------------------------------------
(* Modules: one that overlaps another, two that touch, one without a size; names that a number *)
(* turns into each other, and a requirement that is constructed more than once.                *)

MCModuleNames == {<<"m">>, <<"m", 1>>}
MCRequirementPaths == {<<"plugin", <<"m">>>>}
Place(offset, size, table) == [offset |-> offset, size |-> size, table |-> table]
MCPlaces == {Place(2, 2, "A"), Place(3, 2, "B"), Place(4, 0, "A"), Place(4, 1, "A")}
MCModuleTables ==
  ("A" :> {[name |-> "f", address |-> 0], [name |-> "g", address |-> 2]}) @@ ("B" :> {[name |-> "h", address |-> 1]})

-----------------------------------------------------------------------------
(* Executables: a library in two processes, at one place or at two, another one that ends with *)
(* its name, and one whose tables cannot be read in one of them or in both; a kernel in front  *)
(* of a driver.                                                                                *)

File(cased, parts) == [cased |-> cased, parts |-> parts]
Dll == File(FALSE, <<"nt", "dll">>)
Other == File(FALSE, <<"x", "nt", "dll">>)
Driver == File(FALSE, <<"d", "sys">>)
Vad(start, size, file) == [start |-> start, size |-> size, file |-> file]
Loaded(file, named, base, layer) == [file |-> file, named |-> named, base |-> base, size |-> 4, layer |-> layer]
Symbol(name, address) == [name |-> name, address |-> address]
At(layer, start) == [layer |-> layer, start |-> start]

Pdb == <<Symbol("f", 0), Symbol("alias", 1), Symbol("g", 1)>>
Exports == <<Symbol(Nameless, 0), Symbol("f", 0), Symbol("g", 1), Symbol("e", 2)>>
TablesAt(places, table) == [p \in places |-> table]

Libraries(second) ==
  <<[layer |-> "p1", vads |-> <<Vad(10, 4, File(TRUE, Dll.parts)), Vad(30, 4, Other)>>],
    [layer |-> NoLayer, vads |-> <<Vad(10, 4, Dll)>>],
    [layer |-> "p2", vads |-> <<Vad(second, 4, Dll)>>]>>
KernelList(named, layer) ==
  <<Loaded(File(FALSE, <<"ntkrnlpa", "exe">>), named, 50, "k"), Loaded(File(TRUE, Driver.parts), TRUE, 60, layer)>>

AllAt(second) == {At("p1", 10), At("p2", second), At("p1", 30), At("k", 50), At("s", 60)}
MappingsOf(second, named, layer, pdbs, exports) ==
  [kernel |-> KernelList(named, layer), processes |-> Libraries(second),
   pdbs |-> TablesAt(AllAt(second) \cap pdbs, Pdb), exports |-> TablesAt(AllAt(second) \cap exports, Exports)]

WantedOf(of, from) == IF from = "kernel" THEN {Driver :> of, OsModuleName :> of}
                           ELSE {Dll :> of, File(TRUE, Dll.parts) :> of, (Dll :> of) @@ (Other :> of)}
WantedSymbols ==
  {"names" :> <<"e", "f">>, "names" :> <<"g", "absent", "g">>, "names" :> <<"g", "g">>,
   "addresses" :> <<10, 31, 61>>, "addresses" :> <<11, 12, 52>>,
   ("names" :> <<"f">>) @@ ("addresses" :> <<12, 62>>)}

Query(from, filter, wanted) == [from |-> from, filter |-> filter, wanted |-> wanted, process |-> 0]
Queries == UNION {{Query(from, DOMAIN wanted, wanted) : wanted \in UNION {WantedOf(of, from) : of \in WantedSymbols}} :
                    from \in {"kernel", "processes"}}
           \cup {Query("processes", {}, <<>>), Query("kernel", {}, OsModuleName :> ("names" :> <<"e">>))}
NoMappings == [kernel |-> <<>>, processes |-> <<>>, pdbs |-> <<>>, exports |-> <<>>]
NoQuery == Query("none", {}, <<>>)

MCMappings ==
  {MappingsOf(second, named, layer, pdbs, exports) :
     second \in {10, 11}, named \in BOOLEAN, layer \in {"s", NoLayer},
     pdbs \in {{}, {At("p2", 10), At("p2", 11), At("k", 50)}, {At("p1", 10), At("p1", 30), At("s", 60)}},
     exports \in {{}, {At("p1", 10), At("k", 50), At("s", 60)}, {At("p2", 10), At("p2", 11), At("p1", 30)}}}

-----------------------------------------------------------------------------

\* What has been resolved, of templates, of modules and of executables
AnswersRight == WrappersResolved /\ ModulesAnswer /\ WantedFound

MCInit ==
  /\ Init /\ ContextModulesInit /\ PeInit
  /\ \/ mappings = NoMappings /\ request = NoQuery
     \/ mappings \in MCMappings /\ request \in Queries

MCNext ==
  \/ request = NoQuery /\ modulesMade = 0 /\ Next /\ UNCHANGED <<contextModulesVars, peVars>>
  \/ request = NoQuery /\ calls = 0 /\ ContextModulesNext /\ UNCHANGED <<vars, peVars>>
  \/ request # NoQuery /\ PeNext /\ UNCHANGED <<vars, contextModulesVars>>

MCSpec == MCInit /\ [][MCNext]_<<vars, contextModulesVars, peVars>>
=============================================================================
