--------------------------- MODULE MCKernelWalks ---------------------------
(***************************************************************************)
(* The ways in which three structures and the one the walk starts from can *)
(* be linked, for each walker as far as it looks at the links; the symbols *)
(* of small kernels, parts of which may be lost; and what may lie in the   *)
(* places of three modules.                                                *)
(***************************************************************************)
EXTENDS KernelTrees, Kallsyms, KernelModules

CONSTANTS head, a, b, c, null

MCElements == {head, a, b, c, null}
Structures == {head, a, b, c}
Three == {head, a, b}

-----------------------------------------------------------------------------
(* Lists *)

Total(links) == [n \in MCElements |-> IF n \in DOMAIN links THEN links[n] ELSE null]

ListMemory(links, back, readable, objects, entries) ==
  [next |-> Total(links), prev |-> Total(back), readable |-> readable, objects |-> objects, entries |-> entries]

\* One link in each structure; all elements, or all but one, can be read
OneLink(entries) ==
  {ListMemory(f, f, Structures \ {n}, Structures \ {n}, entries) :
     f \in [Structures -> MCElements], n \in MCElements}

\* Two links in each of three structures
TwoLinks ==
  {ListMemory(f, g, Three \ {n}, Three \ {n}, 0) :
     f \in [Three -> Three \cup {null}], g \in [Three -> Three \cup {null}], n \in {a, b, null}}

\* A member of a structure may be there while the structure is not
Members ==
  {ListMemory(f, f, Structures \ {n}, Structures \ S, 0) :
     f \in [Structures -> MCElements], n \in {b, null}, S \in SUBSET {head, a, b}}

-----------------------------------------------------------------------------
(* Trees of up to three nodes, with slots that lead astray *)

TreeMemory(kids, parent, readable, marked, height) ==
  [kids |-> kids, parent |-> parent, readable |-> readable, marked |-> marked, height |-> height]

Shapes ==
  {[n \in Three |-> CASE n = head -> x [] n = a -> y [] n = b -> z] :
     x \in {<<a, b>>, <<null, a>>, <<a, null>>, <<a, a>>, <<b, a>>},
     y \in {a, b, null, head} \X {b, null}, z \in {<<null, null>>, <<a, null>>, <<head, a>>, <<c, b>>}}

NoParents == [n \in Three |-> null]
Parents == {[n \in Three |-> CASE n = head -> r [] n = a -> x [] n = b -> y] : r \in {null, a}, x \in Three, y \in Three}

Trees(w) ==
  CASE w = "vad" -> {TreeMemory(s, NoParents, Three \ {n}, m, 0) : s \in Shapes, n \in {a, b, null}, m \in SUBSET Three}
    [] w = "maple" -> {TreeMemory(s, p, Three \ {n}, m, 0) :
                         s \in Shapes, p \in Parents, n \in {b, null}, m \in SUBSET {a, b}}
    [] w = "rb" -> {TreeMemory(s, NoParents, Three \ {n}, {}, 0) : s \in Shapes, n \in MCElements}
    [] w \in {"idr", "handles"} ->
         {TreeMemory(s, NoParents, Three \ {n}, m, h) :
            s \in Shapes, n \in MCElements, m \in SUBSET Structures, h \in 0 .. 2}

-----------------------------------------------------------------------------
(* Four symbols of a kernel, of type 1 or 4 and with names of the characters 2 and 3; two of
   them may have one name.  Tokens stand for one character or two. *)

TokenTable == [byte \in 0 .. 7 |->
  CASE byte = 0 -> <<4>> [] byte = 1 -> <<1>> [] byte = 2 -> <<2>> [] byte = 3 -> <<3>>
    [] byte = 4 -> <<4>> [] byte = 5 -> <<1, 2>> [] byte = 6 -> <<2, 3>> [] byte = 7 -> <<3, 3>>]
SmallSections ==
  [stext |-> 10, etext |-> 20, sinittext |-> 20, einittext |-> 22, end |-> 25, modules |-> 32, modulesEnd |-> 47]

Small == {<<5>>, <<1, 6>>, <<4, 3>>}
Long == <<1, 2, 3, 2>>
Apart == <<10, 12, 14, 20>>
Aliased == <<1, 10, 10, 10>>
Twice == <<10, 10, 13, 13>>
Usual == <<<<5>>, <<1, 6>>, <<5>>, <<4, 3>>>>

\* The order of names
ByName(codes) ==
  LET name(i) == NameOf(FlattenSeq([k \in DOMAIN codes[i + 1] |-> TokenTable[codes[i + 1][k]]]))
      before(i, j) == Precedes(name(i), name(j)) \/ (name(i) = name(j) /\ i < j)
  IN SetToSortSeq(0 .. Len(codes) - 1, before)

KsymsImage(codes, address, fast, lost, unread, modules) ==
  [codes |-> codes, names |-> NamesOf(codes), address |-> address,
   relative |-> fast \/ \E k \in DOMAIN codes : codes[k] = Long,
   seqs |-> IF fast THEN ByName(codes) ELSE <<>>, lost |-> lost, unread |-> unread, modules |-> modules]

ModuleSym(address, size, text) == [address |-> address, size |-> size, text |-> text]
One == <<ModuleSym(32, 2, <<1, 3>>), ModuleSym(34, 2, <<4, 2>>)>>
Two == <<ModuleSym(40, 2, <<1, 3>>), ModuleSym(43, 0, <<4, 3, 3>>)>>
ModuleLists == {<<One, Two>>, <<Two, One>>, <<One, <<>>>>, <<>>}

KsymsImages ==
  {KsymsImage(codes, IF fast THEN Aliased ELSE Apart, fast, {}, {}, <<>>) :
     codes \in [1 .. 4 -> Small \cup {Long}], fast \in BOOLEAN}
  \cup {KsymsImage(Usual, address, fast, lost, unread, <<>>) :
           address \in {Apart, Aliased, Twice}, fast \in BOOLEAN, lost \in {{}} \cup {{p} : p \in 0 .. 9},
           unread \in {{}} \cup {{i} : i \in 0 .. 3} \cup {{1, 2}, {2, 3}}}
  \cup {KsymsImage(Usual, Apart, fast, {}, {}, modules) : fast \in BOOLEAN, modules \in ModuleLists}

AskedAddresses == IF ksyms.modules = <<>> THEN {10, 11, 13, 20, 21} ELSE {10, 22, 32, 35, 36, 40, 43, 47}
AskedNames == {<<2>>, <<2, 3>>, <<3>>, <<2, 3, 2>>, <<3, 3>>}

\* Looked up while the symbols are being listed; a second time only if they are not
LookupNext ==
  /\ lookups = 0 \/ listing.index = 0
  /\ \/ \E address \in AskedAddresses : LookupAddress(address)
     \/ \E name \in AskedNames : LookupName(name)

KallsymsNext == List \/ SlowTurn \/ HalveTurn \/ BackTurn \/ FastTurn \/ LookupNext

-----------------------------------------------------------------------------
(* Three places for the structure of a module, the last one not where a pointer may lie *)

TextOf == [start |-> 10, end |-> 14]
ModulesArea == [min |-> 40, max |-> 52]
Region(base, size) == [base |-> base, size |-> size]
LkmStruct(name, named, sized, mem, self) ==
  [name |-> name, named |-> named, sized |-> sized, mem |-> mem, init |-> 1, self |-> self,
   symbols |-> <<[name |-> "first", value |-> 24], [name |-> "second", value |-> 24]>>]

\* Sound ones, one whose mkobj leads elsewhere, and ones with parts that cannot be read
LkmsAt(o) ==
  {LkmStruct("one", TRUE, TRUE, mem, o) :
     mem \in {<<Region(24, 2)>>, <<Region(24, 4)>>, <<Region(26, 3)>>, <<Region(12, 3)>>, <<Region(20, 2), Region(22, 1)>>,
             <<Region(20, 2), Region(28, 2)>>}}
  \cup {LkmStruct("two", TRUE, TRUE, <<Region(30, 2)>>, 0), LkmStruct("two", TRUE, FALSE, <<Region(24, 2)>>, o),
        LkmStruct("two", FALSE, TRUE, <<Region(24, 2)>>, o)}

Kobject(name, mod, refs) == [name |-> name, mod |-> mod, refs |-> refs]
Kobjects == <<Kobject("x", 44, 3), Kobject("y", 40, 3), Kobject("x", 46, 3), Kobject("z", 44, 2)>>

Param(name, kind, arg, members) == [name |-> name, kind |-> kind, arg |-> arg, members |-> members]
Simple == {Param(name, kind, arg, <<>>) :
             name \in {"", "p"}, kind \in {"int", "bool", "invbool", "string", "unknown"}, arg \in 0 .. 2}
Params == {<<p>> : p \in Simple}
          \cup {<<Param("a", "array", 0, [i \in 1 .. n |-> p]), p>> : p \in Simple, n \in {0, 2, 3}}

Lkms(structs, list, kobjects, wanted, shift, params) ==
  [structs |-> structs, list |-> list, kobjects |-> kobjects, wanted |-> wanted, shift |-> shift,
   words |-> [w \in 1 .. 2 |-> w - 1], params |-> params]
Triple(x, y, z) == [o \in {40, 44, 46} |-> CASE o = 40 -> x [] o = 44 -> y [] o = 46 -> z]
Triples == {Triple(x, y, z) : x \in LkmsAt(40), y \in LkmsAt(44), z \in LkmsAt(46)}
Pair == Triple(CHOOSE x \in LkmsAt(40) : TRUE, CHOOSE x \in LkmsAt(44) : TRUE, CHOOSE x \in LkmsAt(46) : TRUE)

LkmImages ==
  {Lkms(t, list, Kobjects, wanted, 0, <<>>) :
     t \in Triples, list \in {<<40>>, <<46, 44>>},
     wanted \in {<<"Lsmod", "SysFs", "Scanner", "kernel">>, <<"kernel", "SysFs">>, <<"Scanner">>}}
  \cup {Lkms(t, list, <<>>, <<>>, 0, <<>>) : t \in Triples, list \in {<<40>>, <<46, 44>>}}
  \cup {Lkms(Pair, <<40>>, <<>>, <<"kernel", "kernel">>, shift, params) : shift \in 0 .. 1, params \in Params}
NoLkms == Lkms(<<>>, <<>>, <<>>, <<>>, 0, <<>>)

Asked == {11, 12, 22, 24, 26, 27, 28, 32}

\* What is looked up among symbols and among modules
LookupsAnswered == SymbolsAnswered /\ ModulesAccounted

\* Nothing hidden is sought, and no parameters, of modules that are gathered
LkmsNext ==
  /\ KernelModulesNext
  /\ UNCHANGED hidden \/ lkms.wanted = <<>>
  /\ UNCHANGED loadParams \/ lkms.params # <<>>

-----------------------------------------------------------------------------

Chosen ==
  \/ \E w \in {"hlist", "mmap", "devices", "tailq", "allproc", "path", "get_path"}, m \in OneLink(0) :
       walker = w /\ memory = m
  \/ \E e \in 0 .. 3 : \E m \in OneLink(e) : walker = "map" /\ memory = m
  \/ \E m \in TwoLinks : walker = "queue" /\ memory = m
  \/ \E w \in ListHeads, m \in Members : walker = w /\ memory = m
  \/ \E w \in TreeWalkers : \E m \in Trees(w) : walker = w /\ memory = m

NoWalk == walker = "none" /\ memory = TreeMemory([n \in Three |-> <<>>], NoParents, {}, {}, 0)
NoKsyms == ksyms = KsymsImage(<<>>, <<>>, FALSE, {}, {}, <<>>)

MCInit ==
  \/ Chosen /\ Init /\ NoKsyms /\ KallsymsInit /\ lkms = NoLkms /\ KernelModulesInit
  \/ NoWalk /\ Init /\ ksyms \in KsymsImages /\ KallsymsInit /\ lkms = NoLkms /\ KernelModulesInit
  \/ NoWalk /\ Init /\ NoKsyms /\ KallsymsInit /\ lkms \in LkmImages /\ KernelModulesInit

MCNext ==
  \/ Next /\ UNCHANGED <<kallsymsVars, kernelModulesVars>>
  \/ walker = "none" /\ lkms = NoLkms /\ KallsymsNext /\ UNCHANGED <<treeVars, kernelModulesVars>>
  \/ lkms # NoLkms /\ LkmsNext /\ UNCHANGED <<treeVars, kallsymsVars>>

MCSpec == MCInit /\ [][MCNext]_<<treeVars, kallsymsVars, kernelModulesVars>>
=============================================================================
