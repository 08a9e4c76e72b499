---------------------------- MODULE MCLayerScan ----------------------------
(* Layers of up to twelve bytes, scanned in chunks of three bytes that       *)
(* overlap by two, for something two bytes long: a data layer, a truncated   *)
(* one, and layers with adjacent blocks, with holes, or with blocks of which *)
(* a part cannot be read.  Sections touch, nest, and reach over both ends.   *)
(*                                                                           *)
(* Beside it, and apart from it: the scan for the kernel of a Windows image, *)
(* of four pages that one or two Intel layers map, in order and not, whole   *)
(* and in part; and the conversion of a PDB, of three types of any kinds,    *)
(* two that have fields of them, and two symbols.                            *)
EXTENDS LayerScan, KernelPdbScan, PdbConvert

Image(mapped, minimum, maximum, blocks, unreadable, poison) ==
  [mapped |-> mapped, minimum |-> minimum, maximum |-> maximum, blocks |-> blocks,
   unreadable |-> unreadable, poison |-> poison]

MCImages ==
  {Image(FALSE, 0, max, <<>>, {}, {}) : max \in 5..11}
    \cup {Image(FALSE, 4, 11, <<>>, {}, {8}), Image(FALSE, 0, 10, <<>>, {4}, {}),
          Image(TRUE, 1, 11, <<Section(1, 5), Section(6, 4), Section(11, 1)>>, {}, {}),
          Image(TRUE, 0, 11, <<Section(0, 2), Section(3, 8)>>, {}, {}),
          Image(TRUE, 2, 11, <<Section(2, 7), Section(10, 2)>>, {7}, {}),
          Image(TRUE, 0, 11, <<Section(0, 4), Section(5, 7)>>, {}, {6})}

MCSections ==
  {Section(0, 3), Section(3, 4), Section(1, 9), Section(5, 2), Section(8, 6), Section(11, 1), Section(13, 2)}

MCRequests == {r \in SUBSET MCSections : Cardinality(r) <= 3}

-----------------------------------------------------------------------------
Page(mz, pdbs) == [mz |-> mz, pdbs |-> pdbs]
Plain == Page(FALSE, <<>>)
PageKinds == {Plain, Page(TRUE, <<>>), Page(FALSE, <<"nt">>), Page(TRUE, <<"nt">>), Page(FALSE, <<"nt", "hal">>)}
PagesOf(p0, p1, p2, p3) == [p \in 0 .. 3 |-> <<p0, p1, p2, p3>>[p + 1]]

Memory(pages, kdbg, ntpaths, stubs) == [pages |-> pages, kdbg |-> kdbg, ntpaths |-> ntpaths, stubs |-> stubs]
Stub(cr3, hint) == [cr3 |-> cr3, hint |-> hint]
Hints ==
  {Memory(<<>>, kdbg, <<>>, <<>>) : kdbg \in {<<>>, <<9, 8>>, <<4, Unreadable>>}}
    \cup {Memory(<<>>, <<>>, <<4>>, <<>>), Memory(<<>>, <<8>>, <<Unreadable>>, <<Stub(6, 9), Stub(7, 11)>>)}

VirtualLayer(physical, map, wide) == [physical |-> physical, map |-> map, wide |-> wide, entry |-> 7]
InOrderAt(first, last) == [p \in first .. last |-> p - first]
Maps == {InOrderAt(8, 11), (0 :> 1) @@ (1 :> 0) @@ (2 :> 2) @@ (3 :> 3),
         (1 :> 0) @@ (4 :> 1) @@ (5 :> 3), (8 :> 0) @@ (9 :> 2) @@ (11 :> 3)}

\* Two requirements want symbols
Alone(name, hints, pages, map, wide) ==
  [memory |-> name :> [hints EXCEPT !.pages = pages], layers |-> <<VirtualLayer(name, map, wide)>>, requirements |-> 2]

Beside(hints, pages, page) ==
  [memory |-> ("memory_layer" :> [hints EXCEPT !.pages = pages])
                @@ ("second" :> Memory([pages EXCEPT ![1] = page], <<9>>, <<>>, <<>>)),
   layers |-> <<VirtualLayer("memory_layer", InOrderAt(8, 11), FALSE), VirtualLayer("second", InOrderAt(8, 9), TRUE)>>,
   requirements |-> 2]

-----------------------------------------------------------------------------
Primitive(size, pointer) == [name |-> <<"integer", size>>, size |-> size, pointer |-> pointer]
MCPrimitives == 1 :> Primitive(1, 0) @@ 2 :> Primitive(1, 4) @@ 3 :> Primitive(2, 0)

Rec(leaf, name, forward, size, ref, fields) ==
  [leaf |-> leaf, name |-> name, forward |-> forward, size |-> size, ref |-> ref, fields |-> fields, list |-> <<>>]
FieldOf(name, offset, ref) == [name |-> name, offset |-> offset, ref |-> ref]
FieldsRec(fields) == [Rec("fieldlist", NoName, FALSE, 0, 0, 0) EXCEPT !.list = fields]
Struct(name, forward, fields) == Rec("struct", <<name>>, forward, 2, 0, fields)
EnumOf(fields) == Rec("enum", <<"E">>, FALSE, 0, 1, fields)

\* What a type may be; it refers to earlier ones, and to the first for its fields
AnyPlace ==
  {Struct("S", TRUE, 0), Struct("S", FALSE, 0), Struct("S", FALSE, FirstIndex), Struct(Unnamed, FALSE, 0), EnumOf(FirstIndex),
   Rec("enum", <<"E">>, TRUE, 0, 0, 0), Rec("procedure", NoName, FALSE, 0, 0, 0), FieldsRec(<<FieldOf("z", 1, 3)>>)}
OfRef(r) == {Rec(leaf, NoName, FALSE, 4, r, 0) : leaf \in {"modifier", "array", "pointer"}} \cup {Rec("pointer", NoName, FALSE, 2, r, 0)}
KindsAt(place) == AnyPlace \cup UNION {OfRef(r) : r \in {1} \cup FirstIndex .. FirstIndex + place - 2}
FirstKinds == KindsAt(1) \cup {Rec("unknown", NoName, FALSE, 0, 0, 0), EnumOf(0)}

\* Nothing but fields refers to a field list
RefersRightly(recs, t) ==
  /\ t.ref >= FirstIndex => recs[t.ref - FirstIndex + 1].leaf # "fieldlist"
  /\ t.fields = FirstIndex => recs[1].leaf = "fieldlist"

File(tpi, begins, omap, symbols) == [tpi |-> tpi, sections |-> begins, omap |-> omap, symbols |-> symbols]
\* Two types have fields: T, and S that may be defined behind it; one of them may be of an array of the third type
WithTypes(recs, a, arrays, behind) ==
  LET all == recs \o arrays
      list == FieldsRec(<<FieldOf("a", 0, a), FieldOf("b", 4, FirstIndex + Len(all) - 1)>>)
      own == <<list, Struct("T", FALSE, FirstIndex + Len(all))>>
  IN File(all \o own \o (IF behind THEN <<Struct("S", FALSE, FirstIndex + Len(all))>> ELSE <<>>), <<>>, <<>>, <<>>)
ArrayOfThird == Rec("array", NoName, FALSE, 4, FirstIndex + 2, 0)

PdbSymbols ==
  {[segment |-> segment, offset |-> offset, supported |-> name # "h", name |-> name] :
     segment \in 0 .. 3, offset \in {0, 2, 5}, name \in {"f", "g", "h"}}
Omaps == {<<>>, << <<0, 100>>, <<12, 0>>, <<15, 200>>, <<40, 0>> >>, << <<12, 50>>, <<20, 150>>, <<22, 70>> >>}

PdbOfFile ==
  \/ \E r1 \in FirstKinds, r2 \in KindsAt(2), r3 \in KindsAt(3), a \in FirstIndex .. FirstIndex + 2,
        arrays \in {<<>>, <<ArrayOfThird>>}, behind \in BOOLEAN :
       LET recs == <<r1, r2, r3>>
       IN /\ \A i \in 1 .. 3 : RefersRightly(recs, recs[i])
          /\ r3.leaf # "fieldlist" /\ recs[a - FirstIndex + 1].leaf # "fieldlist"
          /\ arrays # <<>> => a = FirstIndex + 2 /\ r3.leaf = "modifier"
          /\ pdb = WithTypes(recs, a, arrays, behind)
  \/ \E begins \in {<<10>>, <<10, 20>>, <<10, 20, 30>>}, omap \in Omaps, s1, s2 \in PdbSymbols :
       pdb = File(<<FieldsRec(<<>>)>>, begins, omap, <<s1, s2>>)

-----------------------------------------------------------------------------
NoPdb == File(<<>>, <<>>, <<>>, <<>>)
NoWindows == [memory |-> <<>>, layers |-> <<>>, requirements |-> 0]
ScanIdle == image = 0 /\ request = {} /\ mode = "off" /\ sections = <<>> /\ chunks = <<>> /\ step = "idle"
            /\ next = 1 /\ finished = {} /\ yielded = <<>>

MCInit ==
  /\ PdbScanInit /\ PdbConvertInit
  /\ \/ ScanInit /\ windows = NoWindows /\ pdb = NoPdb
     \/ ScanIdle /\ windows = NoWindows /\ PdbOfFile
     \/ /\ ScanIdle /\ pdb = NoPdb
        /\ \E p0 \in {Plain, Page(TRUE, <<>>), Page(TRUE, <<"nt">>)}, p1, p2, p3 \in PageKinds, hints \in Hints :
             \/ \E map \in Maps, wide \in BOOLEAN, name \in {"memory_layer", "primary"} :
                  /\ name = "memory_layer" \/ hints.kdbg # <<>>
                  /\ windows = Alone(name, hints, PagesOf(p0, p1, p2, p3), map, wide)
             \/ \E page \in {Plain, Page(TRUE, <<"hal">>)} :
                  windows = Beside(hints, PagesOf(p0, p1, p2, p3), page)

MCNext ==
  \/ windows = NoWindows /\ pdb = NoPdb /\ Step /\ UNCHANGED <<pdbVars, pdbConvertVars>>
  \/ windows # NoWindows /\ PdbScanNext /\ UNCHANGED <<scanVars, pdbConvertVars>>
  \/ pdb # NoPdb /\ PdbConvertNext /\ UNCHANGED <<scanVars, pdbVars>>

\* The fairness of ScanSpec
MCSpec == MCInit /\ [][MCNext]_<<scanVars, pdbVars, pdbConvertVars>> /\ WF_scanVars(Coalesce)

\* Whatever is looked for is found, by both scans, and all that a PDB describes is in its table
NothingOverlooked == NothingMissed /\ KernelFound /\ PdbConverted
=============================================================================
