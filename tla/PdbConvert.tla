---------------------------- MODULE PdbConvert ----------------------------
(***************************************************************************)
(* PdbReader of symbols/windows/pdbconv.py: the types and symbols of a PDB *)
(* become a table.                                                         *)
(*                                                                         *)
(* A type is known by its index.  Indexes below FirstIndex are primitives, *)
(* the others are records of the type stream, in order, each of which      *)
(* refers to earlier ones by index and to any by name: a struct may stand  *)
(* for its definition elsewhere.                                           *)
(***************************************************************************)
EXTENDS Integers, Sequences, FiniteSets, FiniteSetsExt, SequencesExt, TLC

CONSTANTS
  FirstIndex,   \* 0x1000
  Primitives    \* primitive type -> [name, size, pointer]; pointer is the size of one to it, or 0

ASSUME PrimitivesAssumption ==
  /\ FirstIndex \in Nat \ {0} /\ DOMAIN Primitives \subseteq 1 .. FirstIndex - 1
  /\ \A r \in DOMAIN Primitives : Primitives[r].size \in Nat

VARIABLES
  pdb,          \* the file: [tpi, sections, omap, symbols], see below; never changes
  conversion,   \* [stage, next]
  references,   \* type_references: name -> place in types, from 0
  types,        \* self.types, as read
  pointerSize,  \* self.bases["pointer"]["size"], 0 if it is not there
  table         \* [types, enums, symbols]: user_types, enumerations and symbols

pdbConvertVars == <<pdb, conversion, references, types, pointerSize, table>>

(***************************************************************************)
(* tpi: sequence of [leaf, name, forward, size, ref, fields, list]; ref is *)
(* the type a modifier, an array, a pointer, ... is of, fields the index   *)
(* of a field list, list the fields in one, [name, offset, ref]. Only      *)
(* fields refer to field lists. sections: where they begin. omap: sequence *)
(* of <<from, to>>, ascending. symbols: sequence of [segment, offset,      *)
(* supported, name], name as it is stripped.                               *)
(***************************************************************************)
Unnamed == "<unnamed-tag>"
NoName == <<>>
Compounds == {"struct", "union"}
Wrappers == {"array", "bitfield", "pointer"}
TypeAt(r) == types[r - FirstIndex + 1]

-----------------------------------------------------------------------------
(* Deviations a bug could introduce; only the mutants of PROJECT.json use them. *)

\* The type a reference stands for is looked up only if it is an array's own element
ElementUnmodified(r) ==
  IF r > FirstIndex /\ TypeAt(r).name # NoName THEN references[TypeAt(r).name] + FirstIndex ELSE r

-----------------------------------------------------------------------------
(* What is said of an index *)

\* The links from an index to a name or a primitive; a primitive may be a pointer to one
Link(kind, name, size, element) == [kind |-> kind, name |-> name, size |-> size, element |-> element]
PrimitiveLinks(r) ==
  IF r \notin DOMAIN Primitives THEN <<Link("raises", NoName, 0, 0)>>
  ELSE LET base == Link("base", Primitives[r].name, Primitives[r].size, 0)
       IN IF Primitives[r].pointer = 0 THEN <<base>> ELSE <<Link("based pointer", NoName, Primitives[r].pointer, 0), base>>

\* get_type_from_index
TypeFromIndex(index) ==
  LET f[r \in 0 .. index] ==
        IF r < FirstIndex THEN PrimitiveLinks(r)
        ELSE LET t == TypeAt(r)
             IN CASE t.leaf = "modifier" -> f[t.ref]
                  [] t.leaf \in Wrappers -> <<Link(t.leaf, NoName, t.size, t.ref)>> \o f[t.ref]
                  [] t.leaf = "procedure" -> <<Link("function", NoName, 0, 0)>>
                  [] t.leaf \in Compounds \cup {"enum"} -> <<Link(t.leaf, t.name, 0, 0)>>
                  [] OTHER -> <<Link("raises", NoName, 0, 0)>>
  IN f[index]

\* get_size_from_index; 0 if it raises
SizeFromIndex(index) ==
  LET f[r \in 0 .. index] ==
        IF r < FirstIndex
          THEN IF r \notin DOMAIN Primitives THEN 0
               ELSE IF Primitives[r].pointer # 0 THEN Primitives[r].pointer ELSE Primitives[r].size
        ELSE LET t == TypeAt(r)
             IN CASE t.leaf \in Compounds -> IF t.forward THEN 0 ELSE t.size
                  [] t.leaf \in {"array", "pointer"} -> t.size
                  [] t.leaf \in {"modifier", "enum", "bitfield"} -> f[t.ref]
                  [] OTHER -> 0
  IN f[index]

\* The element of an array, by the loop of replace_forward_references
Element(index) ==
  LET f[r \in 0 .. index] ==
        IF r <= FirstIndex THEN r
        ELSE IF TypeAt(r).name # NoName THEN references[TypeAt(r).name] + FirstIndex
        ELSE IF TypeAt(r).leaf = "modifier" THEN f[TypeAt(r).ref] ELSE r
  IN f[index]

\* Native pointers are all of one size, that of the first
PointerSizes(links) == {links[i].size : i \in {j \in DOMAIN links : links[j].kind = "pointer"}}
Conflict(sizes) == Cardinality(sizes \cup ({pointerSize} \ {0})) > 1
Fails(links) == Last(links).kind = "raises" \/ Conflict(PointerSizes(links))

-----------------------------------------------------------------------------
Goes(stage) == conversion' = [stage |-> stage, next |-> 1]
Aborts == Goes("raised") /\ UNCHANGED <<references, types, pointerSize, table>>
Behind(length, stage) == IF conversion.next < length THEN [conversion EXCEPT !.next = @ + 1] ELSE [stage |-> stage, next |-> 1]

\* One turn of _read_info_stream: unnamed types are named by their index
ReadType ==
  /\ conversion.stage = "types"
  /\ LET record == pdb.tpi[conversion.next]
         place == conversion.next - 1
         name == IF record.name = NoName THEN NoName
                 ELSE IF record.name = <<Unnamed>> THEN <<Unnamed, place>> ELSE record.name
     IN IF record.leaf = "unknown" THEN Aborts
        ELSE /\ references' = IF name = NoName THEN references ELSE (name :> place) @@ references
             /\ types' = Append(types, [record EXCEPT !.name = name])
             /\ conversion' = Behind(Len(pdb.tpi), "process")
             /\ UNCHANGED <<pointerSize, table>>
  /\ UNCHANGED pdb

\* convert_fields; an index below the first one counts from the end.  The last field of a name stays.
FieldList(index) ==
  LET k == index - FirstIndex + 1
  IN IF k >= 1 THEN types[k].leaf = "fieldlist" ELSE k + Len(types) >= 1 /\ types[k + Len(types)].leaf = "fieldlist"
OutOfRange(index) == index - FirstIndex + 1 + Len(types) < 1
FieldsAt(index) ==
  IF ~FieldList(index) THEN <<>>
  ELSE LET k == index - FirstIndex + 1 IN IF k >= 1 THEN types[k].list ELSE types[k + Len(types)].list

Field(field) == field.name :> [offset |-> field.offset, links |-> TypeFromIndex(field.ref)]
Converted(fields) == FoldLeft(LAMBDA all, field : Field(field) @@ all, <<>>, fields)
SizesIn(fields) == UNION {PointerSizes(TypeFromIndex(fields[i].ref)) : i \in DOMAIN fields}

\* An enumeration is of something that has a name and a size
Unusable(r) == Head(TypeFromIndex(r)).kind \notin Compounds \cup {"base", "enum"} \/ SizeFromIndex(r) = 0

\* One turn of process_types
ProcessType ==
  /\ conversion.stage = "process"
  /\ LET t == types[conversion.next]
         fields == FieldsAt(t.fields)
         compound == t.leaf \in Compounds /\ ~t.forward
         enum == t.leaf = "enum" /\ ~t.forward
         fails == \/ compound /\ (OutOfRange(t.fields) \/ Conflict(SizesIn(fields)))
                  \/ compound /\ \E i \in DOMAIN fields : Fails(TypeFromIndex(fields[i].ref))
                  \/ enum /\ (t.fields < FirstIndex \/ ~FieldList(t.fields) \/ Unusable(t.ref))
     IN IF fails THEN Aborts
        ELSE /\ table' = IF compound THEN [table EXCEPT !.types = (t.name :> [size |-> t.size, fields |-> Converted(fields)]) @@ @]
                         ELSE IF enum THEN [table EXCEPT !.enums = (t.name :> SizeFromIndex(t.ref)) @@ @]
                         ELSE table
             /\ pointerSize' = IF compound /\ SizesIn(fields) # {} THEN Max(SizesIn(fields)) ELSE pointerSize
             /\ conversion' = Behind(Len(types), "resolve")
             /\ UNCHANGED <<references, types>>
  /\ UNCHANGED pdb

\* replace_forward_references, over all types: the size of an array becomes a count
ArrayElements ==
  UNION {UNION {{link.element : link \in {l \in Range(table.types[n].fields[f].links) : l.kind = "array"}} :
                  f \in DOMAIN table.types[n].fields} : n \in DOMAIN table.types}
Counted(links) ==
  [i \in DOMAIN links |-> IF links[i].kind # "array" THEN links[i]
                          ELSE [links[i] EXCEPT !.size = @ \div SizeFromIndex(Element(links[i].element))]]
WithCounts(type) ==
  [type EXCEPT !.fields = [f \in DOMAIN type.fields |-> [type.fields[f] EXCEPT !.links = Counted(@)]]]
Resolve ==
  /\ conversion.stage = "resolve"
  /\ IF \E e \in ArrayElements : SizeFromIndex(Element(e)) = 0 THEN Aborts
     ELSE /\ table' = [table EXCEPT !.types = [n \in DOMAIN table.types |-> WithCounts(table.types[n])]]
          /\ Goes("symbols") /\ UNCHANGED <<references, types, pointerSize>>
  /\ UNCHANGED pdb

\* omap_lookup: bisect, which never meets the second half of a pair; -1 if it raises
Wrapped(seq, i) == IF i >= 0 THEN seq[i + 1] ELSE seq[Len(seq) + i + 1]
OmapLookup(address) ==
  LET bisect == Cardinality({i \in DOMAIN pdb.omap : pdb.omap[i][1] < address})
  IN IF bisect = Len(pdb.omap) THEN -1
     ELSE LET entry == IF pdb.omap[bisect + 1][1] > address THEN Wrapped(pdb.omap, bisect - 1) ELSE pdb.omap[bisect + 1]
          IN IF entry[2] = 0 THEN 0 ELSE entry[2] + address - entry[1]

\* One turn of read_symbol_stream; segments are counted from 1
ReadSymbol ==
  /\ conversion.stage = "symbols" /\ conversion.next <= Len(pdb.symbols)
  /\ LET symbol == pdb.symbols[conversion.next]
         address == Wrapped(pdb.sections, symbol.segment - 1) + symbol.offset
         mapped == IF pdb.omap = <<>> THEN address ELSE OmapLookup(address)
         next == [conversion EXCEPT !.next = @ + 1]
     IN IF symbol.segment >= Len(pdb.sections) \/ ~symbol.supported THEN conversion' = next /\ UNCHANGED <<references, types, pointerSize, table>>
        ELSE IF mapped = -1 THEN Aborts
        ELSE /\ table' = [table EXCEPT !.symbols = (symbol.name :> mapped) @@ @]
             /\ conversion' = next /\ UNCHANGED <<references, types, pointerSize>>
  /\ UNCHANGED pdb

Finish ==
  /\ conversion.stage = "symbols" /\ conversion.next > Len(pdb.symbols)
  /\ Goes("ended") /\ UNCHANGED <<pdb, references, types, pointerSize, table>>

PdbConvertInit ==
  /\ conversion = [stage |-> "types", next |-> 1]
  /\ references = <<>> /\ types = <<>> /\ pointerSize = 0
  /\ table = [types |-> <<>>, enums |-> <<>>, symbols |-> <<>>]

PdbConvertNext == ReadType \/ ProcessType \/ Resolve \/ ReadSymbol \/ Finish

-----------------------------------------------------------------------------
(* Properties *)

Record(r) == pdb.tpi[r - FirstIndex + 1]
Definitions(name) ==
  {t \in Range(pdb.tpi) : t.leaf \in Compounds \cup {"enum"} /\ t.name = name /\ ~t.forward}

\* The size of what an index stands for, wherever it is defined; 0 if there is none
Defined(t) == IF ~t.forward THEN {t} ELSE Definitions(t.name)
TrueSize(index) ==
  LET size(d) == IF d.leaf = "enum" THEN SizeFromIndex(d.ref) ELSE d.size
      f[r \in 0 .. index] ==
        IF r < FirstIndex THEN SizeFromIndex(r)
        ELSE LET t == Record(r)
             IN CASE t.leaf \in Compounds \cup {"enum"} -> Max({size(d) : d \in Defined(t)} \cup {0})
                  [] t.leaf \in {"array", "pointer"} -> t.size
                  [] t.leaf \in {"modifier", "bitfield"} -> f[t.ref]
                  [] OTHER -> 0
  IN f[index]

\* The size a reader of the table will find
TableSize(links) ==
  LET f[i \in DOMAIN links] ==
        LET l == links[i]
        IN CASE l.kind = "array" -> l.size * f[i + 1]
             [] l.kind = "bitfield" -> f[i + 1]
             [] l.kind = "pointer" -> pointerSize
             [] l.kind \in {"base", "based pointer"} -> l.size
             [] l.kind \in Compounds /\ l.name \in DOMAIN table.types -> table.types[l.name].size
             [] l.kind = "enum" /\ l.name \in DOMAIN table.enums -> table.enums[l.name]
             [] OTHER -> 0
  IN f[1]

\* A type that is defined once is in the table, with its fields at their places and of their sizes
LaidOut ==
  \A t \in Range(pdb.tpi) :
    t.leaf \in Compounds /\ Definitions(t.name) = {t} /\ t.name # <<Unnamed>> =>
      /\ t.name \in DOMAIN table.types /\ table.types[t.name].size = t.size
      /\ t.fields >= FirstIndex =>
           LET fields == Record(t.fields).list
           IN \A i \in DOMAIN fields :
                LET converted == table.types[t.name].fields[fields[i].name]
                IN /\ converted.offset = fields[i].offset
                   /\ TrueSize(fields[i].ref) # 0 => TableSize(converted.links) = TrueSize(fields[i].ref)

\* The last entry at or below an address says where it went
Below(address) == {i \in DOMAIN pdb.omap : pdb.omap[i][1] <= address}
AddressOf(symbol) == pdb.sections[symbol.segment] + symbol.offset
TrueAddress(address) ==
  IF pdb.omap = <<>> THEN address
  ELSE LET entry == pdb.omap[Max(Below(address))] IN IF entry[2] = 0 THEN 0 ELSE entry[2] + address - entry[1]

\* Symbols have their addresses, unless they are in the last section or before all entries
ReadAt == {i \in DOMAIN pdb.symbols : pdb.symbols[i].supported /\ pdb.symbols[i].segment < Len(pdb.sections)}
SymbolsRight ==
  /\ DOMAIN table.symbols = {pdb.symbols[i].name : i \in ReadAt}
  /\ \A i \in ReadAt :
       LET symbol == pdb.symbols[i]
       IN /\ symbol.segment > 0
          /\ \A j \in ReadAt : j > i => pdb.symbols[j].name # symbol.name
          /\ pdb.omap = <<>> \/ Below(AddressOf(symbol)) # {}
          => table.symbols[symbol.name] = TrueAddress(AddressOf(symbol))

\* The element an array is of, behind any modifiers
TrueElement(index) ==
  LET f[r \in 0 .. index] == IF r >= FirstIndex /\ Record(r).leaf = "modifier" THEN f[Record(r).ref] ELSE r
  IN f[index]
\* An array of what has no size; or what stands for its definition, but is the first type or comes behind it
Unsized(index) ==
  LET r == TrueElement(index)
  IN \/ TrueSize(r) = 0
     \/ r >= FirstIndex /\ Record(r).forward /\ r = FirstIndex
     \/ r >= FirstIndex /\ \E k \in DOMAIN pdb.tpi : /\ pdb.tpi[k].name = Record(r).name /\ pdb.tpi[k].forward
                                                     /\ \A j \in k + 1 .. Len(pdb.tpi) : pdb.tpi[j].name # Record(r).name

RaisedForCause ==
  \/ \E t \in Range(pdb.tpi) :
       \/ t.leaf = "unknown"
       \/ t.leaf \in Compounds \cup {"enum"} /\ ~t.forward /\ t.fields < FirstIndex
       \/ t.leaf = "array" /\ Unsized(t.ref)
       \/ t.leaf = "pointer" /\ \E u \in Range(pdb.tpi) : u.leaf = "pointer" /\ u.size # t.size
  \/ pdb.omap # <<>> /\ \E i \in ReadAt : Wrapped(pdb.sections, pdb.symbols[i].segment - 1) + pdb.symbols[i].offset > Last(pdb.omap)[1]

(* PdbReader: the table describes the types and symbols of the file, whatever refers to what in *)
(* which order, or there is none for a cause (process_types, replace_forward_references,        *)
(* read_symbol_stream, omap_lookup).                                                            *)
PdbConverted ==
  /\ conversion.stage = "ended" => LaidOut /\ SymbolsRight
  /\ conversion.stage = "raised" => RaisedForCause
=============================================================================
