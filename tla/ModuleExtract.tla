--------------------------- MODULE ModuleExtract ---------------------------
(***************************************************************************)
(* ModuleExtract of symbols/linux/utilities/modules.py: from the sections  *)
(* and symbols of a kernel module in memory, an ELF file is made.          *)
(*                                                                         *)
(* A section is known by where it begins and by its name; a name is one of *)
(* the kinds the code tells apart.  The bytes of a section are abstracted  *)
(* to where they were read and how many they are; the first size units of  *)
(* the file are its header, and those of the sections follow.  They are    *)
(* read with padding; what a section or a symbol is, is not: it may not be *)
(* there, as the pointers to the tables of symbols may not.                *)
(***************************************************************************)
EXTENDS Integers, Sequences, SequencesExt, FiniteSets, FiniteSetsExt

CONSTANTS
  AreaMin, AreaMax,  \* the boundaries of the area of modules, masked
  LastSize,          \* 0x10000: how long the last section is taken to be
  EhdrSize           \* of the header of an ELF file

High == 64  \* addresses of the kernel have bits above the mask of the layer

VARIABLES
  lkm,          \* the module: [there, sections, tables, strings, symbols]; never changes
  stage,        \* "gather", "lay", "headers", "made", "none" or "raised"
  at,           \* the section the loop is at
  original,     \* original_sections: [address, name, there], in the order of the dictionary
  laid,         \* updated_sections: [name, address, offset, size, symbols]
  strtabIndex,  \* strtab_index, or Unset
  elf           \* the file: [headers, names, nameIndex, shoff, shnum, shstrndx]

moduleVars == <<lkm, stage, at, original, laid, strtabIndex, elf>>

Unset == -1
Unnamed == "None"   \* get_name could not read it
Blank == ""
Smeared == "data?"  \* one byte of it is no character, and becomes U+FFFD

NoElf == [headers |-> <<>>, names |-> <<>>, nameIndex |-> 1, shoff |-> Unset, shnum |-> Unset, shstrndx |-> Unset]

Masked(address) == address % High

\* How many characters a name has, and how many bytes they are in UTF-8
Characters(name) == IF name = Blank THEN 0 ELSE 2
InBytes(name) == IF name = Smeared THEN 4 ELSE Characters(name)

SizesOf(sections) == FoldFunction(LAMBDA s, sum : s.size + sum, 0, sections)

ExtractStops(how) == stage' = how /\ UNCHANGED <<at, original, laid, strtabIndex, elf>>

-----------------------------------------------------------------------------
(* Deviations a bug could introduce; only the mutants of PROJECT.json use them. *)

\* The null section that leads the headers is forgotten
WithoutNull(i) == i - 1

-----------------------------------------------------------------------------
(* _parse_sections *)

PagedOut == stage = "gather" /\ at = 1 /\ ~lkm.there /\ ExtractStops("none")

InArea(address) == AreaMin <= Masked(address) /\ Masked(address) < AreaMax

\* A dictionary: a second section at an address leaves its name in the place of the first
PutSection(sections, s) ==
  IF \E i \in DOMAIN sections : sections[i].address = s.address
    THEN [i \in DOMAIN sections |-> IF sections[i].address = s.address THEN s ELSE sections[i]]
  ELSE Append(sections, s)

GatherSection ==
  /\ stage = "gather" /\ lkm.there /\ at \in DOMAIN lkm.sections
  /\ IF ~lkm.sections[at].there THEN ExtractStops("raised")
     ELSE /\ original' = IF InArea(lkm.sections[at].address) THEN PutSection(original, lkm.sections[at]) ELSE original
          /\ at' = at + 1
          /\ UNCHANGED <<stage, laid, strtabIndex, elf>>

SectionsGathered ==
  /\ stage = "gather" /\ lkm.there /\ at \notin DOMAIN lkm.sections
  /\ IF original = <<>> THEN ExtractStops("none")
     ELSE stage' = "lay" /\ at' = 1 /\ UNCHANGED <<original, laid, strtabIndex, elf>>

Sorted == SetToSortSeq({original[i].address : i \in DOMAIN original}, <)
NameAt(address) == (CHOOSE s \in Range(original) : s.address = address).name

FileOffset == EhdrSize + SizesOf(laid)
Lays(name, address, size, symbols) ==
  laid' = Append(laid, [name |-> name, address |-> address, offset |-> FileOffset, size |-> size, symbols |-> symbols])

\* Up to the next section, whatever that is
SizeOf(i) == IF i = Len(Sorted) THEN LastSize ELSE Sorted[i + 1] - Sorted[i]

LaySection ==
  /\ stage = "lay" /\ at \in DOMAIN Sorted
  /\ LET name == NameAt(Sorted[at])
     IN IF name = "strtab" /\ ~lkm.tables THEN ExtractStops("raised")
        ELSE /\ CASE name = "strtab" -> Lays(name, Sorted[at], lkm.strings, <<>>) /\ strtabIndex' = at - 1
                  [] name = "symtab" -> UNCHANGED <<laid, strtabIndex>>
                  [] OTHER -> Lays(name, Sorted[at], SizeOf(at), <<>>) /\ UNCHANGED strtabIndex
             /\ at' = at + 1 /\ UNCHANGED <<stage, original, elf>>

-----------------------------------------------------------------------------
(* _fix_sym_table *)

\* The index of a section, behind the null section
SectionIndex(i) == i

LookUpSize(address) == (CHOOSE s \in Range(laid) : s.address = address).size
Holds(section, value) ==
  /\ section.name # "symtab"
  /\ section.address <= value /\ value < section.address + LookUpSize(section.address)
FoundIn(value) == {i \in DOMAIN original : Holds(original[i], value)}

TypeOfSymbol(sym, name) ==
  IF ~sym.named THEN "section"
  ELSE IF sym.value = 0 \/ name \in {Unnamed, Blank} THEN "notype"
  ELSE IF name = "text" THEN "func" ELSE "object"

Fixed(sym) ==
  IF FoundIn(sym.value) = {}
    THEN [value |-> sym.value, section |-> sym.shndx, type |-> TypeOfSymbol(sym, Unnamed)]
  ELSE LET i == Min(FoundIn(sym.value))
           name == original[i].name
       IN [value |-> sym.value - original[i].address,
           section |-> IF name \in {Unnamed, Blank} THEN sym.shndx ELSE SectionIndex(i),
           type |-> TypeOfSymbol(sym, name)]

Symtabs == {i \in DOMAIN Sorted : NameAt(Sorted[i]) = "symtab"}

SymbolLength == 2

\* Symbols are read one after the other, and none of them is left out
SymbolsThere == lkm.tables /\ \A i \in DOMAIN lkm.symbols : lkm.symbols[i].there

LaySymtab ==
  /\ stage = "lay" /\ at \notin DOMAIN Sorted
  /\ IF Symtabs = {} THEN ExtractStops("none")
     ELSE IF ~SymbolsThere THEN ExtractStops("raised")
     ELSE IF lkm.symbols = <<>> THEN ExtractStops("none")
     ELSE /\ Lays("symtab", Sorted[Max(Symtabs)], SymbolLength * Len(lkm.symbols),
                  [i \in DOMAIN lkm.symbols |-> Fixed(lkm.symbols[i])])
          /\ stage' = "headers" /\ at' = 1
          /\ UNCHANGED <<original, strtabIndex, elf>>

-----------------------------------------------------------------------------
(* extract_module *)

HeaderType(name) ==
  CASE name = "rela" -> "RELA" [] name = "symtab" -> "SYMTAB" [] name \in {"strtab", "shstrtab"} -> "STRTAB"
    [] OTHER -> "PROGBITS"

HeaderFlags(name) ==
  {"ALLOC"} \cup (CASE name = "text" -> {"EXECINSTR"} [] name = "data" -> {"WRITE"} [] OTHER -> {})

\* The place .symtab has in updated_sections
SymtabIndex == Len(laid) - 1
LinkOf(name) == CASE name = "rela" -> SymtabIndex [] name = "symtab" -> strtabIndex [] OTHER -> 0

SectionHeader(name, address, size, offset) ==
  [name |-> elf.nameIndex, type |-> HeaderType(name), flags |-> HeaderFlags(name), address |-> address,
   offset |-> offset, size |-> size, link |-> LinkOf(name)]

\* A name that is None has no find; a link that is None cannot be packed
MakeHeader ==
  /\ stage = "headers" /\ at \in DOMAIN laid
  /\ LET s == laid[at]
     IN IF s.name = Unnamed THEN ExtractStops("raised")
        ELSE IF LinkOf(s.name) = Unset THEN ExtractStops("none")
        ELSE /\ elf' = [elf EXCEPT !.headers = Append(@, SectionHeader(s.name, s.address, s.size, s.offset)),
                                   !.names = Append(@, s.name),
                                   !.nameIndex = @ + Characters(s.name) + 1]
             /\ at' = at + 1
             /\ UNCHANGED <<stage, original, laid, strtabIndex>>

NamesLength(names) == 1 + FoldFunction(LAMBDA name, sum : InBytes(name) + 1 + sum, 0, names)

MakeFile ==
  /\ stage = "headers" /\ at \notin DOMAIN laid
  /\ LET names == Append(elf.names, "shstrtab")
         last == laid[Len(laid)]
         header == SectionHeader("shstrtab", 0, NamesLength(names), last.offset + last.size)
     IN elf' = [elf EXCEPT !.headers = Append(@, header), !.names = names,
                           !.shoff = EhdrSize + SizesOf(laid) + NamesLength(names),
                           !.shnum = Len(laid) + 2, !.shstrndx = Len(laid) + 1]
  /\ stage' = "made"
  /\ UNCHANGED <<at, original, laid, strtabIndex>>

ExtractInit ==
  /\ stage = "gather" /\ at = 1 /\ original = <<>> /\ laid = <<>>
  /\ strtabIndex = Unset /\ elf = NoElf

ExtractNext ==
  /\ \/ PagedOut \/ GatherSection \/ SectionsGathered \/ LaySection \/ LaySymtab \/ MakeHeader \/ MakeFile
  /\ UNCHANGED lkm

-----------------------------------------------------------------------------
(* Properties *)

Listed == {s \in Range(lkm.sections) : InArea(s.address)}
Listings == {s.address : s \in Listed}
OnlyAt(s) == \A t \in Listed : t.address = s.address => t = s
Plain(s) == s.name \notin {"strtab", "symtab"}
Behind(a) == {b \in Listings : b > a}
MemoryOf(s) == s.address .. (IF Behind(s.address) = {} THEN s.address + LastSize ELSE Min(Behind(s.address))) - 1

\* Headers count from 0, which is the null section
HeaderOf(s) == CHOOSE k \in DOMAIN laid : laid[k].address = s.address
Ordered == \A i, j \in DOMAIN original :
             i < j => original[i].name # "symtab" /\ (original[j].name = "symtab" \/ original[i].address < original[j].address)

\* Headers are where the header of the file says; each says where its name is in .shstrtab, if the
\* names before it are of one byte a character, and where its bytes are, which do not overlap.
HeadersInPlace ==
  /\ elf.shnum = Len(elf.headers) + 1 /\ elf.names[elf.shstrndx] = "shstrtab"
  /\ \A k \in DOMAIN elf.headers :
       /\ \/ elf.headers[k].name = NamesLength(SubSeq(elf.names, 1, k - 1))
          \/ Smeared \in Range(SubSeq(elf.names, 1, k - 1))
       /\ EhdrSize <= elf.headers[k].offset /\ elf.headers[k].offset + elf.headers[k].size <= elf.shoff
       /\ \A j \in DOMAIN elf.headers :
            j < k => elf.headers[j].offset + elf.headers[j].size <= elf.headers[k].offset

\* All that is listed in the area is in the file once, with the memory that was its own.
SectionsWhole ==
  /\ Listings = {laid[k].address : k \in DOMAIN laid} \cup {a \in Listings : NameAt(a) = "symtab"}
  /\ \A j, k \in DOMAIN laid : laid[j].address = laid[k].address => j = k
  /\ \A s \in Listed : Plain(s) /\ OnlyAt(s) => laid[HeaderOf(s)].size = Cardinality(MemoryOf(s))

\* A symbol that lies in the memory of a section is given to it, with its place in it; the
\* index is that of its header if the kernel lists the sections as they are laid.
SymbolsInPlace ==
  \A i \in DOMAIN lkm.symbols, s \in Listed :
    LET sym == lkm.symbols[i]
        fixed == Last(laid).symbols[i]
    IN Plain(s) /\ OnlyAt(s) /\ sym.value \in MemoryOf(s) =>
         \/ /\ fixed.value = sym.value - s.address
            /\ s.name # Blank => fixed.section = CHOOSE k \in DOMAIN original : original[k] = s
            /\ s.name # Blank /\ Ordered => elf.headers[fixed.section].address = s.address
         \/ \E k \in DOMAIN original :   \* the strings of .strtab are taken to reach here
              original[k].name = "strtab" /\ sym.value < original[k].address + lkm.strings

\* .symtab refers to .strtab if it lies below it, and a section of relocations to the section
\* in front of .symtab.
LinksInPlace ==
  \A k \in DOMAIN laid :
    LET link == elf.headers[k].link
    IN /\ laid[k].name = "rela" => link + 1 = Len(laid)
       /\ laid[k].name = "symtab" =>
            \A s \in Range(original) :
              s.name = "strtab" /\ (\A t \in Range(original) : t.name \in {"strtab", "symtab"} => t = s \/ t.name # s.name)
                /\ Cardinality(Symtabs) = 1 =>
                  (laid[k].address < s.address <=> link \in DOMAIN elf.names /\ elf.names[link] = "strtab")

\* What is read without padding, and is not there
Lost ==
  \/ \E s \in Range(lkm.sections) : ~s.there
  \/ ~lkm.tables \/ \E i \in DOMAIN lkm.symbols : ~lkm.symbols[i].there

(* ModuleExtract: the file describes itself, and what it holds of the module is the memory   *)
(* and the symbols of the sections it names; there is no file only if the module lacks a     *)
(* table, and an exception only if a name cannot be read, or nothing is left of a section in *)
(* the list, of a symbol, or of where the symbols are: a file has them all.                  *)
ModuleFileRight ==
  /\ stage = "made" => ~Lost /\ HeadersInPlace /\ SectionsWhole /\ SymbolsInPlace /\ LinksInPlace
  /\ stage = "none" =>
       \/ ~lkm.there \/ lkm.symbols = <<>>
       \/ \E name \in {"symtab", "strtab"} : ~\E s \in Listed : s.name = name /\ OnlyAt(s)
  /\ stage = "raised" => Lost \/ \E s \in Listed : s.name = Unnamed
=============================================================================
