------------------------------ MODULE Kallsyms ------------------------------
(***************************************************************************)
(* symbols/linux/kallsyms.py: the symbols a Linux kernel knows of itself   *)
(* and of its modules, listed, and looked up by address and by name.       *)
(*                                                                         *)
(* The kernel keeps the names in one stream, each as the number of its     *)
(* tokens and the tokens; a marker tells where every PerMarker-th begins.  The *)
(* first character of a name is the type of the symbol.  Symbols are       *)
(* counted from 0, in the order of their addresses.                        *)
(***************************************************************************)
EXTENDS Integers, Sequences, FiniteSets, SequencesExt, Bitwise

CONSTANTS
  Token,      \* [byte -> characters, which are numbers]: what a token stands for
  Big,        \* 0x80: a name of so many tokens, or more, has a length of two bytes
  PerMarker,      \* 256
  Sections,   \* [stext, etext, sinittext, einittext, end, modules, modulesEnd]: addresses
  RelativeBase,
  Mask,       \* the address mask of the layer; addresses of a kernel have the bit above it set
  MaxLookups  \* bound: how many symbols are looked up

VARIABLES
  ksyms,    \* the image: [codes, names, address, relative, seqs, lost, unread, modules]; never changes
  namesIO,  \* the position of _kallsyms_names_io
  offsets,  \* [index -> offset]: the lru_cache of _get_symbol_offset
  listing,  \* get_core_symbols: [state, index, offset, out]
  search,   \* lookup_name: [state, name, low, high, offset]
  answer,   \* of the last lookup: [asked, state, symbol]
  lookups   \* how many there were

kallsymsVars == <<ksyms, namesIO, offsets, listing, search, answer, lookups>>

None == -1    \* None, in the code
Thrown == -2  \* an exception
NoSymbol == [text |-> <<>>, address |-> None, size |-> None, of |-> 0]
Symbol(text, address, size, of) == [text |-> text, address |-> address, size |-> size, of |-> of]
NoAnswer == [asked |-> <<>>, state |-> "nothing", symbol |-> NoSymbol]

-----------------------------------------------------------------------------
(* The tables of the kernel *)

NumSyms == Len(ksyms.codes)
Indices == 0 .. NumSyms - 1
Code(i) == ksyms.codes[i + 1]
IsBig(i) == Len(Code(i)) >= Big

InStream(code) ==
  (IF Len(code) < Big THEN <<Len(code)>> ELSE <<Big + (Len(code) % Big), Len(code) \div Big>>) \o code
NamesOf(codes) == FlattenSeq([k \in DOMAIN codes |-> InStream(codes[k])])
Begin(i) == Len(NamesOf(SubSeq(ksyms.codes, 1, i)))
Marker(b) == Begin(b * PerMarker)

\* The stream is followed by zeros
NameByte(p) == IF p < Len(ksyms.names) THEN ksyms.names[p + 1] ELSE 0

\* kallsyms_offsets, or kallsyms_addresses: what is below the base is kept as it is
Entry(i) ==
  LET address == ksyms.address[i + 1]
  IN IF ksyms.relative /\ address >= RelativeBase THEN RelativeBase - 1 - address ELSE address

-----------------------------------------------------------------------------
(* Deviations a bug could introduce; only the mutants of PROJECT.json use them. *)

\* The search by address goes below a symbol that begins at the address
LiesBelow(address, a) == address < a

-----------------------------------------------------------------------------
(* One symbol *)

\* _get_symbol_address_by_index
AddressByIndex(i) ==
  IF i \in ksyms.unread THEN None
  ELSE IF ksyms.relative /\ Entry(i) < 0 THEN RelativeBase - 1 - Entry(i) ELSE Entry(i)

(* _expand_symbol, of what begins at the offset: the characters, the length, and where the
   stream is left.  No caller has filters. *)
Expand(offset) ==
  LET first == NameByte(offset)
      big == first >= Big
      length == IF big THEN NameByte(offset + 1) * Big + (first % Big) ELSE first
      begin == offset + (IF big THEN 2 ELSE 1)
      missing == ksyms.lost \cap offset .. (IF offset \in ksyms.lost THEN offset ELSE begin + length - 1)
  IN IF missing # {}
       THEN [read |-> FALSE, text |-> <<>>, length |-> 0,
             left |-> CHOOSE p \in missing : \A q \in missing : p <= q]
     ELSE [read |-> TRUE, length |-> length, left |-> begin + length,
           text |-> FlattenSeq([k \in 1 .. length |-> Token[NameByte(begin + k - 1)]])]

\* The type is the first character, the name is the rest
NameOf(text) == IF text = <<>> THEN <<>> ELSE Tail(text)

IsBelow(address, a) == address <= a

RECURSIVE Nearest(_, _, _), FirstAlias(_)
Nearest(a, low, high) ==
  LET mid == low + (high - low) \div 2
  IN CASE high - low <= 1 -> low
       [] high - low > 1 /\ AddressByIndex(mid) = None -> None
       [] high - low > 1 /\ AddressByIndex(mid) # None ->
            IF a = None THEN Thrown
            ELSE IF IsBelow(AddressByIndex(mid), a) THEN Nearest(a, mid, high)
            ELSE Nearest(a, low, mid)

FirstAlias(low) ==
  IF low = 0 THEN 0
  ELSE IF AddressByIndex(low - 1) = None THEN None
  ELSE IF AddressByIndex(low - 1) = AddressByIndex(low) THEN FirstAlias(low - 1) ELSE low

SectionEnd(a) ==
  IF Sections.sinittext <= a /\ a < Sections.einittext THEN Sections.einittext
  ELSE IF Sections.end # None THEN Sections.end ELSE Sections.etext

\* _get_symbol_pos: the index, None or Thrown, and the size
SymbolPos(a) ==
  LET nearest == Nearest(a, 0, NumSyms)
      pos == IF nearest < 0 THEN nearest ELSE FirstAlias(nearest)
      start == AddressByIndex(pos)
      later == {i \in pos + 1 .. NumSyms - 1 : AddressByIndex(i) = None \/ AddressByIndex(i) > start}
      next == CHOOSE i \in later : \A j \in later : i <= j
      end == IF later = {} THEN SectionEnd(a) ELSE AddressByIndex(next)
  IN IF pos < 0 THEN [pos |-> pos, size |-> None]
     ELSE IF start = None \/ end = None THEN [pos |-> None, size |-> None]
     ELSE [pos |-> pos, size |-> end - start]

(* _get_symbol_offset: from a marker over the names before the symbol.  The second byte of
   a length is read from the stream as it was left, and only here moves it. *)
RECURSIVE SkipNames(_, _, _)
SkipNames(at, n, left) ==
  LET first == NameByte(at)
      length == IF first >= Big THEN NameByte(left) * Big + (first % Big) ELSE first
  IN IF n = 0 THEN [offset |-> at, left |-> left]
     ELSE IF at \in ksyms.lost \/ (first >= Big /\ left \in ksyms.lost)
       THEN [offset |-> Thrown, left |-> left]
     ELSE SkipNames(at + length + 1, n - 1, IF first >= Big THEN left + 1 ELSE left)

SymbolOffset(i) ==
  IF i \in DOMAIN offsets THEN [offset |-> offsets[i], left |-> namesIO]
  ELSE SkipNames(Marker(i \div PerMarker), i % PerMarker, namesIO)

\* _get_symbol_offset and _expand_symbol, one after the other
ByIndex(i) ==
  LET found == SymbolOffset(i)
  IN IF found.offset = Thrown THEN [read |-> FALSE, text |-> <<>>, length |-> 0, left |-> found.left]
     ELSE Expand(found.offset)

\* What is remembered of it
Remembers(i) ==
  offsets' = IF SymbolOffset(i).offset = Thrown THEN offsets
             ELSE [j \in DOMAIN offsets \cup {i} |-> IF j = i THEN SymbolOffset(i).offset ELSE offsets[j]]

-----------------------------------------------------------------------------
(* get_core_symbols, one turn of the generator.  A name that cannot be read is passed over;
   the offset stays. *)
List ==
  LET i == listing.index
      name == Expand(listing.offset)
      address == AddressByIndex(i)
      pos == SymbolPos(address)
  IN /\ listing.state = "listing" /\ search.state = "none"
     /\ IF i = NumSyms THEN listing' = [listing EXCEPT !.state = "done"] /\ UNCHANGED namesIO
        ELSE /\ namesIO' = name.left
             /\ listing' =
                  IF ~name.read THEN [listing EXCEPT !.index = i + 1]
                  ELSE IF pos.pos = Thrown THEN [listing EXCEPT !.state = "failed"]
                  ELSE [listing EXCEPT !.index = i + 1, !.offset = @ + name.length + 1,
                                       !.out = Append(@, [index |-> i, symbol |->
                                                  Symbol(name.text, address, pos.size, 0)])]
     /\ UNCHANGED <<ksyms, offsets, search, answer, lookups>>

-----------------------------------------------------------------------------
(* The symbols of modules: a sequence of [address, size, text], or none if the tables of the
   module are not there.  In the module the bit above the mask is set. *)

HasTables(m) == ksyms.modules[m] # <<>>

\* get_module_address_boundaries: + binds tighter than &
Lowest(m) == ksyms.modules[m][1].address
Highest(m) ==
  LET last == ksyms.modules[m][Len(ksyms.modules[m])]
  IN (Mask + 1 + last.address) & (Mask + last.size)

LiesIn(s, a) == s.address <= a /\ a < s.address + s.size
InBoundaries(m, a) == Lowest(m) <= a /\ a < Highest(m)
FirstIn(S) == CHOOSE k \in S : \A j \in S : k <= j

ModuleSymbol(m, k) ==
  LET s == ksyms.modules[m][k] IN Symbol(s.text, s.address, s.size, m)

\* module_lookup_address, in a kernel that has no tree of modules
InModules(a) ==
  LET regions == {m \in DOMAIN ksyms.modules : InBoundaries(m, a)}
      module == FirstIn(regions)
      symbols == {k \in DOMAIN ksyms.modules[module] : LiesIn(ksyms.modules[module][k], a)}
  IN IF ~(Sections.modules <= a /\ a <= Sections.modulesEnd) THEN [state |-> "none", symbol |-> NoSymbol]
     ELSE IF \E m \in DOMAIN ksyms.modules : ~HasTables(m) THEN [state |-> "failed", symbol |-> NoSymbol]
     ELSE IF regions = {} \/ symbols = {} THEN [state |-> "none", symbol |-> NoSymbol]
     ELSE [state |-> "found", symbol |-> ModuleSymbol(module, FirstIn(symbols))]

\* _kallsyms_lookup_name_modules
NamedInModules(name) ==
  LET named(m) == {k \in DOMAIN ksyms.modules[m] : NameOf(ksyms.modules[m][k].text) = name}
      modules == {m \in DOMAIN ksyms.modules : named(m) # {}}
      module == FirstIn(modules)
  IN IF modules = {} THEN [state |-> "none", symbol |-> NoSymbol]
     ELSE [state |-> "found", symbol |-> ModuleSymbol(module, FirstIn(named(module)))]

-----------------------------------------------------------------------------
(* lookup_address: in the core, and if it is not there in the modules; the kernel has no
   symbols of BPF programs and of ftrace *)

IsCore(a) ==
  \/ Sections.stext <= a /\ a < Sections.etext
  \/ Sections.sinittext <= a /\ a < Sections.einittext

Answers(asked, state, symbol) == answer' = [asked |-> asked, state |-> state, symbol |-> symbol]
AnswersFrom(asked, result) == Answers(asked, result.state, result.symbol)

LookupAddress(a) ==
  LET pos == SymbolPos(a)
      name == ByIndex(pos.pos)
  IN /\ search.state = "none" /\ lookups < MaxLookups
     /\ lookups' = lookups + 1
     /\ IF IsCore(a) /\ pos.pos # None
          THEN /\ Remembers(pos.pos) /\ namesIO' = name.left
               /\ IF name.read
                    THEN Answers(<<"address", a>>, "found",
                                 Symbol(name.text, AddressByIndex(pos.pos), pos.size, 0))
                  ELSE Answers(<<"address", a>>, "failed", NoSymbol)
        ELSE AnswersFrom(<<"address", a>>, InModules(a)) /\ UNCHANGED <<namesIO, offsets>>
     /\ UNCHANGED <<ksyms, listing, search>>

-----------------------------------------------------------------------------
(* lookup_name: by halves if the kernel has an order of the names, else one after the other *)

NoSearch == [state |-> "none", name |-> <<>>, low |-> 0, high |-> 0, offset |-> 0]

\* _get_symbol_seq
Seq3(i) == ksyms.seqs[i + 1]

\* The order of strings
Precedes(s, t) ==
  \/ Len(s) < Len(t) /\ SubSeq(t, 1, Len(s)) = s
  \/ \E k \in 1 .. Len(s) : k <= Len(t) /\ s[k] < t[k] /\ SubSeq(s, 1, k - 1) = SubSeq(t, 1, k - 1)

LookupName(name) ==
  /\ search.state = "none" /\ lookups < MaxLookups
  /\ lookups' = lookups + 1
  /\ search' = [NoSearch EXCEPT !.state = IF ksyms.seqs = <<>> THEN "slow" ELSE "halves",
                                !.name = name, !.high = NumSyms - 1]
  /\ UNCHANGED <<ksyms, namesIO, offsets, listing, answer>>

\* The search is over
SearchEnds == search' = NoSearch
NotInCore == SearchEnds /\ AnswersFrom(<<"name", search.name>>, NamedInModules(search.name))
Fails == SearchEnds /\ Answers(<<"name", search.name>>, "failed", NoSymbol)
GoesOnWith(s) == search' = s /\ UNCHANGED answer

FoundAt(i, text) ==
  LET pos == SymbolPos(AddressByIndex(i))
  IN IF pos.pos = Thrown THEN Fails
     ELSE SearchEnds /\ Answers(<<"name", search.name>>, "found",
                          Symbol(text, AddressByIndex(i), pos.size, 0))

\* _core_lookup_name_slow, one turn
SlowTurn ==
  LET i == search.low
      name == Expand(search.offset)
  IN /\ search.state = "slow"
     /\ namesIO' = IF i = NumSyms THEN namesIO ELSE name.left
     /\ IF i = NumSyms THEN NotInCore
        ELSE IF ~name.read \/ SymbolPos(AddressByIndex(i)).pos = Thrown THEN Fails
        ELSE IF NameOf(name.text) = search.name THEN FoundAt(i, name.text)
        ELSE GoesOnWith([search EXCEPT !.low = i + 1, !.offset = @ + name.length + 1])
     /\ UNCHANGED <<ksyms, offsets, listing, lookups>>

\* A turn of a search in the order of names looks at one of them
Named(i) == ByIndex(Seq3(i))
LooksAt(i) ==
  /\ Remembers(Seq3(i)) /\ namesIO' = Named(i).left
  /\ UNCHANGED <<ksyms, listing, lookups>>

Stays == UNCHANGED <<ksyms, namesIO, offsets, listing, lookups>>

\* _lookup_name_index: by halves, ...
HalveTurn ==
  LET mid == (search.low + search.high) \div 2
      name == NameOf(Named(mid).text)
  IN /\ search.state = "halves"
     /\ \/ search.low > search.high /\ NotInCore /\ Stays
        \/ /\ search.low <= search.high /\ LooksAt(mid)
           /\ IF ~Named(mid).read THEN Fails
              ELSE GoesOnWith(IF Precedes(name, search.name) THEN [search EXCEPT !.low = mid + 1]
                              ELSE IF Precedes(search.name, name) THEN [search EXCEPT !.high = mid - 1]
                              ELSE [search EXCEPT !.state = "back", !.low = mid])

\* ... and back to the first of this name: if that is the first of all, None is returned
BackTurn ==
  LET before == Named(search.low - 1)
  IN /\ search.state = "back"
     /\ \/ search.low = 0 /\ NotInCore /\ Stays
        \/ /\ search.low > 0 /\ LooksAt(search.low - 1)
           /\ IF ~before.read THEN Fails
              ELSE GoesOnWith(IF NameOf(before.text) = search.name THEN [search EXCEPT !.low = @ - 1]
                              ELSE [search EXCEPT !.state = "fast"])

\* _core_lookup_name_fast, with an index
FastTurn ==
  LET name == Named(search.low)
  IN /\ search.state = "fast" /\ LooksAt(search.low)
     /\ IF name.read THEN FoundAt(Seq3(search.low), name.text) ELSE Fails

-----------------------------------------------------------------------------

KallsymsInit ==
  /\ namesIO = 0 /\ offsets = <<>> /\ lookups = 0
  /\ listing = [state |-> "listing", index |-> 0, offset |-> 0, out |-> <<>>]
  /\ search = NoSearch /\ answer = NoAnswer

-----------------------------------------------------------------------------
(* Properties *)

True(i) == ksyms.address[i + 1]
TrueText(i) == FlattenSeq([k \in DOMAIN Code(i) |-> Token[Code(i)[k]]])
TrueSize(i, a) ==
  LET later == {j \in Indices : True(j) > True(i)}
  IN (IF later = {} THEN SectionEnd(a) ELSE True(FirstIn(later))) - True(i)
TrueSymbol(i, a) == Symbol(TrueText(i), True(i), TrueSize(i, a), 0)

NameLost(i) == ksyms.lost \cap Begin(i) .. Begin(i + 1) - 1 # {}
Whole == ksyms.lost = {} /\ ksyms.unread = {}
\* Only names of less than Big tokens are passed on the way from a marker, or from the begin
SmallBefore(i) == \A j \in i - (i % PerMarker) .. i - 1 : ~IsBig(j)
AllSmallBefore(i) == \A j \in 0 .. i - 1 : ~IsBig(j)

\* The list has every symbol, in order, with its name, address and size, up to the first whose
\* name cannot be read; behind one of Big tokens nothing is promised.  It breaks off only at
\* an address that cannot be read, which also costs others their size.
ListedRight ==
  /\ \A k \in DOMAIN listing.out :
       LET i == listing.out[k].index
           s == listing.out[k].symbol
       IN AllSmallBefore(i) =>
            /\ k = i + 1 /\ s.text = TrueText(i)
            /\ s.address = (IF i \in ksyms.unread THEN None ELSE True(i))
            /\ s.size = TrueSize(i, True(i)) \/ (s.size = None /\ ksyms.unread # {})
  /\ listing.state = "failed" => ksyms.unread # {}
  /\ listing.state = "done" =>
       \A i \in Indices : AllSmallBefore(i) /\ (\A j \in 0 .. i : ~NameLost(j)) => Len(listing.out) > i

\* An address in the core is answered by the first of the symbols that begin last at or below
\* it; in a module by the symbol that contains it, if no module that is listed before begins
\* below the address.  There is no other answer but none, or an exception, for something lost.
AddressAnswered ==
  answer.state # "nothing" /\ answer.asked[1] = "address" =>
    LET at == answer.asked[2]
        nearest == {i \in Indices : True(i) <= at /\ \A j \in Indices : True(j) <= at => True(j) <= True(i)}
        symbol == IF nearest = {} THEN 0 ELSE FirstIn(nearest)
        holders == {m \in DOMAIN ksyms.modules : \E k \in DOMAIN ksyms.modules[m] : LiesIn(ksyms.modules[m][k], at)}
        shadows(m) == \E l \in 1 .. m - 1 : HasTables(l) /\ Lowest(l) <= at
    IN /\ IsCore(at) /\ SmallBefore(symbol) =>
            \/ answer.state = "found" /\ answer.symbol = TrueSymbol(symbol, at)
            \/ answer.state # "found" /\ ~Whole
       /\ ~IsCore(at) =>
            /\ answer.state = "found" <=>
                 (\E m \in holders : ~shadows(m)) /\ \A m \in DOMAIN ksyms.modules : HasTables(m)
            /\ answer.state = "found" => answer.symbol.of \in holders /\ LiesIn(answer.symbol, at)

\* A name is answered by a symbol of that name, as it is: by one of the core if there is one,
\* but not by the first in the order of names of a kernel that has one.  There is no other
\* answer but none, or an exception, for something lost.
NameAnswered ==
  answer.state # "nothing" /\ answer.asked[1] = "name" /\ (\A i \in Indices :
      IF ksyms.seqs = <<>> THEN AllSmallBefore(i) ELSE SmallBefore(i)) =>
    LET name == answer.asked[2]
        named == {i \in Indices : NameOf(TrueText(i)) = name}
        first == ksyms.seqs # <<>> /\ Seq3(0) \in named
    IN /\ answer.state = "found" /\ answer.symbol.of = 0 /\ Whole =>
            \E i \in named : answer.symbol = TrueSymbol(i, True(i))
       /\ answer.state = "found" => NameOf(answer.symbol.text) = name
       /\ named # {} /\ ~first => answer.symbol.of = 0 /\ (answer.state = "found" \/ ~Whole)
       /\ first => answer.state # "found" \/ answer.symbol.of # 0
       /\ answer.state = "none" => \A m \in DOMAIN ksyms.modules : \A k \in DOMAIN ksyms.modules[m] :
                                    NameOf(ksyms.modules[m][k].text) # name
       /\ answer.state = "failed" => ~Whole

\* What kallsyms answers is what the kernel knows
SymbolsAnswered == ListedRight /\ AddressAnswered /\ NameAnswered
=============================================================================
