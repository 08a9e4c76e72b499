--------------------------- MODULE KernelModules ---------------------------
(***************************************************************************)
(* Modules of symbols/linux/utilities/modules.py: the modules of a Linux   *)
(* kernel are gathered from its list, from sysfs, by a scan of the memory  *)
(* they are in, and as the kernel itself; and an address is looked up in   *)
(* what was found.  The modules the list hides, and the parameters one was *)
(* loaded with, are read beside it.                                        *)
(*                                                                         *)
(* A structure at an offset is what the code would read there, of a module *)
(* or not.  Addresses are masked if not said otherwise.                    *)
(***************************************************************************)
EXTENDS Integers, Sequences, FiniteSets, SequencesExt

CONSTANTS
  KernelText,     \* [start, end], _text and _etext
  AreaOfModules,  \* [min, max], of get_modules_memory_boundaries
  PointerSize,    \* get_module_address_alignment
  MinimumSize,    \* MODULE_MINIMUM_SIZE
  MaximumSize,    \* MODULE_MAXIMUM_CORE_SIZE, and that of the text
  MaxMembers,     \* 32: what an array of parameters may hold
  Askable         \* the addresses that are looked up

VARIABLES
  lkms,       \* the image: [structs, list, kobjects, wanted, shift, words, params]; never changes
  gathering,  \* run_modules_scanners: [state, by, next], by and next counting from 1
  found,      \* run_results: a sequence of [offset, name, start, end] for each gatherer
  known,      \* what flatten_run_modules_results makes of it
  hidden,     \* what get_hidden_modules yields besides the list, in order
  owner,      \* the last answer of module_lookup_by_address: [asked, module, symbol]
  loadParams  \* of get_load_parameters: a sequence of <<name, value>>

kernelModulesVars == <<lkms, gathering, found, known, hidden, owner, loadParams>>

KernelName == "__kernel__"
Nothing == -1   \* None, in the code
NoModuleInfo == [offset |-> Nothing, name |-> "", start |-> Nothing, end |-> Nothing]
NoOwner == [asked |-> Nothing, module |-> NoModuleInfo, symbol |-> ""]

-----------------------------------------------------------------------------
(* The structure of a module: its name, if it is readable (named); the memory of its core as   *)
(* regions [base, size], of which there is one before Linux 6.4, if they are (sized); the size *)
(* of its init, the module its mkobj leads to (self), and its symbols [name, value].           *)

Offsets == DOMAIN lkms.structs
Struct(o) == lkms.structs[o]
GetModuleBase(m) == m.mem[1].base
GetCoreSize(m) == FoldLeft(LAMBDA sum, r : sum + r.size, 0, m.mem)
GetCoreTextSize(m) == m.mem[1].size

IsValid(o) ==
  LET m == Struct(o)
  IN /\ m.named /\ m.sized
     /\ 0 < GetCoreTextSize(m) /\ GetCoreTextSize(m) <= MaximumSize
     /\ 0 < GetCoreSize(m) /\ GetCoreSize(m) <= MaximumSize
     /\ GetCoreSize(m) + m.init >= MinimumSize
     /\ m.self = o

FirstSymbolAt(m, address) ==
  LET there == {i \in DOMAIN m.symbols : m.symbols[i].value = address}
  IN IF there = {} THEN "" ELSE m.symbols[CHOOSE i \in there : \A j \in there : i <= j].name

-----------------------------------------------------------------------------
(* Deviations a bug could introduce; only the mutants of PROJECT.json use them. *)

\* An address just behind a module is taken to lie in it
TouchesModule(info, address) == info.start <= address /\ address <= info.end

-----------------------------------------------------------------------------
(* The gatherers *)

\* get_kset_modules: a dictionary by name, of what is referred to more than twice
SysFsModules ==
  LET put(seq, k) ==
        IF k.refs <= 2 THEN seq
        ELSE IF \E i \in DOMAIN seq : seq[i].name = k.name
          THEN [i \in DOMAIN seq |-> IF seq[i].name = k.name THEN k ELSE seq[i]]
        ELSE Append(seq, k)
      kept == FoldLeft(put, <<>>, lkms.kobjects)
  IN [i \in DOMAIN kept |-> kept[i].mod]

\* get_hidden_modules, besides the modules that are known
Alignment(modules) == IF \A o \in modules : o % PointerSize = 0 THEN PointerSize ELSE 1
Scanned(modules) ==
  LET at(o) == (o - AreaOfModules.min) % Alignment(modules) = 0
  IN SetToSortSeq({o \in Offsets \ modules :
                     AreaOfModules.min <= o /\ o < AreaOfModules.max /\ at(o) /\ IsValid(o)}, <)

Gathered(g) ==
  CASE g = "Lsmod" -> lkms.list
    [] g = "SysFs" -> SysFsModules
    [] g = "Scanner" -> Scanned({})
    [] g = "kernel" -> <<KernelText.start>>

InfoOf(o) ==
  LET m == Struct(o)
  IN [offset |-> o, name |-> m.name, start |-> GetModuleBase(m), end |-> GetModuleBase(m) + GetCoreSize(m)]
KernelInfo == [offset |-> KernelText.start, name |-> KernelName, start |-> KernelText.start, end |-> KernelText.end]

-----------------------------------------------------------------------------
(* run_modules_scanners *)

AllNamed == \A i, j \in DOMAIN lkms.wanted : lkms.wanted[i] = lkms.wanted[j] => i = j

Refuse ==
  /\ gathering.state = "new" /\ (lkms.wanted = <<>> \/ ~AllNamed)
  /\ gathering' = [gathering EXCEPT !.state = "ValueError"]
  /\ UNCHANGED <<found, known>>

BeginGathering ==
  /\ gathering.state = "new" /\ lkms.wanted # <<>> /\ AllNamed
  /\ gathering' = [gathering EXCEPT !.state = "gathering"] /\ found' = <<<<>>>>
  /\ UNCHANGED known

OfGatherer == Gathered(lkms.wanted[gathering.by])

\* get_module_info_for_module: without a name it is passed over, without sizes it raises
GatherModule ==
  /\ gathering.state = "gathering" /\ gathering.next \in DOMAIN OfGatherer
  /\ LET o == OfGatherer[gathering.next]
         kernel == lkms.wanted[gathering.by] = "kernel"
         adds(info) == found' = [found EXCEPT ![gathering.by] = Append(@, info)]
                       /\ gathering' = [gathering EXCEPT !.next = @ + 1]
     IN CASE kernel -> adds(KernelInfo)
          [] ~kernel /\ ~Struct(o).named -> gathering' = [gathering EXCEPT !.next = @ + 1] /\ UNCHANGED found
          [] ~kernel /\ Struct(o).named /\ ~Struct(o).sized ->
               gathering' = [gathering EXCEPT !.state = "raised"] /\ UNCHANGED found
          [] ~kernel /\ Struct(o).named /\ Struct(o).sized -> adds(InfoOf(o))
  /\ UNCHANGED known

\* Of the modules that begin at one address, the first one stays
FlattenResults(results) ==
  LET put(seq, info) == IF \E i \in DOMAIN seq : seq[i].start = info.start THEN seq ELSE Append(seq, info)
  IN FoldLeft(put, <<>>, FlattenSeq(results))

NextGatherer ==
  /\ gathering.state = "gathering" /\ gathering.next \notin DOMAIN OfGatherer
  /\ IF gathering.by < Len(lkms.wanted)
       THEN /\ gathering' = [gathering EXCEPT !.by = @ + 1, !.next = 1] /\ found' = Append(found, <<>>)
            /\ UNCHANGED known
     ELSE gathering' = [gathering EXCEPT !.state = "done"] /\ known' = FlattenResults(found) /\ UNCHANGED found

-----------------------------------------------------------------------------
(* module_lookup_by_address *)

LiesInModule(info, address) == info.start <= address /\ address < info.end

FindOwner(address) ==
  /\ gathering.state = "done" /\ owner.asked = Nothing /\ known # <<>>
  /\ LET matches == {i \in DOMAIN known : LiesInModule(known[i], address)}
         match == known[CHOOSE i \in matches : \A j \in matches : i <= j]
     IN owner' =
          IF matches = {} THEN [NoOwner EXCEPT !.asked = address]
          ELSE [asked |-> address, module |-> match,
                symbol |-> IF match.name = KernelName THEN "in kernel" ELSE FirstSymbolAt(Struct(match.offset), address)]
  /\ UNCHANGED <<gathering, found, known, hidden, loadParams>>

-----------------------------------------------------------------------------
(* The plugins beside it *)

\* hidden_modules, which leaves out what the list has
FindHidden ==
  /\ gathering.state = "new" /\ hidden = <<>>
  /\ hidden' = Scanned(Range(lkms.list))
  /\ UNCHANGED <<gathering, found, known, owner, loadParams>>

\* A parameter is [name, kind, arg, members]: kind tells its get function, arg is the address of
\* an integer, or whether a string can be read; members are read behind an array
WordAt(a) == IF a \in DOMAIN lkms.words THEN lkms.words[a] ELSE Nothing

NoValue == <<"none">>
AsNumber(value) == IF value = Nothing THEN NoValue ELSE <<"number", value>>
AsBoolean(value, zero, other) == IF value = Nothing THEN NoValue ELSE IF value = 0 THEN <<zero>> ELSE <<other>>

RECURSIVE ParamVal(_)
ParamVal(p) ==
  LET value == WordAt(p.arg + lkms.shift)
  IN CASE p.kind = "array" ->
            IF Len(p.members) > MaxMembers \/ p.members = <<>> THEN NoValue
            ELSE <<"array", [i \in DOMAIN p.members |-> ParamVal(p.members[i])]>>
       [] p.kind = "string" -> IF p.arg = 0 THEN NoValue ELSE <<"text">>
       [] p.kind = "int" -> AsNumber(value)
       [] p.kind = "bool" -> AsBoolean(value, "N", "Y")
       [] p.kind = "invbool" -> AsBoolean(value, "Y", "N")
       [] OTHER -> NoValue

GetLoadParameters ==
  /\ gathering.state = "new" /\ loadParams = <<>>
  /\ LET named == SelectSeq(lkms.params, LAMBDA p : p.name # "")
     IN loadParams' = [i \in DOMAIN named |-> <<named[i].name, ParamVal(named[i])>>]
  /\ UNCHANGED <<gathering, found, known, hidden, owner>>

-----------------------------------------------------------------------------

KernelModulesInit ==
  /\ gathering = [state |-> "new", by |-> 1, next |-> 1] /\ found = <<>> /\ known = <<>>
  /\ hidden = <<>> /\ owner = NoOwner /\ loadParams = <<>>

KernelModulesNext ==
  /\ \/ (Refuse \/ BeginGathering \/ GatherModule \/ NextGatherer) /\ UNCHANGED <<hidden, owner, loadParams>>
     \/ \E address \in Askable : FindOwner(address)
     \/ FindHidden \/ GetLoadParameters
  /\ UNCHANGED lkms

-----------------------------------------------------------------------------
(* Properties *)

Sound(o) == Struct(o).named /\ Struct(o).sized
Aligned(o) == (o - AreaOfModules.min) % PointerSize = 0

\* The structures a gatherer leads to, from the image
Led(g) ==
  CASE g = "Lsmod" -> Range(lkms.list)
    [] g = "SysFs" -> {k.mod : k \in {k \in Range(lkms.kobjects) : k.refs > 2}}
    [] g = "Scanner" -> {o \in Offsets : IsValid(o) /\ AreaOfModules.min <= o /\ o < AreaOfModules.max}
    [] OTHER -> {}
OnlyName(o) == \A j, k \in Range(lkms.kobjects) : j.mod = o /\ k.name = j.name => k = j
LedTo == UNION {Led(g) : g \in Range(lkms.wanted)}
MemoryOfModule(m) == UNION {r.base .. r.base + r.size - 1 : r \in Range(m.mem)}
InOnePiece(m) == \A i \in 1 .. Len(m.mem) - 1 : m.mem[i + 1].base = m.mem[i].base + m.mem[i].size

\* Each module a gatherer leads to is known, or another one that begins where it does and
\* was found before; those of sysfs that have a name alone.  A scan finds those that lie where
\* pointers may.
AllGathered ==
  gathering.state = "done" =>
    /\ \A i, j \in DOMAIN known : known[i].start = known[j].start => i = j
    /\ \A g \in Range(lkms.wanted) : \A o \in {o \in Led(g) : Sound(o)} :
         \/ \E i \in DOMAIN known : known[i].start = GetModuleBase(Struct(o))
         \/ g = "SysFs" /\ ~OnlyName(o)
         \/ g = "Scanner" /\ ~Aligned(o)
    /\ \A i \in DOMAIN known : known[i] = KernelInfo \/ (known[i].offset \in LedTo /\ known[i] = InfoOf(known[i].offset))

\* An address in the memory of a module that is known is answered by a module that is known; by
\* that one if no other one has the address, and all have their memory in one piece.
OwnerRight ==
  owner.asked # Nothing =>
    LET inside == {i \in DOMAIN known : known[i].name # KernelName
                                        /\ owner.asked \in MemoryOfModule(Struct(known[i].offset))}
        whole == \A i \in DOMAIN known : known[i].name = KernelName \/ InOnePiece(Struct(known[i].offset))
        kernel == KernelInfo \in Range(known) /\ owner.asked \in KernelText.start .. KernelText.end - 1
    IN whole =>
         /\ owner.module = NoModuleInfo <=> inside = {} /\ ~kernel
         /\ Cardinality(inside) = 1 /\ ~kernel => owner.module = known[CHOOSE i \in inside : TRUE]
         /\ inside # {} /\ owner.module # KernelInfo =>
              \A s \in Range(Struct(owner.module.offset).symbols) :
                s.value = owner.asked => owner.symbol # ""

\* What the list hides is found, and nothing that it has
HiddenRight ==
  hidden # <<>> =>
    /\ Range(hidden) \cap Range(lkms.list) = {}
    /\ \A o \in Led("Scanner") \ Range(lkms.list) :
         Aligned(o) => o \in Range(hidden)

\* What the kernel would print of a parameter
RECURSIVE Shown(_)
Shown(p) ==
  CASE p.kind = "array" ->
         IF p.members = <<>> THEN NoValue ELSE <<"array", [i \in DOMAIN p.members |-> Shown(p.members[i])]>>
    [] p.kind = "string" /\ p.arg # 0 -> <<"text">>
    [] p.kind \in {"int", "bool", "invbool"} /\ WordAt(p.arg) # Nothing ->
         IF p.kind = "int" THEN <<"number", WordAt(p.arg)>>
         ELSE IF (p.kind = "bool") = (WordAt(p.arg) = 0) THEN <<"N">> ELSE <<"Y">>
    [] OTHER -> NoValue

\* The parameters that can be named are shown as the kernel would print them, if it was not
\* moved: integers are read at their address moved with it.
ParamsRight ==
  loadParams # <<>> /\ lkms.shift = 0 =>
    \A p \in Range(lkms.params) :
      p.name # "" /\ Len(p.members) <= MaxMembers => <<p.name, Shown(p)>> \in Range(loadParams)

(* Modules: what the gatherers lead to is known, once, and found by its addresses; hidden      *)
(* modules are those the list has not; a module can only be lost to one that begins where it   *)
(* does, and a whole scan only to a module whose sizes cannot be read.                         *)
ModulesAccounted ==
  /\ AllGathered /\ OwnerRight /\ HiddenRight /\ ParamsRight
  /\ gathering.state = "raised" => \E o \in LedTo : Struct(o).named /\ ~Struct(o).sized
=============================================================================
