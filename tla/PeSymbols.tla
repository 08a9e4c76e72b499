----------------------------- MODULE PeSymbols -----------------------------
(***************************************************************************)
(* PESymbols of plugins/windows/pe_symbols.py: names and addresses are     *)
(* resolved in the executables that are mapped in processes, or loaded by  *)
(* the kernel.  They are collected first; then each wanted module is       *)
(* looked at wherever it was found, by its PDB and by its export table,    *)
(* until what is wanted of it is resolved.                                 *)
(*                                                                         *)
(* The name of a file is [cased, parts]: whether it has capitals, and what *)
(* endswith looks at.  What is wanted of a module is a dictionary with one *)
(* or both of the keys "names" and "addresses".                            *)
(***************************************************************************)
EXTENDS Integers, Sequences, FiniteSets, SequencesExt, TLC

VARIABLES
  mappings,      \* the image: [kernel, processes, pdbs, exports], see below; never changes
  request,       \* [from, filter, wanted, process]: the arguments, and whose address is asked for
  collected,     \* file -> sequence of instances [layer, start, size]
  finding,       \* _resolve_symbols_through_methods: [state, module, method, next, found, remaining]
  pending,       \* the wanted modules find_symbols has not come to
  foundSymbols,  \* file -> sequence of [name, address]
  missing        \* file -> what of it remains

peVars == <<mappings, request, collected, finding, pending, foundSymbols, missing>>

(***************************************************************************)
(* kernel is the list of modules [file, named, base, size, layer], whose   *)
(* name may not be readable, and which no session may have mapped;         *)
(* processes are [layer, vads], each vad [start, size, file].  A table of  *)
(* symbols is a sequence of [name, address], the address relative to the   *)
(* start; pdbs and exports say which instances [layer, start] have one: an *)
(* export may be without a name.                                           *)
(***************************************************************************)
NoLayer == ""
Nameless == "ordinal"
NoFile == [cased |-> FALSE, parts |-> <<>>]
OsModuleName == [cased |-> FALSE, parts |-> <<"ntoskrnl", "exe">>]
Idle == [state |-> "collect", module |-> NoFile, method |-> 1, next |-> 1, found |-> <<>>, remaining |-> <<>>]

Lower(file) == [file EXCEPT !.cased = FALSE]
EndsWith(file, filter) == \E f \in filter : f.cased = file.cased /\ IsSuffix(f.parts, file.parts)
Instance(layer, start, size) == [layer |-> layer, start |-> start, size |-> size]

\* collected[file].append(instance), for a file that may be new
Collects(modules, file, instance) ==
  IF file \in DOMAIN modules THEN [modules EXCEPT ![file] = Append(@, instance)]
  ELSE (file :> <<instance>>) @@ modules

Filter == {Lower(f) : f \in request.filter}

-----------------------------------------------------------------------------
(* Deviations a bug could introduce; only the mutants of PROJECT.json use them. *)

\* All occurrences of a value go when it is found once
RemovesAll(seq, value) == SelectSeq(seq, LAMBDA v : v # value)

-----------------------------------------------------------------------------
(* get_kernel_modules, get_process_modules *)

\* The kernel is the first of the list, whatever it is called; and so is all without a filter
NameInKernel(i) ==
  IF Filter = {} \/ (OsModuleName \in Filter /\ i = 1) THEN OsModuleName ELSE Lower(mappings.kernel[i].file)

GetKernelModules ==
  LET gather(modules, i) ==
        LET m == mappings.kernel[i]
        IN IF m.named /\ m.layer # NoLayer /\ (Filter = {} \/ (OsModuleName \in Filter /\ i = 1) \/ EndsWith(NameInKernel(i), Filter))
             THEN Collects(modules, NameInKernel(i), Instance(m.layer, m.base, m.size))
           ELSE modules
  IN FoldLeft(gather, <<>>, [i \in DOMAIN mappings.kernel |-> i])

\* The file mappings of a process, in order; there are none if its layer cannot be made
Vads(p) == IF p.layer = NoLayer THEN <<>> ELSE [i \in DOMAIN p.vads |-> [layer |-> p.layer, vad |-> p.vads[i]]]
GetProcessModules ==
  LET gather(modules, m) ==
        IF Filter # {} /\ ~EndsWith(Lower(m.vad.file), Filter) THEN modules
        ELSE Collects(modules, Lower(m.vad.file), Instance(m.layer, m.vad.start, m.vad.size))
  IN FoldLeft(gather, <<>>, FlattenSeq([i \in DOMAIN mappings.processes |-> Vads(mappings.processes[i])]))

Collect ==
  /\ finding.state = "collect"
  /\ collected' = IF request.from = "kernel" THEN GetKernelModules ELSE GetProcessModules
  /\ finding' = [finding EXCEPT !.state = "find"]
  /\ pending' = DOMAIN request.wanted
  /\ UNCHANGED <<mappings, request, foundSymbols, missing>>

-----------------------------------------------------------------------------
(* find_symbols *)

\* A module that was not collected is passed over
FindIn(file) ==
  /\ finding.state = "find" /\ file \in pending /\ pending' = pending \ {file}
  /\ IF file \in DOMAIN collected
       THEN finding' = [Idle EXCEPT !.state = "resolve", !.module = file, !.remaining = request.wanted[file]]
     ELSE UNCHANGED finding
  /\ UNCHANGED <<mappings, request, collected, foundSymbols, missing>>

Methods == <<"pdbs", "exports">>
Method == Methods[finding.method]
Instances == collected[finding.module]
Found == Instances[finding.next]
HasSymbols(i, method) == [layer |-> i.layer, start |-> i.start] \in DOMAIN mappings[method]
SymbolsOf(i, method) == mappings[method][[layer |-> i.layer, start |-> i.start]]

\* get_address_for_name and get_name_for_address: the first that fits, which need not have a name
Resolution(i, method, key, value) ==
  LET fits == {n \in DOMAIN SymbolsOf(i, method) :
                 LET s == SymbolsOf(i, method)[n]
                 IN IF key = "names" THEN s.name = value ELSE i.start + s.address = value}
      first == SymbolsOf(i, method)[CHOOSE n \in fits : \A m \in fits : n <= m]
  IN IF fits = {} \/ first.name = Nameless THEN {} ELSE {[name |-> first.name, address |-> i.start + first.address]}

Removes(seq, value) == RemoveFirst(seq, value)

\* As soon as nothing of one key remains, what there is of the other one is left, here and elsewhere
TakeValue(result, wants) ==
  LET symbol == Resolution(Found, Method, wants.key, wants.value)
      rest == Removes(result.remaining[wants.key], wants.value)
  IN IF result.done \/ symbol = {} THEN result
     ELSE [found |-> result.found \o SetToSeq(symbol),
           remaining |-> IF rest = <<>> THEN [k \in DOMAIN result.remaining \ {wants.key} |-> result.remaining[k]]
                         ELSE [result.remaining EXCEPT ![wants.key] = rest],
           done |-> rest = <<>>]

Wants(remaining, key) ==
  IF key \in DOMAIN remaining
    THEN [i \in DOMAIN remaining[key] |-> [key |-> key, value |-> remaining[key][i]]]
  ELSE <<>>

GetSymbolValues ==
  FoldLeft(TakeValue, [found |-> finding.found, remaining |-> finding.remaining, done |-> FALSE],
           Wants(finding.remaining, "names") \o Wants(finding.remaining, "addresses"))

ResolveThrough ==
  /\ finding.state = "resolve" /\ finding.next \in DOMAIN Instances
  /\ finding' =
       IF ~HasSymbols(Found, Method) THEN [finding EXCEPT !.next = @ + 1]
       ELSE [finding EXCEPT !.found = GetSymbolValues.found, !.remaining = GetSymbolValues.remaining, !.next = @ + 1,
                            !.state = IF GetSymbolValues.done THEN "resolved" ELSE @]
  /\ UNCHANGED <<mappings, request, collected, pending, foundSymbols, missing>>

NextMethod ==
  /\ finding.state = "resolve" /\ finding.next \notin DOMAIN Instances
  /\ finding' = IF finding.method = Len(Methods) THEN [finding EXCEPT !.state = "resolved"]
                ELSE [finding EXCEPT !.method = @ + 1, !.next = 1]
  /\ UNCHANGED <<mappings, request, collected, pending, foundSymbols, missing>>

Resolved ==
  /\ finding.state = "resolved" /\ finding' = [Idle EXCEPT !.state = "find"]
  /\ foundSymbols' = IF finding.found = <<>> THEN foundSymbols ELSE (finding.module :> finding.found) @@ foundSymbols
  /\ missing' = IF finding.remaining = <<>> THEN missing ELSE (finding.module :> finding.remaining) @@ missing
  /\ UNCHANGED <<mappings, request, collected, pending>>

-----------------------------------------------------------------------------
(* path_and_symbol_for_address *)

\* The first range that holds the address says which module is asked for it; all modules have
\* been collected once, for all processes
AskAddress(p, address) ==
  /\ finding.state = "find" /\ pending = {} /\ request.wanted = <<>> /\ address # 0
  /\ LET ranges == mappings.processes[p].vads
         holds == {i \in DOMAIN ranges : ranges[i].start <= address /\ address < ranges[i].start + ranges[i].size}
         file == Lower(ranges[CHOOSE i \in holds : \A j \in holds : i <= j].file)
     IN /\ holds # {}
        /\ request' = [request EXCEPT !.wanted = file :> ("addresses" :> <<address>>), !.process = p]
        /\ pending' = {file}
  /\ UNCHANGED <<mappings, collected, finding, foundSymbols, missing>>

PeInit ==
  /\ collected = <<>> /\ finding = Idle /\ pending = {} /\ foundSymbols = <<>> /\ missing = <<>>

MappedAddresses == UNION {LET v == mappings.processes[p].vads IN UNION {v[i].start .. v[i].start + v[i].size : i \in DOMAIN v} :
                      p \in DOMAIN mappings.processes}
PeNext ==
  \/ Collect \/ ResolveThrough \/ NextMethod \/ Resolved
  \/ \E file \in pending : FindIn(file)
  \/ \E p \in DOMAIN mappings.processes, address \in MappedAddresses : AskAddress(p, address)

-----------------------------------------------------------------------------
(* Properties *)

PeEnded == finding.state = "find" /\ pending = {}

\* Where the image has a file, as the code looks for it
Mapped(file) ==
  IF request.from = "kernel"
    THEN {Instance(m.layer, m.base, m.size) :
            m \in {m \in Range(mappings.kernel) : m.named /\ m.layer # NoLayer
                     /\ (Lower(m.file) = file \/ (file = OsModuleName /\ m = mappings.kernel[1]))}}
  ELSE UNION {{Instance(p.layer, v.start, v.size) : v \in {v \in Range(p.vads) : Lower(v.file) = file}} :
                p \in {p \in Range(mappings.processes) : p.layer # NoLayer}}
Known(i) == UNION {Range(SymbolsOf(i, method)) : method \in {m \in Range(Methods) : HasSymbols(i, m)}}
Answers(i, key) ==
  {IF key = "names" THEN s.name ELSE i.start + s.address : s \in {s \in Known(i) : s.name # Nameless}}
Matching(symbol, key, value) == IF key = "names" THEN symbol.name = value ELSE symbol.address = value
Times(seq, Test(_)) == Cardinality({i \in DOMAIN seq : Test(seq[i])})

\* What is found is a symbol of the module, at its place in some mapping of it
FoundRight ==
  \A file \in DOMAIN foundSymbols : \A s \in Range(foundSymbols[file]) :
    s.name # Nameless /\ \E i \in Mapped(file) : [name |-> s.name, address |-> s.address - i.start] \in Known(i)

\* Each value is found or missing as often as it was wanted
EachAccounted ==
  \A file \in DOMAIN request.wanted : \A key \in DOMAIN request.wanted[file] : \A value \in Range(request.wanted[file][key]) :
    LET found == IF file \in DOMAIN foundSymbols THEN foundSymbols[file] ELSE <<>>
        left == IF file \in DOMAIN missing /\ key \in DOMAIN missing[file] THEN missing[file][key] ELSE <<>>
    IN file \in DOMAIN collected /\ DOMAIN request.wanted[file] = {key} =>
         Times(found, LAMBDA s : Matching(s, key, value)) + Times(left, LAMBDA v : v = value)
           = Times(request.wanted[file][key], LAMBDA v : v = value)

\* What is missing could not be resolved, unless all that was wanted under the other key has
\* been; an export without a name hides another one at its address.
MissingForCause ==
  \A file \in DOMAIN missing : \A key \in DOMAIN missing[file] : \A value \in Range(missing[file][key]) :
    \/ DOMAIN request.wanted[file] # DOMAIN missing[file]
    \/ \A i \in Mapped(file) :
         \/ value \notin Answers(i, key)
         \/ key = "addresses" /\ [name |-> Nameless, address |-> value - i.start] \in Known(i)

\* A wanted module that is mapped is collected, if it was wanted in lower case
WantedCollected ==
  \A file \in DOMAIN request.wanted :
    /\ file \in DOMAIN collected => Mapped(file) # {}
    /\ ~file.cased /\ Mapped(file) # {} =>
         file \in DOMAIN collected
         /\ \/ file = OsModuleName \/ (OsModuleName \in Filter /\ mappings.kernel # <<>> /\ Lower(mappings.kernel[1].file) = file)
            \/ Mapped(file) = Range(collected[file])

\* The symbol of an address in a process is one its own mapping has there, if the module is
\* mapped at one place in all processes
OwnSymbol ==
  request.process # 0 =>
    \A file \in DOMAIN foundSymbols :
      (\A i, j \in Mapped(file) : i.start = j.start) =>
        \A s \in Range(foundSymbols[file]) :
          \E v \in Range(mappings.processes[request.process].vads) : Lower(v.file) = file /\ s.address \in v.start .. v.start + v.size - 1

(* PESymbols: what is found is right, and nothing that was wanted is lost without a reason;  *)
(* but without a filter all modules of the kernel are taken for the kernel.                  *)
WantedFound ==
  PeEnded =>
    IF request.from = "kernel" /\ request.filter = {} THEN DOMAIN collected \subseteq {OsModuleName}
    ELSE FoundRight /\ EachAccounted /\ MissingForCause /\ WantedCollected /\ OwnSymbol
=============================================================================
