--------------------------- MODULE KernelPdbScan ---------------------------
(***************************************************************************)
(* KernelPDBScanner of automagic/pdbscan.py and pdbname_scan of            *)
(* symbols/windows/pdbutil.py: the kernel of a Windows image is looked for *)
(* in each Intel layer, by five methods one after the other, from its PDB  *)
(* signature and the header in front of it; its place is written into the  *)
(* configuration and its symbols are loaded.                               *)
(*                                                                         *)
(* Addresses are pages.  A page is [mz, pdbs]: whether it begins with "MZ",*)
(* and the PDB signatures in it, in order.                                 *)
(***************************************************************************)
EXTENDS Integers, Sequences, FiniteSets, FiniteSetsExt, SequencesExt, TLC

CONSTANTS
  MaxPdbPages,     \* max_pdb_size in pages
  MaxInvalid,      \* maximum_invalid_count of pdbname_scan
  OptimizedStart,  \* where the upper half of the kernel begins, 0x1F0 << 39
  FixedBase,       \* where old kernels map the physical memory
  LowStubSpan,     \* the 32 MB that are searched below a hint, in chunks of LowStubChunk
  LowStubChunk,
  PdbsAvailable    \* the PDBs for which symbols can be had

VARIABLES
  windows,      \* the image: [memory, layers, requirements], see below; never changes
  pdbScan,      \* determine_valid_kernel: [state, requirement, layer, method, kernel]
  offsetsSet,   \* the configuration: layer -> kernel_virtual_offset
  tables        \* the configuration: symbol requirement -> PDB of its table

pdbVars == <<windows, pdbScan, offsetsSet, tables>>

(***************************************************************************)
(* memory: name of a physical layer -> [pages, kdbg, ntpaths, stubs]: its  *)
(* pages, the pointers at the patterns of the two methods that look for    *)
(* one, and the start blocks in its first megabyte, [cr3, hint].           *)
(* layers: sequence of [physical, map, wide, entry], the map from pages to *)
(* pages, wide for Intel32e.  requirements: how many symbol tables are     *)
(* wanted.                                                                 *)
(***************************************************************************)
None == -1
Unreadable == -2
NoKernel == [layer |-> 0, kvo |-> None, pdb |-> "", page |-> None, by |-> "none"]
Layer(l) == windows.layers[l]
Physical(l) == windows.memory[Layer(l).physical]

\* What is read from a layer: a function from the pages that can be read
VirtualPages(l) == [p \in DOMAIN Layer(l).map |-> Physical(l).pages[Layer(l).map[p]]]
PhysicalPages(l) == Physical(l).pages

-----------------------------------------------------------------------------
(* Deviations a bug could introduce; only the mutants of PROJECT.json use them. *)

\* The page of the signature itself is left out
HeadersBelow(pages, top, low) ==
  {p \in DOMAIN pages : /\ p \in low + 1 .. top - 1 /\ pages[p].mz
                        /\ Cardinality((p + 1 .. top) \ DOMAIN pages) <= MaxInvalid}

-----------------------------------------------------------------------------
(* pdbname_scan *)

\* The headers from the page of a signature down to that of the one before; page 0 is left out, and
\* the search is given up after too many pages that are missing
Headers(pages, top, low) ==
  {p \in DOMAIN pages : /\ p \in low + 1 .. top /\ pages[p].mz
                        /\ Cardinality((p + 1 .. top) \ DOMAIN pages) <= MaxInvalid}

Signatures(pages, start, end) ==
  FoldLeft(LAMBDA hits, p : hits \o [i \in DOMAIN pages[p].pdbs |-> [page |-> p, pdb |-> pages[p].pdbs[i]]],
           <<>>, SetToSortSeq({p \in DOMAIN pages : p \in start .. end - 1 /\ pages[p].pdbs # <<>>}, <))

PdbNameScan(pages, start, end) ==
  LET hits == Signatures(pages, start, end)
      low(i) == IF i = 1 THEN 0 ELSE hits[i - 1].page
      headers(i) == Headers(pages, hits[i].page, low(i))
  IN [i \in DOMAIN hits |-> hits[i] @@ ("mz" :> IF headers(i) = {} THEN None ELSE Max(headers(i)))]

-----------------------------------------------------------------------------
(* The methods: each gives the kernel it has found, none, or raises *)

Raises == [NoKernel EXCEPT !.by = "raised"]
FirstOf(kernels) == LET found == SelectSeq(kernels, LAMBDA k : k # NoKernel) IN IF found = <<>> THEN NoKernel ELSE found[1]
PagesEnd(pages) == Max(DOMAIN pages \cup {0}) + 1

\* The first signature behind a header, whosever it is
CheckKernelOffset(l, address) ==
  LET pages == VirtualPages(l)
      hits == PdbNameScan(pages, address, address + MaxPdbPages)
  IN IF address \notin DOMAIN pages \/ ~pages[address].mz \/ hits = <<>> THEN NoKernel
     ELSE [layer |-> l, kvo |-> address, pdb |-> hits[1].pdb, page |-> hits[1].page, by |-> "check"]

\* A pointer that cannot be read ends all, unless a kernel has been found before it
MethodOffset(l, pointers) ==
  FirstOf([i \in DOMAIN pointers |-> IF pointers[i] = Unreadable THEN Raises ELSE CheckKernelOffset(l, pointers[i])])

\* The hint of the first start block of this address space; then chunks below it, each upwards.
\* The blocks are read from the layer that is called memory_layer, whichever layer is looked at.
MethodLowStub(l) ==
  LET stubs == IF "memory_layer" \in DOMAIN windows.memory
                 THEN SelectSeq(windows.memory["memory_layer"].stubs, LAMBDA s : s.cr3 = Layer(l).entry) ELSE <<>>
      base(n) == (stubs[1].hint \div LowStubChunk - n) * LowStubChunk
      chunks == {n \in 0 .. LowStubSpan : base(n) + LowStubSpan > stubs[1].hint}
      chunk(n) == [i \in 1 .. LowStubChunk |-> CheckKernelOffset(l, base(n) + i - 1)]
  IN IF ~Layer(l).wide THEN NoKernel
     ELSE IF "memory_layer" \notin DOMAIN windows.memory THEN Raises
     ELSE IF stubs = <<>> \/ base(0) = 0 THEN NoKernel
     ELSE FirstOf(FlattenSeq([n \in 1 .. Cardinality(chunks) |-> chunk(n - 1)]))

MethodFixedMapping(l) ==
  LET hits == PdbNameScan(PhysicalPages(l), 0, PagesEnd(PhysicalPages(l)))
      test(hit) ==
        LET kvo == hit.mz + FixedBase
        IN IF hit.mz # None /\ kvo \in DOMAIN Layer(l).map /\ Layer(l).map[kvo] = hit.mz
             THEN [layer |-> l, kvo |-> kvo, pdb |-> hit.pdb, page |-> hit.page, by |-> "fixed"]
           ELSE NoKernel
  IN FirstOf([i \in DOMAIN hits |-> test(hits[i])])

MethodSlowScan(l) ==
  LET hits(start) == PdbNameScan(VirtualPages(l), start, PagesEnd(VirtualPages(l)))
      test(hit) == IF hit.mz = None THEN NoKernel
                   ELSE [layer |-> l, kvo |-> hit.mz, pdb |-> hit.pdb, page |-> hit.page, by |-> "scan"]
      scan(start) == FirstOf([i \in DOMAIN hits(start) |-> test(hits(start)[i])])
  IN FirstOf(<<scan(IF Layer(l).wide THEN OptimizedStart ELSE 0), scan(0)>>)

Method(l, method) ==
  CASE method = 1 -> MethodLowStub(l)
    [] method = 2 -> MethodOffset(l, Physical(l).kdbg)
    [] method = 3 -> MethodOffset(l, Physical(l).ntpaths)
    [] method = 4 -> MethodFixedMapping(l)
    [] method = 5 -> MethodSlowScan(l)

-----------------------------------------------------------------------------
(* determine_valid_kernel, and what is done with it *)

Begin ==
  /\ pdbScan.state = "next"
  /\ pdbScan' =
       IF pdbScan.requirement > windows.requirements THEN [pdbScan EXCEPT !.state = "ended"]
       ELSE IF pdbScan.requirement \in DOMAIN tables THEN [pdbScan EXCEPT !.requirement = @ + 1]
       ELSE [pdbScan EXCEPT !.state = "method", !.layer = 1, !.method = 1, !.kernel = NoKernel]
  /\ UNCHANGED <<windows, offsetsSet, tables>>

\* After a kernel is found the methods end, but not the layers: the next one forgets it
TryMethod ==
  /\ pdbScan.state = "method"
  /\ LET kernel == Method(pdbScan.layer, pdbScan.method)
         over == kernel # NoKernel \/ pdbScan.method = 5
     IN pdbScan' =
          [pdbScan EXCEPT
             !.kernel = kernel,
             !.state = IF kernel = Raises THEN "raised"
                       ELSE IF over /\ pdbScan.layer = Len(windows.layers) THEN "fulfil" ELSE "method",
             !.layer = IF over THEN @ + 1 ELSE @,
             !.method = IF over THEN 1 ELSE @ + 1]
  /\ UNCHANGED <<windows, offsetsSet, tables>>

\* set_kernel_virtual_offset and recurse_symbol_fulfiller: all requirements get the same symbols
Fulfil ==
  /\ pdbScan.state = "fulfil"
  /\ LET kernel == pdbScan.kernel
     IN /\ offsetsSet' = IF kernel = NoKernel THEN offsetsSet ELSE (kernel.layer :> kernel.kvo) @@ offsetsSet
        /\ tables' = IF kernel = NoKernel \/ kernel.pdb \notin PdbsAvailable THEN tables
                     ELSE [r \in 1 .. windows.requirements |-> kernel.pdb]
  /\ pdbScan' = [pdbScan EXCEPT !.state = "next", !.requirement = @ + 1]
  /\ UNCHANGED windows

PdbScanInit ==
  /\ pdbScan = [state |-> "next", requirement |-> 1, layer |-> 1, method |-> 1, kernel |-> NoKernel]
  /\ offsetsSet = <<>> /\ tables = <<>>

PdbScanNext == Begin \/ TryMethod \/ Fulfil

-----------------------------------------------------------------------------
(* Properties *)

\* The header of the module a page belongs to; a module ends where the next one begins
Owner(pages, page) == Max({p \in DOMAIN pages : p <= page /\ pages[p].mz} \cup {None})
SignedPages(pages, header) == {p \in DOMAIN pages : pages[p].pdbs # <<>> /\ Owner(pages, p) = header}

\* The signature is that of the module it is said to be of; but a pointer to a module without one
\* is taken for a pointer to the kernel if a module behind it has one.
FoundOwnSignature(kernel) ==
  LET pages == IF kernel.by = "fixed" THEN PhysicalPages(kernel.layer) ELSE VirtualPages(kernel.layer)
      header == IF kernel.by = "fixed" THEN Layer(kernel.layer).map[kernel.kvo] ELSE kernel.kvo
  IN /\ pages[header].mz
     /\ \E i \in DOMAIN pages[kernel.page].pdbs : pages[kernel.page].pdbs[i] = kernel.pdb
     /\ \/ Owner(pages, kernel.page) = header
        \/ kernel.by = "check" /\ SignedPages(pages, header) = {} /\ kernel.page \in header .. header + MaxPdbPages - 1

\* If no kernel is found there is none, unless too much of it is missing, or it is at address 0
NoneToFind(l) ==
  LET pages == VirtualPages(l)
  IN \A h \in DOMAIN pages \ {0} :
       pages[h].mz /\ SignedPages(pages, h) # {} =>
         Cardinality((h .. Min(SignedPages(pages, h))) \ DOMAIN pages) > MaxInvalid

\* With more layers than one only the last one counts; what is loaded is a PDB of that layer
OfTheLast ==
  /\ DOMAIN offsetsSet \subseteq {Len(windows.layers)}
  /\ tables # <<>> =>
       /\ Len(windows.layers) \in DOMAIN offsetsSet
       /\ \A r \in DOMAIN tables : tables[r] = pdbScan.kernel.pdb
       /\ offsetsSet[Len(windows.layers)] = pdbScan.kernel.kvo

(* KernelPDBScanner: what is found is a kernel, with its own symbols, and one that is there is *)
(* found, by whichever method; the scan fails only over a pointer that cannot be read.         *)
KernelFound ==
  LET kernel == pdbScan.kernel
      last == Len(windows.layers)
      pointers(l) == Range(Physical(l).kdbg) \cup Range(Physical(l).ntpaths)
  IN /\ kernel \notin {NoKernel, Raises} => FoundOwnSignature(kernel)
     /\ pdbScan.state = "fulfil" /\ kernel = NoKernel => NoneToFind(last)
     /\ pdbScan.state = "raised" =>
          \E l \in 1 .. last : Unreadable \in pointers(l) \/ (Layer(l).wide /\ "memory_layer" \notin DOMAIN windows.memory)
     /\ OfTheLast
     /\ pdbScan.state = "ended" /\ kernel # NoKernel /\ kernel.pdb \in PdbsAvailable => DOMAIN tables = 1 .. windows.requirements
=============================================================================
