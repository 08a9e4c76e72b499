----------------------------- MODULE IntelLayer -----------------------------
(***************************************************************************)
(* Intel and its Windows and Linux variants of                             *)
(* volatility3/framework/layers/intel.py: addresses of a process or kernel *)
(* translated by the page tables in a base layer, and mapping(), which     *)
(* skips what is not there and joins what is contiguous.                   *)
(*                                                                         *)
(* Also the hex dump of cli/text_renderer.py, which marks the bytes that   *)
(* are not mapped.                                                         *)
(*                                                                         *)
(* The widths are parameters.  An entry of a table is what its bits say:   *)
(* a kind, the PSE bit and a number (of a frame or of a page in a file).   *)
(***************************************************************************)
EXTENDS Integers, Sequences, SequencesExt, FiniteSets, Bitwise

CONSTANTS
  Structure,   \* _structure: sequence of [size, large], the root first
  PageBits,    \* _page_size_in_bits
  Layers,      \* layers to look at: [system, tables, valid, swap], see below
  Calls,       \* calls of mapping(): [offset, length, ignore_errors]
  Dumps,       \* ranges to dump: [offset, length]
  Writes,      \* entries that are written: [frame, index, entry]
  MaxCalls     \* bound: number of calls

(***************************************************************************)
(* layer.tables[frame] is the content of a frame read as a table,          *)
(* layer.valid the addresses the base layer has, layer.swap[n] those the   *)
(* n-th swap layer has.  system is "intel", "windows" or "linux".          *)
(***************************************************************************)
Kinds == {"zero", "present", "transition", "swap", "protnone"}
Entry(kind, pse, number) == [kind |-> kind, pse |-> pse, number |-> number]

ASSUME EntriesHaveAKind ==
  \A layer \in Layers : \A f \in DOMAIN layer.tables : \A i \in DOMAIN layer.tables[f] : layer.tables[f][i].kind \in Kinds

VARIABLES
  layer,       \* the layer and what it lies on
  tableCache,  \* _get_valid_table's lru_cache: frame -> table as it was
  entryCache,  \* _translate_entry's lru_cache: page -> entry, bits left
  call,        \* the call of mapping() in progress or just ended
  offset, length, \* how far _mapping() has come
  stash,       \* the piece mapping() holds back
  pieces,      \* the pieces it has yielded
  status,      \* of the call: "idle", "running", "done" or "raised"
  dump,        \* a hex dump: where it is, which piece, which bytes are marked
  calls

caches == <<tableCache, entryCache>>
progress == <<call, offset, length, stash, pieces, status>>
vars == <<layer, caches, progress, dump, calls>>

PageSize == 2 ^ PageBits
AddressBits == PageBits + FoldSeq(LAMBDA level, sum : level.size + sum, 0, Structure)
Root == Entry("present", FALSE, 0)
Base == 0
Page(a) == (a \div PageSize) * PageSize
NoPiece == [offset |-> 0, length |-> 0, at |-> 0, layer |-> Base]
NoCall == [offset |-> 0, length |-> 0, ignore_errors |-> FALSE]
NotDumping == [at |-> 0, end |-> 0, start |-> 0, piece |-> 0, marked |-> {}]

-----------------------------------------------------------------------------
(* Entries *)

\* _page_is_valid
PageIsValid(entry) ==
  \/ entry.kind = "present"
  \/ layer.system = "windows" /\ entry.kind = "transition"
  \/ layer.system = "linux" /\ entry.kind = "protnone"

\* _pte_pfn: Linux stores the frame inverted in a page without access
Frames == DOMAIN layer.tables
PtePfn(entry) ==
  IF layer.system = "linux" /\ entry.kind = "protnone" THEN Cardinality(Frames) - 1 - entry.number ELSE entry.number

-----------------------------------------------------------------------------
(* Tables *)

FrameIsThere(f) == (f * PageSize) .. (f * PageSize + PageSize - 1) \subseteq layer.valid

Table(f) == IF f \in DOMAIN tableCache THEN tableCache[f] ELSE layer.tables[f]

\* _get_valid_table: None if it cannot be read, or if all entries are the same
ValidTable(f) ==
  /\ FrameIsThere(f)
  /\ \E i, j \in DOMAIN Table(f) : Table(f)[i] # Table(f)[j]

Continues(entry, bits, tables) == [state |-> "walking", entry |-> entry, bits |-> bits, tables |-> tables]

\* One round of the loop over _structure
Descend(page, level, walk) ==
  LET f == walk.entry.number
      bits == walk.bits - level.size
      index == (page \div (2 ^ bits)) % (2 ^ level.size)
      next == Table(f)[index]
  IN IF ~PageIsValid(walk.entry) THEN [walk EXCEPT !.state = "fault"]
     ELSE IF ~ValidTable(f) THEN [walk EXCEPT !.state = "fault", !.tables = @ \cup {f}]
     ELSE [Continues(next, bits, walk.tables \cup {f}) EXCEPT
             !.state = IF level.large /\ next.pse THEN "found" ELSE "walking"]

\* _translate_entry; addresses above the maximum wrap around
Walk(page) ==
  LET walk[i \in 0..Len(Structure)] ==
        IF i = 0 THEN Continues(Root, AddressBits, {})
        ELSE IF walk[i - 1].state = "walking" THEN Descend(page, Structure[i], walk[i - 1])
        ELSE walk[i - 1]
  IN walk[Len(Structure)]

\* A translation, or a page fault with the bits that are known to be invalid
Translated(to, at, bits) == [is |-> "page", layer |-> to, at |-> at, bits |-> bits]
PageFault(bits) == [is |-> "fault", layer |-> Base, at |-> 0, bits |-> bits]

\* _translate_swap: "swap_offset" is where the page begins in the file
TranslateSwap(entry, bits) ==
  IF layer.system = "windows" /\ entry.kind = "swap" /\ entry.number # 0 /\ 1 \in DOMAIN layer.swap
  THEN Translated(1, entry.number * (2 ^ bits), bits)
  ELSE PageFault(bits)

\* _translate, from the walk that Walk or the cache gives.  The frame of a large page is
\* aligned to its size, so that the lower bits are added.
Translate(a, walk) ==
  IF walk.state # "fault" /\ PageIsValid(walk.entry)
  THEN Translated(Base, PtePfn(walk.entry) * PageSize + (a % (2 ^ walk.bits)), walk.bits)
  ELSE TranslateSwap(walk.entry, walk.bits)

\* is_valid of the layer below
Has(to, from, n) ==
  from .. (from + n - 1) \subseteq (IF to = Base THEN layer.valid ELSE layer.swap[to])

Remembers(page, walk) ==
  /\ tableCache' = [f \in DOMAIN tableCache \cup walk.tables |-> Table(f)]
  /\ entryCache' = IF walk.state = "fault" \/ page \in DOMAIN entryCache THEN entryCache
                   ELSE [p \in DOMAIN entryCache \cup {page} |-> IF p = page THEN walk ELSE entryCache[p]]

Looked(page) == IF page \in DOMAIN entryCache THEN entryCache[page] ELSE Walk(page)

-----------------------------------------------------------------------------
(* Deviations a bug could introduce; only the mutants of PROJECT.json use them. *)

\* The skip over a page that is not there starts at the address itself
SkippedFrom(a, mask) == mask + 1

\* ... or at the next page as if the address were its last
SkippedUpTo(a, mask) == mask - (a & mask)

\* Bytes before a piece are not looked at
DumpByteBehind ==
  /\ dump # NotDumping /\ status = "done" /\ pieces # <<>> /\ dump.at < dump.end
  /\ LET i == dump.at
         here == pieces[dump.piece]
         next == IF i > here.offset + here.length /\ dump.piece < Len(pieces) THEN dump.piece + 1 ELSE dump.piece
     IN dump' = [dump EXCEPT !.at = i + 1, !.piece = next, !.marked = IF i > here.offset + here.length THEN @ \cup {i} ELSE @]
  /\ UNCHANGED <<layer, caches, progress, calls>>

-----------------------------------------------------------------------------
(* mapping, _mapping *)

MappingStarts(c) ==
  /\ call' = c /\ offset' = c.offset /\ length' = c.length
  /\ stash' = NoPiece /\ pieces' = <<>> /\ status' = "running"

Mapping(c) ==
  /\ status # "running" /\ dump = NotDumping
  /\ calls < MaxCalls /\ calls' = calls + 1
  /\ MappingStarts(c)
  /\ UNCHANGED <<layer, caches, dump>>

\* (offset & skip_mask): the mask is not always one less than a power of two
Skipped(a, mask) == mask + 1 - (a & mask)

\* A piece that goes on where the one held back ends
Contiguous(piece) ==
  /\ stash.length > 0
  /\ stash.offset + stash.length = piece.offset
  /\ stash.at + stash.length = piece.at
  /\ stash.layer = piece.layer

Yields(piece) ==
  IF Contiguous(piece)
  THEN stash' = [stash EXCEPT !.length = @ + piece.length] /\ UNCHANGED pieces
  ELSE stash' = piece /\ pieces' = IF stash.length > 0 THEN Append(pieces, stash) ELSE pieces

Fails(mask) ==
  /\ IF call.ignore_errors
     THEN /\ length' = length - Skipped(offset, mask)
          /\ offset' = offset + Skipped(offset, mask)
          /\ UNCHANGED status
     ELSE status' = "raised" /\ UNCHANGED <<offset, length>>
  /\ UNCHANGED <<stash, pieces>>

Smaller(m, n) == IF m < n THEN m ELSE n

\* One round of the loop of _mapping()
Chunk ==
  /\ status = "running" /\ length > 0
  /\ \E walk \in {Looked(Page(offset))} : \E to \in {Translate(offset, walk)} :
       LET size == 2 ^ to.bits
           n == Smaller(size - (offset % size), length)
       IN /\ Remembers(Page(offset), walk)
          /\ \/ to.is = "page" /\ Has(to.layer, to.at, n)
                /\ Yields([offset |-> offset, length |-> n, at |-> to.at, layer |-> to.layer])
                /\ offset' = offset + n /\ length' = length - n
                /\ UNCHANGED status
             \/ to.is = "page" /\ ~Has(to.layer, to.at, n) /\ Fails(n - 1)
             \/ to.is = "fault" /\ Fails(size - 1)
  /\ UNCHANGED <<layer, call, dump, calls>>

\* A mapping of no bytes is the translation of one address
MapsNothing ==
  /\ status = "running" /\ call.length = 0
  /\ \E walk \in {Looked(Page(offset))} : \E to \in {Translate(offset, walk)} :
     LET there == to.is = "page" /\ Has(to.layer, to.at, 1)
     IN /\ Remembers(Page(offset), walk)
        /\ status' = IF there \/ call.ignore_errors THEN "done" ELSE "raised"
        /\ pieces' = IF there THEN <<[offset |-> offset, length |-> 0, at |-> to.at, layer |-> to.layer]>> ELSE <<>>
  /\ UNCHANGED <<layer, call, offset, length, stash, dump, calls>>

MappingEnds ==
  /\ status = "running" /\ length <= 0 /\ call.length > 0
  /\ pieces' = IF stash.length > 0 THEN Append(pieces, stash) ELSE pieces
  /\ stash' = NoPiece
  /\ status' = "done"
  /\ UNCHANGED <<layer, caches, call, offset, length, dump, calls>>

-----------------------------------------------------------------------------
(* LayerDataRenderer.render_bytes *)

\* The end of the range is given to mapping() for the length
Dump(range) ==
  /\ status # "running" /\ dump = NotDumping
  /\ calls < MaxCalls /\ calls' = calls + 1
  /\ dump' = [start |-> range.offset, at |-> range.offset, end |-> range.offset + range.length,
              piece |-> 1, marked |-> {}]
  /\ MappingStarts([offset |-> range.offset, length |-> range.offset + range.length, ignore_errors |-> TRUE])
  /\ UNCHANGED <<layer, caches>>

\* next(mapping) of a mapping without a piece: StopIteration
DumpRaises ==
  /\ dump # NotDumping /\ status = "done" /\ pieces = <<>>
  /\ dump' = NotDumping /\ status' = "raised"
  /\ UNCHANGED <<layer, caches, call, offset, length, stash, pieces, calls>>

DumpByte ==
  /\ dump # NotDumping /\ status = "done" /\ pieces # <<>> /\ dump.at < dump.end
  /\ LET i == dump.at
         here == pieces[dump.piece]
         next == IF i > here.offset + here.length /\ dump.piece < Len(pieces) THEN dump.piece + 1 ELSE dump.piece
         absent == i < here.offset \/ i > pieces[next].offset + pieces[next].length
     IN dump' = [dump EXCEPT !.at = i + 1, !.piece = next, !.marked = IF absent THEN @ \cup {i} ELSE @]
  /\ UNCHANGED <<layer, caches, progress, calls>>

DumpEnds ==
  /\ dump # NotDumping /\ status = "done" /\ pieces # <<>> /\ dump.at = dump.end
  /\ dump' = NotDumping /\ status' = "idle"
  /\ UNCHANGED <<layer, caches, call, offset, length, stash, pieces, calls>>

\* Somebody writes an entry of a table through the base layer
Write(w) ==
  /\ status # "running" /\ dump = NotDumping
  /\ calls < MaxCalls /\ calls' = calls + 1
  /\ layer' = [layer EXCEPT !.tables[w.frame][w.index] = w.entry]
  /\ status' = "idle"
  /\ UNCHANGED <<caches, call, offset, length, stash, pieces, dump>>

Init ==
  /\ layer \in Layers
  /\ tableCache = <<>> /\ entryCache = <<>>
  /\ call = NoCall /\ offset = 0 /\ length = 0 /\ stash = NoPiece /\ pieces = <<>> /\ status = "idle"
  /\ dump = NotDumping
  /\ calls = 0

Next ==
  \/ \E c \in Calls : Mapping(c)
  \/ Chunk
  \/ MapsNothing
  \/ MappingEnds
  \/ \E range \in Dumps : Dump(range)
  \/ DumpRaises
  \/ DumpByte
  \/ DumpEnds
  \/ \E w \in Writes : Write(w)

Spec == Init /\ [][Next]_vars /\ WF_vars(Next)

-----------------------------------------------------------------------------
(* Properties *)

\* The range of a call
Asked == call.offset .. call.offset + call.length - 1

\* Each byte by itself, by the tables as they were when they were first read
Bytes ==
  LET walks == [p \in {Page(a) : a \in Asked} |-> Walk(p)]
  IN [a \in Asked |-> Translate(a, walks[Page(a)])]
Readable(byte) == byte.is = "page" /\ Has(byte.layer, byte.at, 1)

Covered == UNION {pieces[i].offset .. pieces[i].offset + pieces[i].length - 1 : i \in DOMAIN pieces}

\* The bytes of the range that one chunk of _mapping() would take together
Together(a, byte) ==
  {b \in Asked : byte[b].is = "page" /\ b \div (2 ^ byte[b].bits) = a \div (2 ^ byte[a].bits)}

\* What mapping() yields is what a translation byte by byte gives: nothing that is not
\* there, each byte at its own place, and, when errors are ignored, every byte of a
\* page whose part of the range is there as a whole; skipping never goes too far,
\* whatever level of the tables a page fault is at.  An exception means that something
\* is missing.  A page in a swap file is the
\* exception: its bytes are taken from its beginning, wherever in it the range begins.
MapsByteByByte ==
  status \in {"done", "raised"} /\ call.length > 0 => \A byte \in {Bytes} :
    /\ \A i \in DOMAIN pieces : \A k \in 0 .. pieces[i].length - 1 :
         LET a == pieces[i].offset + k
         IN /\ a \in Asked
            /\ Readable(byte[a])
            /\ byte[a].layer = pieces[i].layer
            /\ pieces[i].layer = Base => byte[a].at = pieces[i].at + k
    /\ status = "done" /\ call.ignore_errors => \A covered \in {Covered} : \A a \in Asked \ covered :
         \E b \in {a} \cup Together(a, byte) : ~Readable(byte[b])
    /\ ~call.ignore_errors => (status = "done") = (\A a \in Asked : Readable(byte[a]))
    /\ status = "done" /\ ~call.ignore_errors => Covered = Asked

\* The hex dump marks no byte that is there; of those that are not it leaves out the
\* first after a piece, and the second if another piece follows.
DumpMarksHoles ==
  dump # NotDumping /\ dump.at = dump.end /\ status = "done" =>
    /\ dump.marked \cap Covered = {}
    /\ \A i \in dump.start .. dump.end - 1 : i \notin Covered \cup dump.marked =>
         \E p \in DOMAIN pieces : i \in {pieces[p].offset + pieces[p].length, pieces[p].offset + pieces[p].length + 1}

\* mapping() comes to an end: every step takes it further.
MappingReturns == (status = "running") ~> (status # "running")
=============================================================================
