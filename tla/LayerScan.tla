----------------------------- MODULE LayerScan -----------------------------
(***************************************************************************)
(* Scanning a layer: DataLayerInterface.scan() and what it is made of in   *)
(* volatility3/framework/interfaces/layers.py, with a scanner such as      *)
(* BytesScanner (layers/scanners/__init__.py).                             *)
(*                                                                         *)
(* The sections to scan are coalesced and clipped to the layer, cut into   *)
(* overlapping chunks by one of two iterators -- one for data layers, one  *)
(* for layers whose addresses map somewhere in blocks -- and the scanner is*)
(* called on each chunk: one after the other, or by a pool of processes.   *)
(* The scanner is looking for something Width bytes long; every place where*)
(* it could stand is an occurrence.                                        *)
(***************************************************************************)
EXTENDS Integers, Sequences, SequencesExt, FiniteSets, Functions

CONSTANTS
  Images,      \* the layers: [mapped, minimum, maximum, blocks, unreadable, poison]
  Requests,    \* sets of sections [start, length], the argument of scan()
  ChunkSize,   \* scanner.chunk_size
  Overlap,     \* scanner.overlap
  Width        \* the length of what the scanner is looking for

\* What a scanner looks for fits the overlap, unless it starts in the chunk proper.
ASSUME ScannerFits == ChunkSize \in Nat /\ Overlap \in 0..(ChunkSize - 1) /\ Width \in 1..(Overlap + 1)

Modes == {"off", "processes", "threads"}   \* constants.PARALLELISM

VARIABLES
  image,       \* the layer.  mapped: a translation layer, of which only the blocks
               \* map somewhere, in ascending order; unreadable: addresses at which
               \* reading raises InvalidAddressException; poison: at which the
               \* scanner raises
  request,     \* the sections asked for, {} if it is None
  mode,        \* how chunks are scanned; always "off" if not scanner.thread_safe
  sections,    \* the sections, coalesced
  chunks,      \* what the iterator yields for them
  step,
  next,        \* in sequence: the number of the chunk to be scanned
  finished,    \* in a pool: the chunks that have been scanned
  yielded      \* the reports given to the caller: [at, is]

input == <<image, request, mode>>
scanVars == <<input, sections, chunks, step, next, finished, yielded>>

Smaller(a, b) == IF a < b THEN a ELSE b
Larger(a, b) == IF a < b THEN b ELSE a

Section(start, length) == [start |-> start, length |-> length]
AnySection == [start : Nat, length : Nat]
EndOf(section) == section.start + section.length

ASSUME RequestsAssumption == \A r \in Requests : IsFiniteSet(r) /\ r \subseteq AnySection

\* A layer has a byte at least, and its blocks ascend
ASSUME ImagesAssumption ==
  \A i \in Images :
    /\ i.mapped \in BOOLEAN
    /\ i.minimum \in Nat /\ i.maximum \in Nat /\ i.minimum <= i.maximum
    /\ i.blocks \in Seq(AnySection)
    /\ \A m, n \in DOMAIN i.blocks : m < n => EndOf(i.blocks[m]) <= i.blocks[n].start

-----------------------------------------------------------------------------
(* Deviations a bug could introduce; only the mutants of PROJECT.json use them. *)

\* Only sections that overlap are joined, not those that touch.
TouchesStrictly(section, position) == section.start < position

\* A report inside the overlap is not held back.
WithoutLimit(data) == Len(data) - Width + 1

\* The results of a pool are taken as they come in.
LastFirst(all) == Reverse(all)

\* A section below the minimum is moved, not cut.
MoveFirst(section) == section

-----------------------------------------------------------------------------
(* _coalesce_sections *)

\* sections is None.  maximum_address is the address of the last byte: it is left out
Default == {Section(image.minimum, image.maximum - image.minimum)}

Asked == IF request = {} THEN Default ELSE request

\* The first of sorted(sections)
Before(s, t) == s.start < t.start \/ (s.start = t.start /\ s.length <= t.length)
Earliest(set) == CHOOSE s \in set : \A t \in set : Before(s, t)

Touches(section, position) == section.start <= position

\* A section that starts inside the last one, or right after it, replaces its end
Join(at) ==
  LET section == Earliest(at.rest)
      first == Last(at.result).start
  IN [rest |-> at.rest \ {section},
      result |-> IF at.result # <<>> /\ Touches(section, at.position)
                 THEN Append(Front(at.result), Section(first, EndOf(section) - first))
                 ELSE Append(at.result, section),
      position |-> EndOf(section)]

\* The sections that are left, those joined, and where the last one ended
Joining(set) ==
  LET at[i \in 0..Cardinality(set)] ==
        IF i = 0 THEN [rest |-> set, result |-> <<>>, position |-> 0] ELSE Join(at[i - 1])
  IN at

Joined(set) == Joining(set)[Cardinality(set)].result

\* The loop conditions, on tuples: result[0] < (minimum, 0), result[-1] > (maximum, 0)
FirstBelow == sections # <<>> /\ Head(sections).start < image.minimum

LastAbove ==
  /\ sections # <<>>
  /\ \/ Last(sections).start > image.maximum
     \/ Last(sections).start = image.maximum /\ Last(sections).length > 0

\* The section from the minimum on
CutFirst(section) == Section(image.minimum, EndOf(section) - image.minimum)

-----------------------------------------------------------------------------
(* The two _scan_iterators.  A chunk is [pieces, end], each piece being a section. *)

ChunkOf(pieces, end) == [pieces |-> pieces, end |-> end]

\* "If we've got more than the scanner's chunk_size, only move up by the chunk_size"
MovesUp(size) == IF size > ChunkSize THEN size - Overlap ELSE size

\* One turn of "while length > 0": the chunks so far, and where the next one starts
CutChunk(g, end) ==
  LET size == Smaller(end - g.from, ChunkSize + Overlap)
  IN IF g.from >= end THEN g
     ELSE [chunks |-> Append(g.chunks, ChunkOf(<<Section(g.from, size)>>, g.from + size)),
           from |-> g.from + MovesUp(size)]

\* Each turn moves up, so that there are no more than there are bytes
DataTurns(section) ==
  LET at[i \in 0..section.length] ==
        IF i = 0 THEN [chunks |-> <<>>, from |-> section.start]
        ELSE CutChunk(at[i - 1], EndOf(section))
  IN at

DataChunks(section) == DataTurns(section)[section.length].chunks

\* mapping(start, length, ignore_errors=True) yields what of a block is in the section
Part(block, section) ==
  LET start == Larger(block.start, section.start)
  IN Section(start, Smaller(EndOf(block), EndOf(section)) - start)

\* The generator's variables: what it has yielded, output, chunk_start, chunk_position,
\* and where range() has come to
Unpacked == [chunks |-> <<>>, output |-> <<>>, start |-> 0, position |-> 0, from |-> 0]

\* What there is is yielded, and the next chunk starts
Ship(g, start) ==
  [chunks |-> Append(g.chunks, ChunkOf(g.output, g.position)), output |-> <<>>,
   start |-> start, position |-> start, from |-> g.from]

Take(g, size) ==
  [chunks |-> g.chunks, output |-> Append(g.output, Section(g.position, size)),
   start |-> g.position + size, position |-> g.position + size, from |-> g.from]

\* One turn of "for chunk_start in range(...)"
PackChunk(g, end) ==
  LET new == IF g.output = <<>> THEN [g EXCEPT !.start = g.from] ELSE Ship(g, g.from)
      size == Smaller(end - new.position, ChunkSize + Overlap - (new.position - new.start))
  IN IF g.from >= end THEN g ELSE [Take(new, size) EXCEPT !.from = @ + ChunkSize]

\* What the turns over a block start from
BeginBlock(g, block) ==
  LET fresh == IF g.position < block.start THEN Ship(g, block.start) ELSE g
      whole == IF fresh.position # fresh.start
               THEN Take(fresh, Smaller(fresh.position - fresh.start, ChunkSize + Overlap))
               ELSE fresh
  IN [whole EXCEPT !.from = whole.position]

BlockTurns(g, block) ==
  LET at[i \in 0..block.length] ==
        IF i = 0 THEN BeginBlock(g, block) ELSE PackChunk(at[i - 1], EndOf(block))
  IN at

PackBlock(g, block) == IF block.length <= 0 THEN g ELSE BlockTurns(g, block)[block.length]

MappedTurns(section) ==
  LET at[i \in 0..Len(image.blocks)] ==
        IF i = 0 THEN Unpacked ELSE PackBlock(at[i - 1], Part(image.blocks[i], section))
  IN at

\* "Ship anything that might be left"
MappedChunks(section) ==
  LET packed == MappedTurns(section)[Len(image.blocks)]
  IN IF packed.output = <<>> THEN packed.chunks ELSE Ship(packed, packed.position).chunks

Chunks ==
  FlattenSeq([i \in DOMAIN sections |->
                IF image.mapped THEN MappedChunks(sections[i]) ELSE DataChunks(sections[i])])

-----------------------------------------------------------------------------
(* _scan_chunk and the scanner *)

Addresses(section) == section.start..(EndOf(section) - 1)

Available == Addresses(Section(image.minimum, image.maximum + 1 - image.minimum)) \ image.unreadable

\* A piece is read at once; if any of it raises, all of it is left out
ReadPiece(piece) ==
  IF Addresses(piece) \subseteq Available
  THEN [i \in 1..piece.length |-> piece.start + i - 1] ELSE <<>>

\* The data, each byte by its address
DataOf(chunk) == FlattenSeq([i \in DOMAIN chunk.pieces |-> ReadPiece(chunk.pieces[i])])

ScannerRaises(chunk) == Range(DataOf(chunk)) \cap image.poison # {}

\* "Ensure that if we're in the overlap, we don't report it"
Reportable(data) == Smaller(ChunkSize, Len(data) - Width + 1)

\* scanner(data, chunk_end - len(data)): the addresses it reports, and the bytes it saw
Results(chunk) ==
  LET data == DataOf(chunk)
  IN [n \in 1..Larger(0, Reportable(data)) |->
        [at |-> chunk.end - Len(data) + n - 1, is |-> SubSeq(data, n, n + Width - 1)]]

-----------------------------------------------------------------------------
ScanInit ==
  /\ image \in Images
  /\ request \in Requests
  /\ mode \in Modes
  /\ sections = Joined(Asked)
  /\ chunks = <<>>
  /\ step = "clip_first"
  /\ next = 1 /\ finished = {} /\ yielded = <<>>

At(s) == step = s
Go(s) == step' = s

DropFirst ==
  /\ At("clip_first") /\ FirstBelow /\ EndOf(Head(sections)) < image.minimum
  /\ sections' = Tail(sections)
  /\ UNCHANGED <<input, chunks, step, next, finished, yielded>>

ClipFirst ==
  /\ At("clip_first") /\ FirstBelow /\ EndOf(Head(sections)) >= image.minimum
  /\ sections' = ReplaceAt(sections, 1, CutFirst(Head(sections)))
  /\ UNCHANGED <<input, chunks, step, next, finished, yielded>>

FirstFits ==
  /\ At("clip_first") /\ ~FirstBelow
  /\ Go("clip_last")
  /\ UNCHANGED <<input, sections, chunks, next, finished, yielded>>

DropLast ==
  /\ At("clip_last") /\ LastAbove /\ Last(sections).start > image.maximum
  /\ sections' = Front(sections)
  /\ UNCHANGED <<input, chunks, step, next, finished, yielded>>

\* result[1] is assigned, whichever the last one is.  Out of range, the IndexError
\* passes through scan(); with more than two sections, the loop never ends.
ClipLast ==
  /\ At("clip_last") /\ LastAbove /\ Last(sections).start = image.maximum
  /\ IF Len(sections) = 1 THEN Go("raised") /\ UNCHANGED sections
     ELSE sections' = [sections EXCEPT ![2] = Section(image.maximum, 0)] /\ UNCHANGED step
  /\ UNCHANGED <<input, chunks, next, finished, yielded>>

LastFits ==
  /\ At("clip_last") /\ ~LastAbove
  /\ Go("cut")
  /\ UNCHANGED <<input, sections, chunks, next, finished, yielded>>

\* threading has no Pool, and _scan_metric wants a section: all that goes wrong from
\* here on is logged, and scan() yields nothing more
Cut ==
  /\ At("cut")
  /\ chunks' = Chunks
  /\ Go(IF sections = <<>> \/ mode = "threads" THEN "failed"
        ELSE IF mode = "processes" THEN "pool" ELSE "scan")
  /\ UNCHANGED <<input, sections, next, finished, yielded>>

\* In sequence: the results of one chunk
ScanChunk ==
  /\ At("scan") /\ next <= Len(chunks) /\ ~ScannerRaises(chunks[next])
  /\ yielded' = yielded \o Results(chunks[next])
  /\ next' = next + 1
  /\ UNCHANGED <<input, sections, chunks, step, finished>>

ScanChunkFails ==
  /\ At("scan") /\ next <= Len(chunks) /\ ScannerRaises(chunks[next])
  /\ Go("failed")
  /\ UNCHANGED <<input, sections, chunks, next, finished, yielded>>

ScanEnds ==
  /\ At("scan") /\ next > Len(chunks)
  /\ Go("complete")
  /\ UNCHANGED <<input, sections, chunks, next, finished, yielded>>

\* A process of the pool ends with a chunk, any of them
PoolChunk(n) ==
  /\ At("pool") /\ n \in DOMAIN chunks \ finished
  /\ finished' = finished \cup {n}
  /\ UNCHANGED <<input, sections, chunks, step, next, yielded>>

\* The results as map_async() puts them together
InOrder(all) == all

\* result.get(): all results, or the exception of one chunk
PoolReady ==
  /\ At("pool") /\ finished = DOMAIN chunks
  /\ IF \E n \in finished : ScannerRaises(chunks[n])
     THEN Go("failed") /\ UNCHANGED yielded
     ELSE /\ Go("complete")
          /\ yielded' = FlattenSeq([n \in DOMAIN chunks |-> Results(InOrder(chunks)[n])])
  /\ UNCHANGED <<input, sections, chunks, next, finished>>

Coalesce == DropFirst \/ ClipFirst \/ FirstFits \/ DropLast \/ ClipLast \/ LastFits

Step ==
  \/ Coalesce \/ Cut
  \/ ScanChunk \/ ScanChunkFails \/ ScanEnds
  \/ PoolReady
  \/ \E n \in 1..Len(chunks) : PoolChunk(n)

\* _coalesce_sections is a plain call: it goes on until it returns.  (What follows it
\* is only as fair as the caller, who may not ask for all results.)
ScanSpec == ScanInit /\ [][Step]_scanVars /\ WF_scanVars(Coalesce)

-----------------------------------------------------------------------------
(* Properties *)

Window(a) == a..(a + Width - 1)

\* The addresses scan() is asked for; without sections, "a Translation layer"
Requested ==
  IF request = {} THEN image.minimum..image.maximum ELSE UNION {Addresses(s) : s \in request}

\* Addresses that are cut off: of a section that holds another one, and the last byte
\* of the layer
Lost ==
  UNION {Addresses(s) : s \in {t \in request : \E u \in request : u.start >= t.start /\ EndOf(u) < EndOf(t)}}
    \cup {image.maximum}

Neighbours(a) == (a - ChunkSize - Overlap)..(a + ChunkSize + Overlap)

InOneBlock(S) == image.mapped => \E i \in DOMAIN image.blocks : S \subseteq Addresses(image.blocks[i])

\* A scan that completes finds everything: whatever lies inside one block of the
\* layer, across chunks and across sections that touch, is reported -- unless something
\* within the size of a chunk cannot be read, or _coalesce_sections lost the place.
NothingMissed ==
  At("complete") =>
    \A a \in Requested :
      /\ Window(a) \subseteq Requested \ Lost
      /\ InOneBlock(Window(a))
      /\ \A b \in Neighbours(a) : InOneBlock({b}) /\ b \in Requested => b \in Available
      => \E n \in DOMAIN yielded : yielded[n].at = a

\* The address reported is that of the bytes the scanner has seen, adjacent ones of the
\* layer and of the sections asked for.  It is reported once, but for the end of a data
\* layer's section: when the last chunk is larger than chunk_size, its overlap is
\* scanned again.
EachOnce ==
  /\ \A n \in DOMAIN yielded :
       /\ yielded[n].is = [i \in 1..Width |-> yielded[n].at + i - 1]
       /\ Window(yielded[n].at) \subseteq Requested \cap Available
       /\ InOneBlock(Window(yielded[n].at))
  /\ \A n, m \in DOMAIN yielded :
       n < m /\ yielded[n].at = yielded[m].at =>
         /\ ~image.mapped
         /\ \E i \in DOMAIN sections : yielded[n].at \in (EndOf(sections[i]) - Overlap)..(EndOf(sections[i]) - 1)

\* A pool gives the results that a scan in sequence gives, in the same order, in which-
\* ever order its processes end.  When the scanner raises, what a scan in sequence has
\* yielded stays, and a pool yields nothing.
PoolInOrder ==
  LET all == FlattenSeq([n \in DOMAIN chunks |-> Results(chunks[n])])
      sound == {n \in DOMAIN chunks : \A m \in 1..n : ~ScannerRaises(chunks[m])}
      some == FlattenSeq([n \in 1..Cardinality(sound) |-> Results(chunks[n])])
  IN /\ At("complete") => yielded = all
     /\ At("failed") => yielded = IF mode = "off" THEN some ELSE <<>>

\* A report is right, comes once but for that overlap, and in the same order whatever
\* the mode of the scan (scan, _scan_chunk, the map of the pool).
ReportedRightAndOnce == EachOnce /\ PoolInOrder

\* _coalesce_sections returns, or raises an IndexError over a single section that starts
\* with the last byte of the layer; it does not return if there are three or more and
\* the last one starts there.
CoalesceReturns ==
  <>(\/ step \notin {"clip_first", "clip_last"}
     \/ At("clip_last") /\ LastAbove /\ Last(sections).start = image.maximum /\ Len(sections) >= 3)

=============================================================================
