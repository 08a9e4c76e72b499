---------------------------- MODULE DumpFormats ----------------------------
(***************************************************************************)
(* _load_segments of the layers on top of a file with a memory image, in   *)
(* volatility3/framework/layers/: lime, avml, elf, crash, xen, vmware and  *)
(* qemu; and how NonLinearlySegmentedLayer (segmented.py) finds an address *)
(* in the segments they make, and decodes it.                              *)
(*                                                                         *)
(* A file is the sequence of its headers (records).  Those that are not in *)
(* a table have "at", where they are: a header is read where another one   *)
(* or its data ends.  Sizes of headers are scaled down.                    *)
(***************************************************************************)
EXTENDS Integers, Sequences, SequencesExt, FiniteSets, FiniteSetsExt

CONSTANTS
  Addresses,  \* of the layer, to be looked up
  WordBits,   \* of a word of a bitmap
  Holes       \* pci_hole_table: architecture -> [minimum, start, end]

PageSize == 2
Header == 2        \* of LiME, and of a chunk of AVML
FrameHeader == 1   \* of Snappy
Crc == 1
Trailer == 1       \* what follows the stream of a chunk of AVML
Early == 2         \* QEMU: only what ends behind this position can be the configuration
None == -1
NoName == ""

VARIABLES
  dump,      \* the file: [format, records, size, start, names, fallback]; never changes
  record,    \* the header that is read next, where they are in a table
  offset,    \* where in the file
  segments,  \* _segments
  highest,   \* LiME: maxaddr; a bitmap: seg_first_offset
  first,     \* a bitmap: seg_first_bit; AVML: decompressed_len, or None outside a chunk
  frame,     \* AVML: where in the chunk the frame is that is read next
  machine,   \* QEMU: [architecture, detected, hole, ids, current, name, inRam, compressed]
             \* AVML: only compressed, the _compressed of both layers
  status     \* "loading", "loaded" or "raised"

vars == <<dump, record, offset, segments, highest, first, frame, machine, status>>

MaximumAddress == dump.size - 1   \* of the base layer

Total(numbers) ==
  LET sum[i \in 0 .. Len(numbers)] == IF i = 0 THEN 0 ELSE sum[i - 1] + numbers[i] IN sum[Len(numbers)]

\* The header that is read at offset, if one begins there; or the one of a table
Here ==
  IF dump.format \in {"lime", "avml", "qemu"} THEN {i \in DOMAIN dump.records : dump.records[i].at = offset}
  ELSE {record} \cap DOMAIN dump.records
More == Here # {}
Now == dump.records[CHOOSE i \in Here : TRUE]


Segment(start, mapped, length, stored) ==
  [start |-> start, mapped |-> mapped, length |-> length, stored |-> stored]
Linear(start, mapped, length) == Segment(start, mapped, length, length)

Raise == status' = "raised" /\ UNCHANGED <<record, offset, segments, highest, first, frame, machine>>
Appends(s) == segments' = Append(segments, s)
NextRecord == record' = record + 1

Ends == status' = "loaded" /\ UNCHANGED <<record, offset, segments, highest, first, frame, machine>>
EndsUnlessEmpty == IF segments = <<>> THEN Raise ELSE Ends

-----------------------------------------------------------------------------
(* Deviations a bug could introduce; only the mutants of PROJECT.json use them. *)

\* The page behind the last one of a run is taken with it
ClosesBehind(run, bit) ==
  IF run.first = None THEN run
  ELSE [run EXCEPT !.segments = Append(@, Linear(run.first * PageSize, run.from, (bit - run.first + 1) * PageSize)),
                   !.first = None]

\* What is no data is not skipped
FrameAdvances(f) == IF f.is \in {"compressed", "plain"} THEN FrameHeader + f.stored ELSE 0

-----------------------------------------------------------------------------
(* LiME: records [start, end], each followed by its data.  A header that is not there, or *)
(* with other magic bytes, raises.                                                        *)

LimeHeader ==
  /\ dump.format = "lime" /\ offset < MaximumAddress
  /\ IF ~More \/ offset + Header > dump.size THEN Raise
     ELSE IF Now.start < highest \/ Now.end < Now.start THEN Raise
     ELSE LET length == Now.end - Now.start + 1
          IN /\ Appends(Linear(Now.start, offset + Header, length))
             /\ highest' = Now.end /\ offset' = offset + Header + length
             /\ UNCHANGED <<record, first, frame, machine, status>>

LimeEnds == dump.format = "lime" /\ offset >= MaximumAddress /\ EndsUnlessEmpty

-----------------------------------------------------------------------------
(* AVML: chunks [start, end, frames], a frame being [is, raw, stored, at]: stored bytes   *)
(* (of data, with its CRC) hold raw bytes of memory.  What follows the frames of a chunk  *)
(* is not a frame that can be uncompressed.                                               *)

Expected == Now.end - Now.start
Window == LET left == MaximumAddress - (offset + Header) IN IF Expected < left THEN Expected ELSE left

AvmlChunk ==
  /\ dump.format = "avml" /\ first = None /\ offset + 1 < MaximumAddress
  /\ IF ~More \/ offset + Header > dump.size THEN Raise
     ELSE /\ first' = 0 /\ frame' = 0
          /\ UNCHANGED <<record, offset, segments, highest, machine, status>>

InChunk == dump.format = "avml" /\ first # None /\ status = "loading"
FrameThere == frame + FrameHeader < Window
FrameHere == {j \in DOMAIN Now.frames : Now.frames[j].at = frame}
Frame == Now.frames[CHOOSE j \in FrameHere : TRUE]

\* How far the next frame is
Advances(f) == FrameHeader + f.stored

\* What of the stored bytes lies in the window
Cut(f) == LET left == Window - (frame + FrameHeader) IN IF left < f.stored THEN left ELSE f.stored

Unreadable(f) == f.is = "unskippable" \/ (f.is = "compressed" /\ Cut(f) < f.stored)
RawLength(f) == IF f.is = "compressed" THEN f.raw ELSE IF Cut(f) < Crc THEN 0 ELSE Cut(f) - Crc

AvmlFrame ==
  /\ InChunk /\ first <= Expected /\ FrameThere
  /\ IF FrameHere = {} THEN Raise
     ELSE IF Unreadable(Frame) THEN Raise
     ELSE LET mapped == offset + Header + frame + FrameHeader + Crc
          IN /\ IF Frame.is \in {"compressed", "plain"}
                  THEN /\ Appends(Segment(Now.start + first, mapped, RawLength(Frame), Frame.stored - Crc))
                       /\ machine' = [machine EXCEPT !.compressed =
                                        IF Frame.is = "compressed" THEN @ \cup {mapped} ELSE @ \ {mapped}]
                       /\ first' = first + RawLength(Frame)
                  ELSE UNCHANGED <<segments, machine, first>>
             /\ frame' = frame + Advances(Frame)
             /\ UNCHANGED <<record, offset, highest, status>>

\* The data ends before the memory it should hold: the loop goes round without a step
AvmlTurnsRound == InChunk /\ first <= Expected /\ ~FrameThere /\ UNCHANGED vars

AvmlChunkEnds ==
  /\ InChunk /\ first > Expected
  /\ offset' = offset + Header + frame + Trailer /\ first' = None
  /\ UNCHANGED <<record, segments, highest, frame, machine, status>>

AvmlEnds == dump.format = "avml" /\ first = None /\ offset + 1 >= MaximumAddress /\ Ends

-----------------------------------------------------------------------------
(* ELF: program headers [load, start, mapped, filesz, memsz].                             *)

ElfHeader ==
  /\ dump.format = "elf" /\ More
  /\ IF Now.load /\ Now.filesz = Now.memsz /\ Now.filesz > 0
       THEN Appends(Linear(Now.start, Now.mapped, Now.memsz)) ELSE UNCHANGED segments
  /\ NextRecord /\ UNCHANGED <<offset, highest, first, frame, machine, status>>

ElfEnds == dump.format = "elf" /\ ~More /\ EndsUnlessEmpty

-----------------------------------------------------------------------------
(* Windows crash dumps.  The full dump has runs [base, count] of pages, one after the     *)
(* other from page dump.start on; a bitmap dump has words, each the set of its bits.      *)

CrashRun ==
  /\ dump.format = "runs" /\ More
  /\ Appends(Linear(Now.base * PageSize, offset * PageSize, Now.count * PageSize))
  /\ offset' = offset + Now.count /\ NextRecord
  /\ UNCHANGED <<highest, first, frame, machine, status>>

\* bit is the first bit of a run, or the first one behind it
Opens(run, bit) == IF run.first = None THEN [run EXCEPT !.first = bit, !.from = run.offset] ELSE run
Closes(run, bit) ==
  IF run.first = None THEN run
  ELSE [run EXCEPT !.segments = Append(@, Linear(run.first * PageSize, run.from, (bit - run.first) * PageSize)),
                   !.first = None]
Mapped(run, pages) == [run EXCEPT !.offset = @ + pages * PageSize]

Run == [first |-> first, from |-> highest, offset |-> offset, segments |-> segments]
RunIs(run) == first' = run.first /\ highest' = run.from /\ offset' = run.offset /\ segments' = run.segments
Bits == [i \in 1..WordBits |-> i - 1]
Bit(word, i) == (word - 1) * WordBits + i

CrashWord ==
  /\ dump.format = "bitmap" /\ More
  /\ RunIs(IF Now = 0 .. (WordBits - 1) THEN Mapped(Opens(Run, Bit(record, 0)), WordBits)
           ELSE IF Now = {} THEN Closes(Run, Bit(record, 0))
           ELSE FoldLeft(LAMBDA run, i : IF i \in Now THEN Mapped(Opens(run, Bit(record, i)), 1)
                                         ELSE Closes(run, Bit(record, i)),
                         Run, Bits))
  /\ NextRecord /\ UNCHANGED <<frame, machine, status>>

CrashEnds ==
  /\ dump.format \in {"runs", "bitmap"} /\ ~More
  /\ LET run == Closes(Run, Bit(record, 0))
     IN IF run.segments = <<>> THEN Raise
        ELSE RunIs(run) /\ status' = "loaded" /\ UNCHANGED <<record, frame, machine>>

-----------------------------------------------------------------------------
(* Xen core dumps: sections [name, at, entries].  Entries of .xen_pfn each have a page in *)
(* .xen_pages, in their order; None where a domain has no page.  The place a name has in  *)
(* the table of strings (names) is taken for that of the header of the section.           *)

Places(name) == {i \in DOMAIN dump.names : dump.names[i] = name}
HeaderFor(name) ==
  IF Places(name) = {} THEN {} ELSE {dump.records[i] : i \in {Min(Places(name))} \cap DOMAIN dump.records}
Entries == UNION {{<<i, h.entries[i]>> : i \in DOMAIN h.entries} : h \in HeaderFor("pfn")}

\* Entries of .xen_p2m are numbers, and a number has no pfn
XenRefused == Places("p2m") # {} \/ HeaderFor("pfn") = {} \/ HeaderFor("pages") = {}

XenEntry ==
  /\ dump.format = "xen" /\ ~XenRefused
  /\ \E entry \in Entries, pages \in HeaderFor("pages") :
       /\ entry[1] = record
       /\ IF entry[2] \notin {None, 0}
            THEN Appends(Linear(entry[2] * PageSize, pages.at + (record - 1) * PageSize, PageSize))
            ELSE UNCHANGED segments
  /\ NextRecord /\ UNCHANGED <<offset, highest, first, frame, machine, status>>

XenEnds ==
  /\ dump.format = "xen"
  /\ IF XenRefused THEN Raise ELSE record > Cardinality(Entries) /\ EndsUnlessEmpty

-----------------------------------------------------------------------------
(* VMware: regions [start, mapped, length], in pages; without one of the tags a KeyError. *)

VmwareRegion ==
  /\ dump.format = "vmware" /\ More
  /\ IF Now.missing THEN Raise
     ELSE /\ Appends(Linear(Now.start * PageSize, Now.mapped * PageSize, Now.length * PageSize))
          /\ NextRecord /\ UNCHANGED <<offset, highest, first, frame, machine, status>>

VmwareEnds == dump.format = "vmware" /\ ~More /\ (IF dump.records = <<>> THEN Raise ELSE Ends)

-----------------------------------------------------------------------------
(* QEMU: sections of the stream of a migration, among them "ram", which is read word by   *)
(* word until its end.  A record is one section header, or one word of a ram section.     *)

\* At the head of the loop: behind the place where the configuration can be, the hole of
\* the architecture is looked up
Detects ==
  IF machine.detected \/ offset <= Early THEN machine
  ELSE LET architecture == IF machine.architecture = NoName THEN dump.fallback ELSE machine.architecture
       IN [machine EXCEPT !.architecture = architecture, !.detected = TRUE,
                          !.hole = IF architecture \in DOMAIN Holes THEN Holes[architecture] ELSE @]

NoArchitecture(m) == m.detected /\ m.architecture = NoName

Section(kinds) == dump.format = "qemu" /\ ~machine.inRam /\ More /\ Now.is \in kinds
Word(kinds) == dump.format = "qemu" /\ machine.inRam /\ More /\ Now.is \in kinds

Goes(length) == offset' = offset + length /\ UNCHANGED <<record, highest, first, frame, status>>

QemuConfiguration ==
  /\ Section({"configuration"})
  /\ IF NoArchitecture(Detects) THEN Raise
     ELSE /\ machine' = [Detects EXCEPT !.architecture = Now.architecture]
          /\ Goes(Now.size) /\ UNCHANGED segments

QemuSection ==
  /\ Section({"section"})
  /\ IF NoArchitecture(Detects) \/ (Now.ram /\ Now.version # 4) THEN Raise
     ELSE /\ machine' = [Detects EXCEPT !.ids = [id \in DOMAIN @ \cup {Now.id} |-> IF id = Now.id THEN Now.ram ELSE @[id]],
                                        !.current = Now.id, !.inRam = Now.ram]
          /\ Goes(1) /\ UNCHANGED segments

QemuPart ==
  /\ Section({"part"})
  /\ IF NoArchitecture(Detects) \/ Now.id \notin DOMAIN machine.ids THEN Raise
     ELSE /\ machine' = [Detects EXCEPT !.current = Now.id, !.inRam = machine.ids[Now.id]]
          /\ Goes(1) /\ UNCHANGED segments

QemuFooter ==
  /\ Section({"footer"})
  /\ IF NoArchitecture(Detects) \/ Now.id # machine.current THEN Raise
     ELSE machine' = Detects /\ Goes(1) /\ UNCHANGED segments

\* The content of the other sections is not skipped: its first byte is taken for a section
QemuUnknown ==
  /\ dump.format = "qemu" /\ ~machine.inRam /\ offset <= MaximumAddress
  /\ IF More THEN Now.is \notin {"configuration", "section", "part", "footer", "eof"} ELSE TRUE
  /\ Raise

\* The end of the stream, or of the file
QemuEnds ==
  /\ dump.format = "qemu" /\ ~machine.inRam
  /\ \/ offset > MaximumAddress /\ Ends
     \/ Section({"eof"}) /\ (IF NoArchitecture(Detects) THEN Raise ELSE Ends)

QemuSizes ==
  /\ Word({"sizes"})
  /\ machine' = IF Now.total # None /\ Now.total < machine.hole.minimum
                THEN [machine EXCEPT !.hole.start = 0, !.hole.end = 0] ELSE machine
  /\ Goes(1) /\ UNCHANGED segments

Shifted(address, hole) == IF address >= hole.start THEN address + hole.end - hole.start ELSE address

\* Without a name it is a page of the block of the page before
QemuPage ==
  /\ Word({"page"})
  /\ LET name == IF Now.name = NoName THEN machine.name ELSE Now.name
         address == Shifted(Now.address, machine.hole)
         stored == IF Now.compressed THEN 1 ELSE PageSize
     IN /\ machine' = [machine EXCEPT !.name = name,
                          !.compressed = IF Now.compressed /\ name = "pc.ram" THEN @ \cup {address} ELSE @]
        /\ IF name = "pc.ram" THEN Appends(Segment(address, offset + 1, PageSize, stored)) ELSE UNCHANGED segments
        /\ Goes(1 + stored)

QemuEndOfRam == Word({"eos"}) /\ machine' = [machine EXCEPT !.inRam = FALSE] /\ Goes(1) /\ UNCHANGED segments

QemuCut ==
  /\ dump.format = "qemu" /\ machine.inRam
  /\ IF More THEN Now.is \notin {"sizes", "page", "eos"} ELSE TRUE
  /\ Raise

-----------------------------------------------------------------------------

Init ==
  /\ record = 1 /\ segments = <<>> /\ highest = 0 /\ first = None
  /\ offset = CASE dump.format \in {"runs", "bitmap"} -> dump.start
                [] dump.format = "qemu" -> 1
                [] OTHER -> 0
  /\ frame = 0
  /\ machine = [architecture |-> NoName, detected |-> FALSE, hole |-> [minimum |-> 0, start |-> 0, end |-> 0],
                ids |-> [id \in {} |-> FALSE], current |-> None, name |-> NoName, inRam |-> FALSE, compressed |-> {}]
  /\ status = "loading"

Load ==
  \/ LimeHeader \/ LimeEnds
  \/ AvmlChunk \/ AvmlFrame \/ AvmlTurnsRound \/ AvmlChunkEnds \/ AvmlEnds
  \/ ElfHeader \/ ElfEnds
  \/ CrashRun \/ CrashWord \/ CrashEnds
  \/ XenEntry \/ XenEnds
  \/ VmwareRegion \/ VmwareEnds
  \/ QemuConfiguration \/ QemuSection \/ QemuPart \/ QemuFooter \/ QemuUnknown \/ QemuEnds
  \/ QemuSizes \/ QemuPage \/ QemuEndOfRam \/ QemuCut

Next == status = "loading" /\ UNCHANGED dump /\ Load

Spec == Init /\ [][Next]_vars /\ WF_vars(Next)

-----------------------------------------------------------------------------
(* How an address is found, and where its byte is: <<position, index>>, the index being   *)
(* that in what the data at position is uncompressed to.                                  *)

\* bisect_right over pairs (start, mapped), for the pair (a, MaximumAddress)
Before(a, s) == a < s.start \/ (a = s.start /\ MaximumAddress < s.mapped)
Bisect(a) ==
  LET bisect[lo \in 0 .. Len(segments), hi \in 0 .. Len(segments)] ==
        IF lo >= hi THEN lo
        ELSE LET mid == (lo + hi) \div 2
             IN IF Before(a, segments[mid + 1]) THEN bisect[lo, mid] ELSE bisect[mid + 1, hi]
  IN bisect[0, Len(segments)]

FindSegment(a) ==
  LET i == Bisect(a)
  IN IF i = 0 THEN {} ELSE {s \in {segments[i]} : s.start <= a /\ a < s.start + s.length}

\* _decode_data of AVML goes by the position, that of QEMU by the address of the page
Decoded(a, s) ==
  LET index == a - s.start
      page == (a \div PageSize) * PageSize
  IN CASE dump.format = "avml" -> IF s.mapped \in machine.compressed THEN <<s.mapped, index>> ELSE <<s.mapped + index, 0>>
       [] dump.format = "qemu" -> <<s.mapped + (IF page \in machine.compressed THEN (a - page) % s.stored ELSE a - page), 0>>
       [] OTHER -> <<s.mapped + index, 0>>

-----------------------------------------------------------------------------
(* What the headers of a dump say, from the layout of the formats alone.                  *)

Records == DOMAIN dump.records
Named(name) == {i \in Records : dump.records[i].name = name}
Of(kind) == {i \in Records : dump.records[i].is = kind}

\* QEMU: the architecture, and the hole in its memory if this is large enough to have one
Architecture ==
  IF Of("configuration") = {} THEN dump.fallback ELSE dump.records[Min(Of("configuration"))].architecture
Hole ==
  LET table == IF Architecture \in DOMAIN Holes THEN Holes[Architecture] ELSE [minimum |-> 0, start |-> 0, end |-> 0]
  IN IF \E i \in Of("sizes") : dump.records[i].total \in 0 .. (table.minimum - 1)
     THEN [minimum |-> 0, start |-> 0, end |-> 0] ELSE table

\* The page belongs to pc.ram: the last name said up to it
InPcRam(i) ==
  LET named == {j \in Of("page") : j <= i /\ dump.records[j].name # NoName}
  IN named # {} /\ dump.records[Max(named)].name = "pc.ram"

Linearly(start, length, position) == {<<a, <<position + a - start, 0>>>> : a \in start .. (start + length - 1)}

\* What says where memory is: the headers, or the entries of the only section of that name
Stated ==
  IF dump.format = "xen" THEN dump.records[CHOOSE i \in Named("pfn") : TRUE].entries ELSE dump.records

\* Which address the i-th of them says to be where
Says(i) ==
  LET r == Stated[i]
  IN CASE dump.format = "lime" -> Linearly(r.start, r.end - r.start + 1, r.at + Header)
       [] dump.format = "avml" ->
            UNION {LET f == r.frames[j]
                       at == r.at + Header + f.at + FrameHeader + Crc
                       start == r.start + Total([k \in 1 .. (j - 1) |-> r.frames[k].raw])
                   IN IF start > r.end THEN {}   \* behind the memory of the chunk
                      ELSE IF f.is = "plain" THEN Linearly(start, f.raw, at)
                      ELSE {<<a, <<at, a - start>>>> : a \in start .. (start + f.raw - 1)} : j \in DOMAIN r.frames}
       [] dump.format = "elf" -> IF r.load /\ r.filesz = r.memsz THEN Linearly(r.start, r.memsz, r.mapped) ELSE {}
       [] dump.format = "runs" ->
            LET before == Total([j \in 1 .. (i - 1) |-> dump.records[j].count])
            IN Linearly(r.base * PageSize, r.count * PageSize, (dump.start + before) * PageSize)
       [] dump.format = "bitmap" ->
            UNION {LET page == (i - 1) * WordBits + bit
                       before == {p \in 0 .. (page - 1) : p % WordBits \in dump.records[p \div WordBits + 1]}
                   IN Linearly(page * PageSize, PageSize, dump.start + Cardinality(before) * PageSize) : bit \in r}
       [] dump.format = "xen" ->
            IF r = None THEN {}
            ELSE UNION {Linearly(r * PageSize, PageSize, dump.records[k].at + (i - 1) * PageSize) : k \in Named("pages")}
       [] dump.format = "vmware" -> Linearly(r.start * PageSize, r.length * PageSize, r.mapped * PageSize)
       [] dump.format = "qemu" ->
            IF r.is # "page" \/ ~InPcRam(i) THEN {}
            ELSE LET start == Shifted(r.address, Hole)
                 IN {<<a, <<r.at + 1 + (IF r.compressed THEN 0 ELSE a - start), 0>>>> :
                       a \in start .. (start + PageSize - 1)}

Said == UNION {{<<i, c[1], c[2]>> : c \in Says(i)} : i \in DOMAIN Stated}

-----------------------------------------------------------------------------
(* Properties *)

\* A QEMU dump whose memory begins before the architecture is looked up: its first pages
\* are not shifted, and a small memory gets a hole.
Late == dump.format = "qemu" /\ \E i \in Of("section") : dump.records[i].ram /\ dump.records[i].at <= Early

\* Xen: an entry 0 of .xen_pfn is passed over
PassedOver(a) == dump.format = "xen" /\ a < PageSize

\* Xen: a name is not in the table of strings where the header of its section is in the file
OutOfOrder ==
  dump.format = "xen" /\ \E name \in {"pfn", "pages"} : HeaderFor(name) # {dump.records[i] : i \in Named(name)}

Ascending ==
  \A i \in 1 .. Len(segments) - 1 :
    /\ segments[i].start <= segments[i + 1].start
    /\ segments[i].start + segments[i].length <= segments[i + 1].start + segments[i + 1].length

\* When a dump has been loaded, each address that is found in the segments gets a byte that
\* the headers of the file place there; and if the segments ascend, all addresses are found
\* that the file has, each where the last of its headers places it (_load_segments of all
\* formats, _find_segment with bisect_right, _decode_data).
BytesWhereHeadersSay ==
  status = "loaded" /\ ~Late /\ ~OutOfOrder =>
    LET said == Said
        claims(a) == {c \in said : c[2] = a}
        newest(a) == CHOOSE c \in claims(a) : \A d \in claims(a) : d[1] <= c[1]
    IN \A a \in Addresses :
         LET found == {Decoded(a, s) : s \in FindSegment(a)}
         IN /\ found \subseteq {c[3] : c \in claims(a)}
            /\ Ascending /\ claims(a) # {} /\ ~PassedOver(a) =>
                 (newest(a)[3][1] <= MaximumAddress => found = {newest(a)[3]})

\* An AVML chunk whose stream is longer than the memory in it, or holds less of it, or is cut
Unfit(r) ==
  LET raw == Total([j \in DOMAIN r.frames |-> r.frames[j].raw])
      last == r.frames[Len(r.frames)]
      length == last.at + FrameHeader + last.stored
  IN length > r.end - r.start \/ raw <= r.end - r.start \/ r.at + Header + length > MaximumAddress

\* Every dump is loaded or refused (the loops of _load_segments), unless it has a chunk of
\* AVML over whose stream _read_snappy_frames goes round for ever.
LoadReturns == <>(status # "loading" \/ (dump.format = "avml" /\ \E i \in Records : Unfit(dump.records[i])))
=============================================================================
