------------------------------ MODULE LayerIO ------------------------------
(***************************************************************************)
(* Reading and writing through a stack of layers.                          *)
(*                                                                         *)
(* The stack is a BufferDataLayer (layers/physical.py) under two           *)
(* SegmentedLayers (layers/segmented.py), one on top of the other.         *)
(* A read of a layer is split along mapping(), goes down through           *)
(* LayerContainer.read and is remembered by functools.lru_cache on         *)
(* LinearlyMappedLayer.read (layers/linear.py): ONE cache, shared by all   *)
(* layers of the process, which write() never looks at.                    *)
(***************************************************************************)
EXTENDS Integers, Sequences, SequencesExt, FiniteSets

CONSTANTS
  Segments,    \* Segments[1], Segments[2]: the segments of the two layers, each
               \* a sequence of [address, mapped, length] sorted by address
  Contents,    \* the buffer the data layer is constructed with
  CacheSize,   \* maxsize of the lru_cache (512 in the code)
  Reads,       \* the reads callers make: <<layer, offset, length, pad, viaContainer>>
  WriteSpots,  \* the writes callers make: <<layer, offset, length>>
  MaxWrites    \* bound: number of writes

\* Layers are numbered from the bottom: 0 is the data layer
Layers == 0..2

\* What _load_segments must leave: segments in the order of their addresses, none
\* empty or over another.  Where they map to is not looked at: it may be the last
\* address of the layer below, or behind it
ASSUME SegmentsAssumption ==
  \A layer \in 1..2 :
    LET segments == Segments[layer]
    IN /\ segments \in Seq([address : Nat, mapped : Nat, length : Nat \ {0}]) /\ segments # <<>>
       /\ \A i, j \in DOMAIN segments :
            i < j => segments[i].address + segments[i].length <= segments[j].address

\* No caller reads or writes nothing
ASSUME CallsAssumption ==
  /\ Contents \in Seq(Nat) /\ CacheSize \in Nat \ {0} /\ MaxWrites \in Nat
  /\ Reads \subseteq Layers \X Nat \X (Nat \ {0}) \X BOOLEAN \X BOOLEAN
  /\ WriteSpots \subseteq Layers \X Nat \X (Nat \ {0})

Null == 0    \* the padding byte b"\x00"

VARIABLES
  buffer,      \* BufferDataLayer._buffer
  cache,       \* the lru_cache: sequence of [key, data], last used last
  writes,      \* number of writes so far
  past,        \* history: every content the buffer has had
  stack,       \* the calls of read or write in progress, each inside the one before
  last         \* history: the latest call from outside, and its outcome

vars == <<buffer, cache, writes, past, stack, last>>

Minimum(a, b) == IF a < b THEN a ELSE b
Nulls(n) == [i \in 1..n |-> Null]

-----------------------------------------------------------------------------
(* Deviations a bug could introduce; only the mutants of PROJECT.json use them. *)

KeyWithoutPad(layer, offset, length, pad, viaContainer) ==
  <<layer, offset, length, viaContainer>>

\* The data is spliced in, and pushes what was there before it back.
BufferInsert(b, address, data) ==
  SubSeq(b, 1, Minimum(address, Len(b))) \o data \o SubSeq(b, address + 1, Len(b))

\* The chunk after a gap directly follows the chunk before it.
NotFilled(data, gap) == data

-----------------------------------------------------------------------------
(* BufferDataLayer *)

BufferValid(address, length) ==
  /\ address \in 0..(Len(buffer) - 1)
  /\ address + length - 1 \in 0..(Len(buffer) - 1)

\* A data layer raises outside its boundaries, with pad as without
BufferRead(address, length) == SubSeq(buffer, address + 1, address + length)

\* self._buffer[:address] + data + self._buffer[address + len(data):], where a
\* slice that starts after the end is empty
BufferWrite(b, address, data) ==
  SubSeq(b, 1, Minimum(address, Len(b))) \o data
    \o SubSeq(b, address + Len(data) + 1, Len(b))

-----------------------------------------------------------------------------
(* NonLinearlySegmentedLayer.mapping and _find_segment *)

\* maximum_address, over a buffer of a size
MaximumOver(size, layer) ==
  IF layer = 0 THEN size - 1
  ELSE Last(Segments[layer]).address + Last(Segments[layer]).length - 1

LayerMaximum(layer) == MaximumOver(Len(buffer), layer)

\* bisect_right(_segments, (offset, base.maximum_address)) compares pairs: the
\* segment that starts at offset counts only if it maps below the base's maximum
Bisect(layer, offset) ==
  Cardinality({i \in DOMAIN Segments[layer] :
                 LET s == Segments[layer][i]
                 IN \/ s.address < offset
                    \/ s.address = offset /\ s.mapped < LayerMaximum(layer - 1)})

InSegment(layer, i, offset) ==
  /\ i > 0
  /\ offset < Segments[layer][i].address + Segments[layer][i].length

\* What segment n has for an address and on, up to end
Chunk(layer, n, current, end) ==
  LET s == Segments[layer][n]
      skipped == IF current > s.address THEN current - s.address ELSE 0
  IN [offset |-> s.address + skipped, mapped |-> s.mapped + skipped,
      length |-> Minimum(s.address + s.length, end) - s.address - skipped]

ChunkEnd(chunk) == chunk.offset + chunk.length

\* The segment to go on with: the one an address is in, or with ignore the next one,
\* if it does not start too late; 0 if there is none
SegmentFor(layer, current, ignore, end) ==
  LET i == Bisect(layer, current)
  IN IF InSegment(layer, i, current) THEN i
     ELSE IF ignore /\ i < Len(Segments[layer]) /\ Segments[layer][i + 1].address <= end THEN i + 1
     ELSE 0

-----------------------------------------------------------------------------
(* LinearlyMappedLayer.read under functools.lru_cache *)

\* The arguments as lru_cache sees them.  LayerContainer.read passes all of them
\* by position; a caller of the layer leaves pad out or names it: another key.
Key(layer, offset, length, pad, viaContainer) ==
  <<layer, offset, length, pad, viaContainer>>

Cached(c, key) == \E i \in DOMAIN c : c[i].key = key
Entry(c, key) == c[CHOOSE i \in DOMAIN c : c[i].key = key]

\* A hit makes the entry the most recently used one
Touch(c, key) ==
  LET hit == CHOOSE i \in DOMAIN c : c[i].key = key
  IN Append(RemoveAt(c, hit), c[hit])

\* A new entry pushes the least recently used one out of a full cache
Remember(c, key, data) ==
  LET entry == [key |-> key, data |-> data]
  IN Append(IF Len(c) >= CacheSize THEN Tail(c) ELSE c, entry)

\* The gap before a chunk filled with null bytes
Filled(data, gap) == data \o Nulls(gap)

-----------------------------------------------------------------------------
Init ==
  /\ buffer = Contents
  /\ cache = <<>>
  /\ writes = 0
  /\ past = {Contents}
  /\ stack = <<>>
  /\ last = [op |-> "none"]

\* A call: at is how far it has come (current_offset), and data what a read has put
\* together so far, or what a write is to write; before is the buffer a write met
ReadCall(layer, offset, length, pad, viaContainer) ==
  [op |-> "read", layer |-> layer, offset |-> offset, length |-> length, pad |-> pad, before |-> <<>>,
   key |-> Key(layer, offset, length, pad, viaContainer), at |-> offset, data |-> <<>>]

WriteCall(layer, offset, data) ==
  [op |-> "write", layer |-> layer, offset |-> offset, length |-> Len(data), pad |-> FALSE, before |-> buffer,
   key |-> <<>>, at |-> offset, data |-> data]

Call == Last(stack)
InCall(op) == stack # <<>> /\ Call.op = op
Inside == Front(stack)

End(call) == call.offset + call.length

\* The mapping of the call goes on: with the segment current, if it is not 0
Unfinished == Call.at < End(Call)
CurrentSegment == SegmentFor(Call.layer, Call.at, Call.pad, End(Call))
NextChunk == Chunk(Call.layer, CurrentSegment, Call.at, End(Call))

\* What the caller of the outermost call gets
Outcome(call, raised, data) ==
  [op |-> call.op, layer |-> call.layer, offset |-> call.offset, length |-> call.length,
   pad |-> call.pad, before |-> call.before, raised |-> raised, data |-> data]

\* A read from outside that needs no mapping: of the data layer, or remembered
Answer(call, raised, data) == last' = Outcome(call, raised, data) /\ UNCHANGED stack

\* layer.read(...), or context.layers.read(layer, ...)
Read(layer, offset, length, pad, viaContainer) ==
  LET call == ReadCall(layer, offset, length, pad, viaContainer)
  IN /\ stack = <<>>
     /\ IF layer = 0
        THEN /\ IF BufferValid(offset, length)
                THEN Answer(call, FALSE, BufferRead(offset, length))
                ELSE Answer(call, TRUE, <<>>)
             /\ UNCHANGED cache
        ELSE IF Cached(cache, call.key)
        THEN Answer(call, FALSE, Entry(cache, call.key).data) /\ cache' = Touch(cache, call.key)
        ELSE stack' = <<call>> /\ last' = [op |-> "none"] /\ UNCHANGED cache
     /\ UNCHANGED <<buffer, writes, past>>

\* The call has come to the end of the chunk, and has this data
Advanced(chunk, data) == [Call EXCEPT !.at = chunk.offset + chunk.length, !.data = data]

\* One turn of read's loop: a chunk, after the gap before it.  (Without pad there never
\* is a gap: the search for a segment raises first.)  A chunk of no length is not read.
ReadChunk ==
  /\ InCall("read") /\ Unfinished /\ CurrentSegment # 0
  /\ LET chunk == NextChunk
         filled == Filled(Call.data, chunk.offset - Call.at)
         below == ReadCall(Call.layer - 1, chunk.mapped, chunk.length, Call.pad, TRUE)
     IN \/ /\ chunk.length = 0
           /\ stack' = Append(Inside, Advanced(chunk, filled))
           /\ UNCHANGED cache
        \/ /\ chunk.length > 0 /\ below.layer = 0 /\ BufferValid(below.offset, below.length)
           /\ stack' = Append(Inside, Advanced(chunk, filled \o BufferRead(below.offset, below.length)))
           /\ UNCHANGED cache
        \/ /\ chunk.length > 0 /\ below.layer > 0 /\ Cached(cache, below.key)
           /\ stack' = Append(Inside, Advanced(chunk, filled \o Entry(cache, below.key).data))
           /\ cache' = Touch(cache, below.key)
        \/ /\ chunk.length > 0 /\ below.layer > 0 /\ ~Cached(cache, below.key)
           /\ stack' = Inside \o <<Advanced(chunk, filled), below>>
           /\ UNCHANGED cache
  /\ UNCHANGED <<buffer, writes, past, last>>

\* The mapping ends.  What is returned is remembered, and goes to the call outside.
ReadReturns ==
  /\ InCall("read") /\ (Unfinished => CurrentSegment = 0 /\ Call.pad)
  /\ LET data == Filled(Call.data, Call.length - Len(Call.data))
     IN /\ cache' = Remember(cache, Call.key, data)
        /\ IF Inside = <<>>
           THEN stack' = <<>> /\ last' = Outcome(Call, FALSE, data)
           ELSE /\ stack' = Append(Front(Inside), [Last(Inside) EXCEPT !.data = @ \o data])
                /\ UNCHANGED last
  /\ UNCHANGED <<buffer, writes, past>>

\* InvalidAddressException, over a hole or from the data layer, ends all calls at once.
\* It is not remembered; what was read before it is.
ReadRaises ==
  /\ InCall("read") /\ Unfinished
  /\ IF CurrentSegment = 0 THEN ~Call.pad
     ELSE /\ Call.layer = 1 /\ NextChunk.length > 0
          /\ ~BufferValid(NextChunk.mapped, NextChunk.length)
  /\ stack' = <<>> /\ last' = Outcome(Head(stack), TRUE, <<>>)
  /\ UNCHANGED <<buffer, cache, writes, past>>

-----------------------------------------------------------------------------
(* LinearlyMappedLayer.write, which does not look at the cache *)

Store(address, data) ==
  /\ buffer' = BufferWrite(buffer, address, data)
  /\ past' = past \cup {buffer'}

\* layer.write(offset, data): each write has values of its own
Write(layer, offset, length) ==
  /\ stack = <<>> /\ writes < MaxWrites
  /\ writes' = writes + 1
  /\ LET call == WriteCall(layer, offset, [i \in 1..length |-> 10 * (writes + 1) + i])
     IN IF layer = 0 THEN Store(offset, call.data) /\ Answer(call, FALSE, call.data)
        ELSE stack' = <<call>> /\ last' = [op |-> "none"] /\ UNCHANGED <<buffer, past>>
  /\ UNCHANGED cache

\* One turn of write's loop: the part of the data that goes to a chunk
WriteChunk ==
  /\ InCall("write") /\ Unfinished /\ CurrentSegment # 0
  /\ LET chunk == NextChunk
         part == SubSeq(Call.data, chunk.offset - Call.offset + 1, chunk.offset - Call.offset + chunk.length)
         after == Advanced(chunk, Call.data)
     IN IF Call.layer = 1
        THEN Store(chunk.mapped, part) /\ stack' = Append(Inside, after)
        ELSE /\ stack' = Inside \o <<after, WriteCall(Call.layer - 1, chunk.mapped, part)>>
             /\ UNCHANGED <<buffer, past>>
  /\ UNCHANGED <<cache, writes, last>>

WriteReturns ==
  /\ InCall("write") /\ ~Unfinished
  /\ stack' = Inside
  /\ last' = IF Inside = <<>> THEN Outcome(Call, FALSE, Call.data) ELSE last
  /\ UNCHANGED <<buffer, cache, writes, past>>

\* A hole ends all calls; what was written before it stays written.
WriteRaises ==
  /\ InCall("write") /\ Unfinished /\ CurrentSegment = 0
  /\ stack' = <<>> /\ last' = Outcome(Head(stack), TRUE, Head(stack).data)
  /\ UNCHANGED <<buffer, cache, writes, past>>

Next ==
  \/ \E r \in Reads : Read(r[1], r[2], r[3], r[4], r[5])
  \/ ReadChunk \/ ReadReturns \/ ReadRaises
  \/ \E w \in WriteSpots : Write(w[1], w[2], w[3])
  \/ WriteChunk \/ WriteReturns \/ WriteRaises

Spec == Init /\ [][Next]_vars

-----------------------------------------------------------------------------
(* The reference: what an address of a layer is, one byte at a time. *)

\* The addresses (none or one) that an address of layer 1 or 2 maps to below
MapsTo(layer, a) ==
  {Segments[layer][i].mapped + (a - Segments[layer][i].address) :
     i \in {j \in DOMAIN Segments[layer] :
              a \in Segments[layer][j].address ..
                     Segments[layer][j].address + Segments[layer][j].length - 1}}

\* The buffer address behind an address, none if it is a hole at some level
Target(layer, a) ==
  CASE layer = 0 -> {a}
    [] layer = 1 -> MapsTo(1, a)
    [] layer = 2 -> UNION {MapsTo(1, b) : b \in MapsTo(2, a)}

InBuffer(b, a) == a \in 0..(Len(b) - 1)

\* The first address of a segment that maps to the last address of the layer below, or
\* behind it: the search takes it for a hole, and only one that skips holes comes to the
\* segment, as to the next one
Missed(size, layer, a) ==
  \E i \in DOMAIN Segments[layer] : /\ Segments[layer][i].address = a
                                   /\ Segments[layer][i].mapped >= MaximumOver(size, layer - 1)

Hidden(size, layer, a) ==
  CASE layer = 0 -> FALSE
    [] layer = 1 -> Missed(size, 1, a)
    [] layer = 2 -> Missed(size, 2, a) \/ \E b \in MapsTo(2, a) : Missed(size, 1, b)

\* What a call finds behind an address: pad also finds what is hidden
Found(size, pad, layer, a) == IF ~pad /\ Hidden(size, layer, a) THEN {} ELSE Target(layer, a)

ReadFails(layer, offset, length, pad) ==
  \E a \in offset..(offset + length - 1) :
    \/ Found(Len(buffer), pad, layer, a) = {} /\ ~pad
    \/ \E t \in Found(Len(buffer), pad, layer, a) : ~InBuffer(buffer, t)

ByteAt(b, layer, a) ==
  IF Target(layer, a) = {} THEN Null ELSE b[(CHOOSE t \in Target(layer, a) : TRUE) + 1]

-----------------------------------------------------------------------------
(* Properties *)

\* Writes make reads stale, never wrong about the address: every byte a read
\* returns is one the buffer has held at the address that byte maps to, and
\* null bytes stand exactly where there is a hole.
BytesWereThere ==
  last.op = "read" /\ ~last.raised =>
    /\ Len(last.data) = last.length
    /\ \A i \in 1..last.length :
         \E b \in past : /\ \A t \in Target(last.layer, last.offset + i - 1) : InBuffer(b, t)
                        /\ last.data[i] = ByteAt(b, last.layer, last.offset + i - 1)

\* Whether a read raises is always decided on the buffer as it is: exceptions
\* are never remembered.  pad forgives holes in the mapping, and nothing else.  Without
\* pad the first address of a segment that maps to the end of the layer below, or behind
\* it, counts as a hole, until the buffer has grown beyond, even if its byte is there.
FailureIsCurrent ==
  last.op = "read" =>
    (last.raised <=> ReadFails(last.layer, last.offset, last.length, last.pad))

\* What a buffer b is after a call of write: its data up to the first hole (or hidden
\* address), each byte where its address maps to, over what was there before
UpToFirstHole(b, call) ==
  LET n == Len(call.data)
      at(i) == Target(call.layer, call.offset + i - 1)
      found(i) == Found(Len(b), FALSE, call.layer, call.offset + i - 1) # {}
      done == {i \in 1..n : \A j \in 1..i : found(j)}
      hits(a) == {i \in done : a \in at(i)}
      newest(a) == CHOOSE i \in hits(a) : \A j \in hits(a) : j <= i
  IN (\A i \in done : \A a \in at(i) : InBuffer(call.before, a)) =>
       /\ call.raised <=> done # 1..n
       /\ b = [k \in DOMAIN call.before |->
                IF hits(k - 1) = {} THEN call.before[k] ELSE call.data[newest(k - 1)]]

\* A write lands, byte by byte and in order, up to the first hole, and touches
\* nothing else; it raises exactly if it met a hole.
WriteReachesFirstHole == last.op = "write" => UpToFirstHole(buffer, last)

=============================================================================
