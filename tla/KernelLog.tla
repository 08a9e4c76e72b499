----------------------------- MODULE KernelLog -----------------------------
(***************************************************************************)
(* plugins/linux/kmsg.py: the log of the kernel, read from an image.  It   *)
(* is a ring of characters, of records, or of descriptors with a ring of   *)
(* texts, as the version of the kernel has it; there is a reader for each. *)
(*                                                                         *)
(* The kernel is modelled as the readers expect it: it goes on logging     *)
(* until the image is acquired.  A text is a sequence of units <<r, k>>,   *)
(* the k-th of record r, so that a unit out of place is seen.              *)
(***************************************************************************)
EXTENDS Integers, Sequences, FiniteSets, SequencesExt

CONSTANTS
  BufferSize,  \* log_buf_len, or 1 << text_data_ring.size_bits
  Lengths,     \* of texts
  MaxRecords,  \* bound: how many records are logged, for each version
  DescCount,   \* 1 << desc_ring.count_bits
  IdSpace      \* ids of descriptors are counted up to this

VARIABLES
  version,  \* "chars" (up to 3.5), "records" (up to 5.10), "descriptors"; never changes
  texts,    \* of each record that was logged, how long its text is
  ring,     \* what the kernel keeps
  damage,   \* [lost, zeroed]: units of the image that cannot be read, that are read as zeros
  reader    \* [state, cur, end, turns, lines]

logVars == <<version, texts, ring, damage, reader>>

Places == 0 .. BufferSize - 1
Text(r, n) == [k \in 1 .. n |-> <<r, k>>]
NewReader == [state |-> "none", cur |-> 0, end |-> 0, turns |-> 0, lines |-> <<>>]
NoDamage == [lost |-> {}, zeroed |-> {}]

Reads(r) == reader' = r /\ UNCHANGED <<version, texts, ring, damage>>
Reading(v) == version = v /\ reader.state = "reading"
Done(r) == [r EXCEPT !.state = "done"]

\* get_log_lines, over a text that has been looked for: is_valid, and it is not empty
WithText(r, places, text) ==
  IF text = <<>> \/ places \cap damage.lost # {} THEN r ELSE [r EXCEPT !.lines = Append(@, text)]

-----------------------------------------------------------------------------
(* Deviations a bug could introduce; only the mutants of PROJECT.json use them. *)

\* A text that wraps around begins where its descriptor says
BlockBeginUnwrapped(desc) == desc.begin % BufferSize

-----------------------------------------------------------------------------
(* The kernel: characters *)

\* A line ends with a line feed, <<r, 0>>
LogChars(n) ==
  /\ version = "chars" /\ n > 0
  /\ ring' = [text |-> ring.text \o Text(Len(texts) + 1, n) \o <<<<Len(texts) + 1, 0>>>>]

(* Records, of a header and a text.  One goes to the beginning of the buffer if there is no
   room for it and another header; a header of length 0 is left.  The oldest make room. *)

HEADER == 1
Zero == [unit |-> <<0, 0>>, len |-> 0]
FirstIdx(kept) == IF kept = {} THEN 0 ELSE ring.place[CHOOSE r \in kept : \A q \in kept : r <= q]
Room(first) ==
  IF ring.next <= first THEN first - ring.next
  ELSE IF BufferSize - ring.next > first THEN BufferSize - ring.next ELSE first

LogRecord(n) ==
  LET r == Len(texts) + 1
      len == HEADER + n
      wraps == ring.next + len + HEADER > BufferSize
      at == IF wraps THEN 0 ELSE ring.next
      fits(q) == Room(ring.place[q]) >= len + HEADER
      unit(k) == [unit |-> <<r, k>>, len |-> IF k = 0 THEN len ELSE 0]
  IN /\ version = "records"
     /\ ring' = [units |-> [i \in Places |-> IF i - at \in 0 .. n THEN unit(i - at)
                                             ELSE IF wraps /\ i = ring.next THEN Zero ELSE ring.units[i]],
                 place |-> Append(ring.place, at),
                 kept |-> {q \in ring.kept : \E p \in ring.kept : p <= q /\ fits(p)} \cup {r},
                 next |-> at + len]

(* Descriptors, and a ring of blocks, of an id and a text.  A block that would reach the end of
   the ring has its text at the start.  Room is made by the oldest, if they are finalized. *)

LONG == 2
Odd == 1   \* the position of a text that there is none of
Block(n) == LONG + n + (n % LONG)
BlockEnd(lpos, size) ==
  LET end == lpos + size
      round == end \div BufferSize
  IN IF lpos \div BufferSize = round THEN end ELSE round * BufferSize + size

\* A text is much shorter than the ring: at most 1024 bytes, of 4096 or more
ASSUME TextsAreShort == \A n \in Lengths : 2 * Block(n) < BufferSize /\ BufferSize % 2 = 0

LogDescriptor(n, state) ==
  LET r == Len(texts) + 1
      id == (ring.head + 1) % IdSpace
      end == IF n = 0 THEN ring.lpos ELSE BlockEnd(ring.lpos, Block(n))
      text(i) == i - ((end - Block(n)) % BufferSize) - LONG + 1
      inTheWay(i) == LET d == ring.descs[i] IN
        d.state # "reusable" /\ (i = id % DescCount \/ (d.text > 0 /\ d.begin < end - BufferSize))
  IN /\ version = "descriptors"
     /\ \A i \in DOMAIN ring.descs : inTheWay(i) => ring.descs[i].state = "finalized"
     /\ ring' = [descs |-> [i \in DOMAIN ring.descs |->
                    IF i = id % DescCount
                      THEN [record |-> r, state |-> state, text |-> n,
                            begin |-> IF n = 0 THEN Odd ELSE ring.lpos, next |-> IF n = 0 THEN Odd ELSE end]
                    ELSE [ring.descs[i] EXCEPT !.state = IF inTheWay(i) THEN "reusable" ELSE @]],
                 data |-> [i \in Places |-> IF text(i) \in 1 .. n THEN <<r, text(i)>> ELSE ring.data[i]],
                 lpos |-> end,
                 head |-> id,
                 tail |-> IF (id - ring.tail) % IdSpace = DescCount
                           THEN (ring.tail + 1) % IdSpace ELSE ring.tail]

Log(n) ==
  /\ reader.state = "none" /\ Len(texts) < MaxRecords[version]
  /\ LogChars(n) \/ LogRecord(n) \/ \E state \in {"reserved", "finalized"} : LogDescriptor(n, state)
  /\ texts' = Append(texts, n)
  /\ UNCHANGED <<version, damage, reader>>

\* Some of the image may be missing, or filled with zeros
Acquire ==
  /\ reader.state = "none"
  /\ damage' \in {NoDamage} \cup (IF version = "chars" THEN {}
                 ELSE {[NoDamage EXCEPT !.lost = {i}] : i \in Places}
                      \cup IF version = "records"
                             THEN {[NoDamage EXCEPT !.zeroed = {i}] : i \in Places} ELSE {})
  /\ reader' = [NewReader EXCEPT !.state = "acquired"]
  /\ UNCHANGED <<version, texts, ring>>

-----------------------------------------------------------------------------
(* Kmsg_pre_3_5.run *)

\* What the buffer holds: the last character that came to each place
LogEnd == Len(ring.text)
LogBuf ==
  [i \in 1 .. (IF LogEnd < BufferSize THEN LogEnd ELSE BufferSize) |->
     ring.text[i + BufferSize * ((LogEnd - i) \div BufferSize)]]

\* The buffer is turned so that it begins with what is oldest
Turned(buf) ==
  LET start == LogEnd - BufferSize
      half == IF start < Len(buf) THEN start ELSE Len(buf)
  IN IF start > 0 THEN SubSeq(buf, half + 1, Len(buf)) \o SubSeq(buf, 1, half) ELSE buf

\* splitlines; what does not begin as a line does is the rest of an older one
Lines(buf) ==
  LET feeds == {i \in DOMAIN buf : buf[i][2] = 0} \cup {Len(buf) + 1}
      begins == {i \in DOMAIN buf : buf[i][2] = 1 /\ (i = 1 \/ i - 1 \in feeds)}
      stop(i) == CHOOSE j \in feeds : j > i /\ \A h \in feeds : h > i => j <= h
  IN [n \in 1 .. Cardinality(begins) |->
        LET i == SetToSortSeq(begins, <)[n] IN SubSeq(buf, i, stop(i) - 1)]

ReadChars ==
  /\ version = "chars" /\ reader.state = "acquired"
  /\ Reads([Done(reader) EXCEPT !.lines = Lines(Turned(LogBuf))])

-----------------------------------------------------------------------------
(* Kmsg_3_5_to_3_11.run *)

StartRecords ==
  LET first == FirstIdx(ring.kept)
  IN /\ version = "records" /\ reader.state = "acquired"
     /\ Reads([reader EXCEPT !.state = "reading", !.cur = first,
                             !.end = IF first < ring.next THEN ring.next ELSE BufferSize])

\* A length of 0 indicates a wrap-around.  At the second one (which is not in the code, but
\* there all goes on as it did after the first) the reader is given up.
WrapAround(r) == [r EXCEPT !.cur = 0, !.end = ring.next, !.turns = @ + 1]

ReadRecord ==
  LET i == reader.cur
      len == IF i \in damage.zeroed THEN 0 ELSE ring.units[i].len
      places == i + 1 .. i + len - 1
      text == [k \in 1 .. len - 1 |-> IF i + k \in damage.zeroed THEN <<0, 0>> ELSE ring.units[i + k].unit]
  IN /\ Reading("records")
     /\ Reads(IF i >= reader.end \/ i \in damage.lost THEN Done(reader)
              ELSE IF len # 0 THEN WithText([reader EXCEPT !.cur = i + len], places, text)
              ELSE IF reader.turns > 0 THEN [reader EXCEPT !.state = "loops"]
              ELSE WrapAround(reader))

-----------------------------------------------------------------------------
(* Kmsg_5_10_to_.run *)

NoEnd == IdSpace

StartDescriptors ==
  /\ version = "descriptors" /\ reader.state = "acquired"
  /\ Reads([reader EXCEPT !.state = "reading", !.cur = ring.tail, !.end = NoEnd])

\* Where the text of a block is: at the start of the ring if it wraps around
BlockBegin(desc) ==
  LET begin == desc.begin % BufferSize IN IF begin > desc.next % BufferSize THEN 0 ELSE begin

\* After as many turns as there are ids the reader (which is not in the code) is given up
ReadDescriptor ==
  LET desc == ring.descs[reader.cur % DescCount]
      begin == BlockBegin(desc)
      room == (desc.next % BufferSize) - begin
      places == begin + LONG .. begin + LONG + (IF desc.text < room THEN desc.text ELSE room) - 1
      text == [k \in 1 .. Cardinality(places) |-> ring.data[begin + LONG + k - 1]]
      onwards == [reader EXCEPT !.cur = (@ + 1) % IdSpace, !.end = ring.head, !.turns = @ + 1]
  IN /\ Reading("descriptors")
     /\ Reads(IF reader.cur = reader.end THEN Done(reader)
              ELSE IF reader.turns = IdSpace - 1 THEN [reader EXCEPT !.state = "loops"]
              ELSE IF desc.state # "finalized" \/ desc.begin % 2 = 1 THEN onwards
              ELSE WithText(onwards, places, text))

-----------------------------------------------------------------------------

NoLog == [record |-> 0, state |-> "reserved", text |-> 0, begin |-> 0, next |-> 0]

LogInit ==
  /\ version \in {"chars", "records", "descriptors"}
  /\ texts = <<>> /\ damage = NoDamage /\ reader = NewReader
  /\ ring = CASE version = "chars" -> [text |-> <<>>]
              [] version = "records" ->
                   [units |-> [i \in Places |-> Zero], place |-> <<>>, kept |-> {}, next |-> 0]
              [] version = "descriptors" ->
                   [descs |-> [i \in 0 .. DescCount - 1 |-> [NoLog EXCEPT !.state = "reusable"]],
                    data |-> [i \in Places |-> <<0, 0>>], lpos |-> 0,
                    head |-> IdSpace - DescCount, tail |-> IdSpace - DescCount]

LogNext ==
  \/ \E n \in Lengths : Log(n)
  \/ Acquire \/ ReadChars \/ StartRecords \/ ReadRecord \/ StartDescriptors \/ ReadDescriptor

-----------------------------------------------------------------------------
(* Properties *)

\* The records that are in the ring, from the oldest on, as far as their headers can be read
InRing ==
  CASE version = "chars" ->
         LET first(r) == CHOOSE i \in DOMAIN ring.text : ring.text[i] = <<r, 1>>
         IN {r \in DOMAIN texts : first(r) > LogEnd - BufferSize}
    [] version = "records" ->
         LET after(q) == ring.place[q] + HEADER + texts[q]
             headers(r) == {ring.place[q] : q \in ring.kept \cap 1 .. r}
                           \cup {after(q) : q \in {p \in ring.kept : p < r /\ ring.place[p + 1] = 0}}
         IN {r \in ring.kept : headers(r) \cap damage.lost = {}}
    [] version = "descriptors" ->
         {r \in DOMAIN texts : \E i \in DOMAIN ring.descs :
            ring.descs[i].record = r /\ ring.descs[i].state = "finalized"}

TextPlaces(r) ==
  CASE version = "chars" -> {}
    [] version = "records" -> {i \in Places : ring.units[i].unit \in {<<r, k>> : k \in 1 .. texts[r]}}
    [] version = "descriptors" -> {i \in Places : ring.data[i] \in {<<r, k>> : k \in 1 .. texts[r]}}

\* The log is printed from the oldest record that is left to the newest, each once and with
\* its own text, but those of which some cannot be read; in the ring of characters if it has
\* been written to the end no more than twice, in the ring of descriptors without the newest.
\* A reader goes on for ever only over a length that was filled with zeros, or in a ring of
\* descriptors in which nothing has been logged.
LogComplete ==
  /\ reader.state = "done" /\ damage.zeroed = {} /\ (version = "chars" => LogEnd <= 2 * BufferSize) =>
       LET printed == {r \in InRing : texts[r] > 0 /\ TextPlaces(r) \cap damage.lost = {}
                                      /\ (version = "descriptors" => r # Len(texts))}
           order == SetToSortSeq(printed, <)
       IN reader.lines = [n \in DOMAIN order |-> Text(order[n], texts[order[n]])]
  /\ reader.state = "loops" =>
       \/ version = "records" /\ damage.zeroed # {}
       \/ version = "descriptors" /\ texts = <<>>
=============================================================================
