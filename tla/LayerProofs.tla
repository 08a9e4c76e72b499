---------------------------- MODULE LayerProofs ----------------------------
(***************************************************************************)
(* Reads and writes through a stack of layers are right about addresses,   *)
(* for all segments, all calls and caches of any size.                     *)
(*                                                                         *)
(* The segment that is found for an address is the one the address is in,  *)
(* so that a chunk of a layer and what it maps to have the same bytes of   *)
(* the buffer behind them, address by address, and what is skipped before  *)
(* it has none.  What a call has done can therefore be said of its         *)
(* addresses alone: a read has one right byte for each address up to where *)
(* it is, and a write has left the last byte for each.  When a call waits  *)
(* for one to the layer below, the two share the rest of the chunk.        *)
(*                                                                         *)
(* A right byte stays one: the buffer only becomes longer, and what it has *)
(* held stays in the past.  So what is in the cache stays right, too.      *)
(* And what is found behind an address stays found: an address that is     *)
(* hidden from a search, as its segment starts where the layer below ends, *)
(* can only come to light when the buffer becomes longer.                  *)
(*                                                                         *)
(* A scan reports what is there, and once, for all layers, sections and    *)
(* sizes of chunks.  The sections are apart after the joining, in which the*)
(* end of one may shrink but never reach the next one, and stay so when    *)
(* they are clipped.  The chunks of a section lie in it, each in one block *)
(* of a layer that maps some, and each starts behind the part of the one   *)
(* before that may be reported.  So the reports of two chunks differ in    *)
(* their addresses, unless both are of the end of a data layer's section.  *)
(* What a scan has yielded is what the chunks so far give, in their order. *)
(***************************************************************************)
EXTENDS LayerIO, LayerScan, ProofBasics

\* The numbers of a set that has with a number all before it are counted by its size.
LEMMA CountedFromOne ==
  ASSUME NEW n \in Nat, NEW S \in SUBSET (1 .. n), \A i \in S : \A j \in 1 .. i : j \in S
  PROVE  Cardinality(S) \in 0 .. n /\ S = 1 .. Cardinality(S)
  <1> DEFINE T == {m \in Nat : m + 1 \notin S}
  <1>1. n \in T
    OBVIOUS
  <1>2. PICK m \in T : \A k \in T : m <= k
    BY <1>1, LeastNumber
  <1>3. S = 1 .. m
    <2>1. ASSUME NEW i \in 1 .. m PROVE i \in S
      <3>1. i - 1 \in Nat /\ i - 1 < m
        BY <1>2
      <3>2. i - 1 \notin T
        BY <1>2, <3>1
      <3> QED BY <3>1, <3>2
    <2>2. ASSUME NEW i \in S, i > m PROVE FALSE
      <3>1. m + 1 \in 1 .. i
        BY <1>2, <2>2
      <3> QED BY <1>2, <3>1
    <2>3. m \in Nat
      BY <1>2
    <2>4. ASSUME NEW i \in S PROVE i \in 1 .. m
      <3>1. i \in 1 .. n /\ ~(i > m)
        BY <2>2
      <3> QED BY <2>3, <3>1
    <2> QED BY <2>1, <2>4
  <1>4. Cardinality(1 .. m) = m
    BY <1>2, FS_Interval
  <1>5. m \in 0 .. n
    BY <1>1, <1>2
  <1>6. Cardinality(S) = m
    BY <1>3, <1>4
  <1> QED BY <1>3, <1>5, <1>6

-----------------------------------------------------------------------------
(* Segments *)

Upper == 1 .. 2
Segs(layer) == 1 .. Len(Segments[layer])
Address(layer, i) == Segments[layer][i].address
MappedTo(layer, i) == Segments[layer][i].mapped
Length(layer, i) == Segments[layer][i].length
SegmentEnd(layer, i) == Address(layer, i) + Length(layer, i)

\* What the segments of a layer are.
LEMMA SegmentsTyped ==
  ASSUME NEW layer \in Upper
  PROVE  /\ Len(Segments[layer]) \in Nat \ {0} /\ DOMAIN Segments[layer] = Segs(layer)
         /\ \A i \in Segs(layer) :
              /\ Address(layer, i) \in Nat /\ MappedTo(layer, i) \in Nat /\ Length(layer, i) \in Nat \ {0}
         /\ \A i, j \in Segs(layer) : i < j => SegmentEnd(layer, i) <= Address(layer, j)
  <1>1. PICK segments : segments = Segments[layer]
    OBVIOUS
  <1>2. /\ segments \in Seq([address : Nat, mapped : Nat, length : Nat \ {0}]) /\ segments # <<>>
        /\ \A i, j \in DOMAIN segments :
             i < j => segments[i].address + segments[i].length <= segments[j].address
    BY <1>1, SegmentsAssumption DEF Upper
  <1>3. Len(segments) \in Nat \ {0} /\ DOMAIN segments = 1 .. Len(segments)
    BY <1>2
  <1>4. ASSUME NEW i \in 1 .. Len(segments) PROVE segments[i] \in [address : Nat, mapped : Nat, length : Nat \ {0}]
    <2> DEFINE Segment == [address : Nat, mapped : Nat, length : Nat \ {0}]
    <2>1. segments \in Seq(Segment)
      BY <1>2
    <2> HIDE DEF Segment
    <2>2. segments[i] \in Segment
      BY <1>4, <2>1
    <2> QED BY <2>2 DEF Segment
  <1> QED BY <1>1, <1>2, <1>3, <1>4 DEF Segs, Address, MappedTo, Length, SegmentEnd

\* bisect_right finds the last segment that starts at an address or before; one that starts at the address
\* may be missed, if it maps to the end of the layer below.
LEMMA BisectRight ==
  ASSUME NEW layer \in Upper, NEW a \in Nat, LayerMaximum(layer - 1) \in Int
  PROVE  /\ Bisect(layer, a) \in 0 .. Len(Segments[layer])
         /\ \A j \in 1 .. Bisect(layer, a) :
              \/ Address(layer, j) < a
              \/ Address(layer, j) = a /\ MappedTo(layer, j) < LayerMaximum(layer - 1)
         /\ \A j \in Segs(layer) : j > Bisect(layer, a) =>
              /\ Address(layer, j) >= a
              /\ Address(layer, j) > a \/ Missed(Len(buffer), layer, a)
  <1> DEFINE before(i) == \/ Address(layer, i) < a
                          \/ Address(layer, i) = a /\ MappedTo(layer, i) < LayerMaximum(layer - 1)
             S == {i \in Segs(layer) : before(i)}
  <1>1. Bisect(layer, a) = Cardinality(S)
    BY SegmentsTyped DEF Bisect, Address, MappedTo
  <1>2. S \subseteq 1 .. Len(Segments[layer])
    BY DEF Segs
  <1>3. ASSUME NEW i \in S, NEW j \in 1 .. i PROVE j \in S
    <2>1. i \in Segs(layer) /\ j \in Segs(layer)
      BY <1>2, <1>3, SegmentsTyped DEF Segs
    <2>2. CASE j < i
      <3>1. Address(layer, j) < Address(layer, i) /\ Address(layer, i) <= a
        BY <1>3, <2>1, <2>2, SegmentsTyped DEF SegmentEnd
      <3>2. Address(layer, j) < a
        BY <2>1, <3>1, SegmentsTyped
      <3> QED BY <2>1, <3>2
    <2> QED BY <1>3, <2>1, <2>2, SegmentsTyped DEF Segs
  <1>4. Bisect(layer, a) \in 0 .. Len(Segments[layer]) /\ S = 1 .. Bisect(layer, a)
    <2>1. PICK n, T : n = Len(Segments[layer]) /\ T = S
      OBVIOUS
    <2> HIDE DEF S
    <2>2. n \in Nat
      BY <2>1, SegmentsTyped
    <2>3. T \in SUBSET (1 .. n) /\ \A i \in T : \A j \in 1 .. i : j \in T
      BY <1>2, <1>3, <2>1
    <2>4. Cardinality(T) \in 0 .. n /\ T = 1 .. Cardinality(T)
      BY <2>2, <2>3, CountedFromOne
    <2> QED BY <1>1, <2>1, <2>4
  <1>5. ASSUME NEW j \in 1 .. Bisect(layer, a) PROVE before(j)
    <2>1. j \in S
      BY <1>4, <1>5
    <2> QED BY <2>1
  <1>6. ASSUME NEW j \in Segs(layer), j > Bisect(layer, a) PROVE ~before(j)
    <2>1. j \notin S
      BY <1>4, <1>6
    <2> QED BY <2>1
  <1>7. ASSUME NEW j \in Segs(layer), j > Bisect(layer, a)
        PROVE  Address(layer, j) >= a /\ (Address(layer, j) > a \/ Missed(Len(buffer), layer, a))
    <2>1. ~(Address(layer, j) < a) /\ ~(Address(layer, j) = a /\ MappedTo(layer, j) < LayerMaximum(layer - 1))
      BY <1>6, <1>7
    <2>2. Address(layer, j) \in Nat /\ MappedTo(layer, j) \in Nat /\ j \in DOMAIN Segments[layer]
      BY SegmentsTyped
    <2>3. CASE Address(layer, j) = a
      <3>1. MappedTo(layer, j) >= MaximumOver(Len(buffer), layer - 1)
        BY <2>1, <2>2, <2>3 DEF LayerMaximum
      <3> QED BY <2>2, <2>3, <3>1 DEF Missed, Address, MappedTo
    <2> QED BY <2>1, <2>2, <2>3
  <1> QED BY <1>4, <1>5, <1>7

\* An address in a segment maps into it, and one in no segment maps nowhere.
LEMMA MapsInSegment ==
  ASSUME NEW layer \in Upper, NEW i \in Segs(layer), NEW a \in Int,
         Address(layer, i) <= a, a < SegmentEnd(layer, i)
  PROVE  MapsTo(layer, a) = {MappedTo(layer, i) + (a - Address(layer, i))}
  <1> DEFINE Has(j) == a \in Segments[layer][j].address ..
                          Segments[layer][j].address + Segments[layer][j].length - 1
  <1>1. ASSUME NEW j \in Segs(layer) PROVE Has(j) <=> j = i
    <2>1. Has(j) <=> Address(layer, j) <= a /\ a < SegmentEnd(layer, j)
      BY SMTT(30), <1>1, SegmentsTyped DEF Address, SegmentEnd, Length
    <2>2. i \in Nat /\ j \in Nat
      BY SegmentsTyped DEF Segs
    <2>3. CASE j < i
      <3>1. SegmentEnd(layer, j) <= Address(layer, i)
        BY <2>3, SegmentsTyped
      <3>2. ~(a < SegmentEnd(layer, j))
        BY <3>1, SegmentsTyped DEF SegmentEnd
      <3> QED BY <2>1, <2>2, <2>3, <3>2
    <2>4. CASE i < j
      <3>1. SegmentEnd(layer, i) <= Address(layer, j)
        BY <2>4, SegmentsTyped
      <3>2. ~(Address(layer, j) <= a)
        BY <3>1, SegmentsTyped DEF SegmentEnd
      <3> QED BY <2>1, <2>2, <2>4, <3>2
    <2>5. CASE j = i
      BY <2>1, <2>5
    <2> QED BY <2>2, <2>3, <2>4, <2>5
  <1>2. {j \in DOMAIN Segments[layer] : Has(j)} = {i}
    BY <1>1, SegmentsTyped
  <1>3. MapsTo(layer, a) = {Segments[layer][j].mapped + (a - Segments[layer][j].address) :
                              j \in {j \in DOMAIN Segments[layer] : Has(j)}}
    BY DEF MapsTo
  <1> HIDE DEF Has
  <1> QED BY <1>2, <1>3 DEF MappedTo, Address

\* An address that is in no segment maps nowhere.
LEMMA MapsNowhere ==
  ASSUME NEW layer \in Upper, NEW a \in Int,
         \A i \in Segs(layer) : a < Address(layer, i) \/ SegmentEnd(layer, i) <= a
  PROVE  MapsTo(layer, a) = {}
  <1> DEFINE Has(j) == a \in Segments[layer][j].address ..
                          Segments[layer][j].address + Segments[layer][j].length - 1
  <1>1. ASSUME NEW j \in Segs(layer) PROVE ~Has(j)
    BY <1>1, SegmentsTyped DEF Address, SegmentEnd, Length
  <1>2. {j \in DOMAIN Segments[layer] : Has(j)} = {}
    BY <1>1, SegmentsTyped
  <1>3. MapsTo(layer, a) = {Segments[layer][j].mapped + (a - Segments[layer][j].address) :
                              j \in {j \in DOMAIN Segments[layer] : Has(j)}}
    BY DEF MapsTo
  <1> HIDE DEF Has
  <1> QED BY <1>2, <1>3

\* A segment starts at an address of another one only if the two are the same.
LEMMA StartsOneSegment ==
  ASSUME NEW layer \in Upper, NEW i \in Segs(layer), NEW j \in Segs(layer),
         Address(layer, i) <= Address(layer, j), Address(layer, j) < SegmentEnd(layer, i)
  PROVE  j = i
  <1>1. i \in Nat /\ j \in Nat
    BY SegmentsTyped DEF Segs
  <1>2. ~(i < j)
    <2>1. ASSUME i < j PROVE FALSE
      <3>1. SegmentEnd(layer, i) <= Address(layer, j)
        BY <2>1, SegmentsTyped
      <3> QED BY <3>1, SegmentsTyped DEF SegmentEnd
    <2> QED BY <2>1
  <1>3. ~(j < i)
    <2>1. ASSUME j < i PROVE FALSE
      <3>1. SegmentEnd(layer, j) <= Address(layer, i)
        BY <2>1, SegmentsTyped
      <3> QED BY <3>1, SegmentsTyped DEF SegmentEnd
    <2> QED BY <2>1
  <1> QED BY <1>1, <1>2, <1>3

\* The segment to go on with: with none, the address is in a hole, which goes on to the end if holes are
\* ignored, or is missed; otherwise it is the first that does not end before, and what is skipped is a hole.
LEMMA SegmentFound ==
  ASSUME NEW layer \in Upper, NEW a \in Nat, NEW ignore \in BOOLEAN, NEW end \in Nat, a < end,
         LayerMaximum(layer - 1) \in Int,
         NEW n, n = SegmentFor(layer, a, ignore, end)
  PROVE  /\ n # 0 => /\ n \in Segs(layer) /\ a < SegmentEnd(layer, n) /\ Address(layer, n) <= end
                     /\ ~ignore => Address(layer, n) <= a /\ ~Missed(Len(buffer), layer, a)
                     /\ \A b \in a .. Address(layer, n) - 1 : MapsTo(layer, b) = {}
         /\ n = 0 /\ ignore => \A b \in a .. end - 1 : MapsTo(layer, b) = {}
         /\ n = 0 /\ ~ignore => MapsTo(layer, a) = {} \/ Missed(Len(buffer), layer, a)
  <1>1. PICK i : i = Bisect(layer, a)
    OBVIOUS
  <1>2. PICK size : size = Len(Segments[layer])
    OBVIOUS
  <1>3. /\ size \in Nat \ {0} /\ i \in 0 .. size /\ Segs(layer) = 1 .. size
        /\ \A j \in 1 .. i : Address(layer, j) <= a
        /\ \A j \in 1 .. i : Address(layer, j) = a => MappedTo(layer, j) < LayerMaximum(layer - 1)
        /\ \A j \in Segs(layer) :
             j > i => Address(layer, j) >= a /\ (Address(layer, j) > a \/ Missed(Len(buffer), layer, a))
    <2>1. size \in Nat \ {0} /\ i \in 0 .. size /\ Segs(layer) = 1 .. size
      BY <1>1, <1>2, BisectRight, SegmentsTyped DEF Segs
    <2>2. /\ \A j \in 1 .. i :
               \/ Address(layer, j) < a
               \/ Address(layer, j) = a /\ MappedTo(layer, j) < LayerMaximum(layer - 1)
          /\ \A j \in Segs(layer) :
               j > i => Address(layer, j) >= a /\ (Address(layer, j) > a \/ Missed(Len(buffer), layer, a))
      BY <1>1, BisectRight
    <2>3. \A j \in 1 .. i : Address(layer, j) \in Nat
      BY <2>1, SegmentsTyped
    <2> QED BY <2>1, <2>2, <2>3
  <1>4. InSegment(layer, i, a) <=> i > 0 /\ a < SegmentEnd(layer, i)
    BY DEF InSegment, SegmentEnd, Address, Length
  <1>5. \A j \in Segs(layer) : SegmentEnd(layer, j) \in Nat /\ Address(layer, j) \in Nat /\ Address(layer, j) < SegmentEnd(layer, j)
    BY SegmentsTyped DEF SegmentEnd
  <1>6. ASSUME ~InSegment(layer, i, a), NEW j \in 1 .. i PROVE SegmentEnd(layer, j) <= a
    <2>1. i \in Segs(layer) /\ SegmentEnd(layer, i) <= a
      BY <1>3, <1>4, <1>5, <1>6
    <2>2. CASE j < i
      <3>1. j \in Segs(layer) /\ i \in 1 .. i
        BY <1>3, <1>6, <2>1
      <3>2. SegmentEnd(layer, j) <= Address(layer, i) /\ Address(layer, i) < SegmentEnd(layer, i)
        BY <1>5, <2>1, <2>2, <3>1, SegmentsTyped
      <3>3. SegmentEnd(layer, j) \in Nat /\ Address(layer, i) \in Nat /\ SegmentEnd(layer, i) \in Nat
        BY <1>5, <2>1, <3>1
      <3> QED BY <2>1, <3>2, <3>3
    <2> QED BY <1>3, <1>6, <2>1, <2>2
  <1>7. CASE InSegment(layer, i, a)
    <2>1. n = i /\ i \in Segs(layer) /\ n # 0
      BY <1>1, <1>3, <1>4, <1>7 DEF SegmentFor
    <2>2. a < SegmentEnd(layer, n) /\ Address(layer, n) <= a /\ Address(layer, n) \in Nat
      BY <1>3, <1>4, <1>5, <1>7, <2>1
    <2>3. ASSUME Missed(Len(buffer), layer, a) PROVE FALSE
      <3>1. PICK j \in Segs(layer) : Address(layer, j) = a /\ MappedTo(layer, j) >= LayerMaximum(layer - 1)
        BY <2>3, SegmentsTyped DEF Missed, LayerMaximum, Address, MappedTo
      <3>2. j = n
        BY <2>1, <2>2, <3>1, StartsOneSegment
      <3>3. MappedTo(layer, n) < LayerMaximum(layer - 1) /\ MappedTo(layer, n) \in Nat
        BY <1>3, <1>7, <2>1, <3>1, <3>2, SegmentsTyped DEF InSegment
      <3> QED BY <3>1, <3>2, <3>3
    <2> QED BY <2>1, <2>2, <2>3
  <1>8. CASE ~InSegment(layer, i, a) /\ ignore /\ i < size /\ Address(layer, i + 1) <= end
    <2>1. n = i + 1
      BY <1>1, <1>2, <1>8 DEF SegmentFor, Address
    <2>0. i < size /\ Address(layer, n) <= end
      BY <1>8, <2>1
    <2>2. n \in Segs(layer) /\ n > i /\ n # 0
      BY <1>3, <2>0, <2>1
    <2>3. Address(layer, n) >= a /\ Address(layer, n) \in Nat /\ Address(layer, n) < SegmentEnd(layer, n) /\ SegmentEnd(layer, n) \in Nat
      BY <1>3, <1>5, <2>2
    <2>4. ASSUME NEW b \in a .. Address(layer, n) - 1 PROVE MapsTo(layer, b) = {}
      <3>1. b \in Int /\ a <= b /\ b < Address(layer, n)
        BY <2>3, <2>4
      <3>2. ASSUME NEW j \in Segs(layer) PROVE b < Address(layer, j) \/ SegmentEnd(layer, j) <= b
        <4>1. CASE j <= i
          <5>1. SegmentEnd(layer, j) <= a
            BY <1>3, <1>6, <1>8, <3>2, <4>1
          <5> QED BY <1>5, <3>1, <5>1
        <4>2. CASE j > i
          <5>1. j = n \/ Address(layer, n) < Address(layer, j)
            <6>1. CASE j > n
              <7>1. SegmentEnd(layer, n) <= Address(layer, j)
                BY <2>2, <6>1, SegmentsTyped
              <7> QED BY <1>5, <2>3, <7>1
            <6> QED BY <1>3, <2>1, <4>2, <6>1
          <5> QED BY <1>5, <2>3, <3>1, <5>1
        <4> QED BY <1>3, <4>1, <4>2
      <3> QED BY <3>1, <3>2, MapsNowhere
    <2>5. Address(layer, n) <= end /\ a < SegmentEnd(layer, n)
      BY <2>0, <2>3
    <2> QED BY <1>8, <2>2, <2>4, <2>5
  <1>9. CASE ~InSegment(layer, i, a) /\ ~(ignore /\ i < size /\ Address(layer, i + 1) <= end)
    <2>1. n = 0
      BY <1>1, <1>2, <1>9 DEF SegmentFor, Address
    <2>2. ASSUME ignore, NEW b \in a .. end - 1 PROVE MapsTo(layer, b) = {}
      <3>1. b \in Int /\ a <= b /\ b < end
        BY <2>2
      <3>2. ASSUME NEW j \in Segs(layer) PROVE b < Address(layer, j) \/ SegmentEnd(layer, j) <= b
        <4>1. CASE j <= i
          <5>1. SegmentEnd(layer, j) <= a
            BY <1>3, <1>6, <1>9, <3>2, <4>1
          <5> QED BY <1>5, <3>1, <5>1
        <4>2. CASE j > i
          <5>1. i < size /\ i + 1 \in Segs(layer)
            BY <1>3, <4>2
          <5>2. end < Address(layer, i + 1)
            BY <1>5, <1>9, <2>2, <5>1
          <5>3. j = i + 1 \/ Address(layer, i + 1) < Address(layer, j)
            <6>1. CASE j > i + 1
              <7>1. SegmentEnd(layer, i + 1) <= Address(layer, j)
                BY <5>1, <6>1, SegmentsTyped
              <7> QED BY <1>5, <5>1, <7>1
            <6> QED BY <1>3, <4>2, <6>1
          <5> QED BY <1>5, <3>1, <5>1, <5>2, <5>3
        <4> QED BY <1>3, <4>1, <4>2
      <3> QED BY <3>1, <3>2, MapsNowhere
    <2>3. ASSUME ~Missed(Len(buffer), layer, a) PROVE MapsTo(layer, a) = {}
      <3>1. ASSUME NEW j \in Segs(layer) PROVE a < Address(layer, j) \/ SegmentEnd(layer, j) <= a
        BY <1>3, <1>6, <1>9, <2>3, <3>1
      <3> QED BY <3>1, MapsNowhere
    <2> QED BY <2>1, <2>2, <2>3
  <1> QED BY <1>2, <1>7, <1>8, <1>9

\* What a layer 1 or 2 maps to a layer below has behind it what is behind the address there.
LEMMA TargetBelow ==
  ASSUME NEW layer \in Upper, NEW a, NEW b, MapsTo(layer, a) = {b}
  PROVE  Target(layer, a) = Target(layer - 1, b)
  <1>1. CASE layer = 1
    BY <1>1 DEF Target
  <1>2. CASE layer = 2
    <2>1. Target(layer, a) = UNION {MapsTo(1, c) : c \in {b}}
      BY <1>2 DEF Target
    <2>2. Target(layer - 1, b) = MapsTo(1, b)
      BY <1>2 DEF Target
    <2>3. UNION {MapsTo(1, c) : c \in {b}} = MapsTo(1, b)
      OBVIOUS
    <2> QED BY <2>1, <2>2, <2>3
  <1> QED BY <1>1, <1>2 DEF Upper

\* There is nothing behind a hole.
LEMMA NoTarget ==
  ASSUME NEW layer \in Upper, NEW a, MapsTo(layer, a) = {}
  PROVE  Target(layer, a) = {}
  <1>1. CASE layer = 1
    BY <1>1 DEF Target
  <1>2. CASE layer = 2
    <2>1. Target(layer, a) = UNION {MapsTo(1, c) : c \in {}}
      BY <1>2 DEF Target
    <2> QED BY <2>1
  <1> QED BY <1>1, <1>2 DEF Upper

\* In the buffer every address is found, and behind it is itself.
LEMMA FoundInBuffer ==
  ASSUME NEW size, NEW pad, NEW a
  PROVE  Found(size, pad, 0, a) = {a}
  <1>1. ~Hidden(size, 0, a) /\ Target(0, a) = {a}
    BY DEF Hidden, Target
  <1> QED BY <1>1 DEF Found

\* What is found behind an address that a search does not miss is what is found behind the address it maps to.
LEMMA FoundBelow ==
  ASSUME NEW layer \in Upper, NEW size, NEW pad, NEW a, NEW b, MapsTo(layer, a) = {b},
         pad \/ ~Missed(size, layer, a)
  PROVE  Found(size, pad, layer, a) = Found(size, pad, layer - 1, b)
  <1>1. Target(layer, a) = Target(layer - 1, b)
    BY TargetBelow
  <1>2. CASE pad
    BY <1>1, <1>2 DEF Found
  <1>3. CASE ~Missed(size, layer, a)
    <2>1. Hidden(size, layer, a) <=> Hidden(size, layer - 1, b)
      <3>1. CASE layer = 1
        BY <1>3, <3>1 DEF Hidden
      <3>2. CASE layer = 2
        <4>1. Hidden(size, 2, a) <=> \E x \in {b} : Missed(size, 1, x)
          BY <1>3, <3>2 DEF Hidden
        <4>2. Hidden(size, 1, b) <=> Missed(size, 1, b)
          BY DEF Hidden
        <4> QED BY <3>2, <4>1, <4>2
      <3> QED BY <3>1, <3>2 DEF Upper
    <2> QED BY <1>1, <2>1 DEF Found
  <1> QED BY <1>2, <1>3

\* Nothing is found behind a hole, nor, without pad, where a search misses the segment.
LEMMA NothingFound ==
  ASSUME NEW layer \in Upper, NEW size, NEW pad, NEW a, MapsTo(layer, a) = {} \/ (~pad /\ Missed(size, layer, a))
  PROVE  Found(size, pad, layer, a) = {}
  <1>1. CASE MapsTo(layer, a) = {}
    BY <1>1, NoTarget DEF Found
  <1>2. CASE ~pad /\ Missed(size, layer, a)
    <2>1. Hidden(size, layer, a)
      <3>1. CASE layer = 1
        BY <1>2, <3>1 DEF Hidden
      <3>2. CASE layer = 2
        BY <1>2, <3>2 DEF Hidden
      <3> QED BY <3>1, <3>2 DEF Upper
    <2> QED BY <1>2, <2>1 DEF Found
  <1> QED BY <1>1, <1>2

\* No buffer changes what the upper layer misses.
LEMMA MissedAlike ==
  ASSUME NEW size, NEW other, NEW a
  PROVE  Missed(size, 2, a) <=> Missed(other, 2, a)
  <1>1. MaximumOver(size, 2 - 1) = MaximumOver(other, 2 - 1)
    BY DEF MaximumOver
  <1> QED BY <1>1 DEF Missed

\* A longer buffer hides less.
LEMMA MissedLess ==
  ASSUME NEW size \in Int, NEW larger \in Int, size <= larger, NEW layer \in Upper, NEW a, Missed(larger, layer, a)
  PROVE  Missed(size, layer, a)
  <1>1. CASE layer = 1
    <2>1. MaximumOver(larger, layer - 1) = larger - 1 /\ MaximumOver(size, layer - 1) = size - 1
      BY <1>1 DEF MaximumOver
    <2>2. PICK i \in DOMAIN Segments[layer] : /\ Segments[layer][i].address = a
                                              /\ Segments[layer][i].mapped >= MaximumOver(larger, layer - 1)
      BY DEF Missed
    <2>3. PICK m : m = Segments[layer][i].mapped
      OBVIOUS
    <2>4. m \in Nat
      BY <2>3, SegmentsTyped DEF MappedTo
    <2>5. m >= size - 1
      BY <2>1, <2>2, <2>3, <2>4
    <2> QED BY <2>1, <2>2, <2>3, <2>5 DEF Missed
  <1>2. CASE layer = 2
    BY <1>2, MissedAlike
  <1> QED BY <1>1, <1>2 DEF Upper

\* What is found stays found, and is what is behind the address.
LEMMA FoundLater ==
  ASSUME NEW size \in Int, NEW larger \in Int, size <= larger, NEW layer \in Layers, NEW pad, NEW a,
         pad \/ Found(size, pad, layer, a) # {}
  PROVE  Found(size, pad, layer, a) = Target(layer, a) /\ Found(larger, pad, layer, a) = Target(layer, a)
  <1>1. CASE pad
    BY <1>1 DEF Found
  <1>2. CASE ~pad
    <2>1. ~Hidden(size, layer, a)
      BY <1>2 DEF Found
    <2>2. ~Hidden(larger, layer, a)
      <3>1. CASE layer = 0
        BY <3>1 DEF Hidden
      <3>2. CASE layer = 1
        <4>1. 1 \in Upper
          BY DEF Upper
        <4>2. Missed(larger, 1, a) => Missed(size, 1, a)
          BY <4>1, MissedLess
        <4> QED BY <2>1, <3>2, <4>2 DEF Hidden
      <3>3. CASE layer = 2
        <4>1. 1 \in Upper /\ 2 \in Upper
          BY DEF Upper
        <4>2. \A b : Missed(larger, 1, b) => Missed(size, 1, b)
          BY <4>1, MissedLess
        <4>3. Missed(larger, 2, a) => Missed(size, 2, a)
          BY <4>1, MissedLess
        <4> QED BY <2>1, <3>3, <4>2, <4>3 DEF Hidden
      <3> QED BY <3>1, <3>2, <3>3 DEF Layers
    <2> QED BY <2>1, <2>2 DEF Found
  <1> QED BY <1>1, <1>2

\* n addresses of a layer have the same found behind them as n of the layer below: the upper layer whatever
\* the size of the buffer, the lower one with the size it has
Alike(pad, layer, a, below, b, n) ==
  \A s \in Nat : s = Len(buffer) \/ layer = 2 =>
    \A j \in 0 .. n - 1 : Found(s, pad, layer, a + j) = Found(s, pad, below, b + j)

\* The next chunk has found behind it what it maps to, and what is skipped before it has nothing.
LEMMA NextChunkRight ==
  ASSUME NEW layer \in Upper, NEW a \in Nat, NEW ignore \in BOOLEAN, NEW end \in Nat, a < end,
         LayerMaximum(layer - 1) \in Int,
         NEW n, n = SegmentFor(layer, a, ignore, end), n # 0,
         NEW c, c = Chunk(layer, n, a, end)
  PROVE  /\ c.offset \in Nat /\ c.mapped \in Nat /\ c.length \in Nat
         /\ a <= c.offset /\ c.offset + c.length <= end
         /\ ~ignore => c.offset = a /\ c.length > 0
         /\ Alike(ignore, layer, c.offset, layer - 1, c.mapped, c.length)
         /\ \A b \in a .. c.offset - 1 : Found(Len(buffer), ignore, layer, b) = {}
  <1>1. /\ n \in Segs(layer) /\ a < SegmentEnd(layer, n) /\ Address(layer, n) <= end
        /\ ~ignore => Address(layer, n) <= a /\ ~Missed(Len(buffer), layer, a)
        /\ \A b \in a .. Address(layer, n) - 1 : MapsTo(layer, b) = {}
    BY SegmentFound
  <1>2. /\ Address(layer, n) \in Nat /\ MappedTo(layer, n) \in Nat /\ Length(layer, n) \in Nat \ {0}
        /\ SegmentEnd(layer, n) = Address(layer, n) + Length(layer, n)
    BY <1>1, SegmentsTyped DEF SegmentEnd
  <1> DEFINE skipped == IF a > Address(layer, n) THEN a - Address(layer, n) ELSE 0
             crop == Minimum(SegmentEnd(layer, n), end)
  <1>3. /\ c.offset = Address(layer, n) + skipped
        /\ c.mapped = MappedTo(layer, n) + skipped
        /\ c.length = crop - Address(layer, n) - skipped
    BY DEF Chunk, Address, MappedTo, Length, SegmentEnd
  <1>4. /\ crop \in Nat /\ crop <= end /\ crop <= SegmentEnd(layer, n)
        /\ crop = end \/ crop = SegmentEnd(layer, n)
    BY <1>2 DEF Minimum
  <1>5. /\ skipped \in Nat /\ a <= Address(layer, n) + skipped
        /\ skipped = 0 \/ a = Address(layer, n) + skipped
        /\ Address(layer, n) <= a => a = Address(layer, n) + skipped
    BY <1>2
  <1> HIDE DEF skipped, crop
  <1>6. c.offset \in Nat /\ c.mapped \in Nat /\ a <= c.offset /\ c.offset + c.length <= end /\ c.length \in Int
        /\ c.offset + c.length <= SegmentEnd(layer, n) /\ Address(layer, n) <= c.offset
    BY <1>2, <1>3, <1>4, <1>5
  <1>7. c.length \in Nat
    BY <1>1, <1>2, <1>3, <1>4, <1>5
  <1>8. ASSUME ~ignore PROVE c.offset = a /\ c.length > 0
    <2>1. Address(layer, n) <= a
      BY <1>1, <1>8
    <2> QED BY <1>1, <1>2, <1>3, <1>4, <1>5, <2>1
  <1>90. ASSUME NEW j \in 0 .. c.length - 1, NEW x, x = c.offset + j
         PROVE  /\ x \in Int /\ Address(layer, n) <= x /\ x < SegmentEnd(layer, n)
                /\ {MappedTo(layer, n) + (x - Address(layer, n))} = {c.mapped + j}
    <2>1. x \in Int /\ Address(layer, n) <= x /\ x < SegmentEnd(layer, n)
      BY <1>2, <1>6, <1>7, <1>90
    <2>2. MappedTo(layer, n) + (x - Address(layer, n)) = c.mapped + j
      BY <1>2, <1>3, <1>5, <1>7, <1>90
    <2> QED BY <2>1, <2>2
  <1>9. ASSUME NEW j \in 0 .. c.length - 1, NEW s \in Nat, s = Len(buffer) \/ layer = 2
        PROVE  Found(s, ignore, layer, c.offset + j) = Found(s, ignore, layer - 1, c.mapped + j)
    <2>1. PICK x : x = c.offset + j
      OBVIOUS
    <2>2. x \in Int /\ Address(layer, n) <= x /\ x < SegmentEnd(layer, n)
      BY <1>90, <2>1
    <2>3. MapsTo(layer, x) = {MappedTo(layer, n) + (x - Address(layer, n))}
      BY <1>1, <2>2, MapsInSegment
    <2>4. MapsTo(layer, x) = {c.mapped + j}
      BY Zenon, <1>90, <2>1, <2>3
    <2>5. ASSUME ~ignore PROVE ~Missed(s, layer, x)
      <3>1. CASE x = a
        <4>1. ~Missed(Len(buffer), layer, x)
          BY <1>1, <2>5, <3>1
        <4> QED BY <1>9, <4>1, MissedAlike
      <3>2. CASE x # a
        <4>1. a < x /\ Address(layer, n) <= a
          BY <1>1, <1>6, <1>7, <1>8, <1>9, <2>1, <2>5, <3>2
        <4>2. ASSUME NEW i \in Segs(layer), Address(layer, i) = x PROVE FALSE
          <5>1. i = n
            BY <1>1, <2>2, <4>2, StartsOneSegment
          <5> QED BY <1>2, <4>1, <4>2, <5>1
        <4> QED BY <4>2, SegmentsTyped DEF Missed, Address
      <3> QED BY <3>1, <3>2
    <2> QED BY <2>1, <2>4, <2>5, FoundBelow
  <1>10. ASSUME NEW b \in a .. c.offset - 1 PROVE Found(Len(buffer), ignore, layer, b) = {}
    <2>1. c.offset = Address(layer, n)
      BY <1>2, <1>3, <1>5, <1>6, <1>10
    <2>2. b \in a .. Address(layer, n) - 1
      BY <1>10, <2>1
    <2> QED BY <1>1, <2>2, NothingFound
  <1>11. Alike(ignore, layer, c.offset, layer - 1, c.mapped, c.length)
    BY <1>9 DEF Alike
  <1> QED BY <1>6, <1>7, <1>8, <1>10, <1>11

-----------------------------------------------------------------------------
(* The invariant.  held is what the buffer has held, and size its size now. *)

\* A byte that a read may return for an address with target: null over a hole, which only pad forgives,
\* and otherwise one that the buffer, which has the address, has held there
RightByte(held, size, target, pad, byte) ==
  /\ target = {} => pad
  /\ \A t \in target : t \in 0 .. size - 1
  /\ \E b \in held :
       /\ \A t \in target : InBuffer(b, t)
       /\ byte = IF target = {} THEN Null ELSE b[(CHOOSE t \in target : TRUE) + 1]

RightBytes(held, size, layer, offset, pad, data) ==
  \A i \in 1 .. Len(data) : RightByte(held, size, Found(size, pad, layer, offset + i - 1), pad, data[i])

KeyType == Upper \X Nat \X Nat \X BOOLEAN \X BOOLEAN

\* What may be in the cache: all bytes of a read, and they are right
RightEntries(held, size) ==
  {e \in [key : KeyType, data : Seq(Nat)] :
     Len(e.data) = e.key[3] /\ RightBytes(held, size, e.key[1], e.key[2], e.key[4], e.data)}

CallType ==
  [op : {"read", "write"}, layer : Upper, offset : Nat, length : Nat, pad : BOOLEAN, before : Seq(Nat),
   key : KeyType \cup {<<>>}, at : Nat, data : Seq(Nat)]

OutcomeType ==
  [op : {"read", "write"}, layer : Layers, offset : Nat, length : Nat, pad : BOOLEAN, before : Seq(Nat),
   raised : BOOLEAN, data : Seq(Nat)]

TypeOK ==
  /\ buffer \in Seq(Nat) /\ buffer \in past /\ Len(Contents) <= Len(buffer)
  /\ writes \in 0 .. MaxWrites
  /\ stack \in Seq(CallType)
  /\ last.op = "none" \/ last \in OutcomeType

\* The part of the outer call that the inner one does, whatever the size of the buffer becomes
Shared(d, c) ==
  /\ d.layer = 2 /\ c.layer = 1 /\ d.pad = c.pad /\ d.offset <= d.at - c.length
  /\ \A size \in Nat : \A j \in 0 .. c.length - 1 :
       Found(size, d.pad, 2, d.at - c.length + j) = Found(size, d.pad, 1, c.offset + j)

InProgress(c, op) == c.op = op /\ c.offset <= c.at /\ c.at <= End(c)

Reading(held, size, c) ==
  /\ InProgress(c, "read")
  /\ c.key \in KeyType /\ c.key[1] = c.layer /\ c.key[2] = c.offset /\ c.key[3] = c.length /\ c.key[4] = c.pad
  /\ RightBytes(held, size, c.layer, c.offset, c.pad, c.data)

OneRead(held, size, c) == Reading(held, size, c) /\ Len(c.data) = c.at - c.offset
TwoReads(held, size, d, c) ==
  Reading(held, size, d) /\ OneRead(held, size, c) /\ Shared(d, c) /\ Len(d.data) = d.at - c.length - d.offset

\* The buffer after the first n bytes of a write, if they all have a place in it
Hits(call, n, a) == {i \in 1 .. n : a \in Target(call.layer, call.offset + i - 1)}
Newest(numbers) == CHOOSE i \in numbers : \A j \in numbers : j <= i
After(call, n) ==
  [k \in DOMAIN call.before |->
     IF Hits(call, n, k - 1) = {} THEN call.before[k] ELSE call.data[Newest(Hits(call, n, k - 1))]]
Fits(call, n) == \A i \in 1 .. n : \A a \in Target(call.layer, call.offset + i - 1) : InBuffer(call.before, a)
Written(b, call, n) ==
  /\ \A i \in 1 .. n : Found(Len(b), FALSE, call.layer, call.offset + i - 1) # {}
  /\ Fits(call, n) => b = After(call, n)

Writing(c) == InProgress(c, "write") /\ ~c.pad /\ Len(c.data) = c.length

OneWrite(b, c) == Writing(c) /\ Written(b, c, c.at - c.offset)
TwoWrites(b, d, c) ==
  /\ Writing(d) /\ Writing(c) /\ Shared(d, c)
  /\ \A j \in 1 .. c.length : c.data[j] = d.data[d.at - c.length - d.offset + j]
  /\ Written(b, d, d.at - c.length - d.offset + (c.at - c.offset))

StackRight ==
  stack # <<>> =>
    /\ last.op = "none"
    /\ \/ Len(stack) = 1 /\ (OneRead(past, Len(buffer), stack[1]) \/ OneWrite(buffer, stack[1]))
       \/ /\ Len(stack) = 2
          /\ TwoReads(past, Len(buffer), stack[1], stack[2]) \/ TwoWrites(buffer, stack[1], stack[2])

ReadAnswered ==
  last.op = "read" =>
    IF last.raised THEN ReadFails(last.layer, last.offset, last.length, last.pad)
    ELSE Len(last.data) = last.length /\ RightBytes(past, Len(buffer), last.layer, last.offset, last.pad, last.data)

IInv ==
  /\ TypeOK
  /\ cache \in Seq(RightEntries(past, Len(buffer)))
  /\ StackRight
  /\ ReadAnswered
  /\ WriteReachesFirstHole

\* Bytes stay right when the buffer grows.
LEMMA StaysRight ==
  ASSUME NEW held, NEW more, held \subseteq more, NEW size \in Nat, NEW larger \in Nat, size <= larger
  PROVE  /\ \A layer \in Layers : \A offset, pad, data :
              RightBytes(held, size, layer, offset, pad, data) => RightBytes(more, larger, layer, offset, pad, data)
         /\ RightEntries(held, size) \subseteq RightEntries(more, larger)
         /\ \A s \in Seq(RightEntries(held, size)) : s \in Seq(RightEntries(more, larger))
  <1>1. ASSUME NEW target, NEW pad, NEW byte, RightByte(held, size, target, pad, byte)
        PROVE  RightByte(more, larger, target, pad, byte)
    <2>1. \A t \in target : t \in 0 .. larger - 1
      BY <1>1 DEF RightByte
    <2> QED BY <1>1, <2>1 DEF RightByte
  <1>2. ASSUME NEW layer \in Layers, NEW offset, NEW pad, NEW data, RightBytes(held, size, layer, offset, pad, data)
        PROVE  RightBytes(more, larger, layer, offset, pad, data)
    <2>1. ASSUME NEW i \in 1 .. Len(data)
          PROVE  RightByte(more, larger, Found(larger, pad, layer, offset + i - 1), pad, data[i])
      <3>1. PICK a : a = offset + i - 1
        OBVIOUS
      <3>2. RightByte(held, size, Found(size, pad, layer, a), pad, data[i])
        BY <1>2, <2>1, <3>1 DEF RightBytes
      <3>3. pad \/ Found(size, pad, layer, a) # {}
        BY <3>2 DEF RightByte
      <3>4. size \in Int /\ larger \in Int
        OBVIOUS
      <3>5. Found(larger, pad, layer, a) = Found(size, pad, layer, a)
        BY <3>3, <3>4, FoundLater
      <3> QED BY <1>1, <3>1, <3>2, <3>5
    <2> QED BY <2>1 DEF RightBytes
  <1>3. RightEntries(held, size) \subseteq RightEntries(more, larger)
    <2>1. ASSUME NEW e \in RightEntries(held, size) PROVE e \in RightEntries(more, larger)
      <3>1. e.key[1] \in Layers
        BY DEF RightEntries, KeyType, Upper, Layers
      <3> QED BY <1>2, <3>1 DEF RightEntries
    <2> QED BY <2>1
  <1>4. ASSUME NEW s \in Seq(RightEntries(held, size)) PROVE s \in Seq(RightEntries(more, larger))
    BY <1>3
  <1> QED BY <1>2, <1>3, <1>4

\* Right bytes behind right bytes.
LEMMA BytesAppended ==
  ASSUME NEW held, NEW size, NEW layer, NEW offset \in Nat, NEW pad, NEW s \in Seq(Nat), NEW t \in Seq(Nat),
         RightBytes(held, size, layer, offset, pad, s),
         \A i \in 1 .. Len(t) : RightByte(held, size, Found(size, pad, layer, offset + Len(s) + i - 1), pad, t[i])
  PROVE  s \o t \in Seq(Nat) /\ Len(s \o t) = Len(s) + Len(t) /\ RightBytes(held, size, layer, offset, pad, s \o t)
  <1>1. PICK u, m : u = s \o t /\ m = Len(s)
    OBVIOUS
  <1>2. /\ u \in Seq(Nat) /\ m \in Nat /\ Len(t) \in Nat /\ Len(u) = m + Len(t)
        /\ \A i \in 1 .. m : u[i] = s[i]
        /\ \A i \in 1 .. Len(t) : u[m + i] = t[i]
    BY <1>1, ItemsOfBoth
  <1>3. ASSUME NEW i \in 1 .. Len(u) PROVE RightByte(held, size, Found(size, pad, layer, offset + i - 1), pad, u[i])
    <2>1. CASE i <= m
      <3>1. i \in 1 .. m
        BY <1>2, <1>3, <2>1
      <3> QED BY <1>1, <1>2, <3>1 DEF RightBytes
    <2>2. CASE i > m
      <3>1. PICK j \in 1 .. Len(t) : i = m + j
        <4>1. i - m \in 1 .. Len(t) /\ i = m + (i - m)
          BY SMTT(30), <1>2, <1>3, <2>2
        <4> QED BY <4>1
      <3>2. offset + m + j - 1 = offset + i - 1 /\ u[i] = t[j]
        BY <1>2, <3>1
      <3>3. RightByte(held, size, Found(size, pad, layer, offset + m + j - 1), pad, t[j])
        BY <1>1, <3>1
      <3> QED BY <3>2, <3>3
    <2> QED BY <1>2, <1>3, <2>1, <2>2
  <1>4. RightBytes(held, size, layer, offset, pad, u)
    BY <1>3 DEF RightBytes
  <1> QED BY <1>1, <1>2, <1>4

\* A gap over a hole is filled with null bytes, if pad forgives it.
LEMMA GapFilled ==
  ASSUME NEW held, NEW b \in held, NEW size, NEW layer, NEW offset \in Nat, NEW pad, NEW s \in Seq(Nat), NEW gap \in Nat,
         RightBytes(held, size, layer, offset, pad, s),
         gap > 0 => pad,
         \A a \in offset + Len(s) .. offset + Len(s) + gap - 1 : Found(size, pad, layer, a) = {}
  PROVE  /\ Filled(s, gap) \in Seq(Nat) /\ Len(Filled(s, gap)) = Len(s) + gap
         /\ RightBytes(held, size, layer, offset, pad, Filled(s, gap))
  <1>1. PICK t : t = Nulls(gap)
    OBVIOUS
  <1>2. t \in Seq(Nat) /\ Len(t) = gap /\ \A i \in 1 .. gap : t[i] = Null
    BY <1>1 DEF Nulls, Null
  <1>3. ASSUME NEW i \in 1 .. Len(t) PROVE RightByte(held, size, Found(size, pad, layer, offset + Len(s) + i - 1), pad, t[i])
    <2>1. offset + Len(s) + i - 1 \in offset + Len(s) .. offset + Len(s) + gap - 1 /\ gap > 0
      BY <1>2, <1>3
    <2>2. Found(size, pad, layer, offset + Len(s) + i - 1) = {} /\ pad
      BY <2>1
    <2> QED BY <1>2, <1>3, <2>2 DEF RightByte
  <1>4. s \o t \in Seq(Nat) /\ Len(s \o t) = Len(s) + Len(t) /\ RightBytes(held, size, layer, offset, pad, s \o t)
    BY <1>2, <1>3, BytesAppended
  <1>5. Filled(s, gap) = s \o t
    BY <1>1 DEF Filled
  <1> QED BY <1>2, <1>4, <1>5

\* Bytes that are right for what a part of a layer maps to are right for that part.
LEMMA BytesFromBelow ==
  ASSUME NEW held, NEW size, NEW layer, NEW a \in Nat, NEW below, NEW b \in Nat, NEW pad, NEW t \in Seq(Nat),
         RightBytes(held, size, below, b, pad, t),
         \A j \in 0 .. Len(t) - 1 : Found(size, pad, layer, a + j) = Found(size, pad, below, b + j)
  PROVE  \A i \in 1 .. Len(t) : RightByte(held, size, Found(size, pad, layer, a + i - 1), pad, t[i])
  <1> SUFFICES ASSUME NEW i \in 1 .. Len(t) PROVE RightByte(held, size, Found(size, pad, layer, a + i - 1), pad, t[i])
    OBVIOUS
  <1>1. i - 1 \in 0 .. Len(t) - 1 /\ a + (i - 1) = a + i - 1 /\ b + (i - 1) = b + i - 1
    OBVIOUS
  <1>2. Found(size, pad, layer, a + i - 1) = Found(size, pad, below, b + i - 1)
    BY <1>1
  <1> QED BY <1>2 DEF RightBytes

\* What is read from the buffer is right.
LEMMA BufferBytes ==
  ASSUME NEW b \in Seq(Nat), NEW held, b \in held, NEW address \in Nat, NEW length \in Nat, NEW pad,
         address + length <= Len(b)
  PROVE  /\ SubSeq(b, address + 1, address + length) \in Seq(Nat)
         /\ Len(SubSeq(b, address + 1, address + length)) = length
         /\ RightBytes(held, Len(b), 0, address, pad, SubSeq(b, address + 1, address + length))
  <1>1. PICK u : u = SubSeq(b, address + 1, address + length)
    OBVIOUS
  <1>2. u \in Seq(Nat) /\ Len(u) = length /\ \A i \in 1 .. length : u[i] = b[address + i]
    BY <1>1
  <1>3. ASSUME NEW i \in 1 .. Len(u) PROVE RightByte(held, Len(b), Found(Len(b), pad, 0, address + i - 1), pad, u[i])
    <2>1. PICK t : t = address + i - 1
      OBVIOUS
    <2>2. Found(Len(b), pad, 0, t) = {t} /\ (CHOOSE x \in {t} : TRUE) = t
      BY FoundInBuffer
    <2>3. t \in 0 .. Len(b) - 1 /\ t + 1 = address + i
      BY <1>2, <1>3, <2>1
    <2> QED BY <1>2, <1>3, <2>1, <2>2, <2>3 DEF RightByte, InBuffer
  <1> QED BY <1>1, <1>2, <1>3 DEF RightBytes

-----------------------------------------------------------------------------
(* The stack of calls *)

\* What the operators on the stack give for one call, and for two.
LEMMA StackShapes ==
  ASSUME stack \in Seq(CallType)
  PROVE  /\ Len(stack) = 1 => \E c \in CallType :
              /\ stack = <<c>> /\ stack[1] = c /\ Call = c /\ Inside = <<>> /\ Head(stack) = c
              /\ \A x, y : Append(Inside, x) = <<x>> /\ Inside \o <<x, y>> = <<x, y>>
         /\ Len(stack) = 2 => \E d, c \in CallType :
              /\ stack = <<d, c>> /\ stack[1] = d /\ stack[2] = c /\ Call = c /\ Inside = <<d>> /\ Head(stack) = d
              /\ Last(Inside) = d /\ Front(Inside) = <<>> /\ Inside # <<>>
              /\ \A x : Append(Inside, x) = <<d, x>> /\ Append(<<>>, x) = <<x>>
  <1>1. ASSUME Len(stack) = 1
        PROVE  \E c \in CallType :
              /\ stack = <<c>> /\ stack[1] = c /\ Call = c /\ Inside = <<>> /\ Head(stack) = c
              /\ \A x, y : Append(Inside, x) = <<x>> /\ Inside \o <<x, y>> = <<x, y>>
    <2>1. PICK c \in CallType : stack = <<c>>
      <3>1. stack[1] \in CallType /\ stack = <<stack[1]>>
        BY <1>1
      <3> QED BY <3>1
    <2>2. stack[1] = c /\ Call = c /\ Inside = <<>> /\ Head(stack) = c
      BY <2>1 DEF Call, Inside, Last, Front
    <2>3. \A x, y : Append(Inside, x) = <<x>> /\ Inside \o <<x, y>> = <<x, y>>
      BY <2>2
    <2> QED BY <2>1, <2>2, <2>3
  <1>2. ASSUME Len(stack) = 2
        PROVE  \E d, c \in CallType :
              /\ stack = <<d, c>> /\ stack[1] = d /\ stack[2] = c /\ Call = c /\ Inside = <<d>> /\ Head(stack) = d
              /\ Last(Inside) = d /\ Front(Inside) = <<>> /\ Inside # <<>>
              /\ \A x : Append(Inside, x) = <<d, x>> /\ Append(<<>>, x) = <<x>>
    <2>1. PICK d \in CallType, c \in CallType : stack = <<d, c>>
      <3>1. stack[1] \in CallType /\ stack[2] \in CallType /\ stack = <<stack[1], stack[2]>>
        BY <1>2
      <3> QED BY <3>1
    <2>2. stack[1] = d /\ stack[2] = c /\ Call = c /\ Inside = <<d>> /\ Head(stack) = d
      <3>1. Len(stack) = 2 /\ stack[1] = d /\ stack[2] = c /\ Head(stack) = d
        BY <2>1
      <3>2. Inside = SubSeq(stack, 1, 1)
        BY <3>1 DEF Inside, Front
      <3>3. PICK u : u = SubSeq(stack, 1, 1)
        OBVIOUS
      <3>4. u \in Seq(CallType) /\ Len(u) = 1 /\ u[1] = d
        BY <3>1, <3>3
      <3>5. u = <<d>>
        BY <3>4
      <3>6. Call = c
        BY <3>1 DEF Call, Last
      <3> QED BY <3>1, <3>2, <3>3, <3>5, <3>6
    <2>3. Last(Inside) = d /\ Front(Inside) = <<>> /\ Inside # <<>>
      BY <2>2 DEF Last, Front
    <2>4. ASSUME NEW x PROVE Append(Inside, x) = <<d, x>> /\ Append(<<>>, x) = <<x>>
      <3>1. PICK u : u = Append(<<d>>, x)
        OBVIOUS
      <3>2. Len(u) = 2 /\ u[1] = d /\ u[2] = x /\ u \in Seq({d, x})
        <4>1. <<d>> \in Seq({d, x})
          OBVIOUS
        <4> QED BY <3>1, <4>1
      <3>3. u = <<d, x>>
        BY <3>2
      <3>4. PICK v : v = Append(<<>>, x)
        OBVIOUS
      <3>5. Len(v) = 1 /\ v[1] = x /\ v \in Seq({x})
        BY <3>4
      <3>6. v = <<x>>
        BY <3>5
      <3> QED BY <2>2, <3>1, <3>3, <3>4, <3>6
    <2> QED BY <2>1, <2>2, <2>3, <2>4
  <1> QED BY <1>1, <1>2

\* Where a layer ends.
LEMMA LayersEnd ==
  ASSUME TypeOK, NEW layer \in Upper
  PROVE  LayerMaximum(layer - 1) \in Int /\ Len(buffer) \in Nat
  <1>1. Len(buffer) \in Nat
    BY DEF TypeOK
  <1>2. CASE layer = 1
    <2>1. LayerMaximum(0) = Len(buffer) - 1
      BY DEF LayerMaximum, MaximumOver
    <2> QED BY <1>1, <1>2, <2>1
  <1>3. CASE layer = 2
    <2>1. Last(Segments[1]) = Segments[1][Len(Segments[1])]
      BY DEF Last
    <2>2. LayerMaximum(1) = Address(1, Len(Segments[1])) + Length(1, Len(Segments[1])) - 1
      BY <2>1 DEF LayerMaximum, MaximumOver, Address, Length
    <2>3. Address(1, Len(Segments[1])) \in Nat /\ Length(1, Len(Segments[1])) \in Nat
      BY SegmentsTyped DEF Segs, Upper
    <2> QED BY <1>1, <1>3, <2>2, <2>3
  <1> QED BY <1>2, <1>3 DEF Upper

-----------------------------------------------------------------------------
(* Reads *)

\* One turn of a read: the next chunk is of the layer below, and what is before it is filled.
LEMMA ReadAdvances ==
  ASSUME TypeOK, NEW c \in CallType, OneRead(past, Len(buffer), c), c.at < End(c),
         NEW n, n = SegmentFor(c.layer, c.at, c.pad, End(c)), n # 0,
         NEW k, k = Chunk(c.layer, n, c.at, End(c)),
         NEW f, f = Filled(c.data, k.offset - c.at)
  PROVE  /\ k.offset \in Nat /\ k.mapped \in Nat /\ k.length \in Nat
         /\ c.at <= k.offset /\ k.offset + k.length <= End(c)
         /\ Alike(c.pad, c.layer, k.offset, c.layer - 1, k.mapped, k.length)
         /\ f \in Seq(Nat) /\ Len(f) = k.offset - c.offset
         /\ RightBytes(past, Len(buffer), c.layer, c.offset, c.pad, f)
  <1>1. PICK size, held : size = Len(buffer) /\ held = past
    OBVIOUS
  <1>2. /\ c.layer \in Upper /\ c.at \in Nat /\ c.offset \in Nat /\ c.length \in Nat /\ c.pad \in BOOLEAN /\ c.data \in Seq(Nat)
        /\ End(c) \in Nat /\ End(c) = c.offset + c.length
    BY DEF CallType, End
  <1>3. /\ c.offset <= c.at /\ c.at <= End(c) /\ Len(c.data) = c.at - c.offset
        /\ RightBytes(held, size, c.layer, c.offset, c.pad, c.data)
    BY <1>1 DEF OneRead, Reading, InProgress
  <1>4. LayerMaximum(c.layer - 1) \in Int /\ Len(buffer) \in Nat
    BY <1>2, LayersEnd
  <1>5. /\ k.offset \in Nat /\ k.mapped \in Nat /\ k.length \in Nat
        /\ c.at <= k.offset /\ k.offset + k.length <= End(c)
        /\ ~c.pad => k.offset = c.at /\ k.length > 0
        /\ Alike(c.pad, c.layer, k.offset, c.layer - 1, k.mapped, k.length)
        /\ \A b \in c.at .. k.offset - 1 : Found(size, c.pad, c.layer, b) = {}
    <2>1. PICK layer, a, pad, end : layer = c.layer /\ a = c.at /\ pad = c.pad /\ end = End(c)
      OBVIOUS
    <2>2. layer \in Upper /\ a \in Nat /\ pad \in BOOLEAN /\ end \in Nat /\ a < end /\ LayerMaximum(layer - 1) \in Int
      BY <1>2, <1>4, <2>1
    <2>3. n = SegmentFor(layer, a, pad, end) /\ k = Chunk(layer, n, a, end)
      BY <2>1
    <2>4. /\ k.offset \in Nat /\ k.mapped \in Nat /\ k.length \in Nat
          /\ a <= k.offset /\ k.offset + k.length <= end
          /\ ~pad => k.offset = a /\ k.length > 0
          /\ Alike(pad, layer, k.offset, layer - 1, k.mapped, k.length)
          /\ \A b \in a .. k.offset - 1 : Found(Len(buffer), pad, layer, b) = {}
      BY SMTT(30), <2>2, <2>3, NextChunkRight
    <2> QED BY <1>1, <2>1, <2>4
  <1>6. f \in Seq(Nat) /\ Len(f) = k.offset - c.offset /\ RightBytes(held, size, c.layer, c.offset, c.pad, f)
    <2>1. PICK gap : gap = k.offset - c.at
      OBVIOUS
    <2>2. gap \in Nat /\ (gap > 0 => c.pad)
      <3>1. gap \in Nat
        BY <1>2, <1>5, <2>1
      <3>2. ASSUME gap > 0 PROVE c.pad
        <4>1. k.offset # c.at
          BY <1>2, <1>5, <2>1, <3>2
        <4> QED BY <1>5, <4>1
      <3> QED BY <3>1, <3>2
    <2>3. buffer \in held
      BY <1>1 DEF TypeOK
    <2>4. /\ c.offset + Len(c.data) = c.at /\ c.offset + Len(c.data) + gap - 1 = k.offset - 1
          /\ Len(c.data) + gap = k.offset - c.offset
      <3>1. PICK o, z, a, p : o = c.offset /\ z = Len(c.data) /\ a = c.at /\ p = k.offset
        OBVIOUS
      <3>2. o \in Nat /\ a \in Nat /\ p \in Nat /\ o <= a /\ a <= p /\ z = a - o /\ gap = p - a
        BY <1>2, <1>3, <1>5, <2>1, <3>1
      <3>3. o + z = a /\ o + z + gap - 1 = p - 1 /\ z + gap = p - o
        BY <3>2
      <3> QED BY <3>1, <3>3
    <2>5. \A a \in c.offset + Len(c.data) .. c.offset + Len(c.data) + gap - 1 : Found(size, c.pad, c.layer, a) = {}
      BY <1>5, <2>4
    <2>6. /\ Filled(c.data, gap) \in Seq(Nat) /\ Len(Filled(c.data, gap)) = Len(c.data) + gap
          /\ RightBytes(held, size, c.layer, c.offset, c.pad, Filled(c.data, gap))
      BY <1>2, <1>3, <2>2, <2>3, <2>5, GapFilled
    <2> QED BY <2>1, <2>4, <2>6
  <1> QED BY <1>1, <1>5, <1>6

\* A read that has come to the bytes t, after f.
Reached(c, f, t) == [c EXCEPT !.at = c.offset + Len(f) + Len(t), !.data = f \o t]

\* Bytes that are right for what the chunk maps to take the read to the end of the chunk.
LEMMA BytesRead ==
  ASSUME NEW held, NEW size, NEW c \in CallType, OneRead(held, size, c),
         NEW f \in Seq(Nat), RightBytes(held, size, c.layer, c.offset, c.pad, f),
         c.at <= c.offset + Len(f),
         NEW below, below = c.layer - 1, NEW m \in Nat,
         NEW t \in Seq(Nat), RightBytes(held, size, below, m, c.pad, t),
         c.offset + Len(f) + Len(t) <= End(c),
         \A j \in 0 .. Len(t) - 1 : Found(size, c.pad, c.layer, c.offset + Len(f) + j) = Found(size, c.pad, below, m + j)
  PROVE  /\ Reached(c, f, t) \in CallType /\ OneRead(held, size, Reached(c, f, t))
         /\ Reached(c, f, t).layer = c.layer /\ Reached(c, f, t).offset = c.offset
         /\ Reached(c, f, t).length = c.length /\ Reached(c, f, t).pad = c.pad
  <1>0. PICK o, l, a : /\ o = c.offset + Len(f) /\ l = Len(t) /\ a = Reached(c, f, t)
                       /\ a = [c EXCEPT !.at = c.offset + Len(f) + Len(t), !.data = f \o t]
    BY DEF Reached
  <1>1. PICK layer, offset, pad, u : layer = c.layer /\ offset = c.offset /\ pad = c.pad /\ u = f \o t
    OBVIOUS
  <1>2. offset \in Nat /\ c.length \in Nat /\ c.at \in Nat /\ offset <= c.at /\ End(c) = offset + c.length
    BY <1>1 DEF CallType, End, OneRead, Reading, InProgress
  <1>3. offset + Len(f) = o /\ o \in Nat /\ l \in Nat /\ c.at <= o /\ o + l <= End(c)
    BY <1>0, <1>1, <1>2
  <1>4. \A i \in 1 .. Len(t) : RightByte(held, size, Found(size, pad, layer, o + i - 1), pad, t[i])
    <2>1. /\ RightBytes(held, size, below, m, pad, t)
          /\ \A j \in 0 .. Len(t) - 1 : Found(size, pad, layer, o + j) = Found(size, pad, below, m + j)
      BY <1>0, <1>1
    <2> QED BY <1>3, <2>1, BytesFromBelow
  <1>5. /\ RightBytes(held, size, layer, offset, pad, f)
        /\ \A i \in 1 .. Len(t) : RightByte(held, size, Found(size, pad, layer, offset + Len(f) + i - 1), pad, t[i])
    BY <1>1, <1>3, <1>4
  <1>6. f \o t \in Seq(Nat) /\ Len(f \o t) = Len(f) + Len(t) /\ RightBytes(held, size, layer, offset, pad, f \o t)
    BY <1>2, <1>5, BytesAppended
  <1>7. a = [c EXCEPT !.at = o + l, !.data = u] /\ u \in Seq(Nat) /\ o + l \in Nat
    BY <1>0, <1>1, <1>3, <1>6
  <1>8. /\ a \in CallType /\ a.op = c.op /\ a.layer = c.layer /\ a.offset = c.offset /\ a.length = c.length
        /\ a.pad = c.pad /\ a.key = c.key /\ a.at = o + l /\ a.data = u
    BY <1>7 DEF CallType
  <1>9. Len(u) = a.at - a.offset /\ a.offset <= a.at /\ a.at <= End(a)
    <2>1. Len(u) = (o - offset) + l
      BY <1>0, <1>1, <1>2, <1>3, <1>6
    <2>2. a.offset = offset /\ a.at = o + l /\ End(a) = offset + c.length
      BY <1>1, <1>8 DEF End
    <2> QED BY <1>2, <1>3, <2>1, <2>2
  <1>10. RightBytes(held, size, a.layer, a.offset, a.pad, a.data)
    BY <1>1, <1>6, <1>8
  <1>11. OneRead(held, size, a)
    BY <1>8, <1>9, <1>10 DEF OneRead, Reading, InProgress
  <1> QED BY <1>0, <1>8, <1>11

\* Where the mapping of a read ends, nothing is left but a hole, which is filled.
LEMMA ReadEnds ==
  ASSUME TypeOK, NEW c \in CallType, OneRead(past, Len(buffer), c),
         c.at < End(c) => SegmentFor(c.layer, c.at, c.pad, End(c)) = 0 /\ c.pad,
         NEW f, f = Filled(c.data, c.length - Len(c.data))
  PROVE  f \in Seq(Nat) /\ Len(f) = c.length /\ RightBytes(past, Len(buffer), c.layer, c.offset, c.pad, f)
  <1>1. PICK size, held, gap : size = Len(buffer) /\ held = past /\ gap = c.length - Len(c.data)
    OBVIOUS
  <1>2. /\ c.layer \in Upper /\ c.at \in Nat /\ c.offset \in Nat /\ c.length \in Nat /\ c.pad \in BOOLEAN /\ c.data \in Seq(Nat)
        /\ End(c) \in Nat /\ End(c) = c.offset + c.length
    BY DEF CallType, End
  <1>3. /\ c.offset <= c.at /\ c.at <= End(c) /\ Len(c.data) = c.at - c.offset
        /\ RightBytes(held, size, c.layer, c.offset, c.pad, c.data)
    BY <1>1 DEF OneRead, Reading, InProgress
  <1>4. /\ gap \in Nat /\ (gap > 0 => c.at < End(c)) /\ c.offset + Len(c.data) = c.at
        /\ c.offset + Len(c.data) + gap - 1 = End(c) - 1 /\ Len(c.data) + gap = c.length
    <2>1. PICK a, o, m, z : a = c.at /\ o = c.offset /\ m = c.length /\ z = Len(c.data)
      OBVIOUS
    <2>2. /\ a \in Nat /\ o \in Nat /\ m \in Nat /\ o <= a /\ a <= o + m /\ z = a - o /\ End(c) = o + m /\ gap = m - z
      BY <1>1, <1>2, <1>3, <2>1
    <2>3. gap \in Nat /\ (gap > 0 => a < o + m) /\ o + z = a /\ o + z + gap - 1 = o + m - 1 /\ z + gap = m
      BY <2>2
    <2> QED BY <2>1, <2>2, <2>3
  <1>5. \A a \in c.at .. End(c) - 1 : Found(size, c.pad, c.layer, a) = {}
    <2>1. CASE c.at < End(c)
      <3>1. LayerMaximum(c.layer - 1) \in Int
        BY <1>2, LayersEnd
      <3>2. PICK n : n = SegmentFor(c.layer, c.at, c.pad, End(c))
        OBVIOUS
      <3>3. n = 0 /\ c.pad
        BY <2>1, <3>2
      <3>4. \A a \in c.at .. End(c) - 1 : MapsTo(c.layer, a) = {}
        BY <1>2, <2>1, <3>1, <3>2, <3>3, SegmentFound
      <3> QED BY <1>2, <3>4, NothingFound
    <2>2. CASE ~(c.at < End(c))
      BY <1>2, <2>2
    <2> QED BY <2>1, <2>2
  <1>6. buffer \in held
    BY <1>1 DEF TypeOK
  <1>7. gap > 0 => c.pad
    BY <1>4
  <1>8. \A a \in c.offset + Len(c.data) .. c.offset + Len(c.data) + gap - 1 : Found(size, c.pad, c.layer, a) = {}
    BY <1>4, <1>5
  <1>9. /\ Filled(c.data, gap) \in Seq(Nat) /\ Len(Filled(c.data, gap)) = Len(c.data) + gap
        /\ RightBytes(held, size, c.layer, c.offset, c.pad, Filled(c.data, gap))
    BY <1>2, <1>3, <1>4, <1>6, <1>7, <1>8, GapFilled
  <1> QED BY <1>1, <1>4, <1>9

\* A step that changes neither the buffer nor what a caller was told leaves the invariant, if the reads in
\* progress and the cache are right.
LEMMA ReadGoesOn ==
  ASSUME IInv, UNCHANGED <<buffer, past, writes>>, last'.op = "none",
         cache' \in Seq(RightEntries(past, Len(buffer))),
         \/ stack' = <<>>
         \/ \E c \in CallType : stack' = <<c>> /\ OneRead(past, Len(buffer), c)
         \/ \E d, c \in CallType : stack' = <<d, c>> /\ TwoReads(past, Len(buffer), d, c)
  PROVE  IInv'
  <1>1. TypeOK' /\ StackRight'
    <2>1. CASE stack' = <<>>
      <3>1. <<>> \in Seq(CallType)
        OBVIOUS
      <3> QED BY <2>1, <3>1 DEF IInv, TypeOK, StackRight
    <2>2. ASSUME NEW c \in CallType, stack' = <<c>>, OneRead(past, Len(buffer), c)
          PROVE  TypeOK' /\ StackRight'
      <3>1. stack' \in Seq(CallType) /\ Len(stack') = 1 /\ stack'[1] = c
        BY <2>2
      <3>2. StackRight'
        BY <2>2, <3>1 DEF StackRight
      <3> QED BY <3>1, <3>2 DEF IInv, TypeOK
    <2>3. ASSUME NEW d \in CallType, NEW c \in CallType, stack' = <<d, c>>, TwoReads(past, Len(buffer), d, c)
          PROVE  TypeOK' /\ StackRight'
      <3>1. stack' \in Seq(CallType) /\ Len(stack') = 2 /\ stack'[1] = d /\ stack'[2] = c
        BY <2>3
      <3>2. StackRight'
        BY <2>3, <3>1 DEF StackRight
      <3> QED BY <3>1, <3>2 DEF IInv, TypeOK
    <2> QED BY <2>1, <2>2, <2>3
  <1>2. ReadAnswered'
    BY DEF ReadAnswered
  <1>3. WriteReachesFirstHole'
    BY DEF WriteReachesFirstHole
  <1>4. (cache \in Seq(RightEntries(past, Len(buffer))))'
    OBVIOUS
  <1> QED BY <1>1, <1>2, <1>3, <1>4 DEF IInv

\* So does an answer that is right.
LEMMA ReadAnswers ==
  ASSUME IInv, UNCHANGED <<buffer, past, writes>>, stack' = <<>>,
         cache' \in Seq(RightEntries(past, Len(buffer))),
         NEW o \in OutcomeType, last' = o, o.op = "read",
         IF o.raised THEN ReadFails(o.layer, o.offset, o.length, o.pad)
         ELSE Len(o.data) = o.length /\ RightBytes(past, Len(buffer), o.layer, o.offset, o.pad, o.data)
  PROVE  IInv'
  <1>1. TypeOK' /\ StackRight'
    <2>1. <<>> \in Seq(CallType)
      OBVIOUS
    <2> QED BY <2>1 DEF IInv, TypeOK, StackRight
  <1>2. ReadAnswered'
    <2>1. CASE o.raised
      BY <2>1 DEF ReadAnswered, ReadFails
    <2>2. CASE ~o.raised
      BY <2>2 DEF ReadAnswered
    <2> QED BY <2>1, <2>2
  <1>3. WriteReachesFirstHole'
    BY DEF WriteReachesFirstHole
  <1>4. (cache \in Seq(RightEntries(past, Len(buffer))))'
    OBVIOUS
  <1> QED BY <1>1, <1>2, <1>3, <1>4 DEF IInv

\* What is found in the cache is right, and using it leaves it so.
LEMMA CacheHit ==
  ASSUME NEW held, NEW size, NEW c \in Seq(RightEntries(held, size)), NEW key, Cached(c, key)
  PROVE  /\ Entry(c, key) \in RightEntries(held, size) /\ Entry(c, key).key = key
         /\ Touch(c, key) \in Seq(RightEntries(held, size))
  <1>1. PICK i : i = CHOOSE j \in DOMAIN c : c[j].key = key
    OBVIOUS
  <1>2. i \in DOMAIN c /\ c[i].key = key
    BY <1>1 DEF Cached
  <1>3. PICK E : E = RightEntries(held, size)
    OBVIOUS
  <1>4. c[i] \in E /\ i \in 1 .. Len(c) /\ Len(c) \in Nat
    BY <1>2, <1>3
  <1>5. SubSeq(c, 1, i - 1) \in Seq(E) /\ SubSeq(c, i + 1, Len(c)) \in Seq(E)
    BY <1>3, <1>4
  <1>6. RemoveAt(c, i) \in Seq(E)
    BY <1>5 DEF RemoveAt
  <1>7. Append(RemoveAt(c, i), c[i]) \in Seq(E)
    BY <1>4, <1>6
  <1>8. Touch(c, key) = Append(RemoveAt(c, i), c[i]) /\ Entry(c, key) = c[i]
    BY <1>1 DEF Touch, Entry
  <1> QED BY <1>2, <1>3, <1>4, <1>7, <1>8

\* What is remembered of a read that is right is right, and something may be pushed out for it.
LEMMA CacheMiss ==
  ASSUME NEW held, NEW size, NEW c \in Seq(RightEntries(held, size)), NEW key \in KeyType, NEW data \in Seq(Nat),
         Len(data) = key[3], RightBytes(held, size, key[1], key[2], key[4], data)
  PROVE  Remember(c, key, data) \in Seq(RightEntries(held, size))
  <1>1. PICK E, e : E = RightEntries(held, size) /\ e = [key |-> key, data |-> data]
    OBVIOUS
  <1>2. e \in E
    BY <1>1 DEF RightEntries
  <1>3. c \in Seq(E) /\ (Len(c) >= CacheSize => c # <<>>)
    BY <1>1, CallsAssumption
  <1>4. (IF Len(c) >= CacheSize THEN Tail(c) ELSE c) \in Seq(E)
    BY <1>3
  <1>5. Append(IF Len(c) >= CacheSize THEN Tail(c) ELSE c, e) \in Seq(E)
    BY <1>2, <1>4
  <1> QED BY <1>1, <1>5 DEF Remember

\* In a call of a kind, the calls in progress are of this kind.
LEMMA ReadsInProgress ==
  ASSUME IInv, InCall("read")
  PROVE  /\ last.op = "none"
         /\ \/ \E c \in CallType :
                 /\ Call = c /\ Inside = <<>> /\ Head(stack) = c /\ OneRead(past, Len(buffer), c)
                 /\ \A x, y : Append(Inside, x) = <<x>> /\ Inside \o <<x, y>> = <<x, y>>
            \/ \E d, c \in CallType :
                 /\ Call = c /\ Inside = <<d>> /\ Inside # <<>> /\ Head(stack) = d /\ Last(Inside) = d
                 /\ TwoReads(past, Len(buffer), d, c)
                 /\ \A x : Append(Inside, x) = <<d, x>> /\ Append(Front(Inside), x) = <<x>>
  <1>1. stack \in Seq(CallType) /\ stack # <<>> /\ Call.op = "read" /\ StackRight
    BY DEF IInv, TypeOK, InCall
  <1>2. CASE Len(stack) = 1
    <2>1. PICK c \in CallType :
              /\ stack = <<c>> /\ stack[1] = c /\ Call = c /\ Inside = <<>> /\ Head(stack) = c
              /\ \A x, y : Append(Inside, x) = <<x>> /\ Inside \o <<x, y>> = <<x, y>>
      BY <1>1, <1>2, StackShapes
    <2>2. last.op = "none" /\ (OneRead(past, Len(buffer), c) \/ OneWrite(buffer, c))
      BY <1>1, <1>2, <2>1 DEF StackRight
    <2>3. ~OneWrite(buffer, c)
      BY <1>1, <2>1 DEF OneWrite, Writing, InProgress
    <2> QED BY <2>1, <2>2, <2>3
  <1>3. CASE Len(stack) = 2
    <2>1. PICK d \in CallType, c \in CallType :
              /\ stack = <<d, c>> /\ stack[1] = d /\ stack[2] = c /\ Call = c /\ Inside = <<d>> /\ Head(stack) = d
              /\ Last(Inside) = d /\ Front(Inside) = <<>> /\ Inside # <<>>
              /\ \A x : Append(Inside, x) = <<d, x>> /\ Append(<<>>, x) = <<x>>
      BY <1>1, <1>3, StackShapes
    <2>2. last.op = "none" /\ (TwoReads(past, Len(buffer), d, c) \/ TwoWrites(buffer, d, c))
      BY <1>1, <1>3, <2>1 DEF StackRight
    <2>3. ~TwoWrites(buffer, d, c)
      BY <1>1, <2>1 DEF TwoWrites, Writing, InProgress
    <2>4. \A x : Append(Inside, x) = <<d, x>> /\ Append(Front(Inside), x) = <<x>>
      BY <2>1
    <2>5. Call = c /\ Inside = <<d>> /\ Inside # <<>> /\ Head(stack) = d /\ Last(Inside) = d
      BY <2>1
    <2> QED BY <2>2, <2>3, <2>4, <2>5
  <1> QED BY <1>1, <1>2, <1>3 DEF StackRight

\* A read that begins has nothing to be wrong about.
LEMMA ReadBegins ==
  ASSUME NEW held, NEW size, NEW layer \in Upper, NEW offset \in Nat, NEW length \in Nat, NEW pad \in BOOLEAN,
         NEW viaContainer \in BOOLEAN
  PROVE  LET c == ReadCall(layer, offset, length, pad, viaContainer)
         IN /\ c \in CallType /\ c.layer = layer /\ c.offset = offset /\ c.length = length /\ c.pad = pad /\ c.op = "read"
            /\ c.before = <<>> /\ c.key \in KeyType
            /\ c.key[1] = layer /\ c.key[2] = offset /\ c.key[3] = length /\ c.key[4] = pad
            /\ OneRead(held, size, c)
  <1>0. PICK c : c = ReadCall(layer, offset, length, pad, viaContainer)
    OBVIOUS
  <1>1. PICK key : key = <<layer, offset, length, pad, viaContainer>>
    OBVIOUS
  <1>2. key \in KeyType /\ key[1] = layer /\ key[2] = offset /\ key[3] = length /\ key[4] = pad
    BY <1>1 DEF KeyType
  <1>3. c = [op |-> "read", layer |-> layer, offset |-> offset, length |-> length, pad |-> pad, before |-> <<>>,
             key |-> key, at |-> offset, data |-> <<>>]
    BY <1>0, <1>1 DEF ReadCall, Key
  <1>4. <<>> \in Seq(Nat) /\ Len(<<>>) = 0
    OBVIOUS
  <1>5. c \in CallType
    BY <1>2, <1>3, <1>4 DEF CallType
  <1>6. /\ c.op = "read" /\ c.layer = layer /\ c.offset = offset /\ c.length = length /\ c.pad = pad /\ c.before = <<>>
        /\ c.key = key /\ c.at = offset /\ c.data = <<>>
    BY <1>3
  <1>7. End(c) = offset + length
    BY <1>6 DEF End
  <1>8. InProgress(c, "read") /\ Len(c.data) = c.at - c.offset
    BY <1>4, <1>6, <1>7 DEF InProgress
  <1>9. RightBytes(held, size, c.layer, c.offset, c.pad, c.data)
    BY <1>4, <1>6 DEF RightBytes
  <1>10. OneRead(held, size, c)
    BY <1>2, <1>6, <1>8, <1>9 DEF OneRead, Reading
  <1> QED BY <1>0, <1>1, <1>2, <1>5, <1>6, <1>10

\* A turn of a read's loop.
LEMMA ReadChunkStep ==
  ASSUME IInv, ReadChunk
  PROVE  IInv'
  <1>1. InCall("read") /\ Unfinished /\ CurrentSegment # 0 /\ UNCHANGED <<buffer, writes, past, last>>
    BY DEF ReadChunk
  <1>0. PICK size, held : size = Len(buffer) /\ held = past
    OBVIOUS
  <1>2. PICK c \in CallType :
          /\ Call = c /\ size = Len(buffer) /\ held = past /\ OneRead(held, size, c) /\ last.op = "none"
          /\ \/ /\ Inside = <<>>
                /\ \A x, y : Append(Inside, x) = <<x>> /\ Inside \o <<x, y>> = <<x, y>>
             \/ \E d \in CallType :
                 /\ TwoReads(held, size, d, c)
                 /\ \A x : Append(Inside, x) = <<d, x>>
    <2>1. TwoReads(past, Len(buffer), Head(stack), Call) => OneRead(past, Len(buffer), Call)
      BY DEF TwoReads
    <2> QED BY <1>0, <1>1, <2>1, ReadsInProgress
  <1>3. TypeOK /\ cache \in Seq(RightEntries(held, size)) /\ buffer \in Seq(Nat) /\ buffer \in held /\ size \in Nat
    BY <1>2 DEF IInv, TypeOK
  <1>4. PICK n, k, f : /\ n = SegmentFor(c.layer, c.at, c.pad, End(c)) /\ k = Chunk(c.layer, n, c.at, End(c))
                       /\ f = Filled(c.data, k.offset - c.at)
    OBVIOUS
  <1>5. /\ c.at < End(c) /\ n # 0 /\ NextChunk = k
        /\ CurrentSegment = n /\ Filled(Call.data, NextChunk.offset - Call.at) = f
    BY <1>1, <1>2, <1>4 DEF Unfinished, CurrentSegment, NextChunk
  <1>6. /\ k.offset \in Nat /\ k.mapped \in Nat /\ k.length \in Nat
        /\ c.at <= k.offset /\ k.offset + k.length <= End(c)
        /\ Alike(c.pad, c.layer, k.offset, c.layer - 1, k.mapped, k.length)
        /\ f \in Seq(Nat) /\ Len(f) = k.offset - c.offset
        /\ RightBytes(held, size, c.layer, c.offset, c.pad, f)
    <2>1. OneRead(past, Len(buffer), c)
      BY <1>2
    <2>2. /\ k.offset \in Nat /\ k.mapped \in Nat /\ k.length \in Nat
          /\ c.at <= k.offset /\ k.offset + k.length <= End(c)
          /\ Alike(c.pad, c.layer, k.offset, c.layer - 1, k.mapped, k.length)
          /\ f \in Seq(Nat) /\ Len(f) = k.offset - c.offset
          /\ RightBytes(past, Len(buffer), c.layer, c.offset, c.pad, f)
      BY <1>3, <1>4, <1>5, <2>1, ReadAdvances
    <2> QED BY <1>2, <2>2
  <1>6a. k.offset \in Nat /\ k.mapped \in Nat /\ k.length \in Nat /\ c.at <= k.offset /\ k.offset + k.length <= End(c)
    BY <1>6
  <1>6b. f \in Seq(Nat) /\ Len(f) = k.offset - c.offset /\ RightBytes(held, size, c.layer, c.offset, c.pad, f)
    BY <1>6
  <1>6c. /\ c.offset \in Nat /\ c.at \in Nat /\ c.offset <= c.at /\ c.length \in Nat /\ c.layer \in Upper
         /\ c.offset <= k.offset
    <2>1. c.offset \in Nat /\ c.at \in Nat /\ c.length \in Nat /\ c.layer \in Upper
      BY DEF CallType
    <2>2. c.offset <= c.at
      BY <1>2 DEF OneRead, Reading, InProgress
    <2> QED BY <1>6a, <2>1, <2>2
  <1>7. PICK below : below = ReadCall(c.layer - 1, k.mapped, k.length, c.pad, TRUE)
    OBVIOUS
  <1>8. /\ below.op = "read" /\ below.layer = c.layer - 1 /\ below.offset = k.mapped /\ below.length = k.length
        /\ below.pad = c.pad /\ below.before = <<>> /\ below.at = k.mapped /\ below.data = <<>>
        /\ below.key = <<c.layer - 1, k.mapped, k.length, c.pad, TRUE>>
    BY <1>7 DEF ReadCall, Key
  <1>9. ASSUME NEW t \in Seq(Nat), Len(t) = k.length, RightBytes(held, size, c.layer - 1, k.mapped, c.pad, t),
               stack' = Append(Inside, Advanced(k, f \o t)), cache' \in Seq(RightEntries(held, size))
        PROVE  IInv'
    <2>1. PICK a : a = [c EXCEPT !.at = k.offset + k.length, !.data = f \o t]
      OBVIOUS
    <2>2. /\ a \in CallType /\ OneRead(held, size, a)
          /\ a.layer = c.layer /\ a.offset = c.offset /\ a.length = c.length /\ a.pad = c.pad
      <3>1. PICK m, below2 : m = k.mapped /\ below2 = c.layer - 1
        OBVIOUS
      <3>2. c.offset + Len(f) = k.offset /\ c.offset + Len(f) + Len(t) = k.offset + k.length
        BY <1>6a, <1>6b, <1>6c, <1>9
      <3>3. /\ OneRead(held, size, c) /\ RightBytes(held, size, c.layer, c.offset, c.pad, f) /\ f \in Seq(Nat)
            /\ m \in Nat /\ RightBytes(held, size, below2, m, c.pad, t)
            /\ c.at <= c.offset + Len(f) /\ c.offset + Len(f) + Len(t) <= End(c)
            /\ \A j \in 0 .. Len(t) - 1 :
                 Found(size, c.pad, c.layer, c.offset + Len(f) + j) = Found(size, c.pad, below2, m + j)
        BY <1>2, <1>3, <1>6, <1>9, <3>1, <3>2 DEF Alike
      <3>4. a = [c EXCEPT !.at = c.offset + Len(f) + Len(t), !.data = f \o t]
        BY <2>1, <3>2
      <3>5. a = Reached(c, f, t)
        BY <3>4 DEF Reached
      <3> QED BY <3>1, <3>3, <3>5, BytesRead, SMTT(60)
    <2>3. Advanced(k, f \o t) = a
      BY <1>2, <2>1 DEF Advanced
    <2>4. CASE Inside = <<>> /\ \A x, y : Append(Inside, x) = <<x>> /\ Inside \o <<x, y>> = <<x, y>>
      <3>1. stack' = <<a>>
        BY <1>9, <2>3, <2>4
      <3> QED BY <1>1, <1>2, <1>9, <2>2, <3>1, ReadGoesOn
    <2>5. ASSUME NEW d \in CallType, TwoReads(held, size, d, c), \A x : Append(Inside, x) = <<d, x>>
          PROVE  IInv'
      <3>1. stack' = <<d, a>>
        BY <1>9, <2>3, <2>5
      <3>3. TwoReads(held, size, d, a)
        BY <2>2, <2>5 DEF TwoReads, Shared
      <3> QED BY <1>1, <1>2, <1>9, <2>2, <3>1, <3>3, ReadGoesOn
    <2> QED BY <1>2, <2>4, <2>5
  <1>10. CASE k.length = 0 /\ stack' = Append(Inside, Advanced(k, f)) /\ UNCHANGED cache
    <2>1. <<>> \in Seq(Nat) /\ Len(<<>>) = 0 /\ f \o <<>> = f
      BY <1>6b
    <2>2. RightBytes(held, size, c.layer - 1, k.mapped, c.pad, <<>>)
      BY <2>1 DEF RightBytes
    <2> QED BY <1>3, <1>9, <1>10, <2>1, <2>2
  <1>11. CASE /\ k.length > 0 /\ below.layer = 0 /\ BufferValid(below.offset, below.length)
              /\ stack' = Append(Inside, Advanced(k, f \o BufferRead(below.offset, below.length)))
              /\ UNCHANGED cache
    <2>1. PICK t : t = SubSeq(buffer, k.mapped + 1, k.mapped + k.length)
      OBVIOUS
    <2>2. BufferRead(below.offset, below.length) = t
      BY <1>8, <2>1 DEF BufferRead
    <2>3. k.mapped + k.length <= size
      BY SMTT(30), <1>2, <1>3, <1>6a, <1>8, <1>11 DEF BufferValid
    <2>4. t \in Seq(Nat) /\ Len(t) = k.length /\ RightBytes(held, size, 0, k.mapped, c.pad, t)
      <3>1. PICK pad, address, length : pad = c.pad /\ address = k.mapped /\ length = k.length
        OBVIOUS
      <3>2. address \in Nat /\ length \in Nat /\ address + length <= Len(buffer)
        BY <1>2, <1>6a, <2>3, <3>1
      <3>3. /\ t = SubSeq(buffer, address + 1, address + length) /\ buffer \in held /\ buffer \in Seq(Nat)
            /\ size = Len(buffer)
        BY <1>2, <1>3, <2>1, <3>1
      <3>4. t \in Seq(Nat) /\ Len(t) = length /\ RightBytes(held, Len(buffer), 0, address, pad, t)
        BY <3>2, <3>3, BufferBytes
      <3> QED BY <3>1, <3>3, <3>4
    <2>5. c.layer - 1 = 0
      BY <1>8, <1>11
    <2> QED BY <1>3, <1>9, <1>11, <2>2, <2>4, <2>5
  <1>12. CASE /\ k.length > 0 /\ below.layer > 0 /\ Cached(cache, below.key)
              /\ stack' = Append(Inside, Advanced(k, f \o Entry(cache, below.key).data))
              /\ cache' = Touch(cache, below.key)
    <2>1. PICK e : e = Entry(cache, below.key)
      OBVIOUS
    <2>2. e \in RightEntries(held, size) /\ e.key = below.key /\ cache' \in Seq(RightEntries(held, size))
      BY <1>3, <1>12, <2>1, CacheHit
    <2>3. e.data \in Seq(Nat) /\ Len(e.data) = k.length /\ RightBytes(held, size, c.layer - 1, k.mapped, c.pad, e.data)
      BY <1>8, <2>2 DEF RightEntries
    <2> QED BY <1>9, <1>12, <2>1, <2>2, <2>3
  <1>13. CASE /\ k.length > 0 /\ below.layer > 0 /\ ~Cached(cache, below.key)
              /\ stack' = Inside \o <<Advanced(k, f), below>>
              /\ UNCHANGED cache
    <2>1. c.layer = 2 /\ below.layer = 1
      BY <1>8, <1>13 DEF CallType, Upper
    <2>2. \A x, y : Inside \o <<x, y>> = <<x, y>>
      <3>1. \A d \in CallType : ~TwoReads(held, size, d, c)
        BY <2>1 DEF TwoReads, Shared
      <3> QED BY <1>2, <3>1
    <2>3. PICK a : a = [c EXCEPT !.at = k.offset + k.length, !.data = f]
      OBVIOUS
    <2>4. stack' = <<a, below>>
      BY <1>2, <1>13, <2>2, <2>3 DEF Advanced
    <2>5. k.offset + k.length \in Nat
      BY <1>6a
    <2>6. /\ a \in CallType /\ a.op = c.op /\ a.layer = c.layer /\ a.offset = c.offset /\ a.length = c.length
          /\ a.pad = c.pad /\ a.key = c.key /\ a.at = k.offset + k.length /\ a.data = f
      BY <1>6b, <2>3, <2>5 DEF CallType
    <2>7. c.layer - 1 \in Upper /\ c.pad \in BOOLEAN /\ TRUE \in BOOLEAN
      BY <2>1 DEF CallType, Upper
    <2>8. below \in CallType /\ OneRead(held, size, below)
      <3>1. PICK layer, o, l, pad, via : layer = c.layer - 1 /\ o = k.mapped /\ l = k.length /\ pad = c.pad /\ via = TRUE
        OBVIOUS
      <3>2. /\ layer \in Upper /\ o \in Nat /\ l \in Nat /\ pad \in BOOLEAN /\ via \in BOOLEAN
            /\ below = ReadCall(layer, o, l, pad, via)
        BY <1>6a, <1>7, <2>7, <3>1
      <3> QED BY <3>2, ReadBegins
    <2>10. Reading(held, size, a)
      <3>1. c.offset \in Nat /\ c.at \in Nat /\ c.offset <= c.at /\ End(a) = End(c)
        BY <1>2, <2>6 DEF CallType, OneRead, Reading, InProgress, End
      <3>2. a.offset <= a.at /\ a.at <= End(a)
        BY <1>6a, <1>6c, <2>6, <3>1
      <3> QED BY <1>2, <1>6b, <2>6, <3>2 DEF OneRead, Reading, InProgress
    <2>11. Shared(a, below) /\ Len(f) = a.at - below.length - a.offset
      <3>1. a.at - below.length = k.offset
        BY <1>6a, <1>8, <2>6
      <3>3. c.offset <= k.offset
        BY <1>6c
      <3>4. \A s \in Nat : \A j \in 0 .. k.length - 1 :
              Found(s, c.pad, 2, k.offset + j) = Found(s, c.pad, 1, k.mapped + j)
        BY <1>6, <2>1 DEF Alike
      <3>5. Len(f) = k.offset - c.offset
        BY <1>6
      <3> QED BY <1>8, <2>1, <2>6, <3>1, <3>3, <3>4, <3>5 DEF Shared
    <2>12. TwoReads(held, size, a, below)
      BY <2>6, <2>8, <2>10, <2>11 DEF TwoReads
    <2> QED BY <1>1, <1>2, <1>3, <1>13, <2>4, <2>6, <2>8, <2>12, ReadGoesOn
  <1>14. \/ /\ k.length = 0
            /\ stack' = Append(Inside, Advanced(k, f))
            /\ UNCHANGED cache
         \/ /\ k.length > 0 /\ below.layer = 0 /\ BufferValid(below.offset, below.length)
            /\ stack' = Append(Inside, Advanced(k, f \o BufferRead(below.offset, below.length)))
            /\ UNCHANGED cache
         \/ /\ k.length > 0 /\ below.layer > 0 /\ Cached(cache, below.key)
            /\ stack' = Append(Inside, Advanced(k, f \o Entry(cache, below.key).data))
            /\ cache' = Touch(cache, below.key)
         \/ /\ k.length > 0 /\ below.layer > 0 /\ ~Cached(cache, below.key)
            /\ stack' = Inside \o <<Advanced(k, f), below>>
            /\ UNCHANGED cache
    BY <1>2, <1>5, <1>7 DEF ReadChunk
  <1> QED BY <1>10, <1>11, <1>12, <1>13, <1>14

\* A read returns, to its caller or to the read that waits for it.
LEMMA ReadReturnsStep ==
  ASSUME IInv, ReadReturns
  PROVE  IInv'
  <1>0. PICK size, held : size = Len(buffer) /\ held = past
    OBVIOUS
  <1>1. InCall("read") /\ UNCHANGED <<buffer, writes, past>> /\ (Unfinished => CurrentSegment = 0 /\ Call.pad)
    BY DEF ReadReturns
  <1>2. TypeOK /\ cache \in Seq(RightEntries(held, size)) /\ buffer \in Seq(Nat) /\ buffer \in held /\ size \in Nat
    BY <1>0 DEF IInv, TypeOK
  <1>3. ASSUME NEW c \in CallType, Call = c, OneRead(past, Len(buffer), c)
        PROVE  \E data \in Seq(Nat) :
                 /\ data = Filled(c.data, c.length - Len(c.data)) /\ Len(data) = c.length
                 /\ RightBytes(held, size, c.layer, c.offset, c.pad, data)
                 /\ cache' = Remember(cache, c.key, data) /\ cache' \in Seq(RightEntries(held, size))
    <2>1. PICK data : data = Filled(c.data, c.length - Len(c.data))
      OBVIOUS
    <2>2. c.at < End(c) => SegmentFor(c.layer, c.at, c.pad, End(c)) = 0 /\ c.pad
      BY <1>1, <1>3 DEF Unfinished, CurrentSegment
    <2>3. data \in Seq(Nat) /\ Len(data) = c.length /\ RightBytes(past, Len(buffer), c.layer, c.offset, c.pad, data)
      BY <1>2, <1>3, <2>1, <2>2, ReadEnds
    <2>4. cache' = Remember(cache, c.key, data)
      BY <1>3, <2>1 DEF ReadReturns
    <2>5. /\ c.key \in KeyType /\ Len(data) = c.key[3]
          /\ RightBytes(held, size, c.key[1], c.key[2], c.key[4], data)
      BY <1>0, <1>3, <2>3 DEF OneRead, Reading
    <2>6. Remember(cache, c.key, data) \in Seq(RightEntries(held, size))
      BY <1>2, <2>3, <2>5, CacheMiss
    <2> QED BY <1>0, <2>1, <2>3, <2>4, <2>6
  <1>4. CASE \E c \in CallType : Call = c /\ Inside = <<>> /\ OneRead(past, Len(buffer), c)
    <2>1. PICK c \in CallType : Call = c /\ Inside = <<>> /\ OneRead(past, Len(buffer), c)
      BY <1>4
    <2>2. PICK data \in Seq(Nat) :
                 /\ data = Filled(c.data, c.length - Len(c.data)) /\ Len(data) = c.length
                 /\ RightBytes(held, size, c.layer, c.offset, c.pad, data)
                 /\ cache' \in Seq(RightEntries(held, size))
      BY <1>3, <2>1
    <2>3. PICK o : o = Outcome(c, FALSE, data)
      OBVIOUS
    <2>4. stack' = <<>> /\ last' = o
      BY <2>1, <2>2, <2>3 DEF ReadReturns
    <2>5. /\ o \in OutcomeType /\ o.op = "read" /\ ~o.raised /\ o.layer = c.layer /\ o.offset = c.offset
          /\ o.length = c.length /\ o.pad = c.pad /\ o.data = data
      <3>1. c.op = "read" /\ c.layer \in Layers /\ FALSE \in BOOLEAN
        BY <2>1 DEF OneRead, Reading, InProgress, CallType, Upper, Layers
      <3> QED BY <2>3, <3>1 DEF Outcome, OutcomeType, CallType
    <2>6. RightBytes(past, Len(buffer), o.layer, o.offset, o.pad, o.data) /\ Len(o.data) = o.length
      BY <1>0, <2>2, <2>5
    <2> QED BY <1>0, <1>1, <2>2, <2>4, <2>5, <2>6, ReadAnswers
  <1>5. CASE \E d, c \in CallType :
               /\ Call = c /\ Inside # <<>> /\ Last(Inside) = d /\ TwoReads(past, Len(buffer), d, c)
               /\ \A x : Append(Front(Inside), x) = <<x>>
    <2>1. PICK d \in CallType, c \in CallType :
               /\ Call = c /\ Inside # <<>> /\ Last(Inside) = d /\ TwoReads(past, Len(buffer), d, c)
               /\ \A x : Append(Front(Inside), x) = <<x>>
      BY <1>5
    <2>2. /\ Reading(held, size, d) /\ OneRead(past, Len(buffer), c) /\ Shared(d, c)
          /\ Len(d.data) = d.at - c.length - d.offset
      BY <1>0, <2>1 DEF TwoReads
    <2>3. PICK data \in Seq(Nat) :
                 /\ data = Filled(c.data, c.length - Len(c.data)) /\ Len(data) = c.length
                 /\ RightBytes(held, size, c.layer, c.offset, c.pad, data)
                 /\ cache' \in Seq(RightEntries(held, size))
      BY <1>3, <2>1, <2>2
    <2>4. PICK a : a = [d EXCEPT !.data = d.data \o data]
      OBVIOUS
    <2>5. stack' = <<a>> /\ last' = last
      BY <2>1, <2>3, <2>4 DEF ReadReturns
    <2>6. PICK layer, o, pad, s, at, l : layer = d.layer /\ o = d.offset /\ pad = d.pad /\ s = d.data /\ at = d.at /\ l = c.length
      OBVIOUS
    <2>7. /\ layer \in Upper /\ o \in Nat /\ s \in Seq(Nat) /\ at \in Nat /\ l \in Nat /\ Len(s) = at - l - o
          /\ RightBytes(held, size, layer, o, pad, s) /\ o <= at /\ at <= End(d)
      BY <2>2, <2>6 DEF CallType, Reading, InProgress
    <2>8. \A i \in 1 .. Len(data) : RightByte(held, size, Found(size, pad, layer, o + Len(s) + i - 1), pad, data[i])
      <3>1. PICK b, p, below : b = c.offset /\ p = at - l /\ below = c.layer
        OBVIOUS
      <3>2. p = o + Len(s) /\ p \in Nat
        BY <2>7, <3>1
      <3>3. /\ b \in Nat /\ pad = c.pad
            /\ \A j \in 0 .. Len(data) - 1 : Found(size, pad, layer, p + j) = Found(size, pad, below, b + j)
        <4>1. b \in Nat /\ pad = c.pad /\ layer = 2 /\ below = 1 /\ Len(data) = l
          BY <2>2, <2>3, <2>6, <3>1 DEF Shared, CallType
        <4>2. \A z \in Nat : \A j \in 0 .. l - 1 : Found(z, pad, 2, p + j) = Found(z, pad, 1, b + j)
          BY <2>2, <2>6, <3>1 DEF Shared
        <4>3. size \in Nat
          BY <1>2
        <4> QED BY <4>1, <4>2, <4>3
      <3>4. RightBytes(held, size, below, b, pad, data)
        BY <2>3, <3>1, <3>3
      <3>5. \A i \in 1 .. Len(data) : RightByte(held, size, Found(size, pad, layer, p + i - 1), pad, data[i])
        BY <3>2, <3>3, <3>4, BytesFromBelow
      <3> QED BY <3>2, <3>5
    <2>9. s \o data \in Seq(Nat) /\ Len(s \o data) = Len(s) + Len(data) /\ RightBytes(held, size, layer, o, pad, s \o data)
      BY <2>7, <2>8, BytesAppended
    <2>10. /\ a \in CallType /\ a.op = d.op /\ a.layer = d.layer /\ a.offset = d.offset /\ a.length = d.length
           /\ a.pad = d.pad /\ a.key = d.key /\ a.at = d.at /\ a.data = s \o data
      BY <2>4, <2>6, <2>9 DEF CallType
    <2>11. Len(s \o data) = at - o
      <3>1. Len(data) = l /\ l \in Nat /\ at \in Nat /\ o \in Nat /\ Len(s) = at - l - o
        BY <2>3, <2>6, <2>7
      <3>2. (at - l - o) + l = at - o
        BY <3>1
      <3> QED BY <2>9, <3>1, <3>2
    <2>12. OneRead(held, size, a)
      <3>1. End(a) = End(d)
        BY <2>10 DEF End
      <3> QED BY <2>2, <2>6, <2>9, <2>10, <2>11, <3>1 DEF OneRead, Reading, InProgress
    <2>13. last.op = "none"
      BY <1>1, ReadsInProgress
    <2> QED BY <1>0, <1>1, <2>3, <2>5, <2>10, <2>12, <2>13, ReadGoesOn
  <1> QED BY <1>1, <1>4, <1>5, ReadsInProgress

\* An address that a read must not get past: nothing found that is not forgiven, or one that the buffer has not
FailsAt(layer, a, pad) == \/ Found(Len(buffer), pad, layer, a) = {} /\ ~pad
                          \/ \E t \in Found(Len(buffer), pad, layer, a) : ~InBuffer(buffer, t)

\* A read that raises has met such an address.
LEMMA ReadMeets ==
  ASSUME TypeOK, NEW c \in CallType, OneRead(past, Len(buffer), c), c.at < End(c),
         NEW n, n = SegmentFor(c.layer, c.at, c.pad, End(c)),
         NEW k, k = Chunk(c.layer, n, c.at, End(c)),
         IF n = 0 THEN ~c.pad ELSE c.layer = 1 /\ k.length > 0 /\ ~BufferValid(k.mapped, k.length)
  PROVE  \E a \in c.offset .. End(c) - 1 : FailsAt(c.layer, a, c.pad)
  <1>1. /\ c.layer \in Upper /\ c.at \in Nat /\ c.offset \in Nat /\ c.length \in Nat /\ c.pad \in BOOLEAN
        /\ End(c) \in Nat /\ c.offset <= c.at
    BY DEF CallType, End, OneRead, Reading, InProgress
  <1>2. LayerMaximum(c.layer - 1) \in Int /\ Len(buffer) \in Nat
    BY <1>1, LayersEnd
  <1>3. PICK layer, a, pad, end : layer = c.layer /\ a = c.at /\ pad = c.pad /\ end = End(c)
    OBVIOUS
  <1>4. /\ layer \in Upper /\ a \in Nat /\ pad \in BOOLEAN /\ end \in Nat /\ a < end
        /\ LayerMaximum(layer - 1) \in Int
        /\ n = SegmentFor(layer, a, pad, end) /\ k = Chunk(layer, n, a, end)
    BY <1>1, <1>2, <1>3
  <1>5. CASE n = 0
    <2>1. ~pad
      BY <1>3, <1>5
    <2>2. MapsTo(layer, a) = {} \/ Missed(Len(buffer), layer, a)
      BY <1>4, <1>5, <2>1, SegmentFound
    <2>3. FailsAt(layer, a, pad)
      BY <1>4, <2>1, <2>2, NothingFound DEF FailsAt
    <2>4. a \in c.offset .. end - 1
      BY <1>1, <1>3, <1>4
    <2> QED BY <1>3, <2>3, <2>4
  <1>6. CASE n # 0
    <2>1. layer = 1 /\ k.length > 0 /\ ~BufferValid(k.mapped, k.length)
      BY <1>3, <1>6
    <2>2. /\ k.offset \in Nat /\ k.mapped \in Nat /\ k.length \in Nat
          /\ a <= k.offset /\ k.offset + k.length <= end
          /\ Alike(pad, layer, k.offset, layer - 1, k.mapped, k.length)
      BY <1>4, <1>6, NextChunkRight
    <2>3. Len(buffer) \in Nat
      BY DEF TypeOK
    <2>4. PICK j \in 0 .. k.length - 1 : ~(k.mapped + j \in 0 .. Len(buffer) - 1)
      <3>1. 0 \in 0 .. k.length - 1 /\ k.length - 1 \in 0 .. k.length - 1
        BY <2>1, <2>2
      <3>2. ~(k.mapped + 0 \in 0 .. Len(buffer) - 1) \/ ~(k.mapped + (k.length - 1) \in 0 .. Len(buffer) - 1)
        BY <2>1, <2>2, <2>3 DEF BufferValid
      <3> QED BY <3>1, <3>2
    <2>5. PICK x : x = k.offset + j
      OBVIOUS
    <2>6. Found(Len(buffer), pad, layer, x) = {k.mapped + j}
      <3>1. Found(Len(buffer), pad, 0, k.mapped + j) = {k.mapped + j}
        BY FoundInBuffer
      <3>2. Found(Len(buffer), pad, layer, x) = Found(Len(buffer), pad, layer - 1, k.mapped + j)
        BY <2>2, <2>3, <2>5 DEF Alike
      <3> QED BY <2>1, <3>1, <3>2
    <2>7. FailsAt(layer, x, pad)
      BY <2>4, <2>6 DEF FailsAt, InBuffer
    <2>8. x \in c.offset .. end - 1
      <3>1. PICK o, p, l : o = c.offset /\ p = k.offset /\ l = k.length
        OBVIOUS
      <3>2. o \in Nat /\ p \in Nat /\ l \in Nat /\ o <= a /\ a <= p /\ a \in Nat /\ p + l <= end /\ x = p + j /\ end \in Nat
            /\ j \in 0 .. l - 1
        BY <1>1, <1>3, <1>4, <2>2, <2>5, <3>1
      <3>3. x \in o .. end - 1
        BY <3>2
      <3> QED BY <3>1, <3>3
    <2> QED BY <1>3, <2>7, <2>8
  <1> QED BY <1>5, <1>6

\* A read raises.
LEMMA ReadRaisesStep ==
  ASSUME IInv, ReadRaises
  PROVE  IInv'
  <1>1. InCall("read") /\ UNCHANGED <<buffer, cache, writes, past>> /\ stack' = <<>> /\ Unfinished
    BY DEF ReadRaises
  <1>2. TypeOK /\ cache' \in Seq(RightEntries(past, Len(buffer)))
    BY <1>1 DEF IInv
  <1>3. ASSUME NEW c \in CallType, Call = c, OneRead(past, Len(buffer), c)
        PROVE  \E a \in c.offset .. End(c) - 1 : FailsAt(c.layer, a, c.pad)
    <2>1. PICK n : n = SegmentFor(c.layer, c.at, c.pad, End(c))
      OBVIOUS
    <2>2. PICK k : k = Chunk(c.layer, n, c.at, End(c))
      OBVIOUS
    <2>3. CurrentSegment = n /\ NextChunk = k /\ c.at < End(c)
      BY <1>1, <1>3, <2>1, <2>2 DEF CurrentSegment, NextChunk, Unfinished
    <2>4. IF n = 0 THEN ~c.pad ELSE c.layer = 1 /\ k.length > 0 /\ ~BufferValid(k.mapped, k.length)
      BY <1>3, <2>3 DEF ReadRaises
    <2> QED BY <1>2, <1>3, <2>1, <2>2, <2>3, <2>4, ReadMeets
  <1>4. PICK h \in CallType : /\ Head(stack) = h /\ h.op = "read"
                              /\ \E a \in h.offset .. End(h) - 1 : FailsAt(h.layer, a, h.pad)
    <2>1. CASE \E c \in CallType : Call = c /\ Head(stack) = c /\ OneRead(past, Len(buffer), c)
      BY <1>3, <2>1 DEF OneRead, Reading, InProgress
    <2>2. CASE \E d, c \in CallType : Call = c /\ Head(stack) = d /\ TwoReads(past, Len(buffer), d, c)
      <3>1. PICK d \in CallType, c \in CallType : Call = c /\ Head(stack) = d /\ TwoReads(past, Len(buffer), d, c)
        BY <2>2
      <3>2. OneRead(past, Len(buffer), c) /\ Shared(d, c) /\ d.op = "read" /\ d.at <= End(d)
        BY <3>1 DEF TwoReads, Reading, InProgress
      <3>3. PICK a \in c.offset .. End(c) - 1 : FailsAt(c.layer, a, c.pad)
        BY <1>3, <3>1, <3>2
      <3>4. PICK o, at, l, j, z : o = c.offset /\ at = d.at /\ l = c.length /\ j = a - c.offset /\ z = d.offset
        OBVIOUS
      <3>5. o \in Nat /\ at \in Nat /\ l \in Nat /\ z \in Nat /\ End(c) = o + l /\ z <= at - l /\ End(d) \in Nat
        <4>1. o \in Nat /\ at \in Nat /\ l \in Nat /\ z \in Nat
          BY <3>4 DEF CallType
        <4>2. End(c) = o + l /\ End(d) \in Nat
          <5>1. d.offset \in Nat /\ d.length \in Nat
            BY DEF CallType
          <5> QED BY <3>4, <5>1 DEF End
        <4>3. z <= at - l
          BY <3>2, <3>4 DEF Shared
        <4> QED BY <4>1, <4>2, <4>3
      <3>6. j \in 0 .. l - 1 /\ o + j = a /\ at - l + j \in z .. End(d) - 1
        <4>1. PICK e : e = End(d)
          OBVIOUS
        <4>2. a \in o .. o + l - 1 /\ j = a - o /\ at <= e /\ e \in Nat
          BY <3>2, <3>3, <3>4, <3>5, <4>1
        <4>3. j \in 0 .. l - 1 /\ o + j = a /\ at - l + j \in z .. e - 1
          BY <3>5, <4>2
        <4> QED BY <4>1, <4>3
      <3>7. /\ Found(Len(buffer), d.pad, 2, at - l + j) = Found(Len(buffer), d.pad, 1, o + j)
            /\ d.layer = 2 /\ c.layer = 1 /\ d.pad = c.pad
        BY <1>2, <3>2, <3>4, <3>6 DEF Shared, TypeOK
      <3>8. FailsAt(d.layer, at - l + j, d.pad)
        BY <3>3, <3>6, <3>7 DEF FailsAt
      <3> QED BY <3>1, <3>2, <3>4, <3>6, <3>8
    <2> QED BY <1>1, <2>1, <2>2, ReadsInProgress
  <1>5. PICK o : o = Outcome(h, TRUE, <<>>)
    OBVIOUS
  <1>6. last' = o
    BY <1>4, <1>5 DEF ReadRaises
  <1>7. /\ o \in OutcomeType /\ o.op = "read" /\ o.raised /\ o.layer = h.layer /\ o.offset = h.offset
        /\ o.length = h.length /\ o.pad = h.pad
    <2>1. h.layer \in Layers /\ TRUE \in BOOLEAN /\ <<>> \in Seq(Nat)
      BY DEF CallType, Upper, Layers
    <2> QED BY <1>4, <1>5, <2>1 DEF Outcome, OutcomeType, CallType
  <1>8. ReadFails(o.layer, o.offset, o.length, o.pad)
    <2>1. PICK a \in h.offset .. End(h) - 1 : FailsAt(h.layer, a, h.pad)
      BY <1>4
    <2>2. h.offset .. End(h) - 1 = o.offset .. o.offset + o.length - 1
      BY <1>7 DEF End, CallType
    <2> QED BY <1>7, <2>1, <2>2 DEF ReadFails, FailsAt
  <1> QED BY <1>1, <1>2, <1>6, <1>7, <1>8, ReadAnswers

\* A call of read from outside.
LEMMA ReadStep ==
  ASSUME IInv, NEW layer \in Layers, NEW offset \in Nat, NEW length \in Nat \ {0}, NEW pad \in BOOLEAN,
         NEW viaContainer \in BOOLEAN, Read(layer, offset, length, pad, viaContainer)
  PROVE  IInv'
  <1>0. PICK size, held : size = Len(buffer) /\ held = past
    OBVIOUS
  <1>1. PICK call : call = ReadCall(layer, offset, length, pad, viaContainer)
    OBVIOUS
  <1>2. UNCHANGED <<buffer, writes, past>> /\ stack = <<>>
    BY DEF Read
  <1>3. /\ cache \in Seq(RightEntries(held, size)) /\ buffer \in Seq(Nat) /\ buffer \in held /\ size \in Nat
        /\ TypeOK
    BY <1>0 DEF IInv, TypeOK
  <1>4. ASSUME NEW raised \in BOOLEAN, NEW data \in Seq(Nat), last' = Outcome(call, raised, data), UNCHANGED stack,
               cache' \in Seq(RightEntries(held, size)),
               raised => ReadFails(layer, offset, length, pad),
               ~raised => Len(data) = length /\ RightBytes(held, size, layer, offset, pad, data)
        PROVE  IInv'
    <2>1. PICK o : o = Outcome(call, raised, data)
      OBVIOUS
    <2>2. o = [op |-> "read", layer |-> layer, offset |-> offset, length |-> length, pad |-> pad,
               before |-> <<>>, raised |-> raised, data |-> data]
      BY <1>1, <2>1 DEF Outcome, ReadCall
    <2>3. <<>> \in Seq(Nat)
      OBVIOUS
    <2>4. o \in OutcomeType
      BY <2>2, <2>3 DEF OutcomeType
    <2>5. /\ o.op = "read" /\ o.layer = layer /\ o.offset = offset /\ o.length = length /\ o.pad = pad
          /\ o.raised = raised /\ o.data = data
      BY <2>2
    <2>6. IF o.raised THEN ReadFails(o.layer, o.offset, o.length, o.pad)
          ELSE Len(o.data) = o.length /\ RightBytes(past, Len(buffer), o.layer, o.offset, o.pad, o.data)
      <3>1. CASE raised
        BY <1>4, <2>5, <3>1
      <3>2. CASE ~raised
        BY <1>0, <1>4, <2>5, <3>2
      <3> QED BY <3>1, <3>2
    <2> QED BY <1>0, <1>2, <1>4, <2>1, <2>4, <2>5, <2>6, ReadAnswers
  <1>5. CASE layer = 0
    <2>1. cache' \in Seq(RightEntries(held, size)) /\ TRUE \in BOOLEAN /\ FALSE \in BOOLEAN /\ <<>> \in Seq(Nat)
      BY <1>3, <1>5 DEF Read
    <2>2. CASE BufferValid(offset, length)
      <3>1. PICK data : data = SubSeq(buffer, offset + 1, offset + length)
        OBVIOUS
      <3>2. last' = Outcome(call, FALSE, data) /\ UNCHANGED stack
        BY <1>1, <1>5, <2>2, <3>1 DEF Read, Answer, BufferRead
      <3>3. offset + length <= Len(buffer)
        BY <1>0, <1>3, <2>2 DEF BufferValid
      <3>4. data \in Seq(Nat) /\ Len(data) = length /\ RightBytes(held, Len(buffer), 0, offset, pad, data)
        BY <1>3, <3>1, <3>3, BufferBytes
      <3> QED BY <1>0, <1>4, <1>5, <2>1, <3>2, <3>4
    <2>3. CASE ~BufferValid(offset, length)
      <3>1. last' = Outcome(call, TRUE, <<>>) /\ UNCHANGED stack
        BY <1>1, <1>5, <2>3 DEF Read, Answer
      <3>2. PICK a \in offset .. offset + length - 1 : ~InBuffer(buffer, a)
        <4>1. offset \in offset .. offset + length - 1 /\ offset + length - 1 \in offset .. offset + length - 1
          OBVIOUS
        <4>2. ~InBuffer(buffer, offset) \/ ~InBuffer(buffer, offset + length - 1)
          BY <2>3 DEF BufferValid, InBuffer
        <4> QED BY <4>1, <4>2
      <3>3. Found(Len(buffer), pad, 0, a) = {a}
        BY FoundInBuffer
      <3>4. ReadFails(layer, offset, length, pad)
        BY <1>5, <3>2, <3>3 DEF ReadFails
      <3> QED BY <1>4, <2>1, <3>1, <3>4
    <2> QED BY <2>2, <2>3
  <1>6. CASE layer # 0
    <2>1. layer \in Upper /\ length \in Nat
      BY <1>6 DEF Layers, Upper
    <2>2. /\ call \in CallType /\ call.key \in KeyType
          /\ call.key[1] = layer /\ call.key[2] = offset /\ call.key[3] = length /\ call.key[4] = pad
          /\ OneRead(held, size, call)
      BY <1>1, <2>1, ReadBegins DEF ReadCall
    <2>3. CASE Cached(cache, call.key)
      <3>1. PICK e : e = Entry(cache, call.key)
        OBVIOUS
      <3>2. e \in RightEntries(held, size) /\ e.key = call.key /\ Touch(cache, call.key) \in Seq(RightEntries(held, size))
        BY <1>3, <2>3, <3>1, CacheHit
      <3>3. last' = Outcome(call, FALSE, e.data) /\ UNCHANGED stack /\ cache' = Touch(cache, call.key)
        BY <1>1, <1>6, <2>3, <3>1 DEF Read, Answer
      <3>4. e.data \in Seq(Nat) /\ Len(e.data) = length /\ RightBytes(held, size, layer, offset, pad, e.data)
        BY <2>2, <3>2 DEF RightEntries
      <3>5. FALSE \in BOOLEAN
        OBVIOUS
      <3> QED BY <1>4, <3>2, <3>3, <3>4, <3>5
    <2>4. CASE ~Cached(cache, call.key)
      <3>1. stack' = <<call>> /\ last'.op = "none" /\ cache' = cache
        BY <1>1, <1>6, <2>4 DEF Read
      <3> QED BY <1>0, <1>2, <1>3, <2>2, <3>1, ReadGoesOn
    <2> QED BY <2>3, <2>4
  <1> QED BY <1>5, <1>6
-----------------------------------------------------------------------------
(* Writes *)

\* What two sequences of bytes make together.
LEMMA BytesJoined ==
  ASSUME NEW s \in Seq(Nat), NEW t \in Seq(Nat)
  PROVE  /\ s \o t \in Seq(Nat) /\ Len(s \o t) = Len(s) + Len(t) /\ Len(s) \in Nat /\ Len(t) \in Nat
         /\ \A i \in 1 .. Len(s) : (s \o t)[i] = s[i]
         /\ \A i \in 1 .. Len(t) : (s \o t)[Len(s) + i] = t[i]
  <1>1. PICK u : u = s \o t
    OBVIOUS
  <1>2. /\ u \in Seq(Nat) /\ Len(u) = Len(s) + Len(t) /\ Len(s) \in Nat /\ Len(t) \in Nat
        /\ \A i \in 1 .. Len(s) : u[i] = s[i]
        /\ \A i \in 1 .. Len(t) : u[Len(s) + i] = t[i]
    BY <1>1, ItemsOfBoth
  <1> QED BY <1>1, <1>2

\* The first bytes of a sequence, and the last ones.
LEMMA BytesFirst ==
  ASSUME NEW s \in Seq(Nat), NEW n \in 0 .. Len(s), NEW u, u = SubSeq(s, 1, n)
  PROVE  u \in Seq(Nat) /\ Len(u) = n /\ \A i \in 1 .. n : u[i] = s[i]
  BY SMTT(30)

LEMMA BytesBetween ==
  ASSUME NEW s \in Seq(Nat), NEW n \in 0 .. Len(s), NEW e \in n .. Len(s), NEW u, u = SubSeq(s, n + 1, e)
  PROVE  u \in Seq(Nat) /\ Len(u) = e - n /\ \A i \in 1 .. Len(u) : u[i] = s[n + i]
  BY SMTT(30)

LEMMA BytesLast ==
  ASSUME NEW s \in Seq(Nat), NEW n \in 0 .. Len(s), NEW u, u = SubSeq(s, n + 1, Len(s))
  PROVE  u \in Seq(Nat) /\ Len(u) = Len(s) - n /\ \A i \in 1 .. Len(u) : u[i] = s[n + i]
  <1>1. PICK e : e = Len(s) /\ e \in n .. Len(s)
    OBVIOUS
  <1>2. u = SubSeq(s, n + 1, e)
    BY <1>1
  <1>3. u \in Seq(Nat) /\ Len(u) = e - n /\ \A i \in 1 .. Len(u) : u[i] = s[n + i]
    BY <1>1, <1>2, BytesBetween
  <1> QED BY <1>1, <1>3

\* What a write to the buffer leaves: the data at the address, if there is place for it.
LEMMA BufferWritten ==
  ASSUME NEW b \in Seq(Nat), NEW address \in Nat, NEW part \in Seq(Nat)
  PROVE  /\ BufferWrite(b, address, part) \in Seq(Nat) /\ Len(b) <= Len(BufferWrite(b, address, part))
         /\ address + Len(part) <= Len(b) =>
              /\ Len(BufferWrite(b, address, part)) = Len(b)
              /\ \A k \in 1 .. Len(b) :
                   BufferWrite(b, address, part)[k] =
                     IF address < k /\ k <= address + Len(part) THEN part[k - address] ELSE b[k]
  <1>0. PICK w, x, y, z, size, l, start :
          /\ size = Len(b) /\ l = Len(part) /\ start = Minimum(address, size)
          /\ x = SubSeq(b, 1, start) /\ y = x \o part /\ z = SubSeq(b, address + l + 1, size)
          /\ w = y \o z /\ w = BufferWrite(b, address, part)
    BY DEF BufferWrite
  <1>1. size = Len(b) /\ l = Len(part) /\ start = Minimum(address, size)
    BY <1>0
  <1>2. /\ size \in Nat /\ l \in Nat /\ start \in Nat /\ start <= size /\ start <= address
        /\ start = size \/ start = address
    BY <1>1 DEF Minimum
  <1>3. x = SubSeq(b, 1, start) /\ y = x \o part /\ w = y \o z /\ w = BufferWrite(b, address, part)
    BY <1>0
  <1>4. x \in Seq(Nat) /\ Len(x) = start /\ \A k \in 1 .. start : x[k] = b[k]
    <2>1. start \in 0 .. Len(b)
      BY <1>1, <1>2
    <2>2. x = SubSeq(b, 1, start)
      BY <1>3
    <2> QED BY <2>1, <2>2, BytesFirst
  <1>5. /\ z \in Seq(Nat) /\ Len(z) \in Nat /\ Len(z) = IF address + l <= size THEN size - (address + l) ELSE 0
        /\ \A k \in 1 .. Len(z) : z[k] = b[address + l + k]
    <2>1. z = SubSeq(b, address + l + 1, size)
      BY <1>0
    <2>2. CASE address + l <= size
      <3>1. PICK v : v = address + l
        OBVIOUS
      <3>2. v \in 0 .. Len(b) /\ z = SubSeq(b, v + 1, Len(b))
        BY <1>1, <1>2, <2>1, <2>2, <3>1
      <3>3. z \in Seq(Nat) /\ Len(z) = Len(b) - v /\ \A k \in 1 .. Len(z) : z[k] = b[v + k]
        BY <3>2, BytesLast
      <3>4. \A k \in 1 .. Len(z) : z[k] = b[address + l + k]
        BY <3>1, <3>3
      <3>5. Len(z) = size - (address + l) /\ Len(z) \in Nat
        BY <1>1, <3>1, <3>2, <3>3
      <3> QED BY <2>2, <3>3, <3>4, <3>5
    <2>3. CASE ~(address + l <= size)
      <3>1. z = <<>>
        BY <1>1, <1>2, <2>1, <2>3
      <3> QED BY <2>3, <3>1
    <2> QED BY <2>2, <2>3
  <1>8. y \in Seq(Nat) /\ Len(y) = start + l /\ (\A k \in 1 .. start : y[k] = x[k]) /\ (\A k \in 1 .. l : y[start + k] = part[k])
    <2>1. y = x \o part /\ Len(part) = l
      BY <1>1, <1>3
    <2>2. x \in Seq(Nat) /\ Len(x) = start
      BY <1>4
    <2> QED BY <2>1, <2>2, BytesJoined
  <1>9. /\ w \in Seq(Nat) /\ Len(w) = start + l + Len(z)
        /\ \A k \in 1 .. start + l : w[k] = y[k]
        /\ \A k \in 1 .. Len(z) : w[start + l + k] = z[k]
    <2>1. w = y \o z
      BY <1>3
    <2>2. PICK a : a = start + l
      OBVIOUS
    <2>3. y \in Seq(Nat) /\ z \in Seq(Nat) /\ Len(y) = a
      BY <1>5, <1>8, <2>2
    <2>4. /\ w \in Seq(Nat) /\ Len(w) = a + Len(z)
          /\ \A k \in 1 .. a : w[k] = y[k]
          /\ \A k \in 1 .. Len(z) : w[a + k] = z[k]
      BY ZenonT(40), <2>1, <2>3, BytesJoined
    <2> QED BY <2>2, <2>4
  <1>10. size <= start + l + Len(z)
    BY <1>2, <1>5
  <1>11. ASSUME address + l <= size
         PROVE  /\ Len(w) = size
                /\ \A k \in 1 .. size : w[k] = IF address < k /\ k <= address + l THEN part[k - address] ELSE b[k]
    <2>1. start = address /\ Len(z) = size - (address + l)
      BY <1>2, <1>5, <1>11
    <2>2. Len(w) = size
      BY <1>2, <1>9, <2>1
    <2>3. ASSUME NEW k \in 1 .. size
          PROVE  w[k] = IF address < k /\ k <= address + l THEN part[k - address] ELSE b[k]
      <3>1. CASE k <= address
        <4>1. k \in 1 .. start /\ k \in 1 .. start + l
          BY <1>2, <2>1, <2>3, <3>1
        <4> QED BY SMTT(30), <1>4, <1>8, <1>9, <3>1, <4>1
      <3>2. CASE address < k /\ k <= address + l
        <4>1. PICK j : j = k - address
          OBVIOUS
        <4>2. j \in 1 .. l /\ k = start + j /\ k \in 1 .. start + l
          BY <1>2, <2>1, <2>3, <3>2, <4>1
        <4> QED BY <1>8, <1>9, <3>2, <4>1, <4>2
      <3>3. CASE address + l < k
        <4>1. PICK j : j = k - (address + l)
          OBVIOUS
        <4>2. j \in 1 .. Len(z) /\ k = start + l + j /\ k = address + l + j
          BY <1>2, <2>1, <2>3, <3>3, <4>1
        <4>3. w[k] = b[k]
          BY <1>5, <1>9, <4>2
        <4> QED BY <1>2, <2>3, <3>3, <4>3
      <3> QED BY <1>2, <2>3, <3>1, <3>2, <3>3
    <2> QED BY <2>2, <2>3
  <1> QED BY <1>1, <1>3, <1>9, <1>10, <1>11

\* The newest of some numbers is the largest.
LEMMA NewestIsLargest ==
  ASSUME NEW S \in SUBSET Int, NEW i \in S, \A j \in S : j <= i
  PROVE  Newest(S) = i
  <1>1. \A k \in S : (\A j \in S : j <= k) => k = i
    OBVIOUS
  <1> QED BY <1>1 DEF Newest

\* A write that has not begun has written nothing.
LEMMA NothingWritten ==
  ASSUME NEW call, call.before \in Seq(Nat)
  PROVE  Written(call.before, call, 0)
  <1>1. \A a : Hits(call, 0, a) = {}
    BY DEF Hits
  <1>2. After(call, 0) = [k \in DOMAIN call.before |-> call.before[k]]
    BY <1>1 DEF After
  <1>3. call.before = [k \in DOMAIN call.before |-> call.before[k]]
    OBVIOUS
  <1> QED BY <1>2, <1>3 DEF Written

\* A write writes the next part of its data to where the next addresses map to.
LEMMA WriteExtends ==
  ASSUME NEW call, call.layer \in Layers, call.offset \in Nat, call.before \in Seq(Nat), call.data \in Seq(Nat),
         NEW b \in Seq(Nat), NEW n \in Nat, Written(b, call, n),
         NEW part \in Seq(Nat), NEW address \in Nat, n + Len(part) <= Len(call.data),
         \A j \in 1 .. Len(part) : part[j] = call.data[n + j],
         \A j \in 0 .. Len(part) - 1 : Found(Len(b), FALSE, call.layer, call.offset + n + j) = {address + j},
         Len(part) > 0
  PROVE  Written(BufferWrite(b, address, part), call, n + Len(part))
  <1>1. PICK m, w, o, B : m = Len(part) /\ w = BufferWrite(b, address, part) /\ o = call.offset /\ B = call.before
    OBVIOUS
  <1>2. m \in Nat /\ m > 0 /\ o \in Nat /\ B \in Seq(Nat) /\ DOMAIN B = 1 .. Len(B) /\ Len(B) \in Nat
    BY <1>1
  <1> DEFINE at(i) == Target(call.layer, o + i - 1)
             found(c, i) == Found(Len(c), FALSE, call.layer, o + i - 1)
  <1>0. w \in Seq(Nat) /\ Len(b) <= Len(w)
    BY <1>1, BufferWritten
  <1>00. ASSUME NEW i, found(b, i) # {} PROVE found(b, i) = at(i) /\ found(w, i) = at(i)
    <2>1. PICK size, larger, x : size = Len(b) /\ larger = Len(w) /\ x = o + i - 1
      OBVIOUS
    <2>2. size \in Int /\ larger \in Int /\ size <= larger
      BY <1>0, <2>1
    <2>3. Found(size, FALSE, call.layer, x) # {}
      BY <1>00, <2>1
    <2>4. PICK layer, pad : layer \in Layers /\ layer = call.layer /\ pad = FALSE
      OBVIOUS
    <2>5. Found(size, pad, layer, x) # {}
      BY <2>3, <2>4
    <2>6. Found(size, pad, layer, x) = Target(layer, x) /\ Found(larger, pad, layer, x) = Target(layer, x)
      BY <2>2, <2>4, <2>5, FoundLater
    <2> QED BY <2>1, <2>4, <2>6
  <1>3. \A i \in 1 .. n : found(b, i) # {}
    BY <1>1 DEF Written
  <1>4. ASSUME NEW j \in 1 .. m PROVE found(b, n + j) = {address + j - 1} /\ at(n + j) = {address + j - 1}
    <2>1. j - 1 \in 0 .. Len(part) - 1 /\ o + (n + j) - 1 = o + n + (j - 1) /\ address + j - 1 = address + (j - 1)
      BY <1>1, <1>2, <1>4
    <2>2. Found(Len(b), FALSE, call.layer, o + n + (j - 1)) = {address + (j - 1)}
      BY <1>1, <2>1
    <2>3. found(b, n + j) = {address + j - 1}
      BY <2>1, <2>2
    <2> QED BY <1>00, <2>3
  <1>5. ASSUME NEW i \in 1 .. n + m, i > n PROVE \E j \in 1 .. m : i = n + j
    <2>1. i - n \in 1 .. m /\ i = n + (i - n)
      BY <1>2, <1>5
    <2> QED BY <2>1
  <1>6. ASSUME NEW i \in 1 .. n + m PROVE found(b, i) # {}
    <2>1. CASE i <= n
      <3>1. i \in 1 .. n
        BY <1>6, <2>1
      <3> QED BY <1>3, <3>1
    <2>2. CASE i > n
      <3>1. PICK j \in 1 .. m : i = n + j
        BY <1>5, <1>6, <2>2
      <3>2. found(b, n + j) = {address + j - 1}
        BY <1>4
      <3>3. found(b, n + j) # {}
        BY <3>2
      <3> HIDE DEF found
      <3> QED BY <3>1, <3>3
    <2>3. i <= n \/ i > n
      BY <1>2, <1>6
    <2> HIDE DEF found
    <2> QED BY Zenon, <2>1, <2>2, <2>3
  <1>7. ASSUME Fits(call, n + m) PROVE w = After(call, n + m)
    <2>1. \A i \in 1 .. n + m : \A a \in at(i) : a \in 0 .. Len(B) - 1
      BY <1>1, <1>7 DEF Fits, InBuffer
    <2>2. Fits(call, n)
      <3>1. \A i \in 1 .. n : i \in 1 .. n + m
        BY <1>2
      <3> QED BY <1>7, <3>1 DEF Fits
    <2>3. b = After(call, n)
      BY <2>2 DEF Written
    <2>4. DOMAIN b = 1 .. Len(B)
      BY <1>1, <1>2, <2>3 DEF After
    <2>5. Len(b) = Len(B)
      BY <1>2, <2>4
    <2>6. address + m <= Len(b)
      <3>1. m \in 1 .. m /\ n + m \in 1 .. n + m
        BY <1>2
      <3>2. address + m - 1 \in at(n + m)
        BY <1>4, <3>1
      <3>3. address + m - 1 \in 0 .. Len(B) - 1
        BY <2>1, <3>1, <3>2
      <3> QED BY <1>2, <2>5, <3>3
    <2>7. /\ w \in Seq(Nat) /\ Len(w) = Len(B)
          /\ \A k \in 1 .. Len(B) : w[k] = IF address < k /\ k <= address + m THEN part[k - address] ELSE b[k]
      <3>1. address + Len(part) <= Len(b)
        BY <1>1, <2>6
      <3>2. /\ BufferWrite(b, address, part) \in Seq(Nat) /\ Len(BufferWrite(b, address, part)) = Len(b)
            /\ \A k \in 1 .. Len(b) :
                 BufferWrite(b, address, part)[k] =
                   IF address < k /\ k <= address + Len(part) THEN part[k - address] ELSE b[k]
        BY ZenonT(40), <3>1, BufferWritten
      <3> QED BY <1>1, <2>5, <3>2
    <2>9. ASSUME NEW k \in 1 .. Len(B)
          PROVE  w[k] = IF Hits(call, n + m, k - 1) = {} THEN B[k] ELSE call.data[Newest(Hits(call, n + m, k - 1))]
      <3>0. PICK H, G : H = Hits(call, n + m, k - 1) /\ G = Hits(call, n, k - 1)
        OBVIOUS
      <3>1. H = {i \in 1 .. n + m : k - 1 \in at(i)} /\ G = {i \in 1 .. n : k - 1 \in at(i)}
        BY <1>1, <3>0 DEF Hits
      <3>2. CASE address < k /\ k <= address + m
        <4>1. PICK j : j = k - address
          OBVIOUS
        <4>2. j \in 1 .. m /\ k = address + j /\ k - 1 = address + j - 1 /\ n + j \in 1 .. n + m
          <5>1. address \in Nat /\ n \in Nat /\ m \in Nat /\ k \in Int
            BY <1>2, <2>9
          <5> QED BY <3>2, <4>1, <5>1
        <4>3. n + j \in H
          BY <1>4, <3>1, <4>2
        <4>4. ASSUME NEW i \in H PROVE i <= n + j
          <5>1. i \in 1 .. n + m /\ k - 1 \in at(i)
            BY <3>1, <4>4
          <5>2. CASE i > n
            <6>1. PICK g \in 1 .. m : i = n + g
              BY <1>5, <5>1, <5>2
            <6>2. k - 1 \in {address + g - 1}
              BY <1>4, <5>1, <6>1
            <6>3. g = j
              BY <4>2, <6>1, <6>2
            <6> QED BY <4>2, <6>1, <6>3
          <5> QED BY <4>2, <5>1, <5>2
        <4>5. H \in SUBSET Int
          BY <3>1
        <4>6. Newest(H) = n + j
          BY <4>3, <4>4, <4>5, NewestIsLargest
        <4>7. w[k] = part[j] /\ part[j] = call.data[n + j]
          BY <1>1, <2>7, <2>9, <3>2, <4>1, <4>2
        <4> QED BY <3>0, <4>3, <4>6, <4>7
      <3>3. CASE ~(address < k /\ k <= address + m)
        <4>1. H = G
          <5>1. ASSUME NEW i \in H PROVE i \in G
            <6>1. i \in 1 .. n + m /\ k - 1 \in at(i)
              BY <3>1, <5>1
            <6>2. CASE i > n
              <7>1. PICK g \in 1 .. m : i = n + g
                BY <1>5, <6>1, <6>2
              <7>2. k - 1 = address + g - 1
                BY <1>4, <6>1, <7>1
              <7> QED BY SMTT(30), <1>2, <2>9, <3>3, <7>1, <7>2
            <6> QED BY <3>1, <6>1, <6>2
          <5>2. G \subseteq H
            BY <1>2, <3>1
          <5> QED BY <5>1, <5>2
        <4>2. w[k] = b[k]
          BY <2>7, <2>9, <3>3
        <4>3. b[k] = IF G = {} THEN B[k] ELSE call.data[Newest(G)]
          BY <1>1, <1>2, <2>3, <2>9, <3>0 DEF After
        <4> QED BY <3>0, <4>1, <4>2, <4>3
      <3> QED BY <3>2, <3>3
    <2>10. w = [k \in 1 .. Len(B) |-> w[k]]
      BY <2>7
    <2>11. After(call, n + m) =
             [k \in 1 .. Len(B) |-> IF Hits(call, n + m, k - 1) = {} THEN B[k] ELSE call.data[Newest(Hits(call, n + m, k - 1))]]
      BY <1>1, <1>2 DEF After
    <2> QED BY <2>9, <2>10, <2>11
  <1>8. \A i \in 1 .. n + m : Found(Len(w), FALSE, call.layer, call.offset + i - 1) # {}
    BY <1>00, <1>1, <1>6
  <1>9. Written(w, call, n + m)
    BY <1>7, <1>8 DEF Written
  <1> QED BY <1>1, <1>9

\* Of a call only its layer, offset, data and the buffer it met matter for what it has written.
LEMMA WrittenAlike ==
  ASSUME NEW a, NEW c, a.layer = c.layer, a.offset = c.offset, a.before = c.before, a.data = c.data
  PROVE  \A b, n : Written(b, c, n) => Written(b, a, n)
  <1>1. \A n, x : Hits(a, n, x) = Hits(c, n, x)
    BY DEF Hits
  <1>2. \A n : After(a, n) = After(c, n)
    BY <1>1 DEF After
  <1>3. \A n : Fits(a, n) <=> Fits(c, n)
    BY DEF Fits
  <1> QED BY <1>2, <1>3 DEF Written

\* In a call of write, the calls in progress are writes.
LEMMA WritesInProgress ==
  ASSUME IInv, InCall("write")
  PROVE  /\ last.op = "none"
         /\ \/ \E c \in CallType :
                 /\ Call = c /\ Inside = <<>> /\ Head(stack) = c /\ OneWrite(buffer, c)
                 /\ \A x, y : Append(Inside, x) = <<x>> /\ Inside \o <<x, y>> = <<x, y>>
            \/ \E d, c \in CallType :
                 /\ Call = c /\ Inside = <<d>> /\ Inside # <<>> /\ Head(stack) = d
                 /\ TwoWrites(buffer, d, c)
                 /\ \A x : Append(Inside, x) = <<d, x>>
  <1>1. stack \in Seq(CallType) /\ stack # <<>> /\ Call.op = "write" /\ StackRight
    BY DEF IInv, TypeOK, InCall
  <1>2. CASE Len(stack) = 1
    <2>1. PICK c \in CallType :
              /\ stack = <<c>> /\ stack[1] = c /\ Call = c /\ Inside = <<>> /\ Head(stack) = c
              /\ \A x, y : Append(Inside, x) = <<x>> /\ Inside \o <<x, y>> = <<x, y>>
      BY <1>1, <1>2, StackShapes
    <2>2. last.op = "none" /\ (OneRead(past, Len(buffer), c) \/ OneWrite(buffer, c))
      BY <1>1, <1>2, <2>1 DEF StackRight
    <2>3. ~OneRead(past, Len(buffer), c)
      BY <1>1, <2>1 DEF OneRead, Reading, InProgress
    <2> QED BY <2>1, <2>2, <2>3
  <1>3. CASE Len(stack) = 2
    <2>1. PICK d \in CallType, c \in CallType :
              /\ stack = <<d, c>> /\ stack[1] = d /\ stack[2] = c /\ Call = c /\ Inside = <<d>> /\ Head(stack) = d
              /\ Last(Inside) = d /\ Front(Inside) = <<>> /\ Inside # <<>>
              /\ \A x : Append(Inside, x) = <<d, x>> /\ Append(<<>>, x) = <<x>>
      BY <1>1, <1>3, StackShapes
    <2>2. last.op = "none" /\ (TwoReads(past, Len(buffer), d, c) \/ TwoWrites(buffer, d, c))
      BY <1>1, <1>3, <2>1 DEF StackRight
    <2>3. ~TwoReads(past, Len(buffer), d, c)
      BY <1>1, <2>1 DEF TwoReads, OneRead, Reading, InProgress
    <2>4. Call = c /\ Inside = <<d>> /\ Inside # <<>> /\ Head(stack) = d
      BY <2>1
    <2>5. \A x : Append(Inside, x) = <<d, x>>
      BY <2>1
    <2> QED BY <2>2, <2>3, <2>4, <2>5
  <1> QED BY <1>1, <1>2, <1>3 DEF StackRight

\* What is remembered stays right when the buffer is written to.
LEMMA CacheStaysRight ==
  ASSUME IInv, buffer' \in Seq(Nat), Len(buffer) <= Len(buffer'), past \subseteq past', cache' = cache
  PROVE  (cache \in Seq(RightEntries(past, Len(buffer))))'
  <1>1. PICK held, more, size, larger : held = past /\ more = past' /\ size = Len(buffer) /\ larger = Len(buffer')
    OBVIOUS
  <1>2. cache \in Seq(RightEntries(held, size)) /\ held \subseteq more /\ size \in Nat /\ larger \in Nat /\ size <= larger
    BY <1>1 DEF IInv, TypeOK
  <1>3. cache \in Seq(RightEntries(more, larger))
    BY <1>2, StaysRight
  <1> QED BY <1>1, <1>3

\* A write in progress leaves the invariant, if what it has written is right.
LEMMA WriteGoesOn ==
  ASSUME IInv, buffer' \in Seq(Nat), Len(buffer) <= Len(buffer'), past \subseteq past', buffer' \in past',
         writes' \in 0 .. MaxWrites, cache' = cache, last'.op = "none",
         \/ \E c \in CallType : stack' = <<c>> /\ OneWrite(buffer', c)
         \/ \E d, c \in CallType : stack' = <<d, c>> /\ TwoWrites(buffer', d, c)
  PROVE  IInv'
  <1>0. Len(Contents) <= Len(buffer')
    <2>1. PICK x, y, z : x = Len(Contents) /\ y = Len(buffer) /\ z = Len(buffer')
      OBVIOUS
    <2>2. x \in Nat /\ y \in Nat /\ z \in Nat /\ x <= y /\ y <= z
      BY <2>1, CallsAssumption DEF IInv, TypeOK
    <2> QED BY <2>1, <2>2
  <1>1. TypeOK' /\ StackRight'
    <2>2. ASSUME NEW c \in CallType, stack' = <<c>>, OneWrite(buffer', c)
          PROVE  TypeOK' /\ StackRight'
      <3>1. stack' \in Seq(CallType) /\ Len(stack') = 1 /\ stack'[1] = c
        BY <2>2
      <3>2. StackRight'
        BY <2>2, <3>1 DEF StackRight
      <3> QED BY <1>0, <3>1, <3>2 DEF TypeOK
    <2>3. ASSUME NEW d \in CallType, NEW c \in CallType, stack' = <<d, c>>, TwoWrites(buffer', d, c)
          PROVE  TypeOK' /\ StackRight'
      <3>1. stack' \in Seq(CallType) /\ Len(stack') = 2 /\ stack'[1] = d /\ stack'[2] = c
        BY <2>3
      <3>2. StackRight'
        BY <2>3, <3>1 DEF StackRight
      <3> QED BY <1>0, <3>1, <3>2 DEF TypeOK
    <2> QED BY <2>2, <2>3
  <1>2. ReadAnswered'
    BY DEF ReadAnswered
  <1>3. WriteReachesFirstHole'
    BY DEF WriteReachesFirstHole
  <1>4. (cache \in Seq(RightEntries(past, Len(buffer))))'
    BY CacheStaysRight
  <1> QED BY <1>1, <1>2, <1>3, <1>4 DEF IInv

\* What a write has written up to a hole, or altogether, is what it had to.
LEMMA UpToTheHole ==
  ASSUME NEW o \in OutcomeType, NEW q \in 0 .. Len(o.data), NEW b, Written(b, o, q),
         o.raised <=> q < Len(o.data),
         q < Len(o.data) => Found(Len(b), FALSE, o.layer, o.offset + q) = {}
  PROVE  UpToFirstHole(b, o)
  <1> DEFINE n == Len(o.data)
             at(i) == Target(o.layer, o.offset + i - 1)
             found(i) == Found(Len(b), FALSE, o.layer, o.offset + i - 1) # {}
             done == {i \in 1 .. n : \A j \in 1 .. i : found(j)}
             hits(a) == {i \in done : a \in at(i)}
             newest(a) == CHOOSE i \in hits(a) : \A j \in hits(a) : j <= i
  <1>1. n \in Nat /\ q \in Nat /\ q <= n /\ o.offset \in Nat
    BY DEF OutcomeType
  <1>2. \A i \in 1 .. q : found(i)
    BY DEF Written
  <1>3. q < n => ~found(q + 1)
    <2>1. o.offset + (q + 1) - 1 = o.offset + q
      BY <1>1
    <2> QED BY <2>1
  <1> HIDE DEF n, at, found
  <1>4. done = 1 .. q
    <2>1. ASSUME NEW i \in done PROVE i \in 1 .. q
      <3>1. i \in 1 .. n /\ \A j \in 1 .. i : found(j)
        OBVIOUS
      <3>2. CASE i > q
        <4>1. q + 1 \in 1 .. i /\ q < n
          BY <1>1, <3>1, <3>2
        <4> QED BY <1>3, <3>1, <4>1
      <3> QED BY <1>1, <3>1, <3>2
    <2>2. ASSUME NEW i \in 1 .. q PROVE i \in done
      <3>1. i \in 1 .. n /\ \A j \in 1 .. i : j \in 1 .. q
        BY <1>1
      <3> QED BY <1>2, <3>1
    <2> QED BY <2>1, <2>2
  <1>5. \A a : hits(a) = Hits(o, q, a)
    BY <1>4 DEF Hits, at
  <1>6. \A a : newest(a) = Newest(hits(a))
    BY DEF Newest
  <1> HIDE DEF done, hits, newest
  <1> SUFFICES ASSUME \A i \in done : \A a \in at(i) : InBuffer(o.before, a)
               PROVE  /\ o.raised <=> done # 1 .. n
                      /\ b = [k \in DOMAIN o.before |->
                                IF hits(k - 1) = {} THEN o.before[k] ELSE o.data[newest(k - 1)]]
    BY DEF UpToFirstHole, n, at, found, done, hits, newest
  <1>7. o.raised <=> done # 1 .. n
    <2>1. o.raised <=> q < n
      BY DEF n
    <2>2. q < n <=> 1 .. q # 1 .. n
      <3>1. CASE q < n
        <4>1. n \in 1 .. n /\ ~(n \in 1 .. q)
          BY <1>1, <3>1
        <4> QED BY <3>1, <4>1
      <3>2. CASE ~(q < n)
        BY <1>1, <3>2
      <3> QED BY <3>1, <3>2
    <2> QED BY <1>4, <2>1, <2>2
  <1>8. Fits(o, q)
    BY <1>4 DEF Fits, at
  <1>9. b = After(o, q)
    BY <1>8 DEF Written
  <1>10. After(o, q) = [k \in DOMAIN o.before |->
                          IF hits(k - 1) = {} THEN o.before[k] ELSE o.data[newest(k - 1)]]
    BY <1>5, <1>6 DEF After
  <1> QED BY <1>7, <1>9, <1>10

\* A write that has ended leaves the invariant, if it came to its end or to a hole.
LEMMA WriteAnswers ==
  ASSUME IInv, buffer' \in Seq(Nat), Len(buffer) <= Len(buffer'), past \subseteq past', buffer' \in past',
         writes' \in 0 .. MaxWrites, cache' = cache, stack' = <<>>,
         NEW o \in OutcomeType, last' = o, o.op = "write",
         NEW q \in 0 .. Len(o.data), Written(buffer', o, q),
         o.raised <=> q < Len(o.data),
         q < Len(o.data) => Found(Len(buffer'), FALSE, o.layer, o.offset + q) = {}
  PROVE  IInv'
  <1>1. TypeOK' /\ StackRight'
    <2>1. <<>> \in Seq(CallType)
      OBVIOUS
    <2>2. Len(Contents) <= Len(buffer')
      <3>1. PICK x, y, z : x = Len(Contents) /\ y = Len(buffer) /\ z = Len(buffer')
        OBVIOUS
      <3>2. x \in Nat /\ y \in Nat /\ z \in Nat /\ x <= y /\ y <= z
        BY <3>1, CallsAssumption DEF IInv, TypeOK
      <3> QED BY <3>1, <3>2
    <2> QED BY <2>1, <2>2 DEF TypeOK, StackRight
  <1>2. ReadAnswered'
    BY DEF ReadAnswered
  <1>3. WriteReachesFirstHole'
    <2>1. PICK b : b = buffer'
      OBVIOUS
    <2>2. Written(b, o, q) /\ (q < Len(o.data) => Found(Len(b), FALSE, o.layer, o.offset + q) = {})
      BY <2>1
    <2> QED BY <2>1, <2>2, UpToTheHole DEF WriteReachesFirstHole
  <1>4. (cache \in Seq(RightEntries(past, Len(buffer))))'
    BY CacheStaysRight
  <1> QED BY <1>1, <1>2, <1>3, <1>4 DEF IInv

\* What one turn of a write finds, which has come to its byte n: a chunk, and the part of the data for it
Turn(c, k, n, part) ==
  /\ k.offset = c.at /\ k.mapped \in Nat /\ k.length \in Nat \ {0}
  /\ n \in Nat /\ n + k.length <= Len(c.data) /\ c.offset + n = c.at /\ c.at + k.length <= End(c)
  /\ Alike(FALSE, c.layer, c.at, c.layer - 1, k.mapped, k.length)
  /\ part \in Seq(Nat) /\ Len(part) = k.length /\ \A j \in 1 .. k.length : part[j] = c.data[n + j]

\* One turn of a write: the next chunk starts where the write has come to, and gets the part of the data
\* that is for it.
LEMMA WriteAdvances ==
  ASSUME TypeOK, NEW c \in CallType, Writing(c), c.at < End(c),
         NEW i, i = SegmentFor(c.layer, c.at, c.pad, End(c)), i # 0,
         NEW k, k = Chunk(c.layer, i, c.at, End(c))
  PROVE  Turn(c, k, c.at - c.offset, SubSeq(c.data, k.offset - c.offset + 1, k.offset - c.offset + k.length))
  <1>0. PICK n, part : /\ n = c.at - c.offset
                       /\ part = SubSeq(c.data, k.offset - c.offset + 1, k.offset - c.offset + k.length)
    OBVIOUS
  <1>1. /\ c.layer \in Upper /\ c.at \in Nat /\ c.offset \in Nat /\ c.length \in Nat /\ ~c.pad /\ c.data \in Seq(Nat)
        /\ End(c) \in Nat /\ End(c) = c.offset + c.length /\ c.offset <= c.at /\ Len(c.data) = c.length
    BY DEF CallType, End, Writing, InProgress
  <1>2. LayerMaximum(c.layer - 1) \in Int /\ Len(buffer) \in Nat
    BY <1>1, LayersEnd
  <1>3. PICK layer, a, pad, end, o : layer = c.layer /\ a = c.at /\ pad = c.pad /\ end = End(c) /\ o = c.offset
    OBVIOUS
  <1>4. /\ layer \in Upper /\ a \in Nat /\ pad \in BOOLEAN /\ ~pad /\ end \in Nat /\ a < end
        /\ LayerMaximum(layer - 1) \in Int /\ pad = FALSE
        /\ i = SegmentFor(layer, a, pad, end) /\ k = Chunk(layer, i, a, end)
    <2>1. pad \in BOOLEAN
      BY <1>3 DEF CallType
    <2> QED BY <1>1, <1>2, <1>3, <2>1
  <1>5. /\ k.offset \in Nat /\ k.mapped \in Nat /\ k.length \in Nat
        /\ k.offset + k.length <= end /\ k.offset = a /\ k.length > 0
        /\ Alike(pad, layer, k.offset, layer - 1, k.mapped, k.length)
    BY <1>4, NextChunkRight
  <1>6. PICK m, s : m = k.length /\ s = c.data
    OBVIOUS
  <1>7. m \in Nat /\ n \in Nat /\ n = a - o /\ o \in Nat /\ a \in Nat /\ n + m <= Len(s) /\ o + n = a /\ s \in Seq(Nat)
    <2>1. PICK z : z = Len(s)
      OBVIOUS
    <2>2. n = a - o /\ o <= a /\ end = o + z /\ z \in Nat /\ a + m <= end /\ m \in Nat /\ o \in Nat /\ a \in Nat
      BY <1>0, <1>1, <1>3, <1>5, <1>6, <2>1
    <2>3. n \in Nat /\ n + m <= z /\ o + n = a
      BY <2>2
    <2> QED BY <1>1, <1>6, <2>1, <2>2, <2>3
  <1>8. part = SubSeq(s, n + 1, n + m)
    BY <1>0, <1>3, <1>5, <1>6, <1>7
  <1>9. part \in Seq(Nat) /\ Len(part) = m /\ \A j \in 1 .. m : part[j] = s[n + j]
    <2>1. PICK e : e = n + m
      OBVIOUS
    <2>2. s \in Seq(Nat) /\ n \in 0 .. Len(s) /\ e \in n .. Len(s) /\ e - n = m
      BY <1>7, <2>1
    <2>3. part = SubSeq(s, n + 1, e)
      BY <1>8, <2>1
    <2>4. part \in Seq(Nat) /\ Len(part) = e - n /\ \A g \in 1 .. Len(part) : part[g] = s[n + g]
      BY <2>2, <2>3, BytesBetween
    <2> QED BY <2>2, <2>4
  <1>10. k.offset = c.at /\ k.mapped \in Nat /\ k.length \in Nat \ {0} /\ c.offset + n = c.at
    BY <1>3, <1>5, <1>7
  <1>11. n \in Nat /\ n + k.length <= Len(c.data) /\ c.at + k.length <= End(c)
    BY <1>3, <1>5, <1>6, <1>7
  <1>12. Alike(FALSE, c.layer, c.at, c.layer - 1, k.mapped, k.length)
    BY <1>3, <1>4, <1>5
  <1>13. part \in Seq(Nat) /\ Len(part) = k.length /\ \A j \in 1 .. k.length : part[j] = c.data[n + j]
    BY <1>6, <1>9
  <1>14. Turn(c, k, n, part)
    BY <1>10, <1>11, <1>12, <1>13 DEF Turn
  <1> QED BY <1>0, <1>14

\* A turn of write's loop.
LEMMA WriteChunkStep ==
  ASSUME IInv, WriteChunk
  PROVE  IInv'
  <1>1. InCall("write") /\ Unfinished /\ CurrentSegment # 0 /\ UNCHANGED <<cache, writes, last>>
    BY DEF WriteChunk
  <1>2. TypeOK /\ buffer \in Seq(Nat) /\ buffer \in past /\ writes \in 0 .. MaxWrites /\ last.op = "none" /\ Len(buffer) \in Nat
    BY <1>1, WritesInProgress DEF IInv, TypeOK
  <1>3. PICK c \in CallType :
          /\ Call = c /\ Writing(c)
          /\ \/ /\ Inside = <<>> /\ OneWrite(buffer, c)
                /\ \A x, y : Append(Inside, x) = <<x>> /\ Inside \o <<x, y>> = <<x, y>>
             \/ \E d \in CallType : TwoWrites(buffer, d, c) /\ \A x : Append(Inside, x) = <<d, x>>
    <2>1. OneWrite(buffer, Call) => Writing(Call)
      BY DEF OneWrite
    <2>2. TwoWrites(buffer, Head(stack), Call) => Writing(Call)
      BY DEF TwoWrites
    <2> QED BY <1>1, <2>1, <2>2, WritesInProgress
  <1>4. PICK i : i = SegmentFor(c.layer, c.at, c.pad, End(c))
    OBVIOUS
  <1>5. PICK k : k = Chunk(c.layer, i, c.at, End(c))
    OBVIOUS
  <1>6. PICK n, part, a :
          /\ n = c.at - c.offset
          /\ part = SubSeq(c.data, k.offset - c.offset + 1, k.offset - c.offset + k.length)
          /\ a = [c EXCEPT !.at = k.offset + k.length, !.data = c.data]
    OBVIOUS
  <1>7. c.at < End(c) /\ i # 0 /\ NextChunk = k /\ CurrentSegment = i
    BY <1>1, <1>3, <1>4, <1>5 DEF Unfinished, CurrentSegment, NextChunk
  <1>8. /\ k.offset = c.at /\ k.mapped \in Nat /\ k.length \in Nat \ {0}
        /\ n \in Nat /\ n + k.length <= Len(c.data) /\ c.offset + n = c.at /\ c.at + k.length <= End(c)
        /\ Alike(FALSE, c.layer, c.at, c.layer - 1, k.mapped, k.length)
        /\ part \in Seq(Nat) /\ Len(part) = k.length /\ \A j \in 1 .. k.length : part[j] = c.data[n + j]
    <2>1. TypeOK /\ Writing(c) /\ c.at < End(c) /\ i # 0
      BY <1>2, <1>3, <1>7
    <2>2. n = c.at - c.offset /\ part = SubSeq(c.data, k.offset - c.offset + 1, k.offset - c.offset + k.length)
      BY <1>6
    <2>3. Turn(c, k, n, part)
      BY <1>4, <1>5, <2>1, <2>2, WriteAdvances
    <2> QED BY <2>3 DEF Turn
  <1>9. PICK m, address : m = k.length /\ address = k.mapped
    OBVIOUS
  <1>9a. PICK size, layer, at : size = Len(buffer) /\ layer = c.layer /\ at = c.at
    OBVIOUS
  <1>9b. size \in Nat /\ layer \in Upper /\ Alike(FALSE, layer, at, layer - 1, address, m)
    BY <1>2, <1>8, <1>9, <1>9a DEF CallType
  <1>9c. \A j \in 0 .. m - 1 : Found(size, FALSE, layer, at + j) = Found(size, FALSE, layer - 1, address + j)
    BY <1>9a, <1>9b DEF Alike
  <1>9d. layer = 2 =>
           \A z \in Nat : \A j \in 0 .. m - 1 : Found(z, FALSE, 2, at + j) = Found(z, FALSE, 1, address + j)
    <2>1. layer = 2 => layer - 1 = 1
      OBVIOUS
    <2> QED BY <1>9b, <2>1 DEF Alike
  <1>10. /\ a \in CallType /\ a.op = c.op /\ a.layer = c.layer /\ a.offset = c.offset /\ a.length = c.length
         /\ a.pad = c.pad /\ a.before = c.before /\ a.data = c.data /\ a.at = c.at + m
    <2>1. c.at \in Nat /\ k.offset + k.length = c.at + m /\ c.at + m \in Nat
      BY <1>8, <1>9 DEF CallType
    <2> QED BY <1>6, <1>9, <2>1 DEF CallType
  <1>11. Writing(a)
    <2>1. End(a) = End(c) /\ c.at + m <= End(c) /\ c.offset <= c.at + m
      <3>1. c.at \in Nat /\ c.offset \in Nat /\ m \in Nat /\ c.offset <= c.at
        BY <1>3, <1>8, <1>9 DEF CallType, Writing, InProgress
      <3> QED BY <1>8, <1>9, <1>10, <3>1 DEF End
    <2> QED BY <1>3, <1>10, <2>1 DEF Writing, InProgress
  <1>12. a.at - a.offset = n + m
    <2>1. c.at \in Nat /\ c.offset \in Nat /\ m \in Nat
      BY <1>8, <1>9 DEF CallType
    <2> QED BY <1>6, <1>10, <2>1
  <1>13. ASSUME c.layer = 1
         PROVE  /\ buffer' = BufferWrite(buffer, address, part) /\ past' = past \cup {buffer'} /\ stack' = Append(Inside, a)
                /\ buffer' \in Seq(Nat) /\ Len(buffer) <= Len(buffer') /\ past \subseteq past' /\ buffer' \in past'
    <2>1. buffer' = BufferWrite(buffer, address, part) /\ past' = past \cup {buffer'} /\ stack' = Append(Inside, a)
      BY <1>3, <1>6, <1>7, <1>9, <1>13 DEF WriteChunk, Store, Advanced
    <2>2. BufferWrite(buffer, address, part) \in Seq(Nat) /\ Len(buffer) <= Len(BufferWrite(buffer, address, part))
      BY <1>2, <1>8, <1>9, BufferWritten
    <2> QED BY <2>1, <2>2
  <1>14. CASE /\ Inside = <<>> /\ OneWrite(buffer, c)
              /\ \A x, y : Append(Inside, x) = <<x>> /\ Inside \o <<x, y>> = <<x, y>>
    <2>1. Written(buffer, c, n)
      BY <1>6, <1>14 DEF OneWrite
    <2>2. CASE c.layer = 1
      <3>1. Written(BufferWrite(buffer, address, part), c, n + m)
        <4>1. \A j \in 0 .. Len(part) - 1 : Found(Len(buffer), FALSE, c.layer, c.offset + n + j) = {address + j}
          <5>1. \A j \in 0 .. Len(part) - 1 :
                  Found(Len(buffer), FALSE, c.layer, c.at + j) = Found(Len(buffer), FALSE, 0, address + j)
            <6>1. layer = 1 /\ layer - 1 = 0 /\ Len(part) = m
              BY <1>8, <1>9, <1>9a, <2>2
            <6> QED BY <1>9a, <1>9c, <6>1
          <5>2. \A x : Found(Len(buffer), FALSE, 0, x) = {x}
            BY FoundInBuffer
          <5> QED BY <1>8, <5>1, <5>2
        <4>2. /\ c.layer \in Layers /\ c.offset \in Nat /\ c.before \in Seq(Nat) /\ c.data \in Seq(Nat)
              /\ n + Len(part) <= Len(c.data) /\ Len(part) > 0 /\ Len(part) = m
              /\ \A j \in 1 .. Len(part) : part[j] = c.data[n + j]
          BY <1>8, <1>9 DEF CallType, Upper, Layers
        <4>3. Written(BufferWrite(buffer, address, part), c, n + Len(part))
          BY <1>2, <1>8, <1>9, <2>1, <4>1, <4>2, WriteExtends
        <4> QED BY <4>2, <4>3
      <3>2. PICK b : b = buffer'
        OBVIOUS
      <3>3. Written(b, a, a.at - a.offset)
        BY <1>10, <1>12, <1>13, <2>2, <3>1, <3>2, WrittenAlike
      <3>4. OneWrite(buffer', a) /\ stack' = <<a>>
        BY <1>11, <1>13, <1>14, <2>2, <3>2, <3>3 DEF OneWrite
      <3> QED BY <1>1, <1>2, <1>10, <1>13, <2>2, <3>4, WriteGoesOn
    <2>3. CASE c.layer # 1
      <3>1. c.layer = 2
        BY <2>3 DEF CallType, Upper
      <3>2. PICK e : e = WriteCall(1, address, part)
        OBVIOUS
      <3>3. e = [op |-> "write", layer |-> 1, offset |-> address, length |-> m, pad |-> FALSE, before |-> buffer,
                 key |-> <<>>, at |-> address, data |-> part]
        BY <1>8, <1>9, <3>2 DEF WriteCall
      <3>4. /\ e \in CallType /\ e.op = "write" /\ e.layer = 1 /\ e.offset = address /\ e.length = m /\ ~e.pad
            /\ e.at = address /\ e.data = part
        BY <1>2, <1>8, <1>9, <3>3 DEF CallType, Upper
      <3>5. stack' = <<a, e>> /\ buffer' = buffer /\ past' = past
        BY <1>3, <1>6, <1>7, <1>9, <1>14, <3>1, <3>2 DEF WriteChunk, Advanced
      <3>6. Writing(e)
        <4>1. End(e) = address + m /\ address <= address + m
          BY <1>8, <1>9, <3>4 DEF End
        <4> QED BY <1>8, <1>9, <3>4, <4>1 DEF Writing, InProgress
      <3>7. a.at - e.length = c.at /\ c.at - a.offset = n /\ a.offset <= c.at
        <4>1. c.at \in Nat /\ c.offset \in Nat /\ m \in Nat /\ c.offset <= c.at
          BY <1>3, <1>8, <1>9 DEF CallType, Writing, InProgress
        <4> QED BY <1>6, <1>10, <3>4, <4>1
      <3>8. Shared(a, e)
        <4>1. a.pad = e.pad /\ a.pad = FALSE
          BY <1>3, <1>10, <3>3 DEF Writing, CallType
        <4>2. \A s \in Nat : \A j \in 0 .. e.length - 1 :
                Found(s, a.pad, 2, a.at - e.length + j) = Found(s, a.pad, 1, e.offset + j)
          BY <1>9a, <1>9d, <3>1, <3>4, <3>7, <4>1
        <4> QED BY <1>10, <3>1, <3>4, <3>7, <4>1, <4>2 DEF Shared
      <3>9. \A j \in 1 .. e.length : e.data[j] = a.data[a.at - e.length - a.offset + j]
        BY <1>8, <1>9, <1>10, <3>4, <3>7
      <3>10. Written(buffer, a, a.at - e.length - a.offset + (e.at - e.offset))
        <4>1. a.at - e.length - a.offset + (e.at - e.offset) = n
          BY <1>8, <1>9, <3>4, <3>7
        <4> QED BY <1>10, <2>1, <4>1, WrittenAlike
      <3>11. TwoWrites(buffer', a, e)
        BY <1>11, <3>5, <3>6, <3>8, <3>9, <3>10 DEF TwoWrites
      <3> QED BY <1>1, <1>2, <1>10, <3>4, <3>5, <3>11, WriteGoesOn
    <2> QED BY <2>2, <2>3
  <1>15. CASE \E d \in CallType : TwoWrites(buffer, d, c) /\ \A x : Append(Inside, x) = <<d, x>>
    <2>1. PICK d \in CallType : TwoWrites(buffer, d, c) /\ \A x : Append(Inside, x) = <<d, x>>
      BY <1>15
    <2>2. PICK D : D = d.at - c.length - d.offset
      OBVIOUS
    <2>3. /\ Writing(d) /\ Shared(d, c) /\ Written(buffer, d, D + n)
          /\ \A j \in 1 .. c.length : c.data[j] = d.data[D + j]
      BY <1>6, <2>1, <2>2 DEF TwoWrites
    <2>4. /\ D \in Nat /\ d.at - c.length = d.offset + D /\ c.length \in Nat /\ d.offset \in Nat
          /\ n + m <= c.length /\ D + c.length <= Len(d.data) /\ d.data \in Seq(Nat) /\ d.before \in Seq(Nat)
      <3>1. PICK p, l, o, z : p = d.at /\ l = c.length /\ o = d.offset /\ z = Len(d.data)
        OBVIOUS
      <3>2. /\ p \in Nat /\ l \in Nat /\ o \in Nat /\ z \in Nat /\ o <= p - l /\ p <= o + z /\ D = p - l - o
            /\ d.data \in Seq(Nat) /\ d.before \in Seq(Nat) /\ n + m <= l
        BY <1>3, <1>8, <1>9, <2>2, <2>3, <3>1 DEF CallType, Writing, InProgress, Shared, End
      <3>3. D \in Nat /\ p - l = o + D /\ D + l <= z
        BY <3>2
      <3> QED BY <3>1, <3>2, <3>3
    <2>5. c.layer = 1 /\ d.layer = 2
      BY <2>3 DEF Shared
    <2>6. PICK q : q = D + n
      OBVIOUS
    <2>7. ASSUME NEW j \in 0 .. m - 1 PROVE Found(Len(buffer), FALSE, d.layer, d.offset + q + j) = {address + j}
      <3>1. n + j \in 0 .. c.length - 1 /\ d.offset + q + j = d.at - c.length + (n + j) /\ c.offset + (n + j) = c.at + j
        <4>1. m \in Nat /\ n \in Nat /\ c.offset \in Nat
          BY <1>8, <1>9 DEF CallType
        <4>2. c.offset + (n + j) = c.at + j
          BY <1>8, <2>7, <4>1
        <4>3. d.offset + q + j = (d.offset + D) + (n + j) /\ n + j \in 0 .. c.length - 1
          BY SMTT(30), <2>4, <2>6, <2>7, <4>1
        <4> QED BY <2>4, <4>2, <4>3
      <3>2. Found(Len(buffer), FALSE, 2, d.at - c.length + (n + j)) = Found(Len(buffer), FALSE, 1, c.offset + (n + j))
        <4>1. d.pad = FALSE
          BY <2>3 DEF Writing, CallType
        <4> QED BY <1>2, <2>3, <3>1, <4>1 DEF Shared
      <3>3. Found(Len(buffer), FALSE, 1, c.at + j) = Found(Len(buffer), FALSE, 0, address + j)
        <4>1. layer = 1 /\ layer - 1 = 0
          BY <1>9a, <2>5
        <4> QED BY <1>9a, <1>9c, <2>7, <4>1
      <3>4. Found(Len(buffer), FALSE, 0, address + j) = {address + j}
        BY FoundInBuffer
      <3> QED BY <2>5, <3>1, <3>2, <3>3, <3>4
    <2>8. ASSUME NEW j \in 1 .. m PROVE part[j] = d.data[q + j]
      <3>1. n + j \in 1 .. c.length /\ D + (n + j) = q + j
        <4>1. m \in Nat /\ n \in Nat /\ c.length \in Nat /\ n + m <= c.length /\ D \in Nat
          BY <1>8, <1>9, <2>4
        <4> QED BY <2>6, <2>8, <4>1
      <3> QED BY <1>8, <1>9, <2>3, <2>8, <3>1
    <2>9. Written(BufferWrite(buffer, address, part), d, q + m)
      <3>1. q \in Nat /\ q + Len(part) <= Len(d.data) /\ Len(part) > 0 /\ Len(part) = m /\ Written(buffer, d, q)
        <4>1. m \in Nat /\ m > 0 /\ n \in Nat /\ Len(part) = m /\ Len(d.data) \in Nat
          BY <1>8, <1>9, <2>4
        <4> QED BY <2>3, <2>4, <2>6, <4>1
      <3>2. /\ \A j \in 1 .. Len(part) : part[j] = d.data[q + j]
            /\ \A j \in 0 .. Len(part) - 1 : Found(Len(buffer), FALSE, d.layer, d.offset + q + j) = {address + j}
            /\ d.layer \in Layers
        <4>1. d.layer \in Layers
          BY <2>5 DEF Layers
        <4> QED BY <2>7, <2>8, <3>1, <4>1
      <3>3. Written(BufferWrite(buffer, address, part), d, q + Len(part))
        BY <1>2, <1>8, <1>9, <2>4, <3>1, <3>2, WriteExtends
      <3> QED BY <3>1, <3>3
    <2>10. Shared(d, a)
      BY <1>10, <2>3 DEF Shared
    <2>11. \A j \in 1 .. a.length : a.data[j] = d.data[d.at - a.length - d.offset + j]
      BY <1>10, <2>2, <2>3
    <2>12. d.at - a.length - d.offset + (a.at - a.offset) = q + m
      <3>1. d.at - a.length - d.offset = D
        BY <1>10, <2>2
      <3>2. D + (n + m) = q + m
        BY <1>8, <1>9, <2>4, <2>6
      <3> QED BY <1>12, <3>1, <3>2
    <2>13. TwoWrites(buffer', d, a) /\ stack' = <<d, a>>
      BY <1>11, <1>13, <2>1, <2>3, <2>5, <2>9, <2>10, <2>11, <2>12 DEF TwoWrites
    <2> QED BY <1>1, <1>2, <1>10, <1>13, <2>5, <2>13, WriteGoesOn
  <1> QED BY <1>3, <1>14, <1>15

\* A write returns, to its caller or to the write that waits for it.
LEMMA WriteReturnsStep ==
  ASSUME IInv, WriteReturns
  PROVE  IInv'
  <1>1. InCall("write") /\ ~Unfinished /\ UNCHANGED <<buffer, cache, writes, past>> /\ stack' = Inside
    BY DEF WriteReturns
  <1>2. /\ buffer' \in Seq(Nat) /\ Len(buffer) <= Len(buffer') /\ past \subseteq past' /\ buffer' \in past'
        /\ writes' \in 0 .. MaxWrites /\ cache' = cache /\ last.op = "none"
    BY <1>1, WritesInProgress DEF IInv, TypeOK
  <1>3. CASE \E c \in CallType : Call = c /\ Inside = <<>> /\ OneWrite(buffer, c)
    <2>1. PICK c \in CallType : Call = c /\ Inside = <<>> /\ OneWrite(buffer, c)
      BY <1>3
    <2>2. PICK o, q : o = Outcome(c, FALSE, c.data) /\ q = c.at - c.offset
      OBVIOUS
    <2>3. last' = o /\ stack' = <<>>
      BY <1>1, <2>1, <2>2 DEF WriteReturns
    <2>4. /\ c.op = "write" /\ Len(c.data) = c.length /\ Written(buffer, c, q)
          /\ c.offset <= c.at /\ c.at <= End(c) /\ ~(c.at < End(c))
      BY <1>1, <2>1, <2>2 DEF OneWrite, Writing, InProgress, Unfinished
    <2>5. q = Len(c.data) /\ q \in Nat
      BY <2>2, <2>4 DEF CallType, End
    <2>6. /\ o \in OutcomeType /\ o.op = "write" /\ ~o.raised /\ o.layer = c.layer /\ o.offset = c.offset
          /\ o.before = c.before /\ o.data = c.data
      <3>1. c.layer \in Layers /\ FALSE \in BOOLEAN
        BY DEF CallType, Upper, Layers
      <3> QED BY <2>2, <2>4, <3>1 DEF Outcome, OutcomeType, CallType
    <2>7. PICK b : b = buffer'
      OBVIOUS
    <2>8. Written(b, o, q)
      BY <1>1, <2>4, <2>6, <2>7, WrittenAlike
    <2>9. q \in 0 .. Len(o.data) /\ (o.raised <=> q < Len(o.data)) /\ ~(q < Len(o.data))
      BY <2>5, <2>6
    <2> QED BY <1>2, <2>3, <2>6, <2>7, <2>8, <2>9, WriteAnswers
  <1>4. CASE \E d, c \in CallType : Call = c /\ Inside = <<d>> /\ Inside # <<>> /\ TwoWrites(buffer, d, c)
    <2>1. PICK d \in CallType, c \in CallType : Call = c /\ Inside = <<d>> /\ Inside # <<>> /\ TwoWrites(buffer, d, c)
      BY <1>4
    <2>2. stack' = <<d>> /\ last' = last
      BY <1>1, <2>1 DEF WriteReturns
    <2>3. /\ Writing(d) /\ Written(buffer, d, d.at - c.length - d.offset + (c.at - c.offset))
          /\ c.offset <= c.at /\ c.at <= End(c) /\ ~(c.at < End(c))
      BY <1>1, <2>1 DEF TwoWrites, Writing, InProgress, Unfinished
    <2>4. d.at - c.length - d.offset + (c.at - c.offset) = d.at - d.offset
      <3>1. PICK at, l, o, a, z : at = d.at /\ l = c.length /\ o = d.offset /\ a = c.at /\ z = c.offset
        OBVIOUS
      <3>2. at \in Nat /\ l \in Nat /\ o \in Nat /\ a \in Nat /\ z \in Nat /\ a = z + l
        <4>1. at \in Nat /\ l \in Nat /\ o \in Nat /\ a \in Nat /\ z \in Nat /\ End(c) = z + l
          BY <3>1 DEF CallType, End
        <4>2. a <= z + l /\ ~(a < z + l)
          BY <2>3, <3>1, <4>1
        <4> QED BY <4>1, <4>2
      <3>3. at - l - o + (a - z) = at - o
        BY <3>2
      <3> QED BY <3>1, <3>3
    <2>5. OneWrite(buffer', d)
      BY <1>1, <2>3, <2>4 DEF OneWrite
    <2> QED BY <1>2, <2>2, <2>5, WriteGoesOn
  <1> QED BY <1>1, <1>3, <1>4, WritesInProgress

\* A write raises where it has come to a hole.
LEMMA WriteRaisesStep ==
  ASSUME IInv, WriteRaises
  PROVE  IInv'
  <1>1. /\ InCall("write") /\ Unfinished /\ CurrentSegment = 0 /\ UNCHANGED <<buffer, cache, writes, past>>
        /\ stack' = <<>> /\ last' = Outcome(Head(stack), TRUE, Head(stack).data)
    BY DEF WriteRaises
  <1>2. /\ buffer' \in Seq(Nat) /\ Len(buffer) <= Len(buffer') /\ past \subseteq past' /\ buffer' \in past'
        /\ writes' \in 0 .. MaxWrites /\ cache' = cache /\ TypeOK
    BY <1>1 DEF IInv, TypeOK
  <1>3. ASSUME NEW c \in CallType, Call = c, Writing(c)
        PROVE  Found(Len(buffer), FALSE, c.layer, c.at) = {} /\ c.offset <= c.at /\ c.at < c.offset + c.length
    <2>1. /\ c.layer \in Upper /\ c.at \in Nat /\ c.offset \in Nat /\ c.length \in Nat /\ c.pad \in BOOLEAN /\ ~c.pad
          /\ c.offset <= c.at /\ c.at < End(c) /\ End(c) = c.offset + c.length /\ End(c) \in Nat
      BY <1>1, <1>3 DEF CallType, Writing, InProgress, Unfinished, End
    <2>2. LayerMaximum(c.layer - 1) \in Int /\ Len(buffer) \in Nat
      BY <1>2, <2>1, LayersEnd
    <2>3. PICK layer, a, pad, end : layer = c.layer /\ a = c.at /\ pad = c.pad /\ end = End(c)
      OBVIOUS
    <2>4. PICK n : n = SegmentFor(layer, a, pad, end)
      OBVIOUS
    <2>5. /\ layer \in Upper /\ a \in Nat /\ pad \in BOOLEAN /\ ~pad /\ end \in Nat /\ a < end
          /\ LayerMaximum(layer - 1) \in Int
      BY <2>1, <2>2, <2>3
    <2>6. n = 0
      BY <1>1, <1>3, <2>3, <2>4 DEF CurrentSegment
    <2>7. MapsTo(layer, a) = {} \/ Missed(Len(buffer), layer, a)
      BY <2>4, <2>5, <2>6, SegmentFound
    <2>8. Found(Len(buffer), FALSE, layer, a) = {}
      BY <2>5, <2>7, NothingFound
    <2> QED BY <2>1, <2>3, <2>8
  <1>4. PICK h \in CallType :
          /\ Head(stack) = h /\ h.op = "write"
          /\ \E q \in Nat : /\ Written(buffer, h, q) /\ q < Len(h.data)
                          /\ Found(Len(buffer), FALSE, h.layer, h.offset + q) = {}
    <2>1. CASE \E c \in CallType : Call = c /\ Head(stack) = c /\ OneWrite(buffer, c)
      <3>1. PICK c \in CallType : Call = c /\ Head(stack) = c /\ OneWrite(buffer, c)
        BY <2>1
      <3>2. PICK q : q = c.at - c.offset
        OBVIOUS
      <3>3. Writing(c) /\ c.op = "write" /\ Len(c.data) = c.length /\ Written(buffer, c, q)
        BY <3>1, <3>2 DEF OneWrite, Writing, InProgress
      <3>4. Found(Len(buffer), FALSE, c.layer, c.at) = {} /\ c.offset <= c.at /\ c.at < c.offset + c.length
        BY <1>3, <3>1, <3>3
      <3>5. q \in Nat /\ q < c.length /\ c.offset + q = c.at
        BY <3>2, <3>4 DEF CallType
      <3> QED BY <3>1, <3>3, <3>4, <3>5
    <2>2. CASE \E d, c \in CallType : Call = c /\ Head(stack) = d /\ TwoWrites(buffer, d, c)
      <3>1. PICK d \in CallType, c \in CallType : Call = c /\ Head(stack) = d /\ TwoWrites(buffer, d, c)
        BY <2>2
      <3>2. PICK q, j : q = d.at - c.length - d.offset + (c.at - c.offset) /\ j = c.at - c.offset
        OBVIOUS
      <3>3. /\ Writing(c) /\ d.op = "write" /\ Len(d.data) = d.length /\ Written(buffer, d, q) /\ Shared(d, c)
            /\ d.at <= End(d)
        BY <3>1, <3>2 DEF TwoWrites, Writing, InProgress
      <3>4. Found(Len(buffer), FALSE, c.layer, c.at) = {} /\ c.offset <= c.at /\ c.at < c.offset + c.length
        BY <1>3, <3>1, <3>3
      <3>5. PICK at, l, o, a, z, e : at = d.at /\ l = c.length /\ o = d.offset /\ a = c.at /\ z = c.offset /\ e = d.length
        OBVIOUS
      <3>6. /\ at \in Nat /\ l \in Nat /\ o \in Nat /\ a \in Nat /\ z \in Nat /\ e \in Nat
            /\ z <= a /\ a < z + l /\ o <= at - l /\ at <= o + e
            /\ q = at - l - o + (a - z) /\ j = a - z
        BY <3>2, <3>3, <3>4, <3>5 DEF CallType, Shared, End
      <3>7. q \in Nat /\ q < e /\ o + q = at - l + j /\ j \in 0 .. l - 1 /\ z + j = a
        BY <3>6
      <3>8. /\ Found(Len(buffer), FALSE, 2, at - l + j) = Found(Len(buffer), FALSE, 1, z + j)
            /\ d.layer = 2 /\ c.layer = 1
        <4>1. d.pad = FALSE /\ Len(buffer) \in Nat
          BY <1>2, <3>1 DEF TwoWrites, Writing, CallType, TypeOK
        <4> QED BY <3>3, <3>5, <3>7, <4>1 DEF Shared
      <3>9. Found(Len(buffer), FALSE, d.layer, d.offset + q) = {}
        BY <3>4, <3>5, <3>7, <3>8
      <3> QED BY <3>1, <3>3, <3>5, <3>7, <3>9
    <2> QED BY <1>1, <2>1, <2>2, WritesInProgress
  <1>5. PICK q \in Nat : /\ Written(buffer, h, q) /\ q < Len(h.data)
                        /\ Found(Len(buffer), FALSE, h.layer, h.offset + q) = {}
    BY <1>4
  <1>6. PICK o, b : o = Outcome(h, TRUE, h.data) /\ b = buffer'
    OBVIOUS
  <1>7. /\ o \in OutcomeType /\ o.op = "write" /\ o.raised /\ o.layer = h.layer /\ o.offset = h.offset
        /\ o.before = h.before /\ o.data = h.data /\ Len(h.data) \in Nat
    <2>1. h.layer \in Layers /\ TRUE \in BOOLEAN
      BY DEF CallType, Upper, Layers
    <2> QED BY <1>4, <1>6, <2>1 DEF Outcome, OutcomeType, CallType
  <1>8. Written(b, o, q)
    BY <1>1, <1>5, <1>6, <1>7, WrittenAlike
  <1>9. /\ q \in 0 .. Len(o.data) /\ (o.raised <=> q < Len(o.data))
        /\ Found(Len(buffer'), FALSE, o.layer, o.offset + q) = {} /\ last' = o
    <2>1. q \in Nat /\ q < Len(h.data) /\ Found(Len(buffer'), FALSE, h.layer, h.offset + q) = {}
      BY <1>1, <1>5
    <2>2. q \in 0 .. Len(h.data)
      BY <1>7, <2>1
    <2>3. last' = o
      BY <1>1, <1>4, <1>6
    <2> QED BY <1>7, <2>1, <2>2, <2>3
  <1> QED BY <1>1, <1>2, <1>6, <1>7, <1>8, <1>9, WriteAnswers

\* A call of write from outside.
LEMMA WriteStep ==
  ASSUME IInv, NEW layer \in Layers, NEW offset \in Nat, NEW length \in Nat \ {0}, Write(layer, offset, length)
  PROVE  IInv'
  <1>1. PICK data, call : /\ data = [i \in 1 .. length |-> 10 * (writes + 1) + i]
                          /\ call = WriteCall(layer, offset, data)
    OBVIOUS
  <1>2. /\ stack = <<>> /\ cache' = cache /\ writes' \in 0 .. MaxWrites /\ writes \in Nat
        /\ buffer \in Seq(Nat) /\ buffer \in past
    BY CallsAssumption DEF Write, IInv, TypeOK
  <1>3. data \in Seq(Nat) /\ Len(data) = length
    <2>1. \A i \in 1 .. length : 10 * (writes + 1) + i \in Nat
      BY <1>2
    <2> QED BY <1>1, <2>1
  <1>4. call = [op |-> "write", layer |-> layer, offset |-> offset, length |-> length, pad |-> FALSE, before |-> buffer,
                key |-> <<>>, at |-> offset, data |-> data]
    BY <1>1, <1>3 DEF WriteCall
  <1>5. /\ call.op = "write" /\ call.layer = layer /\ call.offset = offset /\ call.length = length /\ ~call.pad
        /\ call.before = buffer /\ call.at = offset /\ call.data = data
    BY <1>4
  <1>6. Written(buffer, call, 0)
    BY <1>2, <1>5, NothingWritten
  <1>7. CASE layer = 0
    <2>1. /\ buffer' = BufferWrite(buffer, offset, data) /\ past' = past \cup {buffer'}
          /\ last' = Outcome(call, FALSE, data) /\ stack' = <<>>
      BY <1>1, <1>2, <1>5, <1>7 DEF Write, Store, Answer
    <2>2. PICK b, o : b = BufferWrite(buffer, offset, data) /\ o = Outcome(call, FALSE, data)
      OBVIOUS
    <2>3. b \in Seq(Nat) /\ Len(buffer) <= Len(b)
      BY <1>2, <1>3, <2>2, BufferWritten
    <2>4. \A j \in 0 .. Len(data) - 1 : Found(Len(buffer), FALSE, call.layer, call.offset + 0 + j) = {offset + j}
      <3>1. \A x : Found(Len(buffer), FALSE, 0, x) = {x}
        BY FoundInBuffer
      <3>2. \A j \in 0 .. Len(data) - 1 : offset + 0 + j = offset + j
        BY <1>3
      <3> QED BY <1>5, <1>7, <3>1, <3>2
    <2>5. Written(BufferWrite(buffer, offset, data), call, 0 + Len(data))
      <3>1. /\ call.layer \in Layers /\ call.offset \in Nat /\ call.before \in Seq(Nat) /\ call.data \in Seq(Nat)
            /\ 0 \in Nat /\ offset \in Nat
        BY <1>2, <1>3, <1>5
      <3>2. 0 + Len(data) <= Len(call.data) /\ Len(data) > 0 /\ \A j \in 1 .. Len(data) : data[j] = call.data[0 + j]
        BY <1>3, <1>5
      <3> QED BY <1>2, <1>3, <1>6, <2>4, <3>1, <3>2, WriteExtends
    <2>6. o = [op |-> "write", layer |-> layer, offset |-> offset, length |-> length, pad |-> FALSE, before |-> buffer,
               raised |-> FALSE, data |-> data]
      BY <1>4, <2>2 DEF Outcome
    <2>7. /\ o \in OutcomeType /\ o.op = "write" /\ ~o.raised /\ o.layer = call.layer /\ o.offset = call.offset
          /\ o.before = call.before /\ o.data = call.data
      BY <1>2, <1>3, <1>5, <2>6 DEF OutcomeType
    <2>8. Written(b, o, length)
      <3>1. 0 + Len(data) = length
        BY <1>3
      <3> QED BY <2>2, <2>5, <2>7, <3>1, WrittenAlike
    <2>9. length \in 0 .. Len(o.data) /\ (o.raised <=> length < Len(o.data)) /\ ~(length < Len(o.data))
      BY <1>3, <1>5, <2>7
    <2> QED BY <1>2, <2>1, <2>2, <2>3, <2>7, <2>8, <2>9, WriteAnswers
  <1>8. CASE layer # 0
    <2>1. stack' = <<call>> /\ last'.op = "none" /\ buffer' = buffer /\ past' = past
      BY <1>1, <1>8 DEF Write
    <2>2. call \in CallType
      <3>1. layer \in Upper
        BY <1>8 DEF Layers, Upper
      <3> QED BY <1>2, <1>3, <1>4, <3>1 DEF CallType
    <2>3. Writing(call)
      <3>1. End(call) = offset + length
        BY <1>5 DEF End
      <3> QED BY <1>3, <1>5, <3>1 DEF Writing, InProgress
    <2>4. OneWrite(buffer', call)
      <3>1. call.at - call.offset = 0
        BY <1>5
      <3> QED BY <1>6, <2>1, <2>3, <3>1 DEF OneWrite
    <2>5. buffer' \in Seq(Nat) /\ Len(buffer) <= Len(buffer') /\ past \subseteq past' /\ buffer' \in past'
      BY <1>2, <2>1
    <2> QED BY <1>2, <2>1, <2>2, <2>4, <2>5, WriteGoesOn
  <1> QED BY <1>7, <1>8

-----------------------------------------------------------------------------
(* The theorems *)

\* What each read, write and turn of a loop finds is what the next one needs: the invariant IInv holds.
THEOREM IOInvariant == Spec => []IInv
  <1>1. Init => IInv
    <2> SUFFICES ASSUME Init PROVE IInv
      OBVIOUS
    <2>1. Contents \in Seq(Nat) /\ MaxWrites \in Nat
      BY CallsAssumption
    <2>2. <<>> \in Seq(CallType)
      OBVIOUS
    <2>3. TypeOK
      BY <2>1, <2>2 DEF Init, TypeOK
    <2>4. cache \in Seq(RightEntries(past, Len(buffer)))
      BY DEF Init
    <2>5. StackRight /\ ReadAnswered /\ WriteReachesFirstHole
      BY DEF Init, StackRight, ReadAnswered, WriteReachesFirstHole
    <2> QED BY <2>3, <2>4, <2>5 DEF IInv
  <1>2. ASSUME IInv, Next PROVE IInv'
    <2>1. CASE \E r \in Reads : Read(r[1], r[2], r[3], r[4], r[5])
      <3>1. PICK r \in Reads : Read(r[1], r[2], r[3], r[4], r[5])
        BY <2>1
      <3>2. r \in Layers \X Nat \X (Nat \ {0}) \X BOOLEAN \X BOOLEAN
        BY CallsAssumption
      <3>3. PICK layer, offset, length, pad, via :
              layer = r[1] /\ offset = r[2] /\ length = r[3] /\ pad = r[4] /\ via = r[5]
        OBVIOUS
      <3>4. layer \in Layers /\ offset \in Nat /\ length \in Nat \ {0} /\ pad \in BOOLEAN /\ via \in BOOLEAN
        BY <3>2, <3>3
      <3>5. Read(layer, offset, length, pad, via)
        BY <3>1, <3>3
      <3> QED BY <1>2, <3>4, <3>5, ReadStep
    <2>2. CASE \E w \in WriteSpots : Write(w[1], w[2], w[3])
      <3>1. PICK w \in WriteSpots : Write(w[1], w[2], w[3])
        BY <2>2
      <3>2. w \in Layers \X Nat \X (Nat \ {0})
        BY CallsAssumption
      <3>3. PICK layer, offset, length : layer = w[1] /\ offset = w[2] /\ length = w[3]
        OBVIOUS
      <3>4. layer \in Layers /\ offset \in Nat /\ length \in Nat \ {0} /\ Write(layer, offset, length)
        BY <3>1, <3>2, <3>3
      <3> QED BY <1>2, <3>4, WriteStep
    <2>3. CASE ReadChunk
      BY <1>2, <2>3, ReadChunkStep
    <2>4. CASE ReadReturns
      BY <1>2, <2>4, ReadReturnsStep
    <2>5. CASE ReadRaises
      BY <1>2, <2>5, ReadRaisesStep
    <2>6. CASE WriteChunk
      BY <1>2, <2>6, WriteChunkStep
    <2>7. CASE WriteReturns
      BY <1>2, <2>7, WriteReturnsStep
    <2>8. CASE WriteRaises
      BY <1>2, <2>8, WriteRaisesStep
    <2> QED BY <1>2, <2>1, <2>2, <2>3, <2>4, <2>5, <2>6, <2>7, <2>8 DEF Next
  <1>3. IInv /\ UNCHANGED vars => IInv'
    <2> SUFFICES ASSUME IInv, UNCHANGED vars PROVE IInv'
      OBVIOUS
    <2>1. UNCHANGED <<buffer, cache, writes, past, stack, last>>
      BY DEF vars
    <2>2. TypeOK' /\ StackRight'
      BY <2>1 DEF IInv, TypeOK, StackRight
    <2>3. ReadAnswered'
      BY <2>1 DEF IInv, ReadAnswered, ReadFails
    <2>4. WriteReachesFirstHole'
      BY <2>1 DEF IInv, WriteReachesFirstHole
    <2>5. (cache \in Seq(RightEntries(past, Len(buffer))))'
      BY <2>1 DEF IInv
    <2> QED BY <2>2, <2>3, <2>4, <2>5 DEF IInv
  <1> QED BY <1>1, <1>2, <1>3, PTL DEF Spec

\* Whatever segments the layers have, whatever is read and written in whatever order, and whatever the cache has
\* room for: a byte that a read returns is one that the buffer has held behind the address it was read at.
THEOREM BytesAreRight == Spec => []BytesWereThere
  <1>1. IInv => BytesWereThere
    <2> SUFFICES ASSUME IInv, last.op = "read", ~last.raised
                 PROVE  /\ Len(last.data) = last.length
                        /\ \A i \in 1 .. last.length :
                             \E b \in past : /\ \A t \in Target(last.layer, last.offset + i - 1) : InBuffer(b, t)
                                             /\ last.data[i] = ByteAt(b, last.layer, last.offset + i - 1)
      BY DEF BytesWereThere
    <2>1. Len(last.data) = last.length /\ RightBytes(past, Len(buffer), last.layer, last.offset, last.pad, last.data)
      BY DEF IInv, ReadAnswered
    <2>2. ASSUME NEW i \in 1 .. last.length
          PROVE  \E b \in past : /\ \A t \in Target(last.layer, last.offset + i - 1) : InBuffer(b, t)
                                 /\ last.data[i] = ByteAt(b, last.layer, last.offset + i - 1)
      <3>1. PICK size, layer, a : size = Len(buffer) /\ layer = last.layer /\ a = last.offset + i - 1
        OBVIOUS
      <3>2. RightByte(past, size, Found(size, last.pad, layer, a), last.pad, last.data[i])
        BY <2>1, <2>2, <3>1 DEF RightBytes
      <3>3. layer \in Layers /\ size \in Int
        BY <3>1 DEF IInv, TypeOK, OutcomeType
      <3>4. last.pad \/ Found(size, last.pad, layer, a) # {}
        BY <3>2 DEF RightByte
      <3>5. Found(size, last.pad, layer, a) = Target(layer, a)
        BY <3>3, <3>4, FoundLater
      <3> QED BY <3>1, <3>2, <3>5 DEF RightByte, ByteAt
    <2> QED BY <2>1, <2>2
  <1> QED BY <1>1, IOInvariant, PTL

\* Whether a read raises depends on the buffer as it is and on nothing that was read before: what is remembered
\* never hides a failure, and never makes one.
THEOREM FailuresAreCurrent == Spec => []FailureIsCurrent
  <1>1. IInv => FailureIsCurrent
    <2> SUFFICES ASSUME IInv, last.op = "read"
                 PROVE  last.raised <=> ReadFails(last.layer, last.offset, last.length, last.pad)
      BY DEF FailureIsCurrent
    <2>1. CASE last.raised
      BY <2>1 DEF IInv, ReadAnswered
    <2>2. CASE ~last.raised
      <3>1. /\ Len(last.data) = last.length
            /\ RightBytes(past, Len(buffer), last.layer, last.offset, last.pad, last.data)
        BY <2>2 DEF IInv, ReadAnswered
      <3>2. last.offset \in Nat /\ last.length \in Nat /\ Len(buffer) \in Nat
        BY DEF IInv, TypeOK, OutcomeType
      <3>3. ASSUME NEW a \in last.offset .. last.offset + last.length - 1
            PROVE  ~(\/ Found(Len(buffer), last.pad, last.layer, a) = {} /\ ~last.pad
                     \/ \E t \in Found(Len(buffer), last.pad, last.layer, a) : ~InBuffer(buffer, t))
        <4>1. PICK i : i = a - last.offset + 1
          OBVIOUS
        <4>2. i \in 1 .. last.length /\ last.offset + i - 1 = a
          BY <3>2, <3>3, <4>1
        <4>3. RightByte(past, Len(buffer), Found(Len(buffer), last.pad, last.layer, last.offset + i - 1),
                        last.pad, last.data[i])
          BY <3>1, <4>2 DEF RightBytes
        <4> QED BY <4>2, <4>3 DEF RightByte, InBuffer
      <3> QED BY <2>2, <3>3 DEF ReadFails
    <2> QED BY <2>1, <2>2
  <1> QED BY <1>1, IOInvariant, PTL

\* A write that ends, in whatever layer and over whatever segments, has changed the buffer by its data up to the
\* first hole and by nothing else, and has raised if there is a hole.
THEOREM WritesReachTheHole == Spec => []WriteReachesFirstHole
  <1>1. IInv => WriteReachesFirstHole
    BY DEF IInv
  <1> QED BY <1>1, IOInvariant, PTL

-----------------------------------------------------------------------------
\* f starts with first, and each round makes its next value of the one before.
GoesOn(f, n, first, onward) ==
  f = [i \in 0 .. n |-> IF i = 0 THEN first ELSE onward[i][f[i - 1]]]

\* A function that is defined round by round exists, and goes through the sets that the rounds
\* lead to.
LEMMA Rounds ==
  ASSUME NEW n \in Nat, NEW V, NEW first \in V[0], NEW onward,
         \A i \in 1 .. n : \A x \in V[i - 1] : onward[i][x] \in V[i]
  PROVE  \E f : GoesOn(f, n, first, onward) /\ \A i \in 0 .. n : f[i] \in V[i]
  <1> DEFINE W == UNION {V[i] : i \in 0 .. n}
             some == [i \in 1 .. n |-> [x \in W |-> IF x \in V[i - 1] THEN onward[i][x] ELSE first]]
  <1>1. \A i \in 1 .. n : i \in 0 .. n /\ i - 1 \in 0 .. n /\ i # 0
    OBVIOUS
  <1>2. 0 \in 0 .. n
    OBVIOUS
  <1>3. first \in W
    BY <1>2
  <1>4. \A i \in 1 .. n : \A x \in W : (IF x \in V[i - 1] THEN onward[i][x] ELSE first) \in W
    BY <1>1, <1>3
  <1>5. some \in [1 .. n -> [W -> W]]
    <2> HIDE DEF W
    <2> QED BY <1>4
  <1>6. PICK f \in [0 .. n -> W] : Unfolds(f, n, first, some)
    <2> HIDE DEF W, some
    <2> QED BY <1>3, <1>5, Unfold
  <1>7. \A i \in 1 .. n : f[i] = IF f[i - 1] \in V[i - 1] THEN onward[i][f[i - 1]] ELSE first
    <2> HIDE DEF W
    <2> QED BY <1>1, <1>6 DEF Unfolds
  <1>8. \A i \in 0 .. n : f[i] \in V[i]
    <2> DEFINE S == {i \in 0 .. n : f[i] \in V[i]}
    <2>1. 0 \in S
      BY <1>2, <1>6 DEF Unfolds
    <2>2. ASSUME NEW i \in 0 .. n - 1, i \in S PROVE i + 1 \in S
      <3>1. i + 1 \in 1 .. n /\ (i + 1) - 1 = i /\ i + 1 \in 0 .. n
        OBVIOUS
      <3>2. f[i] \in V[i]
        BY <2>2
      <3> QED BY <1>7, <3>1, <3>2
    <2>3. 0 .. n \subseteq S
      <3> HIDE DEF S
      <3> QED BY <2>1, <2>2, UpTo
    <2> QED BY <2>3
  <1>9. \A i \in 0 .. n : f[i] = IF i = 0 THEN first ELSE onward[i][f[i - 1]]
    <2>1. \A i \in 0 .. n : i # 0 => i \in 1 .. n
      OBVIOUS
    <2>2. f[0] = first
      BY <1>6 DEF Unfolds
    <2> QED BY <1>1, <1>7, <1>8, <2>1, <2>2
  <1>10. f = [i \in 0 .. n |-> IF i = 0 THEN first ELSE onward[i][f[i - 1]]]
    <2> HIDE DEF W
    <2> QED BY <1>6, <1>9
  <1> QED BY <1>8, <1>10 DEF GoesOn

\* The same of all functions with such a definition.
LEMMA RoundsLead ==
  ASSUME NEW n \in Nat, NEW V, NEW f, f[0] \in V[0],
         \A i \in 1 .. n : f[i - 1] \in V[i - 1] => f[i] \in V[i]
  PROVE  \A i \in 0 .. n : f[i] \in V[i]
  <1> DEFINE S == {i \in 0 .. n : f[i] \in V[i]}
  <1>1. 0 \in S
    OBVIOUS
  <1>2. ASSUME NEW i \in 0 .. n - 1, i \in S PROVE i + 1 \in S
    <2>1. i + 1 \in 1 .. n /\ (i + 1) - 1 = i /\ i + 1 \in 0 .. n /\ f[i] \in V[i]
      BY <1>2
    <2> QED BY <2>1
  <1>3. 0 .. n \subseteq S
    <2> HIDE DEF S
    <2> QED BY <1>1, <1>2, UpTo
  <1> QED BY <1>3

\* What FlattenSeq puts together, sequence by sequence.
LEMMA FlattenIs ==
  ASSUME NEW X, NEW s \in Seq(Seq(X))
  PROVE  \E f : /\ f[0] = <<>>
                /\ \A i \in 1 .. Len(s) : f[i] = f[i - 1] \o s[i]
                /\ \A i \in 0 .. Len(s) : f[i] \in Seq(X)
                /\ FlattenSeq(s) = f[Len(s)]
  <1>1. PICK n : n = Len(s)
    OBVIOUS
  <1>2. n \in Nat /\ \A i \in 1 .. n : s[i] \in Seq(X)
    BY <1>1
  <1> DEFINE V == [i \in 0 .. n |-> Seq(X)]
             onward == [i \in 1 .. n |-> [x \in Seq(X) |-> IF i = 1 THEN s[i] ELSE x \o s[i]]]
             Def(f) == f = [i \in 1 .. Len(s) |-> IF i = 1 THEN s[i] ELSE f[i - 1] \o s[i]]
             w == CHOOSE f : Def(f)
  <1>3. <<>> \in V[0]
    BY <1>2
  <1>4. \A i \in 1 .. n : \A x \in Seq(X) : (IF i = 1 THEN s[i] ELSE x \o s[i]) \in Seq(X)
    BY <1>2, ItemsOfBoth
  <1>5. \A i \in 1 .. n : \A x \in V[i - 1] : onward[i][x] \in V[i]
    <2> SUFFICES ASSUME NEW i \in 1 .. n, NEW x \in V[i - 1] PROVE onward[i][x] \in V[i]
      OBVIOUS
    <2>1. i - 1 \in 0 .. n /\ i \in 0 .. n
      BY <1>2
    <2>2. x \in Seq(X) /\ V[i] = Seq(X)
      BY <2>1
    <2> QED BY <1>4, <2>2
  <1>6. PICK g : /\ g = [i \in 0 .. n |-> IF i = 0 THEN <<>> ELSE onward[i][g[i - 1]]]
                 /\ \A i \in 0 .. n : g[i] \in V[i]
    <2>1. PICK e, U, o : e = <<>> /\ U = V /\ o = onward
      OBVIOUS
    <2>2. e \in U[0] /\ \A i \in 1 .. n : \A x \in U[i - 1] : o[i][x] \in U[i]
      <3> HIDE DEF V, onward
      <3> QED BY <1>3, <1>5, <2>1
    <2>3. PICK g : GoesOn(g, n, e, o) /\ \A i \in 0 .. n : g[i] \in U[i]
      <3> HIDE DEF V, onward
      <3> QED BY <1>2, <2>2, Rounds
    <2> HIDE DEF V, onward
    <2> QED BY <2>1, <2>3 DEF GoesOn
  <1>7. \A i \in 0 .. n : g[i] \in Seq(X)
    BY <1>6
  <1>8. \A i \in 1 .. n : g[i] = IF i = 1 THEN s[i] ELSE g[i - 1] \o s[i]
    <2>1. \A i \in 1 .. n : i \in 0 .. n /\ i - 1 \in 0 .. n /\ i # 0
      BY <1>2
    <2>2. \A i \in 1 .. n : g[i] = onward[i][g[i - 1]]
      <3> HIDE DEF onward
      <3> QED BY <1>6, <2>1
    <2> QED BY <1>7, <2>1, <2>2
  <1>9. Def([i \in 1 .. n |-> g[i]])
    <2>1. PICK h : h = [i \in 1 .. n |-> g[i]]
      OBVIOUS
    <2>2. \A i \in 1 .. n : i # 1 => i - 1 \in 1 .. n
      BY <1>2
    <2>3. \A i \in 1 .. n : h[i] = IF i = 1 THEN s[i] ELSE h[i - 1] \o s[i]
      BY <1>8, <2>1, <2>2
    <2>4. h = [i \in 1 .. n |-> IF i = 1 THEN s[i] ELSE h[i - 1] \o s[i]]
      BY <2>1, <2>3
    <2> QED BY <1>1, <2>1, <2>4
  <1>10. Def(w)
    <2> HIDE DEF Def
    <2> QED BY <1>9
  <1>11. FlattenSeq(s) = IF Len(s) = 0 THEN s ELSE w[Len(s)]
    BY DEF FlattenSeq
  <1> HIDE DEF w
  <1>12. \A i \in 1 .. n : w[i] = IF i = 1 THEN s[i] ELSE w[i - 1] \o s[i]
    BY <1>1, <1>10
  <1> HIDE DEF Def
  <1>13. PICK f : f = [i \in 0 .. n |-> IF i = 0 THEN <<>> ELSE w[i]]
    OBVIOUS
  <1>14. f[0] = <<>>
    BY <1>2, <1>13
  <1>15. \A i \in 1 .. n : f[i] = f[i - 1] \o s[i]
    <2> SUFFICES ASSUME NEW i \in 1 .. n PROVE f[i] = f[i - 1] \o s[i]
      OBVIOUS
    <2>1. f[i] = w[i] /\ i - 1 \in 0 .. n
      BY <1>2, <1>13
    <2>2. CASE i = 1
      <3>1. s[i] \in Seq(X) /\ <<>> \o s[i] = s[i]
        BY <1>2
      <3>2. w[i] = s[i]
        BY <1>12, <2>2
      <3>3. f[i - 1] = <<>>
        BY <1>14, <2>2
      <3> QED BY <2>1, <3>1, <3>2, <3>3
    <2>3. CASE i # 1
      <3>1. i - 1 \in 1 .. n /\ i - 1 # 0
        BY <1>2, <2>3
      <3>2. f[i - 1] = w[i - 1]
        BY <1>13, <2>1, <3>1
      <3> QED BY <1>12, <2>1, <2>3, <3>2
    <2> QED BY <2>2, <2>3
  <1>16. \A i \in 0 .. n : f[i] \in Seq(X)
    <2>1. f[0] \in V[0]
      BY <1>3, <1>14
    <2>2. \A i \in 1 .. n : f[i - 1] \in V[i - 1] => f[i] \in V[i]
      <3> SUFFICES ASSUME NEW i \in 1 .. n, f[i - 1] \in V[i - 1] PROVE f[i] \in V[i]
        OBVIOUS
      <3>1. i - 1 \in 0 .. n /\ i \in 0 .. n
        BY <1>2
      <3>2. PICK a, b : a = f[i - 1] /\ b = s[i]
        OBVIOUS
      <3>3. a \in Seq(X) /\ b \in Seq(X)
        BY <1>2, <3>1, <3>2
      <3>4. a \o b \in Seq(X)
        BY <3>3, ItemsOfBoth
      <3> QED BY <1>15, <3>1, <3>2, <3>4
    <2>3. \A i \in 0 .. n : f[i] \in V[i]
      <3> HIDE DEF V
      <3> QED BY <1>2, <2>1, <2>2, RoundsLead
    <2> QED BY <2>3
  <1>17. FlattenSeq(s) = f[n]
    <2>1. CASE n = 0
      <3>1. s = <<>>
        <4>1. \A y : s \in Seq(y) /\ Len(s) = 0 => s = <<>>
          OBVIOUS
        <4> QED BY <1>1, <2>1, <4>1
      <3> QED BY <1>1, <1>11, <1>14, <2>1, <3>1
    <2>2. CASE n # 0
      BY <1>1, <1>2, <1>11, <1>13, <2>2
    <2> QED BY <2>1, <2>2
  <1> QED BY <1>1, <1>14, <1>15, <1>16, <1>17

\* Of no sequences it makes none.
LEMMA FlattenNothing == FlattenSeq(<<>>) = <<>>
  <1>1. PICK s : s = <<>>
    OBVIOUS
  <1>2. s \in Seq(Seq(Nat)) /\ Len(s) = 0
    BY <1>1
  <1>3. PICK f : f[0] = <<>> /\ FlattenSeq(s) = f[Len(s)]
    BY <1>2, FlattenIs
  <1> QED BY <1>1, <1>2, <1>3

\* One sequence more is put at the end.
LEMMA FlattenMore ==
  ASSUME NEW X, NEW s \in Seq(Seq(X)), NEW t \in Seq(Seq(X)), Len(t) = Len(s) + 1,
         \A i \in 1 .. Len(s) : t[i] = s[i]
  PROVE  FlattenSeq(s) \in Seq(X) /\ FlattenSeq(t) = FlattenSeq(s) \o t[Len(t)]
  <1>1. PICK n : n = Len(s)
    OBVIOUS
  <1>2. n \in Nat /\ Len(t) = n + 1
    BY <1>1
  <1>3. PICK f : /\ f[0] = <<>> /\ \A i \in 1 .. n : f[i] = f[i - 1] \o s[i]
                 /\ \A i \in 0 .. n : f[i] \in Seq(X)
                 /\ FlattenSeq(s) = f[n]
    BY <1>1, FlattenIs
  <1>4. PICK g : /\ g[0] = <<>> /\ \A i \in 1 .. n + 1 : g[i] = g[i - 1] \o t[i]
                 /\ FlattenSeq(t) = g[n + 1]
    <2>1. PICK g : /\ g[0] = <<>> /\ \A i \in 1 .. Len(t) : g[i] = g[i - 1] \o t[i]
                   /\ FlattenSeq(t) = g[Len(t)]
      BY FlattenIs
    <2> QED BY <1>2, <2>1
  <1> DEFINE S == {i \in 0 .. n : f[i] = g[i]}
  <1>5. 0 \in S
    BY <1>2, <1>3, <1>4
  <1>6. ASSUME NEW i \in 0 .. n - 1, i \in S PROVE i + 1 \in S
    <2>1. i + 1 \in 1 .. n /\ i + 1 \in 1 .. n + 1 /\ (i + 1) - 1 = i /\ i + 1 \in 0 .. n
      BY <1>2
    <2>2. f[i] = g[i] /\ t[i + 1] = s[i + 1]
      BY <1>1, <1>6, <2>1
    <2>3. f[i + 1] = f[i] \o s[i + 1] /\ g[i + 1] = g[i] \o t[i + 1]
      BY <1>3, <1>4, <2>1
    <2> QED BY <2>1, <2>2, <2>3
  <1>7. 0 .. n \subseteq S
    <2> HIDE DEF S
    <2> QED BY <1>2, <1>5, <1>6, UpTo
  <1>8. n \in 0 .. n /\ n + 1 \in 1 .. n + 1 /\ (n + 1) - 1 = n
    BY <1>2
  <1>9. f[n] = g[n] /\ f[n] \in Seq(X)
    BY <1>3, <1>7, <1>8
  <1> QED BY <1>2, <1>3, <1>4, <1>8, <1>9

\* Where the items of sequences are when these are put together: w says of which sequence each
\* one is, v which of its items.
PlacedBy(F, s, w, v) ==
  /\ \A p \in DOMAIN F : /\ w[p] \in DOMAIN s /\ v[p] \in DOMAIN s[w[p]]
                         /\ F[p] = s[w[p]][v[p]]
  /\ \A p, q \in DOMAIN F : p < q => w[p] < w[q] \/ (w[p] = w[q] /\ v[p] < v[q])

\* Every item of the whole is an item of one of the sequences, and they are in their order.
LEMMA FlattenPlaces ==
  ASSUME NEW X, NEW s \in Seq(Seq(X))
  PROVE  FlattenSeq(s) \in Seq(X) /\ \E w, v : PlacedBy(FlattenSeq(s), s, w, v)
  <1>1. PICK n : n = Len(s)
    OBVIOUS
  <1>2. n \in Nat /\ DOMAIN s = 1 .. n /\ \A i \in 1 .. n : s[i] \in Seq(X)
    BY <1>1
  <1>3. PICK f : /\ f[0] = <<>> /\ \A i \in 1 .. n : f[i] = f[i - 1] \o s[i]
                 /\ \A i \in 0 .. n : f[i] \in Seq(X)
                 /\ FlattenSeq(s) = f[n]
    BY <1>1, FlattenIs
  <1> DEFINE Low(w, i) == \A p \in DOMAIN f[i] : w[p] \in 1 .. i
             S == {i \in 0 .. n : \E w, v : PlacedBy(f[i], s, w, v) /\ Low(w, i)}
  <1>4. 0 \in S
    <2>1. DOMAIN f[0] = {} /\ 0 \in 0 .. n
      BY <1>2, <1>3
    <2>2. PlacedBy(f[0], s, <<>>, <<>>) /\ Low(<<>>, 0)
      BY <2>1 DEF PlacedBy
    <2> QED BY <2>1, <2>2
  <1>5. ASSUME NEW i \in 0 .. n - 1, i \in S PROVE i + 1 \in S
    <2>1. PICK j : j = i + 1
      OBVIOUS
    <2>2. j \in 1 .. n /\ j - 1 = i /\ j \in 0 .. n /\ i \in 0 .. n /\ i \in Nat
      BY <1>2, <2>1
    <2>3. PICK w, v : PlacedBy(f[i], s, w, v) /\ Low(w, i)
      BY <1>5
    <2>4. PICK a, b, c : a = f[i] /\ b = s[j] /\ c = f[j]
      OBVIOUS
    <2>5. a \in Seq(X) /\ b \in Seq(X) /\ c = a \o b
      BY <1>2, <1>3, <2>2, <2>4
    <2>6. PICK m, l : m = Len(a) /\ l = Len(b)
      OBVIOUS
    <2>7. /\ m \in Nat /\ l \in Nat /\ DOMAIN a = 1 .. m /\ DOMAIN b = 1 .. l
          /\ DOMAIN c = 1 .. m + l
          /\ \A p \in 1 .. m : c[p] = a[p]
          /\ \A p \in 1 .. l : c[m + p] = b[p]
      BY <2>5, <2>6, ItemsOfBoth
    <2>8. PICK x, y : /\ x = [p \in 1 .. m + l |-> IF p <= m THEN w[p] ELSE j]
                      /\ y = [p \in 1 .. m + l |-> IF p <= m THEN v[p] ELSE p - m]
      OBVIOUS
    <2>9. \A p \in 1 .. m + l :
            \/ p \in 1 .. m /\ x[p] = w[p] /\ y[p] = v[p] /\ c[p] = a[p]
            \/ p \notin 1 .. m /\ p - m \in 1 .. l /\ x[p] = j /\ y[p] = p - m /\ c[p] = b[p - m] /\ p > m
      <3> SUFFICES ASSUME NEW p \in 1 .. m + l
                   PROVE  \/ p \in 1 .. m /\ x[p] = w[p] /\ y[p] = v[p] /\ c[p] = a[p]
                          \/ p \notin 1 .. m /\ p - m \in 1 .. l /\ x[p] = j /\ y[p] = p - m
                             /\ c[p] = b[p - m] /\ p > m
        OBVIOUS
      <3>1. CASE p <= m
        BY <2>7, <2>8, <3>1
      <3>2. CASE p > m
        <4>1. p - m \in 1 .. l /\ m + (p - m) = p /\ ~(p <= m)
          BY <2>7, <3>2
        <4> QED BY <2>7, <2>8, <3>2, <4>1
      <3> QED BY <2>7, <3>1, <3>2
    <2>10. \A p \in 1 .. m : w[p] \in 1 .. i /\ w[p] \in DOMAIN s /\ v[p] \in DOMAIN s[w[p]] /\ a[p] = s[w[p]][v[p]]
      BY <2>3, <2>4, <2>7 DEF PlacedBy
    <2>11. \A p \in DOMAIN c : /\ x[p] \in DOMAIN s /\ y[p] \in DOMAIN s[x[p]]
                               /\ c[p] = s[x[p]][y[p]] /\ x[p] \in 1 .. j
      <3> SUFFICES ASSUME NEW p \in 1 .. m + l
                   PROVE  /\ x[p] \in DOMAIN s /\ y[p] \in DOMAIN s[x[p]]
                          /\ c[p] = s[x[p]][y[p]] /\ x[p] \in 1 .. j
        BY <2>7
      <3>1. CASE p \in 1 .. m
        <4>1. x[p] = w[p] /\ y[p] = v[p] /\ c[p] = a[p]
          BY <2>9, <3>1
        <4>2. w[p] \in 1 .. i /\ w[p] \in DOMAIN s /\ v[p] \in DOMAIN s[w[p]] /\ a[p] = s[w[p]][v[p]]
          BY <2>10, <3>1
        <4>3. w[p] \in 1 .. j
          BY <2>2, <4>2
        <4> QED BY <4>1, <4>2, <4>3, Zenon
      <3>2. CASE p \notin 1 .. m
        <4>1. p - m \in 1 .. l /\ x[p] = j /\ y[p] = p - m /\ c[p] = b[p - m]
          BY <2>9, <3>2
        <4>2. j \in DOMAIN s /\ j \in 1 .. j /\ s[j] = b /\ p - m \in DOMAIN b
          BY <1>2, <2>2, <2>4, <2>7, <4>1
        <4> QED BY <4>1, <4>2, Zenon
      <3> QED BY <3>1, <3>2
    <2>12. \A p, q \in DOMAIN c : p < q => x[p] < x[q] \/ (x[p] = x[q] /\ y[p] < y[q])
      <3> SUFFICES ASSUME NEW p \in 1 .. m + l, NEW q \in 1 .. m + l, p < q
                   PROVE  x[p] < x[q] \/ (x[p] = x[q] /\ y[p] < y[q])
        BY <2>7
      <3>1. CASE q \in 1 .. m
        <4>1. p \in 1 .. m
          BY <2>7, <3>1
        <4>2. w[p] < w[q] \/ (w[p] = w[q] /\ v[p] < v[q])
          BY <2>3, <2>4, <2>7, <3>1, <4>1 DEF PlacedBy
        <4> QED BY <2>9, <3>1, <4>1, <4>2
      <3>2. CASE q \notin 1 .. m /\ p \in 1 .. m
        <4>1. x[q] = j /\ x[p] = w[p] /\ w[p] \in 1 .. i
          BY <2>9, <2>10, <3>2
        <4> QED BY <2>2, <4>1
      <3>3. CASE q \notin 1 .. m /\ p \notin 1 .. m
        <4>1. x[q] = j /\ x[p] = j /\ y[p] = p - m /\ y[q] = q - m
          BY <2>9, <3>3
        <4> QED BY <2>7, <4>1
      <3> QED BY <3>1, <3>2, <3>3
    <2>13. PlacedBy(c, s, x, y)
      BY <2>11, <2>12 DEF PlacedBy
    <2>14. \A p \in DOMAIN c : x[p] \in 1 .. j
      BY <2>11
    <2> QED BY <2>1, <2>2, <2>4, <2>13, <2>14
  <1>6. 0 .. n \subseteq S
    <2> HIDE DEF S
    <2> QED BY <1>2, <1>4, <1>5, UpTo
  <1>7. n \in S /\ f[n] \in Seq(X)
    BY <1>2, <1>3, <1>6
  <1> QED BY <1>3, <1>7

\* The last item of a sequence, and what replaces it.
LEMMA LastReplaced ==
  ASSUME NEW X, NEW r \in Seq(X), r # <<>>, NEW x \in X
  PROVE  /\ Len(r) \in Nat \ {0} /\ Last(r) = r[Len(r)] /\ Last(r) \in X
         /\ Front(r) \in Seq(X) /\ Len(Front(r)) = Len(r) - 1
         /\ \A i \in 1 .. Len(r) - 1 : Front(r)[i] = r[i]
         /\ Append(Front(r), x) \in Seq(X) /\ Len(Append(Front(r), x)) = Len(r)
         /\ \A i \in 1 .. Len(r) - 1 : Append(Front(r), x)[i] = r[i]
         /\ Append(Front(r), x)[Len(r)] = x
  <1>1. Len(r) \in Nat \ {0} /\ r[Len(r)] \in X
    OBVIOUS
  <1>2. Last(r) = r[Len(r)]
    BY DEF Last
  <1>3. PICK f : f = Front(r)
    OBVIOUS
  <1>4. f \in Seq(X) /\ Len(f) = Len(r) - 1 /\ \A i \in 1 .. Len(r) - 1 : f[i] = r[i]
    <2>1. PICK n : n = Len(r) - 1
      OBVIOUS
    <2>2. n \in Nat /\ n <= Len(r) /\ f = SubSeq(r, 1, n)
      BY <1>1, <1>3, <2>1 DEF Front
    <2>3. f \in Seq(X) /\ Len(f) = n /\ \A i \in 1 .. n : f[i] = r[i]
      BY <1>1, <2>2
    <2> QED BY <2>1, <2>3
  <1>5. PICK g : g = Append(f, x)
    OBVIOUS
  <1>6. /\ g \in Seq(X) /\ Len(g) = Len(f) + 1 /\ g[Len(f) + 1] = x
        /\ \A i \in 1 .. Len(f) : g[i] = f[i]
    BY <1>4, <1>5, ItemsOfMore
  <1>7. Len(f) + 1 = Len(r)
    BY <1>1, <1>4
  <1> QED BY <1>1, <1>2, <1>3, <1>4, <1>5, <1>6, <1>7

\* The last item alone.
LEMMA LastIs ==
  ASSUME NEW X, NEW r \in Seq(X), r # <<>>
  PROVE  Len(r) \in Nat \ {0} /\ Last(r) = r[Len(r)] /\ Last(r) \in X
  <1>1. Len(r) \in Nat \ {0} /\ r[Len(r)] \in X
    OBVIOUS
  <1> QED BY <1>1 DEF Last

\* sorted() has a first section.
LEMMA EarliestIs ==
  ASSUME NEW T \in SUBSET AnySection, T # {}
  PROVE  Earliest(T) \in T /\ \A t \in T : Before(Earliest(T), t)
  <1> DEFINE starts == {t.start : t \in T}
  <1>1. starts \in SUBSET Nat /\ starts # {}
    BY DEF AnySection
  <1>2. PICK a \in starts : \A b \in starts : a <= b
    <2> HIDE DEF starts
    <2> QED BY <1>1, LeastNumber
  <1> DEFINE lengths == {t.length : t \in {u \in T : u.start = a}}
  <1>3. lengths \in SUBSET Nat /\ lengths # {}
    BY DEF AnySection
  <1>4. PICK l \in lengths : \A m \in lengths : l <= m
    <2> HIDE DEF lengths
    <2> QED BY <1>3, LeastNumber
  <1>5. PICK s \in T : s.start = a /\ s.length = l
    OBVIOUS
  <1>6. \A t \in T : Before(s, t)
    <2> SUFFICES ASSUME NEW t \in T PROVE Before(s, t)
      OBVIOUS
    <2>1. t.start \in Nat /\ a \in Nat /\ a <= t.start
      BY <1>1, <1>2 DEF AnySection
    <2>2. t.start = a => l <= t.length
      BY <1>4
    <2> QED BY <1>5, <2>1, <2>2 DEF Before
  <1> QED BY <1>5, <1>6 DEF Earliest

\* Sections one after the other, that do not even touch.
Apart(r) == \A i, j \in DOMAIN r : i < j => EndOf(r[i]) < r[j].start

\* Sections of which every address is in a set.
Within(r, A) == \A i \in DOMAIN r : Addresses(r[i]) \subseteq A

\* What the rounds of the joining keep: the sections joined are apart and cover nothing that the
\* given ones do not, and those that are left start where the last one does, or behind that.
JoinStates == [rest : SUBSET AnySection, result : Seq(AnySection), position : Nat]

JoinInv(x, A) ==
  /\ Apart(x.result) /\ Within(x.result, A) /\ \A s \in x.rest : Addresses(s) \subseteq A
  /\ x.result # <<>> =>
       /\ x.position = EndOf(Last(x.result))
       /\ \A s \in x.rest : s.start >= Last(x.result).start

\* A round of the joining.
LEMMA JoinKeeps ==
  ASSUME NEW x \in JoinStates, NEW A, JoinInv(x, A), x.rest # {}
  PROVE  /\ Join(x) \in JoinStates /\ JoinInv(Join(x), A)
         /\ \E s \in x.rest : Join(x).rest = x.rest \ {s}
  <1>1. PICK s, r, p, y : s = Earliest(x.rest) /\ r = x.result /\ p = x.position /\ y = Join(x)
    OBVIOUS
  <1>2. s \in x.rest /\ \A t \in x.rest : Before(s, t)
    BY <1>1, EarliestIs DEF JoinStates
  <1>3. /\ r \in Seq(AnySection) /\ p \in Nat /\ x.rest \in SUBSET AnySection
        /\ s.start \in Nat /\ s.length \in Nat /\ s \in AnySection
    BY <1>1, <1>2 DEF JoinStates, AnySection
  <1>4. /\ Apart(r) /\ Within(r, A) /\ \A t \in x.rest : Addresses(t) \subseteq A
        /\ r # <<>> => p = EndOf(Last(r)) /\ \A t \in x.rest : t.start >= Last(r).start
    BY <1>1 DEF JoinInv
  <1>5. EndOf(s) \in Nat /\ EndOf(s) = s.start + s.length
    BY <1>3 DEF EndOf
  <1>6. \A t \in x.rest : t.start >= s.start
    <2> SUFFICES ASSUME NEW t \in x.rest PROVE t.start >= s.start
      OBVIOUS
    <2>1. Before(s, t) /\ t.start \in Nat
      BY <1>2, <1>3 DEF AnySection
    <2> QED BY <1>3, <2>1 DEF Before
  <1>7. y.rest = x.rest \ {s} /\ y.position = EndOf(s)
    BY <1>1 DEF Join
  <1>8. \A t \in y.rest : t \in x.rest
    BY <1>7
  <1>9. CASE r # <<>> /\ s.start <= p
    <2>1. PICK n, l, m : n = Len(r) /\ l = r[n] /\ m = Section(l.start, EndOf(s) - l.start)
      OBVIOUS
    <2>2. n \in Nat \ {0} /\ Last(r) = l /\ l \in AnySection
      BY <1>3, <1>9, <2>1, LastIs
    <2>3. l.start \in Nat /\ l.length \in Nat /\ p = l.start + l.length /\ l.start <= s.start
      BY <1>2, <1>4, <1>9, <2>2 DEF AnySection, EndOf
    <2>4. /\ m.start = l.start /\ m.length = EndOf(s) - l.start /\ m.length \in Nat
          /\ m \in AnySection /\ EndOf(m) = EndOf(s)
      <3>1. PICK a, k : a = l.start /\ k = EndOf(s) - a
        OBVIOUS
      <3>2. a \in Nat /\ k \in Nat /\ a + k = EndOf(s)
        BY <1>3, <1>5, <2>3, <3>1
      <3>3. m.start = a /\ m.length = k
        BY <2>1, <3>1 DEF Section
      <3>4. m = [start |-> a, length |-> k]
        BY <2>1, <3>1 DEF Section
      <3>5. m \in AnySection
        BY <3>2, <3>4 DEF AnySection
      <3>6. EndOf(m) = EndOf(s)
        BY <3>2, <3>3 DEF EndOf
      <3> QED BY <3>1, <3>2, <3>3, <3>5, <3>6
    <2>5. PICK q : q = Append(Front(r), m)
      OBVIOUS
    <2>6. y.result = q
      <3>1. y.result = Append(Front(r), Section(Last(r).start, EndOf(s) - Last(r).start))
        BY <1>1, <1>9 DEF Join, Touches
      <3> QED BY <2>1, <2>2, <2>5, <3>1
    <2>7. /\ q \in Seq(AnySection) /\ Len(q) = n /\ q[n] = m
          /\ \A i \in 1 .. n - 1 : q[i] = r[i]
      <3>1. /\ Append(Front(r), m) \in Seq(AnySection) /\ Len(Append(Front(r), m)) = Len(r)
            /\ \A i \in 1 .. Len(r) - 1 : Append(Front(r), m)[i] = r[i]
            /\ Append(Front(r), m)[Len(r)] = m
        BY <1>3, <1>9, <2>4, LastReplaced
      <3> QED BY <2>1, <2>5, <3>1
    <2>8. DOMAIN q = 1 .. n /\ DOMAIN r = 1 .. n /\ q # <<>>
      BY <1>3, <2>1, <2>2, <2>7
    <2>9. Last(q) = m
      BY <2>4, <2>7, <2>8, LastReplaced
    <2>10. Apart(q)
      <3> SUFFICES ASSUME NEW i \in 1 .. n, NEW j \in 1 .. n, i < j PROVE EndOf(q[i]) < q[j].start
        BY <2>8 DEF Apart
      <3>1. i \in 1 .. n - 1 /\ q[i] = r[i] /\ EndOf(r[i]) < r[j].start
        BY <1>4, <2>2, <2>7, <2>8 DEF Apart
      <3>2. q[j].start = r[j].start
        <4>1. CASE j = n
          BY <2>1, <2>4, <2>7, <4>1
        <4>2. CASE j # n
          <5>1. j \in 1 .. n - 1
            BY <2>2, <4>2
          <5> QED BY <2>7, <5>1
        <4> QED BY <4>1, <4>2
      <3> QED BY <3>1, <3>2
    <2>11. Within(q, A)
      <3> SUFFICES ASSUME NEW i \in 1 .. n PROVE Addresses(q[i]) \subseteq A
        BY <2>8 DEF Within
      <3>1. CASE i = n
        <4>1. Addresses(l) \subseteq A /\ Addresses(s) \subseteq A
          BY <1>2, <1>4, <2>1, <2>2, <2>8 DEF Within
        <4>2. Addresses(m) \subseteq Addresses(l) \cup Addresses(s)
          <5>1. PICK a, b, d : a = l.start /\ b = s.start /\ d = EndOf(s)
            OBVIOUS
          <5>2. a \in Nat /\ b \in Nat /\ d \in Nat /\ p \in Nat /\ a <= b /\ b <= p
            BY <1>3, <1>5, <1>9, <2>3, <5>1
          <5>3. EndOf(l) = p /\ m.start = a /\ EndOf(m) = d
            BY <2>3, <2>4, <5>1 DEF EndOf
          <5>4. a .. (d - 1) \subseteq (a .. (p - 1)) \cup (b .. (d - 1))
            BY <5>2
          <5> QED BY <5>1, <5>3, <5>4 DEF Addresses
        <4> QED BY <2>7, <3>1, <4>1, <4>2
      <3>2. CASE i # n
        <4>1. i \in 1 .. n - 1
          BY <2>2, <3>2
        <4> QED BY <1>4, <2>7, <2>8, <4>1 DEF Within
      <3> QED BY <3>1, <3>2
    <2>12. y \in JoinStates
      BY <1>1, <1>3, <1>5, <1>7, <2>6, <2>7 DEF JoinStates, Join
    <2>13. JoinInv(y, A)
      <3>1. \A t \in y.rest : Addresses(t) \subseteq A
        BY <1>4, <1>8
      <3>2. \A t \in y.rest : t.start >= Last(q).start
        <4> SUFFICES ASSUME NEW t \in y.rest PROVE t.start >= m.start
          BY <2>9
        <4>1. t.start >= s.start /\ t.start \in Nat
          BY <1>3, <1>6, <1>8 DEF AnySection
        <4> QED BY <1>3, <2>3, <2>4, <4>1
      <3>3. y.position = EndOf(Last(q))
        BY <1>7, <2>4, <2>9
      <3> QED BY <2>6, <2>10, <2>11, <3>1, <3>2, <3>3 DEF JoinInv
    <2> QED BY <1>1, <1>2, <1>7, <2>12, <2>13
  <1>10. CASE ~(r # <<>> /\ s.start <= p)
    <2>1. PICK n, q : n = Len(r) /\ q = Append(r, s)
      OBVIOUS
    <2>2. y.result = q
      BY <1>1, <1>10, <2>1 DEF Join, Touches
    <2>3. /\ q \in Seq(AnySection) /\ Len(q) = n + 1 /\ q[n + 1] = s /\ n \in Nat
          /\ \A i \in 1 .. n : q[i] = r[i]
      BY <1>3, <2>1, ItemsOfMore
    <2>4. DOMAIN q = 1 .. n + 1 /\ DOMAIN r = 1 .. n /\ q # <<>>
      BY <1>3, <2>1, <2>3
    <2>5. Last(q) = s
      BY <1>3, <2>3, <2>4, LastReplaced
    <2>6. Apart(q)
      <3> SUFFICES ASSUME NEW i \in 1 .. n + 1, NEW j \in 1 .. n + 1, i < j PROVE EndOf(q[i]) < q[j].start
        BY <2>4 DEF Apart
      <3>1. i \in 1 .. n /\ q[i] = r[i]
        BY <2>3
      <3>2. CASE j \in 1 .. n
        BY <1>4, <2>3, <2>4, <3>1, <3>2 DEF Apart
      <3>3. CASE j \notin 1 .. n
        <4>1. q[j] = s /\ r # <<>> /\ n # 0
          <5>1. j = n + 1 /\ n # 0
            BY <2>3, <3>1, <3>3
          <5> QED BY <2>1, <2>3, <5>1
        <4>2. p < s.start /\ p = EndOf(Last(r)) /\ Last(r) = r[n] /\ r[n] \in AnySection
          <5>1. Last(r) = r[n] /\ r[n] \in AnySection
            BY <1>3, <2>1, <4>1, LastIs
          <5>2. p = EndOf(Last(r)) /\ ~(s.start <= p)
            BY <1>4, <1>10, <4>1
          <5> QED BY <1>3, <5>1, <5>2
        <4>3. EndOf(r[i]) <= EndOf(r[n])
          <5>1. CASE i = n
            BY <4>2, <5>1 DEF EndOf, AnySection
          <5>2. CASE i # n
            <6>1. i < n /\ n \in 1 .. n /\ r[i] \in AnySection
              BY <1>3, <2>1, <2>3, <3>1, <5>2
            <6>2. EndOf(r[i]) < r[n].start
              BY <1>4, <2>4, <3>1, <6>1 DEF Apart
            <6> QED BY <4>2, <6>1, <6>2 DEF EndOf, AnySection
          <5> QED BY <5>1, <5>2
        <4>4. r[i] \in AnySection
          BY <1>3, <2>1, <3>1
        <4>5. EndOf(r[i]) \in Nat /\ EndOf(r[n]) \in Nat
          BY <4>2, <4>4 DEF EndOf, AnySection
        <4> QED BY <1>3, <3>1, <4>1, <4>2, <4>3, <4>5
      <3> QED BY <3>2, <3>3
    <2>7. Within(q, A)
      <3> SUFFICES ASSUME NEW i \in 1 .. n + 1 PROVE Addresses(q[i]) \subseteq A
        BY <2>4 DEF Within
      <3>1. CASE i \in 1 .. n
        BY <1>4, <2>3, <2>4, <3>1 DEF Within
      <3>2. CASE i \notin 1 .. n
        <4>1. i = n + 1
          BY <2>3, <3>2
        <4> QED BY <1>2, <1>4, <2>3, <4>1
      <3> QED BY <3>1, <3>2
    <2>8. y \in JoinStates
      BY <1>1, <1>3, <1>5, <1>7, <2>2, <2>3 DEF JoinStates, Join
    <2>9. JoinInv(y, A)
      <3>1. \A t \in y.rest : Addresses(t) \subseteq A
        BY <1>4, <1>8
      <3>2. \A t \in y.rest : t.start >= Last(q).start
        BY <1>6, <1>8, <2>5
      <3>3. y.position = EndOf(Last(q))
        BY <1>7, <2>5
      <3> QED BY <2>2, <2>6, <2>7, <3>1, <3>2, <3>3 DEF JoinInv
    <2> QED BY <1>1, <1>2, <1>7, <2>8, <2>9
  <1> QED BY <1>9, <1>10

\* What the joining makes of sections.
LEMMA JoinedIs ==
  ASSUME NEW T \in SUBSET AnySection, IsFiniteSet(T), NEW A, \A s \in T : Addresses(s) \subseteq A
  PROVE  Joined(T) \in Seq(AnySection) /\ Apart(Joined(T)) /\ Within(Joined(T), A)
  <1>1. PICK n : n = Cardinality(T)
    OBVIOUS
  <1>2. n \in Nat
    BY <1>1, FS_CardinalityType
  <1> DEFINE Good(x, i) == x \in JoinStates /\ JoinInv(x, A) /\ IsFiniteSet(x.rest)
                           /\ Cardinality(x.rest) = n - i
             V == [i \in 0 .. n |-> {x \in JoinStates : Good(x, i)}]
             first == [rest |-> T, result |-> <<>>, position |-> 0]
             onward == [i \in 1 .. n |-> [x \in JoinStates |-> Join(x)]]
             Def(f) == f = [i \in 0 .. Cardinality(T) |->
                              IF i = 0 THEN [rest |-> T, result |-> <<>>, position |-> 0]
                              ELSE Join(f[i - 1])]
             w == CHOOSE f : Def(f)
  <1>3. \A i \in 1 .. n : i \in 0 .. n /\ i - 1 \in 0 .. n /\ i # 0
    BY <1>2
  <1>4. first \in V[0]
    <2>1. PICK x : x = first
      OBVIOUS
    <2>2. x.rest = T /\ x.result = <<>> /\ x.position = 0 /\ x \in JoinStates
      BY <2>1 DEF JoinStates
    <2>3. JoinInv(x, A)
      <3>1. DOMAIN x.result = {}
        BY <2>2
      <3> QED BY <2>2, <3>1 DEF JoinInv, Apart, Within
    <2>4. Good(x, 0)
      BY <1>1, <1>2, <2>2, <2>3
    <2> QED BY <1>2, <2>1, <2>2, <2>4
  <1>5. ASSUME NEW i \in 1 .. n, NEW x \in JoinStates, Good(x, i - 1) PROVE Good(Join(x), i)
    <2>1. Cardinality(x.rest) = n - (i - 1) /\ IsFiniteSet(x.rest) /\ JoinInv(x, A)
      BY <1>5
    <2>2. x.rest # {}
      <3>1. n - (i - 1) # 0
        BY <1>2
      <3> QED BY <2>1, <3>1, FS_EmptySet
    <2>3. /\ Join(x) \in JoinStates /\ JoinInv(Join(x), A)
          /\ \E s \in x.rest : Join(x).rest = x.rest \ {s}
      BY <2>1, <2>2, JoinKeeps
    <2>4. PICK s \in x.rest : Join(x).rest = x.rest \ {s}
      BY <2>3
    <2>5. PICK R, Q : R = x.rest /\ Q = Join(x).rest
      OBVIOUS
    <2>6. IsFiniteSet(R) /\ Q = R \ {s} /\ s \in R
      BY <2>1, <2>4, <2>5
    <2>7. IsFiniteSet(Q) /\ Cardinality(Q) = Cardinality(R) - 1
      BY <2>6, FS_RemoveElement
    <2>8. Cardinality(Q) = n - i
      BY <1>2, <2>1, <2>5, <2>7
    <2> QED BY <2>3, <2>5, <2>7, <2>8
  <1>6. \A i \in 1 .. n : \A x \in V[i - 1] : onward[i][x] \in V[i]
    <2> SUFFICES ASSUME NEW i \in 1 .. n, NEW x \in V[i - 1] PROVE onward[i][x] \in V[i]
      OBVIOUS
    <2>1. x \in JoinStates /\ Good(x, i - 1)
      BY <1>3
    <2>2. Good(Join(x), i)
      BY <1>5, <2>1
    <2> QED BY <1>3, <2>1, <2>2
  <1>7. PICK g : GoesOn(g, n, first, onward) /\ \A i \in 0 .. n : g[i] \in V[i]
    <2>1. PICK e, U, o : e = first /\ U = V /\ o = onward
      OBVIOUS
    <2>2. e \in U[0] /\ \A i \in 1 .. n : \A x \in U[i - 1] : o[i][x] \in U[i]
      <3> HIDE DEF V, onward, first
      <3> QED BY <1>4, <1>6, <2>1
    <2>3. PICK g : GoesOn(g, n, e, o) /\ \A i \in 0 .. n : g[i] \in U[i]
      <3> HIDE DEF V, onward, first
      <3> QED BY <1>2, <2>2, Rounds
    <2> HIDE DEF V, onward, first
    <2> QED BY <2>1, <2>3
  <1>8. Def(g)
    <2>1. \A i \in 0 .. n : i # 0 => onward[i][g[i - 1]] = Join(g[i - 1])
      <3> SUFFICES ASSUME NEW i \in 0 .. n, i # 0 PROVE onward[i][g[i - 1]] = Join(g[i - 1])
        OBVIOUS
      <3>1. i \in 1 .. n /\ i - 1 \in 0 .. n
        BY <1>2
      <3>2. g[i - 1] \in JoinStates
        BY <1>7, <3>1
      <3> QED BY <3>1, <3>2
    <2> HIDE DEF onward
    <2> QED BY <1>1, <1>7, <2>1 DEF GoesOn
  <1>9. Def(w)
    <2> HIDE DEF Def
    <2> QED BY <1>8
  <1>10. Joined(T) = w[n].result
    BY <1>1 DEF Joined, Joining
  <1> HIDE DEF w
  <1>11. w[0] = first /\ \A i \in 1 .. n : w[i] = Join(w[i - 1])
    <2>1. 0 \in 0 .. n
      BY <1>2
    <2> QED BY <1>1, <1>3, <1>9, <2>1
  <1>12. \A i \in 1 .. n : w[i - 1] \in V[i - 1] => w[i] \in V[i]
    <2> SUFFICES ASSUME NEW i \in 1 .. n, w[i - 1] \in V[i - 1] PROVE w[i] \in V[i]
      OBVIOUS
    <2>1. w[i - 1] \in JoinStates /\ Good(w[i - 1], i - 1)
      BY <1>3
    <2>2. Good(Join(w[i - 1]), i)
      <3> HIDE DEF Good
      <3> QED BY <1>5, <2>1
    <2>3. Good(w[i], i)
      <3> HIDE DEF Good
      <3> QED BY <1>11, <2>2
    <2> QED BY <1>3, <2>3
  <1>13. \A i \in 0 .. n : w[i] \in V[i]
    <2> HIDE DEF V, first, Def, Good
    <2> QED BY <1>2, <1>4, <1>11, <1>12, RoundsLead
  <1>14. w[n] \in JoinStates /\ JoinInv(w[n], A)
    BY <1>2, <1>13
  <1> QED BY <1>10, <1>14 DEF JoinStates, JoinInv

\* A piece lies in its section, and in a layer that maps blocks in one of them.
PieceFits(p, section) ==
  /\ p \in AnySection /\ p.length >= 1
  /\ section.start <= p.start /\ EndOf(p) <= EndOf(section)
  /\ image.mapped => \E j \in DOMAIN image.blocks :
                       image.blocks[j].start <= p.start /\ EndOf(p) <= EndOf(image.blocks[j])

\* A chunk has one piece at most.
AnyChunk == [pieces : Seq(AnySection), end : Nat]

ChunkFits(c, section) ==
  c.pieces # <<>> =>
    Len(c.pieces) = 1 /\ PieceFits(c.pieces[1], section) /\ c.end = EndOf(c.pieces[1])

\* A chunk starts behind another one, or where that one's overlap starts, or it is the end of the
\* section of a data layer.
Follows(c, d, section) ==
  c.pieces # <<>> /\ d.pieces # <<>> =>
    \/ EndOf(c.pieces[1]) <= d.pieces[1].start
    \/ c.pieces[1].start + ChunkSize <= d.pieces[1].start
    \/ ~image.mapped /\ EndOf(section) - Overlap <= d.pieces[1].start

GoodChunks(cs, section) ==
  /\ cs \in Seq(AnyChunk)
  /\ \A i \in DOMAIN cs : ChunkFits(cs[i], section)
  /\ \A i, j \in DOMAIN cs : i < j => Follows(cs[i], cs[j], section)

\* One chunk more.
LEMMA GoodMore ==
  ASSUME NEW section, NEW cs, GoodChunks(cs, section), NEW c \in AnyChunk, ChunkFits(c, section),
         \A i \in DOMAIN cs : Follows(cs[i], c, section)
  PROVE  /\ GoodChunks(Append(cs, c), section)
         /\ Len(cs) \in Nat /\ DOMAIN cs = 1 .. Len(cs) /\ DOMAIN Append(cs, c) = 1 .. Len(cs) + 1
         /\ \A i \in DOMAIN cs : Append(cs, c)[i] = cs[i]
         /\ Append(cs, c)[Len(cs) + 1] = c
  <1>1. PICK n, d : n = Len(cs) /\ d = Append(cs, c)
    OBVIOUS
  <1>2. cs \in Seq(AnyChunk)
    BY DEF GoodChunks
  <1>3. /\ d \in Seq(AnyChunk) /\ Len(d) = n + 1 /\ d[n + 1] = c /\ n \in Nat
        /\ \A i \in 1 .. n : d[i] = cs[i]
    BY <1>1, <1>2, ItemsOfMore
  <1>4. DOMAIN cs = 1 .. n /\ DOMAIN d = 1 .. n + 1
    BY <1>1, <1>2, <1>3
  <1>5. \A i \in 1 .. n + 1 : (i \in 1 .. n /\ d[i] = cs[i]) \/ (i = n + 1 /\ d[i] = c)
    BY <1>3
  <1>6. \A i \in 1 .. n + 1 : ChunkFits(d[i], section)
    BY <1>4, <1>5 DEF GoodChunks
  <1>7. \A i, j \in 1 .. n + 1 : i < j => Follows(d[i], d[j], section)
    <2> SUFFICES ASSUME NEW i \in 1 .. n + 1, NEW j \in 1 .. n + 1, i < j
                 PROVE  Follows(d[i], d[j], section)
      OBVIOUS
    <2>1. i \in 1 .. n /\ d[i] = cs[i]
      BY <1>3
    <2>2. CASE j \in 1 .. n /\ d[j] = cs[j]
      BY <1>4, <2>1, <2>2 DEF GoodChunks
    <2>3. CASE d[j] = c
      BY <1>4, <2>1, <2>3
    <2> QED BY <1>5, <2>2, <2>3
  <1>8. GoodChunks(d, section)
    BY <1>3, <1>4, <1>6, <1>7 DEF GoodChunks
  <1> QED BY <1>1, <1>3, <1>4, <1>8

\* A chunk of one piece.
LEMMA ChunkIs ==
  ASSUME NEW p \in AnySection, NEW end \in Nat, NEW c, c = ChunkOf(<<p>>, end)
  PROVE  c \in AnyChunk /\ c.pieces # <<>> /\ Len(c.pieces) = 1 /\ c.pieces[1] = p /\ c.end = end
  <1>1. PICK s : s = <<p>>
    OBVIOUS
  <1>2. s \in Seq(AnySection) /\ Len(s) = 1 /\ s[1] = p /\ s # <<>>
    BY <1>1
  <1>3. c.pieces = s /\ c.end = end /\ c \in AnyChunk
    BY <1>1, <1>2 DEF ChunkOf, AnyChunk
  <1> QED BY <1>2, <1>3

\* What the turns over the section of a data layer keep.
DataStates == [chunks : Seq(AnyChunk), from : Nat]

DataInv(g, section) ==
  /\ GoodChunks(g.chunks, section) /\ section.start <= g.from
  /\ \A i \in DOMAIN g.chunks : g.chunks[i].pieces # <<>> =>
       \/ g.chunks[i].pieces[1].start + ChunkSize <= g.from
       \/ EndOf(section) - Overlap <= g.from

\* One of these turns.
LEMMA CutChunkKeeps ==
  ASSUME ~image.mapped, NEW section \in AnySection, NEW g \in DataStates, DataInv(g, section)
  PROVE  CutChunk(g, EndOf(section)) \in DataStates /\ DataInv(CutChunk(g, EndOf(section)), section)
  <1>1. PICK e, f, cs : e = EndOf(section) /\ f = g.from /\ cs = g.chunks
    OBVIOUS
  <1>2. /\ e \in Nat /\ f \in Nat /\ section.start \in Nat /\ section.start <= f
        /\ ChunkSize \in Nat /\ Overlap \in Nat /\ Overlap < ChunkSize /\ cs \in Seq(AnyChunk)
    BY <1>1, ScannerFits DEF EndOf, AnySection, DataStates, DataInv
  <1>3. CASE f >= e
    BY <1>1, <1>3 DEF CutChunk
  <1>4. CASE ~(f >= e)
    <2>1. PICK z, m : z = Smaller(e - f, ChunkSize + Overlap) /\ m = MovesUp(z)
      OBVIOUS
    <2>2. /\ z \in Nat \ {0} /\ f + z <= e /\ z <= ChunkSize + Overlap
          /\ z = e - f \/ z = ChunkSize + Overlap
      <3>1. PICK x, y : x = e - f /\ y = ChunkSize + Overlap
        OBVIOUS
      <3>2. x \in Nat \ {0} /\ y \in Nat \ {0} /\ f + x = e
        BY <1>2, <1>4, <3>1
      <3>3. z = IF x < y THEN x ELSE y
        BY <2>1, <3>1 DEF Smaller
      <3> QED BY <1>2, <3>1, <3>2, <3>3
    <2>3. /\ m \in Nat
          /\ z > ChunkSize => m = z - Overlap
          /\ z <= ChunkSize => m = z
      BY <1>2, <2>1, <2>2 DEF MovesUp
    <2>4. PICK p, c : p = Section(f, z) /\ c = ChunkOf(<<p>>, f + z)
      OBVIOUS
    <2>5. p \in AnySection /\ p.start = f /\ p.length = z /\ EndOf(p) = f + z
      BY <1>2, <2>2, <2>4 DEF Section, AnySection, EndOf
    <2>6. /\ c \in AnyChunk /\ c.pieces # <<>> /\ Len(c.pieces) = 1
          /\ c.pieces[1] = p /\ c.end = f + z
      <3>1. f + z \in Nat
        BY <1>2, <2>2
      <3> QED BY <2>4, <2>5, <3>1, ChunkIs
    <2>7. ChunkFits(c, section)
      BY <1>1, <1>2, <2>2, <2>5, <2>6 DEF ChunkFits, PieceFits
    <2>8. \A i \in DOMAIN cs : Follows(cs[i], c, section)
      <3> SUFFICES ASSUME NEW i \in DOMAIN cs PROVE Follows(cs[i], c, section)
        OBVIOUS
      <3>1. cs[i].pieces # <<>> =>
              cs[i].pieces[1].start + ChunkSize <= f \/ EndOf(section) - Overlap <= f
        BY <1>1 DEF DataInv
      <3> QED BY <2>5, <2>6, <3>1 DEF Follows
    <2>9. PICK d, n, h : d = Append(cs, c) /\ n = Len(cs) /\ h = CutChunk(g, EndOf(section))
      OBVIOUS
    <2>10. /\ GoodChunks(d, section)
           /\ n \in Nat /\ DOMAIN cs = 1 .. n /\ DOMAIN d = 1 .. n + 1
           /\ \A i \in 1 .. n : d[i] = cs[i]
           /\ d[n + 1] = c
      <3>1. GoodChunks(cs, section)
        BY <1>1 DEF DataInv
      <3> QED BY <2>6, <2>7, <2>8, <2>9, <3>1, GoodMore
    <2>11. h.chunks = d /\ h.from = f + m /\ h = [chunks |-> d, from |-> f + m]
      BY <1>1, <1>4, <2>1, <2>4, <2>9 DEF CutChunk
    <2>12. f + m \in Nat /\ section.start <= f + m
      BY <1>2, <2>3
    <2>13. f + ChunkSize <= f + m \/ e - Overlap <= f + m
      BY <1>2, <2>2, <2>3
    <2>14. \A i \in 1 .. n + 1 : d[i].pieces # <<>> =>
             d[i].pieces[1].start + ChunkSize <= f + m \/ e - Overlap <= f + m
      <3> SUFFICES ASSUME NEW i \in 1 .. n + 1, d[i].pieces # <<>>
                   PROVE  d[i].pieces[1].start + ChunkSize <= f + m \/ e - Overlap <= f + m
        OBVIOUS
      <3>1. CASE i \in 1 .. n
        <4>1. cs[i].pieces[1].start + ChunkSize <= f \/ e - Overlap <= f
          BY <1>1, <2>10, <3>1 DEF DataInv
        <4>2. cs[i].pieces[1].start \in Nat
          <5>1. ChunkFits(cs[i], section)
            BY <1>1, <2>10, <3>1 DEF DataInv, GoodChunks
          <5> QED BY <2>10, <3>1, <5>1 DEF ChunkFits, PieceFits, AnySection
        <4>3. PICK a : a = cs[i].pieces[1].start
          OBVIOUS
        <4>4. d[i].pieces[1].start = a
          BY <2>10, <3>1, <4>3
        <4>5. a \in Nat /\ f \in Nat /\ m \in Nat /\ (a + ChunkSize <= f \/ e - Overlap <= f)
          BY <1>2, <2>3, <4>1, <4>2, <4>3
        <4>6. PICK x : x = e - Overlap
          OBVIOUS
        <4>7. a + ChunkSize <= f + m \/ x <= f + m
          BY <1>2, <4>5, <4>6
        <4> QED BY <4>4, <4>6, <4>7
      <3>2. CASE i \notin 1 .. n
        <4>1. d[i] = c
          BY <2>10, <3>2
        <4> QED BY <2>5, <2>6, <2>13, <4>1
      <3> QED BY <3>1, <3>2
    <2>15. h \in DataStates
      BY <2>10, <2>11, <2>12 DEF DataStates, GoodChunks
    <2>16. DataInv(h, section)
      BY <1>1, <2>10, <2>11, <2>12, <2>14 DEF DataInv
    <2> QED BY <2>9, <2>15, <2>16
  <1> QED BY <1>3, <1>4

\* The chunks of a section of a data layer.
LEMMA DataChunksAreGood ==
  ASSUME ~image.mapped, NEW section \in AnySection
  PROVE  GoodChunks(DataChunks(section), section)
  <1>1. PICK n, e : n = section.length /\ e = EndOf(section)
    OBVIOUS
  <1>2. n \in Nat /\ section.start \in Nat
    BY <1>1 DEF AnySection
  <1> DEFINE Good == {x \in DataStates : DataInv(x, section)}
             V == [i \in 0 .. n |-> Good]
             first == [chunks |-> <<>>, from |-> section.start]
             onward == [i \in 1 .. n |-> [x \in Good |-> CutChunk(x, EndOf(section))]]
             Def(f) == f = [i \in 0 .. section.length |->
                              IF i = 0 THEN [chunks |-> <<>>, from |-> section.start]
                              ELSE CutChunk(f[i - 1], EndOf(section))]
             w == CHOOSE f : Def(f)
  <1>3. \A i \in 1 .. n : i \in 0 .. n /\ i - 1 \in 0 .. n /\ i # 0
    BY <1>2
  <1>4. first \in Good
    <2>1. PICK x : x = first
      OBVIOUS
    <2>2. x.chunks = <<>> /\ x.from = section.start /\ x \in DataStates
      BY <1>2, <2>1 DEF DataStates
    <2>3. <<>> \in Seq(AnyChunk) /\ DOMAIN x.chunks = {}
      BY <2>2
    <2>4. DataInv(x, section)
      BY <1>2, <2>2, <2>3 DEF DataInv, GoodChunks
    <2> QED BY <2>1, <2>2, <2>4
  <1>5. \A x \in Good : CutChunk(x, EndOf(section)) \in Good
    BY CutChunkKeeps
  <1>6. \A i \in 1 .. n : \A x \in V[i - 1] : onward[i][x] \in V[i]
    <2> SUFFICES ASSUME NEW i \in 1 .. n, NEW x \in V[i - 1] PROVE onward[i][x] \in V[i]
      OBVIOUS
    <2>1. x \in Good /\ V[i] = Good
      BY <1>3
    <2> HIDE DEF Good
    <2> QED BY <1>5, <2>1
  <1>7. PICK g : GoesOn(g, n, first, onward) /\ \A i \in 0 .. n : g[i] \in V[i]
    <2>1. PICK a, U, o : a = first /\ U = V /\ o = onward
      OBVIOUS
    <2>2. a \in U[0] /\ \A i \in 1 .. n : \A x \in U[i - 1] : o[i][x] \in U[i]
      <3>1. V[0] = Good
        BY <1>2
      <3> HIDE DEF V, onward, first, Good
      <3> QED BY <1>4, <1>6, <2>1, <3>1
    <2>3. PICK g : GoesOn(g, n, a, o) /\ \A i \in 0 .. n : g[i] \in U[i]
      <3> HIDE DEF V, onward, first
      <3> QED BY <1>2, <2>2, Rounds
    <2> HIDE DEF V, onward, first
    <2> QED BY <2>1, <2>3
  <1>8. Def(g)
    <2>1. \A i \in 0 .. n : i # 0 => onward[i][g[i - 1]] = CutChunk(g[i - 1], EndOf(section))
      <3> SUFFICES ASSUME NEW i \in 0 .. n, i # 0
                   PROVE  onward[i][g[i - 1]] = CutChunk(g[i - 1], EndOf(section))
        OBVIOUS
      <3>1. i \in 1 .. n /\ i - 1 \in 0 .. n
        BY <1>2
      <3>2. g[i - 1] \in Good
        BY <1>7, <3>1
      <3> HIDE DEF Good
      <3> QED BY <3>1, <3>2
    <2> HIDE DEF onward
    <2> QED BY <1>1, <1>7, <2>1 DEF GoesOn
  <1>9. Def(w)
    <2> HIDE DEF Def
    <2> QED BY <1>8
  <1>10. DataChunks(section) = w[n].chunks
    BY <1>1 DEF DataChunks, DataTurns
  <1> HIDE DEF w
  <1>11. w[0] = first /\ \A i \in 1 .. n : w[i] = CutChunk(w[i - 1], EndOf(section))
    <2>1. 0 \in 0 .. n
      BY <1>2
    <2> QED BY <1>1, <1>3, <1>9, <2>1
  <1>12. \A i \in 0 .. n : w[i] \in V[i]
    <2>1. \A i \in 0 .. n : V[i] = Good
      OBVIOUS
    <2> HIDE DEF V, first, Def, Good
    <2>2. w[0] \in V[0]
      BY <1>2, <1>4, <1>11, <2>1
    <2>3. \A i \in 1 .. n : w[i - 1] \in V[i - 1] => w[i] \in V[i]
      BY <1>3, <1>5, <1>11, <2>1
    <2> QED BY <1>2, <2>2, <2>3, RoundsLead
  <1>13. DataInv(w[n], section)
    BY <1>2, <1>12
  <1> QED BY <1>10, <1>13 DEF DataInv

\* What the packing of the blocks of a section keeps, between its turns.
PackStates ==
  [chunks : Seq(AnyChunk), output : Seq(AnySection), start : Nat, position : Nat, from : Nat]

PackInv(g, section) ==
  /\ g.start = g.position
  /\ GoodChunks(g.chunks, section) /\ ChunkFits(ChunkOf(g.output, g.position), section)
  /\ \A i \in DOMAIN g.chunks : Follows(g.chunks[i], ChunkOf(g.output, g.position), section)

\* A chunk that ends by some place, and one that is over with the turns of a block so far.
EndsBy(c, a) == c.pieces # <<>> => EndOf(c.pieces[1]) <= a

OverBy(c, block, from) ==
  EndsBy(c, EndOf(block)) /\ (EndsBy(c, block.start) \/ c.pieces[1].start + ChunkSize <= from)

\* All chunks end by some place.
Clear(g, a) ==
  /\ g.position <= a /\ EndsBy(ChunkOf(g.output, g.position), a)
  /\ \A i \in DOMAIN g.chunks : EndsBy(g.chunks[i], a)

\* The same while a block is packed.
InBlock(g, section, block) ==
  /\ PackInv(g, section)
  /\ g.output = <<>> => g.position = g.from
  /\ block.start <= g.from /\ g.position <= EndOf(block)
  /\ OverBy(ChunkOf(g.output, g.position), block, g.from)
  /\ \A i \in DOMAIN g.chunks : OverBy(g.chunks[i], block, g.from)

\* The part of a block that is in the section.
PartOf(block, section) ==
  /\ block \in AnySection /\ block.length >= 1
  /\ section.start <= block.start /\ EndOf(block) <= EndOf(section)
  /\ image.mapped => \E j \in DOMAIN image.blocks :
                       image.blocks[j].start <= block.start /\ EndOf(block) <= EndOf(image.blocks[j])

\* What the blocks of a layer are.
LEMMA BlocksAre ==
  ASSUME image \in Images
  PROVE  /\ image.blocks \in Seq(AnySection) /\ Len(image.blocks) \in Nat
         /\ DOMAIN image.blocks = 1 .. Len(image.blocks)
         /\ \A j \in DOMAIN image.blocks :
              /\ image.blocks[j] \in AnySection
              /\ image.blocks[j].start \in Nat /\ EndOf(image.blocks[j]) \in Nat
              /\ image.blocks[j].start <= EndOf(image.blocks[j])
         /\ \A j, k \in DOMAIN image.blocks :
              j < k => EndOf(image.blocks[j]) <= image.blocks[k].start
  <1>1. image.blocks \in Seq(AnySection)
    BY ImagesAssumption
  <1>2. \A j \in DOMAIN image.blocks : image.blocks[j] \in AnySection
    BY <1>1
  <1>3. \A s \in AnySection : s.start \in Nat /\ EndOf(s) \in Nat /\ s.start <= EndOf(s)
    BY DEF AnySection, EndOf
  <1>4. Len(image.blocks) \in Nat /\ DOMAIN image.blocks = 1 .. Len(image.blocks)
    BY <1>1
  <1> QED BY <1>1, <1>2, <1>3, <1>4, ImagesAssumption

\* One turn of the packing.
LEMMA PackChunkKeeps ==
  ASSUME image \in Images, NEW section \in AnySection, NEW block, PartOf(block, section),
         NEW g \in PackStates, InBlock(g, section, block)
  PROVE  PackChunk(g, EndOf(block)) \in PackStates /\ InBlock(PackChunk(g, EndOf(block)), section, block)
  <1>1. PICK e, f, cs, out, pos, c0 :
          /\ e = EndOf(block) /\ f = g.from /\ cs = g.chunks /\ out = g.output /\ pos = g.position
          /\ c0 = ChunkOf(out, pos)
    OBVIOUS
  <1>2. /\ e \in Nat /\ f \in Nat /\ pos \in Nat /\ block.start \in Nat /\ block.start <= f
        /\ g.start = pos /\ out \in Seq(AnySection) /\ pos <= e
        /\ ChunkSize \in Nat /\ Overlap \in Nat /\ Overlap < ChunkSize /\ cs \in Seq(AnyChunk)
    BY <1>1, ScannerFits DEF EndOf, AnySection, PackStates, PackInv, InBlock, PartOf
  <1>3. CASE f >= e
    BY <1>1, <1>3 DEF PackChunk
  <1>4. CASE ~(f >= e)
    <2>1. PICK z, q, c, h, ds :
            /\ z = Smaller(e - f, ChunkSize + Overlap) /\ q = Section(f, z)
            /\ c = ChunkOf(<<q>>, f + z) /\ h = PackChunk(g, EndOf(block))
            /\ ds = IF out = <<>> THEN cs ELSE Append(cs, c0)
      OBVIOUS
    <2>2. z \in Nat \ {0} /\ f + z <= e /\ z <= ChunkSize + Overlap
      BY <1>2, <1>4, <2>1 DEF Smaller
    <2>3. q \in AnySection /\ q.start = f /\ q.length = z /\ EndOf(q) = f + z
      BY <1>2, <2>1, <2>2 DEF Section, AnySection, EndOf
    <2>4. /\ c \in AnyChunk /\ c.pieces # <<>> /\ Len(c.pieces) = 1
          /\ c.pieces[1] = q /\ c.end = f + z
      <3>1. f + z \in Nat
        BY <1>2, <2>2
      <3> QED BY <2>1, <2>3, <3>1, ChunkIs
    <2>5. h = [chunks |-> ds, output |-> <<q>>, start |-> f + z, position |-> f + z,
               from |-> f + ChunkSize]
      <3>1. PICK new : new = IF out = <<>> THEN [g EXCEPT !.start = f] ELSE Ship(g, f)
        OBVIOUS
      <3>2. /\ new.chunks = ds /\ new.output = <<>> /\ new.position = f /\ new.start = f
            /\ new.from = f
        <4>1. CASE out = <<>>
          <5>1. pos = f
            BY <1>1, <4>1 DEF InBlock
          <5> QED BY <1>1, <2>1, <3>1, <4>1, <5>1 DEF PackStates
        <4>2. CASE out # <<>>
          <5>1. new = [chunks |-> Append(cs, c0), output |-> <<>>, start |-> f, position |-> f,
                       from |-> f]
            BY <1>1, <3>1, <4>2 DEF Ship
          <5> QED BY <2>1, <4>2, <5>1
        <4> QED BY <4>1, <4>2
      <3>3. PICK size : size = Smaller(e - new.position, ChunkSize + Overlap - (new.position - new.start))
        OBVIOUS
      <3>4. size = z
        <4>1. ChunkSize + Overlap - (f - f) = ChunkSize + Overlap
          BY <1>2
        <4> QED BY <2>1, <3>2, <3>3, <4>1
      <3>5. Take(new, size) = [chunks |-> ds, output |-> <<q>>, start |-> f + z, position |-> f + z,
                               from |-> f]
        <4>1. Append(<<>>, q) = <<q>>
          OBVIOUS
        <4> QED BY <2>1, <3>2, <3>4, <4>1 DEF Take
      <3>6. PICK t : t = Take(new, size)
        OBVIOUS
      <3>7. h = [t EXCEPT !.from = @ + ChunkSize]
        BY <1>1, <1>4, <2>1, <3>1, <3>3, <3>6 DEF PackChunk
      <3> QED BY <3>5, <3>6, <3>7
    <2>6. GoodChunks(cs, section) /\ ChunkFits(c0, section) /\ \A i \in DOMAIN cs : Follows(cs[i], c0, section)
      BY <1>1 DEF InBlock, PackInv
    <2>7. OverBy(c0, block, f) /\ \A i \in DOMAIN cs : OverBy(cs[i], block, f)
      BY <1>1 DEF InBlock
    <2>8. c0 \in AnyChunk
      BY <1>1, <1>2 DEF ChunkOf, AnyChunk
    <2>9. GoodChunks(ds, section) /\ \A i \in DOMAIN ds : OverBy(ds[i], block, f)
      <3>1. CASE out = <<>>
        BY <2>1, <2>6, <2>7, <3>1
      <3>2. CASE out # <<>>
        <4>1. ds = Append(cs, c0)
          BY <2>1, <3>2
        <4>2. /\ GoodChunks(ds, section)
              /\ Len(cs) \in Nat /\ DOMAIN cs = 1 .. Len(cs) /\ DOMAIN ds = 1 .. Len(cs) + 1
              /\ \A i \in DOMAIN cs : ds[i] = cs[i]
              /\ ds[Len(cs) + 1] = c0
          BY <2>6, <2>8, <4>1, GoodMore
        <4>3. \A i \in DOMAIN ds : i \in DOMAIN cs \/ i = Len(cs) + 1
          BY <4>2
        <4> QED BY <2>7, <4>2, <4>3
      <3> QED BY <3>1, <3>2
    <2>10. ChunkFits(c, section)
      <3>1. /\ section.start <= block.start /\ e <= EndOf(section) /\ section.start \in Nat
            /\ EndOf(section) \in Nat
        BY <1>1 DEF PartOf, AnySection, EndOf
      <3>2. image.mapped => \E j \in DOMAIN image.blocks :
              image.blocks[j].start <= q.start /\ EndOf(q) <= EndOf(image.blocks[j])
        <4> SUFFICES ASSUME image.mapped
                     PROVE  \E j \in DOMAIN image.blocks :
                              image.blocks[j].start <= q.start /\ EndOf(q) <= EndOf(image.blocks[j])
          OBVIOUS
        <4>1. PICK j \in DOMAIN image.blocks :
                image.blocks[j].start <= block.start /\ e <= EndOf(image.blocks[j])
          BY <1>1 DEF PartOf
        <4>2. PICK x, y : x = image.blocks[j].start /\ y = EndOf(image.blocks[j])
          OBVIOUS
        <4>3. x \in Nat /\ y \in Nat /\ x <= block.start /\ e <= y
          BY <4>1, <4>2, BlocksAre DEF EndOf
        <4>4. x <= q.start /\ EndOf(q) <= y
          BY <1>2, <2>2, <2>3, <4>3
        <4> QED BY <4>2, <4>4
      <3>3. q.length >= 1 /\ section.start <= q.start /\ EndOf(q) <= EndOf(section)
        BY <1>2, <2>2, <2>3, <3>1
      <3>4. PieceFits(q, section)
        BY <2>3, <3>2, <3>3 DEF PieceFits
      <3> QED BY <2>3, <2>4, <3>4 DEF ChunkFits
    <2>11. \A i \in DOMAIN ds : ds[i].pieces # <<>> => ds[i].pieces[1].start \in Nat /\ EndOf(ds[i].pieces[1]) \in Nat
      <3> SUFFICES ASSUME NEW i \in DOMAIN ds, ds[i].pieces # <<>>
                   PROVE  ds[i].pieces[1].start \in Nat /\ EndOf(ds[i].pieces[1]) \in Nat
        OBVIOUS
      <3>1. ds[i].pieces[1] \in AnySection
        BY <2>9 DEF GoodChunks, ChunkFits, PieceFits
      <3> QED BY <3>1 DEF AnySection, EndOf
    <2>12. \A i \in DOMAIN ds : Follows(ds[i], c, section)
      <3> SUFFICES ASSUME NEW i \in DOMAIN ds, ds[i].pieces # <<>>
                   PROVE  \/ EndOf(ds[i].pieces[1]) <= q.start
                          \/ ds[i].pieces[1].start + ChunkSize <= q.start
        BY <2>4 DEF Follows
      <3>1. OverBy(ds[i], block, f)
        BY <2>9
      <3> QED BY <1>2, <2>3, <2>11, <3>1 DEF OverBy, EndsBy
    <2>13. \A i \in DOMAIN ds : OverBy(ds[i], block, f + ChunkSize)
      <3> SUFFICES ASSUME NEW i \in DOMAIN ds PROVE OverBy(ds[i], block, f + ChunkSize)
        OBVIOUS
      <3>1. OverBy(ds[i], block, f)
        BY <2>9
      <3>2. CASE ds[i].pieces = <<>>
        BY <3>2 DEF OverBy, EndsBy
      <3>3. CASE ds[i].pieces # <<>>
        BY <1>2, <2>11, <3>1, <3>3 DEF OverBy, EndsBy
      <3> QED BY <3>2, <3>3
    <2>14. OverBy(c, block, f + ChunkSize)
      BY <1>1, <1>2, <2>2, <2>3, <2>4 DEF OverBy, EndsBy
    <2>15. /\ h.chunks = ds /\ h.output = <<q>> /\ h.start = f + z /\ h.position = f + z
           /\ h.from = f + ChunkSize /\ <<q>> # <<>>
           /\ ChunkOf(h.output, h.position) = c
      BY <2>1, <2>5
    <2>16. h \in PackStates
      <3>1. <<q>> \in Seq(AnySection) /\ ds \in Seq(AnyChunk)
        BY <2>3, <2>9 DEF GoodChunks
      <3>2. f + z \in Nat /\ f + ChunkSize \in Nat
        BY <1>2, <2>2
      <3> QED BY <2>5, <3>1, <3>2 DEF PackStates
    <2>17. PackInv(h, section)
      BY <2>9, <2>10, <2>12, <2>15 DEF PackInv
    <2>18. block.start <= f + ChunkSize /\ f + z <= EndOf(block)
      BY <1>1, <1>2, <2>2
    <2>19. InBlock(h, section, block)
      BY <2>13, <2>14, <2>15, <2>17, <2>18 DEF InBlock
    <2> QED BY <2>1, <2>16, <2>19
  <1> QED BY <1>3, <1>4

\* What the turns over a block start from.
LEMMA BeginBlockKeeps ==
  ASSUME image \in Images, NEW section \in AnySection, NEW block, PartOf(block, section),
         NEW g \in PackStates, PackInv(g, section), Clear(g, block.start)
  PROVE  BeginBlock(g, block) \in PackStates /\ InBlock(BeginBlock(g, block), section, block)
  <1>1. PICK a, cs, out, pos, c0, h :
          /\ a = block.start /\ cs = g.chunks /\ out = g.output /\ pos = g.position
          /\ c0 = ChunkOf(out, pos) /\ h = BeginBlock(g, block)
    OBVIOUS
  <1>2. /\ a \in Nat /\ pos \in Nat /\ g.start = pos /\ out \in Seq(AnySection) /\ pos <= a
        /\ cs \in Seq(AnyChunk) /\ a <= EndOf(block) /\ EndOf(block) \in Nat
    BY <1>1 DEF EndOf, AnySection, PackStates, PackInv, PartOf, Clear
  <1>3. /\ GoodChunks(cs, section) /\ ChunkFits(c0, section)
        /\ \A i \in DOMAIN cs : Follows(cs[i], c0, section)
        /\ EndsBy(c0, a) /\ \A i \in DOMAIN cs : EndsBy(cs[i], a)
    BY <1>1 DEF PackInv, Clear
  <1>4. c0 \in AnyChunk
    BY <1>1, <1>2 DEF ChunkOf, AnyChunk
  <1>5. \A c \in AnyChunk : ChunkFits(c, section) /\ EndsBy(c, a) => OverBy(c, block, a)
    <2> SUFFICES ASSUME NEW c \in AnyChunk, ChunkFits(c, section), EndsBy(c, a)
                 PROVE  OverBy(c, block, a)
      OBVIOUS
    <2>1. CASE c.pieces = <<>>
      BY <2>1 DEF OverBy, EndsBy
    <2>2. CASE c.pieces # <<>>
      <3>1. c.pieces[1] \in AnySection
        BY <2>2 DEF ChunkFits, PieceFits
      <3>2. EndOf(c.pieces[1]) \in Nat /\ EndOf(c.pieces[1]) <= a
        BY <2>2, <3>1 DEF AnySection, EndOf, EndsBy
      <3>3. EndOf(c.pieces[1]) <= EndOf(block)
        BY <1>2, <3>2
      <3> QED BY <1>1, <3>2, <3>3 DEF OverBy, EndsBy
    <2> QED BY <2>1, <2>2
  <1>6. CASE pos < a
    <2>1. PICK ds : ds = Append(cs, c0)
      OBVIOUS
    <2>2. h = [chunks |-> ds, output |-> <<>>, start |-> a, position |-> a, from |-> a]
      <3>1. PICK fresh : fresh = Ship(g, a)
        OBVIOUS
      <3>2. fresh = [chunks |-> ds, output |-> <<>>, start |-> a, position |-> a, from |-> g.from]
        BY <1>1, <2>1, <3>1 DEF Ship
      <3>3. h = [fresh EXCEPT !.from = fresh.position]
        <4>1. ~(fresh.position # fresh.start)
          BY <3>2
        <4> QED BY <1>1, <1>6, <3>1, <4>1 DEF BeginBlock
      <3> QED BY <3>2, <3>3
    <2>3. /\ GoodChunks(ds, section)
          /\ Len(cs) \in Nat /\ DOMAIN cs = 1 .. Len(cs) /\ DOMAIN ds = 1 .. Len(cs) + 1
          /\ \A i \in DOMAIN cs : ds[i] = cs[i]
          /\ ds[Len(cs) + 1] = c0
      BY <1>3, <1>4, <2>1, GoodMore
    <2>4. \A i \in DOMAIN ds : EndsBy(ds[i], a)
      <3>1. \A i \in DOMAIN ds : i \in DOMAIN cs \/ i = Len(cs) + 1
        BY <2>3
      <3> QED BY <1>3, <2>3, <3>1
    <2>5. \A i \in DOMAIN ds : OverBy(ds[i], block, a)
      <3>1. \A i \in DOMAIN ds : ds[i] \in AnyChunk /\ ChunkFits(ds[i], section)
        BY <2>3 DEF GoodChunks
      <3> QED BY <1>5, <2>4, <3>1
    <2>6. PICK c : c = ChunkOf(<<>>, a)
      OBVIOUS
    <2>7. c.pieces = <<>>
      BY <2>6 DEF ChunkOf
    <2>8. ChunkFits(c, section) /\ OverBy(c, block, a) /\ \A i \in DOMAIN ds : Follows(ds[i], c, section)
      BY <2>7 DEF ChunkFits, OverBy, EndsBy, Follows
    <2>9. /\ h.chunks = ds /\ h.output = <<>> /\ h.start = a /\ h.position = a /\ h.from = a
          /\ ChunkOf(h.output, h.position) = c
      BY <2>2, <2>6
    <2>10. h \in PackStates
      <3>1. <<>> \in Seq(AnySection) /\ ds \in Seq(AnyChunk)
        BY <2>3 DEF GoodChunks
      <3> QED BY <1>2, <2>2, <3>1 DEF PackStates
    <2>11. PackInv(h, section)
      BY <2>3, <2>8, <2>9 DEF PackInv
    <2>12. InBlock(h, section, block)
      BY <1>1, <1>2, <2>5, <2>8, <2>9, <2>11 DEF InBlock
    <2> QED BY <1>1, <2>10, <2>12
  <1>7. CASE ~(pos < a)
    <2>1. pos = a
      BY <1>2, <1>7
    <2>2. h = [g EXCEPT !.from = pos]
      BY <1>1, <1>2, <1>7 DEF BeginBlock
    <2>3. /\ h.chunks = cs /\ h.output = out /\ h.start = pos /\ h.position = pos /\ h.from = pos
          /\ ChunkOf(h.output, h.position) = c0
      BY <1>1, <1>2, <2>2 DEF PackStates
    <2>4. h \in PackStates
      BY <1>1, <1>2, <2>2 DEF PackStates
    <2>5. PackInv(h, section)
      BY <1>3, <2>3 DEF PackInv
    <2>6. OverBy(c0, block, a) /\ \A i \in DOMAIN cs : OverBy(cs[i], block, a)
      <3>1. \A i \in DOMAIN cs : cs[i] \in AnyChunk /\ ChunkFits(cs[i], section)
        BY <1>3 DEF GoodChunks
      <3> QED BY <1>3, <1>4, <1>5, <3>1
    <2>7. InBlock(h, section, block)
      BY <1>1, <1>2, <2>1, <2>3, <2>5, <2>6 DEF InBlock
    <2> QED BY <1>1, <2>4, <2>7
  <1> QED BY <1>6, <1>7

\* The packing of a block: all chunks so far end by its end.
LEMMA BlockTurnsKeep ==
  ASSUME image \in Images, NEW section \in AnySection, NEW block, PartOf(block, section),
         NEW g \in PackStates, PackInv(g, section), Clear(g, block.start)
  PROVE  LET h == BlockTurns(g, block)[block.length]
         IN h \in PackStates /\ PackInv(h, section) /\ Clear(h, EndOf(block))
  <1>1. PICK n, e : n = block.length /\ e = EndOf(block)
    OBVIOUS
  <1>2. n \in Nat
    BY <1>1 DEF AnySection, PartOf
  <1> DEFINE Good == {x \in PackStates : InBlock(x, section, block)}
             V == [i \in 0 .. n |-> Good]
             first == BeginBlock(g, block)
             onward == [i \in 1 .. n |-> [x \in Good |-> PackChunk(x, EndOf(block))]]
             Def(f) == f = [i \in 0 .. block.length |->
                              IF i = 0 THEN BeginBlock(g, block)
                              ELSE PackChunk(f[i - 1], EndOf(block))]
             w == CHOOSE f : Def(f)
  <1>3. \A i \in 1 .. n : i \in 0 .. n /\ i - 1 \in 0 .. n /\ i # 0
    BY <1>2
  <1>4. first \in Good
    BY BeginBlockKeeps
  <1>5. \A x \in Good : PackChunk(x, EndOf(block)) \in Good
    BY PackChunkKeeps
  <1>6. \A i \in 1 .. n : \A x \in V[i - 1] : onward[i][x] \in V[i]
    <2> SUFFICES ASSUME NEW i \in 1 .. n, NEW x \in V[i - 1] PROVE onward[i][x] \in V[i]
      OBVIOUS
    <2>1. x \in Good /\ V[i] = Good
      BY <1>3
    <2> HIDE DEF Good
    <2> QED BY <1>5, <2>1
  <1>7. PICK r : GoesOn(r, n, first, onward) /\ \A i \in 0 .. n : r[i] \in V[i]
    <2>1. PICK a, U, o : a = first /\ U = V /\ o = onward
      OBVIOUS
    <2>2. a \in U[0] /\ \A i \in 1 .. n : \A x \in U[i - 1] : o[i][x] \in U[i]
      <3>1. V[0] = Good
        BY <1>2
      <3> HIDE DEF V, onward, first, Good
      <3> QED BY <1>4, <1>6, <2>1, <3>1
    <2>3. PICK r : GoesOn(r, n, a, o) /\ \A i \in 0 .. n : r[i] \in U[i]
      <3> HIDE DEF V, onward, first
      <3> QED BY <1>2, <2>2, Rounds
    <2> HIDE DEF V, onward, first
    <2> QED BY <2>1, <2>3
  <1>8. Def(r)
    <2>1. \A i \in 0 .. n : i # 0 => onward[i][r[i - 1]] = PackChunk(r[i - 1], EndOf(block))
      <3> SUFFICES ASSUME NEW i \in 0 .. n, i # 0
                   PROVE  onward[i][r[i - 1]] = PackChunk(r[i - 1], EndOf(block))
        OBVIOUS
      <3>1. i \in 1 .. n /\ i - 1 \in 0 .. n
        BY <1>2
      <3>2. r[i - 1] \in Good
        BY <1>7, <3>1
      <3> HIDE DEF Good
      <3> QED BY <3>1, <3>2
    <2> HIDE DEF onward
    <2> QED BY <1>1, <1>7, <2>1 DEF GoesOn
  <1>9. Def(w)
    <2> HIDE DEF Def
    <2> QED BY <1>8
  <1>10. BlockTurns(g, block)[block.length] = w[n]
    BY <1>1 DEF BlockTurns
  <1> HIDE DEF w
  <1>11. w[0] = first /\ \A i \in 1 .. n : w[i] = PackChunk(w[i - 1], EndOf(block))
    <2>1. 0 \in 0 .. n
      BY <1>2
    <2> QED BY <1>1, <1>3, <1>9, <2>1
  <1>12. \A i \in 0 .. n : w[i] \in V[i]
    <2>1. \A i \in 0 .. n : V[i] = Good
      OBVIOUS
    <2> HIDE DEF V, first, Def, Good
    <2>2. w[0] \in V[0]
      BY <1>2, <1>4, <1>11, <2>1
    <2>3. \A i \in 1 .. n : w[i - 1] \in V[i - 1] => w[i] \in V[i]
      BY <1>3, <1>5, <1>11, <2>1
    <2> QED BY <1>2, <2>2, <2>3, RoundsLead
  <1>13. w[n] \in PackStates /\ InBlock(w[n], section, block)
    BY <1>2, <1>12
  <1> HIDE DEF first, Def
  <1>14. PICK h : h = w[n]
    OBVIOUS
  <1>15. h \in PackStates /\ InBlock(h, section, block)
    BY <1>13, <1>14
  <1>16. PackInv(h, section) /\ Clear(h, EndOf(block))
    BY <1>15 DEF InBlock, OverBy, Clear
  <1> QED BY <1>10, <1>14, <1>15, <1>16

\* What ends by a place ends by a later one.
LEMMA ClearLater ==
  ASSUME NEW section, NEW g \in PackStates, PackInv(g, section),
         NEW a \in Nat, NEW b \in Nat, a <= b, Clear(g, a)
  PROVE  Clear(g, b)
  <1>1. \A c : ChunkFits(c, section) /\ EndsBy(c, a) => EndsBy(c, b)
    <2> SUFFICES ASSUME NEW c, ChunkFits(c, section), EndsBy(c, a), c.pieces # <<>>
                 PROVE  EndOf(c.pieces[1]) <= b
      BY DEF EndsBy
    <2>1. c.pieces[1] \in AnySection
      BY DEF ChunkFits, PieceFits
    <2>2. EndOf(c.pieces[1]) \in Nat /\ EndOf(c.pieces[1]) <= a
      BY <2>1 DEF AnySection, EndOf, EndsBy
    <2> QED BY <2>2
  <1>2. ChunkFits(ChunkOf(g.output, g.position), section) /\ \A i \in DOMAIN g.chunks : ChunkFits(g.chunks[i], section)
    BY DEF PackInv, GoodChunks
  <1>3. g.position \in Nat
    BY DEF PackStates
  <1> QED BY <1>1, <1>2, <1>3 DEF Clear

\* The packing of one block of the layer.
LEMMA PackBlockKeeps ==
  ASSUME image \in Images, NEW section \in AnySection, NEW i \in DOMAIN image.blocks,
         NEW g \in PackStates, PackInv(g, section),
         \A j \in DOMAIN image.blocks : j >= i => Clear(g, image.blocks[j].start),
         NEW h, h = PackBlock(g, Part(image.blocks[i], section))
  PROVE  /\ h \in PackStates /\ PackInv(h, section)
         /\ \A j \in DOMAIN image.blocks : j > i => Clear(h, image.blocks[j].start)
  <1>1. PICK b, part, n : b = image.blocks[i] /\ part = Part(b, section) /\ n = part.length
    OBVIOUS
  <1>2. /\ b \in AnySection /\ b.start \in Nat /\ b.length \in Nat /\ EndOf(b) = b.start + b.length
        /\ section.start \in Nat /\ section.length \in Nat
        /\ EndOf(section) = section.start + section.length
    <2>1. b \in AnySection
      BY <1>1, BlocksAre
    <2> QED BY <2>1 DEF AnySection, EndOf
  <1>3. h = IF n <= 0 THEN g ELSE BlockTurns(g, part)[part.length]
    BY <1>1 DEF PackBlock
  <1>4. CASE n <= 0
    <2>1. \A j \in DOMAIN image.blocks : j > i => j >= i
      BY BlocksAre
    <2> QED BY <1>3, <1>4, <2>1
  <1>5. CASE ~(n <= 0)
    <2>1. /\ part.start = Larger(b.start, section.start)
          /\ n = Smaller(EndOf(b), EndOf(section)) - part.start
          /\ part = Section(part.start, n)
      BY <1>1 DEF Part, Section
    <2>2. /\ part.start \in Nat /\ n \in Int /\ part.start >= b.start /\ part.start >= section.start
          /\ part.start + n <= EndOf(b) /\ part.start + n <= EndOf(section)
      BY <1>2, <2>1 DEF Larger, Smaller
    <2>3. n \in Nat /\ n >= 1
      BY <1>5, <2>2
    <2>4. part \in AnySection /\ EndOf(part) = part.start + n /\ EndOf(part) \in Nat
      BY <1>1, <2>1, <2>2, <2>3 DEF AnySection, Section, EndOf
    <2>5. PartOf(part, section)
      BY <1>1, <2>2, <2>3, <2>4 DEF PartOf
    <2>6. Clear(g, part.start)
      <3>1. Clear(g, b.start)
        <4>1. i >= i
          BY BlocksAre
        <4> QED BY <1>1, <4>1
      <3>2. PICK a, c : a = b.start /\ c = part.start
        OBVIOUS
      <3>3. a \in Nat /\ c \in Nat /\ a <= c /\ Clear(g, a)
        BY <1>2, <2>2, <3>1, <3>2
      <3>4. Clear(g, c)
        BY <3>3, ClearLater
      <3> QED BY <3>2, <3>4
    <2>7. h \in PackStates /\ PackInv(h, section) /\ Clear(h, EndOf(part))
      BY <1>3, <1>5, <2>5, <2>6, BlockTurnsKeep
    <2>8. ASSUME NEW j \in DOMAIN image.blocks, j > i PROVE Clear(h, image.blocks[j].start)
      <3>1. PICK a, c : a = EndOf(part) /\ c = image.blocks[j].start
        OBVIOUS
      <3>2. EndOf(b) <= c /\ c \in Nat
        BY <1>1, <2>8, <3>1, BlocksAre
      <3>3. a \in Nat /\ c \in Nat /\ a <= c /\ Clear(h, a)
        BY <1>2, <2>2, <2>4, <2>7, <3>1, <3>2
      <3>4. Clear(h, c)
        BY <2>7, <3>3, ClearLater
      <3> QED BY <3>1, <3>4
    <2> QED BY <2>7, <2>8
  <1> QED BY <1>4, <1>5

\* The chunks of a section of a layer that maps blocks.
LEMMA MappedChunksAreGood ==
  ASSUME image \in Images, NEW section \in AnySection
  PROVE  GoodChunks(MappedChunks(section), section)
  <1>1. PICK n, bs : n = Len(image.blocks) /\ bs = image.blocks
    OBVIOUS
  <1>2. n \in Nat /\ DOMAIN bs = 1 .. n /\ \A j \in 1 .. n : bs[j].start \in Nat
    BY <1>1, BlocksAre
  <1> DEFINE Good(x, i) == x \in PackStates /\ PackInv(x, section)
                           /\ \A j \in DOMAIN bs : j > i => Clear(x, bs[j].start)
             V == [i \in 0 .. n |-> {x \in PackStates : Good(x, i)}]
             first == Unpacked
             onward == [i \in 1 .. n |-> [x \in PackStates |-> PackBlock(x, Part(image.blocks[i], section))]]
             Def(f) == f = [i \in 0 .. Len(image.blocks) |->
                              IF i = 0 THEN Unpacked
                              ELSE PackBlock(f[i - 1], Part(image.blocks[i], section))]
             w == CHOOSE f : Def(f)
  <1>3. \A i \in 1 .. n : i \in 0 .. n /\ i - 1 \in 0 .. n /\ i # 0
    BY <1>2
  <1>4. first \in V[0]
    <2>1. PICK x : x = first
      OBVIOUS
    <2>2. /\ x.chunks = <<>> /\ x.output = <<>> /\ x.start = 0 /\ x.position = 0
          /\ x \in PackStates
      BY <2>1 DEF PackStates, Unpacked
    <2>3. PICK c : c = ChunkOf(x.output, x.position)
      OBVIOUS
    <2>4. c.pieces = <<>> /\ <<>> \in Seq(AnyChunk) /\ DOMAIN x.chunks = {}
      BY <2>2, <2>3 DEF ChunkOf
    <2>5. PackInv(x, section)
      BY <2>2, <2>3, <2>4 DEF PackInv, GoodChunks, ChunkFits
    <2>6. \A a \in Nat : Clear(x, a)
      BY <2>2, <2>3, <2>4 DEF Clear, EndsBy
    <2>7. Good(x, 0)
      BY <1>2, <2>2, <2>5, <2>6
    <2> QED BY <1>2, <2>1, <2>2, <2>7
  <1>5. ASSUME NEW i \in 1 .. n, NEW x \in PackStates, Good(x, i - 1)
        PROVE  Good(PackBlock(x, Part(image.blocks[i], section)), i)
    <2>1. PICK h : h = PackBlock(x, Part(image.blocks[i], section))
      OBVIOUS
    <2>2. i \in DOMAIN image.blocks /\ \A j \in DOMAIN image.blocks : j >= i => j > i - 1
      BY <1>1, <1>2
    <2>3. PackInv(x, section) /\ \A j \in DOMAIN image.blocks : j >= i => Clear(x, image.blocks[j].start)
      BY <1>1, <1>5, <2>2
    <2>4. /\ h \in PackStates /\ PackInv(h, section)
          /\ \A j \in DOMAIN image.blocks : j > i => Clear(h, image.blocks[j].start)
      BY <2>1, <2>2, <2>3, PackBlockKeeps
    <2> QED BY <1>1, <2>1, <2>4
  <1>6. \A i \in 1 .. n : \A x \in V[i - 1] : onward[i][x] \in V[i]
    <2> SUFFICES ASSUME NEW i \in 1 .. n, NEW x \in V[i - 1] PROVE onward[i][x] \in V[i]
      OBVIOUS
    <2>1. x \in PackStates /\ Good(x, i - 1)
      BY <1>3
    <2>2. PICK h : h = PackBlock(x, Part(image.blocks[i], section))
      OBVIOUS
    <2>3. Good(h, i)
      <3> HIDE DEF Good
      <3> QED BY <1>5, <2>1, <2>2
    <2>4. onward[i][x] = h
      BY <2>1, <2>2
    <2>5. h \in V[i]
      BY <1>3, <2>3
    <2> QED BY <2>4, <2>5
  <1>7. PICK r : GoesOn(r, n, first, onward) /\ \A i \in 0 .. n : r[i] \in V[i]
    <2>1. PICK a, U, o : a = first /\ U = V /\ o = onward
      OBVIOUS
    <2>2. a \in U[0] /\ \A i \in 1 .. n : \A x \in U[i - 1] : o[i][x] \in U[i]
      <3> HIDE DEF V, onward, first
      <3> QED BY <1>4, <1>6, <2>1
    <2>3. PICK r : GoesOn(r, n, a, o) /\ \A i \in 0 .. n : r[i] \in U[i]
      <3> HIDE DEF V, onward, first
      <3> QED BY <1>2, <2>2, Rounds
    <2> HIDE DEF V, onward, first
    <2> QED BY <2>1, <2>3
  <1>8. Def(r)
    <2>1. \A i \in 0 .. n : i # 0 => onward[i][r[i - 1]] = PackBlock(r[i - 1], Part(image.blocks[i], section))
      <3> SUFFICES ASSUME NEW i \in 0 .. n, i # 0
                   PROVE  onward[i][r[i - 1]] = PackBlock(r[i - 1], Part(image.blocks[i], section))
        OBVIOUS
      <3>1. i \in 1 .. n /\ i - 1 \in 0 .. n
        BY <1>2
      <3>2. r[i - 1] \in PackStates
        BY <1>7, <3>1
      <3> QED BY <3>1, <3>2
    <2> HIDE DEF onward
    <2> QED BY <1>1, <1>7, <2>1 DEF GoesOn
  <1>9. Def(w)
    <2> HIDE DEF Def
    <2> QED BY <1>8
  <1>10. MappedTurns(section)[Len(image.blocks)] = w[n]
    BY <1>1 DEF MappedTurns
  <1> HIDE DEF w
  <1>11. w[0] = first /\ \A i \in 1 .. n : w[i] = PackBlock(w[i - 1], Part(image.blocks[i], section))
    <2>1. 0 \in 0 .. n
      BY <1>2
    <2> QED BY <1>1, <1>3, <1>9, <2>1
  <1>12. \A i \in 1 .. n : w[i - 1] \in V[i - 1] => w[i] \in V[i]
    <2> SUFFICES ASSUME NEW i \in 1 .. n, w[i - 1] \in V[i - 1] PROVE w[i] \in V[i]
      OBVIOUS
    <2>1. w[i - 1] \in PackStates /\ Good(w[i - 1], i - 1)
      BY <1>3
    <2>2. Good(w[i], i)
      <3> HIDE DEF Good
      <3> QED BY <1>5, <1>11, <2>1
    <2> QED BY <1>3, <2>2
  <1>13. \A i \in 0 .. n : w[i] \in V[i]
    <2> HIDE DEF V, first, Def, Good
    <2> QED BY <1>2, <1>4, <1>11, <1>12, RoundsLead
  <1>14. PICK h : h = w[n]
    OBVIOUS
  <1>15. h \in PackStates /\ PackInv(h, section)
    BY <1>2, <1>13, <1>14
  <1>16. PICK c, ds : c = ChunkOf(h.output, h.position) /\ ds = Append(h.chunks, c)
    OBVIOUS
  <1>17. /\ GoodChunks(h.chunks, section) /\ ChunkFits(c, section) /\ c \in AnyChunk
         /\ \A i \in DOMAIN h.chunks : Follows(h.chunks[i], c, section)
    BY <1>15, <1>16 DEF PackInv, PackStates, ChunkOf, AnyChunk
  <1>18. GoodChunks(ds, section)
    BY <1>16, <1>17, GoodMore
  <1>19. MappedChunks(section) = IF h.output = <<>> THEN h.chunks ELSE ds
    BY <1>10, <1>14, <1>16 DEF MappedChunks, Ship
  <1> QED BY <1>17, <1>18, <1>19

\* A report of a chunk: what stands at the address, in a piece that can be read.
Reports == [at : Nat, is : Seq(Nat)]

Reported(x, n, c) ==
  /\ c.pieces # <<>>
  /\ Addresses(c.pieces[1]) \subseteq Available
  /\ n \in 1 .. ChunkSize /\ n + Width <= c.pieces[1].length + 1
  /\ x.at = c.pieces[1].start + n - 1
  /\ x.is = [i \in 1 .. Width |-> x.at + i - 1]

\* The data of a chunk: what its piece reads, or nothing.
LEMMA DataIs ==
  ASSUME NEW section, NEW c \in AnyChunk, ChunkFits(c, section), NEW data, data = DataOf(c)
  PROVE  \/ data = <<>>
         \/ /\ c.pieces # <<>> /\ Addresses(c.pieces[1]) \subseteq Available
            /\ data = [i \in 1 .. c.pieces[1].length |-> c.pieces[1].start + i - 1]
            /\ data \in Seq(Nat) /\ Len(data) = c.pieces[1].length
  <1>1. PICK s, u : s = c.pieces /\ u = [i \in DOMAIN s |-> ReadPiece(s[i])]
    OBVIOUS
  <1>2. data = FlattenSeq(u)
    BY <1>1 DEF DataOf
  <1>3. s \in Seq(AnySection)
    BY <1>1 DEF AnyChunk
  <1>4. CASE s = <<>>
    <2>1. u \in Seq(Seq(Nat)) /\ Len(u) = 0
      BY <1>1, <1>4
    <2>2. PICK f : f[0] = <<>> /\ FlattenSeq(u) = f[Len(u)]
      BY <2>1, FlattenIs
    <2> QED BY <1>2, <2>1, <2>2
  <1>5. CASE s # <<>>
    <2>1. PICK p, d : p = s[1] /\ d = ReadPiece(p)
      OBVIOUS
    <2>2. Len(s) = 1 /\ PieceFits(p, section)
      BY <1>1, <1>5, <2>1 DEF ChunkFits
    <2>3. DOMAIN s = 1 .. 1
      BY <1>3, <2>2
    <2>4. p.start \in Nat /\ p.length \in Nat
      BY <2>2 DEF PieceFits, AnySection
    <2>5. \/ d = <<>>
          \/ /\ Addresses(p) \subseteq Available
             /\ d = [i \in 1 .. p.length |-> p.start + i - 1]
             /\ d \in Seq(Nat) /\ Len(d) = p.length
      <3>1. CASE Addresses(p) \subseteq Available
        <4>1. d = [i \in 1 .. p.length |-> p.start + i - 1]
          BY <2>1, <3>1 DEF ReadPiece
        <4>2. \A i \in 1 .. p.length : p.start + i - 1 \in Nat
          BY <2>4
        <4>3. d \in Seq(Nat) /\ Len(d) = p.length
          BY <2>4, <4>1, <4>2
        <4> QED BY <3>1, <4>1, <4>3
      <3>2. CASE ~(Addresses(p) \subseteq Available)
        BY <2>1, <3>2 DEF ReadPiece
      <3> QED BY <3>1, <3>2
    <2>6. d \in Seq(Nat)
      <3>1. <<>> \in Seq(Nat)
        OBVIOUS
      <3> QED BY <2>5, <3>1, Zenon
    <2>7. u = [i \in 1 .. 1 |-> ReadPiece(s[i])]
      BY <1>1, <2>3
    <2>8. u \in Seq(Seq(Nat)) /\ Len(u) = 1 /\ u[1] = d
      <3>1. \A i \in 1 .. 1 : ReadPiece(s[i]) = d
        BY <2>1
      <3> QED BY <2>6, <2>7, <3>1
    <2>9. PICK f : /\ f[0] = <<>> /\ \A i \in 1 .. Len(u) : f[i] = f[i - 1] \o u[i]
                   /\ FlattenSeq(u) = f[Len(u)]
      BY <2>8, FlattenIs
    <2>10. f[1] = f[1 - 1] \o u[1] /\ 1 - 1 = 0
      BY <2>8, <2>9
    <2>11. data = <<>> \o d
      BY <1>2, <2>8, <2>9, <2>10
    <2>12. data = d
      BY <2>6, <2>11
    <2> QED BY <1>1, <1>5, <2>1, <2>5, <2>12
  <1> QED BY <1>4, <1>5

\* What a chunk gives: of its piece, every place that is in the chunk proper and has Width bytes.
LEMMA ResultsAre ==
  ASSUME NEW section, NEW c \in AnyChunk, ChunkFits(c, section), NEW r, r = Results(c)
  PROVE  r \in Seq(Reports) /\ \A n \in DOMAIN r : Reported(r[n], n, c)
  <1>1. PICK data, m : data = DataOf(c) /\ m = Larger(0, Reportable(data))
    OBVIOUS
  <1>2. r = [n \in 1 .. m |-> [at |-> c.end - Len(data) + n - 1, is |-> SubSeq(data, n, n + Width - 1)]]
    BY <1>1 DEF Results
  <1>3. ChunkSize \in Nat /\ Width \in Nat \ {0}
    BY ScannerFits
  <1>4. CASE data = <<>>
    <2>1. Len(data) = 0 /\ m = 0
      BY <1>1, <1>3, <1>4 DEF Reportable, Larger, Smaller
    <2> QED BY <1>2, <2>1
  <1>5. CASE data # <<>>
    <2>1. PICK p, l : p = c.pieces[1] /\ l = p.length
      OBVIOUS
    <2>2. /\ c.pieces # <<>> /\ Addresses(p) \subseteq Available
          /\ data = [i \in 1 .. l |-> p.start + i - 1] /\ data \in Seq(Nat) /\ Len(data) = l
      BY <1>1, <1>5, <2>1, DataIs
    <2>3. /\ p.start \in Nat /\ l \in Nat /\ c.end = p.start + l
      BY <2>1, <2>2 DEF ChunkFits, PieceFits, AnySection, EndOf
    <2>4. /\ m \in Nat /\ \A n \in 1 .. m : n \in Nat /\ n >= 1 /\ n <= ChunkSize /\ n <= l - Width + 1
      BY <1>1, <1>3, <2>2, <2>3 DEF Reportable, Larger, Smaller
    <2>5. ASSUME NEW n \in 1 .. m
          PROVE  /\ r[n].at = p.start + n - 1 /\ r[n].at \in Nat
                 /\ r[n].is = [i \in 1 .. Width |-> r[n].at + i - 1] /\ r[n] \in Reports
      <3>1. PICK a, w : a = c.end - Len(data) + n - 1 /\ w = SubSeq(data, n, n + Width - 1)
        OBVIOUS
      <3>2. r[n] = [at |-> a, is |-> w]
        BY <1>2, <3>1
      <3>3. a = p.start + n - 1 /\ a \in Nat
        BY <2>2, <2>3, <2>4, <3>1
      <3>4. n \in Nat /\ n >= 1 /\ n + Width - 1 <= l /\ n + Width - 1 \in Nat
        <4>1. n \in Nat /\ n >= 1 /\ n <= l - Width + 1
          BY <2>4
        <4>2. l \in Nat /\ Width \in Nat /\ Width >= 1
          BY <1>3, <2>3
        <4> QED BY <4>1, <4>2
      <3>5. w \in Seq(Nat) /\ Len(w) = Width /\ \A i \in 1 .. Width : w[i] = data[n + i - 1]
        <4>1. PICK e : e = n + Width - 1
          OBVIOUS
        <4>2. e \in Nat /\ e - n + 1 = Width /\ n <= e /\ n .. e \subseteq 1 .. l
          BY <1>3, <2>3, <3>4, <4>1
        <4>3. \A i \in n .. e : data[i] \in Nat
          <5>1. \A i \in 1 .. l : data[i] \in Nat
            <6>1. data \in Seq(Nat) /\ Len(data) = l
              BY <2>2
            <6> QED BY <6>1
          <5> QED BY <4>2, <5>1
        <4>4. w = SubSeq(data, n, e)
          BY <3>1, <4>1
        <4>5. /\ w \in Seq(Nat) /\ Len(w) = e - n + 1
              /\ \A i \in 1 .. e - n + 1 : w[i] = data[n + i - 1]
          <5>1. n \in Int /\ e \in Int
            BY <3>4, <4>2
          <5>2. /\ SubSeq(data, n, e) \in Seq(Nat)
                /\ Len(SubSeq(data, n, e)) = IF n <= e THEN e - n + 1 ELSE 0
                /\ \A i \in 1 .. e - n + 1 : SubSeq(data, n, e)[i] = data[n + i - 1]
            BY <4>3, <5>1
          <5> QED BY <4>2, <4>4, <5>2
        <4> QED BY <4>2, <4>5
      <3>6. \A i \in 1 .. Width : w[i] = a + i - 1
        <4> SUFFICES ASSUME NEW i \in 1 .. Width PROVE w[i] = a + i - 1
          OBVIOUS
        <4>1. n + i - 1 \in 1 .. l
          BY <1>3, <2>3, <3>4
        <4>2. data[n + i - 1] = p.start + (n + i - 1) - 1
          BY <2>2, <4>1
        <4>3. w[i] = p.start + (n + i - 1) - 1
          BY <3>5, <4>2
        <4>4. p.start \in Nat /\ n \in Nat /\ i \in Nat /\ a = p.start + n - 1
          BY <1>3, <2>3, <3>3, <3>4
        <4>5. p.start + (n + i - 1) - 1 = (p.start + n - 1) + i - 1
          BY <4>4
        <4> QED BY <4>3, <4>4, <4>5
      <3>7. w = [i \in 1 .. Width |-> a + i - 1]
        BY <3>5, <3>6
      <3> QED BY <3>2, <3>3, <3>5, <3>7 DEF Reports
    <2>6. r \in Seq(Reports) /\ DOMAIN r = 1 .. m
      <3>1. DOMAIN r = 1 .. m /\ r = [n \in 1 .. m |-> r[n]]
        BY <1>2
      <3>2. \A n \in 1 .. m : r[n] \in Reports
        BY <2>5
      <3>3. m \in Nat
        BY <2>4
      <3> QED BY <3>1, <3>2, <3>3
    <2>7. \A n \in 1 .. m : Reported(r[n], n, c)
      <3> SUFFICES ASSUME NEW n \in 1 .. m PROVE Reported(r[n], n, c)
        OBVIOUS
      <3>1. n \in 1 .. ChunkSize /\ n + Width <= l + 1
        BY <1>3, <2>3, <2>4
      <3> QED BY <2>1, <2>2, <2>5, <3>1 DEF Reported
    <2> QED BY <2>6, <2>7
  <1> QED BY <1>4, <1>5

\* The chunks of all sections.
ChunksFit(cs) ==
  /\ cs \in Seq(AnyChunk)
  /\ \A i \in DOMAIN cs : \E k \in DOMAIN sections : ChunkFits(cs[i], sections[k])
  /\ \A i, j \in DOMAIN cs : i < j /\ cs[i].pieces # <<>> /\ cs[j].pieces # <<>> =>
       \/ EndOf(cs[i].pieces[1]) <= cs[j].pieces[1].start
       \/ cs[i].pieces[1].start + ChunkSize <= cs[j].pieces[1].start
       \/ /\ ~image.mapped
          /\ \E k \in DOMAIN sections : /\ EndOf(sections[k]) - Overlap <= cs[j].pieces[1].start
                                        /\ EndOf(cs[j].pieces[1]) <= EndOf(sections[k])

LEMMA ChunksAre ==
  ASSUME image \in Images, sections \in Seq(AnySection), Apart(sections)
  PROVE  ChunksFit(Chunks)
  <1>1. PICK s : s = [i \in DOMAIN sections |->
                        IF image.mapped THEN MappedChunks(sections[i]) ELSE DataChunks(sections[i])]
    OBVIOUS
  <1>2. PICK n : n \in Nat /\ n = Len(sections) /\ DOMAIN sections = 1 .. n
    OBVIOUS
  <1>3. \A i \in 1 .. n : sections[i] \in AnySection
    BY <1>2
  <1>4. ASSUME NEW i \in 1 .. n PROVE GoodChunks(s[i], sections[i])
    <2>1. CASE image.mapped
      BY <1>1, <1>2, <1>3, <2>1, MappedChunksAreGood
    <2>2. CASE ~image.mapped
      BY <1>1, <1>2, <1>3, <2>2, DataChunksAreGood
    <2> QED BY <2>1, <2>2
  <1>5. \A i \in 1 .. n : s[i] \in Seq(AnyChunk)
    BY <1>4 DEF GoodChunks
  <1>6. s \in Seq(Seq(AnyChunk)) /\ DOMAIN s = 1 .. n
    BY <1>1, <1>2, <1>5
  <1>7. PICK cs : cs = FlattenSeq(s)
    OBVIOUS
  <1>8. Chunks = cs
    BY <1>1, <1>7 DEF Chunks
  <1>9. cs \in Seq(AnyChunk) /\ \E w, v : PlacedBy(cs, s, w, v)
    BY <1>6, <1>7, FlattenPlaces
  <1>10. PICK w, v : PlacedBy(cs, s, w, v)
    BY <1>9
  <1>11. ASSUME NEW i \in DOMAIN cs
         PROVE  /\ w[i] \in 1 .. n /\ v[i] \in DOMAIN s[w[i]] /\ cs[i] = s[w[i]][v[i]]
                /\ ChunkFits(cs[i], sections[w[i]])
    <2>1. w[i] \in 1 .. n /\ v[i] \in DOMAIN s[w[i]] /\ cs[i] = s[w[i]][v[i]]
      BY <1>6, <1>10 DEF PlacedBy
    <2>2. GoodChunks(s[w[i]], sections[w[i]])
      BY <1>4, <2>1
    <2> QED BY <2>1, <2>2 DEF GoodChunks
  <1>12. ASSUME NEW i \in DOMAIN cs, NEW j \in DOMAIN cs, i < j,
                cs[i].pieces # <<>>, cs[j].pieces # <<>>
         PROVE  \/ EndOf(cs[i].pieces[1]) <= cs[j].pieces[1].start
                \/ cs[i].pieces[1].start + ChunkSize <= cs[j].pieces[1].start
                \/ /\ ~image.mapped
                   /\ \E k \in DOMAIN sections : /\ EndOf(sections[k]) - Overlap <= cs[j].pieces[1].start
                                                 /\ EndOf(cs[j].pieces[1]) <= EndOf(sections[k])
    <2>1. PICK p, q, a, b : /\ p = cs[i].pieces[1] /\ q = cs[j].pieces[1]
                            /\ a = w[i] /\ b = w[j]
      OBVIOUS
    <2>2. a \in 1 .. n /\ b \in 1 .. n /\ PieceFits(p, sections[a]) /\ PieceFits(q, sections[b])
      BY <1>11, <1>12, <2>1 DEF ChunkFits
    <2>3. a < b \/ (a = b /\ v[i] < v[j])
      BY <1>10, <1>12, <2>1 DEF PlacedBy
    <2>4. CASE a < b
      <3>1. EndOf(sections[a]) < sections[b].start
        BY <1>2, <2>2, <2>4 DEF Apart
      <3>2. EndOf(p) <= EndOf(sections[a]) /\ sections[b].start <= q.start
        BY <2>2 DEF PieceFits
      <3>3. p \in AnySection /\ q \in AnySection /\ sections[a] \in AnySection /\ sections[b] \in AnySection
        BY <1>3, <2>2 DEF PieceFits
      <3>4. /\ EndOf(p) \in Nat /\ EndOf(sections[a]) \in Nat
            /\ sections[b].start \in Nat /\ q.start \in Nat
        <4>1. \A x \in AnySection : x.start \in Nat /\ EndOf(x) \in Nat
          BY DEF AnySection, EndOf
        <4> QED BY <3>3, <4>1
      <3>5. EndOf(p) <= q.start
        BY <3>1, <3>2, <3>4
      <3> QED BY <2>1, <3>5
    <2>5. CASE a = b /\ v[i] < v[j]
      <3>1. GoodChunks(s[a], sections[a])
        BY <1>4, <2>2
      <3>2. v[i] \in DOMAIN s[a] /\ v[j] \in DOMAIN s[a] /\ cs[i] = s[a][v[i]] /\ cs[j] = s[a][v[j]]
        BY <1>11, <2>1, <2>5
      <3>3. Follows(cs[i], cs[j], sections[a])
        BY <2>5, <3>1, <3>2 DEF GoodChunks
      <3>4. EndOf(q) <= EndOf(sections[a])
        BY <2>2, <2>5 DEF PieceFits
      <3> QED BY <1>2, <1>12, <2>1, <2>2, <3>3, <3>4 DEF Follows
    <2> QED BY <2>3, <2>4, <2>5
  <1>13. \A i \in DOMAIN cs : \E k \in DOMAIN sections : ChunkFits(cs[i], sections[k])
    BY <1>2, <1>11
  <1>14. ChunksFit(cs)
    BY <1>9, <1>12, <1>13 DEF ChunksFit
  <1> QED BY <1>8, <1>14

\* What the first k chunks give.
Yield(k) == FlattenSeq([n \in 1 .. k |-> Results(chunks[n])])

\* Which chunk each report is of, and which of that one's reports.
GivenBy(y, k, w, v) ==
  \A n \in DOMAIN y :
    /\ w[n] \in 1 .. k /\ Reported(y[n], v[n], chunks[w[n]])
    /\ \A m \in DOMAIN y : n < m => w[n] < w[m] \/ (w[n] = w[m] /\ v[n] < v[m])

\* Every report is one of a chunk, and they are in the order of the chunks.
LEMMA YieldIs ==
  ASSUME ChunksFit(chunks), NEW k \in 0 .. Len(chunks), NEW y, y = Yield(k)
  PROVE  y \in Seq(Reports) /\ \E w, v : GivenBy(y, k, w, v)
  <1>1. PICK s : s = [n \in 1 .. k |-> Results(chunks[n])]
    OBVIOUS
  <1>2. chunks \in Seq(AnyChunk) /\ k \in Nat /\ 1 .. k \subseteq DOMAIN chunks
    BY DEF ChunksFit
  <1>3. \A n \in 1 .. k : s[n] \in Seq(Reports) /\ \A i \in DOMAIN s[n] : Reported(s[n][i], i, chunks[n])
    <2> SUFFICES ASSUME NEW n \in 1 .. k
                 PROVE  s[n] \in Seq(Reports) /\ \A i \in DOMAIN s[n] : Reported(s[n][i], i, chunks[n])
      OBVIOUS
    <2>1. PICK c, r : c = chunks[n] /\ r = s[n]
      OBVIOUS
    <2>2. c \in AnyChunk /\ \E j \in DOMAIN sections : ChunkFits(c, sections[j])
      BY <1>2, <2>1 DEF ChunksFit
    <2>3. PICK section : ChunkFits(c, section)
      BY <2>2
    <2>4. r = Results(c)
      BY <1>1, <2>1
    <2>5. r \in Seq(Reports) /\ \A i \in DOMAIN r : Reported(r[i], i, c)
      BY <2>2, <2>3, <2>4, ResultsAre
    <2> QED BY <2>1, <2>5
  <1>4. s \in Seq(Seq(Reports)) /\ DOMAIN s = 1 .. k
    BY <1>1, <1>2, <1>3
  <1>5. y = FlattenSeq(s)
    BY <1>1 DEF Yield
  <1>6. y \in Seq(Reports) /\ \E w, v : PlacedBy(y, s, w, v)
    BY <1>4, <1>5, FlattenPlaces
  <1>7. PICK w, v : PlacedBy(y, s, w, v)
    BY <1>6
  <1>8. GivenBy(y, k, w, v)
    BY <1>3, <1>4, <1>7 DEF PlacedBy, GivenBy
  <1> QED BY <1>6, <1>8

\* These reports are right, and each is given once.
LEMMA YieldIsRight ==
  ASSUME image \in Images, sections \in Seq(AnySection), Within(sections, Requested),
         ChunksFit(chunks), NEW k \in 0 .. Len(chunks), yielded = Yield(k)
  PROVE  EachOnce
  <1>1. PICK w, v : \A n \in DOMAIN yielded :
          /\ w[n] \in 1 .. k /\ Reported(yielded[n], v[n], chunks[w[n]])
          /\ \A m \in DOMAIN yielded : n < m => w[n] < w[m] \/ (w[n] = w[m] /\ v[n] < v[m])
    <2>1. PICK y : y = yielded
      OBVIOUS
    <2>2. y = Yield(k)
      BY <2>1
    <2>3. PICK w, v : GivenBy(y, k, w, v)
      BY <2>2, YieldIs
    <2> QED BY <2>1, <2>3 DEF GivenBy
  <1>2. ChunkSize \in Nat /\ Overlap \in Nat /\ Width \in Nat \ {0}
    BY ScannerFits
  <1>3. chunks \in Seq(AnyChunk) /\ 1 .. k \subseteq DOMAIN chunks
    BY DEF ChunksFit
  <1>4. ASSUME NEW n \in DOMAIN yielded
        PROVE  /\ w[n] \in DOMAIN chunks /\ w[n] \in Nat
               /\ Reported(yielded[n], v[n], chunks[w[n]])
               /\ \E i \in DOMAIN sections : PieceFits(chunks[w[n]].pieces[1], sections[i])
    <2>1. w[n] \in 1 .. k /\ Reported(yielded[n], v[n], chunks[w[n]])
      BY <1>1
    <2>2. w[n] \in DOMAIN chunks /\ w[n] \in Nat
      BY <1>3, <2>1
    <2>3. PICK i \in DOMAIN sections : ChunkFits(chunks[w[n]], sections[i])
      BY <2>2 DEF ChunksFit
    <2>4. PieceFits(chunks[w[n]].pieces[1], sections[i])
      BY <2>1, <2>3 DEF ChunkFits, Reported
    <2> QED BY <2>1, <2>2, <2>4
  <1>5. ASSUME NEW n \in DOMAIN yielded
        PROVE  /\ yielded[n].is = [i \in 1 .. Width |-> yielded[n].at + i - 1]
               /\ Window(yielded[n].at) \subseteq Requested \cap Available
               /\ InOneBlock(Window(yielded[n].at))
    <2>1. PICK a, p, j : a = yielded[n].at /\ p = chunks[w[n]].pieces[1] /\ j = v[n]
      OBVIOUS
    <2>2. PICK i \in DOMAIN sections : PieceFits(p, sections[i])
      BY <1>4, <2>1
    <2>3. /\ Addresses(p) \subseteq Available /\ j \in 1 .. ChunkSize /\ j + Width <= p.length + 1
          /\ a = p.start + j - 1 /\ yielded[n].is = [x \in 1 .. Width |-> a + x - 1]
      BY <1>4, <2>1 DEF Reported
    <2>4. /\ p.start \in Nat /\ p.length \in Nat /\ EndOf(p) = p.start + p.length
          /\ sections[i].start \in Nat /\ EndOf(sections[i]) \in Nat
      <3>1. p \in AnySection /\ sections[i] \in AnySection
        BY <2>2 DEF PieceFits
      <3> QED BY <3>1 DEF AnySection, EndOf
    <2>5. p.start <= a /\ a + Width <= EndOf(p) /\ a \in Nat
      <3>1. PICK s, l : s = p.start /\ l = p.length
        OBVIOUS
      <3>2. s \in Nat /\ l \in Nat /\ j \in Nat /\ j >= 1 /\ j + Width <= l + 1 /\ a = s + j - 1
        BY <1>2, <2>3, <2>4, <3>1
      <3>3. s <= a /\ a + Width <= s + l /\ a \in Nat
        BY <1>2, <3>2
      <3> QED BY <2>4, <3>1, <3>3
    <2>6. \A x, y \in Nat : x <= a /\ a + Width <= y => Window(a) \subseteq x .. (y - 1)
      BY <1>2, <2>5 DEF Window
    <2>7. Window(a) \subseteq Addresses(p)
      <3>1. PICK x, y : x = p.start /\ y = EndOf(p)
        OBVIOUS
      <3>2. x \in Nat /\ y \in Nat /\ x <= a /\ a + Width <= y
        BY <2>4, <2>5, <3>1
      <3>3. Window(a) \subseteq x .. (y - 1)
        BY <2>6, <3>2
      <3> QED BY <3>1, <3>3 DEF Addresses
    <2>8. Addresses(p) \subseteq Addresses(sections[i])
      BY <2>2, <2>4 DEF PieceFits, Addresses
    <2>9. Addresses(sections[i]) \subseteq Requested
      BY DEF Within
    <2>10. InOneBlock(Window(a))
      <3> SUFFICES ASSUME image.mapped
                   PROVE  \E b \in DOMAIN image.blocks : Window(a) \subseteq Addresses(image.blocks[b])
        BY DEF InOneBlock
      <3>1. PICK b \in DOMAIN image.blocks :
              image.blocks[b].start <= p.start /\ EndOf(p) <= EndOf(image.blocks[b])
        BY <2>2 DEF PieceFits
      <3>2. image.blocks[b].start \in Nat /\ EndOf(image.blocks[b]) \in Nat
        BY BlocksAre
      <3>3. Window(a) \subseteq Addresses(image.blocks[b])
        <4>1. PICK x, y : x = image.blocks[b].start /\ y = EndOf(image.blocks[b])
          OBVIOUS
        <4>2. x \in Nat /\ y \in Nat /\ x <= p.start /\ EndOf(p) <= y
          BY <3>1, <3>2, <4>1
        <4>3. x <= a /\ a + Width <= y
          BY <1>2, <2>4, <2>5, <4>2
        <4>4. Window(a) \subseteq x .. (y - 1)
          BY <2>6, <4>2, <4>3
        <4> QED BY <4>1, <4>4 DEF Addresses
      <3> QED BY <3>3
    <2> QED BY <2>1, <2>3, <2>7, <2>8, <2>9, <2>10
  <1>6. ASSUME NEW n \in DOMAIN yielded, NEW m \in DOMAIN yielded, n < m,
               yielded[n].at = yielded[m].at
        PROVE  /\ ~image.mapped
               /\ \E i \in DOMAIN sections :
                    yielded[n].at \in (EndOf(sections[i]) - Overlap) .. (EndOf(sections[i]) - 1)
    <2>1. PICK a, p, q, i, j : /\ a = yielded[n].at /\ i = v[n] /\ j = v[m]
                               /\ p = chunks[w[n]].pieces[1] /\ q = chunks[w[m]].pieces[1]
      OBVIOUS
    <2>2. /\ i \in 1 .. ChunkSize /\ i + Width <= p.length + 1 /\ a = p.start + i - 1
          /\ j \in 1 .. ChunkSize /\ j + Width <= q.length + 1 /\ a = q.start + j - 1
          /\ chunks[w[n]].pieces # <<>> /\ chunks[w[m]].pieces # <<>>
      BY <1>4, <1>6, <2>1 DEF Reported
    <2>3. p \in AnySection /\ q \in AnySection
      BY <1>4, <2>1 DEF PieceFits
    <2>4. /\ p.start \in Nat /\ p.length \in Nat /\ EndOf(p) = p.start + p.length
          /\ q.start \in Nat /\ q.length \in Nat /\ EndOf(q) = q.start + q.length
      BY <2>3 DEF AnySection, EndOf
    <2>5. a < EndOf(p) /\ a < p.start + ChunkSize /\ q.start <= a /\ a < EndOf(q) /\ a \in Nat
      <3>1. PICK s, l, t, e : s = p.start /\ l = p.length /\ t = q.start /\ e = q.length
        OBVIOUS
      <3>2. /\ s \in Nat /\ l \in Nat /\ i \in Nat /\ i >= 1 /\ i <= ChunkSize
            /\ i + Width <= l + 1 /\ a = s + i - 1
        BY <1>2, <2>2, <2>4, <3>1
      <3>3. t \in Nat /\ e \in Nat /\ j \in Nat /\ j >= 1 /\ j + Width <= e + 1 /\ a = t + j - 1
        BY <1>2, <2>2, <2>4, <3>1
      <3>4. a < s + l /\ a < s + ChunkSize /\ a \in Nat
        BY <1>2, <3>2
      <3>5. t <= a /\ a < t + e
        BY <1>2, <3>3
      <3> QED BY <2>4, <3>1, <3>4, <3>5
    <2>6. w[n] < w[m]
      <3>1. w[n] < w[m] \/ (w[n] = w[m] /\ i < j)
        BY <1>1, <1>6, <2>1
      <3>2. w[n] = w[m] => p = q
        BY <2>1
      <3>3. p = q => i = j
        BY <2>2, <2>4
      <3> QED BY <2>2, <3>1, <3>2, <3>3
    <2>7. w[n] \in DOMAIN chunks /\ w[m] \in DOMAIN chunks
      BY <1>4
    <2>8. \/ EndOf(p) <= q.start
          \/ p.start + ChunkSize <= q.start
          \/ /\ ~image.mapped
             /\ \E k1 \in DOMAIN sections : /\ EndOf(sections[k1]) - Overlap <= q.start
                                            /\ EndOf(q) <= EndOf(sections[k1])
      BY <2>1, <2>2, <2>6, <2>7, SMTT(20) DEF ChunksFit
    <2>9. ~(EndOf(p) <= q.start) /\ ~(p.start + ChunkSize <= q.start)
      BY <1>2, <2>4, <2>5
    <2>10. PICK k1 \in DOMAIN sections : /\ EndOf(sections[k1]) - Overlap <= q.start
                                         /\ EndOf(q) <= EndOf(sections[k1])
      BY <2>8, <2>9
    <2>11. EndOf(sections[k1]) \in Nat
      <3>1. sections[k1] \in AnySection
        OBVIOUS
      <3> QED BY <3>1 DEF AnySection, EndOf
    <2>12. a \in (EndOf(sections[k1]) - Overlap) .. (EndOf(sections[k1]) - 1)
      <3>1. PICK x, t, e : x = EndOf(sections[k1]) /\ t = q.start /\ e = EndOf(q)
        OBVIOUS
      <3>2. x \in Nat /\ t \in Nat /\ e \in Nat /\ x - Overlap <= t /\ e <= x /\ t <= a /\ a < e
        BY <2>4, <2>5, <2>10, <2>11, <3>1
      <3>3. a \in (x - Overlap) .. (x - 1)
        BY <1>2, <2>5, <3>2
      <3> QED BY <3>1, <3>3
    <2> QED BY <2>1, <2>8, <2>9, <2>12
  <1> QED BY <1>5, <1>6 DEF EachOnce

\* Sections inside others are as far apart as these.
LEMMA InsideOthers ==
  ASSUME NEW A, NEW r \in Seq(AnySection), Apart(r), Within(r, A), NEW q \in Seq(AnySection),
         NEW d \in Nat, Len(q) + d <= Len(r),
         \A i \in 1 .. Len(q) : r[i + d].start <= q[i].start /\ EndOf(q[i]) <= EndOf(r[i + d])
  PROVE  Apart(q) /\ Within(q, A)
  <1>1. PICK m, n : m = Len(q) /\ n = Len(r)
    OBVIOUS
  <1>2. m \in Nat /\ n \in Nat /\ DOMAIN q = 1 .. m /\ DOMAIN r = 1 .. n /\ m + d <= n
    BY <1>1
  <1>3. \A i \in 1 .. m : i + d \in 1 .. n
    BY <1>2
  <1>4. \A s \in AnySection : s.start \in Nat /\ EndOf(s) \in Nat
    BY DEF AnySection, EndOf
  <1>5. \A i \in 1 .. m : /\ q[i].start \in Nat /\ EndOf(q[i]) \in Nat
                          /\ r[i + d].start \in Nat /\ EndOf(r[i + d]) \in Nat
                          /\ r[i + d].start <= q[i].start /\ EndOf(q[i]) <= EndOf(r[i + d])
    <2> SUFFICES ASSUME NEW i \in 1 .. m
                 PROVE  /\ q[i].start \in Nat /\ EndOf(q[i]) \in Nat
                        /\ r[i + d].start \in Nat /\ EndOf(r[i + d]) \in Nat
                        /\ r[i + d].start <= q[i].start /\ EndOf(q[i]) <= EndOf(r[i + d])
      OBVIOUS
    <2>1. q[i] \in AnySection /\ r[i + d] \in AnySection
      BY <1>2, <1>3
    <2> QED BY <1>1, <1>4, <2>1
  <1>6. Apart(q)
    <2> SUFFICES ASSUME NEW i \in 1 .. m, NEW j \in 1 .. m, i < j PROVE EndOf(q[i]) < q[j].start
      BY <1>2 DEF Apart
    <2>1. PICK a, b : a = i + d /\ b = j + d
      OBVIOUS
    <2>2. a \in 1 .. n /\ b \in 1 .. n /\ a < b
      BY <1>2, <2>1
    <2>3. EndOf(r[a]) < r[b].start
      BY <1>2, <2>2 DEF Apart
    <2>4. EndOf(q[i]) \in Nat /\ EndOf(r[a]) \in Nat /\ EndOf(q[i]) <= EndOf(r[a])
      BY <1>5, <2>1
    <2>5. q[j].start \in Nat /\ r[b].start \in Nat /\ r[b].start <= q[j].start
      BY <1>5, <2>1
    <2>6. PICK w, x, y, z : w = EndOf(q[i]) /\ x = EndOf(r[a]) /\ y = r[b].start /\ z = q[j].start
      OBVIOUS
    <2>7. w \in Nat /\ x \in Nat /\ y \in Nat /\ z \in Nat /\ w <= x /\ x < y /\ y <= z
      BY <2>3, <2>4, <2>5, <2>6
    <2>8. w < z
      BY <2>7
    <2> QED BY <2>6, <2>8
  <1>7. Within(q, A)
    <2> SUFFICES ASSUME NEW i \in 1 .. m PROVE Addresses(q[i]) \subseteq A
      BY <1>2 DEF Within
    <2>1. Addresses(q[i]) \subseteq Addresses(r[i + d])
      <3>1. PICK a, b, x, y : /\ a = r[i + d].start /\ b = EndOf(r[i + d])
                              /\ x = q[i].start /\ y = EndOf(q[i])
        OBVIOUS
      <3>2. a \in Nat /\ b \in Nat /\ x \in Nat /\ y \in Nat /\ a <= x /\ y <= b
        BY <1>5, <3>1
      <3>3. x .. (y - 1) \subseteq a .. (b - 1)
        BY <3>2
      <3> QED BY <3>1, <3>3 DEF Addresses
    <2>2. i + d \in DOMAIN r
      BY <1>2, <1>3
    <2> QED BY <2>1, <2>2 DEF Within
  <1> QED BY <1>6, <1>7

\* The loop of _coalesce_sections that does not end: the last section stays where it is.
Endless ==
  /\ At("clip_last") /\ Len(sections) >= 3
  /\ Last(sections).start = image.maximum /\ Last(sections).length > 0

SectionsInv ==
  /\ image \in Images /\ request \in Requests /\ mode \in Modes
  /\ sections \in Seq(AnySection) /\ Within(sections, Requested)
  /\ Apart(sections) \/ Endless

\* What the sections come from.
LEMMA JoinedFirst ==
  ASSUME ScanInit
  PROVE  SectionsInv
  <1>1. image \in Images /\ request \in Requests /\ mode \in Modes /\ sections = Joined(Asked)
    BY DEF ScanInit
  <1>2. image.minimum \in Nat /\ image.maximum \in Nat /\ image.minimum <= image.maximum
    BY <1>1, ImagesAssumption
  <1>3. PICK T : T = Asked
    OBVIOUS
  <1>4. T \in SUBSET AnySection /\ IsFiniteSet(T) /\ \A s \in T : Addresses(s) \subseteq Requested
    <2>1. CASE request = {}
      <3>1. PICK s : s = Section(image.minimum, image.maximum - image.minimum)
        OBVIOUS
      <3>2. T = {s}
        BY <1>3, <2>1, <3>1 DEF Asked, Default
      <3>3. s \in AnySection /\ s.start = image.minimum /\ EndOf(s) = image.maximum
        BY <1>2, <3>1 DEF Section, AnySection, EndOf
      <3>4. Addresses(s) \subseteq Requested
        BY <1>2, <2>1, <3>3 DEF Addresses, Requested
      <3> QED BY <3>2, <3>3, <3>4, FS_Singleton
    <2>2. CASE request # {}
      <3>1. T = request
        BY <1>3, <2>2 DEF Asked
      <3>2. Requested = UNION {Addresses(s) : s \in request}
        BY <2>2 DEF Requested
      <3> QED BY <1>1, <3>1, <3>2, RequestsAssumption
    <2> QED BY <2>1, <2>2
  <1>5. PICK A, J : A = Requested /\ J = Joined(T)
    OBVIOUS
  <1>6. J \in Seq(AnySection) /\ Apart(J) /\ Within(J, A)
    BY <1>4, <1>5, JoinedIs
  <1> QED BY <1>1, <1>3, <1>5, <1>6 DEF SectionsInv

\* Steps that leave the sections alone.
LEMMA SectionsStay ==
  ASSUME SectionsInv, UNCHANGED <<image, request, mode, sections>>,
         ~Endless \/ UNCHANGED step
  PROVE  SectionsInv'
  BY DEF SectionsInv, Requested, Endless, Apart, Within, At

\* The clipping of the sections keeps them apart, unless it does not end.
LEMMA CoalesceKeeps ==
  ASSUME SectionsInv, Coalesce
  PROVE  SectionsInv'
  <1>1. PICK r, A, n : r = sections /\ A = Requested /\ n = Len(r)
    OBVIOUS
  <1>2. /\ image \in Images /\ request \in Requests /\ mode \in Modes
        /\ r \in Seq(AnySection) /\ Within(r, A) /\ (Apart(r) \/ Endless)
        /\ n \in Nat /\ DOMAIN r = 1 .. n
    BY <1>1 DEF SectionsInv
  <1>3. image.minimum \in Nat /\ image.maximum \in Nat
    BY <1>2, ImagesAssumption
  <1>4. UNCHANGED <<image, request, mode>>
    BY DEF Coalesce, DropFirst, ClipFirst, FirstFits, DropLast, ClipLast, LastFits, input
  <1>5. Requested' = A
    BY <1>1, <1>4 DEF Requested
  <1>6. ASSUME NEW q, sections' = q, q \in Seq(AnySection), Within(q, A), Apart(q) \/ Endless'
        PROVE  SectionsInv'
    BY <1>2, <1>4, <1>5, <1>6 DEF SectionsInv
  <1>7. \A i \in 1 .. n : r[i] \in AnySection /\ r[i].start \in Nat /\ EndOf(r[i]) \in Nat
                          /\ r[i].start <= r[i].start /\ EndOf(r[i]) <= EndOf(r[i])
    <2>1. \A i \in 1 .. n : r[i] \in AnySection
      BY <1>2
    <2>2. \A s \in AnySection : s.start \in Nat /\ EndOf(s) \in Nat
      BY DEF AnySection, EndOf
    <2> QED BY <2>1, <2>2
  <1>8. CASE DropFirst
    <2>1. Apart(r)
      BY <1>2, <1>8 DEF DropFirst, At, Endless
    <2>2. PICK q : q = Tail(r)
      OBVIOUS
    <2>3. r # <<>> /\ sections' = q
      BY <1>1, <1>8, <2>2 DEF DropFirst, FirstBelow
    <2>4. q \in Seq(AnySection) /\ Len(q) = n - 1 /\ n >= 1 /\ \A i \in 1 .. n - 1 : q[i] = r[i + 1]
      BY <1>1, <1>2, <2>2, <2>3, ItemsOfRest
    <2>5. \A i \in 1 .. Len(q) : r[i + 1].start <= q[i].start /\ EndOf(q[i]) <= EndOf(r[i + 1])
      <3> SUFFICES ASSUME NEW i \in 1 .. n - 1
                   PROVE  r[i + 1].start <= q[i].start /\ EndOf(q[i]) <= EndOf(r[i + 1])
        BY <2>4
      <3>1. i + 1 \in 1 .. n
        BY <1>2
      <3>2. q[i] = r[i + 1]
        BY <2>4
      <3> QED BY <1>7, <3>1, <3>2
    <2>6. Len(q) + 1 <= Len(r)
      <3>1. (n - 1) + 1 <= n
        BY <1>2
      <3> QED BY <1>1, <2>4, <3>1
    <2>7. Apart(q) /\ Within(q, A)
      BY <1>2, <2>1, <2>4, <2>5, <2>6, InsideOthers
    <2> QED BY <1>6, <2>3, <2>4, <2>7
  <1>9. CASE ClipFirst
    <2>1. Apart(r)
      BY <1>2, <1>9 DEF ClipFirst, At, Endless
    <2>2. PICK q, s, c : q = ReplaceAt(r, 1, c) /\ s = Head(r) /\ c = CutFirst(Head(r))
      OBVIOUS
    <2>3. r # <<>> /\ sections' = q /\ s.start < image.minimum /\ EndOf(s) >= image.minimum
      BY <1>1, <1>9, <2>2 DEF ClipFirst, FirstBelow
    <2>4. s = r[1] /\ n >= 1
      BY <1>1, <1>2, <2>2, <2>3
    <2>5. c = Section(image.minimum, EndOf(s) - image.minimum)
      BY <2>2 DEF CutFirst
    <2>6. 1 \in 1 .. n /\ s.start \in Nat /\ EndOf(s) \in Nat
      BY <1>2, <1>7, <2>4
    <2>7. c \in AnySection /\ c.start = image.minimum /\ EndOf(c) = EndOf(s)
      BY <1>3, <2>3, <2>5, <2>6 DEF AnySection, Section, EndOf
    <2>8. q = [r EXCEPT ![1] = c]
      BY <2>2 DEF ReplaceAt
    <2>9. q \in Seq(AnySection) /\ Len(q) = n /\ \A i \in 1 .. n : q[i] = IF i = 1 THEN c ELSE r[i]
      BY <1>1, <1>2, <2>6, <2>7, <2>8
    <2>10. \A i \in 1 .. Len(q) : r[i + 0].start <= q[i].start /\ EndOf(q[i]) <= EndOf(r[i + 0])
      <3> SUFFICES ASSUME NEW i \in 1 .. n PROVE r[i].start <= q[i].start /\ EndOf(q[i]) <= EndOf(r[i])
        BY <1>2, <2>9
      <3>1. CASE i = 1
        BY <1>3, <2>3, <2>4, <2>6, <2>7, <2>9, <3>1
      <3>2. CASE i # 1
        BY <1>7, <2>9, <3>2
      <3> QED BY <3>1, <3>2
    <2>11. Len(q) + 0 <= Len(r)
      BY <1>1, <1>2, <2>9
    <2>12. Apart(q) /\ Within(q, A)
      BY <1>2, <2>1, <2>9, <2>10, <2>11, InsideOthers
    <2> QED BY <1>6, <2>3, <2>9, <2>12
  <1>10. CASE FirstFits
    <2>1. ~Endless /\ sections' = sections
      BY <1>10 DEF FirstFits, At, Endless
    <2> QED BY <1>4, <2>1, SectionsStay
  <1>11. CASE DropLast
    <2>1. r # <<>> /\ sections' = Front(r) /\ Last(r).start > image.maximum
      BY <1>1, <1>11 DEF DropLast, LastAbove
    <2>2. n >= 1 /\ n \in 1 .. n /\ Last(r) = r[n]
      BY <1>1, <1>2, <2>1, LastReplaced
    <2>3. ~Endless
      BY <1>1, <1>3, <1>7, <2>1, <2>2 DEF Endless
    <2>4. PICK q : q = Front(r)
      OBVIOUS
    <2>5. q \in Seq(AnySection) /\ Len(q) = n - 1 /\ \A i \in 1 .. n - 1 : q[i] = r[i]
      <3>1. r[n] \in AnySection
        BY <1>7, <2>2
      <3> QED BY <1>1, <1>2, <2>1, <2>4, <3>1, LastReplaced
    <2>6. \A i \in 1 .. Len(q) : r[i + 0].start <= q[i].start /\ EndOf(q[i]) <= EndOf(r[i + 0])
      <3> SUFFICES ASSUME NEW i \in 1 .. n - 1 PROVE r[i].start <= q[i].start /\ EndOf(q[i]) <= EndOf(r[i])
        BY <1>2, <2>5
      <3>1. i \in 1 .. n
        BY <1>2
      <3> QED BY <1>7, <2>5, <3>1
    <2>7. Len(q) + 0 <= Len(r)
      BY <1>1, <1>2, <2>5
    <2>8. Apart(q) /\ Within(q, A)
      BY <1>2, <2>3, <2>5, <2>6, <2>7, InsideOthers
    <2> QED BY <1>6, <2>1, <2>4, <2>5, <2>8
  <1>12. CASE ClipLast
    <2>1. /\ r # <<>> /\ At("clip_last") /\ Last(r).start = image.maximum
          /\ IF n = 1 THEN Go("raised") /\ UNCHANGED sections
             ELSE sections' = [r EXCEPT ![2] = Section(image.maximum, 0)] /\ UNCHANGED step
          /\ \/ Last(r).start > image.maximum
             \/ Last(r).start = image.maximum /\ Last(r).length > 0
      BY <1>1, <1>12 DEF ClipLast, LastAbove
    <2>2. n >= 1 /\ Last(r) = r[n]
      BY <1>1, <1>2, <2>1, LastIs
    <2>3. CASE n = 1
      <3>1. ~Endless
        BY <1>1, <2>3 DEF Endless
      <3>2. sections' = sections
        BY <1>1, <2>1, <2>3
      <3> QED BY <1>4, <3>1, <3>2, SectionsStay
    <2>4. CASE n # 1
      <3>1. PICK q, c : q = [r EXCEPT ![2] = c] /\ c = Section(image.maximum, 0)
        OBVIOUS
      <3>2. n >= 2 /\ 2 \in 1 .. n /\ sections' = q /\ step' = step
        BY <1>2, <2>1, <2>2, <2>4, <3>1
      <3>3. c \in AnySection /\ c.start = image.maximum /\ EndOf(c) = image.maximum
        BY <1>3, <3>1 DEF AnySection, Section, EndOf
      <3>4. q \in Seq(AnySection) /\ Len(q) = n /\ \A i \in 1 .. n : q[i] = IF i = 2 THEN c ELSE r[i]
        BY <1>1, <1>2, <3>1, <3>2, <3>3
      <3>5. CASE n = 2
        <4>1. Apart(r)
          BY <1>1, <1>2, <3>5 DEF Endless
        <4>2. \A i \in 1 .. Len(q) : r[i + 0].start <= q[i].start /\ EndOf(q[i]) <= EndOf(r[i + 0])
          <5> SUFFICES ASSUME NEW i \in 1 .. n PROVE r[i].start <= q[i].start /\ EndOf(q[i]) <= EndOf(r[i])
            BY <1>2, <3>4
          <5>1. CASE i = 2
            <6>1. r[i].start = image.maximum /\ r[i] \in AnySection
              BY <1>7, <2>1, <2>2, <3>5, <5>1
            <6>2. image.maximum <= EndOf(r[i])
              BY <6>1 DEF AnySection, EndOf
            <6> QED BY <1>3, <3>3, <3>4, <5>1, <6>1, <6>2
          <5>2. CASE i # 2
            BY <1>7, <3>4, <5>2
          <5> QED BY <5>1, <5>2
        <4>3. Len(q) + 0 <= Len(r)
          BY <1>1, <1>2, <3>4
        <4>4. Apart(q) /\ Within(q, A)
          BY <1>2, <3>4, <4>1, <4>2, <4>3, InsideOthers
        <4> QED BY <1>6, <3>2, <3>4, <4>4
      <3>6. CASE n # 2
        <4>1. n >= 3 /\ n \in 1 .. n /\ n # 2
          BY <1>2, <3>2, <3>6
        <4>2. q # <<>> /\ q[n] = r[n]
          BY <3>4, <4>1
        <4>3. Last(q) = r[n]
          BY <3>3, <3>4, <4>2, LastReplaced
        <4>4. Last(r).length > 0
          BY <1>3, <2>1
        <4>5. Endless'
          BY <1>4, <2>1, <2>2, <3>2, <3>4, <4>1, <4>3, <4>4 DEF Endless, At
        <4>6. Within(q, A)
          <5> SUFFICES ASSUME NEW i \in 1 .. n PROVE Addresses(q[i]) \subseteq A
            BY <1>2, <3>4 DEF Within
          <5>1. CASE i = 2
            <6>1. Addresses(c) = {}
              BY <1>3, <3>3 DEF Addresses
            <6> QED BY <3>4, <5>1, <6>1
          <5>2. CASE i # 2
            BY <1>2, <3>4, <5>2 DEF Within
          <5> QED BY <5>1, <5>2
        <4> QED BY <1>6, <3>2, <3>4, <4>5, <4>6
      <3> QED BY <3>5, <3>6
    <2> QED BY <2>3, <2>4
  <1>13. CASE LastFits
    <2>1. sections' = sections
      BY <1>13 DEF LastFits
    <2>2. ~Endless
      <3>1. ASSUME Endless PROVE LastAbove
        <4>1. sections # <<>>
          BY <3>1 DEF Endless
        <4> QED BY <3>1, <4>1 DEF Endless, LastAbove
      <3> QED BY <1>13, <3>1 DEF LastFits
    <2> QED BY <1>4, <2>1, <2>2, SectionsStay
  <1> QED BY <1>8, <1>9, <1>10, <1>11, <1>12, <1>13 DEF Coalesce

\* Nothing comes of no chunks, and of one more what that one gives.
LEMMA YieldMore ==
  ASSUME ChunksFit(chunks)
  PROVE  /\ Yield(0) = <<>>
         /\ \A k \in 0 .. Len(chunks) - 1 : Yield(k + 1) = Yield(k) \o Results(chunks[k + 1])
  <1>1. Yield(0) = <<>>
    <2>1. PICK s : s = [n \in 1 .. 0 |-> Results(chunks[n])]
      OBVIOUS
    <2>2. s = <<>>
      BY <2>1
    <2> QED BY <2>1, <2>2, FlattenNothing DEF Yield
  <1>2. ASSUME NEW k \in 0 .. Len(chunks) - 1 PROVE Yield(k + 1) = Yield(k) \o Results(chunks[k + 1])
    <2>1. PICK j, s, t : /\ j = k + 1 /\ s = [n \in 1 .. k |-> Results(chunks[n])]
                         /\ t = [n \in 1 .. j |-> Results(chunks[n])]
      OBVIOUS
    <2>2. /\ chunks \in Seq(AnyChunk) /\ k \in Nat /\ j \in Nat /\ j = k + 1
          /\ \A n \in 1 .. j : n \in DOMAIN chunks
      BY <2>1 DEF ChunksFit
    <2>3. \A n \in 1 .. j : Results(chunks[n]) \in Seq(Reports)
      <3> SUFFICES ASSUME NEW n \in 1 .. j PROVE Results(chunks[n]) \in Seq(Reports)
        OBVIOUS
      <3>1. PICK c, r : c = chunks[n] /\ r = Results(c)
        OBVIOUS
      <3>2. c \in AnyChunk /\ \E i \in DOMAIN sections : ChunkFits(c, sections[i])
        BY <2>2, <3>1 DEF ChunksFit
      <3>3. PICK section : ChunkFits(c, section)
        BY <3>2
      <3>4. r \in Seq(Reports)
        BY <3>1, <3>2, <3>3, ResultsAre
      <3> QED BY <3>1, <3>4
    <2>4. /\ s \in Seq(Seq(Reports)) /\ Len(s) = k /\ t \in Seq(Seq(Reports)) /\ Len(t) = j
          /\ t[j] = Results(chunks[j]) /\ \A i \in 1 .. k : t[i] = s[i]
      <3>1. \A n \in 1 .. k : n \in 1 .. j
        BY <2>2
      <3>2. s \in Seq(Seq(Reports)) /\ Len(s) = k
        BY <2>1, <2>2, <2>3, <3>1
      <3>3. t \in Seq(Seq(Reports)) /\ Len(t) = j
        BY <2>1, <2>2, <2>3
      <3>4. t[j] = Results(chunks[j]) /\ \A i \in 1 .. k : t[i] = s[i]
        BY <2>1, <2>2, <3>1
      <3> QED BY <3>2, <3>3, <3>4
    <2>5. FlattenSeq(t) = FlattenSeq(s) \o t[j]
      BY <2>2, <2>4, FlattenMore
    <2> QED BY <2>1, <2>4, <2>5 DEF Yield
  <1> QED BY <1>1, <1>2

\* In a scan that has come so far none of the chunks has raised.
Sound(k) == \A m \in 1 .. k : ~ScannerRaises(chunks[m])

\* What is known at each step of a scan.
NothingYet == chunks = <<>> /\ yielded = <<>> /\ next = 1

Underway ==
  CASE step = "scan" ->
         /\ ChunksFit(chunks) /\ mode = "off" /\ next \in 1 .. Len(chunks) + 1
         /\ yielded = Yield(next - 1) /\ Sound(next - 1)
    [] step = "pool" -> ChunksFit(chunks) /\ mode = "processes" /\ yielded = <<>>
    [] step = "complete" -> ChunksFit(chunks) /\ yielded = Yield(Len(chunks))
    [] step = "failed" ->
         /\ ChunksFit(chunks)
         /\ IF mode # "off" THEN yielded = <<>>
            ELSE \E k \in 0 .. Len(chunks) :
                   /\ yielded = Yield(k) /\ Sound(k)
                   /\ k < Len(chunks) => ScannerRaises(chunks[k + 1])
    [] OTHER -> step \in {"clip_first", "clip_last", "cut", "raised"} /\ NothingYet

ScanInv == SectionsInv /\ Underway

LEMMA ScanFirst ==
  ASSUME ScanInit
  PROVE  ScanInv
  BY JoinedFirst DEF ScanInit, ScanInv, Underway, NothingYet

\* The chunks stay as they are when nothing of what they are made of changes.
LEMMA ChunksStay ==
  ASSUME ChunksFit(chunks), UNCHANGED <<image, sections, chunks>>
  PROVE  /\ ChunksFit(chunks)'
         /\ \A k : (Yield(k))' = Yield(k) /\ ((Sound(k))' <=> Sound(k))
         /\ \A c : (ScannerRaises(c))' <=> ScannerRaises(c)
  <1>1. ChunksFit(chunks)'
    BY DEF ChunksFit, ChunkFits, PieceFits
  <1>2. \A k : (Yield(k))' = Yield(k)
    BY DEF Yield, Results, DataOf, ReadPiece, Available
  <1>3. \A c : (ScannerRaises(c))' <=> ScannerRaises(c)
    BY DEF ScannerRaises, DataOf, ReadPiece, Available
  <1>4. \A k : (Sound(k))' <=> Sound(k)
    BY <1>3 DEF Sound
  <1> QED BY <1>1, <1>2, <1>3, <1>4

\* Every step of a scan keeps this.
LEMMA ScanKeeps ==
  ASSUME ScanInv, [Step]_scanVars
  PROVE  ScanInv'
  <1>1. SectionsInv /\ Underway
    BY DEF ScanInv
  <1>2. CASE Coalesce
    <2>1. SectionsInv'
      BY <1>1, <1>2, CoalesceKeeps
    <2>2. /\ step \in {"clip_first", "clip_last"} /\ step' \in {"clip_first", "clip_last", "cut", "raised"}
          /\ UNCHANGED <<chunks, yielded, next>>
      BY <1>2 DEF Coalesce, DropFirst, ClipFirst, FirstFits, DropLast, ClipLast, LastFits, At, Go
    <2>3. NothingYet
      BY <1>1, <2>2 DEF Underway
    <2> QED BY <2>1, <2>2, <2>3 DEF ScanInv, Underway, NothingYet
  <1>3. CASE Cut
    <2>1. At("cut") /\ chunks' = Chunks /\ UNCHANGED <<image, request, mode, sections, next, yielded>>
      BY <1>3 DEF Cut, input
    <2>2. NothingYet /\ ~Endless
      BY <1>1, <2>1 DEF Underway, At, Endless
    <2>3. SectionsInv'
      BY <1>1, <2>1, <2>2, SectionsStay
    <2>4. image \in Images /\ sections \in Seq(AnySection) /\ Apart(sections) /\ mode \in Modes
      BY <1>1, <2>2 DEF SectionsInv
    <2>5. ChunksFit(Chunks)
      BY <2>4, ChunksAre
    <2>6. ChunksFit(chunks)'
      BY <2>1, <2>5 DEF ChunksFit, ChunkFits, PieceFits
    <2>7. (Yield(0) = <<>>)'
      <3>1. PICK s : s = [n \in 1 .. 0 |-> Results(chunks[n])']
        OBVIOUS
      <3>2. s = <<>>
        BY <3>1
      <3> QED BY <3>1, <3>2, FlattenNothing DEF Yield
    <2>8. (Sound(0))'
      BY DEF Sound
    <2>9. yielded' = <<>> /\ next' = 1 /\ (chunks \in Seq(AnyChunk))'
      BY <2>1, <2>2, <2>6 DEF NothingYet, ChunksFit
    <2>10. CASE sections = <<>> \/ mode = "threads"
      <3>1. step' = "failed"
        BY <1>3, <2>10 DEF Cut, Go
      <3>2. ASSUME mode = "off" PROVE Len(chunks') = 0
        <4>1. sections = <<>>
          BY <2>10, <3>2
        <4>2. DOMAIN chunks' = {}
          BY <2>1, <2>6, <4>1 DEF ChunksFit
        <4> QED BY <2>9, <4>2
      <3>3. ASSUME mode = "off"
            PROVE  (\E k \in 0 .. Len(chunks) : /\ yielded = Yield(k) /\ Sound(k)
                                                /\ k < Len(chunks) => ScannerRaises(chunks[k + 1]))'
        <4>1. 0 \in 0 .. Len(chunks') /\ ~(0 < Len(chunks'))
          BY <3>2, <3>3
        <4> QED BY <2>7, <2>8, <2>9, <4>1
      <3> QED BY <2>1, <2>3, <2>6, <2>9, <3>1, <3>3 DEF ScanInv, Underway
    <2>11. CASE ~(sections = <<>> \/ mode = "threads") /\ mode = "processes"
      <3>1. step' = "pool"
        BY <1>3, <2>11 DEF Cut, Go
      <3> QED BY <2>1, <2>3, <2>6, <2>9, <2>11, <3>1 DEF ScanInv, Underway
    <2>12. CASE ~(sections = <<>> \/ mode = "threads") /\ mode # "processes"
      <3>1. step' = "scan" /\ mode = "off"
        BY <1>3, <2>4, <2>12 DEF Cut, Go, Modes
      <3>2. next' \in 1 .. Len(chunks') + 1 /\ next' - 1 = 0
        <4>1. Len(chunks') \in Nat
          BY <2>9
        <4> QED BY <2>9, <4>1
      <3> QED BY <2>1, <2>3, <2>6, <2>7, <2>8, <2>9, <3>1, <3>2 DEF ScanInv, Underway
    <2> QED BY <2>10, <2>11, <2>12
  <1>4. ASSUME UNCHANGED <<image, request, mode, sections, chunks>>, ChunksFit(chunks),
               step \notin {"clip_first", "clip_last"}
        PROVE  /\ SectionsInv' /\ ChunksFit(chunks)'
               /\ \A k : (Yield(k))' = Yield(k) /\ ((Sound(k))' <=> Sound(k))
               /\ \A c : (ScannerRaises(c))' <=> ScannerRaises(c)
               /\ chunks \in Seq(AnyChunk) /\ Len(chunks) \in Nat /\ DOMAIN chunks = 1 .. Len(chunks)
    <2>1. SectionsInv'
      BY <1>1, <1>4, SectionsStay DEF Endless, At
    <2>2. chunks \in Seq(AnyChunk)
      BY <1>4 DEF ChunksFit
    <2>3. Len(chunks) \in Nat /\ DOMAIN chunks = 1 .. Len(chunks)
      BY <2>2
    <2> QED BY <1>4, <2>1, <2>2, <2>3, ChunksStay
  <1>5. CASE ScanChunk
    <2>1. /\ step = "scan" /\ step' = "scan" /\ next <= Len(chunks) /\ ~ScannerRaises(chunks[next])
          /\ yielded' = yielded \o Results(chunks[next]) /\ next' = next + 1
          /\ UNCHANGED <<image, request, mode, sections, chunks>>
      BY <1>5 DEF ScanChunk, At, input
    <2>2. /\ ChunksFit(chunks) /\ mode = "off" /\ next \in 1 .. Len(chunks) + 1
          /\ yielded = Yield(next - 1) /\ Sound(next - 1)
      BY <1>1, <2>1 DEF Underway
    <2>3. /\ SectionsInv' /\ ChunksFit(chunks)' /\ Len(chunks) \in Nat
          /\ \A k : (Yield(k))' = Yield(k) /\ ((Sound(k))' <=> Sound(k))
      BY <1>4, <2>1, <2>2
    <2>4. PICK k : k = next - 1
      OBVIOUS
    <2>5. k \in 0 .. Len(chunks) - 1 /\ k + 1 = next /\ next' - 1 = next /\ next' \in 1 .. Len(chunks) + 1
          /\ next \in Nat
      BY <2>1, <2>2, <2>3, <2>4
    <2>6. Yield(k + 1) = Yield(k) \o Results(chunks[k + 1])
      BY <2>2, <2>5, YieldMore
    <2>7. yielded' = Yield(next)
      BY <2>1, <2>2, <2>4, <2>5, <2>6
    <2>8. Sound(next)
      <3>1. \A m \in 1 .. next : m = next \/ m \in 1 .. next - 1
        BY <2>5
      <3> QED BY <2>1, <2>2, <3>1 DEF Sound
    <2>9. yielded' = (Yield(next - 1))' /\ (Sound(next - 1))'
      BY <2>3, <2>5, <2>7, <2>8 DEF Yield, Sound
    <2> QED BY <2>1, <2>2, <2>3, <2>5, <2>9 DEF ScanInv, Underway
  <1>6. CASE ScanChunkFails
    <2>1. /\ step = "scan" /\ step' = "failed" /\ next <= Len(chunks) /\ ScannerRaises(chunks[next])
          /\ yielded' = yielded /\ UNCHANGED <<image, request, mode, sections, chunks>>
      BY <1>6 DEF ScanChunkFails, At, Go, input
    <2>2. /\ ChunksFit(chunks) /\ mode = "off" /\ next \in 1 .. Len(chunks) + 1
          /\ yielded = Yield(next - 1) /\ Sound(next - 1)
      BY <1>1, <2>1 DEF Underway
    <2>3. /\ SectionsInv' /\ ChunksFit(chunks)' /\ Len(chunks) \in Nat
          /\ \A k : (Yield(k))' = Yield(k) /\ ((Sound(k))' <=> Sound(k))
          /\ \A c : (ScannerRaises(c))' <=> ScannerRaises(c)
      BY <1>4, <2>1, <2>2
    <2>4. PICK k : k = next - 1
      OBVIOUS
    <2>5. k \in 0 .. Len(chunks) /\ k + 1 = next
      BY <2>1, <2>2, <2>3, <2>4
    <2>6. (\E j \in 0 .. Len(chunks) : /\ yielded = Yield(j) /\ Sound(j)
                                       /\ j < Len(chunks) => ScannerRaises(chunks[j + 1]))'
      <3>1. yielded' = (Yield(k))' /\ (Sound(k))'
        BY <2>1, <2>2, <2>3, <2>4
      <3>2. (ScannerRaises(chunks[k + 1]))'
        <4>1. ScannerRaises(chunks[k + 1])
          BY <2>1, <2>5
        <4> QED BY <2>1, <2>3, <4>1
      <3> QED BY <2>1, <2>5, <3>1, <3>2
    <2> QED BY <2>1, <2>2, <2>3, <2>6 DEF ScanInv, Underway
  <1>7. CASE ScanEnds
    <2>1. /\ step = "scan" /\ step' = "complete" /\ next > Len(chunks)
          /\ yielded' = yielded /\ UNCHANGED <<image, request, mode, sections, chunks>>
      BY <1>7 DEF ScanEnds, At, Go, input
    <2>2. ChunksFit(chunks) /\ next \in 1 .. Len(chunks) + 1 /\ yielded = Yield(next - 1)
      BY <1>1, <2>1 DEF Underway
    <2>3. /\ SectionsInv' /\ ChunksFit(chunks)' /\ Len(chunks) \in Nat
          /\ \A k : (Yield(k))' = Yield(k)
      BY <1>4, <2>1, <2>2
    <2>4. next - 1 = Len(chunks)
      BY <2>1, <2>2, <2>3
    <2>5. yielded' = (Yield(Len(chunks)))'
      BY <2>1, <2>2, <2>3, <2>4 DEF Yield, Results, DataOf, ReadPiece, Available
    <2> QED BY <2>1, <2>3, <2>5 DEF ScanInv, Underway
  <1>8. CASE PoolReady
    <2>1. /\ step = "pool" /\ finished = DOMAIN chunks
          /\ UNCHANGED <<image, request, mode, sections, chunks>>
          /\ \/ step' = "failed" /\ yielded' = yielded
             \/ /\ step' = "complete"
                /\ yielded' = FlattenSeq([n \in DOMAIN chunks |-> Results(InOrder(chunks)[n])])
      BY <1>8 DEF PoolReady, At, Go, input
    <2>2. ChunksFit(chunks) /\ mode = "processes" /\ yielded = <<>>
      BY <1>1, <2>1 DEF Underway
    <2>3. /\ SectionsInv' /\ ChunksFit(chunks)' /\ DOMAIN chunks = 1 .. Len(chunks)
          /\ \A k : (Yield(k))' = Yield(k)
      BY <1>4, <2>1, <2>2
    <2>4. CASE step' = "failed" /\ yielded' = yielded
      BY <2>1, <2>2, <2>3, <2>4 DEF ScanInv, Underway
    <2>5. CASE /\ step' = "complete"
               /\ yielded' = FlattenSeq([n \in DOMAIN chunks |-> Results(InOrder(chunks)[n])])
      <3>1. yielded' = Yield(Len(chunks))
        BY <2>3, <2>5 DEF Yield, InOrder
      <3>2. yielded' = (Yield(Len(chunks)))'
        BY <2>1, <2>3, <3>1 DEF Yield, Results, DataOf, ReadPiece, Available
      <3> QED BY <2>3, <2>5, <3>2 DEF ScanInv, Underway
    <2> QED BY <2>1, <2>4, <2>5
  <1>9. CASE \E n \in 1 .. Len(chunks) : PoolChunk(n)
    <2>1. /\ step = "pool" /\ step' = "pool" /\ yielded' = yielded
          /\ UNCHANGED <<image, request, mode, sections, chunks>>
      BY <1>9 DEF PoolChunk, At, input
    <2>2. ChunksFit(chunks) /\ mode = "processes" /\ yielded = <<>>
      BY <1>1, <2>1 DEF Underway
    <2>3. SectionsInv' /\ ChunksFit(chunks)'
      BY <1>4, <2>1, <2>2
    <2> QED BY <2>1, <2>2, <2>3 DEF ScanInv, Underway
  <1>10. CASE UNCHANGED scanVars
    <2>1. UNCHANGED <<image, request, mode, sections, chunks, step, next, yielded>>
      BY <1>10 DEF scanVars, input
    <2>2. SectionsInv'
      BY <1>1, <2>1, SectionsStay
    <2>3. CASE step \in {"scan", "pool", "complete", "failed"}
      <3>1. ChunksFit(chunks)
        BY <1>1, <2>3 DEF Underway
      <3>2. /\ ChunksFit(chunks)' /\ \A k : (Yield(k))' = Yield(k) /\ ((Sound(k))' <=> Sound(k))
            /\ \A c : (ScannerRaises(c))' <=> ScannerRaises(c)
        BY <2>1, <3>1, ChunksStay
      <3>3. CASE step = "scan"
        <4>1. PICK k : k = next - 1
          OBVIOUS
        <4>2. yielded = Yield(k) /\ Sound(k)
          BY <1>1, <3>3, <4>1 DEF Underway
        <4>3. yielded' = (Yield(k))' /\ (Sound(k))' /\ k = next' - 1
          BY <2>1, <3>2, <4>1, <4>2
        <4>4. (yielded = Yield(next - 1))'
          BY <4>3
        <4>5. (Sound(next - 1))'
          BY <4>3
        <4> QED BY <1>1, <2>1, <2>2, <3>2, <3>3, <4>4, <4>5 DEF ScanInv, Underway
      <3>4. CASE step = "pool"
        BY <1>1, <2>1, <2>2, <3>2, <3>4 DEF ScanInv, Underway
      <3>5. CASE step = "complete"
        <4>1. yielded = Yield(Len(chunks))
          BY <1>1, <3>5 DEF Underway
        <4>2. (yielded = Yield(Len(chunks)))'
          BY <2>1, <4>1, SMTT(30) DEF Yield, Results, DataOf, ReadPiece, Available
        <4> QED BY <1>1, <2>1, <2>2, <3>2, <3>5, <4>2 DEF ScanInv, Underway
      <3>6. CASE step = "failed" /\ mode # "off"
        BY <1>1, <2>1, <2>2, <3>2, <3>6 DEF ScanInv, Underway
      <3>7. CASE step = "failed" /\ mode = "off"
        <4>1. PICK k \in 0 .. Len(chunks) :
                /\ yielded = Yield(k) /\ Sound(k)
                /\ k < Len(chunks) => ScannerRaises(chunks[k + 1])
          BY <1>1, <3>7 DEF Underway
        <4>2. yielded' = (Yield(k))' /\ (Sound(k))'
          BY <2>1, <3>2, <4>1
        <4>3. k < Len(chunks) => (ScannerRaises(chunks[k + 1]))'
          BY <2>1, <3>2, <4>1 DEF ScannerRaises, DataOf, ReadPiece, Available
        <4>4. (\E j \in 0 .. Len(chunks) : /\ yielded = Yield(j) /\ Sound(j)
                                           /\ j < Len(chunks) => ScannerRaises(chunks[j + 1]))'
          BY <2>1, <4>1, <4>2, <4>3
        <4> QED BY <2>1, <2>2, <3>2, <3>7, <4>4 DEF ScanInv, Underway
      <3> QED BY <2>3, <3>3, <3>4, <3>5, <3>6, <3>7
    <2>4. CASE step \notin {"scan", "pool", "complete", "failed"}
      BY <1>1, <2>1, <2>2, <2>4 DEF ScanInv, Underway, NothingYet
    <2> QED BY <2>3, <2>4
  <1> QED BY <1>2, <1>3, <1>5, <1>6, <1>7, <1>8, <1>9, <1>10 DEF Step

\* The chunks that have not raised are counted.
LEMMA SoundChunks ==
  ASSUME ChunksFit(chunks), NEW k \in 0 .. Len(chunks), Sound(k),
         k < Len(chunks) => ScannerRaises(chunks[k + 1])
  PROVE  Cardinality({n \in DOMAIN chunks : \A m \in 1 .. n : ~ScannerRaises(chunks[m])}) = k
  <1>1. PICK T, l : /\ T = {n \in DOMAIN chunks : \A m \in 1 .. n : ~ScannerRaises(chunks[m])}
                    /\ l = Len(chunks)
    OBVIOUS
  <1>2. l \in Nat /\ DOMAIN chunks = 1 .. l /\ k \in 0 .. l
    BY <1>1 DEF ChunksFit
  <1>3. ASSUME NEW n \in 1 .. k PROVE n \in T
    <2>1. n \in 1 .. l /\ \A m \in 1 .. n : m \in 1 .. k
      BY <1>2
    <2> QED BY <1>1, <1>2, <2>1 DEF Sound
  <1>4. ASSUME NEW n \in T, n \notin 1 .. k PROVE FALSE
    <2>1. n \in 1 .. l /\ \A m \in 1 .. n : ~ScannerRaises(chunks[m])
      BY <1>1, <1>2
    <2>2. k + 1 \in 1 .. n /\ k < l
      BY <1>2, <1>4, <2>1
    <2> QED BY <1>1, <2>1, <2>2
  <1>5. T = 1 .. k
    BY <1>3, <1>4
  <1>6. PICK a, b : a = 1 /\ b = k
    OBVIOUS
  <1>7. a \in Int /\ b \in Int /\ T = a .. b
    BY <1>2, <1>5, <1>6
  <1>8. Cardinality(a .. b) = IF a > b THEN 0 ELSE b - a + 1
    BY <1>7, FS_Interval
  <1>9. Cardinality(T) = k
    BY <1>2, <1>6, <1>7, <1>8
  <1> QED BY <1>1, <1>9

\* What is known at each step says what the reports are.
LEMMA ScanSays ==
  ASSUME ScanInv
  PROVE  ReportedRightAndOnce
  <1>1. /\ image \in Images /\ sections \in Seq(AnySection) /\ Within(sections, Requested)
        /\ Underway
    BY DEF ScanInv, SectionsInv
  <1>2. CASE step \in {"scan", "complete", "failed"} /\ ~(step = "failed" /\ mode # "off")
    <2>1. ChunksFit(chunks)
      BY <1>1, <1>2 DEF Underway
    <2>2. chunks \in Seq(AnyChunk) /\ Len(chunks) \in Nat /\ DOMAIN chunks = 1 .. Len(chunks)
      <3>1. chunks \in Seq(AnyChunk)
        BY <2>1 DEF ChunksFit
      <3> QED BY <3>1
    <2>3. PICK k \in 0 .. Len(chunks) :
            /\ yielded = Yield(k)
            /\ step = "complete" => k = Len(chunks)
            /\ step = "failed" => Sound(k) /\ (k < Len(chunks) => ScannerRaises(chunks[k + 1]))
      <3>1. CASE step = "scan"
        <4>1. next \in 1 .. Len(chunks) + 1 /\ yielded = Yield(next - 1)
          BY <1>1, <3>1 DEF Underway
        <4>2. next - 1 \in 0 .. Len(chunks)
          BY <2>2, <4>1
        <4> QED BY <3>1, <4>1, <4>2
      <3>2. CASE step = "complete"
        <4>1. Len(chunks) \in 0 .. Len(chunks)
          BY <2>2
        <4> QED BY <1>1, <3>2, <4>1 DEF Underway
      <3>3. CASE step = "failed"
        BY <1>1, <1>2, <3>3 DEF Underway
      <3> QED BY <1>2, <3>1, <3>2, <3>3
    <2>4. EachOnce
      BY <1>1, <2>1, <2>3, YieldIsRight
    <2>5. At("complete") => yielded = FlattenSeq([n \in DOMAIN chunks |-> Results(chunks[n])])
      BY <2>2, <2>3 DEF Yield, At
    <2>6. ASSUME At("failed")
          PROVE  /\ mode = "off"
                 /\ LET sound == {n \in DOMAIN chunks : \A m \in 1 .. n : ~ScannerRaises(chunks[m])}
                    IN yielded = FlattenSeq([n \in 1 .. Cardinality(sound) |-> Results(chunks[n])])
      <3>1. Sound(k) /\ (k < Len(chunks) => ScannerRaises(chunks[k + 1]))
        BY <2>3, <2>6 DEF At
      <3>2. Cardinality({n \in DOMAIN chunks : \A m \in 1 .. n : ~ScannerRaises(chunks[m])}) = k
        BY <2>1, <3>1, SoundChunks
      <3> QED BY <1>2, <2>3, <2>6, <3>2 DEF Yield, At
    <2>7. PoolInOrder
      BY <2>5, <2>6 DEF PoolInOrder
    <2> QED BY <2>4, <2>7 DEF ReportedRightAndOnce
  <1>3. CASE ~(step \in {"scan", "complete", "failed"} /\ ~(step = "failed" /\ mode # "off"))
    <2>1. yielded = <<>> /\ step # "complete" /\ (step = "failed" => mode # "off")
      BY <1>1, <1>3 DEF Underway, NothingYet
    <2>2. DOMAIN yielded = {}
      BY <2>1
    <2> QED BY <2>1, <2>2 DEF ReportedRightAndOnce, EachOnce, PoolInOrder, At
  <1> QED BY <1>2, <1>3

\* What is known at each step holds in every state of a scan: the sections are apart and inside
\* what was asked for, the chunks follow each other inside them, and what has been yielded is what
\* the chunks so far give (_coalesce_sections, the two _scan_iterators, scan).
THEOREM ScanInductive == ScanSpec => []ScanInv
  <1>1. ScanInit => ScanInv
    BY ScanFirst
  <1>2. ScanInv /\ [Step]_scanVars => ScanInv'
    BY ScanKeeps
  <1> QED BY <1>1, <1>2, PTL DEF ScanSpec

\* A report is right, comes once but for the overlap at the end of a data layer's section, and in
\* the same order whatever the mode of the scan (scan, _scan_chunk, the map of the pool).
THEOREM ReportsAreRight == ScanSpec => []ReportedRightAndOnce
  <1>1. ScanInv => ReportedRightAndOnce
    BY ScanSays
  <1> QED BY <1>1, ScanInductive, PTL
=============================================================================
