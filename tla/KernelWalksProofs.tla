------------------------- MODULE KernelWalksProofs -------------------------
(***************************************************************************)
(* Whatever the memory of the image is and however long its lists and deep *)
(* its trees are: no walk over a list yields an element twice or gives up  *)
(* early, and the walks over trees miss nothing that hangs together.       *)
(*                                                                         *)
(* A walk over a list that remembers elements has every yielded element in *)
(* seen.  One that remembers places has all but the last one there, and    *)
(* the last one is the place of the pointer it looks at next: it stops     *)
(* when that is in seen, one element after a loop has closed.              *)
(*                                                                         *)
(* A walk over a tree has, for every node it has looked at, each kid       *)
(* looked at as well or waiting on the stack: with an empty stack what it  *)
(* has looked at is closed.                                                *)
(***************************************************************************)
EXTENDS KernelTrees, ProofBasics

ByElements == ListWalkers \ (Forgetful \cup RememberPlaces)

Types ==
  /\ walker \in ListWalkers /\ Image(memory)
  /\ at \in Elements /\ place \in Elements /\ seen \subseteq Elements
  /\ yielded \in Seq(Elements) /\ turn \in {"next", "prev"}
  /\ status = "start" => yielded = <<>>

ElementsRemembered ==
  walker \in ByElements =>
    \A i \in DOMAIN yielded : yielded[i] \in seen \/ (walker = "allproc" /\ i = 1)

PlacesRemembered ==
  walker \in RememberPlaces /\ status = "walking" /\ yielded # <<>> =>
    /\ place = yielded[Len(yielded)]
    /\ \A i \in 1 .. Len(yielded) - 1 : yielded[i] \in seen
    /\ \A i, j \in 1 .. Len(yielded) - 1 : i < j => yielded[i] # yielded[j]

IInv ==
  /\ walker \in ListWalkers => Types
  /\ ElementsRemembered /\ PlacesRemembered /\ EachElementOnce

-----------------------------------------------------------------------------
(* What a step may do to the sequence *)

\* Where a link leads is an address.
LEMMA LinkType ==
  ASSUME Types, NEW n \in Elements
  PROVE  Link(n) \in Elements /\ memory.prev[n] \in Elements
  BY DEF Types, Link, Image

\* A step that yields nothing and forgets nothing.
LEMMA NothingYielded ==
  ASSUME IInv, walker' = walker, yielded' = yielded, seen \subseteq seen',
         status' = "walking" => yielded = <<>> \/ (status = "walking" /\ place' = place)
         \/ walker \notin RememberPlaces
  PROVE  ElementsRemembered' /\ PlacesRemembered' /\ EachElementOnce'
  <1>1. ElementsRemembered' BY DEF IInv, ElementsRemembered
  <1>2. PlacesRemembered' BY DEF IInv, PlacesRemembered
  <1>3. EachElementOnce' BY DEF IInv, EachElementOnce
  <1> QED BY <1>1, <1>2, <1>3

\* An element that is new to a walk that remembers elements.
LEMMA ElementYielded ==
  ASSUME IInv, Types, walker' = walker, yielded' = Append(yielded, at),
         walker \in ByElements, seen \subseteq seen',
         \/ at \notin seen /\ at \in seen' /\ (walker = "allproc" => yielded # <<>>)
         \/ walker = "allproc" /\ yielded = <<>>
  PROVE  ElementsRemembered' /\ PlacesRemembered' /\ EachElementOnce'
  <1>1. /\ DOMAIN yielded' = 1 .. Len(yielded) + 1 /\ DOMAIN yielded = 1 .. Len(yielded)
        /\ Len(yielded) \in Nat
        /\ \A i \in 1 .. Len(yielded) : yielded'[i] = yielded[i]
        /\ yielded'[Len(yielded) + 1] = at
    BY DEF Types
  <1>2. ElementsRemembered'
    BY <1>1 DEF IInv, ElementsRemembered, Types
  <1>3. PlacesRemembered'
    BY DEF PlacesRemembered, ByElements
  <1>4. EachElementOnce'
    <2>1. SUFFICES ASSUME NEW i \in 1 .. Len(yielded) + 1, NEW j \in 1 .. Len(yielded) + 1,
                          i < j, yielded'[i] = yielded'[j]
                   PROVE  walker = "allproc" /\ i = 1
      BY <1>1 DEF EachElementOnce
    <2>2. CASE j = Len(yielded) + 1
      <3>1. i \in DOMAIN yielded /\ yielded[i] = at /\ yielded # <<>>
        BY <1>1, <2>1, <2>2 DEF Types
      <3> QED BY <3>1 DEF IInv, ElementsRemembered
    <2>3. CASE j # Len(yielded) + 1
      <3>1. i \in DOMAIN yielded /\ j \in DOMAIN yielded /\ yielded[i] = yielded[j]
        BY <1>1, <2>1, <2>3
      <3>2. walker \in ListWalkers \ Forgetful /\ walker \notin RememberPlaces
        BY DEF ByElements
      <3> QED BY <2>1, <3>1, <3>2 DEF IInv, EachElementOnce
    <2> QED BY <2>2, <2>3
  <1> QED BY <1>2, <1>3, <1>4

\* An element whose pointer lies in a place that is new.
LEMMA PlaceYielded ==
  ASSUME IInv, Types, walker' = walker, yielded' = Append(yielded, at),
         walker \in RememberPlaces, status = "walking", place' = at,
         seen' = seen \cup {place}, place \notin seen
  PROVE  ElementsRemembered' /\ PlacesRemembered' /\ EachElementOnce'
  <1>1. /\ DOMAIN yielded' = 1 .. Len(yielded) + 1 /\ DOMAIN yielded = 1 .. Len(yielded)
        /\ Len(yielded) \in Nat /\ Len(yielded') = Len(yielded) + 1
        /\ \A i \in 1 .. Len(yielded) : yielded'[i] = yielded[i]
        /\ yielded'[Len(yielded) + 1] = at
        /\ yielded = <<>> <=> Len(yielded) = 0
    BY DEF Types
  <1>2. \A i \in 1 .. Len(yielded) : yielded[i] \in seen'
    BY <1>1 DEF IInv, PlacesRemembered
  <1>3. \A i, j \in 1 .. Len(yielded) : i < j => yielded[i] # yielded[j]
    <2>1. SUFFICES ASSUME NEW i \in 1 .. Len(yielded), NEW j \in 1 .. Len(yielded), i < j
                   PROVE  yielded[i] # yielded[j]
      OBVIOUS
    <2>2. CASE j = Len(yielded)
      BY <1>1, <2>1, <2>2 DEF IInv, PlacesRemembered
    <2>3. CASE j # Len(yielded)
      <3>1. Len(yielded) \in Nat
        BY <1>1
      <3>2. i \in 1 .. Len(yielded) - 1 /\ j \in 1 .. Len(yielded) - 1
        BY <2>1, <2>3, <3>1
      <3> QED BY <1>1, <2>1, <3>2 DEF IInv, PlacesRemembered
    <2> QED BY <2>2, <2>3
  <1>4. ElementsRemembered'
    BY DEF ElementsRemembered, ByElements
  <1>5. PlacesRemembered'
    BY <1>1, <1>2, <1>3 DEF PlacesRemembered
  <1>6. EachElementOnce'
    BY <1>1, <1>3 DEF EachElementOnce
  <1> QED BY <1>4, <1>5, <1>6

-----------------------------------------------------------------------------
(* The steps *)

\* The types after a step that yields the current element and goes on, or does not.
LEMMA TypesKept ==
  ASSUME Types, walker' = walker, memory' = memory, status # "start", status' # "start",
         at' \in Elements, place' \in Elements, turn' \in {"next", "prev"},
         seen' \subseteq Elements, yielded' \in {yielded, Append(yielded, at)}
  PROVE  Types'
  BY DEF Types, Image

\* The rounds that end a walk.
LEMMA EndsKeeps ==
  ASSUME IInv, Types, walker' = walker, memory' = memory, NEW how \in {"done", "raised", "endless"}, Ends(how)
  PROVE  IInv'
  <1>1. Types' BY DEF Types, Ends, Image
  <1>2. ElementsRemembered' /\ PlacesRemembered' /\ EachElementOnce'
    BY NothingYielded DEF Ends
  <1> QED BY <1>1, <1>2 DEF IInv

\* The rounds in which a walk that remembers elements yields one.
LEMMA YieldsElement ==
  ASSUME IInv, Types, walker' = walker, memory' = memory, status = "walking",
         walker \in ByElements,
         Yields({at}) \/ YieldsLast({at}), at \notin seen, walker = "allproc" => yielded # <<>>
  PROVE  IInv'
  <1>1. at' \in Elements /\ place' \in Elements
    BY LinkType DEF Yields, YieldsLast, Types
  <1>2. Types'
    <2>1. seen' \subseteq Elements /\ turn' \in {"next", "prev"} /\ status' # "start"
      BY DEF Yields, YieldsLast, Types
    <2> QED BY <1>1, <2>1, TypesKept DEF Yields, YieldsLast
  <1>3. ElementsRemembered' /\ PlacesRemembered' /\ EachElementOnce'
    BY ElementYielded DEF Yields, YieldsLast
  <1> QED BY <1>2, <1>3 DEF IInv

\* The rounds in which a walk that remembers places yields an element.
LEMMA YieldsPlace ==
  ASSUME IInv, Types, walker' = walker, memory' = memory, status = "walking",
         walker \in RememberPlaces, Yields({place}), place \notin seen
  PROVE  IInv'
  <1>1. at' \in Elements /\ place' \in Elements /\ seen' \subseteq Elements
        /\ turn' \in {"next", "prev"} /\ status' # "start"
    BY LinkType DEF Yields, Types
  <1>2. Types'
    BY <1>1, TypesKept DEF Yields
  <1>3. ElementsRemembered' /\ PlacesRemembered' /\ EachElementOnce'
    BY PlaceYielded DEF Yields
  <1> QED BY <1>2, <1>3 DEF IInv

\* The starts.
LEMMA StartsKeep ==
  ASSUME IInv, Types, walker' = walker, memory' = memory, ToListStarts \/ Starts \/ PathStarts
  PROVE  IInv'
  <1>1. status = "start" /\ yielded = <<>>
    BY DEF ToListStarts, Starts, PathStarts, Types
  <1>2. CASE \E how \in {"done", "raised"} : Ends(how)
    BY <1>2, EndsKeeps
  <1>3. CASE Begins /\ yielded' = <<>> /\ seen' \subseteq Elements
    <2>1. Types'
      BY <1>3, LinkType, AnchorAndNull DEF Begins, Types, Image
    <2>2. ElementsRemembered' /\ PlacesRemembered' /\ EachElementOnce'
      BY <1>3 DEF ElementsRemembered, PlacesRemembered, EachElementOnce
    <2> QED BY <2>1, <2>2 DEF IInv
  <1>4. CASE Begins /\ yielded' = <<Anchor>> /\ seen' \subseteq Elements
             /\ (walker = "path" \/ (walker \in ListHeads /\ seen' = {Anchor}))
    <2>1. Types'
      BY <1>4, LinkType, AnchorAndNull DEF Begins, Types, Image
    <2>2. DOMAIN yielded' = {1} /\ yielded'[1] = Anchor /\ Len(yielded') = 1 /\ place' = Anchor
      BY <1>4 DEF Begins
    <2>3. ElementsRemembered'
      BY <1>4, <2>2 DEF ElementsRemembered, ByElements, RememberPlaces
    <2>4. PlacesRemembered'
      BY <2>2 DEF PlacesRemembered
    <2>5. EachElementOnce'
      BY <2>2 DEF EachElementOnce
    <2> QED BY <2>1, <2>3, <2>4, <2>5 DEF IInv
  <1>5. seen \subseteq Elements
    BY DEF Types
  <1>7. CASE ToListStarts
    <2>1. /\ walker \in ListHeads
          /\ \/ Ends("done")
             \/ Begins /\ yielded' = <<>> /\ seen' = {Anchor}
             \/ Begins /\ yielded' = <<Anchor>> /\ seen' = {Anchor}
      BY <1>7 DEF ToListStarts
    <2> QED BY <2>1, <1>2, <1>3, <1>4, AnchorAndNull
  <1>8. CASE Starts
    BY <1>1, <1>2, <1>3, <1>5, <1>8 DEF Starts
  <1>9. CASE PathStarts
    BY <1>1, <1>2, <1>4, <1>5, <1>9 DEF PathStarts
  <1> QED BY <1>7, <1>8, <1>9

\* The rounds, one walk after the other.
LEMMA RoundsKeep ==
  ASSUME IInv, Types, walker' = walker, memory' = memory, ListRound, walker \notin Forgetful
  PROVE  IInv'
  <1>1. status = "walking" BY DEF ListRound
  <1>2. CASE \E how \in {"done", "raised"} : Ends(how)
    BY <1>2, EndsKeeps
  <1>3. CASE ToListRound
    <2>1. walker \in ByElements /\ walker # "allproc"
      BY <1>3 DEF ToListRound, ByElements, ListWalkers, ListHeads, Forgetful, RememberPlaces
    <2>2. \/ Ends("done")
          \/ at \notin seen /\ (Yields({at}) \/ YieldsLast({at}))
      BY <1>3 DEF ToListRound
    <2> QED BY <1>1, <1>2, <2>1, <2>2, YieldsElement
  <1>4. CASE MmapRound \/ DevicesRound
    <2>1. walker \in ByElements /\ walker # "allproc"
      BY <1>4 DEF MmapRound, DevicesRound, ByElements, ListWalkers, Forgetful, RememberPlaces
    <2>2. \/ Ends("done")
          \/ at \notin seen /\ (Yields({at}) \/ YieldsLast({at}))
      BY <1>4 DEF MmapRound, DevicesRound, DevicesYield
    <2> QED BY <1>1, <1>2, <2>1, <2>2, YieldsElement
  <1>5. CASE WalkIterableRound \/ MapRound \/ PathRound
    <2>1. walker \in RememberPlaces
      BY <1>5 DEF WalkIterableRound, MapRound, PathRound, RememberPlaces
    <2>2. \/ Ends("done") \/ Ends("raised")
          \/ place \notin seen /\ Yields({place})
      BY <1>5 DEF WalkIterableRound, MapRound, PathRound
    <2> QED BY <1>1, <1>2, <2>1, <2>2, YieldsPlace
  <1>6. CASE AllprocRound
    <2>1. walker \in ByElements /\ walker = "allproc"
      BY <1>6 DEF AllprocRound, ByElements, ListWalkers, Forgetful, RememberPlaces
    <2>2. CASE yielded # <<>> /\ at \notin seen /\ Yields({at})
      BY <1>1, <2>1, <2>2, YieldsElement
    <2>3. CASE yielded = <<>> /\ (Yields({Anchor}) \/ YieldsLast({Anchor}))
      <3>1. at' \in Elements /\ place' \in Elements /\ seen' \subseteq Elements
            /\ turn' \in {"next", "prev"} /\ status' # "start"
        BY <1>1, <2>3, LinkType, AnchorAndNull DEF Yields, YieldsLast, Types
      <3>2. Types'
        BY <1>1, <2>3, <3>1, TypesKept DEF Yields, YieldsLast
      <3>3. ElementsRemembered' /\ PlacesRemembered' /\ EachElementOnce'
        BY <2>1, <2>3, ElementYielded DEF Yields, YieldsLast
      <3> QED BY <3>2, <3>3 DEF IInv
    <2>4. \/ Ends("done")
          \/ yielded = <<>> /\ (Yields({Anchor}) \/ YieldsLast({Anchor}))
          \/ yielded # <<>> /\ at \notin seen /\ Yields({at})
      BY <1>6 DEF AllprocRound
    <2> QED BY <1>2, <2>2, <2>3, <2>4
  <1>7. CASE QueueRound
    <2>1. walker \in ByElements /\ walker # "allproc" /\ walker \notin RememberPlaces
      BY <1>7 DEF QueueRound, ByElements, ListWalkers, Forgetful, RememberPlaces
    <2>2. CASE at \notin seen /\ (Yields({at}) \/ YieldsLast({at}))
      BY <1>1, <2>1, <2>2, YieldsElement
    <2>3. CASE /\ at \notin seen /\ yielded' = Append(yielded, at) /\ seen' = seen \cup {at}
               /\ at' = Anchor /\ UNCHANGED <<place, turn, turned, status>>
      <3>1. Types'
        BY <1>1, <2>3, TypesKept, AnchorAndNull DEF Types
      <3>2. ElementsRemembered' /\ PlacesRemembered' /\ EachElementOnce'
        BY <2>1, <2>3, ElementYielded
      <3> QED BY <3>1, <3>2 DEF IInv
    <2>4. CASE /\ turn' = "prev" /\ at' = memory.prev[Anchor] /\ place' = Anchor
               /\ UNCHANGED <<seen, yielded, status>>
      <3>1. Types'
        BY <1>1, <2>4, TypesKept, LinkType, AnchorAndNull DEF Types
      <3>2. ElementsRemembered' /\ PlacesRemembered' /\ EachElementOnce'
        BY <2>1, <2>4, NothingYielded
      <3> QED BY <3>1, <3>2 DEF IInv
    <2> QED BY <1>2, <1>7, <2>2, <2>3, <2>4 DEF QueueRound, QueueTurns, QueueYields
  <1>8. ~HlistRound /\ ~GetPathRound
    BY DEF HlistRound, GetPathRound, Forgetful
  <1> QED BY <1>3, <1>4, <1>5, <1>6, <1>7, <1>8 DEF ListRound

\* A walk that forgets need only keep its types.
LEMMA ForgetfulKeeps ==
  ASSUME IInv, Types, walker' = walker, memory' = memory, HlistRound \/ GetPathRound, status = "walking"
  PROVE  IInv'
  <1>1. walker \in Forgetful /\ walker \notin ByElements \cup RememberPlaces
    BY DEF HlistRound, GetPathRound, Forgetful, ByElements, RememberPlaces
  <1>2. \/ Ends("done") \/ Ends("endless") \/ Yields({})
    BY DEF HlistRound, GetPathRound, Forgetting
  <1>3. CASE Yields({})
    <2>1. Types'
      BY <1>3, LinkType, TypesKept DEF Yields, Types
    <2>2. ElementsRemembered' /\ PlacesRemembered' /\ EachElementOnce'
      BY <1>1 DEF ElementsRemembered, PlacesRemembered, EachElementOnce
    <2> QED BY <2>1, <2>2 DEF IInv
  <1> QED BY <1>2, <1>3, EndsKeeps

\* The invariant is inductive.
THEOREM WalksInductive == IInv /\ [Next]_treeVars => IInv'
  <1> SUFFICES ASSUME IInv, [Next]_treeVars PROVE IInv'
    OBVIOUS
  <1>1. CASE ListStep
    <2>1. walker' = walker /\ memory' = memory /\ (ToListStarts \/ Starts \/ PathStarts \/ ListRound)
      BY <1>1 DEF ListStep
    <2>2. walker \in ListWalkers
      BY <2>1 DEF ToListStarts, Starts, PathStarts, ListRound, ToListRound, HlistRound, GetPathRound,
        MmapRound, DevicesRound, WalkIterableRound, MapRound, AllprocRound, PathRound, QueueRound,
        ListWalkers, ListHeads, RememberPlaces, Forgetful
    <2>3. Types BY <2>2 DEF IInv
    <2>4. CASE ToListStarts \/ Starts \/ PathStarts
      BY <2>1, <2>3, <2>4, StartsKeep
    <2>5. CASE ListRound /\ walker \notin Forgetful
      BY <2>1, <2>3, <2>5, RoundsKeep
    <2>6. CASE ListRound /\ walker \in Forgetful
      <3>1. status = "walking" /\ (HlistRound \/ GetPathRound)
        BY <2>6 DEF ListRound, Forgetful, ToListRound, MmapRound, DevicesRound, WalkIterableRound,
          MapRound, AllprocRound, PathRound, QueueRound, ListHeads
      <3> QED BY <2>1, <2>3, <3>1, ForgetfulKeeps
    <2> QED BY <2>1, <2>4, <2>5, <2>6
  <1>2. CASE TreeStep
    <2>1. walker \notin ListWalkers /\ walker' = walker
      BY <1>2 DEF TreeStep, TreeWalkers, ListWalkers, ListHeads, RememberPlaces, Forgetful
    <2> QED BY <2>1 DEF IInv, ElementsRemembered, PlacesRemembered, EachElementOnce, ByElements,
              ListWalkers
  <1>3. CASE UNCHANGED treeVars
    BY <1>3 DEF treeVars, listVars, IInv, Types, ElementsRemembered, PlacesRemembered,
                EachElementOnce, Image
  <1> QED BY <1>1, <1>2, <1>3 DEF Next

\* In the beginning nothing is yielded.
LEMMA InitialWalks ==
  ASSUME Init
  PROVE  IInv
  <1>1. yielded = <<>>
    BY DEF Init, ListInit
  <1>2. walker \in ListWalkers => Types
    <2>1. <<>> \in Seq(Elements)
      OBVIOUS
    <2> QED BY <1>1, <2>1, AnchorAndNull DEF Init, ListInit, Types
  <1> QED BY <1>1, <1>2 DEF IInv, ElementsRemembered, PlacesRemembered, EachElementOnce

\* In any image, however its links run, no walk yields an element twice but for the one in
\* which a list that is walked by places runs into itself, and the first process of all.
THEOREM ElementsOnce == Spec => []EachElementOnce
  <1>1. Init => IInv
    BY InitialWalks
  <1>2. IInv => EachElementOnce
    BY DEF IInv
  <1> QED BY <1>1, <1>2, WalksInductive, PTL DEF Spec

-----------------------------------------------------------------------------
(* No walk gives up early.  What a walk looks at next is the link of what it *)
(* yielded last, and what it remembers is yielded, or leads to what is: so   *)
(* it ends where the list runs into itself, or where a link leads to nothing. *)

\* What the walk has come to in this direction
Tip(first) == IF first = Len(yielded) THEN Anchor ELSE yielded[Len(yielded)]

Directions ==
  /\ turn = "prev" => walker \in {"to_list backwards", "queue"}
  /\ status = "start" => seen = {} /\ turned = 0 /\ (walker = "queue" => turn = "next")

OneWay ==
  status = "walking" =>
    /\ walker # "queue" => at = Link(Tip(0))
    /\ walker \in ByElements => seen \subseteq {Anchor} \cup Yielded
    /\ walker \in RememberPlaces => place = Tip(0) /\ \A p \in seen : Link(p) \in {Anchor} \cup Yielded
    /\ walker = "tailq" => IsFiniteSet(seen) /\ Cardinality(seen) = Len(yielded)

BothWays ==
  status = "walking" /\ walker = "queue" =>
    /\ turned \in 0 .. Len(yielded) /\ (turn = "next" => turned = 0)
    /\ \/ at = Link(Tip(turned))
       \/ at = Anchor /\ turned < Len(yielded) /\ ~Readable(yielded[Len(yielded)])
    /\ turn = "prev" => OverAfter(memory.next, 0, turned)

EndInv == walker \in ListWalkers => Directions /\ OneWay /\ BothWays /\ WalkedToTheEnd

\* What one more element makes of the sequence.
LEMMA OneMore ==
  ASSUME Types, yielded' = Append(yielded, at)
  PROVE  /\ Len(yielded) \in Nat /\ Len(yielded') = Len(yielded) + 1
         /\ yielded' # <<>> /\ yielded'[Len(yielded')] = at
         /\ \A i \in 1 .. Len(yielded) : yielded'[i] = yielded[i]
         /\ Yielded' = Yielded \cup {at}
  <1>1. /\ Len(yielded) \in Nat /\ Len(yielded') = Len(yielded) + 1
        /\ DOMAIN yielded = 1 .. Len(yielded) /\ DOMAIN yielded' = 1 .. Len(yielded) + 1
        /\ \A i \in 1 .. Len(yielded) : yielded'[i] = yielded[i]
        /\ yielded'[Len(yielded) + 1] = at
    BY DEF Types
  <1>2. ASSUME NEW n \in Yielded PROVE n \in Yielded'
    BY <1>1, <1>2 DEF Yielded
  <1>3. at \in Yielded'
    BY <1>1 DEF Yielded
  <1>4. ASSUME NEW n \in Yielded' PROVE n \in Yielded \cup {at}
    BY <1>1, <1>4 DEF Yielded
  <1> QED BY <1>1, <1>2, <1>3, <1>4

\* An end in one direction stays one, whatever is yielded in the other.
LEMMA OverStays ==
  ASSUME Types, walker' = walker, memory' = memory, NEW links, NEW last \in 0 .. Len(yielded),
         OverAfter(links, 0, last), yielded' \in {yielded, Append(yielded, at)}
  PROVE  OverAfter(links, 0, last)'
  <1>1. Len(yielded) \in Nat
    BY DEF Types
  <1>2. \A i \in 1 .. last : yielded'[i] = yielded[i]
    BY <1>1, OneMore
  <1>3. {yielded'[i] : i \in 1 .. last} = {yielded[i] : i \in 1 .. last}
    BY <1>2
  <1>4. last = 0 \/ (last # 0 /\ last \in 1 .. last)
    BY <1>1
  <1>5. CASE last = 0
    BY <1>3, <1>5 DEF OverAfter, Readable
  <1>6. CASE last # 0 /\ yielded'[last] = yielded[last]
    BY <1>3, <1>6 DEF OverAfter, Readable
  <1> QED BY <1>2, <1>4, <1>5, <1>6

\* What a walk in one direction may end for.
Stop ==
  \/ at \notin memory.readable \cap memory.objects
  \/ at \in {Anchor} \cup Yielded
  \/ walker \in {"path", "get_path"} /\ Link(at) = at

LEMMA StopsInTime ==
  ASSUME Types, EndInv, walker' = walker, memory' = memory, status = "walking", walker # "queue",
         Ends("done"), Stop
  PROVE  EndInv'
  <1>1. walker \in ListWalkers /\ Directions /\ OneWay
    BY DEF Types, EndInv
  <1>2. at = Link(Tip(0)) /\ Len(yielded) \in Nat /\ DOMAIN yielded = 1 .. Len(yielded)
    BY <1>1 DEF OneWay, Types
  <1>3. walker \in {"path", "get_path"} => turn = "next"
    BY <1>1 DEF Directions, Types
  <1>4. OverAfter(IF turn = "next" THEN memory.next ELSE memory.prev, 0, Len(yielded))
    BY <1>2, <1>3 DEF Stop, OverAfter, Link, Tip, Yielded
  <1>5. UNCHANGED <<yielded, turn, seen, turned>> /\ status' = "done"
    BY DEF Ends
  <1>6. WalkedToTheEnd'
    BY <1>4, <1>5 DEF WalkedToTheEnd, OverAfter, Readable
  <1> QED BY <1>1, <1>5, <1>6 DEF EndInv, Directions, OneWay, BothWays

LEMMA RaisesInTime ==
  ASSUME EndInv, walker' = walker, NEW how \in {"raised", "endless"}, Ends(how)
  PROVE  EndInv'
  BY DEF EndInv, Ends, Directions, OneWay, BothWays, WalkedToTheEnd

\* The walk goes on with the link of what it has yielded.
LEMMA GoesOn ==
  ASSUME Types, EndInv, walker' = walker, memory' = memory, status = "walking", walker # "queue",
         NEW r, Yields(r),
         walker \in ByElements => r \subseteq {Anchor, at},
         walker \in RememberPlaces => r = {place} /\ place \notin seen
  PROVE  EndInv'
  <1>1. walker \in ListWalkers /\ Directions /\ OneWay
    BY DEF Types, EndInv
  <1>2. /\ yielded' = Append(yielded, at) /\ seen' = seen \cup r /\ at' = Link(at) /\ place' = at
        /\ turn' = turn /\ turned' = turned /\ status' = status
    BY DEF Yields
  <1>3. /\ Len(yielded) \in Nat /\ Len(yielded') = Len(yielded) + 1
        /\ yielded'[Len(yielded')] = at
        /\ Yielded' = Yielded \cup {at}
    BY <1>2, OneMore
  <1>4. \A n : Link(n)' = Link(n)
    BY <1>2 DEF Link
  <1>5. Tip(0)' = at
    BY <1>3 DEF Tip
  <1>6. at' = Link(Tip(0))'
    BY <1>2, <1>4, <1>5 DEF Link
  <1>7. walker \in ByElements => seen' \subseteq {Anchor} \cup Yielded'
    BY <1>1, <1>2, <1>3 DEF OneWay
  <1>8. walker \in RememberPlaces => place' = Tip(0)' /\ \A p \in seen' : Link(p)' \in {Anchor} \cup Yielded'
    <2> SUFFICES ASSUME walker \in RememberPlaces, NEW p \in seen'
                 PROVE  Link(p) \in {Anchor} \cup Yielded'
      BY <1>2, <1>4, <1>5
    <2>1. CASE p \in seen
      BY <1>1, <1>3, <2>1 DEF OneWay
    <2>2. CASE p = place
      BY <1>1, <1>3, <2>2 DEF OneWay
    <2> QED BY <1>2, <2>1, <2>2
  <1>9. walker = "tailq" => IsFiniteSet(seen') /\ Cardinality(seen') = Len(yielded')
    BY <1>1, <1>2, <1>3, FS_AddElement DEF OneWay, RememberPlaces
  <1>10. OneWay'
    BY <1>6, <1>7, <1>8, <1>9 DEF OneWay
  <1> QED BY <1>1, <1>2, <1>10 DEF EndInv, Directions, BothWays, WalkedToTheEnd

\* The walk is over with the element that it yields.
LEMMA LastInTime ==
  ASSUME Types, EndInv, walker' = walker, memory' = memory, status = "walking", walker # "queue",
         NEW r, YieldsLast(r), ~Readable(at) \/ ~Readable(Link(at))
  PROVE  EndInv'
  <1>1. walker \in ListWalkers /\ Directions
    BY DEF Types, EndInv
  <1>2. yielded' = Append(yielded, at) /\ turn' = turn /\ turned' = turned /\ status' = "done"
    BY DEF YieldsLast
  <1>3. /\ Len(yielded) \in Nat /\ Len(yielded') = Len(yielded) + 1
        /\ yielded'[Len(yielded')] = at
    BY <1>2, OneMore
  <1>4. OverAfter(IF turn = "next" THEN memory.next ELSE memory.prev, 0, Len(yielded))'
    BY <1>2, <1>3 DEF OverAfter, Readable, Link
  <1>5. WalkedToTheEnd'
    BY <1>2, <1>4 DEF WalkedToTheEnd
  <1> QED BY <1>1, <1>2, <1>5 DEF EndInv, Directions, OneWay, BothWays

\* The starts: there is nothing to walk, or the link of the head is looked at.
LEMMA StartsInTime ==
  ASSUME Types, EndInv, walker' = walker, memory' = memory, status = "start",
         ToListStarts \/ Starts \/ PathStarts
  PROVE  EndInv'
  <1>1. /\ walker \in ListWalkers /\ Directions /\ seen = {} /\ yielded = <<>> /\ turned = 0
        /\ walker = "queue" => turn = "next"
    BY DEF Types, EndInv, Directions
  <1>2. Len(<<>>) = 0 /\ DOMAIN <<>> = {} /\ Yielded = {}
    BY <1>1 DEF Yielded
  <1>3. ASSUME Begins, \/ yielded' = <<>>
                       \/ yielded' = <<Anchor>> /\ walker \notin {"queue", "tailq"},
               \/ seen' = {}
               \/ seen' = {Anchor} /\ walker \in ListHeads
        PROVE  EndInv'
    <2>1. /\ at' = Link(Anchor) /\ place' = Anchor /\ status' = "walking"
          /\ turn' = turn /\ turned' = turned
      BY <1>3 DEF Begins
    <2>2. Tip(0)' = Anchor /\ (yielded' = <<>> => Tip(turned)' = Anchor /\ Len(yielded') = 0)
      BY <1>1, <1>3, <2>1 DEF Tip
    <2>3. \A n : Link(n)' = Link(n)
      BY <2>1 DEF Link
    <2>4. OneWay'
      <3>1. at' = Link(Tip(0))' /\ place' = Tip(0)'
        BY <2>1, <2>2 DEF Link
      <3>2. walker \in RememberPlaces => seen' = {}
        BY <1>3 DEF ListHeads, RememberPlaces
      <3>3. walker = "tailq" => IsFiniteSet(seen') /\ Cardinality(seen') = Len(yielded')
        BY <1>2, <1>3, FS_EmptySet DEF ListHeads
      <3>4. seen' \subseteq {Anchor}
        BY <1>3
      <3> QED BY <3>1, <3>2, <3>3, <3>4 DEF OneWay
    <2>5. BothWays'
      <3> SUFFICES ASSUME walker = "queue" PROVE BothWays'
        BY DEF BothWays
      <3>1. yielded' = <<>> /\ turn' = "next" /\ turned' = 0 /\ at' = Link(Tip(turned))'
        BY <1>1, <1>3, <2>1, <2>2 DEF Link
      <3> QED BY <1>2, <3>1 DEF BothWays
    <2> QED BY <1>1, <2>1, <2>4, <2>5 DEF EndInv, Directions, WalkedToTheEnd
  <1>4. ASSUME Ends("done"), \/ ~Readable(Anchor)
                             \/ walker = "to_list of a member" /\ Anchor \notin memory.objects
                             \/ walker \in ListHeads \cup {"path"} /\ Link(Anchor) \notin memory.readable \ {Anchor}
        PROVE  EndInv'
    <2>1. UNCHANGED <<yielded, turn, turned, seen>> /\ status' = "done"
      BY <1>4 DEF Ends
    <2>2. WalkedToTheEnd'
      <3>1. CASE ~Readable(Anchor)
        BY <3>1, <2>1 DEF WalkedToTheEnd, Readable
      <3>2. CASE walker = "to_list of a member" /\ Anchor \notin memory.objects
        BY <3>2, <2>1 DEF WalkedToTheEnd
      <3>3. CASE walker \in ListHeads \cup {"path"} /\ Link(Anchor) \notin memory.readable \ {Anchor}
        <4>1. walker # "queue"
          BY <3>3 DEF ListHeads
        <4>2. OverAfter(IF turn = "next" THEN memory.next ELSE memory.prev, 0, Len(yielded))
          BY <1>1, <1>2, <3>3 DEF OverAfter, Link
        <4> QED BY <2>1, <4>1, <4>2 DEF WalkedToTheEnd, OverAfter, Readable
      <3> QED BY <1>4, <3>1, <3>2, <3>3
    <2> QED BY <1>1, <2>1, <2>2 DEF EndInv, Directions, OneWay, BothWays
  <1>5. CASE ToListStarts
    <2>1. walker \in ListHeads /\ walker \notin {"queue", "tailq"}
      BY <1>5 DEF ToListStarts, ListHeads
    <2>2. CASE Readable(Anchor) /\ Readable(Link(Anchor)) /\ (walker = "to_list of a member" => Anchor \in memory.objects)
      BY <1>3, <1>5, <2>1, <2>2 DEF ToListStarts
    <2>3. CASE ~(Readable(Anchor) /\ Readable(Link(Anchor)) /\ (walker = "to_list of a member" => Anchor \in memory.objects))
      BY <1>4, <1>5, <2>1, <2>3 DEF ToListStarts, Readable
    <2> QED BY <2>2, <2>3
  <1>6. CASE Starts
    <2>1. \/ Begins /\ UNCHANGED <<seen, yielded>>
          \/ ~Readable(Anchor) /\ (Ends("raised") \/ Ends("done"))
      BY <1>6 DEF Starts
    <2> QED BY <1>1, <1>3, <1>4, <2>1, RaisesInTime
  <1>7. CASE PathStarts
    <2>1. walker = "path"
      BY <1>7 DEF PathStarts
    <2>2. \/ Ends("raised")
          \/ Link(Anchor) = Anchor /\ Ends("done")
          \/ yielded' = <<Anchor>> /\ UNCHANGED seen /\ Begins
      BY <1>7 DEF PathStarts
    <2> QED BY <1>1, <1>3, <1>4, <2>1, <2>2, RaisesInTime
  <1> QED BY <1>5, <1>6, <1>7

\* The queue is walked forwards to an end, and backwards to another.
LEMMA QueueInTime ==
  ASSUME Types, EndInv, walker' = walker, memory' = memory, status = "walking", QueueRound
  PROVE  EndInv'
  <1>1. walker = "queue" /\ walker \in ListWalkers /\ Directions /\ OneWay /\ BothWays
    BY DEF QueueRound, EndInv, Types
  <1>2. walker \in ByElements /\ walker \notin RememberPlaces /\ walker # "tailq"
    BY <1>1 DEF ByElements, RememberPlaces, Forgetful
  <1>3. /\ seen \subseteq {Anchor} \cup Yielded /\ Len(yielded) \in Nat /\ DOMAIN yielded = 1 .. Len(yielded)
        /\ turned \in 0 .. Len(yielded) /\ (turn = "next" => turned = 0) /\ turn \in {"next", "prev"}
        /\ turn = "prev" => OverAfter(memory.next, 0, turned)
    BY <1>1, <1>2 DEF OneWay, BothWays, Types
  <1>4. CASE QueueTurns
    <2>1. at \in {Anchor} \cup Yielded
      BY <1>3, <1>4 DEF QueueTurns
    <2>2. OverAfter(IF turn = "next" THEN memory.next ELSE memory.prev, turned, Len(yielded))
      <3>1. CASE at = Link(Tip(turned))
        BY <1>3, <2>1, <3>1 DEF OverAfter, Link, Tip, Yielded
      <3>2. CASE turned < Len(yielded) /\ ~Readable(yielded[Len(yielded)])
        BY <3>2 DEF OverAfter
      <3> QED BY <1>1, <3>1, <3>2 DEF BothWays
    <2>3. CASE turn = "next"
      <3>1. /\ turn' = "prev" /\ turned' = Len(yielded) /\ at' = memory.prev[Anchor]
            /\ UNCHANGED <<seen, yielded, status>>
        BY <1>4, <2>3 DEF QueueTurns
      <3>2. OverAfter(memory.next, 0, turned)'
        BY <1>3, <2>2, <2>3, <3>1 DEF OverAfter, Readable
      <3>3. Link(Tip(turned))' = at'
        BY <3>1 DEF Link, Tip
      <3>4. BothWays'
        BY <1>3, <3>1, <3>2, <3>3 DEF BothWays
      <3>5. OneWay'
        BY <1>1, <1>2, <1>3, <3>1 DEF OneWay, Yielded
      <3> QED BY <1>1, <3>1, <3>4, <3>5 DEF EndInv, Directions, WalkedToTheEnd
    <2>4. CASE turn = "prev"
      <3>1. UNCHANGED <<yielded, turn, turned, seen>> /\ status' = "done"
        BY <1>4, <2>4 DEF QueueTurns, Ends
      <3>2. WalkedToTheEnd'
        BY <1>1, <1>3, <2>2, <2>4, <3>1 DEF WalkedToTheEnd, OverAfter, Readable
      <3> QED BY <1>1, <3>1, <3>2 DEF EndInv, Directions, OneWay, BothWays
    <2> QED BY <1>3, <2>3, <2>4
  <1>5. CASE QueueYields
    <2>1. yielded' = Append(yielded, at) /\ seen' = seen \cup {at} /\ turn' = turn /\ turned' = turned
      BY <1>5 DEF QueueYields, Yields, YieldsLast
    <2>2. /\ Len(yielded') = Len(yielded) + 1 /\ yielded'[Len(yielded')] = at
          /\ Yielded' = Yielded \cup {at}
      BY <2>1, OneMore
    <2>3. OneWay'
      BY <1>1, <1>2, <1>3, <2>1, <2>2 DEF OneWay
    <2>4. turn = "prev" => OverAfter(memory.next, 0, turned)'
      <3> SUFFICES ASSUME turn = "prev" PROVE OverAfter(memory.next, 0, turned)'
        OBVIOUS
      <3> DEFINE links == memory.next
                 last == turned
      <3>1. PICK l, t : l = links /\ t = last
        OBVIOUS
      <3>2. t \in 0 .. Len(yielded) /\ OverAfter(l, 0, t)
        BY <1>3, <3>1
      <3>3. OverAfter(l, 0, t)'
        BY <2>1, <3>2, OverStays
      <3>4. l = memory.next' /\ t = turned'
        BY <2>1, <3>1
      <3> QED BY <3>3, <3>4 DEF OverAfter
    <2>5. CASE Len(yielded) + 1 = Limit /\ status' = "done"
      <3>1. WalkedToTheEnd'
        BY <1>1, <2>2, <2>5 DEF WalkedToTheEnd
      <3> QED BY <1>1, <2>3, <2>5, <2>1, <3>1 DEF EndInv, Directions, BothWays
    <2>6. CASE status' = status /\ at' = Link(at)
      <3>1. Link(Tip(turned))' = at'
        BY <1>3, <2>1, <2>2, <2>6 DEF Link, Tip
      <3>2. BothWays'
        BY <1>3, <2>1, <2>2, <2>4, <3>1 DEF BothWays
      <3> QED BY <1>1, <2>1, <2>3, <2>6, <3>2 DEF EndInv, Directions, WalkedToTheEnd
    <2>7. CASE status' = status /\ at' = Anchor /\ ~Readable(at)
      <3>1. BothWays'
        BY <1>3, <2>1, <2>2, <2>4, <2>7 DEF BothWays, Readable
      <3> QED BY <1>1, <2>1, <2>3, <2>7, <3>1 DEF EndInv, Directions, WalkedToTheEnd
    <2> QED BY <1>5, <2>5, <2>6, <2>7 DEF QueueYields, Yields, YieldsLast
  <1> QED BY <1>4, <1>5 DEF QueueRound

\* The rounds of the other walks.
LEMMA RoundsInTime ==
  ASSUME Types, EndInv, walker' = walker, memory' = memory, ListRound
  PROVE  EndInv'
  <1>1. status = "walking" /\ walker \in ListWalkers /\ Directions /\ OneWay
    BY DEF ListRound, Types, EndInv
  <1>2. Len(yielded) \in Nat /\ memory.readable \subseteq Elements \ {Null}
    BY DEF Types, Image
  <1>3. CASE ToListRound
    <2>1. walker \in ByElements /\ walker # "queue" /\ walker \notin RememberPlaces
      BY <1>3 DEF ToListRound, ByElements, ListWalkers, ListHeads, Forgetful, RememberPlaces
    <2>2. \/ Ends("done") /\ (at \in seen \/ at \notin memory.objects)
          \/ Yields({at})
          \/ YieldsLast({at}) /\ ~Readable(Link(at))
      BY <1>3 DEF ToListRound
    <2>3. at \in seen => at \in {Anchor} \cup Yielded
      BY <1>1, <2>1 DEF OneWay
    <2> QED BY <1>1, <2>1, <2>2, <2>3, StopsInTime, GoesOn, LastInTime DEF Stop
  <1>4. CASE HlistRound \/ GetPathRound
    <2>1. walker \in Forgetful /\ walker # "queue" /\ walker \notin RememberPlaces \cup ByElements
      BY <1>4 DEF HlistRound, GetPathRound, Forgetful, RememberPlaces, ByElements
    <2>2. \/ Ends("endless") \/ Yields({})
          \/ Ends("done") /\ (~Readable(at) \/ at = Anchor \/ (walker = "get_path" /\ Link(at) = at))
      BY <1>4 DEF HlistRound, GetPathRound, Forgetting
    <2> QED BY <1>1, <2>1, <2>2, StopsInTime, GoesOn, RaisesInTime DEF Stop, Readable
  <1>5. CASE MmapRound \/ DevicesRound
    <2>1. walker \in ByElements /\ walker # "queue" /\ walker \notin RememberPlaces
      BY <1>5 DEF MmapRound, DevicesRound, ByElements, ListWalkers, Forgetful, RememberPlaces
    <2>2. \/ Ends("done") /\ (at \in seen \/ ~Readable(at))
          \/ Yields({at})
          \/ YieldsLast({at}) /\ ~Readable(at)
      BY <1>5 DEF MmapRound, DevicesRound, DevicesYield
    <2>3. at \in seen => at \in {Anchor} \cup Yielded
      BY <1>1, <2>1 DEF OneWay
    <2> QED BY <1>1, <2>1, <2>2, <2>3, StopsInTime, GoesOn, LastInTime DEF Stop, Readable
  <1>6. CASE AllprocRound
    <2>1. walker \in ByElements /\ walker # "queue" /\ walker \notin RememberPlaces
      BY <1>6 DEF AllprocRound, ByElements, ListWalkers, Forgetful, RememberPlaces
    <2>2. \/ Ends("done") /\ (at = Null \/ at \in seen \/ ~Readable(at))
          \/ Yields({at}) \/ Yields({Anchor})
          \/ YieldsLast({Anchor}) /\ ~Readable(at)
      BY <1>6 DEF AllprocRound
    <2>3. at \in seen => at \in {Anchor} \cup Yielded
      BY <1>1, <2>1 DEF OneWay
    <2> QED BY <1>1, <1>2, <2>1, <2>2, <2>3, StopsInTime, GoesOn, LastInTime DEF Stop, Readable
  <1>7. CASE WalkIterableRound \/ MapRound \/ PathRound
    <2>1. walker \in RememberPlaces /\ walker # "queue" /\ walker \notin ByElements
      BY <1>7 DEF WalkIterableRound, MapRound, PathRound, RememberPlaces, ByElements
    <2>2. place \in seen => at \in {Anchor} \cup Yielded
      BY <1>1, <2>1 DEF OneWay
    <2>3. CASE \/ Ends("done") /\ (place \in seen \/ ~Readable(at) \/ (walker = "path" /\ Link(at) = at))
               \/ Ends("raised")
               \/ Yields({place}) /\ place \notin seen
      BY <1>1, <2>1, <2>2, <2>3, StopsInTime, GoesOn, RaisesInTime DEF Stop, Readable
    <2>4. CASE Ends("done") /\ \/ walker = "tailq" /\ Cardinality(seen) + 1 = Limit
                               \/ walker = "map" /\ Len(yielded) = memory.entries
      <3>1. UNCHANGED <<yielded, turn, turned, seen>> /\ status' = "done"
        BY <2>4 DEF Ends
      <3>2. walker = "tailq" => Cardinality(seen) = Len(yielded)
        BY <1>1 DEF OneWay
      <3>3. walker = "tailq" => Len(yielded') = Limit - 1
        BY <1>2, <2>4, <3>1, <3>2
      <3>4. walker = "map" => Len(yielded') = memory'.entries
        BY <2>4, <3>1
      <3>5. walker' = "tailq" \/ walker' = "map"
        BY <2>4
      <3>6. WalkedToTheEnd'
        BY <3>3, <3>4, <3>5 DEF WalkedToTheEnd
      <3> QED BY <1>1, <3>1, <3>6 DEF EndInv, Directions, OneWay, BothWays
    <2> QED BY <1>7, <2>3, <2>4 DEF WalkIterableRound, MapRound, PathRound
  <1>8. CASE QueueRound
    BY <1>1, <1>8, QueueInTime
  <1> QED BY <1>3, <1>4, <1>5, <1>6, <1>7, <1>8 DEF ListRound

\* However the links run and whatever cannot be read: a walk that comes to its end has come to
\* the end of the list, to its beginning, to what it has yielded, or to what cannot be read.
THEOREM WalksReachTheEnd == Spec => []WalkedToTheEnd
  <1>1. Init => IInv /\ EndInv
    <2> SUFFICES ASSUME Init PROVE EndInv
      BY InitialWalks
    <2>1. /\ status = "start" /\ seen = {} /\ turned = 0
          /\ turn = (IF walker = "to_list backwards" THEN "prev" ELSE "next")
      BY DEF Init, ListInit
    <2> QED BY <2>1 DEF EndInv, Directions, OneWay, BothWays, WalkedToTheEnd
  <1>2. IInv /\ EndInv /\ [Next]_treeVars => EndInv'
    <2> SUFFICES ASSUME IInv, EndInv, [Next]_treeVars PROVE EndInv'
      OBVIOUS
    <2>1. CASE ListStep
      <3>1. walker' = walker /\ memory' = memory /\ (ToListStarts \/ Starts \/ PathStarts \/ ListRound)
        BY <2>1 DEF ListStep
      <3>2. walker \in ListWalkers
        BY <3>1 DEF ToListStarts, Starts, PathStarts, ListRound, ToListRound, HlistRound, GetPathRound,
          MmapRound, DevicesRound, WalkIterableRound, MapRound, AllprocRound, PathRound, QueueRound,
          ListWalkers, ListHeads, RememberPlaces, Forgetful
      <3>3. Types
        BY <3>2 DEF IInv
      <3>4. CASE ListRound
        BY <3>1, <3>3, <3>4, RoundsInTime
      <3>5. CASE ToListStarts \/ Starts \/ PathStarts
        <4>1. status = "start"
          BY <3>5 DEF ToListStarts, Starts, PathStarts
        <4> QED BY <3>1, <3>3, <3>5, <4>1, StartsInTime
      <3> QED BY <3>1, <3>4, <3>5
    <2>2. CASE TreeStep
      <3>1. walker \notin ListWalkers /\ walker' = walker
        BY <2>2 DEF TreeStep, TreeWalkers, ListWalkers, ListHeads, RememberPlaces, Forgetful
      <3> QED BY <3>1 DEF EndInv
    <2>3. CASE UNCHANGED treeVars
      <3>1. UNCHANGED listVars
        BY <2>3 DEF treeVars
      <3>2. UNCHANGED <<walker, memory, at, place, seen, yielded, turn, turned, status>>
        BY <3>1 DEF listVars
      <3>3. Directions' <=> Directions
        BY <3>2 DEF Directions
      <3>4. OneWay' <=> OneWay
        BY <3>2 DEF OneWay, Link, Tip, Yielded
      <3>5. BothWays' <=> BothWays
        BY <3>2 DEF BothWays, Link, Tip, Readable, OverAfter
      <3>6. WalkedToTheEnd' <=> WalkedToTheEnd
        BY <3>2 DEF WalkedToTheEnd, Readable, OverAfter
      <3> QED BY <3>2, <3>3, <3>4, <3>5, <3>6 DEF EndInv
    <2> QED BY <2>1, <2>2, <2>3 DEF Next
  <1>3. EndInv => WalkedToTheEnd
    BY DEF EndInv, WalkedToTheEnd
  <1> QED BY <1>1, <1>2, <1>3, WalksInductive, PTL DEF Spec

-----------------------------------------------------------------------------
(* The walks over trees, from what a call comes to *)

\* The places of what is in T, in order and without repetition.
LEMMA PlacesInOrder ==
  ASSUME NEW X, NEW s \in Seq(X), NEW T
  PROVE  /\ Places(s, T) \in Seq(1 .. Len(s))
         /\ \A k \in DOMAIN Places(s, T) : s[Places(s, T)[k]] \in T
         /\ \A i \in 1 .. Len(s) : s[i] \in T => \E k \in DOMAIN Places(s, T) : Places(s, T)[k] = i
         /\ \A j, k \in DOMAIN Places(s, T) : j < k => Places(s, T)[j] < Places(s, T)[k]
  <1> DEFINE n == Len(s)
             V == Seq(1 .. n)
             next == [i \in 1 .. n |-> [u \in V |-> IF s[i] \in T THEN Append(u, i) ELSE u]]
             Def(f) == f = [i \in 0 .. n |->
                         IF i = 0 THEN <<>> ELSE IF s[i] \in T THEN Append(f[i - 1], i) ELSE f[i - 1]]
             f == CHOOSE g : Def(g)
             Right(i) == /\ \A k \in DOMAIN f[i] : f[i][k] \in 1 .. i /\ s[f[i][k]] \in T
                         /\ \A j \in 1 .. i : s[j] \in T => \E k \in DOMAIN f[i] : f[i][k] = j
                         /\ \A j, k \in DOMAIN f[i] : j < k => f[i][j] < f[i][k]
             S == {i \in 0 .. n : Right(i)}
  <1>1. n \in Nat /\ <<>> \in V
    OBVIOUS
  <1>2. next \in [1 .. n -> [V -> V]]
    <2> SUFFICES ASSUME NEW i \in 1 .. n, NEW u \in V PROVE Append(u, i) \in V
      OBVIOUS
    <2> QED OBVIOUS
  <1>3. PICK g \in [0 .. n -> V] : Unfolds(g, n, <<>>, next)
    <2> HIDE DEF n, V, next
    <2> QED BY <1>1, <1>2, Unfold
  <1>4. Def(g)
    <2>1. \A i \in 0 .. n : i # 0 => i \in 1 .. n /\ i - 1 \in 0 .. n
      OBVIOUS
    <2>2. \A i \in 0 .. n : i # 0 => next[i][g[i - 1]] = IF s[i] \in T THEN Append(g[i - 1], i) ELSE g[i - 1]
      BY <2>1
    <2> HIDE DEF next
    <2>3. \A i \in 0 .. n : g[i] = IF i = 0 THEN <<>> ELSE IF s[i] \in T THEN Append(g[i - 1], i) ELSE g[i - 1]
      BY <1>3, <2>1, <2>2 DEF Unfolds
    <2> HIDE DEF V
    <2> QED BY <1>3, <2>3
  <1>5. Def(f)
    <2> HIDE DEF Def
    <2> QED BY <1>4
  <1>6. Places(s, T) = f[n]
    BY DEF Places
  <1> HIDE DEF f
  <1>7. f[0] = <<>> /\ \A i \in 1 .. n : f[i] = IF s[i] \in T THEN Append(f[i - 1], i) ELSE f[i - 1]
    <2>1. \A i \in 1 .. n : i # 0 /\ i \in 0 .. n
      OBVIOUS
    <2>2. 0 \in 0 .. n
      BY <1>1
    <2> QED BY <1>5, <2>1, <2>2
  <1> DEFINE Typed == {i \in 0 .. n : f[i] \in V}
  <1>8. \A i \in 0 .. n : f[i] \in V
    <2>1. 0 \in Typed
      <3>1. 0 \in 0 .. n /\ f[0] \in V
        BY <1>1, <1>7
      <3> HIDE DEF V
      <3> QED BY <3>1
    <2>2. ASSUME NEW i \in 0 .. n - 1, i \in Typed PROVE i + 1 \in Typed
      <3>1. i + 1 \in 1 .. n /\ (i + 1) - 1 = i
        BY <1>1
      <3>2. f[i + 1] = IF s[i + 1] \in T THEN Append(f[i], i + 1) ELSE f[i]
        BY <1>7, <3>1
      <3>3. f[i] \in V
        BY <2>2
      <3>4. f[i + 1] \in V
        <4>1. PICK u \in V : u = f[i]
          BY <3>3
        <4>2. PICK m \in 1 .. n : m = i + 1
          BY <3>1
        <4>3. Append(u, m) \in V
          BY <4>1, <4>2
        <4> QED BY <3>2, <4>1, <4>2, <4>3
      <3>5. i + 1 \in 0 .. n
        BY <3>1
      <3> HIDE DEF V
      <3> QED BY <3>4, <3>5
    <2> HIDE DEF Typed
    <2>3. 0 .. n \subseteq Typed
      BY <1>1, <2>1, <2>2, UpTo
    <2> QED BY <2>3 DEF Typed
  <1>9. 0 \in S
    BY <1>1, <1>7
  <1>10. ASSUME NEW i \in 0 .. n - 1, i \in S PROVE i + 1 \in S
    <2>1. i + 1 \in 1 .. n /\ i + 1 \in 0 .. n /\ i \in 0 .. n /\ (i + 1) - 1 = i
      BY <1>1
    <2>2. PICK m : m = i + 1
      OBVIOUS
    <2>3. PICK u : u = f[i]
      OBVIOUS
    <2>4. u \in Seq(1 .. n) /\ f[m] = IF s[m] \in T THEN Append(u, m) ELSE u
      BY <1>7, <1>8, <2>1, <2>2, <2>3
    <2>5. /\ \A k \in DOMAIN u : u[k] \in 1 .. i /\ s[u[k]] \in T
          /\ \A j \in 1 .. i : s[j] \in T => \E k \in DOMAIN u : u[k] = j
          /\ \A j, k \in DOMAIN u : j < k => u[j] < u[k]
      BY <1>10, <2>3
    <2>6. i \in Nat /\ m \in Nat /\ m = i + 1 /\ DOMAIN u = 1 .. Len(u) /\ Len(u) \in Nat
      BY <2>2, <2>4
    <2>7. CASE s[m] \in T
      <3>1. PICK w : w = Append(u, m)
        OBVIOUS
      <3>2. /\ Len(u) \in Nat /\ DOMAIN u = 1 .. Len(u) /\ DOMAIN w = 1 .. Len(u) + 1
            /\ w[Len(u) + 1] = m /\ \A k \in 1 .. Len(u) : w[k] = u[k]
        BY <2>4, <3>1
      <3>3. \A k \in DOMAIN w : w[k] \in 1 .. m /\ s[w[k]] \in T
        BY <2>5, <2>6, <2>7, <3>2
      <3>4. \A j \in 1 .. m : s[j] \in T => \E k \in DOMAIN w : w[k] = j
        <4> SUFFICES ASSUME NEW j \in 1 .. m, s[j] \in T PROVE \E k \in DOMAIN w : w[k] = j
          OBVIOUS
        <4>1. CASE j = m
          BY <2>6, <3>2, <4>1
        <4>2. CASE j # m
          <5>1. j \in 1 .. i
            BY <2>6, <4>2
          <5>2. PICK k \in DOMAIN u : u[k] = j
            BY <2>5, <5>1
          <5> QED BY <2>6, <3>2, <5>2
        <4> QED BY <4>1, <4>2
      <3>5. \A j, k \in DOMAIN w : j < k => w[j] < w[k]
        BY <2>5, <2>6, <3>2
      <3>6. f[m] = w
        BY <2>4, <2>7, <3>1
      <3>7. Right(m)
        BY <3>3, <3>4, <3>5, <3>6
      <3> QED BY <2>1, <2>2, <3>7
    <2>8. CASE s[m] \notin T
      <3>1. \A j \in 1 .. m : s[j] \in T => \E k \in DOMAIN u : u[k] = j
        BY <2>5, <2>6, <2>8
      <3>2. Right(m)
        BY <2>4, <2>5, <2>6, <2>8, <3>1
      <3> QED BY <2>1, <2>2, <3>2
    <2> QED BY <2>7, <2>8
  <1>11. 0 .. n \subseteq S
    <2> HIDE DEF S, n
    <2> QED BY <1>1, <1>9, <1>10, UpTo
  <1>12. Right(n) /\ f[n] \in V
    BY <1>1, <1>8, <1>11
  <1> QED BY <1>6, <1>12

-----------------------------------------------------------------------------
(* The walks over trees.  What hangs together with the root is the least set *)
(* that has the root and is closed under what is followed.                   *)

Waiting == Items(stack)

CallType == [node : Elements, parent : Elements \cup Nat, depth : Nat]

TreeTypes ==
  /\ TreeImage(memory) /\ seen \subseteq Elements
  /\ stack \in Seq(CallType) /\ yielded \in Seq(Elements \cup (Nat \X Nat))

\* What hangs together has the root, goes on where a node is followed, and no more.
LEMMA ReachedLeast ==
  /\ Reached \subseteq Elements /\ Anchor \in Reached
  /\ \A n \in Reached : \A m \in Elements : Follows(n, m) => m \in Reached
  /\ \A S \in SUBSET Elements : Anchor \in S /\ Closed(S) => Reached \subseteq S
  <1>1. Anchor \in Reached
    BY AnchorAndNull DEF Reached
  <1>2. ASSUME NEW n \in Reached, NEW m \in Elements, Follows(n, m), NEW S \in SUBSET Elements, Anchor \in S, Closed(S)
        PROVE  m \in S
    <2>1. n \in S
      BY <1>2 DEF Reached
    <2> QED BY <1>2, <2>1 DEF Closed
  <1>3. \A n \in Reached : \A m \in Elements : Follows(n, m) => m \in Reached
    BY <1>2 DEF Reached
  <1> QED BY <1>1, <1>3 DEF Reached

\* The image stays as it is, and with it what hangs together.
LEMMA SameTree ==
  ASSUME walker' = walker, memory' = memory
  PROVE  /\ \A n : KidsOf(n)' = KidsOf(n)
         /\ \A n, m : Follows(n, m)' <=> Follows(n, m)
         /\ Reached' = Reached
  <1>1. \A n : KidsOf(n)' = KidsOf(n)
    BY DEF KidsOf, Readable
  <1>2. \A n, m : Follows(n, m)' <=> Follows(n, m)
    BY <1>1 DEF Follows, Readable
  <1>3. \A S : Closed(S)' <=> Closed(S)
    BY <1>2 DEF Closed
  <1> QED BY <1>1, <1>2, <1>3 DEF Reached

\* The kids of a node, in order, are its kids.
LEMMA KidsListed ==
  ASSUME TreeImage(memory), NEW n
  PROVE  /\ Kids(n) \in Seq(Elements)
         /\ \A i \in DOMAIN Kids(n) : Kids(n)[i] \in KidsOf(n)
         /\ \A m \in KidsOf(n) : \E i \in DOMAIN Kids(n) : Kids(n)[i] = m
  <1>1. CASE ~Readable(n)
    BY <1>1 DEF Kids, KidsOf
  <1>2. CASE Readable(n)
    <2> DEFINE T == Elements \ {Null}
    <2>1. PICK s \in Seq(Elements) : s = memory.kids[n]
      BY <1>2 DEF TreeImage, Readable
    <2>2. PICK p : p = Places(s, T)
      OBVIOUS
    <2>3. /\ p \in Seq(1 .. Len(s)) /\ \A k \in DOMAIN p : s[p[k]] \in T
          /\ \A i \in 1 .. Len(s) : s[i] \in T => \E k \in DOMAIN p : p[k] = i
      <3> HIDE DEF T
      <3> QED BY <2>2, PlacesInOrder
    <2>4. Kids(n) = [k \in DOMAIN p |-> s[p[k]]]
      BY <1>2, <2>1, <2>2 DEF Kids, Taken
    <2>5. KidsOf(n) = {s[i] : i \in DOMAIN s} \ {Null}
      BY <1>2, <2>1 DEF KidsOf
    <2>6. DOMAIN p = 1 .. Len(p) /\ Len(p) \in Nat /\ DOMAIN s = 1 .. Len(s) /\ \A i \in DOMAIN s : s[i] \in Elements
      BY <2>1, <2>3
    <2>7. \A k \in DOMAIN p : p[k] \in DOMAIN s /\ s[p[k]] \in Elements
      BY <2>3, <2>6
    <2> QED BY <2>3, <2>4, <2>5, <2>6, <2>7
  <1> QED BY <1>1, <1>2

\* What a call leaves: the calls that were waiting but for itself, its own calls, and what
\* was yielded before and by it.
LEMMA CallsLeave ==
  ASSUME TreeTypes, stack # <<>>, NEW what \in Seq(Elements), NEW nodes \in Seq(Elements), NEW d \in Nat,
         Calls(what, nodes, d)
  PROVE  /\ stack' \in Seq(CallType) /\ yielded' \in Seq(Elements \cup (Nat \X Nat)) /\ status' = status
         /\ Call1 \in CallType /\ Call1 \in Waiting
         /\ \A c \in Waiting : c = Call1 \/ c \in Waiting'
         /\ \A i \in DOMAIN nodes : Call(nodes[i], Call1.node, d) \in Waiting'
         /\ \A c \in Waiting' : c \in Waiting \/ \E i \in DOMAIN nodes : c = Call(nodes[i], Call1.node, d)
         /\ Yielded' = Yielded \cup Items(what)
  <1> DEFINE mine == [i \in 1 .. Len(nodes) |-> Call(nodes[i], Call1.node, d)]
             all == Elements \cup (Nat \X Nat)
  <1>1. PICK rest : rest = Tail(stack)
    OBVIOUS
  <1>2. /\ Call1 \in CallType /\ rest \in Seq(CallType)
        /\ Waiting = {Call1} \cup Items(rest)
    BY <1>1, ItemsOfRest DEF TreeTypes, Call1, Waiting
  <1>3. PICK m : m = mine
    OBVIOUS
  <1>4. \A i \in DOMAIN nodes : Call(nodes[i], Call1.node, d) \in CallType
    BY <1>2 DEF Call, CallType
  <1>5. m \in Seq(CallType) /\ DOMAIN m = DOMAIN nodes /\ \A i \in DOMAIN nodes : m[i] = Call(nodes[i], Call1.node, d)
    BY <1>3, <1>4
  <1>6. stack' = m \o rest /\ yielded' = yielded \o what /\ status' = status
    BY <1>1, <1>3 DEF Calls
  <1>7. stack' \in Seq(CallType) /\ Items(stack') = Items(m) \cup Items(rest)
    BY <1>2, <1>5, <1>6, ItemsOfBoth
  <1>8. Waiting' = Items(stack') /\ Items(m) = {Call(nodes[i], Call1.node, d) : i \in DOMAIN nodes}
    BY <1>5 DEF Waiting, Items
  <1>9. yielded \in Seq(all) /\ what \in Seq(all)
    BY DEF TreeTypes
  <1>10. yielded' \in Seq(all) /\ Items(yielded') = Items(yielded) \cup Items(what)
    <2> HIDE DEF all
    <2> QED BY <1>6, <1>9, ItemsOfBoth
  <1>11. Yielded = Items(yielded) /\ Yielded' = Items(yielded')
    BY DEF Yielded, Items
  <1> QED BY <1>2, <1>6, <1>7, <1>8, <1>10, <1>11

\* The call that is made next waits.
LEMMA FirstWaits ==
  ASSUME TreeTypes, stack # <<>>
  PROVE  Call1 \in CallType /\ Call1.node \in Elements /\ Call1.depth \in Nat /\ Call1 \in Waiting
  <1>1. Call1 \in CallType /\ Call1 \in Waiting
    BY ItemsOfRest DEF TreeTypes, Call1, Waiting
  <1> QED BY <1>1 DEF CallType

\* A call that returns leaves all others, and what was yielded.
LEMMA ReturnLeaves ==
  ASSUME TreeTypes, stack # <<>>, Returns
  PROVE  /\ stack' \in Seq(CallType) /\ yielded' = yielded /\ status' = status
         /\ \A c \in Waiting : c = Call1 \/ c \in Waiting'
         /\ Waiting' \subseteq Waiting
         /\ Yielded' = Yielded
  <1>1. <<>> \in Seq(Elements) /\ 0 \in Nat /\ DOMAIN <<>> = {} /\ Items(<<>>) = {}
    BY DEF Items
  <1>2. Calls(<<>>, <<>>, 0)
    BY DEF Returns
  <1>3. yielded' = yielded
    BY <1>1, <1>2 DEF Calls, TreeTypes
  <1> QED BY <1>1, <1>2, <1>3, CallsLeave

\* Every kid of n has been looked at, or will be.
Ahead(n) == \A m \in KidsOf(n) : m \in seen \/ \E c \in Waiting : c.node = m

\* The root is looked at first.
FromTheRoot == IF seen = {} THEN stack = <<Call(Anchor, Null, 0)>> ELSE Anchor \in seen

Distinct == \A i, j \in DOMAIN yielded : yielded[i] = yielded[j] => i = j

\* A VAD that was looked at is yielded if it has a tag; its kids come next, and those of a root
\* without one.
VadInv ==
  walker = "vad" /\ status = "walking" =>
    /\ FromTheRoot
    /\ \A n \in seen : n \in memory.marked => n \in Yielded
    /\ \A n \in seen : n \in memory.marked \cup {Anchor} => Ahead(n)
    /\ Yielded \subseteq seen /\ Distinct

\* A maple node is called with a parent that has it in a slot; of a node with one such parent
\* either what it has is yielded, or its kids come next.
Confirmed(m) == m = Anchor \/ \E n \in Elements : Follows(n, m)

MapleInv ==
  walker = "maple" /\ status = "walking" /\ memory.parent[Anchor] = Null =>
    /\ FromTheRoot
    /\ \A c \in Waiting : c.node = Anchor \/ (c.parent \in memory.readable \ memory.marked /\ c.node \in KidsOf(c.parent))
    /\ \A m \in seen : Confirmed(m) => IF m \in memory.marked THEN KidsOf(m) \subseteq Yielded ELSE Ahead(m)

\* The nodes of a red-black tree that are yielded hang together, and their kids come next.
RbInv ==
  walker = "rb" /\ status = "walking" =>
    /\ \A c \in Waiting : c.node = Anchor \/ \E q \in Yielded : c.node \in KidsOf(q)
    /\ Yielded \subseteq Reached \cap memory.readable
    /\ \A q \in Yielded : \A m \in KidsOf(q) : Readable(m) => m \in Yielded \/ \E c \in Waiting : c.node = m
    /\ Readable(Anchor) => Anchor \in Yielded \/ \E c \in Waiting : c.node = Anchor

\* The nodes of an ID storage on a path from the root.
Path(p, h) == p \in [0 .. h -> Elements] /\ p[0] = Anchor /\ \A i \in 1 .. h : p[i] \in KidsOf(p[i - 1])

\* Every call of the walk over an ID storage is on its level, and on every path down to an
\* entry there is a call that has not been made, or the entry is yielded.
IdrInv ==
  walker = "idr" /\ status = "walking" =>
    /\ \A c \in Waiting : c.depth <= memory.height /\ c.node \in Level(memory.height - c.depth)
    /\ Yielded \subseteq Level(memory.height) \cap memory.marked
    /\ ~Readable(Anchor) => yielded = <<>> /\ stack = <<>>
    /\ Readable(Anchor) =>
         \A p : Path(p, memory.height) =>
           \/ p[memory.height] \in memory.marked => p[memory.height] \in Yielded
           \/ \E c \in Waiting : c.depth <= memory.height /\ c.node = p[memory.height - c.depth]

-----------------------------------------------------------------------------
(* The steps of the walks over trees *)

\* A kid that comes next stays so, unless it is looked at.
LEMMA AheadStays ==
  ASSUME NEW n, walker' = walker, memory' = memory, seen \subseteq seen', Call1.node \in seen',
         \A c \in Waiting : c = Call1 \/ c \in Waiting', Ahead(n)
  PROVE  Ahead(n)'
  <1>1. KidsOf(n)' = KidsOf(n)
    BY SameTree
  <1> QED BY <1>1 DEF Ahead

\* The kids that a call has called for come next.
LEMMA KidsAhead ==
  ASSUME NEW n, walker' = walker, memory' = memory, TreeImage(memory), NEW p, NEW d,
         \A i \in DOMAIN Kids(n) : Call(Kids(n)[i], p, d) \in Waiting'
  PROVE  Ahead(n)'
  <1>1. KidsOf(n)' = KidsOf(n)
    BY SameTree
  <1>2. ASSUME NEW m \in KidsOf(n) PROVE \E c \in Waiting' : c.node = m
    <2>1. PICK i \in DOMAIN Kids(n) : Kids(n)[i] = m
      BY KidsListed
    <2>2. Call(m, p, d) \in Waiting' /\ Call(m, p, d).node = m
      BY <2>1 DEF Call
    <2> QED BY <2>2
  <1> QED BY <1>1, <1>2 DEF Ahead

\* The call that is made when nothing has been looked at is that for the root.
LEMMA FirstCall ==
  ASSUME FromTheRoot, stack # <<>>
  PROVE  seen # {} \/ Call1 = Call(Anchor, Null, 0)
  BY DEF FromTheRoot, Call1

\* A step over VADs.
LEMMA VadKeeps ==
  ASSUME TreeTypes, VadInv, walker' = walker, memory' = memory, status = "walking", stack # <<>>, VadCall
  PROVE  TreeTypes' /\ VadInv' /\ status' # "done"
  <1>1. walker = "vad" /\ TreeImage(memory)
    BY DEF VadCall, TreeTypes
  <1>7. PICK n : n = Call1.node
    OBVIOUS
  <1>2. Call1 \in CallType
    BY FirstWaits
  <1>3. CASE Raises /\ UNCHANGED seen
    BY <1>3 DEF Raises, TreeTypes, VadInv, TreeImage
  <1>4. CASE n \in seen /\ Returns /\ UNCHANGED seen
    <2>1. /\ TreeTypes' /\ status' = status /\ yielded' = yielded /\ Yielded' = Yielded
          /\ \A c \in Waiting : c = Call1 \/ c \in Waiting'
      BY <1>4, ReturnLeaves DEF TreeTypes, TreeImage
    <2>2. \A m \in seen : Ahead(m) => Ahead(m)'
      BY <1>4, <1>7, <2>1, AheadStays
    <2> QED BY <1>1, <1>4, <2>1, <2>2 DEF VadInv, FromTheRoot, Distinct
  <1>5. CASE n \notin seen /\ Visits(n) /\ (n \in memory.marked \/ Call1.depth = 0)
             /\ Calls(IF n \in memory.marked THEN <<n>> ELSE <<>>, Kids(n), IF n \in memory.marked THEN Call1.depth + 1 ELSE 1)
    <2> DEFINE what == IF n \in memory.marked THEN <<n>> ELSE <<>>
               d == IF n \in memory.marked THEN Call1.depth + 1 ELSE 1
    <2>1. n \in Elements /\ d \in Nat /\ what \in Seq(Elements)
      BY <1>2, <1>7 DEF CallType
    <2>2. Items(what) = IF n \in memory.marked THEN {n} ELSE {}
      BY DEF Items
    <2>3. Kids(n) \in Seq(Elements)
      BY <1>1, KidsListed
    <2>4. /\ TreeTypes' /\ status' = status
          /\ \A c \in Waiting : c = Call1 \/ c \in Waiting'
          /\ \A i \in DOMAIN Kids(n) : Call(Kids(n)[i], n, d) \in Waiting'
          /\ Yielded' = Yielded \cup Items(what) /\ seen' = seen \cup {n}
      <3> HIDE DEF d, what
      <3>1. seen' = seen \cup {n}
        BY <1>5 DEF Visits
      <3>2. Calls(what, Kids(n), d)
        BY <1>5 DEF what, d
      <3> QED BY <2>1, <2>3, <3>1, <3>2, <1>7, CallsLeave DEF TreeTypes, TreeImage
    <2>5. yielded' = yielded \o what
      BY <1>5 DEF Calls
    <2>6. Ahead(n)'
      <3> HIDE DEF d
      <3> QED BY <1>1, <2>4, KidsAhead
    <2>7. \A m \in seen : Ahead(m) => Ahead(m)'
      BY <2>4, <1>7, AheadStays
    <2>8. FromTheRoot'
      <3>1. seen # {} \/ n = Anchor
        BY <1>1, <1>7, FirstCall DEF VadInv, Call
      <3> QED BY <1>1, <2>4, <3>1 DEF FromTheRoot, VadInv
    <2>9. Distinct'
      <3>1. CASE n \notin memory.marked
        <4>1. yielded' = yielded
          BY <2>5, <3>1 DEF TreeTypes
        <4> QED BY <1>1, <4>1 DEF Distinct, VadInv
      <3>2. CASE n \in memory.marked
        <4>1. yielded' = Append(yielded, n)
          BY <2>5, <3>2 DEF TreeTypes
        <4>2. /\ DOMAIN yielded = 1 .. Len(yielded) /\ DOMAIN yielded' = 1 .. Len(yielded) + 1 /\ Len(yielded) \in Nat
              /\ yielded'[Len(yielded) + 1] = n /\ \A i \in 1 .. Len(yielded) : yielded'[i] = yielded[i]
          BY <4>1 DEF TreeTypes
        <4>3. \A i \in DOMAIN yielded : yielded[i] # n
          BY <1>1, <1>5 DEF VadInv, Yielded
        <4>4. Distinct
          BY <1>1 DEF VadInv
        <4> QED BY <4>2, <4>3, <4>4 DEF Distinct
      <3> QED BY <3>1, <3>2
    <2>10. Yielded \subseteq seen /\ (\A m \in seen : m \in memory.marked => m \in Yielded)
           /\ \A m \in seen : m \in memory.marked \cup {Anchor} => Ahead(m)
      BY <1>1 DEF VadInv
    <2> HIDE DEF what, d
    <2> QED BY <1>5, <2>2, <2>4, <2>6, <2>7, <2>8, <2>9, <2>10 DEF VadInv
  <1>6. CASE n \notin seen /\ Visits(n) /\ n \notin memory.marked /\ Call1.depth # 0 /\ Returns
    <2>1. /\ TreeTypes' /\ status' = status /\ yielded' = yielded /\ Yielded' = Yielded
          /\ \A c \in Waiting : c = Call1 \/ c \in Waiting'
          /\ seen' = seen \cup {n}
      BY <1>2, <1>6, <1>7, ReturnLeaves DEF TreeTypes, TreeImage, Visits, CallType
    <2>2. \A m \in seen : Ahead(m) => Ahead(m)'
      BY <2>1, <1>7, AheadStays
    <2>3. seen # {} /\ Anchor \in seen
      BY <1>1, <1>6, <1>7, FirstCall DEF VadInv, Call, FromTheRoot
    <2>4. FromTheRoot' /\ Distinct'
      BY <1>1, <2>1, <2>3 DEF FromTheRoot, Distinct, VadInv
    <2>5. Yielded \subseteq seen /\ (\A m \in seen : m \in memory.marked => m \in Yielded)
          /\ \A m \in seen : m \in memory.marked \cup {Anchor} => Ahead(m)
      BY <1>1 DEF VadInv
    <2> QED BY <1>6, <2>1, <2>2, <2>3, <2>4, <2>5 DEF VadInv
  <1> QED BY <1>3, <1>4, <1>5, <1>6, <1>7 DEF VadCall

\* A step over maple nodes: the call for a node that has one parent is confirmed by it.
LEMMA MapleKeeps ==
  ASSUME TreeTypes, MapleInv, walker' = walker, memory' = memory, status = "walking", stack # <<>>, MapleCall
  PROVE  TreeTypes' /\ MapleInv' /\ status' # "done"
  <1>1. walker = "maple" /\ TreeImage(memory)
    BY DEF MapleCall, TreeTypes
  <1>2. PICK n : n = Call1.node
    OBVIOUS
  <1>3. Call1 \in CallType /\ n \in Elements /\ Call1 \in Waiting
    BY <1>2, FirstWaits
  <1> DEFINE Parent(c) == c.node = Anchor \/ (c.parent \in memory.readable \ memory.marked /\ c.node \in KidsOf(c.parent))
             Done(m) == IF m \in memory.marked THEN KidsOf(m) \subseteq Yielded ELSE Ahead(m)
  <1>4. \A m : Confirmed(m)' <=> Confirmed(m)
    BY SameTree DEF Confirmed
  <1>5. \A m : KidsOf(m)' = KidsOf(m)
    BY SameTree
  <1>6. memory.parent[Anchor] = Null =>
          FromTheRoot /\ (\A c \in Waiting : Parent(c)) /\ \A m \in seen : Confirmed(m) => Done(m)
    BY <1>1 DEF MapleInv
  <1>7. ASSUME memory.parent[Anchor] = Null, n \notin seen, Confirmed(n)
        PROVE  memory.parent[n] = Call1.parent
    <2>1. CASE n = Anchor
      <3>1. seen = {}
        BY <1>6, <1>7, <2>1 DEF FromTheRoot
      <3> QED BY <1>6, <1>7, <2>1, <3>1, FirstCall DEF Call
    <2>2. CASE n # Anchor
      <3>1. PICK q \in Elements : Follows(q, n)
        BY <1>7, <2>2 DEF Confirmed
      <3>2. /\ memory.parent[n] = q
            /\ \A p \in memory.readable \ (memory.marked \cup {q}) : n \notin KidsOf(p)
        BY <1>1, <3>1 DEF Follows
      <3>3. Call1.parent \in memory.readable \ memory.marked /\ n \in KidsOf(Call1.parent)
        BY <1>2, <1>3, <1>6, <1>7, <2>2
      <3> QED BY <3>2, <3>3
    <2> QED BY <2>1, <2>2
  <1>8. memory.parent[Anchor] = Null /\ seen' = seen \cup {n} => FromTheRoot'
    BY <1>2, <1>6, FirstCall DEF FromTheRoot, Call
  <1>9. CASE n \in seen /\ Returns /\ UNCHANGED seen
    <2>1. /\ TreeTypes' /\ status' = status /\ Yielded' = Yielded
          /\ \A c \in Waiting : c = Call1 \/ c \in Waiting'
          /\ Waiting' \subseteq Waiting
      BY <1>9, ReturnLeaves DEF TreeTypes, TreeImage
    <2>2. \A m \in seen : Done(m) => Done(m)'
      BY <1>2, <1>5, <1>9, <2>1, AheadStays
    <2>3. seen' = seen \cup {n}
      BY <1>9
    <2> QED BY <1>1, <1>4, <1>5, <1>6, <1>8, <1>9, <2>1, <2>2, <2>3 DEF MapleInv
  <1>10. CASE Visits(n) /\ Raises
    <2>1. seen' \subseteq Elements
      BY <1>3, <1>10 DEF TreeTypes, Visits
    <2> QED BY <1>10, <2>1 DEF Raises, TreeTypes, MapleInv, TreeImage
  <1>11. CASE n \notin seen /\ Visits(n) /\ memory.parent[n] # Call1.parent /\ Returns
    <2>1. seen' = seen \cup {n}
      BY <1>11 DEF Visits
    <2>2. /\ TreeTypes' /\ status' = status /\ Yielded' = Yielded
          /\ \A c \in Waiting : c = Call1 \/ c \in Waiting'
          /\ Waiting' \subseteq Waiting
      BY <1>3, <1>11, <2>1, ReturnLeaves DEF TreeTypes, TreeImage
    <2>3. \A m \in seen : Done(m) => Done(m)'
      BY <1>2, <1>5, <2>1, <2>2, AheadStays
    <2> QED BY <1>1, <1>4, <1>5, <1>6, <1>7, <1>8, <1>11, <2>1, <2>2, <2>3 DEF MapleInv
  <1>12. CASE n \notin seen /\ Visits(n) /\ n \in memory.marked /\ Calls(Kids(n), <<>>, 0)
    <2>1. seen' = seen \cup {n} /\ <<>> \in Seq(Elements) /\ 0 \in Nat /\ DOMAIN <<>> = {}
      BY <1>12 DEF Visits
    <2>2. Kids(n) \in Seq(Elements) /\ Items(Kids(n)) = KidsOf(n)
      BY <1>1, KidsListed DEF Items
    <2>3. /\ stack' \in Seq(CallType) /\ yielded' \in Seq(Elements \cup (Nat \X Nat)) /\ status' = status
          /\ Yielded' = Yielded \cup Items(Kids(n))
          /\ \A c \in Waiting : c = Call1 \/ c \in Waiting'
          /\ Waiting' \subseteq Waiting
      BY <1>12, <2>1, <2>2, CallsLeave
    <2>4. TreeTypes'
      BY <1>3, <2>1, <2>3 DEF TreeTypes, TreeImage
    <2>5. \A m \in seen : Done(m) => Done(m)'
      BY <1>2, <1>5, <2>1, <2>3, AheadStays
    <2>6. Done(n)'
      BY <1>5, <1>12, <2>2, <2>3
    <2> QED BY <1>1, <1>4, <1>5, <1>6, <1>8, <2>1, <2>3, <2>4, <2>5, <2>6 DEF MapleInv
  <1>13. CASE n \notin seen /\ Visits(n) /\ Readable(n) /\ n \notin memory.marked /\ Calls(<<>>, Kids(n), 0)
    <2>1. seen' = seen \cup {n} /\ <<>> \in Seq(Elements) /\ 0 \in Nat /\ Items(<<>>) = {}
      BY <1>13 DEF Visits, Items
    <2>2. Kids(n) \in Seq(Elements)
      BY <1>1, KidsListed
    <2>3. /\ stack' \in Seq(CallType) /\ yielded' \in Seq(Elements \cup (Nat \X Nat)) /\ status' = status
          /\ Yielded' = Yielded
          /\ \A c \in Waiting : c = Call1 \/ c \in Waiting'
          /\ \A i \in DOMAIN Kids(n) : Call(Kids(n)[i], n, 0) \in Waiting'
          /\ \A c \in Waiting' : c \in Waiting \/ \E i \in DOMAIN Kids(n) : c = Call(Kids(n)[i], n, 0)
      <3>1. PICK kids : kids = Kids(n)
        OBVIOUS
      <3>2. Calls(<<>>, kids, 0) /\ kids \in Seq(Elements)
        BY <1>13, <2>2, <3>1
      <3>3. /\ stack' \in Seq(CallType) /\ yielded' \in Seq(Elements \cup (Nat \X Nat)) /\ status' = status
            /\ Yielded' = Yielded \cup Items(<<>>)
            /\ \A c \in Waiting : c = Call1 \/ c \in Waiting'
            /\ \A i \in DOMAIN kids : Call(kids[i], Call1.node, 0) \in Waiting'
            /\ \A c \in Waiting' : c \in Waiting \/ \E i \in DOMAIN kids : c = Call(kids[i], Call1.node, 0)
        BY <2>1, <3>2, CallsLeave
      <3> QED BY <1>2, <2>1, <3>1, <3>3
    <2>4. TreeTypes'
      BY <1>3, <2>1, <2>3 DEF TreeTypes, TreeImage
    <2>5. \A m \in seen : Done(m) => Done(m)'
      BY <1>2, <1>5, <2>1, <2>3, AheadStays
    <2>6. Done(n)'
      BY <1>1, <1>13, <2>3, KidsAhead
    <2>7. \A i \in DOMAIN Kids(n) : Parent(Call(Kids(n)[i], n, 0))
      BY <1>1, <1>13, KidsListed DEF Call, Readable
    <2>8. memory.parent[Anchor] = Null => \A c \in Waiting' : Parent(c)
      BY <1>6, <2>3, <2>7
    <2> QED BY <1>1, <1>4, <1>5, <1>6, <1>8, <2>1, <2>3, <2>4, <2>5, <2>6, <2>8 DEF MapleInv
  <1> QED BY <1>2, <1>9, <1>10, <1>11, <1>12, <1>13 DEF MapleCall

\* A step over the nodes of a red-black tree.
LEMMA RbKeeps ==
  ASSUME TreeTypes, RbInv, walker' = walker, memory' = memory, status = "walking", stack # <<>>, RbCall
  PROVE  TreeTypes' /\ RbInv' /\ status' # "done"
  <1>1. walker = "rb" /\ TreeImage(memory) /\ seen' = seen
    BY DEF RbCall, TreeTypes
  <1>2. PICK n, d : n = Call1.node /\ d = Call1.depth + 1
    OBVIOUS
  <1>3. Call1 \in CallType /\ n \in Elements /\ Call1 \in Waiting /\ d \in Nat
    BY <1>2, FirstWaits
  <1>4. (\A m : KidsOf(m)' = KidsOf(m) /\ (Readable(m)' <=> Readable(m))) /\ Reached' = Reached
    BY SameTree DEF Readable
  <1>5. /\ \A c \in Waiting : c.node = Anchor \/ \E q \in Yielded : c.node \in KidsOf(q)
        /\ Yielded \subseteq Reached \cap memory.readable
        /\ \A q \in Yielded : \A m \in KidsOf(q) : Readable(m) => m \in Yielded \/ \E c \in Waiting : c.node = m
        /\ Readable(Anchor) => Anchor \in Yielded \/ \E c \in Waiting : c.node = Anchor
    BY <1>1 DEF RbInv
  <1>6. CASE Raises
    BY <1>1, <1>6 DEF Raises, TreeTypes, RbInv, TreeImage
  <1>7. CASE ~Readable(n) /\ Returns
    <2>1. /\ TreeTypes' /\ status' = status /\ Yielded' = Yielded
          /\ \A c \in Waiting : c = Call1 \/ c \in Waiting'
          /\ Waiting' \subseteq Waiting
      BY <1>1, <1>7, ReturnLeaves DEF TreeTypes, TreeImage
    <2> QED BY <1>2, <1>4, <1>5, <1>7, <2>1 DEF RbInv
  <1>8. CASE Readable(n) /\ Calls(<<n>>, Kids(n), d)
    <2>1. PICK kids : kids = Kids(n)
      OBVIOUS
    <2>2. /\ kids \in Seq(Elements) /\ (\A i \in DOMAIN kids : kids[i] \in KidsOf(n))
          /\ \A m \in KidsOf(n) : \E i \in DOMAIN kids : kids[i] = m
      BY <1>1, <2>1, KidsListed
    <2>3. <<n>> \in Seq(Elements) /\ Items(<<n>>) = {n}
      BY <1>3 DEF Items
    <2>4. /\ stack' \in Seq(CallType) /\ yielded' \in Seq(Elements \cup (Nat \X Nat)) /\ status' = status
          /\ Yielded' = Yielded \cup {n}
          /\ \A c \in Waiting : c = Call1 \/ c \in Waiting'
          /\ \A i \in DOMAIN kids : Call(kids[i], Call1.node, d) \in Waiting'
          /\ \A c \in Waiting' : c \in Waiting \/ \E i \in DOMAIN kids : c = Call(kids[i], Call1.node, d)
      BY <1>3, <1>8, <2>1, <2>2, <2>3, CallsLeave
    <2>5. TreeTypes'
      BY <1>1, <2>4 DEF TreeTypes, TreeImage
    <2>6. \A c \in Waiting' : c.node = Anchor \/ \E q \in Yielded' : c.node \in KidsOf(q)
      <3> SUFFICES ASSUME NEW c \in Waiting' PROVE c.node = Anchor \/ \E q \in Yielded' : c.node \in KidsOf(q)
        OBVIOUS
      <3>1. CASE c \in Waiting
        BY <1>5, <2>4, <3>1
      <3>2. CASE \E i \in DOMAIN kids : c = Call(kids[i], Call1.node, d)
        BY <2>2, <2>4, <3>2 DEF Call
      <3> QED BY <2>4, <3>1, <3>2
    <2>7. n \in Reached
      <3>1. CASE n = Anchor
        BY <3>1, ReachedLeast
      <3>2. CASE n # Anchor
        <4>1. PICK q \in Yielded : n \in KidsOf(q)
          BY <1>2, <1>3, <1>5, <3>2
        <4>2. Follows(q, n)
          BY <1>1, <1>8, <4>1 DEF Follows
        <4> QED BY <1>3, <1>5, <4>1, <4>2, ReachedLeast
      <3> QED BY <3>1, <3>2
    <2>8. \A m \in KidsOf(n) : \E c \in Waiting' : c.node = m
      BY <2>2, <2>4 DEF Call
    <2>9. \A m : (m \in Yielded \/ \E c \in Waiting : c.node = m) => m \in Yielded' \/ \E c \in Waiting' : c.node = m
      BY <1>2, <2>4
    <2>10. Yielded' \subseteq Reached \cap memory.readable
      BY <1>5, <1>8, <2>4, <2>7 DEF Readable
    <2>11. \A q \in Yielded' : \A m \in KidsOf(q) : Readable(m) => m \in Yielded' \/ \E c \in Waiting' : c.node = m
      BY <1>5, <2>4, <2>8, <2>9
    <2>12. Readable(Anchor) => Anchor \in Yielded' \/ \E c \in Waiting' : c.node = Anchor
      BY <1>5, <2>9
    <2> QED BY <1>4, <2>4, <2>5, <2>6, <2>10, <2>11, <2>12 DEF RbInv
  <1> QED BY <1>2, <1>6, <1>7, <1>8 DEF RbCall, RbNode

\* The nodes of a level are the ends of the paths from the root, and their kids are those of
\* the level below.
LEMMA LevelBelow ==
  ASSUME NEW h \in Nat
  PROVE  /\ Level(0) = {Anchor}
         /\ \A n \in Level(h) : \A m \in KidsOf(n) \cap Elements : m \in Level(h + 1)
         /\ \A n : n \in Level(h) <=> \E p : Path(p, h) /\ p[h] = n
  <1>1. ASSUME NEW n, NEW k \in Nat PROVE n \in Level(k) <=> \E p : Path(p, k) /\ p[k] = n
    <2>1. ASSUME NEW p, Path(p, k) PROVE p[k] \in Elements
      <3>1. k \in 0 .. k
        OBVIOUS
      <3> QED BY <2>1, <3>1 DEF Path
    <2> QED BY <2>1 DEF Level, Path
  <1>2. Level(0) = {Anchor}
    <2>1. Path([i \in 0 .. 0 |-> Anchor], 0) /\ [i \in 0 .. 0 |-> Anchor][0] = Anchor
      BY AnchorAndNull DEF Path
    <2>2. \A p : Path(p, 0) => p[0] = Anchor
      BY DEF Path
    <2> QED BY <1>1, <2>1, <2>2
  <1>3. ASSUME NEW n \in Level(h), NEW m \in KidsOf(n) \cap Elements PROVE m \in Level(h + 1)
    <2>1. PICK p : Path(p, h) /\ p[h] = n
      BY <1>1
    <2>2. PICK q : q = [i \in 0 .. h + 1 |-> IF i = h + 1 THEN m ELSE p[i]]
      OBVIOUS
    <2>3. q \in [0 .. h + 1 -> Elements] /\ q[0] = Anchor /\ q[h + 1] = m
      BY <2>1, <2>2 DEF Path
    <2>4. ASSUME NEW i \in 1 .. h + 1 PROVE q[i] \in KidsOf(q[i - 1])
      <3>1. i - 1 \in 0 .. h + 1 /\ i \in 0 .. h + 1 /\ q[i - 1] = p[i - 1]
        BY <2>2
      <3>2. CASE i = h + 1
        BY <2>1, <2>2, <3>1, <3>2
      <3>3. CASE i # h + 1
        <4>1. i \in 1 .. h
          BY <3>3
        <4> QED BY <2>1, <2>2, <3>1, <3>3, <4>1 DEF Path
      <3> QED BY <3>2, <3>3
    <2>5. Path(q, h + 1)
      BY <2>3, <2>4 DEF Path
    <2>6. h + 1 \in Nat
      OBVIOUS
    <2> QED BY <1>1, <2>3, <2>5, <2>6
  <1> QED BY <1>1, <1>2, <1>3

\* A step over the nodes of an ID storage.
LEMMA IdrKeeps ==
  ASSUME TreeTypes, IdrInv, walker' = walker, memory' = memory, status = "walking", stack # <<>>, IdrCall
  PROVE  TreeTypes' /\ IdrInv' /\ status' # "done"
  <1> DEFINE Led(p) == \/ p[memory.height] \in memory.marked => p[memory.height] \in Yielded
                       \/ \E c \in Waiting : c.depth <= memory.height /\ c.node = p[memory.height - c.depth]
  <1>1. walker = "idr" /\ TreeImage(memory) /\ seen' = seen /\ memory.height \in Nat
    BY DEF IdrCall, TreeTypes, TreeImage
  <1>2. PICK n, d, h : n = Call1.node /\ d = Call1.depth /\ h = memory.height
    OBVIOUS
  <1>3. Call1 \in CallType /\ n \in Elements /\ Call1 \in Waiting /\ d \in Nat /\ h \in Nat
    BY <1>1, <1>2, FirstWaits
  <1>4. /\ \A m : KidsOf(m)' = KidsOf(m) /\ (Readable(m)' <=> Readable(m))
        /\ \A k : Level(k)' = Level(k)
        /\ \A p, k : Path(p, k)' <=> Path(p, k)
    <2>1. \A m : KidsOf(m)' = KidsOf(m)
      BY SameTree
    <2> QED BY <2>1 DEF Readable, Level, Path
  <1>5. /\ \A c \in Waiting : c.depth <= h /\ c.node \in Level(h - c.depth)
        /\ Yielded \subseteq Level(h) \cap memory.marked
        /\ Readable(Anchor) /\ \A p : Path(p, h) => Led(p)
    BY <1>1, <1>2 DEF IdrInv
  <1>6. CASE d > 0 /\ Calls(<<>>, Kids(n), d - 1)
    <2>1. PICK kids, e : kids = Kids(n) /\ e = d - 1
      OBVIOUS
    <2>2. /\ kids \in Seq(Elements) /\ (\A i \in DOMAIN kids : kids[i] \in KidsOf(n))
          /\ \A m \in KidsOf(n) : \E i \in DOMAIN kids : kids[i] = m
      BY <1>1, <2>1, KidsListed
    <2>3. <<>> \in Seq(Elements) /\ Items(<<>>) = {} /\ e \in Nat
      BY <1>3, <1>6, <2>1 DEF Items
    <2>4. /\ stack' \in Seq(CallType) /\ yielded' \in Seq(Elements \cup (Nat \X Nat)) /\ status' = status
          /\ Yielded' = Yielded
          /\ \A c \in Waiting : c = Call1 \/ c \in Waiting'
          /\ \A i \in DOMAIN kids : Call(kids[i], Call1.node, e) \in Waiting'
          /\ \A c \in Waiting' : c \in Waiting \/ \E i \in DOMAIN kids : c = Call(kids[i], Call1.node, e)
      <3>1. Calls(<<>>, kids, e)
        BY <1>6, <2>1
      <3> QED BY <2>2, <2>3, <3>1, CallsLeave
    <2>5. TreeTypes'
      BY <1>1, <2>4 DEF TreeTypes, TreeImage
    <2>6. ASSUME NEW c \in Waiting' PROVE c.depth <= h /\ c.node \in Level(h - c.depth)
      <3>1. CASE c \in Waiting
        BY <1>5, <3>1
      <3>2. CASE \E i \in DOMAIN kids : c = Call(kids[i], Call1.node, e)
        <4>1. PICK i \in DOMAIN kids : c.node = kids[i] /\ c.depth = e
          BY <3>2 DEF Call
        <4>2. n \in Level(h - d) /\ d <= h /\ kids[i] \in KidsOf(n) \cap Elements
          BY <1>2, <1>3, <1>5, <2>2, <4>1
        <4>3. h - d \in Nat /\ h - e = (h - d) + 1
          BY <1>3, <2>1, <4>2
        <4>4. c.node \in Level((h - d) + 1)
          BY <4>1, <4>2, <4>3, LevelBelow
        <4> QED BY <1>3, <2>1, <4>1, <4>2, <4>3, <4>4
      <3> QED BY <2>4, <3>1, <3>2
    <2>7. ASSUME NEW p, Path(p, h) PROVE Led(p)'
      <3>1. CASE p[h] \in memory.marked => p[h] \in Yielded
        BY <1>2, <2>4, <3>1
      <3>2. CASE \E c \in Waiting : c.depth <= h /\ c.node = p[h - c.depth]
        <4>1. PICK c \in Waiting : c.depth <= h /\ c.node = p[h - c.depth]
          BY <3>2
        <4>2. CASE c \in Waiting'
          BY <1>2, <4>1, <4>2
        <4>3. CASE c = Call1
          <5>1. p[h - d] = n /\ d <= h
            BY <1>2, <4>1, <4>3
          <5>2. h - e \in 1 .. h /\ (h - e) - 1 = h - d
            BY <1>3, <1>6, <2>1, <5>1
          <5>3. p[h - e] \in KidsOf(n)
            BY <2>7, <5>1, <5>2 DEF Path
          <5>4. PICK i \in DOMAIN kids : kids[i] = p[h - e]
            BY <2>2, <5>3
          <5>5. Call(kids[i], Call1.node, e) \in Waiting'
            BY <2>4
          <5>6. Call(kids[i], Call1.node, e).depth = e /\ Call(kids[i], Call1.node, e).node = p[h - e] /\ e <= h
            BY <1>3, <2>1, <5>1, <5>4 DEF Call
          <5> QED BY <1>2, <5>5, <5>6
        <4> QED BY <2>4, <4>1, <4>2, <4>3
      <3> QED BY <1>2, <1>5, <2>7, <3>1, <3>2
    <2> QED BY <1>2, <1>4, <1>5, <2>4, <2>5, <2>6, <2>7 DEF IdrInv
  <1>7. CASE d = 0 /\ n \in memory.marked /\ Calls(<<n>>, <<>>, 0)
    <2>1. <<n>> \in Seq(Elements) /\ Items(<<n>>) = {n} /\ <<>> \in Seq(Elements) /\ DOMAIN <<>> = {} /\ 0 \in Nat
      BY <1>3 DEF Items
    <2>2. /\ stack' \in Seq(CallType) /\ yielded' \in Seq(Elements \cup (Nat \X Nat)) /\ status' = status
          /\ Yielded' = Yielded \cup {n}
          /\ \A c \in Waiting : c = Call1 \/ c \in Waiting'
          /\ Waiting' \subseteq Waiting
      BY <1>7, <2>1, CallsLeave
    <2>3. TreeTypes'
      BY <1>1, <2>2 DEF TreeTypes, TreeImage
    <2>4. n \in Level(h)
      <3>1. n \in Level(h - 0)
        BY <1>2, <1>3, <1>5, <1>7
      <3> QED BY <1>3, <3>1
    <2>5. ASSUME NEW p, Path(p, h) PROVE Led(p)'
      <3>1. CASE p[h] \in memory.marked => p[h] \in Yielded
        BY <1>2, <2>2, <3>1
      <3>2. CASE \E c \in Waiting : c.depth <= h /\ c.node = p[h - c.depth]
        <4>1. PICK c \in Waiting : c.depth <= h /\ c.node = p[h - c.depth]
          BY <3>2
        <4>2. CASE c \in Waiting'
          BY <1>2, <4>1, <4>2
        <4>3. CASE c = Call1
          <5>1. p[h] = n
            <6>1. c.depth = d /\ c.node = n
              BY <1>2, <4>3
            <6>2. h - d = h
              BY <1>3, <1>7
            <6> QED BY <4>1, <6>1, <6>2
          <5> QED BY <1>2, <2>2, <5>1
        <4> QED BY <2>2, <4>1, <4>2, <4>3
      <3> QED BY <1>2, <1>5, <2>5, <3>1, <3>2
    <2> QED BY <1>2, <1>4, <1>5, <1>7, <2>2, <2>3, <2>4, <2>5 DEF IdrInv
  <1>8. CASE d = 0 /\ n \notin memory.marked /\ Returns
    <2>1. /\ TreeTypes' /\ status' = status /\ Yielded' = Yielded
          /\ \A c \in Waiting : c = Call1 \/ c \in Waiting'
          /\ Waiting' \subseteq Waiting
      BY <1>1, <1>8, ReturnLeaves DEF TreeTypes, TreeImage
    <2>2. ASSUME NEW p, Path(p, h) PROVE Led(p)'
      <3>1. CASE p[h] \in memory.marked => p[h] \in Yielded
        BY <1>2, <2>1, <3>1
      <3>2. CASE \E c \in Waiting : c.depth <= h /\ c.node = p[h - c.depth]
        <4>1. PICK c \in Waiting : c.depth <= h /\ c.node = p[h - c.depth]
          BY <3>2
        <4>2. CASE c \in Waiting'
          BY <1>2, <4>1, <4>2
        <4>3. CASE c = Call1
          <5>1. p[h] = n
            <6>1. c.depth = d /\ c.node = n
              BY <1>2, <4>3
            <6>2. h - d = h
              BY <1>3, <1>8
            <6> QED BY <4>1, <6>1, <6>2
          <5> QED BY <1>2, <1>8, <5>1
        <4> QED BY <2>1, <4>1, <4>2, <4>3
      <3> QED BY <1>2, <1>5, <2>2, <3>1, <3>2
    <2> QED BY <1>2, <1>4, <1>5, <2>1, <2>2 DEF IdrInv
  <1>9. d > 0 \/ d = 0
    BY <1>3
  <1> QED BY <1>2, <1>6, <1>7, <1>8, <1>9 DEF IdrCall

-----------------------------------------------------------------------------
(* The handles.  The tables of a table of tables are called for in order,    *)
(* with their numbers: when k of them have been, all their entries and no    *)
(* others have been yielded.                                                 *)

\* Valid entry j of table number t.
Entry(t, j) ==
  LET tables == memory.kids[Anchor]
  IN /\ t \in 0 .. Len(tables) - 1 /\ Readable(tables[t + 1])
     /\ j \in DOMAIN memory.kids[tables[t + 1]] /\ memory.kids[tables[t + 1]][j] \in memory.marked

Tables(k) ==
  /\ Readable(Anchor) /\ k \in 0 .. Len(memory.kids[Anchor])
  /\ Len(stack) = Len(memory.kids[Anchor]) - k
  /\ \A i \in 1 .. Len(stack) : stack[i] = Call(memory.kids[Anchor][k + i], k + i - 1, 0)
  /\ \A t, j : <<t, j>> \in Yielded <=> t < k /\ Entry(t, j)

HandlesInv ==
  walker = "handles" =>
    /\ \A c \in Waiting : c.parent \in Nat
    /\ memory.height <= 1 => Distinct
    /\ status = "walking" /\ memory.height <= 1 =>
         \/ stack = <<Call(Anchor, 0, memory.height)>> /\ yielded = <<>>
         \/ memory.height = 0 /\ stack = <<>>
         \/ memory.height = 1 /\ ~Readable(Anchor) /\ stack = <<>>
         \/ memory.height = 1 /\ \E k \in Nat : Tables(k)

\* The entries of a table are numbered in order.
LEMMA EntriesYielded ==
  ASSUME TreeTypes, Readable(Call1.node), Call1.parent \in Nat,
         LET items == Places(memory.kids[Call1.node], memory.marked)
         IN yielded' = yielded \o [k \in DOMAIN items |-> HandleValue(items[k], Call1.parent)]
  PROVE  /\ Distinct /\ (\A j : <<Call1.parent, j>> \notin Yielded) => Distinct'
         /\ yielded' \in Seq(Elements \cup (Nat \X Nat))
         /\ \A y : y \in Yielded' <=>
              \/ y \in Yielded
              \/ \E j \in DOMAIN memory.kids[Call1.node] :
                   memory.kids[Call1.node][j] \in memory.marked /\ y = <<Call1.parent, j>>
  <1> DEFINE all == Elements \cup (Nat \X Nat)
  <1>1. PICK t, s, T : t = Call1.parent /\ s = memory.kids[Call1.node] /\ T = memory.marked
    OBVIOUS
  <1>2. s \in Seq(Elements) /\ t \in Nat
    BY <1>1 DEF TreeTypes, TreeImage, Readable
  <1>3. PICK p : p = Places(s, T)
    OBVIOUS
  <1>4. /\ p \in Seq(1 .. Len(s)) /\ \A k \in DOMAIN p : s[p[k]] \in T
        /\ \A i \in 1 .. Len(s) : s[i] \in T => \E k \in DOMAIN p : p[k] = i
        /\ \A j, k \in DOMAIN p : j < k => p[j] < p[k]
    BY <1>2, <1>3, PlacesInOrder
  <1>5. PICK w : w = [k \in DOMAIN p |-> <<t, p[k]>>]
    OBVIOUS
  <1>6. yielded' = yielded \o w
    BY <1>1, <1>3, <1>5 DEF HandleValue
  <1>7. /\ DOMAIN p = 1 .. Len(p) /\ Len(p) \in Nat /\ DOMAIN s = 1 .. Len(s) /\ Len(s) \in Nat
        /\ \A k \in DOMAIN p : p[k] \in 1 .. Len(s)
    BY <1>2, <1>4
  <1>8. DOMAIN w = DOMAIN p /\ \A k \in DOMAIN p : w[k] = <<t, p[k]>>
    BY <1>5
  <1>9. w \in Seq(all) /\ Len(w) = Len(p) /\ DOMAIN w = 1 .. Len(w)
    <2>1. ASSUME NEW k \in DOMAIN p PROVE w[k] \in all
      <3>1. p[k] \in Nat
        BY <1>7
      <3>2. <<t, p[k]>> \in Nat \X Nat
        BY <1>2, <3>1
      <3> QED BY <1>8, <3>2
    <2> HIDE DEF all
    <2> QED BY <1>5, <1>7, <1>8, <2>1
  <1>10. yielded \in Seq(all)
    BY DEF TreeTypes
  <1> HIDE DEF all
  <1>11. yielded' \in Seq(all) /\ Items(yielded') = Items(yielded) \cup Items(w)
    <2>1. yielded \o w \in Seq(all) /\ Items(yielded \o w) = Items(yielded) \cup Items(w)
      BY <1>9, <1>10, ItemsOfBoth
    <2> QED BY <1>6, <2>1
  <1>12. Yielded' = Yielded \cup Items(w)
    BY <1>11 DEF Yielded, Items
  <1>13. ASSUME NEW y PROVE y \in Items(w) <=> \E j \in DOMAIN s : s[j] \in T /\ y = <<t, j>>
    <2>1. ASSUME NEW k \in DOMAIN w PROVE \E j \in DOMAIN s : s[j] \in T /\ w[k] = <<t, j>>
      <3>1. p[k] \in DOMAIN s /\ s[p[k]] \in T /\ w[k] = <<t, p[k]>>
        BY <1>4, <1>7, <1>8
      <3> QED BY <3>1
    <2>2. ASSUME NEW j \in DOMAIN s, s[j] \in T PROVE \E k \in DOMAIN w : w[k] = <<t, j>>
      <3>1. PICK k \in DOMAIN p : p[k] = j
        BY <1>4, <1>7, <2>2
      <3> QED BY <1>8, <3>1
    <2> QED BY <2>1, <2>2 DEF Items
  <1>14. ASSUME Distinct, \A j : <<Call1.parent, j>> \notin Yielded
         PROVE  Distinct'
    <2>1. PICK y : y = yielded
      OBVIOUS
    <2>2. y \in Seq(all) /\ \A i, j \in DOMAIN y : y[i] = y[j] => i = j
      BY <1>10, <1>14, <2>1 DEF Distinct
    <2>3. ASSUME NEW i \in DOMAIN p, NEW j \in DOMAIN p, p[i] = p[j] PROVE i = j
      <3>1. i \in Nat /\ j \in Nat /\ p[i] \in Nat
        BY <1>7
      <3>2. ~(i < j) /\ ~(j < i)
        BY <1>4, <2>3, <3>1
      <3> QED BY <3>1, <3>2
    <2>4. \A i, j \in DOMAIN w : w[i] = w[j] => i = j
      BY <1>8, <2>3
    <2>5. \A i \in DOMAIN y : \A j \in DOMAIN w : y[i] # w[j]
      <3>1. \A i \in DOMAIN y : y[i] \in Yielded
        BY <2>1 DEF Yielded
      <3>2. \A j \in DOMAIN w : w[j] \notin Yielded
        BY <1>1, <1>8, <1>14
      <3> QED BY <3>1, <3>2
    <2>6. yielded' = y \o w
      BY <1>6, <2>1
    <2>7. \A i, j \in DOMAIN (y \o w) : (y \o w)[i] = (y \o w)[j] => i = j
      BY <1>9, <2>2, <2>4, <2>5, NothingTwice
    <2> QED BY <2>6, <2>7 DEF Distinct
  <1> QED BY <1>1, <1>11, <1>12, <1>13, <1>14 DEF all

\* A table of tables calls for its tables.
LEMMA TablesCalled ==
  ASSUME TreeTypes, stack # <<>>, Readable(Call1.node), Call1.depth > 0, Call1.parent \in Nat,
         LET n == Call1.node
         IN stack' = [i \in DOMAIN memory.kids[n] |-> Call(memory.kids[n][i], Call1.parent + i - 1, Call1.depth - 1)]
                        \o Tail(stack)
  PROVE  /\ stack' \in Seq(CallType)
         /\ \A c \in Waiting' : c \in Waiting \/ c.parent \in Nat
         /\ Len(Tail(stack)) = 0 =>
              /\ Len(stack') = Len(memory.kids[Call1.node])
              /\ \A i \in 1 .. Len(stack') :
                   stack'[i] = Call(memory.kids[Call1.node][i], Call1.parent + i - 1, Call1.depth - 1)
  <1>1. PICK s, t, d, rest : s = memory.kids[Call1.node] /\ t = Call1.parent /\ d = Call1.depth - 1 /\ rest = Tail(stack)
    OBVIOUS
  <1>2. Call1.depth \in Nat
    BY FirstWaits
  <1>3. /\ s \in Seq(Elements) /\ DOMAIN s = 1 .. Len(s) /\ Len(s) \in Nat /\ t \in Nat /\ d \in Nat
        /\ \A i \in DOMAIN s : s[i] \in Elements
    <2>1. s \in Seq(Elements)
      BY <1>1 DEF TreeTypes, TreeImage, Readable
    <2>2. t \in Nat /\ d \in Nat
      BY <1>1, <1>2
    <2> QED BY <2>1, <2>2
  <1>4. PICK m : m = [i \in DOMAIN s |-> Call(s[i], t + i - 1, d)]
    OBVIOUS
  <1>5. ASSUME NEW i \in DOMAIN s PROVE Call(s[i], t + i - 1, d) \in CallType /\ t + i - 1 \in Nat
    <2>1. t + i - 1 \in Nat
      BY <1>3
    <2> QED BY <1>3, <2>1 DEF Call, CallType
  <1>6. m \in Seq(CallType) /\ Len(m) = Len(s) /\ DOMAIN m = DOMAIN s
    <2>1. \A i \in 1 .. Len(s) : m[i] \in CallType
      BY <1>3, <1>4, <1>5
    <2> QED BY <1>3, <1>4, <2>1
  <1>7. rest \in Seq(CallType) /\ Items(rest) \subseteq Waiting
    BY <1>1, ItemsOfRest DEF TreeTypes, Waiting
  <1>8. stack' = m \o rest
    BY <1>1, <1>4
  <1>9. /\ stack' \in Seq(CallType) /\ Len(stack') = Len(m) + Len(rest)
        /\ \A i \in 1 .. Len(m) : stack'[i] = m[i]
        /\ Items(stack') = Items(m) \cup Items(rest)
    <2>1. /\ m \o rest \in Seq(CallType) /\ Len(m \o rest) = Len(m) + Len(rest)
          /\ \A i \in 1 .. Len(m) : (m \o rest)[i] = m[i]
          /\ Items(m \o rest) = Items(m) \cup Items(rest)
      <3>1. m \in Seq(CallType) /\ rest \in Seq(CallType)
        BY <1>6, <1>7, Zenon
      <3> QED BY SMTT(20), <3>1, ItemsOfBoth
    <2> QED BY <1>8, <2>1
  <1>10. ASSUME NEW c \in Items(m) PROVE c.parent \in Nat
    <2>1. PICK i \in DOMAIN s : c = m[i]
      BY <1>6 DEF Items
    <2>2. c = Call(s[i], t + i - 1, d) /\ t + i - 1 \in Nat
      BY <1>4, <1>5, <2>1
    <2>3. PICK k : k = t + i - 1
      OBVIOUS
    <2>4. c = Call(s[i], k, d) /\ k \in Nat
      BY <2>2, <2>3
    <2> QED BY <2>4 DEF Call
  <1>11. \A c \in Waiting' : c \in Waiting \/ c.parent \in Nat
    BY <1>7, <1>9, <1>10 DEF Waiting
  <1>12. ASSUME Len(rest) = 0
         PROVE  Len(stack') = Len(s) /\ \A i \in 1 .. Len(stack') : stack'[i] = Call(s[i], t + i - 1, d)
    <2>1. Len(stack') = Len(s)
      <3>1. Len(stack') = Len(m) + Len(rest)
        BY <1>9, Zenon
      <3>2. Len(m) = Len(s)
        BY <1>6, Zenon
      <3>3. PICK x, y : x = Len(stack') /\ y = Len(s)
        OBVIOUS
      <3>4. x = y + 0 /\ y \in Nat
        BY <1>3, <1>12, <3>1, <3>2, <3>3, Zenon
      <3>5. x = y
        BY <3>4
      <3> QED BY <3>3, <3>5
    <2>2. \A i \in 1 .. Len(s) : stack'[i] = m[i]
      BY <1>6, <1>9
    <2>3. \A i \in 1 .. Len(s) : m[i] = Call(s[i], t + i - 1, d)
      BY <1>3, <1>4
    <2> QED BY <2>1, <2>2, <2>3, Zenon
  <1> QED BY <1>1, <1>9, <1>11, <1>12

\* A step over tables of handles.
LEMMA HandlesKeeps ==
  ASSUME TreeTypes, HandlesInv, walker' = walker, memory' = memory, status = "walking", stack # <<>>, HandlesCall
  PROVE  TreeTypes' /\ HandlesInv' /\ status' # "done"
  <1>1. walker = "handles" /\ TreeImage(memory) /\ seen' = seen /\ status' = status /\ memory.height \in Nat
    BY DEF HandlesCall, TreeTypes, TreeImage
  <1>2. PICK n, t, H : n = Call1.node /\ t = Call1.parent /\ H = memory.height
    OBVIOUS
  <1>3. /\ Call1 \in CallType /\ n \in Elements /\ Call1.depth \in Nat /\ t \in Nat
        /\ \A c \in Waiting : c.parent \in Nat
    BY <1>1, <1>2, FirstWaits DEF HandlesInv
  <1>4. PICK rest : rest = Tail(stack)
    OBVIOUS
  <1>5. /\ rest \in Seq(CallType) /\ Len(rest) = Len(stack) - 1 /\ Len(stack) \in Nat \ {0}
        /\ \A i \in 1 .. Len(stack) - 1 : rest[i] = stack[i + 1]
        /\ Items(rest) \subseteq Waiting
    BY <1>4, ItemsOfRest DEF TreeTypes, Waiting
  <1>6. /\ \A m : Readable(m)' <=> Readable(m)
        /\ \A k, j : Entry(k, j)' <=> Entry(k, j)
    BY DEF Readable, Entry
  <1>7. H <= 1 => /\ Distinct
                  /\ \/ stack = <<Call(Anchor, 0, H)>> /\ yielded = <<>>
                     \/ H = 1 /\ \E k \in Nat : Tables(k)
    BY <1>1, <1>2 DEF HandlesInv
  <1>8. CASE ~Readable(n)
    <2>1. yielded' = yielded /\ stack' = rest /\ Yielded' = Yielded
      BY <1>2, <1>4, <1>8 DEF HandlesCall, Yielded
    <2>2. TreeTypes' /\ \A c \in Waiting' : c.parent \in Nat
      BY <1>1, <1>3, <1>5, <2>1 DEF TreeTypes, TreeImage, Waiting
    <2>3. Distinct => Distinct'
      BY <2>1 DEF Distinct
    <2>4. ASSUME H <= 1
          PROVE  \/ H = 0 /\ stack' = <<>>
                 \/ H = 1 /\ ~Readable(Anchor)' /\ stack' = <<>>
                 \/ H = 1 /\ \E k \in Nat : Tables(k)'
      <3>1. CASE stack = <<Call(Anchor, 0, H)>>
        <4>1. n = Anchor /\ rest = <<>> /\ (H = 0 \/ H = 1)
          BY <1>1, <1>2, <1>4, <2>4, <3>1 DEF Call1, Call
        <4> QED BY <1>6, <1>8, <2>1, <4>1
      <3>2. CASE H = 1 /\ \E k \in Nat : Tables(k)
        <4>1. PICK k \in Nat : Tables(k)
          BY <3>2
        <4>2. PICK s : s = memory.kids[Anchor]
          OBVIOUS
        <4>3. /\ Readable(Anchor) /\ k \in 0 .. Len(s) /\ Len(stack) = Len(s) - k /\ Len(s) \in Nat
              /\ \A i \in 1 .. Len(stack) : stack[i] = Call(s[k + i], k + i - 1, 0)
              /\ \A x, j : <<x, j>> \in Yielded <=> x < k /\ Entry(x, j)
          BY <1>1, <4>1, <4>2 DEF Tables, TreeImage, Readable
        <4>4. n = s[k + 1]
          <5>1. 1 \in 1 .. Len(stack)
            BY <1>5
          <5>2. Call1 = Call(s[k + 1], k + 1 - 1, 0)
            BY <4>3, <5>1 DEF Call1
          <5> QED BY <1>2, <5>2 DEF Call
        <4>5. k + 1 \in 0 .. Len(s) /\ Len(rest) = Len(s) - (k + 1)
          BY <1>5, <4>3
        <4>6. \A i \in 1 .. Len(rest) : rest[i] = Call(s[(k + 1) + i], (k + 1) + i - 1, 0)
          <5> SUFFICES ASSUME NEW i \in 1 .. Len(rest) PROVE rest[i] = Call(s[(k + 1) + i], (k + 1) + i - 1, 0)
            OBVIOUS
          <5>1. rest[i] = stack[i + 1] /\ i + 1 \in 1 .. Len(stack)
            BY <1>5
          <5>2. k + (i + 1) = (k + 1) + i /\ k + (i + 1) - 1 = (k + 1) + i - 1
            OBVIOUS
          <5> QED BY <4>3, <5>1, <5>2
        <4>7. \A j : ~Entry(k, j)
          BY <1>8, <4>2, <4>4 DEF Entry
        <4>8. ASSUME NEW x, NEW j PROVE <<x, j>> \in Yielded' <=> x < k + 1 /\ Entry(x, j)
          <5>1. Entry(x, j) => x \in Nat
            BY DEF Entry
          <5>2. Entry(x, j) => (x < k + 1 <=> x < k \/ x = k)
            BY <5>1
          <5> QED BY <2>1, <4>3, <4>7, <5>2
        <4>9. Tables(k + 1)'
          BY <1>6, <2>1, <4>2, <4>3, <4>5, <4>6, <4>8 DEF Tables
        <4> QED BY <3>2, <4>9
      <3> QED BY <1>7, <2>4, <3>1, <3>2
    <2> QED BY <1>1, <1>2, <1>7, <2>2, <2>3, <2>4 DEF HandlesInv
  <1>9. CASE Readable(n) /\ Call1.depth > 0
    <2>1. /\ yielded' = yielded /\ Yielded' = Yielded
          /\ stack' = [i \in DOMAIN memory.kids[n] |-> Call(memory.kids[n][i], Call1.parent + i - 1, Call1.depth - 1)]
                        \o Tail(stack)
      BY <1>2, <1>9 DEF HandlesCall, Yielded
    <2>2. /\ stack' \in Seq(CallType)
          /\ \A c \in Waiting' : c \in Waiting \/ c.parent \in Nat
          /\ Len(rest) = 0 =>
              /\ Len(stack') = Len(memory.kids[n])
              /\ \A i \in 1 .. Len(stack') : stack'[i] = Call(memory.kids[n][i], t + i - 1, Call1.depth - 1)
      BY <1>2, <1>3, <1>4, <1>9, <2>1, TablesCalled
    <2>3. TreeTypes' /\ \A c \in Waiting' : c.parent \in Nat
      BY <1>1, <1>3, <2>1, <2>2 DEF TreeTypes, TreeImage
    <2>4. Distinct => Distinct'
      BY <2>1 DEF Distinct
    <2>5. ASSUME H <= 1
          PROVE  H = 1 /\ Tables(0)'
      <3>1. ~ \E k \in Nat : Tables(k)
        <4> SUFFICES ASSUME NEW k \in Nat, Tables(k) PROVE FALSE
          OBVIOUS
        <4>1. 1 \in 1 .. Len(stack)
          BY <1>5
        <4>2. stack[1] = Call(memory.kids[Anchor][k + 1], k + 1 - 1, 0)
          BY <4>1 DEF Tables
        <4>3. Call1.depth = 0
          BY <4>2 DEF Call1, Call
        <4> QED BY <1>3, <1>9, <4>3
      <3>2. stack = <<Call(Anchor, 0, H)>> /\ yielded = <<>>
        BY <1>7, <2>5, <3>1
      <3>3. Call1 = Call(Anchor, 0, H) /\ rest = <<>>
        BY <1>4, <3>2 DEF Call1
      <3>4. n = Anchor /\ t = 0 /\ Call1.depth = H
        BY <1>2, <3>3 DEF Call
      <3>5. H = 1 /\ Call1.depth - 1 = 0
        BY <1>1, <1>2, <1>9, <2>5, <3>4
      <3>6. PICK s : s = memory.kids[Anchor]
        OBVIOUS
      <3>7. /\ s \in Seq(Elements) /\ Len(s) \in Nat /\ Len(stack') = Len(s)
            /\ \A i \in 1 .. Len(stack') : stack'[i] = Call(s[i], 0 + i - 1, 0)
        BY <1>1, <1>9, <2>2, <3>3, <3>4, <3>5, <3>6 DEF TreeImage, Readable
      <3>8. \A x, j : <<x, j>> \notin Yielded'
        BY <2>1, <3>2 DEF Yielded
      <3>9. \A x, j : Entry(x, j) => ~(x < 0)
        BY DEF Entry
      <3>10. \A i \in 1 .. Len(stack') : stack'[i] = Call(s[0 + i], 0 + i - 1, 0)
        BY <3>7
      <3>11. 0 \in 0 .. Len(s) /\ Len(stack') = Len(s) - 0
        BY <3>7
      <3>12. Tables(0)'
        BY <1>6, <1>9, <3>4, <3>6, <3>8, <3>9, <3>10, <3>11 DEF Tables
      <3> QED BY <3>5, <3>12
    <2> QED BY <1>1, <1>2, <1>7, <2>3, <2>4, <2>5 DEF HandlesInv
  <1>10. CASE Readable(n) /\ Call1.depth = 0
    <2>1. /\ stack' = rest
          /\ LET items == Places(memory.kids[Call1.node], memory.marked)
             IN yielded' = yielded \o [k \in DOMAIN items |-> HandleValue(items[k], Call1.parent)]
      <3>1. ~(Call1.depth > 0)
        BY <1>10
      <3> HIDE DEF Call1
      <3> QED BY <1>2, <1>4, <1>10, <3>1 DEF HandlesCall
    <2>2. /\ Distinct /\ (\A j : <<t, j>> \notin Yielded) => Distinct'
          /\ yielded' \in Seq(Elements \cup (Nat \X Nat))
          /\ \A y : y \in Yielded' <=>
               \/ y \in Yielded
               \/ \E j \in DOMAIN memory.kids[n] : memory.kids[n][j] \in memory.marked /\ y = <<t, j>>
      BY <1>2, <1>3, <1>10, <2>1, EntriesYielded
    <2>3. TreeTypes' /\ \A c \in Waiting' : c.parent \in Nat
      BY <1>1, <1>3, <1>5, <2>1, <2>2 DEF TreeTypes, TreeImage, Waiting
    <2>4. ASSUME H <= 1
          PROVE  /\ Distinct'
                 /\ \/ H = 0 /\ stack' = <<>>
                    \/ H = 1 /\ \E k \in Nat : Tables(k)'
      <3>1. CASE stack = <<Call(Anchor, 0, H)>> /\ yielded = <<>>
        <4>1. Call1 = Call(Anchor, 0, H) /\ rest = <<>>
          BY <1>4, <3>1 DEF Call1
        <4>2. H = 0
          BY <1>10, <4>1 DEF Call
        <4>3. \A j : <<t, j>> \notin Yielded
          BY <3>1 DEF Yielded
        <4> QED BY <1>7, <2>1, <2>2, <2>4, <4>1, <4>2, <4>3
      <3>2. CASE H = 1 /\ \E k \in Nat : Tables(k)
        <4>1. PICK k \in Nat : Tables(k)
          BY <3>2
        <4>2. PICK s : s = memory.kids[Anchor]
          OBVIOUS
        <4>3. /\ Readable(Anchor) /\ k \in 0 .. Len(s) /\ Len(stack) = Len(s) - k /\ Len(s) \in Nat
              /\ \A i \in 1 .. Len(stack) : stack[i] = Call(s[k + i], k + i - 1, 0)
              /\ \A x, j : <<x, j>> \in Yielded <=> x < k /\ Entry(x, j)
          BY <1>1, <4>1, <4>2 DEF Tables, TreeImage, Readable
        <4>4. n = s[k + 1] /\ t = k
          <5>1. 1 \in 1 .. Len(stack)
            BY <1>5
          <5>2. Call1 = Call(s[k + 1], k + 1 - 1, 0)
            BY <4>3, <5>1 DEF Call1
          <5> QED BY <1>2, <5>2 DEF Call
        <4>5. k + 1 \in 0 .. Len(s) /\ Len(rest) = Len(s) - (k + 1) /\ k \in 0 .. Len(s) - 1
          BY <1>5, <4>3
        <4>6. \A i \in 1 .. Len(rest) : rest[i] = Call(s[(k + 1) + i], (k + 1) + i - 1, 0)
          <5> SUFFICES ASSUME NEW i \in 1 .. Len(rest) PROVE rest[i] = Call(s[(k + 1) + i], (k + 1) + i - 1, 0)
            OBVIOUS
          <5>1. rest[i] = stack[i + 1] /\ i + 1 \in 1 .. Len(stack)
            BY <1>5
          <5>2. k + (i + 1) = (k + 1) + i /\ k + (i + 1) - 1 = (k + 1) + i - 1
            OBVIOUS
          <5> QED BY <4>3, <5>1, <5>2
        <4>7. \A j : Entry(k, j) <=> j \in DOMAIN memory.kids[n] /\ memory.kids[n][j] \in memory.marked
          BY <1>10, <4>2, <4>4, <4>5 DEF Entry
        <4>8. \A j : <<t, j>> \notin Yielded
          BY <4>3, <4>4
        <4>9. ASSUME NEW x, NEW j PROVE <<x, j>> \in Yielded' <=> x < k + 1 /\ Entry(x, j)
          <5>1. Entry(x, j) => x \in Nat
            BY DEF Entry
          <5>2. Entry(x, j) => (x < k + 1 <=> x < k \/ x = k)
            BY <5>1
          <5>3. <<x, j>> \in Yielded' <=> <<x, j>> \in Yielded \/ (x = k /\ Entry(k, j))
            BY <2>2, <4>4, <4>7
          <5> QED BY <4>3, <5>2, <5>3
        <4>10. Tables(k + 1)'
          BY <1>6, <2>1, <4>2, <4>3, <4>5, <4>6, <4>9 DEF Tables
        <4> QED BY <1>7, <2>2, <2>4, <3>2, <4>8, <4>10
      <3> QED BY <1>7, <2>4, <3>1, <3>2
    <2> QED BY <1>1, <1>2, <1>7, <2>3, <2>4 DEF HandlesInv
  <1> QED BY <1>1, <1>3, <1>8, <1>9, <1>10

-----------------------------------------------------------------------------
(* All walks *)

TreeInv ==
  /\ walker \in TreeWalkers =>
       TreeTypes /\ (status = "start" => yielded = <<>> /\ seen = {} /\ stack = <<>>)
  /\ VadInv /\ MapleInv /\ RbInv /\ IdrInv /\ HandlesInv /\ TreesRead

\* With no call left, what has been looked at is all that hangs together.
LEMMA NothingLeft ==
  ASSUME walker \in TreeWalkers, TreeTypes, status = "walking", stack = <<>>,
         VadInv, MapleInv, RbInv, IdrInv, HandlesInv
  PROVE  /\ walker = "vad" =>
              /\ Reached \cap memory.marked \subseteq Yielded
              /\ \A i, j \in DOMAIN yielded : yielded[i] = yielded[j] => i = j
         /\ walker = "rb" => Reached \cap memory.readable = Yielded
         /\ walker = "maple" /\ memory.parent[Anchor] = Null =>
              \A n \in Reached \cap memory.marked : KidsOf(n) \subseteq Yielded
         /\ walker = "idr" => Yielded = (IF Readable(Anchor) THEN Level(memory.height) \cap memory.marked ELSE {})
  <1>1. Waiting = {} /\ ~ \E c \in Waiting : TRUE
    BY DEF Waiting, Items
  <1>2. \A n : Ahead(n) => KidsOf(n) \subseteq seen
    BY <1>1 DEF Ahead
  <1>3. FromTheRoot => Anchor \in seen
    <2>1. <<Call(Anchor, Null, 0)>> # <<>>
      OBVIOUS
    <2> QED BY <2>1 DEF FromTheRoot
  <1>4. ASSUME walker = "vad"
        PROVE  Reached \cap memory.marked \subseteq Yielded
    <2> DEFINE S == {n \in seen : n \in memory.marked \cup {Anchor}}
    <2>1. /\ Anchor \in seen
          /\ \A n \in seen : n \in memory.marked => n \in Yielded
          /\ \A n \in seen : n \in memory.marked \cup {Anchor} => KidsOf(n) \subseteq seen
      BY <1>2, <1>3, <1>4 DEF VadInv
    <2>2. S \in SUBSET Elements /\ Anchor \in S
      BY <2>1 DEF TreeTypes
    <2>3. \A n \in S : \A m \in Elements : Follows(n, m) => m \in S
      BY <1>4, <2>1 DEF Follows
    <2>4. Closed(S)
      <3> HIDE DEF S
      <3> QED BY <2>3 DEF Closed
    <2>5. Reached \subseteq S
      <3> HIDE DEF S
      <3> QED BY <2>2, <2>4, ReachedLeast
    <2> QED BY <2>1, <2>5
  <1>5. ASSUME walker = "vad" PROVE \A i, j \in DOMAIN yielded : yielded[i] = yielded[j] => i = j
    BY <1>5 DEF VadInv, Distinct
  <1>6. ASSUME walker = "rb" PROVE Reached \cap memory.readable = Yielded
    <2> DEFINE S == Yielded \cup {Anchor}
    <2>1. /\ Yielded \subseteq Reached \cap memory.readable
          /\ \A q \in Yielded : \A m \in KidsOf(q) : Readable(m) => m \in Yielded
          /\ Readable(Anchor) => Anchor \in Yielded
      BY <1>1, <1>6 DEF RbInv
    <2>2. S \in SUBSET Elements /\ Anchor \in S
      BY <2>1, ReachedLeast
    <2>3. ASSUME NEW n \in S, NEW m \in Elements, Follows(n, m) PROVE m \in S
      <3>1. m \in KidsOf(n) /\ Readable(m)
        BY <1>6, <2>3 DEF Follows
      <3>2. Readable(n)
        BY <3>1 DEF KidsOf
      <3>3. n \in Yielded
        BY <2>1, <2>3, <3>2
      <3> QED BY <2>1, <3>1, <3>3
    <2>4. Closed(S)
      <3> HIDE DEF S
      <3> QED BY <2>3 DEF Closed
    <2>5. Reached \subseteq S
      <3> HIDE DEF S
      <3> QED BY <2>2, <2>4, ReachedLeast
    <2> QED BY <2>1, <2>5 DEF Readable
  <1>7. ASSUME walker = "maple", memory.parent[Anchor] = Null
        PROVE  \A n \in Reached \cap memory.marked : KidsOf(n) \subseteq Yielded
    <2> DEFINE S == {n \in seen : Confirmed(n)}
    <2>1. /\ Anchor \in seen
          /\ \A n \in seen : Confirmed(n) =>
               IF n \in memory.marked THEN KidsOf(n) \subseteq Yielded ELSE KidsOf(n) \subseteq seen
      BY <1>2, <1>3, <1>7 DEF MapleInv
    <2>2. S \in SUBSET Elements /\ Anchor \in S
      BY <2>1 DEF TreeTypes, Confirmed
    <2>3. ASSUME NEW n \in S, NEW m \in Elements, Follows(n, m) PROVE m \in S
      <3>1. m \in KidsOf(n) /\ n \notin memory.marked
        BY <1>7, <2>3 DEF Follows
      <3>2. Confirmed(m)
        <4>1. n \in Elements
          BY <2>3 DEF TreeTypes
        <4> QED BY <2>3, <4>1 DEF Confirmed
      <3> QED BY <2>1, <2>3, <3>1, <3>2
    <2>4. Closed(S)
      <3> HIDE DEF S
      <3> QED BY <2>3 DEF Closed
    <2>5. Reached \subseteq S
      <3> HIDE DEF S
      <3> QED BY <2>2, <2>4, ReachedLeast
    <2> QED BY <2>1, <2>5
  <1>8. ASSUME walker = "idr"
        PROVE  Yielded = (IF Readable(Anchor) THEN Level(memory.height) \cap memory.marked ELSE {})
    <2>1. /\ Yielded \subseteq Level(memory.height) \cap memory.marked
          /\ ~Readable(Anchor) => yielded = <<>>
          /\ Readable(Anchor) =>
               \A p : Path(p, memory.height) => (p[memory.height] \in memory.marked => p[memory.height] \in Yielded)
      BY <1>1, <1>8 DEF IdrInv
    <2>2. CASE ~Readable(Anchor)
      BY <2>1, <2>2 DEF Yielded
    <2>3. CASE Readable(Anchor)
      <3>1. ASSUME NEW n \in Level(memory.height), n \in memory.marked PROVE n \in Yielded
        <4>1. memory.height \in Nat
          BY DEF TreeTypes, TreeImage
        <4>2. PICK p : Path(p, memory.height) /\ p[memory.height] = n
          BY <3>1, <4>1, LevelBelow
        <4> QED BY <2>1, <2>3, <3>1, <4>2
      <3> QED BY <2>1, <2>3, <3>1
    <2> QED BY <2>2, <2>3
  <1> QED BY <1>4, <1>5, <1>6, <1>7, <1>8

\* With no table left, all entries have been yielded.
LEMMA NoTableLeft ==
  ASSUME walker = "handles", TreeTypes, status = "walking", stack = <<>>, HandlesInv,
         memory.height = 1, Readable(Anchor), NEW i \in DOMAIN memory.kids[Anchor],
         Readable(memory.kids[Anchor][i]), NEW j \in DOMAIN memory.kids[memory.kids[Anchor][i]]
  PROVE  (memory.kids[memory.kids[Anchor][i]][j] \in memory.marked) <=> (<<i - 1, j>> \in Yielded)
  <1>1. PICK s : s = memory.kids[Anchor]
    OBVIOUS
  <1>2. DOMAIN s = 1 .. Len(s) /\ Len(s) \in Nat
    BY <1>1 DEF TreeTypes, TreeImage, Readable
  <1>3. PICK k \in Nat : Tables(k)
    <2>1. stack # <<Call(Anchor, 0, memory.height)>>
      OBVIOUS
    <2> QED BY <2>1 DEF HandlesInv
  <1>4. k \in 0 .. Len(s) /\ 0 = Len(s) - k /\ \A x, y : <<x, y>> \in Yielded <=> x < k /\ Entry(x, y)
    BY <1>1, <1>3 DEF Tables
  <1>5. i \in 1 .. Len(s) /\ k = Len(s) /\ i - 1 \in 0 .. Len(s) - 1 /\ i - 1 < k /\ (i - 1) + 1 = i
    BY <1>1, <1>2, <1>4
  <1>6. Entry(i - 1, j) <=> memory.kids[s[i]][j] \in memory.marked
    BY <1>1, <1>5 DEF Entry
  <1> QED BY <1>1, <1>4, <1>5, <1>6

\* A walk begins with the root.
LEMMA TreeBegins ==
  ASSUME TreeInv, walker \in TreeWalkers, walker' = walker, memory' = memory, TreeStarts
  PROVE  TreeInv'
  <1>1. TreeTypes /\ TreeImage(memory) /\ status = "start" /\ yielded = <<>> /\ seen = {} /\ stack = <<>>
    BY DEF TreeInv, TreeStarts, TreeTypes
  <1>2. memory.height \in Nat /\ memory' = memory /\ TreeImage(memory)'
    BY <1>1 DEF TreeImage
  <1>3. status' = "walking" /\ yielded' = <<>> /\ seen' = {}
    BY <1>1 DEF TreeStarts
  <1>4. Yielded' = {} /\ Distinct'
    BY <1>3 DEF Yielded, Distinct
  <1> DEFINE root == Call(Anchor, IF walker = "handles" THEN 0 ELSE Null,
                          IF walker \in {"idr", "handles"} THEN memory.height ELSE 0)
  <1>5. root \in CallType
    BY <1>2, AnchorAndNull DEF Call, CallType
  <1>6. PICK r : r = root
    OBVIOUS
  <1>7. stack' = <<>> \/ stack' = <<r>>
    BY <1>6 DEF TreeStarts
  <1>8. stack' \in Seq(CallType) /\ Waiting' \subseteq {r} /\ (stack' = <<r>> => r \in Waiting')
    <2>1. r \in CallType /\ <<>> \in Seq(CallType) /\ Items(<<>>) = {}
      BY <1>5, <1>6 DEF Items
    <2>2. <<r>> \in Seq(CallType) /\ Items(<<r>>) = {r}
      BY <2>1 DEF Items
    <2> QED BY <1>7, <2>1, <2>2 DEF Waiting
  <1>9. TreeTypes'
    BY <1>1, <1>2, <1>3, <1>8 DEF TreeTypes
  <1>10. r.node = Anchor /\ r.depth = (IF walker \in {"idr", "handles"} THEN memory.height ELSE 0)
         /\ r.parent = (IF walker = "handles" THEN 0 ELSE Null)
    BY <1>6 DEF Call
  <1>11. walker # "idr" => stack' = <<r>>
    BY <1>6 DEF TreeStarts
  <1>12. VadInv' /\ MapleInv'
    <2>1. walker \in {"vad", "maple"} => stack' = <<Call(Anchor, Null, 0)>>
      BY <1>6, <1>11
    <2> QED BY <1>3, <1>4, <1>8, <1>10, <2>1 DEF VadInv, MapleInv, FromTheRoot
  <1>13. RbInv'
    BY <1>4, <1>8, <1>10, <1>11 DEF RbInv
  <1>14. IdrInv'
    <2> SUFFICES ASSUME walker = "idr" PROVE IdrInv'
      BY DEF IdrInv
    <2>1. stack' = (IF Readable(Anchor) THEN <<r>> ELSE <<>>)
      BY <1>6 DEF TreeStarts
    <2>2. r.depth <= memory.height /\ memory.height - r.depth = 0
      BY <1>2, <1>10
    <2>3. Level(0)' = {Anchor}
      <3>1. Level(0)' = Level(0)
        BY SameTree DEF Level
      <3> QED BY <3>1, LevelBelow
    <2>4. \A p : Path(p, memory.height)' => p[0] = Anchor
      BY DEF Path
    <2>5. (Readable(Anchor)' <=> Readable(Anchor)) /\ memory'.height = memory.height /\ walker' = "idr"
      BY DEF Readable
    <2>6. ASSUME Readable(Anchor) PROVE r \in Waiting'
      BY <1>8, <2>1, <2>6
    <2>7. \A c \in Waiting' : c.depth <= memory.height /\ c.node \in Level(memory.height - c.depth)'
      BY <1>8, <1>10, <2>2, <2>3
    <2>8. \A p : Path(p, memory.height)' /\ Readable(Anchor) =>
            \E c \in Waiting' : c.depth <= memory.height /\ c.node = p[memory.height - c.depth]
      BY <1>10, <2>2, <2>4, <2>6
    <2> QED BY <1>3, <1>4, <2>1, <2>5, <2>7, <2>8 DEF IdrInv
  <1>15. HandlesInv'
    <2> SUFFICES ASSUME walker = "handles" PROVE HandlesInv'
      BY DEF HandlesInv
    <2>1. stack' = <<Call(Anchor, 0, memory.height)>>
      BY <1>6, <1>11
    <2> QED BY <1>3, <1>4, <1>8, <1>10, <2>1 DEF HandlesInv
  <1>16. TreesRead'
    BY <1>3, <1>4 DEF TreesRead, TreesWhole, HandlesNumbered, Distinct
  <1> QED BY <1>3, <1>9, <1>12, <1>13, <1>14, <1>15, <1>16 DEF TreeInv

\* A step that leaves the walk alone keeps what is known of it.
LEMMA TreeUnchanged ==
  ASSUME TreeInv, walker' = walker, memory' = memory, yielded' = yielded, seen' = seen, stack' = stack, status' = status
  PROVE  TreeInv'
  <1>1. /\ \A n : KidsOf(n)' = KidsOf(n) /\ (Readable(n)' <=> Readable(n))
        /\ \A n, m : Follows(n, m)' <=> Follows(n, m)
        /\ Reached' = Reached
    BY SameTree DEF Readable
  <1>2. Waiting' = Waiting /\ Yielded' = Yielded /\ (Distinct' <=> Distinct) /\ (FromTheRoot' <=> FromTheRoot)
    BY DEF Waiting, Items, Yielded, Distinct, FromTheRoot
  <1>3. /\ \A n : Ahead(n)' <=> Ahead(n)
        /\ \A m : Confirmed(m)' <=> Confirmed(m)
        /\ \A h : Level(h)' = Level(h)
        /\ \A p, h : Path(p, h)' <=> Path(p, h)
    BY <1>1, <1>2 DEF Ahead, Confirmed, Level, Path
  <1>4. \A k : Tables(k)' <=> Tables(k)
    BY <1>1, <1>2 DEF Tables, Entry, Readable
  <1>5. TreeTypes' <=> TreeTypes
    BY DEF TreeTypes, TreeImage
  <1>6. VadInv' /\ MapleInv' /\ RbInv'
    BY <1>1, <1>2, <1>3 DEF TreeInv, VadInv, MapleInv, RbInv
  <1>7. IdrInv' /\ HandlesInv'
    BY <1>1, <1>2, <1>3, <1>4 DEF TreeInv, IdrInv, HandlesInv
  <1>8. TreesWhole'
    BY <1>1, <1>2, <1>3 DEF TreeInv, TreesRead, TreesWhole
  <1>9. HandlesNumbered'
    BY <1>1, <1>2 DEF TreeInv, TreesRead, HandlesNumbered, Readable
  <1> QED BY <1>5, <1>6, <1>7, <1>8, <1>9 DEF TreeInv, TreesRead

\* Trees and tables of handles are read as they are in the image.
THEOREM TreesAreRead == Spec => []TreesRead
  <1>1. Init => TreeInv
    <2> SUFFICES ASSUME Init PROVE TreeInv
      OBVIOUS
    <2>1. status = "start" /\ yielded = <<>> /\ seen = {} /\ stack = <<>>
      BY DEF Init, ListInit
    <2>2. walker \in TreeWalkers => TreeTypes
      BY <2>1 DEF Init, TreeTypes
    <2>3. Waiting = {} /\ Distinct
      BY <2>1 DEF Waiting, Items, Distinct
    <2> QED BY <2>1, <2>2, <2>3 DEF TreeInv, VadInv, MapleInv, RbInv, IdrInv, HandlesInv, TreesRead, TreesWhole,
              HandlesNumbered, Distinct
  <1>2. TreeInv /\ [Next]_treeVars => TreeInv'
    <2> SUFFICES ASSUME TreeInv, [Next]_treeVars PROVE TreeInv'
      OBVIOUS
    <2>1. CASE ListStep
      <3>1. walker' = walker /\ walker \in ListWalkers
        BY <2>1 DEF ListStep, ToListStarts, Starts, PathStarts, ListRound, ToListRound, HlistRound, GetPathRound,
          MmapRound, DevicesRound, WalkIterableRound, MapRound, AllprocRound, PathRound, QueueRound,
          ListWalkers, ListHeads, RememberPlaces, Forgetful
      <3>2. walker \notin TreeWalkers
        BY <3>1 DEF TreeWalkers, ListWalkers, ListHeads, RememberPlaces, Forgetful
      <3>3. walker' \notin TreeWalkers
        BY <3>1, <3>2
      <3> QED BY <3>3 DEF TreeInv, TreeWalkers, VadInv, MapleInv, RbInv, IdrInv, HandlesInv, TreesRead, TreesWhole,
                HandlesNumbered
    <2>2. CASE TreeStep
      <3>1. walker \in TreeWalkers /\ walker' = walker /\ memory' = memory
        BY <2>2 DEF TreeStep
      <3>2. TreeTypes /\ VadInv /\ MapleInv /\ RbInv /\ IdrInv /\ HandlesInv /\ TreesRead
        BY <3>1 DEF TreeInv
      <3>3. CASE TreeStarts
        BY <3>1, <3>3, TreeBegins
      <3>4. CASE TreeCall
        <4>1. status = "walking" /\ stack # <<>>
          BY <3>4 DEF TreeCall
        <4>2. status' # "start"
          BY <3>4, <4>1 DEF TreeCall, VadCall, MapleCall, RbCall, RbNode, IdrCall, HandlesCall, Raises, Returns, Calls
        <4>3. CASE VadCall
          <5>1. TreeTypes' /\ VadInv' /\ status' # "done" /\ walker' = "vad"
            BY <3>1, <3>2, <4>1, <4>3, VadKeeps DEF VadCall
          <5>2. MapleInv' /\ RbInv' /\ IdrInv' /\ HandlesInv'
            BY <5>1 DEF MapleInv, RbInv, IdrInv, HandlesInv
          <5>3. TreesRead'
            BY <5>1 DEF TreesRead, TreesWhole, HandlesNumbered
          <5> QED BY <4>2, <5>1, <5>2, <5>3 DEF TreeInv
        <4>4. CASE MapleCall
          <5>1. TreeTypes' /\ MapleInv' /\ status' # "done" /\ walker' = "maple"
            BY <3>1, <3>2, <4>1, <4>4, MapleKeeps DEF MapleCall
          <5>2. VadInv' /\ RbInv' /\ IdrInv' /\ HandlesInv'
            BY <5>1 DEF VadInv, RbInv, IdrInv, HandlesInv
          <5>3. TreesRead'
            BY <5>1 DEF TreesRead, TreesWhole, HandlesNumbered
          <5> QED BY <4>2, <5>1, <5>2, <5>3 DEF TreeInv
        <4>5. CASE RbCall
          <5>1. TreeTypes' /\ RbInv' /\ status' # "done" /\ walker' = "rb"
            BY <3>1, <3>2, <4>1, <4>5, RbKeeps DEF RbCall
          <5>2. VadInv' /\ MapleInv' /\ IdrInv' /\ HandlesInv'
            BY <5>1 DEF VadInv, MapleInv, IdrInv, HandlesInv
          <5>3. TreesRead'
            BY <5>1 DEF TreesRead, TreesWhole, HandlesNumbered
          <5> QED BY <4>2, <5>1, <5>2, <5>3 DEF TreeInv
        <4>6. CASE IdrCall
          <5>1. TreeTypes' /\ IdrInv' /\ status' # "done" /\ walker' = "idr"
            BY <3>1, <3>2, <4>1, <4>6, IdrKeeps DEF IdrCall
          <5>2. VadInv' /\ MapleInv' /\ RbInv' /\ HandlesInv'
            BY <5>1 DEF VadInv, MapleInv, RbInv, HandlesInv
          <5>3. TreesRead'
            BY <5>1 DEF TreesRead, TreesWhole, HandlesNumbered
          <5> QED BY <4>2, <5>1, <5>2, <5>3 DEF TreeInv
        <4>7. CASE HandlesCall
          <5>1. TreeTypes' /\ HandlesInv' /\ status' # "done" /\ walker' = "handles"
            BY <3>1, <3>2, <4>1, <4>7, HandlesKeeps DEF HandlesCall
          <5>2. VadInv' /\ MapleInv' /\ RbInv' /\ IdrInv'
            BY <5>1 DEF VadInv, MapleInv, RbInv, IdrInv
          <5>3. TreesRead'
            BY <5>1 DEF TreesRead, TreesWhole, HandlesNumbered, HandlesInv, Distinct
          <5> QED BY <4>2, <5>1, <5>2, <5>3 DEF TreeInv
        <4> QED BY <3>4, <4>3, <4>4, <4>5, <4>6, <4>7 DEF TreeCall
      <3>5. CASE TreeReturns
        <4>1. status = "walking" /\ stack = <<>> /\ status' = "done" /\ stack' = <<>> /\ seen' = seen /\ yielded' = yielded
          BY <3>5 DEF TreeReturns
        <4>2. TreeTypes'
          BY <3>1, <3>2, <4>1 DEF TreeTypes, TreeImage
        <4>3. VadInv' /\ MapleInv' /\ RbInv' /\ IdrInv'
          BY <4>1 DEF VadInv, MapleInv, RbInv, IdrInv
        <4>4. Distinct' <=> Distinct
          BY <4>1 DEF Distinct
        <4>5. HandlesInv'
          BY <3>1, <3>2, <4>1, <4>4 DEF HandlesInv, Waiting, Items
        <4>6. /\ Reached' = Reached /\ Yielded' = Yielded /\ \A n : KidsOf(n)' = KidsOf(n)
              /\ Level(memory.height)' = Level(memory.height) /\ (Readable(Anchor)' <=> Readable(Anchor))
          BY <3>1, <4>1, SameTree DEF Yielded, Level, Readable
        <4>7. TreesWhole'
          BY <3>1, <3>2, <4>1, <4>6, NothingLeft DEF TreesWhole
        <4>8. HandlesNumbered'
          <5> SUFFICES ASSUME walker = "handles", memory.height <= 1 PROVE HandlesNumbered'
            BY <3>1 DEF HandlesNumbered
          <5>1. Distinct
            BY <3>2 DEF HandlesInv
          <5>2. ASSUME memory.height = 1, Readable(Anchor), NEW i \in DOMAIN memory.kids[Anchor],
                       Readable(memory.kids[Anchor][i]), NEW j \in DOMAIN memory.kids[memory.kids[Anchor][i]]
                PROVE  (memory.kids[memory.kids[Anchor][i]][j] \in memory.marked) <=> (<<i - 1, j>> \in Yielded')
            BY <3>2, <4>1, <4>6, <5>2, NoTableLeft
          <5> QED BY <3>1, <4>1, <5>1, <5>2 DEF HandlesNumbered, Distinct, Readable
        <4> QED BY <4>1, <4>2, <4>3, <4>5, <4>7, <4>8 DEF TreeInv, TreesRead
      <3> QED BY <2>2, <3>3, <3>4, <3>5 DEF TreeStep
    <2>3. CASE UNCHANGED treeVars
      BY <2>3, TreeUnchanged DEF treeVars, listVars
    <2> QED BY <2>1, <2>2, <2>3 DEF Next
  <1>3. TreeInv => TreesRead
    BY DEF TreeInv
  <1> QED BY <1>1, <1>2, <1>3, PTL DEF Spec

=============================================================================
