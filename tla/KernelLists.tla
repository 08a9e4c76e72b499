---------------------------- MODULE KernelLists ----------------------------
(***************************************************************************)
(* The walks over lists of kernel structures that the plugins are built    *)
(* on, in volatility3/framework/symbols/: windows/extensions, linux,       *)
(* linux/extensions, mac, mac/extensions, and in plugins/mac/pslist.py.    *)
(*                                                                         *)
(* The memory of an image need not be consistent: any pointer may lead     *)
(* anywhere, a list may run into itself, an element may be missing.        *)
(*                                                                         *)
(* An element is the address of a structure in a list; the link to the     *)
(* next one lies in the structure.  What a loop remembers is the vol.offset *)
(* of what it holds: of a structure that is its address, of a Pointer it   *)
(* is the place of the pointer, that is, the structure the pointer lies in. *)
(***************************************************************************)
EXTENDS Integers, Sequences, FiniteSets

CONSTANTS
  Elements,    \* addresses of list elements, of the head, and the null pointer
  Anchor,        \* the head of the list, or the structure the walk starts from
  Null,
  Limit,       \* max_size, max_elements: how many elements are enough
  MaxYields    \* bound: elements taken from a walk that does not end

ASSUME AnchorAndNull == Anchor \in Elements /\ Null \in Elements /\ Anchor # Null

(***************************************************************************)
(* memory.next and memory.prev are the links of an element (d_parent,      *)
(* NextDevice, ... for structures with one link), memory.readable the      *)
(* elements whose links can be read, memory.objects those whose structure  *)
(* around the link can be, memory.entries a number of entries in a header. *)
(***************************************************************************)
VARIABLES
  walker,   \* which function walks; never changes
  memory,   \* the image; never changes
  at,       \* the element that is looked at next
  place,    \* the element in which the pointer to it lies
  seen,     \* the set of that name
  yielded,  \* what the generator has yielded
  turn,     \* the member that is followed: "next" or "prev"
  turned,   \* how many elements were yielded when the walk turned round
  status    \* "start", "walking", "done", "raised" or "endless"

listVars == <<walker, memory, at, place, seen, yielded, turn, turned, status>>

ListHeads == {"to_list", "to_list backwards", "to_list of a member"}
\* These loops hold a Pointer, so that they remember places
RememberPlaces == {"tailq", "map", "path"}
Forgetful == {"hlist", "get_path"}
ListWalkers == ListHeads \cup RememberPlaces \cup Forgetful \cup {"mmap", "devices", "queue", "allproc"}

Readable(n) == n \in memory.readable
Link(n) == IF turn = "next" THEN memory.next[n] ELSE memory.prev[n]

-----------------------------------------------------------------------------
(* What a round of a loop comes to *)

Ends(how) == status' = how /\ UNCHANGED <<at, place, seen, yielded, turn, turned>>

\* The loop starts with the link of the head
Begins == at' = Link(Anchor) /\ place' = Anchor /\ status' = "walking" /\ UNCHANGED <<turn, turned>>

\* The current element is yielded, the places or elements in r are remembered, and the walk
\* goes on with the link of the element, or is over
Yields(r) ==
  /\ yielded' = Append(yielded, at) /\ seen' = seen \cup r
  /\ at' = Link(at) /\ place' = at
  /\ UNCHANGED <<turn, turned, status>>

YieldsLast(r) ==
  /\ yielded' = Append(yielded, at) /\ seen' = seen \cup r
  /\ status' = "done"
  /\ UNCHANGED <<at, place, turn, turned>>

-----------------------------------------------------------------------------
(* Deviations a bug could introduce; only the mutants of PROJECT.json use them. *)

\* The element is remembered after its link was found to be readable
DevicesForget ==
  /\ at \notin seen
  /\ IF Readable(at) THEN Yields({}) ELSE YieldsLast({})

\* The walk in the other direction is left out after a link that cannot be read
QueueGivesUp ==
  \/ Len(yielded) + 1 = Limit /\ YieldsLast({at})
  \/ Len(yielded) + 1 # Limit /\ Readable(at) /\ Yields({at})
  \/ Len(yielded) + 1 # Limit /\ ~Readable(at) /\ YieldsLast({at})

-----------------------------------------------------------------------------
(* _LIST_ENTRY.to_list, list_head.to_list: doubly linked, with a head that is *)
(* not an element of the list unless it lies in a member of one.              *)

ToListStarts ==
  /\ walker \in ListHeads /\ status = "start"
  /\ LET member == walker = "to_list of a member"
     IN IF Readable(Anchor) /\ Readable(Link(Anchor)) /\ (member => Anchor \in memory.objects)
          THEN yielded' = (IF member THEN <<Anchor>> ELSE <<>>) /\ seen' = {Anchor} /\ Begins
          ELSE Ends("done")

ToListRound ==
  /\ walker \in ListHeads
  /\ IF at \in seen \/ at \notin memory.objects THEN Ends("done")
     ELSE IF Readable(Link(at)) THEN Yields({at})
     ELSE YieldsLast({at})

-----------------------------------------------------------------------------
(* Walks from one pointer to the next *)

Starts ==
  /\ walker \in ListWalkers \ (ListHeads \cup {"path"}) /\ status = "start"
  /\ IF Readable(Anchor) THEN Begins /\ UNCHANGED <<seen, yielded>>
     ELSE Ends(IF walker \in {"hlist", "mmap", "allproc"} THEN "raised" ELSE "done")

\* A walk that does not look at where it has been
Forgetting(stop) ==
  IF stop THEN Ends("done")
  ELSE IF Len(yielded) < MaxYields THEN Yields({})
  ELSE Ends("endless")

\* hlist_head.to_list
HlistRound == walker = "hlist" /\ Forgetting(~Readable(at))

\* LinuxUtilities.do_get_path within one mount, whose root is the head
GetPathRound ==
  walker = "get_path" /\ Forgetting(~Readable(at) \/ at = Anchor \/ Link(at) = at)

\* mm_struct._get_mmap_iter
MmapRound ==
  /\ walker = "mmap"
  /\ IF Readable(at) /\ at \notin seen THEN Yields({at}) ELSE Ends("done")

\* DRIVER_OBJECT.get_devices, DEVICE_OBJECT.get_attached_devices: what a pointer leads to
\* is an object, and true, even if the pointer is null
DevicesYield ==
  /\ at \notin seen
  /\ IF Readable(at) THEN Yields({at}) ELSE YieldsLast({at})

DevicesRound ==
  walker = "devices" /\ (DevicesYield \/ (at \in seen /\ Ends("done")))

\* MacUtilities._walk_iterable, of walk_tailq, walk_list_head and walk_slist
WalkIterableRound ==
  /\ walker = "tailq"
  /\ IF place \in seen \/ Cardinality(seen) + 1 = Limit \/ ~Readable(at)
       THEN Ends("done") ELSE Yields({place})

\* proc.get_map_iter
MapRound ==
  /\ walker = "map"
  /\ IF Len(yielded) = memory.entries \/ place \in seen \/ ~Readable(at)
       THEN Ends("done") ELSE Yields({place})

\* PsList.list_tasks_allproc: the first process is held by its pointer, which lies in the
\* head, all others as structures
AllprocRound ==
  /\ walker = "allproc"
  /\ IF yielded = <<>> THEN IF Readable(at) THEN Yields({Anchor}) ELSE YieldsLast({Anchor})
     ELSE IF at = Null \/ at \in seen \/ ~Readable(at) THEN Ends("done")
     ELSE Yields({at})

\* dentry.path: the dentry itself, then the pointers to its parents
PathStarts ==
  /\ walker = "path" /\ status = "start"
  /\ IF ~Readable(Anchor) THEN Ends("raised")
     ELSE IF Link(Anchor) = Anchor THEN Ends("done")
     ELSE yielded' = <<Anchor>> /\ UNCHANGED seen /\ Begins

PathRound ==
  /\ walker = "path"
  /\ IF ~Readable(at) THEN Ends("raised")
     ELSE IF Link(at) = at \/ place \in seen THEN Ends("done")
     ELSE Yields({place})

-----------------------------------------------------------------------------
(* queue_entry.walk_list: forwards, then backwards; what cannot be read ends *)
(* one direction                                                             *)

QueueTurns ==
  /\ at \in seen \cup {Anchor}
  /\ IF turn = "next"
       THEN /\ turn' = "prev" /\ turned' = Len(yielded) /\ at' = memory.prev[Anchor] /\ place' = Anchor
            /\ UNCHANGED <<seen, yielded, status>>
       ELSE Ends("done")

QueueYields ==
  \/ Len(yielded) + 1 = Limit /\ YieldsLast({at})
  \/ Len(yielded) + 1 # Limit /\ Readable(at) /\ Yields({at})
  \/ /\ Len(yielded) + 1 # Limit /\ ~Readable(at)
     /\ yielded' = Append(yielded, at) /\ seen' = seen \cup {at} /\ at' = Anchor
     /\ UNCHANGED <<place, turn, turned, status>>

QueueRound ==
  walker = "queue" /\ (QueueTurns \/ (at \notin seen \cup {Anchor} /\ QueueYields))

-----------------------------------------------------------------------------

Image(m) == m.readable \subseteq Elements \ {Null} /\ {m.next, m.prev} \subseteq [Elements -> Elements]

ListInit ==
  /\ walker \in ListWalkers => Image(memory)
  /\ at = Null /\ place = Null /\ seen = {} /\ yielded = <<>>
  /\ turn = (IF walker = "to_list backwards" THEN "prev" ELSE "next")
  /\ turned = 0 /\ status = "start"

ListRound ==
  /\ status = "walking"
  /\ \/ ToListRound \/ HlistRound \/ GetPathRound \/ MmapRound \/ DevicesRound
     \/ WalkIterableRound \/ MapRound \/ AllprocRound \/ PathRound \/ QueueRound

ListStep == (ToListStarts \/ Starts \/ PathStarts \/ ListRound) /\ UNCHANGED <<walker, memory>>

-----------------------------------------------------------------------------
(* Properties *)

\* However the links run, no element is yielded twice by a walk that remembers elements.
\* A walk that remembers the places of the pointers notices a loop one element late: the
\* element where the list runs into itself comes once more, as the last one.  Only the first
\* process of the list of all processes is remembered by the place of its pointer.
EachElementOnce ==
  walker \in ListWalkers \ Forgetful =>
    \A i, j \in DOMAIN yielded :
      i < j /\ yielded[i] = yielded[j] =>
        \/ walker \in RememberPlaces /\ j = Len(yielded)
        \/ walker = "allproc" /\ i = 1

\* A walk does not give up early: it ends where a link leads to nothing, to what was yielded
\* or to the head, where something cannot be read, or with as many elements as asked for.
\* A queue is walked in both directions, so that one broken link costs nothing.
OverAfter(links, first, last) ==
  LET n == links[IF first = last THEN Anchor ELSE yielded[last]]
  IN \/ first < last /\ ~Readable(yielded[last])
     \/ n \notin memory.readable \cap memory.objects
     \/ n \in {Anchor} \cup {yielded[i] : i \in 1 .. last}
     \/ walker \in {"path", "get_path"} /\ memory.next[n] = n

WalkedToTheEnd ==
  walker \in ListWalkers /\ status = "done" =>
    \/ ~Readable(Anchor)
    \/ walker \in {"tailq", "queue"} /\ Len(yielded) \in {Limit - 1, Limit}
    \/ walker = "map" /\ Len(yielded) = memory.entries
    \/ walker = "to_list of a member" /\ Anchor \notin memory.objects
    \/ walker # "queue" /\ OverAfter(IF turn = "next" THEN memory.next ELSE memory.prev, 0, Len(yielded))
    \/ /\ walker = "queue" /\ turn = "prev"
       /\ OverAfter(memory.next, 0, turned)
       /\ OverAfter(memory.prev, turned, Len(yielded))
=============================================================================
