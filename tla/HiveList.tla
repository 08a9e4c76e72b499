------------------------------ MODULE HiveList ------------------------------
(***************************************************************************)
(* plugins/windows/registry/hivelist.py: the registry hives of a Windows   *)
(* kernel.  They are in a doubly linked list, which is walked forwards; if *)
(* that meets a hive that is not valid, backwards; if that meets another,  *)
(* from each hive that a scan of the memory finds, in both directions.     *)
(***************************************************************************)
EXTENDS Integers, Sequences

CONSTANTS
  Entries,   \* addresses of entries of the list, of its head, and the null pointer
  ListHead,  \* CmpHiveListHead
  NoEntry    \* the null pointer

(***************************************************************************)
(* memory.next and memory.prev are the links of an entry, memory.readable  *)
(* the entries whose links can be read, memory.objects those at whose      *)
(* _CMHIVE there is memory, memory.hives those with the signature of a     *)
(* hive, memory.scanned the hives the scan finds.                          *)
(***************************************************************************)
VARIABLES
  memory,   \* the image; never changes
  walk,     \* [phase, state, turn, found, at, met]: which walk, and where it is
  listed,   \* the hives that were yielded
  invalid   \* forward_invalid, NoEntry if there is none

hiveListVars == <<memory, walk, listed, invalid>>

Phases == {"forward", "backward", "scan"}
Link(n) == IF walk.turn = "next" THEN memory.next[n] ELSE memory.prev[n]

\* The entry a walk starts from: a hive that was scanned is known by another address, so that
\* the walk has to start from the one that follows it
Origin(w) == IF w.phase = "scan" THEN memory.next[memory.scanned[w.found]] ELSE ListHead

\* The next walk, of a kind and direction, for a hive that was found
Walk(phase, turn, found) ==
  [phase |-> phase, state |-> "starting", turn |-> turn, found |-> found, at |-> ListHead, met |-> {}]

-----------------------------------------------------------------------------
(* Deviations a bug could introduce; only the mutants of PROJECT.json use them. *)

\* The walk backwards is over at the first hive that is not valid, wherever it is
NoScan(bad) == [walk EXCEPT !.phase = "done"]

-----------------------------------------------------------------------------

\* Walks go from one hive that was scanned to the next; one whose links cannot be read is
\* passed over
ScanFrom(n) ==
  LET useful == {i \in n .. Len(memory.scanned) :
                   memory.scanned[i] \in memory.readable /\ memory.next[memory.scanned[i]] # NoEntry}
  IN IF useful = {} THEN [walk EXCEPT !.phase = "done"]
     ELSE Walk("scan", "next", CHOOSE i \in useful : \A j \in useful : i <= j)

\* list_hive_objects, after the walk backwards has met bad (NoEntry: nothing that is not valid)
AfterBackward(bad) ==
  IF bad # NoEntry /\ bad # invalid THEN ScanFrom(1) ELSE [walk EXCEPT !.phase = "done"]

\* A walk is over; bad is the hive HiveGenerator stopped at
Over(bad) ==
  CASE walk.phase = "forward" ->
         /\ invalid' = bad
         /\ walk' = IF bad # NoEntry THEN Walk("backward", "prev", 0) ELSE [walk EXCEPT !.phase = "done"]
    [] walk.phase = "backward" -> walk' = AfterBackward(bad) /\ UNCHANGED invalid
    [] walk.phase = "scan" ->
         /\ walk' = IF walk.turn = "next" THEN Walk("scan", "prev", walk.found)
                     ELSE ScanFrom(walk.found + 1)
         /\ UNCHANGED invalid

\* _LIST_ENTRY.to_list, up to its loop
StartWalk ==
  LET o == Origin(walk)
  IN /\ walk.phase \in Phases /\ walk.state = "starting"
     /\ IF o \in memory.readable /\ Link(o) \in memory.readable
          THEN walk' = [walk EXCEPT !.state = "walking", !.at = Link(o), !.met = {o}] /\ UNCHANGED invalid
          ELSE Over(NoEntry)
     /\ UNCHANGED <<memory, listed>>

\* What the loop of to_list does after it has yielded
Onwards ==
  IF Link(walk.at) \in memory.readable
    THEN walk' = [walk EXCEPT !.at = Link(@), !.met = @ \cup {walk.at}] /\ UNCHANGED invalid
    ELSE Over(NoEntry)

Listed(n) == \E i \in DOMAIN listed : listed[i] = n

WalkRound ==
  /\ walk.phase \in Phases /\ walk.state = "walking"
  /\ CASE walk.at \in walk.met \/ walk.at \notin memory.objects -> Over(NoEntry) /\ UNCHANGED listed
       [] OTHER ->
            IF walk.phase # "scan" /\ walk.at \notin memory.hives THEN Over(walk.at) /\ UNCHANGED listed
            ELSE IF walk.phase # "scan" /\ Listed(walk.at) THEN Over(NoEntry) /\ UNCHANGED listed
            ELSE /\ listed' = IF walk.at \in memory.hives /\ ~Listed(walk.at)
                               THEN Append(listed, walk.at) ELSE listed
                 /\ Onwards
  /\ UNCHANGED memory

HiveListInit ==
  /\ walk = Walk("forward", "next", 0)
  /\ listed = <<>> /\ invalid = NoEntry

HiveListNext == StartWalk \/ WalkRound

-----------------------------------------------------------------------------
(* Properties *)

\* The entries that come after the head in one direction
Chain(links) ==
  LET nth[i \in 1 .. 4] == links[IF i = 1 THEN ListHead ELSE nth[i - 1]] IN nth

\* There is an entry, and it is reached; it may not be a hive
Present(c, i) ==
  c[i] \in memory.readable \cap memory.objects /\ c[i] \notin {ListHead} \cup {c[j] : j \in 1 .. i - 1}

\* The hives before anything else is met
Run(c) == {c[i] : i \in {j \in DOMAIN c : \A h \in 1 .. j : Present(c, h) /\ c[h] \in memory.hives}}

\* What is not a hive, and is the first such to be met, unless one of others is met before
Bad(c, others) ==
  {c[i] : i \in {j \in DOMAIN c : /\ Present(c, j) /\ c[j] \notin memory.hives
                                  /\ \A h \in 1 .. j - 1 : c[h] \in Run(c) \ others}}

\* No hive is listed twice, and nothing else is.  All that come before the first break of the
\* list are; if it breaks at what is there but is not a hive, also those after the last break,
\* back to where the walks meet; if that is another such entry, also those that a scan finds
\* and the one that follows knows.
HivesListed ==
  LET ahead == Chain(memory.next)
      behind == Chain(memory.prev)
      met == {i \in DOMAIN behind : behind[i] \in Run(ahead)}
  IN /\ \A i, j \in DOMAIN listed : listed[i] = listed[j] => i = j
     /\ \A i \in DOMAIN listed : listed[i] \in memory.hives
     /\ walk.phase = "done" /\ ListHead \in memory.readable =>
          /\ \A n \in Run(ahead) : Listed(n)
          /\ Bad(ahead, {}) # {} =>
               \A i \in DOMAIN behind :
                 behind[i] \in Run(behind) /\ (\A j \in met : i < j) => Listed(behind[i])
          /\ Bad(ahead, {}) # {} /\ Bad(behind, Run(ahead)) \notin {{}, Bad(ahead, {})} =>
               \A i \in DOMAIN memory.scanned :
                 LET n == memory.scanned[i]
                     follows == memory.next[n]
                 IN n \in memory.readable \cap memory.objects \cap memory.hives
                    /\ follows \in memory.readable \ {n}
                    /\ memory.prev[follows] = n => Listed(n)
=============================================================================
