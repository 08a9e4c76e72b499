--------------------------- MODULE MCSymbolCache ---------------------------
(***************************************************************************)
(* Two programs, one file in the symbol directories, and a remote list     *)
(* that names one table, or another list that cannot be used.  Without a   *)
(* remote list the file changes up to three times.  With one, downloads    *)
(* are watched first, at one time; then, with the list in the cache, what  *)
(* it named gets old, and the file may be removed (or there is none, if    *)
(* the server tells the length of the list).                               *)
(***************************************************************************)
EXTENDS SymbolCache, TLC

CONSTANTS first, second, file, remote, table1, table2, notJson

Entry == [location |-> remote, identifier |-> table1]
Lists == {[entries |-> <<>>, raises |-> TRUE], [entries |-> <<Entry>>, raises |-> FALSE],
          [entries |-> <<Entry>>, raises |-> TRUE]}

MCInit ==
  /\ Init
  /\ offline => hasLength /\ disk = <<>>
  /\ ~offline => skew = 0 /\ DOMAIN disk = (IF hasLength THEN {} ELSE Locations)
  /\ \A l \in DOMAIN disk : disk[l].content = table2

\* The list is in the cache, nobody is on the way to it, and not both update
ListCached ==
  /\ path # 0 /\ Whole(path)
  /\ \A p \in Programs : fetches[p].state = "none"
  /\ \E p \in Programs : programs[p].pc \in {"off", "idle"}

MCNext ==
  /\ Next
  /\ ~offline =>
       /\ clock' # clock => ListCached /\ ~hasLength /\ clock' <= 2 /\ DOMAIN disk' \subseteq DOMAIN disk
       /\ clock = 1 => clock' = 2

\* The two programs do the same
Symmetry == Permutations(Programs)

MCSpec == MCInit /\ [][MCNext]_symbolVars
=============================================================================
