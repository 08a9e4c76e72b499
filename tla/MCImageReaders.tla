--------------------------- MODULE MCImageReaders --------------------------
(***************************************************************************)
(* The log of a Linux kernel, the list of the hives of a Windows kernel,   *)
(* and the cells of a hive: images with damage, and one reader each.       *)
(***************************************************************************)
EXTENDS KernelLog, HiveList, HiveTree

CONSTANTS head, null, root, x, y, l, m, other

MaxRecordsOf == [chars |-> 9, records |-> 5, descriptors |-> 5]

IdleLog ==
  /\ version = "none" /\ texts = <<>> /\ ring = [text |-> <<>>] /\ damage = NoDamage
  /\ reader = [NewReader EXCEPT !.state = "idle"]

-----------------------------------------------------------------------------
(* The list of hives: a ring of three, in which a link of each direction may lead astray *)

MCEntries == {head, x, y, l, null}
Ahead == [n \in MCEntries |->
  CASE n = head -> x [] n = x -> y [] n = y -> l [] n = l -> head [] n = null -> null]
Behind == [n \in MCEntries |->
  CASE n = head -> l [] n = x -> head [] n = y -> x [] n = l -> y [] n = null -> null]

ListImages ==
  {[next |-> [Ahead EXCEPT ![p] = u], prev |-> [Behind EXCEPT ![q] = v],
    readable |-> {head, x, y, l} \ {d}, objects |-> {head, x, y, l} \ {e}, hives |-> h, scanned |-> s] :
     p \in {x, y}, u \in MCEntries, q \in {head, y}, v \in MCEntries, d \in {null, y}, e \in {null, y},
     h \in {{x, y, l}, {y}, {y, l}, {x, l}}, s \in {<<x>>, <<y, x>>}}

NoList == [next |-> Ahead, prev |-> Behind, readable |-> {}, objects |-> {}, hives |-> {}, scanned |-> <<>>]
IdleList ==
  /\ memory = NoList /\ walk = [Walk("idle", "next", 0) EXCEPT !.state = "idle"]
  /\ listed = <<>> /\ invalid = null

-----------------------------------------------------------------------------
(* Hives of a root and two other keys, and two lists *)

MCCells == {root, x, y, l, m, other}
Kinds == [c \in MCCells |->
  CASE c \in {root, x, y} -> "key" [] c \in {l, m} -> "list" [] c = other -> "other"]
Whole == [c \in MCCells |-> 3]
OneBroken == {[Whole EXCEPT ![d] = n] : d \in {x, y, l, m}, n \in 0 .. 2} \cup {Whole}
Names == [c \in MCCells |-> IF c = x THEN "one" ELSE "other"]

References(ofRoot, ofX, ofY, ofL, ofM) ==
  [c \in MCCells |-> CASE c = root -> <<l, ofRoot>> [] c = x -> <<ofX, other>> [] c = y -> <<other, ofY>>
                       [] c = l -> ofL [] c = m -> ofM [] c = other -> <<>>]
Webs ==
  {References(a, b, c, d, e) :
     a \in {other, x}, b \in {other, l, m}, c \in {other, l},
     d \in {<<x, y>>, <<y, other, x>>, <<m, x>>, <<x, root>>}, e \in {<<y>>, <<l>>, <<x, y>>, <<y, m>>}}
InOrder == References(other, m, other, <<x>>, <<y>>)

Value(there, b) == [there |-> there, big |-> FALSE, length |-> 2, blocks |-> <<b>>]
BigValue(blocks) == [there |-> TRUE, big |-> TRUE, length |-> 2 * Len(blocks) - 1, blocks |-> blocks]
BigValues == {BigValue(b) : b \in UNION {[1 .. n -> {"read", "lost", "outside"}] : n \in 2 .. 3}}
SomeValues == {Value(t, b) : t \in BOOLEAN, b \in {"read", "lost"}} \cup BigValues

HiveOf(refs, there, ofX, readable) ==
  [kind |-> Kinds, refs |-> refs, there |-> there, names |-> Names,
   values |-> [c \in MCCells |-> IF c = x THEN ofX ELSE <<Value(TRUE, "read")>>],
   listed |-> [c \in MCCells |-> IF c = x THEN readable ELSE 1]]

Visits ==
  \/ \E refs \in Webs, there \in OneBroken :
       /\ hive = HiveOf(refs, there, <<>>, 0)
       /\ visitor = [who |-> "printkey", recurse |-> TRUE, path |-> <<>>]
  \/ \E refs \in Webs, n \in 1 .. 3 :
       /\ hive = HiveOf(refs, [Whole EXCEPT ![y] = n], <<>>, 0)
       /\ visitor = [who |-> "visit_nodes", recurse |-> TRUE, path |-> <<>>]
  \/ \E refs \in Webs, there \in OneBroken, path \in {"one", "other"} \X {"one", "other"} :
       /\ hive = HiveOf(refs, there, <<>>, 0)
       /\ visitor = [who |-> "get_key", recurse |-> FALSE, path |-> path]
  \/ \E v, w \in SomeValues, readable \in {1, 2}, recurse \in BOOLEAN :
       /\ hive = HiveOf(InOrder, Whole, <<v, w>>, readable)
       /\ visitor = [who |-> "printkey", recurse |-> recurse, path |-> <<>>]

IdleHive ==
  /\ hive = HiveOf(InOrder, Whole, <<>>, 0)
  /\ visitor = [who |-> "nobody", recurse |-> FALSE, path |-> <<>>]
  /\ frames = <<>> /\ rows = <<>> /\ outcome = "idle"

-----------------------------------------------------------------------------

MCInit ==
  \/ LogInit /\ IdleList /\ IdleHive
  \/ IdleLog /\ memory \in ListImages /\ HiveListInit /\ IdleHive
  \/ IdleLog /\ IdleList /\ Visits /\ HiveTreeInit

MCNext ==
  \/ LogNext /\ UNCHANGED <<hiveListVars, hiveVars>>
  \/ HiveListNext /\ UNCHANGED <<logVars, hiveVars>>
  \/ HiveTreeNext /\ UNCHANGED <<logVars, hiveListVars>>

MCSpec == MCInit /\ [][MCNext]_<<logVars, hiveListVars, hiveVars>>
=============================================================================
