------------------------------ MODULE HiveTree ------------------------------
(***************************************************************************)
(* The keys and values of a registry hive: layers/registry.py, the         *)
(* extensions in symbols/windows/extensions/registry.py, and the walk of   *)
(* plugins/windows/registry/printkey.py.                                   *)
(*                                                                         *)
(* A hive is a space of cells that refer to each other.  In an image some  *)
(* cells are missing, or are there in part, and references may lead        *)
(* anywhere.  Generators that call each other are a stack of frames.       *)
(***************************************************************************)
EXTENDS Integers, Sequences, FiniteSets, SequencesExt

CONSTANTS
  Cells,
  RootCell,
  BlockLength, \* BIG_DATA_MAXLEN
  StackLimit   \* bound: the depth of Python's stack

ASSUME RootCellAssumption == RootCell \in Cells

(***************************************************************************)
(* hive.kind[c] is "key", "list" (of keys, by any of three signatures) or  *)
(* "other"; hive.refs[c] the two lists of subkeys of a key, volatile and    *)
(* not, or what a list refers to; hive.names[c] the name of a key,          *)
(* hive.values[c] its list of values; hive.listed[c] how much of that list  *)
(* can be read.  hive.there[c] is how much of a cell can be read: 0        *)
(* nothing, 1 its signature, 2 its lists as well, 3 all of it.              *)
(*                                                                         *)
(* A value is [there, big, length, blocks]: whether its cell can be read,   *)
(* whether its data is in blocks of up to BlockLength units, and of each    *)
(* block if it can be "read", is "lost", or is "outside" of the hive.      *)
(***************************************************************************)
VARIABLES
  hive,     \* the cells; never changes
  visitor,  \* [who, recurse, path]: "printkey", "visit_nodes", "get_key", the names to be found
  frames,   \* of get_subkeys, for a key, and _get_subkeys_recursive, for a list; the last runs
  rows,     \* what was printed, as [path, what]; what the visitor was called for
  outcome   \* "walking", "done", "raised", "overflow"; of get_key "found", "missing"

hiveVars == <<hive, visitor, frames, rows, outcome>>

Frame(c) == [cell |-> c, turn |-> 1]
Top == frames[Len(frames)]
OnTop(f) == Append(SubSeq(frames, 1, Len(frames) - 1), f)
IsKey(c) == hive.kind[c] = "key"

\* node_path: the keys on the way to the current one
NodePath == SelectSeq([i \in DOMAIN frames |-> frames[i].cell], IsKey)
Key == NodePath[Len(NodePath)]

Printed(what) == Append(rows, [path |-> NodePath, what |-> what])

Ends(how) == outcome' = how /\ UNCHANGED <<frames, rows>>

\* What a frame does next: it calls for c, if there is room on the stack
Calls(c, printed) ==
  /\ rows' = printed
  /\ IF Len(frames) = StackLimit THEN outcome' = "overflow" /\ UNCHANGED frames
     ELSE frames' = Append(OnTop([Top EXCEPT !.turn = @ + 1]), Frame(c)) /\ UNCHANGED outcome
GoesOn(printed) ==
  rows' = printed /\ frames' = OnTop([Top EXCEPT !.turn = @ + 1]) /\ UNCHANGED outcome

\* Units of a block: those behind the end of a value are not part of it
Units(b, n) == [u \in 1 .. n |-> <<b, u>>]
Zeros(n) == [u \in 1 .. n |-> <<0, 0>>]
Smaller(x, y) == IF x < y THEN x ELSE y

-----------------------------------------------------------------------------
(* Deviations a bug could introduce; only the mutants of PROJECT.json use them. *)

\* A key is not gone into if it is the one that is being listed
InPathShort(k) == k = Key

\* The names of keys are compared with the last name of the path
IsWantedLast(k) == hive.names[k] = visitor.path[Len(visitor.path)]

-----------------------------------------------------------------------------
(* A key comes out of get_subkeys *)

\* key_iterator, and _printkey_iterator around it: a subkey is printed, and gone into unless it
\* is on the path, or has no name
InPath(k) == \E i \in DOMAIN NodePath : NodePath[i] = k

PrintKey(k) ==
  IF hive.there[k] < 2 THEN Ends("raised")
  ELSE IF visitor.recurse /\ ~InPath(k) /\ hive.there[k] = 3 THEN Calls(k, Printed(k))
  ELSE GoesOn(Printed(k))

\* visit_nodes: it goes into all
VisitNode(k) == Calls(k, Printed(k))

\* get_key: the first of that name, which is then looked into
IsWanted(k) == hive.names[k] = visitor.path[Len(NodePath)]

GetKey(k) ==
  IF hive.there[k] < 3 THEN Ends("raised")
  ELSE IF ~IsWanted(k) THEN GoesOn(rows)
  ELSE /\ frames' = [i \in DOMAIN NodePath |-> Frame(NodePath[i])] \o <<Frame(k)>>
       /\ outcome' = IF Len(NodePath) = Len(visitor.path) THEN "found" ELSE outcome
       /\ UNCHANGED rows

Subkey(k) ==
  CASE visitor.who = "printkey" -> PrintKey(k)
    [] visitor.who = "visit_nodes" -> VisitNode(k)
    [] visitor.who = "get_key" -> GetKey(k)

\* _get_subkeys_recursive, for a cell: get_node has looked at what it is, if it is in a list
Descend(c, inList) ==
  CASE hive.there[c] > 0 /\ hive.kind[c] = "list" -> Calls(c, rows)
    [] hive.there[c] > 0 /\ IsKey(c) /\ inList -> Subkey(c)
    [] OTHER -> GoesOn(rows)

\* A frame is over, and the one below goes on
Returns(printed) ==
  /\ rows' = printed /\ frames' = SubSeq(frames, 1, Len(frames) - 1)
  /\ outcome' = IF Len(frames) = 1 THEN "done" ELSE outcome

\* A list is read as a whole
ListTurn ==
  LET refs == hive.refs[Top.cell]
  IN /\ ~IsKey(Top.cell)
     /\ IF hive.there[Top.cell] < 2 THEN Ends("raised")
        ELSE IF Top.turn > Len(refs) THEN Returns(rows)
        ELSE Descend(refs[Top.turn], TRUE)

\* get_values: those whose cells can be read, up to the end of what can be read of their list
Values(k) == {i \in 1 .. hive.listed[k] : hive.values[k][i].there}

\* One turn of decode_data: a block that is outside of the hive does not count
DecodeBlock(v, b, decoded) ==
  LET amount == Smaller(BlockLength, decoded.rest)
  IN IF v.blocks[b] = "outside" THEN decoded
     ELSE [data |-> IF v.blocks[b] = "read" THEN decoded.data \o Units(b, amount) ELSE decoded.data,
           rest |-> decoded.rest - amount]

\* decode_data: what cannot be read is padded, if it is not big
Decoded(v) ==
  IF v.big THEN FoldLeft(LAMBDA decoded, b : DecodeBlock(v, b, decoded), [data |-> <<>>, rest |-> v.length],
                         [b \in DOMAIN v.blocks |-> b]).data
  ELSE IF v.blocks[1] = "read" THEN Units(1, v.length) ELSE Zeros(v.length)

PrintValues ==
  LET order == SetToSortSeq(Values(Key), <)
  IN rows \o [n \in DOMAIN order |->
               [path |-> NodePath,
                what |-> [value |-> order[n], data |-> Decoded(hive.values[Key][order[n]])]]]

\* get_subkeys, and what the caller does after it
KeyTurn ==
  /\ IsKey(Top.cell)
  /\ IF Top.turn <= 2
       THEN IF hive.there[Top.cell] < 2 THEN Ends("raised")
            ELSE Descend(hive.refs[Top.cell][Top.turn], FALSE)
     ELSE CASE visitor.who = "printkey" -> Returns(PrintValues)
            [] visitor.who = "visit_nodes" -> Returns(rows)
            [] visitor.who = "get_key" -> Ends("missing")

HiveTreeNext ==
  /\ outcome = "walking"
  /\ ListTurn \/ KeyTurn
  /\ UNCHANGED <<hive, visitor>>

HiveTreeInit ==
  /\ IsKey(RootCell)
  /\ frames = <<Frame(RootCell)>> /\ outcome = "walking"
  /\ rows = IF visitor.who = "visit_nodes" THEN <<[path |-> <<>>, what |-> RootCell]>> ELSE <<>>

-----------------------------------------------------------------------------
(* Properties *)

\* What a key or list leads to through lists that can be read
Lists(k) ==
  LET refs(c) == {hive.refs[c][i] : i \in DOMAIN hive.refs[c]}
      lists(found) == {c \in found : hive.kind[c] = "list" /\ hive.there[c] > 0}
      reach[n \in 0 .. Cardinality(Cells)] ==
        IF n = 0 THEN lists(refs(k))
        ELSE reach[n - 1] \cup UNION {lists(refs(c)) : c \in {l \in reach[n - 1] : hive.there[l] > 1}}
  IN reach[Cardinality(Cells)]

Subkeys(k) ==
  IF hive.there[k] < 2 THEN {}
  ELSE {c \in UNION {Range(hive.refs[l]) : l \in {x \in Lists(k) : hive.there[x] > 1}} :
          IsKey(c) /\ hive.there[c] > 0}

\* All ways down from the root on which no key comes twice, through keys for which Enters holds
PathsDown(Enters(_)) ==
  LET longer(p) == {Append(p, k) : k \in {c \in Subkeys(p[Len(p)]) \ Range(p) : Enters(c)}}
      paths[n \in 1 .. Cardinality(Cells)] ==
        IF n = 1 THEN {<<RootCell>>} ELSE paths[n - 1] \cup UNION {longer(p) : p \in paths[n - 1]}
  IN paths[Cardinality(Cells)]

\* What the walk goes into
WalkPaths ==
  CASE visitor.who = "visit_nodes" -> PathsDown(LAMBDA c : TRUE)
    [] visitor.recurse -> PathsDown(LAMBDA c : hive.there[c] = 3)
    [] OTHER -> {<<RootCell>>}

WalkKeys == UNION {Range(p) : p \in WalkPaths}
WalkLists == UNION {Lists(k) : k \in WalkKeys}

\* Some of what the walk needs cannot be read
SomethingBroken ==
  \/ \E k \in WalkKeys : hive.there[k] < 2 \/ \E c \in Subkeys(k) : hive.there[c] < 2
  \/ \E l \in WalkLists : hive.there[l] < 2

\* Each cell is referred to from one place, as in a hive that is in order
WellFormed ==
  LET places == {<<c, i>> : c \in {x \in Cells : hive.there[x] > 1}, i \in 1 .. 3}
      used == {p \in places : p[2] \in DOMAIN hive.refs[p[1]] /\ hive.kind[hive.refs[p[1]][p[2]]] # "other"}
  IN \A p, q \in used : hive.refs[p[1]][p[2]] = hive.refs[q[1]][q[2]] => p = q

\* A walk that comes to its end has printed each key that the lists lead to, under each way
\* there, and the values of each key it has gone into, whatever loops there are among keys.
\* If each cell is referred to once, everything is printed once, and keys before values.
\* It breaks off only because of a cell that cannot be read, and recurses for ever only in a
\* loop of lists or, visit_nodes, of keys.
WalkComplete ==
  visitor.who # "get_key" =>
    LET printed == {<<rows[i].path, rows[i].what>> : i \in DOMAIN rows}
        keys == {<<p, k>> : p \in WalkPaths, k \in Cells}
    IN /\ outcome = "done" =>
            /\ printed \cap keys = {x \in keys : x[2] \in Subkeys(x[1][Len(x[1])])}
            /\ visitor.who = "printkey" =>
                 \A p \in WalkPaths : \A i \in Values(p[Len(p)]) :
                   \E x \in printed : x[1] = p /\ x[2] \notin Cells /\ x[2].value = i
            /\ WellFormed =>
                 \A i, j \in DOMAIN rows : i < j =>
                   rows[i] # rows[j] /\
                   (rows[i].what \notin Cells /\ IsPrefix(rows[i].path, rows[j].path) =>
                      rows[j].path = rows[i].path /\ rows[j].what \notin Cells)
       /\ outcome = "raised" => SomethingBroken
       /\ outcome = "overflow" =>
            \/ \E l \in WalkLists : l \in Lists(l)
            \/ visitor.who = "visit_nodes" /\ \E p \in WalkPaths : Subkeys(p[Len(p)]) \cap Range(p) # {}

\* The data of a value that is printed is its own, in order: all of it if all can be read.
\* What cannot be read of big data is left out, and a block outside of the hive is made up for
\* by units behind the end.
ValuesRight ==
  \A i \in DOMAIN rows : rows[i].what \notin Cells =>
    LET k == rows[i].path[Len(rows[i].path)]
        v == hive.values[k][rows[i].what.value]
        data == rows[i].what.data
        own(b) == IF b < Len(v.blocks) THEN BlockLength ELSE v.length - BlockLength * (b - 1)
        whole(b) == SelectSeq(data, LAMBDA u : u[1] = b) = Units(b, own(b))
    IN IF v.big
         THEN /\ \A b \in DOMAIN v.blocks :
                   v.blocks[b] = "read" => whole(b) \/ \E c \in 1 .. b - 1 : v.blocks[c] = "outside"
              /\ \A b \in DOMAIN v.blocks : v.blocks[b] # "read" => \A u \in DOMAIN data : data[u][1] # b
              /\ \A u \in 1 .. Len(data) - 1 : data[u][1] <= data[u + 1][1]
         ELSE Len(data) = v.length

\* The keys on the way to the one that was looked for have the names of the path, and each is a
\* subkey of the one before.  It is missing only if the last of them has no such subkey.
\* Looking for it fails only because of a cell that cannot be read, or a loop of lists.
KeyFound ==
  visitor.who = "get_key" =>
    LET broken(k) ==
          \/ hive.there[k] < 2
          \/ \E l \in Lists(k) : hive.there[l] < 2
          \/ \E c \in Subkeys(k) : hive.there[c] < 3
    IN /\ \A i \in 1 .. Len(NodePath) - 1 :
            /\ hive.names[NodePath[i + 1]] = visitor.path[i]
            /\ NodePath[i + 1] \in Subkeys(NodePath[i])
       /\ outcome = "found" => Len(NodePath) = Len(visitor.path) + 1
       /\ outcome = "missing" => \A k \in Subkeys(Key) : hive.names[k] # visitor.path[Len(NodePath)]
       /\ outcome = "raised" => broken(Key)
       /\ outcome = "overflow" => \E l \in Lists(Key) : l \in Lists(l)

\* What is printed of a hive is what there is to be read of it, each in its place; what is
\* looked for is found where it is.
HiveWalked == WalkComplete /\ ValuesRight /\ KeyFound
=============================================================================
