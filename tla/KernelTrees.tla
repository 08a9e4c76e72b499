---------------------------- MODULE KernelTrees ----------------------------
(***************************************************************************)
(* The walks over trees of kernel structures, in                           *)
(* volatility3/framework/symbols/: the VAD tree of a Windows process, maple *)
(* trees, red-black trees and ID storages of Linux; and the handle tables  *)
(* of plugins/windows/handles.py.                                          *)
(*                                                                         *)
(* All are generators that call themselves.  The calls that are still to   *)
(* be made are the stack: the first is made next, and puts what it calls   *)
(* itself in front.                                                        *)
(***************************************************************************)
EXTENDS KernelLists

CONSTANT MaxDepth   \* the depth a VAD tree may have; the depth of Python's stack

(***************************************************************************)
(* Anchor is the root.  memory.kids[n] are the children or slots of n, in    *)
(* order; memory.marked the nodes with a VAD tag, the leaf nodes of a maple *)
(* tree, the entries that are valid; memory.parent the parent a maple node *)
(* names; memory.height the levels below the root that its header tells.   *)
(***************************************************************************)
VARIABLE stack      \* of calls [node, parent, depth]: depth counts up or down

treeVars == <<listVars, stack>>

TreeWalkers == {"vad", "maple", "rb", "idr", "handles"}

Call(n, p, d) == [node |-> n, parent |-> p, depth |-> d]
Call1 == stack[1]

-----------------------------------------------------------------------------
(* Deviations a bug could introduce; only the mutants of PROJECT.json use them. *)

\* A slot that is empty ends the node
KidsUpToNull(n) ==
  IF Readable(n) THEN SelectSeq(memory.kids[n], LAMBDA k : k # Null /\ memory.kids[n][1] # Null) ELSE <<>>

\* The table is left out of the value
HandleValueInTable(i, table) == <<0, i>>

-----------------------------------------------------------------------------
(* What a call comes to *)

\* Where in s there is what is in T
Places(s, T) ==
  LET upTo[i \in 0 .. Len(s)] ==
        IF i = 0 THEN <<>> ELSE IF s[i] \in T THEN Append(upTo[i - 1], i) ELSE upTo[i - 1]
  IN upTo[Len(s)]

Taken(s, T) == [k \in DOMAIN Places(s, T) |-> s[Places(s, T)[k]]]

\* What a node leads to, as far as it can be read
Kids(n) == IF Readable(n) THEN Taken(memory.kids[n], Elements \ {Null}) ELSE <<>>

\* It yields what, and calls itself for each of nodes, with depth d
Calls(what, nodes, d) ==
  /\ yielded' = yielded \o what
  /\ stack' = [i \in 1 .. Len(nodes) |-> Call(nodes[i], Call1.node, d)] \o Tail(stack)
  /\ UNCHANGED status

Returns == Calls(<<>>, <<>>, 0)
Raises == status' = "raised" /\ UNCHANGED <<yielded, stack>>

Visits(n) == seen' = seen \cup {n}

-----------------------------------------------------------------------------
(* _MMVAD_SHORT.traverse: the root need not have a tag *)

VadCall ==
  LET n == Call1.node
  IN /\ walker = "vad"
     /\ IF Call1.depth > MaxDepth THEN Raises /\ UNCHANGED seen
        ELSE IF n \in seen THEN Returns /\ UNCHANGED seen
        ELSE /\ Visits(n)
             /\ IF n \in memory.marked THEN Calls(<<n>>, Kids(n), Call1.depth + 1)
                ELSE IF Call1.depth = 0 THEN Calls(<<>>, Kids(n), 1)
                ELSE Returns

\* maple_tree._parse_maple_tree_node: a node is remembered before it is looked at
MapleCall ==
  LET n == Call1.node
  IN /\ walker = "maple"
     /\ IF n \in seen THEN Returns /\ UNCHANGED seen
        ELSE /\ Visits(n)
             /\ IF ~Readable(n) THEN Raises
                ELSE IF memory.parent[n] # Call1.parent THEN Returns
                ELSE IF n \in memory.marked THEN Calls(Kids(n), <<>>, 0)
                ELSE Calls(<<>>, Kids(n), 0)

\* rb_root._walk_nodes: nothing is remembered
RbNode == Calls(<<Call1.node>>, Kids(Call1.node), Call1.depth + 1)

RbCall ==
  /\ walker = "rb" /\ UNCHANGED seen
  /\ IF Call1.depth > MaxDepth THEN Raises
     ELSE IF ~Readable(Call1.node) THEN Returns
     ELSE RbNode

\* IDStorage._iter_node, called with the height of the node; the entries are on level 0
IdrCall ==
  LET n == Call1.node
  IN /\ walker = "idr" /\ UNCHANGED seen
     /\ IF Call1.depth > 0 THEN Calls(<<>>, Kids(n), Call1.depth - 1)
        ELSE IF n \in memory.marked THEN Calls(<<n>>, <<>>, 0)
        ELSE Returns

-----------------------------------------------------------------------------
(* Handles._make_handle_array: at is the number of the table that a handle    *)
(* value starts from, in a table of tables.  It is passed on to the calls,    *)
(* and counted in the caller only.                                            *)

HandleValue(i, table) == <<table, i>>

HandlesCall ==
  LET n == Call1.node
      level == Call1.depth
      table == Call1.parent
  IN /\ walker = "handles" /\ UNCHANGED <<seen, status>>
     /\ IF ~Readable(n) THEN UNCHANGED yielded /\ stack' = Tail(stack)
        ELSE IF level > 0
          THEN /\ UNCHANGED yielded
               /\ stack' = [i \in DOMAIN memory.kids[n] |-> Call(memory.kids[n][i], table + i - 1, level - 1)]
                             \o Tail(stack)
        ELSE /\ stack' = Tail(stack)
             /\ LET items == Places(memory.kids[n], memory.marked)
                IN yielded' = yielded \o [k \in DOMAIN items |-> HandleValue(items[k], table)]

-----------------------------------------------------------------------------

TreeStarts ==
  /\ walker \in TreeWalkers /\ status = "start" /\ status' = "walking"
  /\ stack' = (IF walker = "idr" /\ ~Readable(Anchor) THEN <<>>
               ELSE <<Call(Anchor, IF walker = "handles" THEN 0 ELSE Null,
                           IF walker \in {"idr", "handles"} THEN memory.height ELSE 0)>>)
  /\ UNCHANGED <<seen, yielded>>

TreeReturns == status = "walking" /\ stack = <<>> /\ status' = "done" /\ UNCHANGED <<seen, yielded, stack>>

TreeCall ==
  /\ status = "walking" /\ stack # <<>>
  /\ VadCall \/ MapleCall \/ RbCall \/ IdrCall \/ HandlesCall

TreeStep ==
  /\ walker \in TreeWalkers
  /\ TreeStarts \/ TreeCall \/ TreeReturns
  /\ UNCHANGED <<walker, memory, at, place, turn, turned>>

TreeImage(m) ==
  /\ m.readable \subseteq Elements \ {Null} /\ m.height \in Nat
  /\ \A n \in m.readable : m.kids[n] \in Seq(Elements)

Init == ListInit /\ (walker \in TreeWalkers => TreeImage(memory)) /\ stack = <<>>

Next == (ListStep /\ UNCHANGED stack) \/ TreeStep

Spec == Init /\ [][Next]_treeVars

-----------------------------------------------------------------------------
(* Properties *)

KidsOf(n) == IF Readable(n) THEN {memory.kids[n][i] : i \in DOMAIN memory.kids[n]} \ {Null} ELSE {}
Yielded == {yielded[i] : i \in DOMAIN yielded}

\* Nodes are followed from n to m: what the walk must not miss.  A maple node counts if its
\* own pointer to the parent confirms the link and no other node has it in a slot: a stale
\* slot that comes first makes the walk pass the node over.
Follows(n, m) ==
  /\ m \in KidsOf(n)
  /\ CASE walker = "vad" -> m \in memory.marked
       [] walker = "rb" -> Readable(m)
       [] walker = "maple" ->
            /\ n \notin memory.marked /\ Readable(m) /\ memory.parent[m] = n
            /\ \A q \in memory.readable \ (memory.marked \cup {n}) : m \notin KidsOf(q)

Closed(S) == \A n \in S : \A m \in Elements : Follows(n, m) => m \in S
Reached == {n \in Elements : \A S \in SUBSET Elements : Anchor \in S /\ Closed(S) => n \in S}

\* The nodes an ID storage has h levels below its root
Level(h) ==
  {n \in Elements : \E path \in [0 .. h -> Elements] :
     path[0] = Anchor /\ path[h] = n /\ \A i \in 1 .. h : path[i] \in KidsOf(path[i - 1])}

\* A walk that comes to its end has found everything that hangs together: broken links, loops
\* and nodes without a tag cost only what lies behind them, a root that names another maple
\* tree as its parent costs all of it.  A VAD comes only once.
TreesWhole ==
  status = "done" =>
    /\ walker = "vad" =>
         /\ Reached \cap memory.marked \subseteq Yielded
         /\ \A i, j \in DOMAIN yielded : yielded[i] = yielded[j] => i = j
    /\ walker = "rb" => Reached \cap memory.readable = Yielded
    /\ walker = "maple" /\ memory.parent[Anchor] = Null =>
         \A n \in Reached \cap memory.marked : KidsOf(n) \subseteq Yielded
    /\ walker = "idr" => Yielded = (IF Readable(Anchor) THEN Level(memory.height) \cap memory.marked ELSE {})

\* A handle table of one or two levels: every valid entry is found and has a value of its
\* own, made of the number of its table and its index.  (With three levels values repeat.)
HandlesNumbered ==
  walker = "handles" /\ memory.height <= 1 =>
    /\ \A i, j \in DOMAIN yielded : yielded[i] = yielded[j] => i = j
    /\ status = "done" /\ memory.height = 1 /\ Readable(Anchor) =>
         \A i \in DOMAIN memory.kids[Anchor] :
           LET table == memory.kids[Anchor][i]
           IN Readable(table) => \A j \in DOMAIN memory.kids[table] :
                (memory.kids[table][j] \in memory.marked) <=> (<<i - 1, j>> \in Yielded)

\* Trees and tables of handles are read as they are in the image: no node that can be reached
\* is missing, and each handle has the number the process knows it by.
TreesRead == TreesWhole /\ HandlesNumbered
=============================================================================
