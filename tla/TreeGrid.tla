------------------------------ MODULE TreeGrid ------------------------------
(***************************************************************************)
(* TreeGrid of volatility3/framework/renderers/__init__.py: the rows a     *)
(* plugin yields, and the tree they become.                                *)
(*                                                                         *)
(* Rows are taken from the generator of the plugin while the tree is       *)
(* populated, and a function of the caller is run on each one.  That       *)
(* function may raise, or use the tree itself: it then runs inside         *)
(* populate() or visit(), which go on when it returns.  The calls in       *)
(* progress are the frames of a stack, the last one running.               *)
(***************************************************************************)
EXTENDS Integers, Sequences, SequencesExt, FiniteSets

CONSTANTS
  NewRow,      \* the row that is inserted into a populated tree
  MaxCalls,    \* bound: calls made on the tree from outside
  MaxInserts,  \* bound: how many of them insert a row
  MaxNesting   \* bound: calls in progress at a time

ASSUME BoundsAreNumbers == {MaxCalls, MaxInserts, MaxNesting} \subseteq Nat

VARIABLES
  nodes,      \* every TreeNode: [path, parent, row], a path being a sequence of positions
  kids,       \* kids[n + 1]: the list of children of node n; kids[1] is _children
  generator,  \* what the generator has still to yield, and whether it raises then
  populated,  \* _populated
  rowCount,   \* _row_count
  stack,      \* calls in progress
  raised,     \* an exception is on its way: from "here", the frame that runs, or from
              \* a "call" it has made; with no frame left it has reached the caller
  calls,
  inserted,   \* history: nodes that were inserted, not yielded
  failures    \* history: what has gone wrong so far

gridVars == <<nodes, kids, generator, populated, rowCount>>
histories == <<inserted, failures>>
treeVars == <<gridVars, stack, raised, calls, histories>>

NoNode == 0
Kids(n) == kids[n + 1]
Path(n) == IF n = NoNode THEN <<>> ELSE nodes[n].path
TreeNodes == DOMAIN nodes
Generators(Rows) == [rows : Rows, fails : BOOLEAN]

\* Calls in progress; node is the row the function runs on, if it does
PopulateFrame(function, strict) ==
  [call |-> "populate", function |-> function, node |-> NoNode, strict |-> strict, prev_nodes |-> <<>>]

\* lists: the lists of children visit() is in and the place in each, none before it starts
VisitFrame(function, from) ==
  [call |-> "visit", function |-> function, node |-> NoNode, from |-> from, lists |-> <<>>, entering |-> FALSE]

Running == Last(stack)
Runs(call) == stack # <<>> /\ raised = "no" /\ Running.call = call /\ Running.node = NoNode
InFunction == stack # <<>> /\ raised = "no" /\ Running.node # NoNode
Becomes(frame) == stack' = Append(Front(stack), frame)
Returned == stack' = Front(stack)

TreeInit ==
  /\ nodes = <<>>
  /\ kids = <<(<<>>)>>
  /\ populated = FALSE
  /\ rowCount = 0
  /\ stack = <<>>
  /\ raised = "no"
  /\ inserted = {}
  /\ failures = {}

\* A call from outside, or by the function that is running
Callable ==
  \/ stack = <<>> /\ calls < MaxCalls /\ calls' = calls + 1 /\ raised' = "no"
  \/ /\ InFunction /\ Running.function = "user" /\ Len(stack) < MaxNesting
     /\ UNCHANGED <<calls, raised>>

-----------------------------------------------------------------------------
(* Deviations a bug could introduce; only the mutants of PROJECT.json use them. *)

PathChangedBehind(path, changed) ==
  [path EXCEPT ![Len(changed)] = IF @ > Last(changed) THEN @ + 1 ELSE @]

PrevNodesKept(prev_nodes, depth, n) == Append(prev_nodes, n)

PopulateMarksFirst(function, strict) ==
  /\ Callable
  /\ ~populated
  /\ populated' = TRUE
  /\ stack' = Append(stack, PopulateFrame(function, strict))
  /\ UNCHANGED <<nodes, kids, generator, rowCount, histories>>

-----------------------------------------------------------------------------
(* _find_children, _insert *)

\* The list found by following a path: the node that owns it
ListAt(path) ==
  LET owner[i \in 0..Len(path)] ==
        IF i = 0 THEN NoNode
        ELSE LET list == Kids(owner[i - 1])
             IN IF owner[i - 1] >= 0 /\ path[i] < Len(list) THEN list[path[i] + 1] ELSE -1
  IN owner[Len(path)]

\* _insert at the end
Appended(parent, row) ==
  LET n == Len(nodes) + 1
      owner == ListAt(Path(parent))
  IN /\ nodes' = Append(nodes, [path |-> Append(Path(parent), Len(Kids(owner))), parent |-> parent, row |-> row])
     /\ kids' = Append([kids EXCEPT ![owner + 1] = Append(@, n)], <<>>)

\* Those visit() reaches from the nodes of set S
Below(S) ==
  LET below[n \in TreeNodes] == n \in S \/ (nodes[n].parent # NoNode /\ below[nodes[n].parent])
  IN {n \in TreeNodes : below[n]}

\* TreeNode.path_changed
PathChanged(path, changed) ==
  [path EXCEPT ![Len(changed)] = IF @ >= Last(changed) THEN @ + 1 ELSE @]

InsertedAt(parent, position) ==
  LET n == Len(nodes) + 1
      owner == ListAt(Path(parent))
      newpath == Append(Path(parent), position)
      moved == Below({Kids(owner)[i] : i \in position + 1 .. Len(Kids(owner))})
      old == [i \in TreeNodes |-> IF i \in moved THEN [nodes[i] EXCEPT !.path = PathChanged(@, newpath)] ELSE nodes[i]]
  IN /\ nodes' = Append(old, [path |-> newpath, parent |-> parent, row |-> NewRow])
     /\ kids' = Append([kids EXCEPT ![owner + 1] = InsertAt(@, position + 1, n)], <<>>)
     /\ inserted' = inserted \cup {n}

\* A populated tree "may now be manipulated separately"
Insert(parent, position) ==
  /\ stack = <<>>
  /\ populated
  /\ calls < MaxCalls /\ Cardinality(inserted) < MaxInserts
  /\ position <= Len(Kids(parent))
  /\ InsertedAt(parent, position)
  /\ calls' = calls + 1
  /\ raised' = "no"
  /\ UNCHANGED <<generator, populated, rowCount, stack, failures>>

-----------------------------------------------------------------------------
(* populate *)

\* On a populated tree it returns at once
Populate(function, strict) ==
  /\ Callable
  /\ ~populated
  /\ stack' = Append(stack, PopulateFrame(function, strict))
  /\ UNCHANGED <<gridVars, histories>>

\* prev_nodes[0:parent_index] + [treenode]
PrevNodes(prev_nodes, depth, n) == Append(SubSeq(prev_nodes, 1, depth), n)

\* for level, item in self._generator
TakeRow ==
  /\ Runs("populate")
  /\ generator.rows # <<>>
  /\ LET row == Head(generator.rows)
         depth == IF row.level < Len(Running.prev_nodes) THEN row.level ELSE Len(Running.prev_nodes)
         parent == IF depth > 0 THEN Running.prev_nodes[depth] ELSE NoNode
         n == Len(nodes) + 1
     IN /\ Appended(parent, row)
        /\ Becomes([Running EXCEPT !.node = n, !.prev_nodes = PrevNodes(@, depth, n)])
  /\ generator' = [generator EXCEPT !.rows = Tail(@)]
  /\ UNCHANGED <<populated, rowCount, raised, calls, histories>>

GeneratorEnds ==
  /\ Runs("populate")
  /\ generator.rows = <<>> /\ ~generator.fails
  /\ populated' = TRUE
  /\ Returned
  /\ UNCHANGED <<nodes, kids, generator, rowCount, raised, calls, histories>>

\* A generator that has raised is exhausted
GeneratorRaises ==
  /\ Runs("populate")
  /\ generator.rows = <<>> /\ generator.fails
  /\ generator' = [generator EXCEPT !.fails = FALSE]
  /\ raised' = "here"
  /\ failures' = failures \cup {"generator"}
  /\ UNCHANGED <<nodes, kids, populated, stack, rowCount, calls, inserted>>

-----------------------------------------------------------------------------
(* visit, _visit *)

\* Populates the tree first, with a function that does nothing
Visit(function, node) ==
  /\ Callable
  /\ node \in TreeNodes \cup {NoNode}
  /\ stack' = stack \o <<VisitFrame(function, node)>>
                    \o (IF populated THEN <<>> ELSE <<PopulateFrame("none", TRUE)>>)
  /\ UNCHANGED <<gridVars, histories>>

In(list) == [of |-> list, next |-> 1]

\* The children are found before the function runs on the node itself
VisitStarts ==
  /\ Runs("visit")
  /\ Running.lists = <<>>
  /\ Becomes([Running EXCEPT !.node = Running.from, !.lists = <<In(ListAt(Path(Running.from)))>>])
  /\ UNCHANGED <<gridVars, raised, calls, histories>>

\* The next node of the innermost list, then its children
VisitNext ==
  /\ Runs("visit")
  /\ Running.lists # <<>>
  /\ LET lists == Running.lists
         here == Last(lists)
     IN IF here.next <= Len(Kids(here.of))
        THEN Becomes([Running EXCEPT
               !.node = Kids(here.of)[here.next], !.entering = TRUE,
               !.lists = Append(Front(lists), [here EXCEPT !.next = @ + 1])])
        ELSE IF Len(lists) > 1
             THEN Becomes([Running EXCEPT !.lists = Front(lists)])
             ELSE Returned
  /\ UNCHANGED <<gridVars, raised, calls, histories>>

-----------------------------------------------------------------------------
(* The function of the caller *)

\* What populate() and visit() do when it has returned
Proceed ==
  /\ IF Running.call = "populate"
     THEN /\ rowCount' = rowCount + 1
          /\ Becomes([Running EXCEPT !.node = NoNode])
     ELSE /\ Becomes([Running EXCEPT !.node = NoNode, !.entering = FALSE,
                        !.lists = IF Running.entering THEN Append(@, In(Running.node)) ELSE @])
          /\ UNCHANGED rowCount
  /\ UNCHANGED <<nodes, kids, generator, populated, raised, calls, histories>>

FunctionReturns ==
  /\ InFunction
  /\ Running.function \in {"user", "none"}
  /\ Proceed

\* except Exception as excp: a populate() without fail_on_errors returns it
Unwind ==
  /\ raised # "no" /\ stack # <<>>
  /\ Returned
  /\ LET gaveUp == Running.call = "populate" /\ ~Running.strict
     IN /\ populated' = (populated \/ gaveUp)
        /\ raised' = IF gaveUp THEN "no" ELSE "call"
        /\ failures' = failures \cup (IF gaveUp THEN {"gave up"} ELSE {})
                               \cup (IF gaveUp /\ Len(stack) > 1 THEN {"went on"} ELSE {})
                               \cup (IF Running.node # NoNode THEN {"function"} ELSE {})
  /\ UNCHANGED <<nodes, kids, generator, rowCount, calls, inserted>>

Raise ==
  /\ raised' = "here"
  /\ failures' = failures \cup {"function"}
  /\ UNCHANGED <<gridVars, stack, calls, inserted>>

FunctionRaises ==
  /\ InFunction
  /\ Running.function = "user"
  /\ Raise

\* A call it made has raised, and the function goes on
FunctionCatches ==
  /\ raised = "call"
  /\ stack # <<>> /\ Running.node # NoNode /\ Running.function = "user"
  /\ raised' = "no"
  /\ failures' = failures \cup {"went on"}
  /\ UNCHANGED <<gridVars, stack, calls, inserted>>

TreeStep ==
  \/ \E strict \in BOOLEAN : Populate("user", strict)
  \/ \E node \in TreeNodes \cup {NoNode} : Visit("user", node)
  \/ \E parent \in TreeNodes \cup {NoNode} : \E position \in 0..Len(Kids(parent)) : Insert(parent, position)
  \/ TakeRow
  \/ GeneratorEnds
  \/ GeneratorRaises
  \/ VisitStarts
  \/ VisitNext
  \/ FunctionReturns
  \/ FunctionRaises
  \/ FunctionCatches
  \/ Unwind

-----------------------------------------------------------------------------
(* Properties *)

\* Every node is where its path says, under its parent: what _find_children()
\* relies on whenever a node is used, and what path_changed() has to keep when
\* rows are inserted before others that have children of their own.
NodesAtTheirPaths ==
  /\ \A n \in TreeNodes \cup {NoNode} : \A i \in DOMAIN Kids(n) :
       LET kid == nodes[Kids(n)[i]]
       IN kid.parent = n /\ kid.path = Append(Path(n), i - 1)
  /\ \A n \in TreeNodes : ListAt(Path(n)) = n

\* p comes before q when the tree is traversed depth first
PathBefore(p, q) ==
  \/ Len(p) < Len(q) /\ SubSeq(q, 1, Len(p)) = p
  \/ \E k \in 1..Len(p) : k <= Len(q) /\ p[k] < q[k] /\ SubSeq(p, 1, k - 1) = SubSeq(q, 1, k - 1)

\* The tree has the rows in the order in which the plugin yielded them, whoever
\* populates it, from within which function, and however often it is resumed
\* after an exception; only a function that goes on after a call of its own has
\* failed makes populate() hang rows under nodes that are no longer the last.
YieldOrderKept ==
  "went on" \notin failures =>
    \A m, n \in TreeNodes \ inserted : m < n => PathBefore(nodes[m].path, nodes[n].path)

\* A tree that says it is populated has all rows of the plugin, unless populate()
\* returned an exception to its caller, and unless the generator raised: after that
\* the next populate() takes the exhausted generator for the end and says so too.
\* Each row is counted once, except those whose function raised.
PopulatedIsComplete ==
  /\ populated => (generator.rows = <<>> /\ ~generator.fails) \/ "gave up" \in failures
  /\ rowCount <= Len(nodes) - Cardinality(inserted)
  /\ stack = <<>> /\ "function" \notin failures => rowCount = Len(nodes) - Cardinality(inserted)
=============================================================================
