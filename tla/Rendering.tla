----------------------------- MODULE Rendering -----------------------------
(***************************************************************************)
(* The renderers of volatility3/cli/text_renderer.py (and the one of Arrow *)
(* tables in plugins/renderers/parquet_renderer.py) on a TreeGrid: the     *)
(* function they run on each row, the filter and the hidden columns of     *)
(* cli/text_filter.py, and the tree they make of what they are shown.      *)
(*                                                                         *)
(* A cell is rendered to a value of its own; a filter looks for Pattern.   *)
(***************************************************************************)
EXTENDS TreeGrid

CONSTANTS
  Columns,   \* number of columns
  Pattern,   \* what a cell holds that the filter looks for
  Renderings \* options a user may give: [renderer, column, hidden], see below

AnyColumn == 0

VARIABLE out   \* the rendering: options, rows printed, parent of each of them, ...

renderVars == <<treeVars, out>>

\* stack, last and depth are the parent_stack, prev_id and prev_depth of the
\* Mermaid renderer; index is the acc_map of the others: path -> row.
\* before: the rows that the rendering is not shown, as populate() has taken them
Blank(options) ==
  [options |-> options, before |-> IF populated THEN 0 ELSE Len(nodes),
   printed |-> <<>>, under |-> <<>>, index |-> [p \in {} |-> NoNode],
   parents |-> <<>>, last |-> NoNode, depth |-> 0]

NotRendered == [Blank([renderer |-> "none", column |-> AnyColumn, hidden |-> {}]) EXCEPT !.before = 0]

-----------------------------------------------------------------------------
(* Deviations a bug could introduce; only the mutants of PROJECT.json use them. *)

RenderPopulates(options) ==
  /\ stack = <<>> /\ calls < MaxCalls
  /\ stack' = IF populated THEN <<>> ELSE <<PopulateFrame("render", TRUE)>>
  /\ raised' = "no"
  /\ calls' = calls + 1
  /\ out' = Blank(options)
  /\ UNCHANGED <<gridVars, histories>>

-----------------------------------------------------------------------------

\* if not grid.populated: grid.populate(visitor, ...) else: grid.visit(None, visitor, ...)
Render(options) ==
  /\ stack = <<>> /\ calls < MaxCalls
  /\ stack' = <<IF populated THEN VisitFrame("render", NoNode) ELSE PopulateFrame("render", TRUE)>>
  /\ raised' = "no"
  /\ calls' = calls + 1
  /\ out' = Blank(options)
  /\ UNCHANGED <<gridVars, histories>>

Rendered == InFunction /\ Running.function = "render"
Renderer == out.options.renderer
Row == nodes[Running.node]

(***************************************************************************)
(* The row as the filter gets it.  The column was looked up among all      *)
(* columns of the grid; only "pretty" gives it all of them.                *)
(***************************************************************************)
Line ==
  LET shown == IF Renderer = "pretty" THEN 1..Columns ELSE 1..Columns \ out.options.hidden
      cells == SetToSortSeq(shown, <)
  IN [i \in DOMAIN cells |-> Row.row.cells[cells[i]]]

OutOfLine == out.options.column > Len(Line)

Found ==
  IF out.options.column = AnyColumn THEN \E i \in DOMAIN Line : Line[i] = Pattern
  ELSE Line[out.options.column] = Pattern

\* The Mermaid renderer has no filter
FilteredOut == Renderer # "mermaid" /\ ~Found

Skip ==
  /\ Rendered
  /\ Renderer # "mermaid" => ~OutOfLine
  /\ FilteredOut
  /\ Proceed
  /\ UNCHANGED out

\* row[self.column_num], acc_map[node.parent.path]: IndexError and KeyError
RenderRaises ==
  /\ Rendered
  /\ Renderer # "mermaid"
  /\ \/ OutOfLine
     \/ /\ ~OutOfLine /\ ~FilteredOut
        /\ Renderer = "arrow" /\ Row.parent # NoNode /\ Path(Row.parent) \notin DOMAIN out.index
  /\ Raise
  /\ UNCHANGED out

Printed(under, index, parents) ==
  /\ out' = [out EXCEPT !.printed = Append(@, Running.node), !.under = Append(@, under),
       !.index = index, !.parents = parents, !.last = Running.node, !.depth = Len(Row.path)]
  /\ Proceed

\* Each row as it comes, with its depth: "csv" does the same
PrintFlat ==
  /\ Rendered
  /\ Renderer = "quick" /\ ~OutOfLine /\ ~FilteredOut
  /\ Printed(Row.parent, out.index, <<>>)

\* Rows are printed at the end, when the widths of all columns are known
PrintAligned ==
  /\ Rendered
  /\ Renderer = "pretty" /\ ~OutOfLine /\ ~FilteredOut
  /\ Printed(Row.parent, out.index, <<>>)

\* Under the dictionary of its parent; at the top if that has been filtered out
PrintNested ==
  /\ Rendered
  /\ Renderer \in {"json", "arrow"} /\ ~OutOfLine /\ ~FilteredOut
  /\ LET known == Row.parent # NoNode /\ Path(Row.parent) \in DOMAIN out.index
         index == [p \in DOMAIN out.index \cup {Row.path} |-> IF p = Row.path THEN Running.node ELSE out.index[p]]
     IN /\ Renderer = "arrow" => known \/ Row.parent = NoNode
        /\ Printed(IF known THEN out.index[Path(Row.parent)] ELSE NoNode, index, <<>>)

\* How many parents to leave
LevelsUp(depth) == IF out.last = NoNode \/ depth > out.depth THEN 0 ELSE out.depth - depth

\* The parent is found by comparing depths alone
PrintEdge ==
  /\ Rendered
  /\ Renderer = "mermaid"
  /\ LET depth == Len(Row.path)
         down == IF out.last = NoNode \/ depth < out.depth THEN 0 ELSE depth - out.depth
         up == LevelsUp(depth)
         kept == IF up > Len(out.parents) THEN 0 ELSE Len(out.parents) - up
         parents == SubSeq(out.parents, 1, kept) \o [i \in 1..down |-> out.last]
     IN Printed(IF parents = <<>> THEN NoNode ELSE Last(parents), out.index, parents)

RenderInit == TreeInit /\ out = NotRendered

RenderStep ==
  \/ TreeStep /\ out' = IF calls' = calls THEN out ELSE NotRendered
  \/ \E options \in Renderings : Render(options)
  \/ Skip
  \/ RenderRaises
  \/ PrintFlat
  \/ PrintAligned
  \/ PrintNested
  \/ PrintEdge

-----------------------------------------------------------------------------
(* Properties *)

\* The last call was a rendering and it has come to its end
Done == stack = <<>> /\ raised = "no" /\ Renderer # "none"

\* A filter looks at the column of the user's choice, if no hidden column comes
\* before it or the renderer is "pretty"; one of any column at those shown.
InPlace == Renderer = "pretty" \/ \A hidden \in out.options.hidden : hidden > out.options.column

Looked == IF Renderer = "pretty" THEN 1..Columns ELSE 1..Columns \ out.options.hidden

Wanted(n) ==
  \/ Renderer = "mermaid"
  \/ out.options.column # AnyColumn /\ nodes[n].row.cells[out.options.column] = Pattern
  \/ out.options.column = AnyColumn /\ \E c \in Looked : nodes[n].row.cells[c] = Pattern

\* What a rendering that ends well has printed: each wanted row of the tree once, in
\* depth-first order, whether it populated the tree, visited it, or took up where an
\* exception had ended another rendering: then it has only the rows from there on,
\* and those before are not shown again.  The tree that is printed is the one of the
\* grid: the Mermaid renderer, which goes by depths, and the JSON renderer, which goes
\* by paths, find each row's parent; what a filter has left without one is at the top.
WantedRowsInOrder ==
  Done =>
    /\ InPlace \/ Renderer = "mermaid" =>
         /\ {out.printed[i] : i \in DOMAIN out.printed} = {n \in TreeNodes : n > out.before /\ Wanted(n)}
         /\ \A i, j \in DOMAIN out.printed : i < j =>
              PathBefore(nodes[out.printed[i]].path, nodes[out.printed[j]].path)
    /\ \A i \in DOMAIN out.printed :
         out.under[i] = LET parent == nodes[out.printed[i]].parent
                        IN IF Renderer = "json" /\ \A j \in 1 .. i - 1 : out.printed[j] # parent THEN NoNode
                           ELSE parent
=============================================================================
