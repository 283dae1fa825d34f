-------------------------- MODULE CatalogRenderer --------------------------
(***************************************************************************)
(* Rendering the part of a catalog that is in a virtual window: the nodes  *)
(* with their positions and the edges between them                         *)
(* (src/packages/dashql-app/src/view/catalog/catalog_renderer.tsx).        *)
(*                                                                         *)
(* A window is a record of the scroll window and of the virtual window     *)
(* around it.  Positions that are centered are halves of halves of halves: *)
(* heights and gaps that are multiples of 8 keep them integers.            *)
(***************************************************************************)
EXTENDS CatalogViewModel, GraphEdges

-----------------------------------------------------------------------------
(***************************************************************************)
(* Statistics of the nodes in the scroll window.                           *)
(***************************************************************************)
VirtualRenderingWindowStats(w) == [min |-> w.scrollEnd, max |-> w.scrollBegin]

addNode(stats, w, pos, height) ==
  IF pos + height > w.scrollBegin /\ pos < w.scrollEnd
  THEN [min |-> Min({stats.min, pos}), max |-> Max({stats.max, pos + height})]
  ELSE stats

centerInScrollWindow(stats) ==
  IF stats.min <= stats.max THEN stats.min + (stats.max - stats.min) \div 2 ELSE Null

-----------------------------------------------------------------------------
Node(x, top) == [entry |-> x, top |-> top, hides |-> 0]
OverflowNode(x, top, count) == [entry |-> x, top |-> top, hides |-> count]

EdgeKind(vm, from, to) ==
  LET completion(x) == vm.focus[x] # Null /\ vm.focus[x][1] = "COMPLETION_CANDIDATE"
  IN IF completion(from) /\ completion(to) THEN "completion"
     ELSE IF PINNED_BY_FOCUS(vm, from) /\ PINNED_BY_FOCUS(vm, to) THEN "focused"
     ELSE "default"

PositionX(l) ==
  MapThenSumSet(LAMBDA k : Settings[k].nodeWidth + Settings[k].columnGap, 1..(l - 1))
NodeCenter(x, top) ==
  <<PositionX(x[1]) + Settings[x[1]].nodeWidth \div 2, top + Settings[x[1]].nodeHeight \div 2>>
NodeSize(x) == <<Settings[x[1]].nodeWidth, Settings[x[1]].nodeHeight>>

EdgePath(x, top, y, toTop) ==
  LET from == NodeCenter(x, top)
      to == NodeCenter(y, toTop)
  IN buildEdgePath(selectHorizontalEdgeType(from, to), from, to, NodeSize(x), NodeSize(y))

\* Edges lead to the children that were rendered, hidden ones included when
\* their overflow node was
Edges(vm, x, top, children, nodes) ==
  {[from |-> x, to |-> n.entry, kind |-> EdgeKind(vm, x, n.entry),
    path |-> EdgePath(x, top, n.entry, n.top)] :
     n \in {m \in nodes : m.entry \in {<<x[1] + 1, e>> : e \in Range(children)}}}

\* The position of a node is centered above its children in the scroll window
Centered(l, center, top) ==
  IF center = Null THEN top ELSE center - Settings[l].nodeHeight \div 2

RECURSIVE renderEntriesAtLevel(_, _, _, _, _)

\* What is below an entry, which a subtree above the virtual window is not
\* visited for
RenderBelow(vm, w, x, top, children) ==
  IF top + vm.heights[x] <= w.virtualBegin
  THEN [y |-> top + vm.heights[x], center |-> top, nodes |-> {}, edges |-> {}]
  ELSE IF children = <<>> THEN [y |-> top, center |-> Null, nodes |-> {}, edges |-> {}]
  ELSE renderEntriesAtLevel(vm, w, x[1] + 1, children, top)

Rendered(acc, vm, w, x, pos, children) ==
  [acc EXCEPT !.nodes = @ \cup {Node(x, pos)},
              !.stats = addNode(@, w, pos, Settings[x[1]].nodeHeight),
              !.edges = @ \cup Edges(vm, x, pos, children, acc.nodes)]

\* An entry is left out behind the virtual window, which ends the pass, and
\* above it
RenderEntry(acc, vm, w, x, pos, end, children) ==
  IF pos >= w.virtualEnd THEN [acc EXCEPT !.behind = TRUE]
  ELSE IF end < w.virtualBegin THEN acc
  ELSE Rendered(acc, vm, w, x, pos, children)

RenderSubtree(acc, vm, w, x, top, children, below) ==
  LET end == Larger(below.y, top + Settings[x[1]].nodeHeight)
      visited == [acc EXCEPT !.y = end, !.first = FALSE,
                             !.nodes = @ \cup below.nodes, !.edges = @ \cup below.edges]
  IN RenderEntry(visited, vm, w, x, Centered(x[1], below.center, top), end, children)

\* One pass over siblings, which collects the hidden ones it comes to
RenderPass(vm, w, l, acc, siblings) ==
  FoldLeft(LAMBDA s, e :
             IF s.behind THEN s
             ELSE IF <<l, e>> \in vm.overflow THEN [s EXCEPT !.hidden = @ \cup {e}]
             ELSE LET top == s.y + (IF s.first THEN 0 ELSE Settings[l].rowGap)
                      children == Children(Catalogs[vm.version], <<l, e>>)
                  IN RenderSubtree(s, vm, w, <<l, e>>, top, children,
                                   RenderBelow(vm, w, <<l, e>>, top, children)),
           [acc EXCEPT !.behind = FALSE, !.hidden = {}], siblings)

RenderOverflow(acc, w, l) ==
  LET top == acc.y + Settings[l].rowGap
      below == [acc EXCEPT !.y = top + Settings[l].nodeHeight]
  IN IF top + Settings[l].nodeHeight > w.virtualBegin /\ top < w.virtualEnd
     THEN [below EXCEPT
             !.stats = addNode(@, w, top, Settings[l].nodeHeight),
             !.nodes = @ \cup {OverflowNode(<<l, Max(acc.hidden)>>, top, Cardinality(acc.hidden))}]
     ELSE below

Result(acc, w, l) ==
  LET all == IF acc.hidden = {} THEN acc ELSE RenderOverflow(acc, w, l)
  IN [y |-> all.y, center |-> centerInScrollWindow(all.stats), nodes |-> all.nodes, edges |-> all.edges]

\* The pinned siblings and the unpinned ones are rendered in a pass each,
\* that ends at the first node behind the virtual window.
renderEntriesAtLevel(vm, w, l, siblings, y) ==
  LET Part(pinned) == SelectSeq(siblings, LAMBDA e : PINNED_BY_ANYTHING(vm, <<l, e>>) = pinned)
      start == [y |-> y, first |-> TRUE, behind |-> FALSE, hidden |-> {}, nodes |-> {}, edges |-> {},
                stats |-> VirtualRenderingWindowStats(w)]
  IN Result(RenderPass(vm, w, l, RenderPass(vm, w, l, start, Part(TRUE)), Part(FALSE)), w, l)

Board(done) == [nodes |-> done.nodes, edges |-> done.edges]
renderCatalog(vm, w) == Board(renderEntriesAtLevel(vm, w, 1, Roots(Catalogs[vm.version]), 0))
=============================================================================
