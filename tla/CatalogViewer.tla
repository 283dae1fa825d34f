--------------------------- MODULE CatalogViewer ---------------------------
(***************************************************************************)
(* The catalog viewer of the app, with the catalog, the workbook and the   *)
(* browser around it                                                       *)
(* (src/packages/dashql-app/src/view/catalog/catalog_viewer.tsx).          *)
(*                                                                         *)
(* A commit is one step: React renders the viewer with the state that was  *)
(* set since the last commit, the browser lays it out, and the effects     *)
(* whose dependencies changed run in their order.  What they set is for    *)
(* the next commit.  The view model alone is changed in place.             *)
(*                                                                         *)
(* Every modification of the catalog deletes its snapshot, whoever holds   *)
(* it.  What is then read from a freed snapshot is either what was there   *)
(* or anything: a view model that read anything is broken, and nothing is  *)
(* said about it.                                                          *)
(***************************************************************************)
EXTENDS CatalogRenderer

CONSTANTS
  Scripts,        \* what analyzed scripts refer to
  Focuses,        \* the objects that the user focuses
  Sizes,          \* heights of the container
  Offsets,        \* positions that the user scrolls to
  Padding, PrerenderSize,
  MaxEvents       \* bound: events in the workbook, the browser and the catalog

ASSUME ViewerAssumption ==
  /\ Padding \in Nat \ {0} /\ PrerenderSize \in Nat
  \* the scroll window is not empty
  /\ \A size \in Sizes : size > Padding
  /\ Offsets \subseteq Nat /\ MaxEvents \in Nat

VARIABLES
  version,    \* the catalog of the connection
  snapshot,   \* its cached snapshot: the version it was created for or Null
  script,     \* the references of the analyzed script, or Null
  focus,      \* the focus of the workbook, or Null
  viewModel,  \* React state, as of the next commit
  window,
  size,
  scrollTopRaw,
  scrollTop,
  changed,    \* the states and props that were set since the last commit
  seen,       \* the snapshot that the effect has seen, 0 before the first commit
  throttle,   \* of useThrottledMemo: the latest value, and whether a timer runs
  dom,        \* the scroll position, the sizes, and whether a scroll event is due
  display,      \* what is displayed, or Null
  broken,     \* the view model was computed from freed memory
  missed,     \* history: the viewer was not told of the last modification
  followed,   \* history: the viewer scrolled to the first focused entry
  events

connection == <<version, snapshot>>
workbook == <<script, focus>>
scrolling == <<scrollTopRaw, scrollTop, throttle, dom>>
view == <<viewModel, window, seen, display, broken>>
vars == <<connection, workbook, view, size, scrolling, changed, missed, followed, events>>

Within(n, low, high) == Max({low, Min({n, high})})

\* The content of the container has a padding above and below
MaxScrollTop(height, containerSize) == Max({height + 2 * Padding - containerSize, 0})
ScrolledTo(d, top) ==
  LET clamped == Within(top, 0, MaxScrollTop(d.height, d.size))
  IN [d EXCEPT !.scrollTop = clamped, !.event = @ \/ clamped # d.scrollTop]

Init ==
  /\ version = 1 /\ snapshot = Null
  /\ script \in Scripts \cup {Null} /\ focus \in Focuses \cup {Null}
  /\ viewModel = Null /\ window = Null /\ size = Null
  /\ scrollTopRaw = Null /\ scrollTop = Null
  /\ changed = {"mounted"} /\ seen = 0
  /\ throttle = [latest |-> Null, timer |-> FALSE]
  /\ dom \in [scrollTop : {0}, height : {0}, size : Sizes, event : {FALSE}]
  /\ display = Null /\ broken = FALSE
  /\ missed = FALSE /\ followed = FALSE
  /\ events = 0

Event == events < MaxEvents /\ events' = events + 1

-----------------------------------------------------------------------------
(***************************************************************************)
(* The parts of a commit.                                                  *)
(***************************************************************************)
Depends(deps) == changed \cap ({"mounted"} \cup deps) # {}

\* The memo renders the view model as the effects of the last commit left it
Renders == viewModel # Null /\ window # Null /\ Depends({"pins", "window"})

PinsScript == viewModel # Null /\ script # Null /\ Depends({"viewModel", "processed"})
PinsFocus == viewModel # Null /\ focus # Null /\ Depends({"viewModel", "focus"})

\* The scroll position that shows an entry, half a container above it
ScrollTarget(offset, height) == Max({offset, height \div 2}) - height \div 2

\* The layout of what was rendered.  A board that shrinks is scrolled back.
LaidOut ==
  LET total == IF viewModel = Null \/ viewModel.totalHeight = 0
               THEN IF size = Null THEN 0 ELSE size
               ELSE viewModel.totalHeight
      board == [dom EXCEPT !.height = total]
  IN ScrolledTo(board, dom.scrollTop)

\* The first focused entry is scrolled to in the board as it was rendered:
\* the space for entries that were pinned just now is not there yet.
FocusScrolled(vm, board) ==
  LET offset == getOffsetOfFirstFocused(vm)
  IN IF offset[2] /\ size # Null THEN ScrolledTo(board, ScrollTarget(offset[1], size)) ELSE board

\* The position is not clamped by a board that is about to grow
Followed(vm, board) ==
  LET offset == getOffsetOfFirstFocused(vm)
  IN /\ offset[2] /\ size # Null
     /\ \/ vm.totalHeight <= board.height
        \/ ScrollTarget(offset[1], size) <= MaxScrollTop(board.height, board.size)

renderingWindow(vm) ==
  LET top == IF scrollTop = Null THEN 0 ELSE scrollTop
  IN [scrollBegin |-> top,
      scrollEnd |-> top + Max({size - Padding + Min({top, Padding}), 0}),
      virtualBegin |-> Max({top - PrerenderSize, 0}),
      virtualEnd |-> Min({top + size + PrerenderSize, vm.totalHeight})]

-----------------------------------------------------------------------------
(***************************************************************************)
(* A commit.  The catalog info view, which is rendered after the viewer    *)
(* unless a refresh hides it, creates a snapshot too; the viewer has read  *)
(* the cached one by then.  A value is throttled when the last one is not  *)
(* older than the interval.                                                *)
(***************************************************************************)
Commit ==
  /\ changed # {}
  /\ LET creates == snapshot # seen
         pinned == IF PinsScript THEN pinScriptRefs(viewModel, script) ELSE viewModel
         focused == IF PinsFocus THEN pinFocusedByUser(pinned, focus) ELSE pinned
         next == IF creates THEN NewCatalogViewModel(version) ELSE focused
         rendering == IF Renders THEN renderCatalog(viewModel, window) ELSE display
         board == IF PinsFocus THEN FocusScrolled(focused, LaidOut) ELSE LaidOut
         measured == size = Null
         framed == size # Null /\ viewModel # Null /\ Depends({"viewModel", "scrollTop", "size"})
     IN \E infoView, throttles, garbage \in BOOLEAN :
       LET latest == IF creates \/ infoView THEN version ELSE snapshot
           freed == \/ Renders /\ viewModel.version # snapshot
                    \/ (PinsScript \/ PinsFocus) /\ viewModel.version # latest
           executed == Depends({"scrollTopRaw"}) /\ ~throttles /\ scrollTop # scrollTopRaw
       IN /\ infoView => snapshot = Null
          /\ throttles => Depends({"scrollTopRaw"})
          /\ garbage => freed
          /\ display' = IF Renders /\ garbage THEN Null ELSE rendering
          /\ snapshot' = latest
          /\ seen' = snapshot
          /\ viewModel' = next
          /\ broken' = (~creates /\ (broken \/ garbage))
          /\ dom' = board
          /\ throttle' = IF Depends({"scrollTopRaw"})
                         THEN [latest |-> scrollTopRaw, timer |-> throttles]
                         ELSE throttle
          /\ scrollTop' = IF executed THEN scrollTopRaw ELSE scrollTop
          /\ size' = IF measured THEN dom.size ELSE size
          /\ window' = IF framed THEN renderingWindow(focused) ELSE window
          /\ changed' = (IF creates THEN {"viewModel"} ELSE {})
                        \cup (IF PinsScript \/ PinsFocus THEN {"pins"} ELSE {})
                        \cup (IF executed THEN {"scrollTop"} ELSE {})
                        \cup (IF measured THEN {"size"} ELSE {})
                        \cup (IF framed THEN {"window"} ELSE {})
          /\ missed' = (~creates /\ (missed \/ snapshot = Null))
          /\ followed' = (~creates /\ IF PinsFocus
                                      THEN Followed(focused, LaidOut)
                                      ELSE followed /\ ~PinsScript)
  /\ UNCHANGED <<version, script, focus, scrollTopRaw, events>>

-----------------------------------------------------------------------------
(***************************************************************************)
(* The catalog: each call that modifies it deletes the snapshot.  A failed *)
(* update of a pool modified the catalog without a dispatch.               *)
(***************************************************************************)
KeepsSnapshot(s) == s \* mutant: the modification keeps the snapshot
deleteSnapshot(s) == Null

ModifyCatalog ==
  /\ Event
  /\ version + 1 \in Versions
  /\ version' = version + 1
  /\ snapshot' = deleteSnapshot(snapshot)
  /\ \E dispatched \in BOOLEAN :
       /\ changed' = IF dispatched THEN changed \cup {"connection"} ELSE changed
       /\ missed' = (missed \/ (~dispatched /\ changed = {}))
  /\ UNCHANGED <<workbook, view, size, scrolling, followed>>

\* The info view is rendered every 5 seconds, and exports create a snapshot
createSnapshot ==
  /\ snapshot = Null
  /\ changed = {}
  /\ Event
  /\ snapshot' = version
  /\ UNCHANGED <<version, workbook, view, size, scrolling, changed, missed, followed>>

-----------------------------------------------------------------------------
(***************************************************************************)
(* The workbook.                                                           *)
(***************************************************************************)
AnalyzeScript ==
  /\ Event
  /\ script' \in Scripts \ {script}
  /\ changed' = changed \cup {"processed"}
  /\ UNCHANGED <<connection, focus, view, size, scrolling, missed, followed>>

ChangeFocus ==
  /\ Event
  /\ focus' \in (Focuses \cup {Null}) \ {focus}
  /\ changed' = changed \cup {"focus"}
  /\ UNCHANGED <<connection, script, view, size, scrolling, missed, followed>>

-----------------------------------------------------------------------------
(***************************************************************************)
(* The browser.                                                            *)
(***************************************************************************)
Scroll ==
  /\ viewModel # Null /\ size # Null
  /\ Event
  /\ \E top \in Offsets : dom' = ScrolledTo(dom, top)
  /\ dom' # dom
  /\ followed' = FALSE
  /\ UNCHANGED <<connection, workbook, view, size, scrollTopRaw, scrollTop, throttle, changed, missed>>

handleScroll ==
  /\ dom.event
  /\ dom' = [dom EXCEPT !.event = FALSE]
  /\ scrollTopRaw' = Max({dom.scrollTop, Padding}) - Padding
  /\ changed' = IF scrollTopRaw' = scrollTopRaw THEN changed ELSE changed \cup {"scrollTopRaw"}
  /\ UNCHANGED <<connection, workbook, view, size, scrollTop, throttle, missed, followed, events>>

ThrottleTimer ==
  /\ throttle.timer
  /\ throttle' = [throttle EXCEPT !.timer = FALSE]
  /\ scrollTop' = throttle.latest
  /\ changed' = IF scrollTop' = scrollTop THEN changed ELSE changed \cup {"scrollTop"}
  /\ UNCHANGED <<connection, workbook, view, size, scrollTopRaw, dom, missed, followed, events>>

Resize ==
  /\ size # Null
  /\ Event
  /\ size' \in Sizes \ {size}
  /\ dom' = ScrolledTo([dom EXCEPT !.size = size'], dom.scrollTop)
  /\ changed' = changed \cup {"size"}
  /\ followed' = FALSE
  /\ UNCHANGED <<connection, workbook, view, scrollTopRaw, scrollTop, throttle, missed>>

Next ==
  \/ Commit
  \/ ModifyCatalog \/ createSnapshot
  \/ AnalyzeScript \/ ChangeFocus
  \/ Scroll \/ handleScroll \/ ThrottleTimer \/ Resize

Spec == Init /\ [][Next]_vars

-----------------------------------------------------------------------------
(***************************************************************************)
(* The layout that a view model should have, from the tree of the catalog  *)
(* and the flags of the entries alone.                                     *)
(***************************************************************************)
ReferredPath(v, o) ==
  LET all == NodesAt(Trees[v])
      known == {<<l, i>> \in CatalogEntries[v] :
                  l \in DOMAIN o.path /\ all[l][i].id = o.path[l]}
      missing == {l \in DOMAIN o.path : \A x \in known : x[1] # l}
      end == IF missing = {} THEN 4 ELSE Min(missing)
      tables == {x \in known : x[1] = 3 /\ o.column # Null /\ end = 4}
  IN {x \in known : x[1] < end}
     \cup {<<4, ChildBegin(all[3], x[2]) + o.column>> : x \in tables}

\* The script was analyzed with columns that the table no longer has
Dangles(v, o) ==
  /\ o.column # Null
  /\ \E i \in DOMAIN NodesAt(Trees[v])[3] :
       LET table == NodesAt(Trees[v])[3][i]
       IN table.id = o.path[3] /\ o.column >= Len(table.children)

ShownSiblings(vm, l, siblings) ==
  LET pinned == SelectSeq(siblings, LAMBDA e : PINNED_BY_ANYTHING(vm, <<l, e>>))
      others == SelectSeq(siblings, LAMBDA e : ~PINNED_BY_ANYTHING(vm, <<l, e>>))
      max == Settings[l].maxUnpinnedChildren
  IN pinned \o (IF Len(siblings) <= max + 1 \/ Len(others) <= max THEN others
                ELSE SubSeq(others, 1, max))

RECURSIVE Extent(_, _, _)
EntryExtent(vm, x) ==
  Max({Settings[x[1]].nodeHeight, Extent(vm, x[1] + 1, Children(Catalogs[vm.version], x))})
Extent(vm, l, siblings) ==
  IF siblings = <<>> THEN 0
  ELSE LET s == Settings[l]
           shown == ShownSiblings(vm, l, siblings)
           rows == [i \in DOMAIN shown |-> EntryExtent(vm, <<l, shown[i]>>)]
                   \o (IF Len(shown) < Len(siblings) THEN <<s.nodeHeight>> ELSE <<>>)
       IN FoldLeft(LAMBDA y, row : y + row, s.rowGap * (Len(rows) - 1), rows)

SiblingsOnPath(vm, path, l) ==
  IF l = 1 THEN Roots(Catalogs[vm.version])
  ELSE Children(Catalogs[vm.version], <<l - 1, path[l - 1]>>)

IsShown(vm, x) ==
  LET path == EntryPath(Catalogs[vm.version], x)
  IN \A l \in DOMAIN path :
       path[l] \in Range(ShownSiblings(vm, l, SiblingsOnPath(vm, path, l)))

Top(vm, x) ==
  LET path == EntryPath(Catalogs[vm.version], x)
      rows(l) == ShownSiblings(vm, l, SiblingsOnPath(vm, path, l))
      above(l) == LET self == CHOOSE i \in DOMAIN rows(l) : rows(l)[i] = path[l]
                  IN {<<l, rows(l)[i]>> : i \in 1..(self - 1)}
  IN MapThenSumSet(LAMBDA y : EntryExtent(vm, y) + Settings[y[1]].rowGap,
                   UNION {above(l) : l \in DOMAIN path})

Intersects(top, end, low, high) == end > low /\ top < high

\* From the right side of a node to the left side of another one, in halves
\* of a pixel, to the right and towards the other one all the way
Connects(path, from, to) ==
  LET Side(n, right) ==
        <<2 * (PositionX(n.entry[1]) + right), 2 * n.top + Settings[n.entry[1]].nodeHeight>>
      last == path[Len(path)]
      Between(a, b, c) == (a <= b /\ b <= c) \/ (c <= b /\ b <= a)
  IN /\ path[1] = Side(from, Settings[from.entry[1]].nodeWidth)
     /\ last = Side(to, 0)
     /\ \A i \in 1..(Len(path) - 1) :
          /\ path[i][1] <= path[i + 1][1]
          /\ Between(path[i][2], path[i + 1][2], last[2])

-----------------------------------------------------------------------------
(***************************************************************************)
(* Properties.                                                             *)
(***************************************************************************)
Settled == changed = {} /\ ~dom.event /\ ~throttle.timer

\* The effects of the last commit pinned what the workbook refers to, in the
\* view model that the viewer has.
EffectsRan(deps) == viewModel # Null /\ ~broken /\ changed \cap ({"viewModel"} \cup deps) = {}

(***************************************************************************)
(* The entries that the view model shows as pinned are those on the paths  *)
(* to the objects that the script, and the focus, refer to, whatever was   *)
(* pinned before, and none of them is hidden.  (pinPath, unpin,            *)
(* pinScriptRefs, pinFocusedByUser and the binary searches; a workbook     *)
(* that loses its focus keeps what was focused.)                           *)
(***************************************************************************)
PinsAreCurrent ==
  LET Pins(pinned(_), objects) ==
        (\A o \in objects : ~Dangles(viewModel.version, o)) =>
          {x \in CatalogEntries[viewModel.version] : pinned(x)}
            = UNION {ReferredPath(viewModel.version, o) : o \in objects}
  IN /\ EffectsRan({"processed"}) /\ script # Null =>
          Pins(LAMBDA x : PINNED_BY_SCRIPT(viewModel, x),
               Range(script.tableReferences) \cup Range(script.columnReferences))
     /\ EffectsRan({"focus"}) /\ focus # Null =>
          Pins(LAMBDA x : PINNED_BY_FOCUS(viewModel, x), Range(focus))
     /\ EffectsRan({}) =>
          \A x \in viewModel.pinned : PINNED_BY_ANYTHING(viewModel, x) /\ x \notin viewModel.overflow

(***************************************************************************)
(* Within the virtual window nothing is missing or out of place: leaves    *)
(* and overflow nodes are where the layout has them, an inner node is      *)
(* beside the part of its children that one sees, and whatever is rendered *)
(* below the top is connected to its parent, by a path that turns between  *)
(* their columns and never back.  (layoutEntriesAtLevel counts in the      *)
(* order of the catalog, renderEntriesAtLevel renders pinned ones first    *)
(* and leaves out what is outside; buildEdgePath.)                         *)
(***************************************************************************)
RenderingMatchesLayout ==
  display # Null /\ EffectsRan({"pins", "window"}) =>
    LET catalog == Catalogs[viewModel.version]
        At(x) == {n \in display.nodes : n.entry = x /\ n.hides = 0}
        InWindow(top, end) == Intersects(top, end, window.virtualBegin, window.virtualEnd)
        InSight(top, end) == Intersects(top, end, window.scrollBegin,
                                        Min({window.scrollEnd, window.virtualEnd}))
    IN /\ \A x \in CatalogEntries[viewModel.version] :
            LET children == Children(catalog, x)
                shown == ShownSiblings(viewModel, x[1] + 1, children)
                top == Top(viewModel, x)
                end == top + EntryExtent(viewModel, x)
                overflow == top + Extent(viewModel, x[1] + 1, children) - Settings[x[1] + 1].nodeHeight
            IN IsShown(viewModel, x) =>
                 IF children = <<>> THEN InWindow(top, end) => Node(x, top) \in display.nodes
                 ELSE /\ InSight(top, end) =>
                           \E n \in At(x) : n.top >= top /\ n.top + Settings[x[1]].nodeHeight <= end
                      /\ Len(shown) < Len(children)
                         /\ InWindow(overflow, overflow + Settings[x[1] + 1].nodeHeight) =>
                           OverflowNode(<<x[1] + 1, Max(Range(children) \ Range(shown))>>,
                                        overflow, Len(children) - Len(shown)) \in display.nodes
       /\ \A n \in display.nodes :
            /\ IsShown(viewModel, n.entry) = (n.hides = 0)
            /\ n.top + Settings[n.entry[1]].nodeHeight <= viewModel.totalHeight
            /\ n.entry[1] > 1 =>
                 \E e \in display.edges :
                   e.to = n.entry /\ \E m \in At(e.from) : Connects(e.path, m, n)

(***************************************************************************)
(* Once nothing is left to do, the viewer displays the current catalog as  *)
(* the workbook and the window have it, unless it was not told of the last *)
(* modification, or two commits in a row found the catalog without a       *)
(* snapshot.  (deleteSnapshot, the effect on the cached snapshot and the   *)
(* dependencies of the memo.)                                              *)
(***************************************************************************)
ViewIsCurrent ==
  Settled /\ ~missed =>
    /\ viewModel # Null /\ viewModel.version = version
    /\ ~broken => display = renderCatalog(viewModel, window)

(***************************************************************************)
(* The viewer knows where the first focused entry is; and after it         *)
(* scrolled there, in a board that had the space and with a window that    *)
(* has the board's height, one sees the entry.  (getOffsetOfFirstFocused,  *)
(* the focus effect, the throttled scroll position and the window.)        *)
(***************************************************************************)
FocusIsShown ==
  LET first == viewModel.firstFocused
  IN EffectsRan({"focus"}) /\ first # Null =>
       /\ PINNED_BY_FOCUS(viewModel, first) =>
            getOffsetOfFirstFocused(viewModel) = <<Top(viewModel, first), TRUE>>
       /\ Settled /\ followed /\ window = renderingWindow(viewModel) =>
            \E n \in display.nodes :
              /\ n.entry = first
              /\ Intersects(n.top, n.top + Settings[first[1]].nodeHeight,
                            dom.scrollTop - Padding, dom.scrollTop - Padding + dom.size)
=============================================================================
