-------------------------- MODULE CatalogViewModel --------------------------
(***************************************************************************)
(* The view model of the catalog viewer: which entries of a snapshot are   *)
(* pinned by the script and by the focus, which ones are hidden behind an  *)
(* overflow node, and how much space each takes                            *)
(* (src/packages/dashql-app/src/view/catalog/catalog_view_model.ts).       *)
(*                                                                         *)
(* An entry is a pair of a level and an index.  The flags of the script    *)
(* exclude each other, and so do those of the focus: an entry has at most  *)
(* one of each.  Epochs are only compared with the current one: what was   *)
(* pinned in the current epoch is a set.                                   *)
(***************************************************************************)
EXTENDS CatalogLookup, FiniteSetsExt

CONSTANTS
  Trees,    \* the catalogs that the connection has one after the other
  Settings  \* RENDERING_SETTINGS.levels

ASSUME SettingsAssumption ==
  \A l \in Levels : /\ {Settings[l].nodeWidth, Settings[l].nodeHeight} \subseteq Nat \ {0}
                    /\ Settings[l].columnGap \in Nat
                    /\ Settings[l].rowGap \in Nat
                    /\ Settings[l].maxUnpinnedChildren \in Nat \ {0}

Versions == DOMAIN Trees
Catalogs == [v \in Versions |-> Flatten(Trees[v])]
CatalogEntries == [v \in Versions |->
  UNION {{l} \X DOMAIN Catalogs[v].entries[l] : l \in Levels}]

FocusTypes == {"TABLE_REF", "COLUMN_REF", "COMPLETION_CANDIDATE", "CATALOG_ENTRY"}

-----------------------------------------------------------------------------
(***************************************************************************)
(* The layout.                                                             *)
(***************************************************************************)
PINNED_BY_SCRIPT(vm, x) == vm.script[x] # Null
PINNED_BY_FOCUS(vm, x) == vm.focus[x] # Null
PINNED_BY_ANYTHING(vm, x) == PINNED_BY_SCRIPT(vm, x) \/ PINNED_BY_FOCUS(vm, x)

\* Unpinned siblings beyond the first ones, unless it is one sibling only
Overflowing(vm, l, siblings) ==
  LET unpinned == SelectSeq(siblings, LAMBDA e : ~PINNED_BY_ANYTHING(vm, <<l, e>>))
      max == Settings[l].maxUnpinnedChildren
  IN IF Len(siblings) <= max + 1 THEN {}
     ELSE {unpinned[i] : i \in {j \in DOMAIN unpinned : j > max}}

Larger(m, n) == IF m >= n THEN m ELSE n

\* The position behind the siblings, the heights of the entries that have a
\* place and the entries that are hidden.  What is below a hidden entry is
\* not visited.
RECURSIVE layoutEntriesAtLevel(_, _, _, _)
LayoutBelow(vm, y, l, children) ==
  IF children = <<>> THEN [y |-> y, heights |-> <<>>, hidden |-> {}]
  ELSE layoutEntriesAtLevel(vm, y, l, children)

\* An entry is as high as a node, or as what is below it
PlaceEntry(acc, x, top, below) ==
  LET end == Larger(below.y, top + Settings[x[1]].nodeHeight)
  IN [y |-> end, first |-> FALSE,
      heights |-> (x :> end - top) @@ below.heights @@ acc.heights,
      hidden |-> acc.hidden \cup below.hidden]

PlaceOverflow(acc, l) ==
  [acc EXCEPT !.y = @ + Settings[l].rowGap + Settings[l].nodeHeight]

layoutEntriesAtLevel(vm, y, l, siblings) ==
  LET hidden == Overflowing(vm, l, siblings)
      Layout(acc, e) ==
        LET top == acc.y + (IF acc.first THEN 0 ELSE Settings[l].rowGap)
            children == Children(Catalogs[vm.version], <<l, e>>)
        IN PlaceEntry(acc, <<l, e>>, top, LayoutBelow(vm, top, l + 1, children))
      shown == FoldLeft(Layout,
                        [y |-> y, first |-> TRUE, heights |-> <<>>, hidden |-> {<<l, e>> : e \in hidden}],
                        SelectSeq(siblings, LAMBDA e : e \notin hidden))
  IN IF hidden = {} THEN shown ELSE PlaceOverflow(shown, l)

WithLayout(vm, done) ==
  [vm EXCEPT !.heights = done.heights @@ @, !.totalHeight = done.y,
             !.overflow = done.hidden \cup (@ \ DOMAIN done.heights)]
layoutEntries(vm) ==
  WithLayout(vm, layoutEntriesAtLevel(vm, 0, 1, Roots(Catalogs[vm.version])))
LaysOutNothing(vm) == vm \* mutant: entries that were pinned stay where they were
layoutPendingEntries(vm) == layoutEntries(vm)

NewCatalogViewModel(v) ==
  layoutEntries([version |-> v,
                 script |-> [x \in CatalogEntries[v] |-> Null],
                 focus |-> [x \in CatalogEntries[v] |-> Null],
                 pinned |-> {}, overflow |-> {}, firstFocused |-> Null,
                 heights |-> [x \in CatalogEntries[v] |-> 0], totalHeight |-> 0])

-----------------------------------------------------------------------------
(***************************************************************************)
(* Pinning.  A catalog object has the ids of a database, of a schema and   *)
(* of a table as far as its type has them, and the index of a column or    *)
(* Null.                                                                   *)
(***************************************************************************)
\* The entries on the path to an object, up to the first one that the
\* catalog does not have.  The index of a column is not checked.
UpToMissing(ids) ==
  {<<l, ids[l]>> : l \in {k \in DOMAIN ids : \A j \in 1..k : ids[j] # Null}}
WithColumn(catalog, ids, column) ==
  IF column = Null \/ ids[3] = Null THEN ids
  ELSE Append(ids, catalog.entries[3][ids[3]].childBegin + column)

PathEntries(catalog, o) ==
  LET find(l) == CASE l = 1 -> findCatalogDatabaseById(catalog, o.path[l])
                   [] l = 2 -> findCatalogSchemaById(catalog, o.path[l])
                   [] l = 3 -> findCatalogTableById(catalog, o.path[l])
  IN UpToMissing(WithColumn(catalog, [l \in DOMAIN o.path |-> find(l)], o.column))

\* The flags with an object pinned.  The flag that an entry had is cleared.
Flagged(flags, path, type) ==
  [x \in DOMAIN flags |->
     IF x \notin path THEN flags[x]
     ELSE <<type, IF x[1] = Cardinality(path) THEN "TARGET" ELSE "PATH">>]

\* now are the entries that were pinned in the epoch
PinForScript(acc, path, type) ==
  [vm |-> [acc.vm EXCEPT !.script = Flagged(@, path, type), !.pinned = @ \cup path],
   now |-> acc.now \cup path]
PinForFocus(acc, path, type) ==
  [vm |-> [acc.vm EXCEPT !.focus = Flagged(@, path, type), !.pinned = @ \cup path],
   now |-> acc.now \cup path]

PinScriptPath(acc, type, o) == PinForScript(acc, PathEntries(Catalogs[acc.vm.version], o), type)
PinFocusPath(acc, o) == PinForFocus(acc, PathEntries(Catalogs[acc.vm.version], o), o.focus)

\* The flags of the script, or of the focus, of the entries that were not
\* pinned in this epoch
Unflagged(flags, pinned, now) ==
  [x \in DOMAIN flags |-> IF x \in pinned \ now THEN Null ELSE flags[x]]

\* Entries without a flag are no longer pinned
DropUnpinned(vm) ==
  [vm EXCEPT !.pinned = {x \in @ : PINNED_BY_ANYTHING(vm, x)}]

unpinScript(acc) ==
  DropUnpinned([acc.vm EXCEPT !.script = Unflagged(@, acc.vm.pinned, acc.now)])
unpinFocus(acc) ==
  DropUnpinned([acc.vm EXCEPT !.focus = Unflagged(@, acc.vm.pinned, acc.now)])

\* The resolved references of an analyzed script
pinScriptRefs(vm, analyzed) ==
  LET tables == FoldLeft(LAMBDA acc, o : PinScriptPath(acc, "TABLE_REF", o),
                         [vm |-> vm, now |-> {}], analyzed.tableReferences)
      all == FoldLeft(LAMBDA acc, o : PinScriptPath(acc, "COLUMN_REF", o),
                      tables, analyzed.columnReferences)
  IN layoutPendingEntries(unpinScript(all))

\* The first entry of the deepest level that was pinned in the last epoch in
\* which the focus pinned anything
FirstFocused(first, now) ==
  IF now = {} THEN first
  ELSE LET deepest == Max({x[1] : x \in now})
       IN <<deepest, Min({x[2] : x \in {n \in now : n[1] = deepest}})>>

RememberFirst(acc) == [acc EXCEPT !.vm.firstFocused = FirstFocused(@, acc.now)]

pinFocusedByUser(vm, userFocus) ==
  LET all == FoldLeft(PinFocusPath, [vm |-> vm, now |-> {}], userFocus)
  IN layoutPendingEntries(unpinFocus(RememberFirst(all)))

-----------------------------------------------------------------------------
(***************************************************************************)
(* The offset of an entry: a pair of the offset and whether it was found.  *)
(***************************************************************************)
\* The indexes of an entry and of those above it
EntryPath(catalog, x) ==
  LET parent(l, e) == catalog.entries[l][e].flatParentIdx
      path[l \in Levels] ==
        IF l = x[1] THEN x[2] ELSE parent(l + 1, path[l + 1])
  IN [l \in 1..x[1] |-> path[l]]

OffsetInOrder(vm, l, siblings, target) == \* mutant: in the order of the catalog
  LET before == {e \in Range(siblings) : <<l, e>> \notin vm.overflow /\ e < target}
  IN MapThenSumSet(LAMBDA e : vm.heights[<<l, e>>] + Settings[l].rowGap, before)

\* Pinned siblings come first.  The pass over them ends at the first one
\* behind the target, after its gap was added.
OffsetAtLevel(vm, l, siblings, target) ==
  LET shown == {e \in Range(siblings) : <<l, e>> \notin vm.overflow}
      pinned == {e \in shown : PINNED_BY_ANYTHING(vm, <<l, e>>)}
      before == {e \in IF target \in pinned THEN pinned ELSE shown : e < target}
      behind == IF target \notin pinned /\ \E e \in pinned : e > target THEN 1 ELSE 0
  IN MapThenSumSet(LAMBDA e : vm.heights[<<l, e>>], before)
     + Settings[l].rowGap * (Cardinality(before) + behind)

searchEntryOffset(vm, path) ==
  LET catalog == Catalogs[vm.version]
      siblings(l) == IF l = 1 THEN Roots(catalog) ELSE Children(catalog, <<l - 1, path[l - 1]>>)
      found == \A l \in DOMAIN path :
                 path[l] \in Range(siblings(l)) /\ <<l, path[l]>> \notin vm.overflow
  IN IF ~found THEN <<0, FALSE>>
     ELSE <<MapThenSumSet(LAMBDA l : OffsetAtLevel(vm, l, siblings(l), path[l]), DOMAIN path), TRUE>>

getOffsetOfFirstFocused(vm) ==
  IF vm.firstFocused = Null THEN <<0, FALSE>>
  ELSE searchEntryOffset(vm, EntryPath(Catalogs[vm.version], vm.firstFocused))
=============================================================================
