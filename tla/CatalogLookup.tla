--------------------------- MODULE CatalogLookup ---------------------------
(***************************************************************************)
(* The flat catalog that the core writes for the app, and the binary       *)
(* searches of the bindings in it and in the indexes of an analyzed script *)
(* (src/packages/dashql-core-bindings/src/lookup.ts).                      *)
(*                                                                         *)
(* Catalogs are given as trees: a sequence of databases in the order of    *)
(* their names, each with an id and its children.  Entries are numbered    *)
(* from 1, levels too: databases, schemas, tables, columns.                *)
(***************************************************************************)
EXTENDS Integers, SequencesExt

CONSTANT Null

Levels == 1..4

-----------------------------------------------------------------------------
(***************************************************************************)
(* Catalog::Flatten: a vector of entries per level, with the range of the  *)
(* children and the parent of each, and a vector sorted by id for each     *)
(* level but the columns.  The range of a database always begins at the    *)
(* first schema.                                                           *)
(***************************************************************************)
NodesBelow(nodes) == FlattenSeq([i \in DOMAIN nodes |-> nodes[i].children])
NodesAt(tree) ==
  LET nodes[l \in Levels] == IF l = 1 THEN tree ELSE NodesBelow(nodes[l - 1])
  IN nodes

ChildBegin(nodes, i) == 1 + Len(NodesBelow(SubSeq(nodes, 1, i - 1)))
ParentIdx(parents, i) ==
  CHOOSE p \in DOMAIN parents :
    ChildBegin(parents, p) <= i /\ i < ChildBegin(parents, p) + Len(parents[p].children)

FlatEntries(nodes, l) ==
  [i \in DOMAIN nodes[l] |->
     [id |-> nodes[l][i].id,
      flatParentIdx |-> IF l = 1 THEN 0 ELSE ParentIdx(nodes[l - 1], i),
      childBegin |-> IF l = 1 THEN 1 ELSE ChildBegin(nodes[l], i),
      childCount |-> Len(nodes[l][i].children)]]
EntriesById(nodes, l) ==
  SortSeq([i \in DOMAIN nodes[l] |-> [id |-> nodes[l][i].id, flatEntryIdx |-> i]],
          LAMBDA x, y : x.id < y.id)

FlatCatalog(nodes) ==
  [entries |-> [l \in Levels |-> FlatEntries(nodes, l)],
   byId |-> [l \in 1..3 |-> EntriesById(nodes, l)]]
Flatten(tree) == FlatCatalog(NodesAt(tree))

\* The indexes of the entries at the top and below an entry
Roots(catalog) == [i \in DOMAIN catalog.entries[1] |-> i]
Children(catalog, x) ==
  LET entry == catalog.entries[x[1]][x[2]]
  IN IF x[1] = 4 THEN <<>>
     ELSE SubSeq([i \in DOMAIN catalog.entries[x[1] + 1] |-> i],
                 entry.childBegin, entry.childBegin + entry.childCount - 1)

-----------------------------------------------------------------------------
(***************************************************************************)
(* The entry of a database, schema or table with an id.                    *)
(***************************************************************************)
Middle(begin, end) == begin + (end - begin) \div 2

SearchesBeyondMiddle(byId, id) == \* mutant: the middle is left out on both sides
  LET search[begin \in Nat, end \in Nat] ==
        IF begin >= end THEN Null
        ELSE LET m == Middle(begin, end)
             IN IF byId[m].id = id THEN byId[m].flatEntryIdx
                ELSE IF byId[m].id < id THEN search[m + 1, end] ELSE search[begin, m - 1]
  IN search[1, Len(byId) + 1]

FindById(byId, id) ==
  LET search[begin \in Nat, end \in Nat] ==
        IF begin >= end THEN Null
        ELSE LET m == Middle(begin, end)
             IN IF byId[m].id = id THEN byId[m].flatEntryIdx
                ELSE IF byId[m].id < id THEN search[m + 1, end] ELSE search[begin, m]
  IN search[1, Len(byId) + 1]

findCatalogDatabaseById(catalog, id) == FindById(catalog.byId[1], id)
findCatalogSchemaById(catalog, id) == FindById(catalog.byId[2], id)
findCatalogTableById(catalog, id) == FindById(catalog.byId[3], id)

-----------------------------------------------------------------------------
(***************************************************************************)
(* The references of a script to a table or a column.  The index vectors   *)
(* hold them ordered by database, schema, table and column: a key is the   *)
(* sequence of these ids.                                                  *)
(***************************************************************************)
Less(key, other) ==
  \E i \in DOMAIN key : key[i] < other[i] /\ \A j \in 1..(i - 1) : key[j] = other[j]

\* The first position in begin..(end - 1) that is not before the target
Bound(Before(_), begin, end) ==
  LET search[b \in Nat, e \in Nat] ==
        IF b >= e THEN e
        ELSE LET m == Middle(b, e) IN IF Before(m) THEN search[m + 1, e] ELSE search[b, m]
  IN search[begin, end]

findScriptTableRefsLowerBound(refs, begin, end, target) ==
  Bound(LAMBDA m : Less(refs[m], target), begin, end)
findScriptTableRefsUpperBound(refs, begin, end, target) ==
  Bound(LAMBDA m : ~Less(target, refs[m]), begin, end)
findScriptColumnRefsLowerBound(refs, begin, end, target) ==
  Bound(LAMBDA m : Less(refs[m], target), begin, end)
findScriptColumnRefsUpperBound(refs, begin, end, target) ==
  Bound(LAMBDA m : ~Less(target, refs[m]), begin, end)

\* Null stands for every id: the least and the greatest one, MaxId
Filled(key, default) == [i \in DOMAIN key |-> IF key[i] = Null THEN default ELSE key[i]]

findScriptTableRefsEqualRange(refs, target, MaxId) ==
  LET lb == findScriptTableRefsLowerBound(refs, 1, Len(refs) + 1, Filled(target, 0))
  IN <<lb, findScriptTableRefsUpperBound(refs, lb, Len(refs) + 1, Filled(target, MaxId))>>

findScriptColumnRefsEqualRange(refs, target, MaxId) ==
  LET lb == findScriptColumnRefsLowerBound(refs, 1, Len(refs) + 1, Filled(target, 0))
  IN <<lb, findScriptColumnRefsUpperBound(refs, lb, Len(refs) + 1, Filled(target, MaxId))>>
=============================================================================
