--------------------------- MODULE MCCatalogView ---------------------------
(***************************************************************************)
(* A catalog that loses a table and columns, in a viewer with a container  *)
(* that is smaller, and one that is larger, than the board.                *)
(***************************************************************************)
EXTENDS CatalogViewer

Columns(n) == [i \in 1..n |-> [id |-> i, children |-> <<>>]]
Table(id, n) == [id |-> id, children |-> Columns(n)]
Parent(id, children) == [id |-> id, children |-> children]

\* Ids are not in the order of the names
MCTrees == <<
  <<Parent(1, <<Parent(2, <<Table(4, 1), Table(1, 0), Table(3, 3), Table(2, 2)>>),
                Parent(1, <<Table(6, 4)>>),
                Parent(3, <<Table(5, 1)>>)>>)>>,
  <<Parent(1, <<Parent(2, <<Table(1, 0), Table(3, 1)>>),
                Parent(1, <<Table(6, 4)>>)>>)>> >>

MCSettings == [l \in Levels |->
  [nodeWidth |-> 160, columnGap |-> 48, nodeHeight |-> 16, rowGap |-> 8,
   maxUnpinnedChildren |-> IF l = 3 THEN 2 ELSE 1]]

Object(path, column) == [path |-> path, column |-> column]
Focused(path, column, type) == [path |-> path, column |-> column, focus |-> type]

MCScripts == {
  [tableReferences |-> <<Object(<<1, 2, 2>>, Null)>>,
   columnReferences |-> <<Object(<<1, 2, 2>>, 1)>>],
  [tableReferences |-> <<Object(<<1, 1, 6>>, Null), Object(<<1, 2, 3>>, Null)>>,
   columnReferences |-> <<Object(<<1, 1, 6>>, 3), Object(<<1, 2, 3>>, 2)>>]}

MCFocuses == {
  <<Focused(<<1, 2, 3>>, Null, "TABLE_REF"), Focused(<<1, 3, 5>>, 0, "COLUMN_REF")>>,
  <<Focused(<<1, 1, 6>>, 2, "COMPLETION_CANDIDATE"), Focused(<<1, 1>>, Null, "COMPLETION_CANDIDATE")>>,
  <<>>}
=============================================================================
