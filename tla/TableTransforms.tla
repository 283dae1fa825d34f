-------------------------- MODULE TableTransforms --------------------------
(***************************************************************************)
(* The transforms with which the app analyses a result table               *)
(* (dashql-app/src/compute/table_transforms.ts, the column helpers of      *)
(* computation_actions.ts), what the compute module makes of them          *)
(* (dashql-compute/src/data_frame.rs) and the layout of the grid that      *)
(* shows the table (view/query_result/data_table.tsx).                     *)
(*                                                                         *)
(* A table is the sequence of its fields together with the column that it  *)
(* is sorted by; its rows are not modelled.  A field name is a stem, the   *)
(* number that a system column carries and the number of underscores in    *)
(* front of it, which is all that the choice of unique names looks at.     *)
(***************************************************************************)
EXTENDS Integers, Sequences, SequencesExt, FiniteSets

CONSTANT Null     \* no name

(***************************************************************************)
(* Names, fields, tables and transforms                                    *)
(***************************************************************************)
Name(stem, id, bars) == [stem |-> stem, id |-> id, bars |-> bars]
Column(name)         == Name(name, 0, 0)
CountStar            == Name("count", 0, 1)
System(name)         == [name |-> name, type |-> "system"]
Names(fields)        == {fields[i].name : i \in DOMAIN fields}
IndexOf(fields, name) == SelectInSeq(fields, LAMBDA f : f.name = name)

ColumnType(type) ==
    CASE type \in {"int", "bool"} -> "ORDINAL"
      [] type = "text"            -> "STRING"
      [] type = "list"            -> "LIST"
      [] OTHER                    -> "SKIPPED"

\* A column group of the grid.  bin is a field number, -1 while there is none.
GridColumnGroup(type, field) ==
    [type |-> type, field |-> field, stats |-> <<>>, id |-> Null, bin |-> -1]

buildGridColumns(fields) ==
    [i \in DOMAIN fields |-> GridColumnGroup(ColumnType(fields[i].type), fields[i].name)]

Aggregate(function, field, alias) == [function |-> function, field |-> field, alias |-> alias]
NoTransform == [rowNumber |-> Null, ids |-> <<>>, bins |-> <<>>,
                keys |-> <<>>, aggregates |-> <<>>, orderBy |-> Null]

(***************************************************************************)
(* table_transforms.ts                                                     *)
(***************************************************************************)
\* The names under which the summary holds the statistics of column i.
StatsFields(type, i) ==
    CASE type = "ORDINAL"           -> <<Name("count", i, 1), Name("min", i, 1), Name("max", i, 1)>>
      [] type \in {"STRING", "LIST"} -> <<Name("count", i, 1), Name("countd", i, 1)>>
      [] OTHER                      -> <<>>

Functions(type) ==
    IF type = "ORDINAL" THEN <<"count", "min", "max">> ELSE <<"count", "count distinct">>

\* mutant: the columns are numbered from one, the aggregates from zero
NumbersColumnsFromOne(columns) ==
    LET aggregates(i) ==
            LET stats == StatsFields(columns[i].type, i - 1)
            IN  [k \in DOMAIN stats |->
                    Aggregate(Functions(columns[i].type)[k], columns[i].field, stats[k])]
    IN  [transform |->
            [NoTransform EXCEPT
                !.aggregates = FlattenSeq(<< <<Aggregate("count star", Null, CountStar)>> >>
                                            \o [i \in DOMAIN columns |-> aggregates(i)])],
         columns |->
            [i \in DOMAIN columns |->
                [columns[i] EXCEPT !.stats = StatsFields(columns[i].type, i)]]]

createTableSummaryTransform(columns) ==
    LET aggregates(i) ==
            LET stats == StatsFields(columns[i].type, i - 1)
            IN  [k \in DOMAIN stats |->
                    Aggregate(Functions(columns[i].type)[k], columns[i].field, stats[k])]
    IN  [transform |->
            [NoTransform EXCEPT
                !.aggregates = FlattenSeq(<< <<Aggregate("count star", Null, CountStar)>> >>
                                            \o [i \in DOMAIN columns |-> aggregates(i)])],
         columns |->
            [i \in DOMAIN columns |->
                [columns[i] EXCEPT !.stats = StatsFields(columns[i].type, i - 1)]]]

createColumnSummaryTransform(column) ==
    IF column.type = "ORDINAL"
    THEN [NoTransform EXCEPT
            !.keys = << [field |-> column.field, alias |-> Column("bin"), stats |-> column.stats] >>,
            !.aggregates = <<Aggregate("count star", column.field, Column("count"))>>,
            !.orderBy = Column("bin")]
    ELSE [NoTransform EXCEPT
            !.keys = << [field |-> column.field, alias |-> Column("key"), stats |-> <<>>] >>,
            !.aggregates = <<Aggregate("count star", column.field, Column("count"))>>,
            !.orderBy = Column("count")]

createOrderByTransform(field) == [NoTransform EXCEPT !.orderBy = field]

\* Underscores are put in front of the name until no field has it.
createUniqueColumnName(name, taken) ==
    LET longer == {n \in [stem : {name.stem}, id : {name.id},
                          bars : name.bars .. name.bars + Cardinality(taken)] : n \notin taken}
    IN  CHOOSE n \in longer : \A m \in longer : n.bars <= m.bars

\* A row number, an identifier per text and list column and a bin per ordinal
\* column.  The number of a bin field is counted from the fields of the input.
createPrecomputationTransform(fields, columns) ==
    LET rowNumber == createUniqueColumnName(Name("rownum", 0, 1), Names(fields))
        start == [taken |-> Names(fields) \cup {rowNumber}, next |-> Len(fields), ids |-> <<>>,
                  bins |-> <<>>,
                  columns |-> <<GridColumnGroup("ROWNUMBER", rowNumber)>>]
        step(acc, i) ==
            LET column == columns[i]
                bin    == createUniqueColumnName(Name("bin", i, 1), acc.taken)
                id     == createUniqueColumnName(Name("id", i, 1), acc.taken)
            IN  CASE column.type = "ORDINAL" ->
                       [acc EXCEPT !.taken = @ \cup {bin}, !.next = @ + 1,
                                   !.bins = Append(@, [field |-> column.field, alias |-> bin,
                                                       stats |-> column.stats]),
                                   !.columns = Append(@, [column EXCEPT !.bin = acc.next])]
                  [] column.type \in {"STRING", "LIST"} ->
                       [acc EXCEPT !.taken = @ \cup {id},
                                   !.ids = Append(@, [field |-> column.field, alias |-> id]),
                                   !.columns = Append(@, [column EXCEPT !.id = id])]
                  [] OTHER -> [acc EXCEPT !.columns = Append(@, column)]
        done == FoldLeft(step, start, [i \in DOMAIN columns |-> i])
    IN  [transform |-> [NoTransform EXCEPT !.rowNumber = rowNumber, !.ids = done.ids,
                                           !.bins = done.bins, !.orderBy = rowNumber],
         columns |-> done.columns]

(***************************************************************************)
(* data_frame.rs: the result of a transform, <<>> when it is refused       *)
(***************************************************************************)
row_number(transform, fields) ==
    IF transform.rowNumber = Null THEN fields ELSE Append(fields, System(transform.rowNumber))

value_identifiers(transform, fields) ==
    fields \o [i \in DOMAIN transform.ids |-> System(transform.ids[i].alias)]

bin_fields(transform, fields) ==
    fields \o [i \in DOMAIN transform.bins |-> System(transform.bins[i].alias)]

\* Binning needs the minimum and the maximum, and a type it can compute with.
bin_field(binning, fields, stats) ==
    LET i == IndexOf(fields, binning.field)
    IN  /\ i # 0
        /\ fields[i].type # "bool"
        /\ {binning.stats[2], binning.stats[3]} \subseteq Names(stats)

group_by(transform, fields) ==
    IF transform.aggregates = <<>> THEN fields
    ELSE LET keys   == [i \in DOMAIN transform.keys |-> System(transform.keys[i].alias)]
             counts == [i \in DOMAIN transform.aggregates |->
                            System(transform.aggregates[i].alias)]
             binned == \E i \in DOMAIN transform.keys : transform.keys[i].stats # <<>>
         IN  keys \o counts
                  \o (IF binned THEN <<System(Column("binWidth")), System(Column("binLowerBound")),
                                       System(Column("binUpperBound"))>>
                                ELSE <<>>)

Refused(transform, fields, stats) ==
    \/ \E i \in DOMAIN transform.ids  : transform.ids[i].field \notin Names(fields)
    \/ \E i \in DOMAIN transform.bins : ~bin_field(transform.bins[i], fields, stats)
    \/ \E i \in DOMAIN transform.keys :
            IF transform.keys[i].stats = <<>> THEN transform.keys[i].field \notin Names(fields)
            ELSE ~bin_field(transform.keys[i], fields, stats)
    \/ \E i \in DOMAIN transform.aggregates :
            /\ transform.aggregates[i].function # "count star"
            /\ transform.aggregates[i].field \notin Names(fields)

transform_fields(transform, fields) ==
    group_by(transform, bin_fields(transform, value_identifiers(transform,
                                                 row_number(transform, fields))))

DataFrameTransform(transform, frame, stats) ==
    LET fields == transform_fields(transform, frame.fields)
    IN  IF \/ Refused(transform, frame.fields, stats)
           \/ transform.orderBy # Null /\ transform.orderBy \notin Names(fields)
        THEN <<>>
        ELSE << [fields |-> fields,
                 order |-> IF transform.orderBy = Null THEN frame.order ELSE transform.orderBy] >>

(***************************************************************************)
(* computation_actions.ts: the statistics that a summary is read from.     *)
(* They hold when no field that the code reads is missing.                 *)
(***************************************************************************)
analyzeOrdinalColumn(summary, column, table) ==
    /\ Len(table) >= 4
    /\ table[2].name = Column("count") /\ table[4].name = Column("binLowerBound")
    /\ {CountStar, column.stats[1], column.stats[2], column.stats[3]} \subseteq Names(summary)

analyzeStringColumn(summary, column, table) ==
    /\ table[1].name = Column("key") /\ table[2].name = Column("count")
    /\ {CountStar, column.stats[1], column.stats[2]} \subseteq Names(summary)

analyzeListColumn(summary, column, table) ==
    /\ table[1].name = Column("key") /\ table[2].name = Column("count")
    /\ {CountStar, column.stats[1], column.stats[2]} \subseteq Names(summary)

(***************************************************************************)
(* data_table.tsx: the layout of the grid.  A displayed column has the     *)
(* number of its field, counted from 0 and 0 when the lookup of the name   *)
(* fails, and the number of the column group whose summary is plotted.     *)
(***************************************************************************)
FieldIndex(fields, name) == IF IndexOf(fields, name) = 0 THEN 0 ELSE IndexOf(fields, name) - 1
NoGroup == -1
Displayed(field, group) == [field |-> field, group |-> group]

\* mutant: skipped columns are counted
CountsSkippedColumns(columns, showMeta) ==
    FoldLeft(LAMBDA count, column :
                count + CASE column.type \in {"ROWNUMBER", "SKIPPED"} -> 1
                          [] column.type = "ORDINAL"   ->
                                IF showMeta /\ column.bin # -1 THEN 2 ELSE 1
                          [] OTHER -> IF showMeta /\ column.id # Null THEN 2 ELSE 1,
             0, columns)

computeColumnCount(columns, showMeta) ==
    FoldLeft(LAMBDA count, column :
                count + CASE column.type = "ROWNUMBER" -> 1
                          [] column.type = "SKIPPED"   -> 0
                          [] column.type = "ORDINAL"   ->
                                IF showMeta /\ column.bin # -1 THEN 2 ELSE 1
                          [] OTHER -> IF showMeta /\ column.id # Null THEN 2 ELSE 1,
             0, columns)

computeGridLayout(fields, columns, showMeta) ==
    FlattenSeq([i \in DOMAIN columns |->
        LET column == columns[i]
            field  == FieldIndex(fields, column.field)
            value  == <<Displayed(field, i - 1)>>
            meta(f) == IF showMeta THEN <<Displayed(f, NoGroup)>> ELSE <<>>
        IN  CASE column.type = "ROWNUMBER" -> <<Displayed(field, NoGroup)>>
              [] column.type = "SKIPPED"   -> <<>>
              [] column.type = "ORDINAL"   ->
                    value \o (IF column.bin = -1 THEN <<>> ELSE meta(column.bin))
              [] OTHER ->
                    value \o (IF column.id = Null THEN <<>>
                              ELSE meta(FieldIndex(fields, column.id)))])

\* A layout with as many columns is kept unless an offset grew.
skipGridLayoutUpdate(old, next, wider) == Len(old) = Len(next) /\ ~wider

=============================================================================
