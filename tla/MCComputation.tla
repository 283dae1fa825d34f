---------------------------- MODULE MCComputation ----------------------------
(***************************************************************************)
(* One query whose table is sorted twice, or two queries whose results are *)
(* analysed one after the other by one worker, and one sort.               *)
(***************************************************************************)
EXTENDS Computation

Field(name, type) == [name |-> name, type |-> type]

\* The first query has a table with a column that is skipped or one with a
\* column that cannot be binned; in the second a column has the name of a
\* system column.
MCResults(query) ==
    IF query = 1
    THEN { <<Field(Column("b"), "text"), Field(Column("s"), "struct")>>,
           <<Field(Column("c"), "bool")>> }
    ELSE { <<Field(Name("rownum", 0, 1), "int")>> }

=============================================================================
