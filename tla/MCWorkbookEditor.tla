-------------------------- MODULE MCWorkbookEditor --------------------------
(***************************************************************************)
(* The serverless workbook, whose two scripts are loaded, and a blank one. *)
(* Texts refer to one table.                                               *)
(***************************************************************************)
EXTENDS WorkbookEditor

Ref(kind) == [kind |-> kind, table |-> "t"]
MCExamples ==
  [c \in {"serverless", "demo"} |->
     IF c = "serverless" THEN <<<<Ref("COLUMN_REF")>>, <<Ref("TABLE_REF")>>>>
     ELSE <<<<Ref("TABLE_REF")>>>>]
MCTyped == {Ref("TABLE_REF")}
=============================================================================
