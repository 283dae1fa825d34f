----------------------------- MODULE MCCatalog -----------------------------
(***************************************************************************)
(* Two scripts and the pools that may take their ids, two schemas in a     *)
(* database with one table each.                                           *)
(***************************************************************************)
EXTENDS Catalog, TLC

CONSTANTS a, b, t1, t2

MCScripts == {a, b}
MCTables == {t1, t2}
MCScriptId == (a :> 1) @@ (b :> 2)
MCDatabaseOf == <<1, 1>>
MCSchemaOf == (t1 :> 1) @@ (t2 :> 2)

Text(creates, reads) == [creates |-> creates, reads |-> reads]
MCTexts == {Text({}, {t1}), Text({t1}, {}), Text({t2}, {t1})}

Describe(k, tables, nameless) == [schema |-> k, tables |-> tables, nameless |-> nameless]
MCDescriptors == {{Describe(1, {t1}, FALSE)},
                  {Describe(1, {t1}, FALSE), Describe(2, {}, TRUE)}}
=============================================================================
