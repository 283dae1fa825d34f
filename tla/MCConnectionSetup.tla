------------------------- MODULE MCConnectionSetup -------------------------
(***************************************************************************)
(* Two setup events and two setups on the connections of four connectors:  *)
(* events that list one workbook or two, and one of no use.                *)
(***************************************************************************)
EXTENDS ConnectionSetup

MCLinks == {<<"salesforce">>, <<"salesforce", "trino">>, <<"hyper">>, <<"salesforce", "demo">>,
            <<Unknown>>}
=============================================================================
