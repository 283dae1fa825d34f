-------------------------- MODULE MCCatalogLoader --------------------------
(***************************************************************************)
(* Two queries and two updates, which run queries of their own, on one     *)
(* connection of any kind that is reset once.                              *)
(***************************************************************************)
EXTENDS CatalogLoader
=============================================================================
