---------------------------- MODULE MCNativeQuery ----------------------------
(***************************************************************************)
(* Two queries over a channel that may be closed at any time: one whose    *)
(* result may come in one batch, and one that gets a chunk of the wrong    *)
(* kind.                                                                   *)
(***************************************************************************)
EXTENDS NativeQuery, TLC

MCMessageBytes == <<0, 1>>

MCResult == (0 :> <<"arrowChunk", "arrowChunk">>) @@ (1 :> <<"header", "qsv1Chunk">>)
=============================================================================
