------------------------ MODULE MCGrpcStreamManager ------------------------
(***************************************************************************)
(* Two streams of empty messages, which a read call may hold back, and of  *)
(* messages of one byte, which it returns at once.                         *)
(***************************************************************************)
EXTENDS GrpcStreamManager

MCMessageBytes == <<0, 1, 0>>
=============================================================================
