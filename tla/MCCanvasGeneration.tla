------------------------ MODULE MCCanvasGeneration ------------------------
(* A node with a list of one picture, between the nodes of two edits of the *)
(* picture it is generated from.                                            *)
EXTENDS CanvasGeneration

ThreeNodes == 1 :> "n1" @@ 2 :> "n2" @@ 3 :> "n3"
=============================================================================
