---------------------------- MODULE MCLoraFrame ----------------------------
(***************************************************************************)
(* Values on both sides of every boundary of the encoding and the frame.   *)
(***************************************************************************)
EXTENDS LoraFrame

MCSeqs == {23, 24, 65535}

MCStamps == {0, 255, 65536}

MCPayloadLens == {0, 24, 229, 230, 235}

MCLens == {0, 1, 2, 20, 251, 255}

MCDeclaredLens == {0, 1, 18, 249, 253, 254, 65535}
=============================================================================
