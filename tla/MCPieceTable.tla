----------------------------- MODULE MCPieceTable -----------------------------
(* The piece table on a short file, with every offset and length.          *)
EXTENDS PieceTable
===============================================================================
