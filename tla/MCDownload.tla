----------------------------- MODULE MCDownload -----------------------------
(* A file of four blocks, whose numbers go past the modulus, one of a      *)
(* single block, and one that the server may refuse.                       *)
EXTENDS Download

MCBlocks == <<4, 1, 1>>

=============================================================================
