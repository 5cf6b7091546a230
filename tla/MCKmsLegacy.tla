------------------------------ MODULE MCKmsLegacy ------------------------------
(* KmsLegacy on a surface of a few buffers, which nothing tells apart.       *)
EXTENDS KmsLegacy, TLC
BufferSymmetry == Permutations(Buffers)
===============================================================================
