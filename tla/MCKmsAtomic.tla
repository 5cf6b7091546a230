------------------------------ MODULE MCKmsAtomic ------------------------------
(* KmsAtomic on a surface of a few buffers, which nothing tells apart.       *)
EXTENDS KmsAtomic, TLC
BufferSymmetry == Permutations(Buffers)
===============================================================================
