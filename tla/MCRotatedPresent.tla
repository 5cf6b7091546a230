---------------------------- MODULE MCRotatedPresent ----------------------------
(* RotatedPresent on an application surface of a few buffers.                *)
EXTENDS RotatedPresent, TLC
BufferSymmetry == Permutations(Buffers)
=================================================================================
