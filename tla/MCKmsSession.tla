----------------------------- MODULE MCKmsSession -----------------------------
(* KmsSession on a small instance: the windows are model values. *)
EXTENDS KmsSession, TLC
WindowSymmetry == Permutations(Windows)
===============================================================================
