----------------------------- MODULE MCBuffers -----------------------------
(* Small instances of Buffers for TLC.                                     *)
EXTENDS Buffers, TLC

Symmetry == Permutations(Conn)
============================================================================
