------------------------------ MODULE MCSpool ------------------------------
(* Small instances of Spool: a cap of three lines, batches of two.         *)
EXTENDS Spool, TLC

CONSTANTS w1, w2, u1, u2, nobody

UploaderSymmetry == Permutations(Writers) \cup Permutations(Uploaders)
=============================================================================
