---------------------------- MODULE MCSecureFile ----------------------------
(* Small instances of SecureFile: two or three processes, contents of one  *)
(* and two blocks.                                                         *)
EXTENDS SecureFile, TLC

CONSTANTS p1, p2, p3, a, b, hole, absent

LongAndShort == {<<a, a>>, <<b>>}

ProcSymmetry == Permutations(Procs)
=============================================================================
