------------------------------ MODULE MCSignIn ------------------------------
(* Small instances of SignIn: three processes, two sessions, three access  *)
(* tokens each.                                                            *)
EXTENDS SignIn, TLC

CONSTANTS p1, p2, p3, nobody, none

ProcSymmetry == Permutations(Procs)
=============================================================================
