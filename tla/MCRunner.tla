------------------------------ MODULE MCRunner ------------------------------
(* A small instance of Runner: a limit, a message about credit that is no  *)
(* limit, and a tool that may repeat; two repetitions are a loop.          *)
EXTENDS Runner

CONSTANTS limit, balance, tool, silent
=============================================================================
