---------------------------- MODULE MCKeyIteration ----------------------------
(* A small instance of KeyIteration.                                       *)
EXTENDS KeyIteration

CONSTANTS a, b, f, s
===============================================================================
