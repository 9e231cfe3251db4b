---------------------------- MODULE MCPersonSettings ----------------------------
(* PersonSettings for TLC: the requests are interchangeable.               *)
EXTENDS PersonSettings, TLC

Symmetry == Permutations(Requests)
================================================================================
