------------------------------ MODULE MCLeetServer ------------------------------
(* Small instances of LeetServer for TLC.                                         *)
EXTENDS LeetServer, TLC

Symmetry == Permutations(Address)
================================================================================
