---------------------------- MODULE MCServerPlayers ----------------------------
(* Small instances of ServerPlayers for TLC.                                      *)
EXTENDS ServerPlayers, TLC

Symmetry == Permutations(Human) \cup Permutations(Bot)
================================================================================
