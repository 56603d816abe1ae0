------------------------------- MODULE MCApi -------------------------------
(* Api for TLC: the calls are alike, and so are the groups.                 *)
EXTENDS Api, TLC

Symmetry == Permutations(Request) \cup Permutations(Group)
=============================================================================
