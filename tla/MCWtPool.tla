------------------------------ MODULE MCWtPool -------------------------------
(* Small instances of WtPool.  Workers, branches and commits are            *)
(* interchangeable; slots are not (they are tried in path order).           *)
EXTENDS WtPool, TLC

Symmetry == Permutations(Workers) \cup Permutations(Branches) \cup Permutations(Commits)
==============================================================================
