---------------------------- MODULE MCGroupRelay ----------------------------
(* GroupRelay for TLC: the pool threads inside register are interchangeable. *)
EXTENDS GroupRelay, TLC

ThreadSymmetry == Permutations(RegThreads)
=============================================================================
