------------------------------ MODULE MCGoModules ------------------------------
(* The instance of GoModules that TLC checks: goroutines and addresses are interchangeable. *)
EXTENDS GoModules, TLC

MCSymmetry == Permutations(Proc) \cup Permutations(Addr)
==============================================================================
