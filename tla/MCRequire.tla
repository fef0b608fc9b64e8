------------------------------- MODULE MCRequire -------------------------------
(* Instances of Require for TLC; names are interchangeable. *)
EXTENDS Require, TLC

Symmetric == Permutations(Name)
================================================================================
