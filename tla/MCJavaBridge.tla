---------------------------- MODULE MCJavaBridge ----------------------------
(* Instances of JavaBridge for TLC: threads and bridges are interchangeable. *)
EXTENDS JavaBridge, TLC

MCSymmetry == Permutations(Thread) \cup Permutations(Bridge)
==============================================================================
