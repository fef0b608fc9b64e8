---------------------------- MODULE MCEcmaHandles ----------------------------
(* Instances of EcmaHandles for TLC.  There are fewer readings of the clock than saves, so
   handles are made once and twice; the functions are interchangeable, and so are the
   readings, of which nothing but their identity matters. *)
EXTENDS EcmaHandles, TLC

Interchangeable == Permutations(Func) \cup Permutations(Time)
==============================================================================
