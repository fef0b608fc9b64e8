---------------------------- MODULE MCBridgeCalls ----------------------------
(* Instances of BridgeCalls for TLC: a value stack small enough for misses to fill it.  The
   calls nest up to a host program that runs JavaScript inside a native function inside
   JavaScript, and one level more. *)
EXTENDS BridgeCalls
==============================================================================
