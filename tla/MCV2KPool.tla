------------------------------ MODULE MCV2KPool ------------------------------
(* Instances of V2KPool for TLC.  With fewer readings of the clock than calls that use one,
   keys are given out once and twice, in either order of the clock. *)
EXTENDS V2KPool

MCTime == 1..(MaxCalls - 1)
==============================================================================
