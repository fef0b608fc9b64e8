----------------------------- MODULE MCArgMarshal -----------------------------
(* Instances of ArgMarshal for TLC: its constants are bounds only. *)
EXTENDS ArgMarshal
================================================================================
