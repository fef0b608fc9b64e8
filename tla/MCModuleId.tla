------------------------------ MODULE MCModuleId ------------------------------
(* Instances of ModuleId for TLC: every request of up to MaxLen characters, and those of up to
   MaxLen + 2 with one letter only, from a script, a top-level module and one in a directory. *)
EXTENDS ModuleId

CONSTANT MaxLen

Strings(chars, max) == UNION {[1..n -> chars \cup {"/", "."}] : n \in 0..max}
MCRequest == Strings(Char, MaxLen) \cup Strings({"a"}, MaxLen + 2)
MCBase == {<<"a">>, <<"a", "/", "b">>}
ASSUME BasesAreIdsHere == BasesAreIds
===============================================================================
