----------------------------- MODULE MCReturnPath -----------------------------
(* Finite instances of ReturnPath: which statement forms a run enumerates.    *)
EXTENDS ReturnPath

CONSTANT l1

Simple == {"plain", "return", "break", "continue"}
Jumps  == {"goto", "label"}

(* Every header there is.                                                     *)
AllHeaders == {h \in Kinds \X Tests : h[1] = "foreach" => h[2] = "runtime"}
AllQuirks == {"breakInClause", "continueInRepeat", "breakInAlways"}
NoQuirks == {}
NoHeaders == {}

(* Everything on which the checker and the emitted C agree.                   *)
SoundStatements == Simple \cup Jumps \cup {"noreturnCall", "switch", "compileIf"}
SoundHeaders ==
  {h \in AllHeaders : h[1] \in {"repeat", "for"} => h[2] # "always"}
SoundQuirks == {"breakInAlways"}

(* The forms whose every checker edge is a way the C function can go.         *)
PreciseStatements == Simple \cup Jumps \cup {"switch", "compileIf"}
PreciseHeaders ==
  (Kinds \X {"runtime"}) \cup {<<"while", "always">>, <<"dowhile", "always">>}

(* The forms around each disagreement.                                        *)
SwitchStatements == {"return", "break", "switch"}
CountedStatements == {"plain"}
CountedHeaders == {<<"repeat", "always">>, <<"for", "always">>}
DeadBreakStatements == {"return", "break"}
DeadBreakHeaders == {<<"while", "always">>}
===============================================================================
