---------------------------- MODULE MCRuntimeLists ----------------------------
(* Finite instances of RuntimeLists.                                          *)
EXTENDS RuntimeLists, TLC

CONSTANTS x, y, a, b, s, junk, none

NumberLists == [v \in Vars |-> "number"]

(* Two variables of one type, two numbers: none of them is special.           *)
Symmetry == Permutations({x, y}) \cup Permutations({a, b})
===============================================================================
