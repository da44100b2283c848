------------------------------ MODULE MCBindings ------------------------------
(* Finite instances of Bindings.                                              *)
EXTENDS Bindings

CONSTANTS x, y, errno
===============================================================================
