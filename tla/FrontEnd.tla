-------------------------------- MODULE FrontEnd --------------------------------
(***************************************************************************)
(* The tokenizer on texts of characters and the parser and printer on texts   *)
(* of words, side by side: a behaviour writes a text of one kind, while the   *)
(* other rests.                                                               *)
(***************************************************************************)
EXTENDS Tokenizer, Texts

VARIABLE part   (* who moves *)

vars == <<part, sourceVars, textVars>>

SourceRests == alphabet = [characters |-> {}, size |-> 0] /\ source = <<>>
TextRests   ==
  /\ book = [about |-> "none", opening |-> <<>>, phrases |-> {}, length |-> 0]
  /\ text = <<>>
  /\ reading = Program(Words)

Init ==
  \/ part = "tokenizer" /\ KInit /\ TextRests
  \/ part = "parser" /\ SourceRests /\ TextInit

Next ==
  \/ part = "tokenizer" /\ KNext /\ UNCHANGED <<part, textVars>>
  \/ part = "parser" /\ TextNext /\ UNCHANGED <<part, sourceVars>>

Spec == Init /\ [][Next]_vars
==============================================================================
