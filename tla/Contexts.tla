------------------------------- MODULE Contexts -------------------------------
(***************************************************************************)
(* The context in which sema checks a statement: the depths that make Break   *)
(* and Continue legal, the labels of the function, the cursors of variadic     *)
(* arguments, and their saving and restoring around a Procedure, which may     *)
(* stand in the middle of the main program and of its blocks.                  *)
(*                                                                          *)
(* The statements of a program are words, said in source order; a vocabulary says     *)
(* which words a program is made of and how many.  own keeps, for each C        *)
(* function, what was said in it: nothing of sema reads it.                     *)
(***************************************************************************)
EXTENDS Integers, Sequences

CONSTANT Vocabularies
ASSUME VocabulariesAssumption == \A v \in Vocabularies : v.size \in Nat

VARIABLES
  vocabulary,      (* the words of this program                                   *)
  said,            (* how many have been said                                     *)
  open,            (* the blocks and procedures that are not closed, innermost first *)
  context,         (* the members of Sema                                         *)
  fn,              (* the C function the words are in                             *)
  own,             (* per function: what was said in it                           *)
  rejected         (* a diagnostic was reported                                   *)

contextVars == <<vocabulary, said, open, context, fn, own, rejected>>

Blocks == {"loop", "switch", "other"}
Fresh(variadic) ==
  [loop |-> 0, breakable |-> 0, variadic |-> variadic, started |-> FALSE, copies |-> {},
   labels |-> {}, gotos |-> {}]
(* What C makes of a function's words.                                         *)
Unsaid(variadic) ==
  [labels |-> {}, gotos |-> {}, variadic |-> variadic, started |-> FALSE, copies |-> {},
   wrong |-> FALSE, abandoned |-> FALSE]

CInit ==
  /\ vocabulary \in Vocabularies
  /\ said = 0 /\ open = <<>> /\ fn = 1 /\ rejected = FALSE
  /\ context = Fresh(FALSE) /\ own = <<Unsaid(FALSE)>>

(* The first diagnostic decides: the program is not compiled.                  *)
Say(word) ==
  /\ word \in vocabulary.words /\ said < vocabulary.size /\ ~ rejected
  /\ said' = said + 1
  /\ UNCHANGED vocabulary
Stay == UNCHANGED <<open, fn>>
Check(legal) == rejected' = ~ legal
(* What was said in this function; the word is wrong in C unless right.         *)
Mine == own[fn]
Noted(right) == Mine.wrong \/ ~ right

(* The blocks around the word inside its own function.                         *)
Inside(kinds) ==
  \E k \in DOMAIN open : open[k].is \in kinds /\ \A j \in 1 .. k : open[j].is # "procedure"

Deeper(is, by) ==
  [context EXCEPT !.loop = IF is = "loop" THEN @ + by ELSE @,
                  !.breakable = IF is \in {"loop", "switch"} THEN @ + by ELSE @]

OpenBlock(is) ==
  /\ Say(<<is>>)
  /\ open' = <<[is |-> is]>> \o open
  /\ context' = Deeper(is, 1)
  /\ UNCHANGED <<fn, own, rejected>>

CloseBlock ==
  /\ Say(<<"end">>) /\ open # <<>> /\ open[1].is \in Blocks
  /\ open' = Tail(open)
  /\ context' = Deeper(open[1].is, -1)
  /\ UNCHANGED <<fn, own, rejected>>

Procedure(variadic) ==
  /\ Say(<<IF variadic THEN "variadic" ELSE "procedure">>)
  /\ open' = <<[is |-> "procedure", saved |-> context, caller |-> fn]>> \o open
  /\ context' = Fresh(variadic)
  /\ fn' = Len(own) + 1
  /\ own' = Append(own, Unsaid(variadic))
  /\ UNCHANGED rejected

(* Mutants: the caller's cursors, or its jumps, are not put back.               *)
RestoredWithoutCursors(saved) ==
  [saved EXCEPT !.started = context.started, !.copies = context.copies]
RestoredWithoutGotos(saved) == [saved EXCEPT !.gotos = {}]
Restored(saved) == saved

(* validateLabels: a target without its label.                                  *)
LabelsMatch == context.gotos \subseteq context.labels

EndProcedure ==
  /\ Say(<<"end">>) /\ open # <<>> /\ open[1].is = "procedure"
  /\ Check(LabelsMatch)
  /\ context' = Restored(open[1].saved)
  /\ fn' = open[1].caller
  /\ open' = Tail(open)
  /\ UNCHANGED own

Break ==
  /\ Say(<<"break">>) /\ Stay
  /\ Check(context.breakable > 0)
  /\ own' = [own EXCEPT ![fn].wrong = Noted(Inside({"loop", "switch"}))]
  /\ UNCHANGED context

Continue ==
  /\ Say(<<"continue">>) /\ Stay
  /\ Check(context.loop > 0)
  /\ own' = [own EXCEPT ![fn].wrong = Noted(Inside({"loop"}))]
  /\ UNCHANGED context

Goto(l) ==
  /\ Say(<<"goto", l>>) /\ Stay
  /\ context' = [context EXCEPT !.gotos = @ \cup {l}]
  /\ own' = [own EXCEPT ![fn].gotos = @ \cup {l}]
  /\ UNCHANGED rejected

Label(l) ==
  /\ Say(<<"label", l>>) /\ Stay
  /\ Check(l \notin context.labels)
  /\ context' = [context EXCEPT !.labels = @ \cup {l}]
  /\ own' = [own EXCEPT ![fn] = [Mine EXCEPT !.labels = Mine.labels \cup {l},
                                             !.wrong = Noted(l \notin Mine.labels)]]

Start ==
  /\ Say(<<"start">>) /\ Stay
  /\ Check(context.variadic /\ ~ context.started)
  /\ context' = [context EXCEPT !.started = TRUE]
  /\ own' = [own EXCEPT ![fn] = [Mine EXCEPT !.started = TRUE,
                                             !.wrong = Noted(Mine.variadic /\ ~ Mine.started)]]

(* Finish forgets the copies, which C wants ended one by one.                   *)
Finish ==
  /\ Say(<<"finish">>) /\ Stay
  /\ Check(context.variadic /\ context.started)
  /\ context' = [context EXCEPT !.started = FALSE, !.copies = {}]
  /\ own' = [own EXCEPT ![fn] = [Mine EXCEPT !.started = FALSE,
                                             !.abandoned = Mine.abandoned \/ Mine.copies # {},
                                             !.wrong = Noted(Mine.started)]]

Copy(c) ==
  /\ Say(<<"copy", c>>) /\ Stay
  /\ Check(context.variadic /\ context.started /\ c \notin context.copies)
  /\ context' = [context EXCEPT !.copies = @ \cup {c}]
  /\ own' = [own EXCEPT ![fn] = [Mine EXCEPT !.copies = Mine.copies \cup {c},
                                             !.wrong = Noted(Mine.started /\ c \notin Mine.copies)]]

FinishCopy(c) ==
  /\ Say(<<"finish", c>>) /\ Stay
  /\ Check(context.variadic /\ c \in context.copies)
  /\ context' = [context EXCEPT !.copies = @ \ {c}]
  /\ own' = [own EXCEPT ![fn] = [Mine EXCEPT !.copies = Mine.copies \ {c},
                                             !.wrong = Noted(c \in Mine.copies)]]

(* Next variadic argument, from the list or from a copy.                        *)
NextArgument ==
  /\ Say(<<"next">>) /\ Stay
  /\ Check(context.variadic /\ context.started)
  /\ own' = [own EXCEPT ![fn].wrong = Noted(Mine.started)]
  /\ UNCHANGED context
NextFrom(c) ==
  /\ Say(<<"next", c>>) /\ Stay
  /\ Check(context.variadic /\ context.started /\ c \in context.copies)
  /\ own' = [own EXCEPT ![fn].wrong = Noted(c \in Mine.copies)]
  /\ UNCHANGED context

(* The end of the program is the end of main.                                   *)
EndProgram ==
  /\ open = <<>> /\ ~ rejected /\ said <= vocabulary.size
  /\ said' = vocabulary.size + 1
  /\ Check(LabelsMatch)
  /\ UNCHANGED <<vocabulary, open, context, fn, own>>

Names == {"a", "b"}
CNext ==
  \/ \E is \in Blocks : OpenBlock(is)
  \/ CloseBlock
  \/ \E variadic \in BOOLEAN : Procedure(variadic)
  \/ EndProcedure
  \/ Break
  \/ Continue
  \/ \E l \in Names : Goto(l)
  \/ \E l \in Names : Label(l)
  \/ Start
  \/ Finish
  \/ \E c \in Names : Copy(c)
  \/ \E c \in Names : FinishCopy(c)
  \/ NextArgument
  \/ \E c \in Names : NextFrom(c)
  \/ EndProgram
CSpec == CInit /\ [][CNext]_contextVars

------------------------------------------------------------------------------
Finished == said = vocabulary.size + 1
(* Every jump of a function has its one label there, every Break and Continue a   *)
(* statement to leave, every argument an open cursor.                             *)
Sensible(f) == ~ own[f].wrong /\ own[f].gotos \subseteq own[f].labels
Abandons == \E f \in DOMAIN own : own[f].abandoned

(* An accepted program is sensible in every C function, whatever stood between    *)
(* its statements, and a rejected one is not in some one: around a Procedure    *)
(* no label, jump or depth is lost or leaks (checkStmt, validateLabels).             *)
JumpsLand ==
  ~ Abandons =>
    /\ Finished /\ ~ rejected => \A f \in DOMAIN own : Sensible(f)
    /\ rejected => \E f \in DOMAIN own : ~ Sensible(f)

(* Between two words the cursors are those of the function the next word is in,    *)
(* and no other's (VaStart, VaEnd, VaCopy, VaCopyEnd, VaArg).                      *)
CursorsAreOwn ==
  ~ Abandons => context.started = own[fn].started /\ context.copies = own[fn].copies
==============================================================================
