------------------------------- MODULE Semantics -------------------------------
(***************************************************************************)
(* The parts of sema that are models of their own, and the command that runs *)
(* the phases, side by side: a behaviour is one of one part, while the others *)
(* rest.                                                                      *)
(***************************************************************************)
EXTENDS Expressions, ShortCircuit, TypeTables, Driver, Contexts

VARIABLE part   (* who moves *)

vars == <<part, expressionVars, terms, typeVars, contextVars, driverVars>>

ExpressionsRest == kit = {} /\ stack = <<>>
TermsRest == terms = <<>>
TypesRest ==
  /\ shelf = {} /\ program = <<>> /\ step = 0 /\ tags = <<>> /\ refused = FALSE /\ printed = {}
ContextRests ==
  /\ vocabulary = [words |-> {}, size |-> 0] /\ said = 0 /\ open = <<>> /\ fn = 1 /\ rejected = FALSE
  /\ context = Fresh(FALSE) /\ own = <<Unsaid(FALSE)>>
CommandRests ==
  /\ request = <<>> /\ verdict = <<>> /\ code = <<>> /\ generated = <<>> /\ executable = <<>>
  /\ at = [i \in Invocations |-> "rest"] /\ wrote = {} /\ failed = {}

Init ==
  \/ /\ part = "expressions" /\ EInit
     /\ TermsRest /\ TypesRest /\ ContextRests /\ CommandRests
  \/ /\ part = "terms" /\ SInit
     /\ ExpressionsRest /\ TypesRest /\ ContextRests /\ CommandRests
  \/ /\ part = "types" /\ TInit
     /\ ExpressionsRest /\ TermsRest /\ ContextRests /\ CommandRests
  \/ /\ part = "contexts" /\ CInit
     /\ ExpressionsRest /\ TermsRest /\ TypesRest /\ CommandRests
  \/ /\ part = "driver" /\ DInit
     /\ ExpressionsRest /\ TermsRest /\ TypesRest /\ ContextRests

Next ==
  \/ /\ part = "expressions" /\ ENext
     /\ UNCHANGED <<part, terms, typeVars, contextVars, driverVars>>
  \/ /\ part = "terms" /\ SNext
     /\ UNCHANGED <<part, expressionVars, typeVars, contextVars, driverVars>>
  \/ /\ part = "types" /\ TNext
     /\ UNCHANGED <<part, expressionVars, terms, contextVars, driverVars>>
  \/ /\ part = "contexts" /\ CNext
     /\ UNCHANGED <<part, expressionVars, terms, typeVars, driverVars>>
  \/ /\ part = "driver" /\ DNext
     /\ UNCHANGED <<part, expressionVars, terms, typeVars, contextVars>>

Spec == Init /\ [][Next]_vars

==============================================================================
