--------------------------------- MODULE Texts ---------------------------------
(***************************************************************************)
(* A source text written one phrase after another, read by the parser and   *)
(* written back by the printer.  The state is the text with what the parser *)
(* makes of it, and every text that can still become a program is reached.  *)
(***************************************************************************)
EXTENDS Printing, Trees

CONSTANT Books     (* a book: what its texts are about, how they open, the      *)
                   (* phrases they are made of, and how many                    *)

VARIABLES
  book,            (* the book the text is written from                         *)
  text,            (* its phrases so far                                        *)
  reading          (* what the parser makes of them                             *)

textVars == <<book, text, reading>>

Words == FlattenSeq(<<book.opening>> \o text)

(* The parser stops at the first word it cannot read: a text that ends too    *)
(* early is stopped at its end.                                               *)
CanContinue(words, r) == r.ok \/ r.i > Len(words)

TextInit == book \in Books /\ text = <<>> /\ reading = Program(Words)

WritePhrase(p) ==
  LET words == Words \o p
      read  == Program(words)
  IN /\ Len(text) < book.length
     /\ CanContinue(words, read)
     /\ text' = Append(text, p)
     /\ reading' = read
     /\ UNCHANGED book

TextNext == \E p \in book.phrases : WritePhrase(p)
TextSpec == TextInit /\ [][TextNext]_textVars

------------------------------------------------------------------------------
(* What the printer cannot write back, each case a line of the README.        *)

(* The words written for t end in an operand that would take an operator      *)
(* that follows; par as in Write.                                             *)
RECURSIVE OpenAtEnd(_, _)
OpenAtEnd(par, t) ==
  CASE t[1] \in {"Choose", "Comma", "Exchange"} -> ~ (par /\ t[1] = "Comma")
    [] t[1] \in (Infix \cup Prefix) \ {"Comma"} -> ~ par /\ OpenAtEnd(par, Last(t))
    [] t[1] = "Array" -> Len(t[3]) > 1
    [] t[1] \in {"Cast", "AlignOf", "SizeOfType", "VaArg", "Type", "Pointer", "Function", "Limit",
                 "OffsetOf", "Deref", "Length", "SizeOf", "Member", "Element", "Item", "Math"}
                \cup Counts -> OpenAtEnd(par, Last(t))
    [] OTHER -> FALSE

NoWords(t)   == t[1] \in Unprinted \cup {"Comma"}
OtherName(t) == t[1] = "Math" /\ t[2][1] \in {"real", "imaginary", "atomic_load"}
LeftOpen(t)  == t[1] \in Infix /\ OpenAtEnd(TRUE, t[2])
DropsFlag(t) ==
  \/ t[1] = "Parameters" /\ <<"Variadic">> \in ToSet(Tail(t))
  \/ t[1] = "Attributes" /\ ~ ToSet(Tail(t)) \subseteq {Leaf("deprecated"), Leaf("unused")}
  \/ t[1] = "Storage" /\ Len(t) > 1
NoNesting(t) ==
  t[1] = "Compound" /\ \E k \in 3 .. Len(t[3]) : t[3][k][1] = "Entry" /\ Last(t[3][k])[1] = "Braces"
NoTakes(t)    == t = <<"Params", <<"Variadic">>>>
OtherValue(t) == t[1] \in DOMAIN Rewritten
BoundAgain(t) == t[1] = "Array" /\ t[3][1] = "Int"

RECURSIVE Nodes(_)
Nodes(t) == {t} \cup UNION {Nodes(t[k]) : k \in 2 .. Len(t)}
Lossy(t) ==
  \/ NoWords(t)
  \/ OtherName(t)
  \/ LeftOpen(t)
  \/ DropsFlag(t)
  \/ NoNesting(t)
  \/ NoTakes(t)
  \/ OtherValue(t)
  \/ BoundAgain(t)

------------------------------------------------------------------------------
(* The parser builds the nodes ast.h declares, with the children it declares. *)
TreesConform == reading.ok => IsOf(reading.t, "program")

(* What --print-ast writes for a program is a program again, and the parser   *)
(* reads it as the same tree: the printer (ast_printer.cpp) writes every       *)
(* closing word and parenthesis the parser (parser.cpp) needs, outside the     *)
(* listed cases.                                                               *)
RoundTrip ==
  LET again == Program(PrintAST(reading.t)) IN
  reading.ok /\ (\A t \in Nodes(reading.t) : ~ Lossy(t)) =>
    again.ok /\ again.t = reading.t

(* The precedence grammar.md states (low to high), independently of the        *)
(* functions of the parser.                                                    *)
Binding(label) ==
  CASE label = "Or"               -> 1
    [] label = "And"              -> 2
    [] label = "BitOr"            -> 3
    [] label = "BitXor"           -> 4
    [] label = "BitAnd"           -> 5
    [] label \in {"Not", "BitNot"} -> 6
    [] label \in {"Gt", "Lt", "Eq", "Ne", "Ge", "Le"} -> 7
    [] label \in {"ShiftLeft", "ShiftRight"} -> 8
    [] label \in {"Add", "Sub"}   -> 9
    [] label \in {"Mul", "Div", "Mod"} -> 10
    [] label = "Pow"              -> 11
    [] OTHER                      -> 12
Chains(label) == Binding(label) # 7
Misplaced(t) ==
  LET n == Binding(t[1]) IN
  \/ /\ t[1] \in Infix \ {"Comma"}
     /\ \/ Binding(t[2][1]) < n \/ (Binding(t[2][1]) = n /\ ~ Chains(t[1]))
        \/ Binding(t[3][1]) <= n
        \/ OpenAtEnd(FALSE, t[2])
  \/ t[1] \in {"Not", "BitNot"} /\ Binding(t[2][1]) < n
  \/ t[1] \in {"Neg", "Deref", "Length", "SizeOf", "Cast"} \cup Counts /\ Binding(t[2][1]) < 12

(* An expression without parentheses is grouped by the precedence of           *)
(* grammar.md: its tree, written without parentheses, is the text, and no      *)
(* operand of an operator binds weaker than the operator (parseOr to           *)
(* parsePower, and the forms of parsePrimary that take one primary).           *)
Precedence ==
  book.about = "expressions" /\ reading.ok /\ "(" \notin ToSet(Words) =>
    /\ Write(FALSE, reading.t) = Words
    /\ \A t \in Nodes(reading.t) : ~ Misplaced(t)

------------------------------------------------------------------------------
(* Blocks by their sentences alone: a stack of what is open, each sentence     *)
(* opening one, turning its top into another part, or closing it.  A Switch    *)
(* without a clause is refused, after its closing words have been read.        *)

Kinship == [unless |-> "if", until |-> "while"]
Kin(w)  == IF w \in DOMAIN Kinship THEN Kinship[w] ELSE w
Openers == {"if", "unless", "while", "until", "do", "for", "repeat", "switch", "compile",
            "procedure"}

(* The stacks after a sentence; none if the sentence cannot stand here.        *)
Turn(stack, tops, top) ==
  IF stack # <<>> /\ Head(stack) \in tops THEN {<<top>> \o Tail(stack)} ELSE {}
Close(stack, tops) == IF stack # <<>> /\ Head(stack) \in tops THEN {Tail(stack)} ELSE {}
AfterSentence(stack, p) ==
  CASE p[1] = "else"      -> Turn(stack, {"if"}, "else")
    [] p[1] = "elif"      -> Turn(stack, {"compile"}, "compile")
    [] p[1] = "when"      -> Turn(stack, {"switch", "clause"}, "clause")
    [] p[1] = "otherwise" -> Turn(stack, {"switch", "clause"}, "clause")
                             \cup Turn(stack, {"compile"}, "rest")
    [] p[1] = "end"       ->
         Close(stack, CASE Kin(p[2]) = "if"      -> {"if", "else"}
                        [] Kin(p[2]) = "compile" -> {"compile", "rest"}
                        [] Kin(p[2]) = "switch"  -> {"clause"}
                        [] OTHER                 -> {Kin(p[2])})
         \cup (IF p[2] = "switch" THEN Turn(stack, {"switch"}, "empty switch") ELSE {})
    [] stack # <<>> /\ Head(stack) \in {"switch", "empty switch"} -> {}
    [] p[1] \in Openers   -> {<<Kin(p[1])>> \o stack}
    [] OTHER              -> {stack}
RECURSIVE Stacks(_)
Stacks(sentences) ==
  IF sentences = <<>> THEN {<<>>}
  ELSE UNION {AfterSentence(s, Last(sentences)) : s \in Stacks(Front(sentences))}

(* The parser accepts a text of whole sentences exactly when every block ends   *)
(* with its own closing words, innermost first, and goes on reading exactly     *)
(* while that is still possible (parseBlockUntil and the blocks that use it).   *)
Blocks ==
  book.about = "blocks" =>
    /\ reading.ok <=> <<>> \in Stacks(text)
    /\ \A p \in book.phrases :
         CanContinue(Words \o p, Program(Words \o p)) <=> Stacks(Append(text, p)) # {}
==============================================================================
