------------------------------- MODULE Printing -------------------------------
(***************************************************************************)
(* The AST printer (--print-ast): what it writes for each node of a tree,   *)
(* as words.  Operators get parentheses; everything else is left to the     *)
(* parser's own reading of the words.                                       *)
(***************************************************************************)
EXTENDS Sentences

------------------------------------------------------------------------------
(* A value is not always written as the word it was read from: %.17g leaves    *)
(* no point in a decimal without a fraction, and a string is put between       *)
(* quotes as it is, so that its backslash escapes what follows and its quote   *)
(* ends it.                                                                    *)
Rewritten ==
  ("1.0" :> <<"1">>) @@ ("'a\\b'" :> <<"'text'">>) @@ ("'a\"b'" :> <<"'c'", "b", Unclosed>>)
Spoken(w) == IF w \in DOMAIN Rewritten THEN Rewritten[w] ELSE <<w>>

(* printExpr: what is written for a node, "#n" standing for its n-th child.   *)

InfixWords ==
  [Or |-> <<"or">>, And |-> <<"and">>, BitOr |-> <<"bitwise", "or">>,
   BitXor |-> <<"bitwise", "xor">>, BitAnd |-> <<"bitwise", "and">>,
   Gt |-> <<"is", "greater", "than">>, Lt |-> <<"is", "less", "than">>,
   Eq |-> <<"is", "equal", "to">>, Ne |-> <<"is", "not", "equal", "to">>,
   Ge |-> <<"is", "greater", "than", "or", "equal", "to">>,
   Le |-> <<"is", "less", "than", "or", "equal", "to">>,
   ShiftLeft |-> <<"shifted", "left", "by">>, ShiftRight |-> <<"shifted", "right", "by">>,
   Add |-> <<"plus">>, Sub |-> <<"minus">>, Mul |-> <<"times">>,
   Div |-> <<"divided", "by">>, Mod |-> <<"mod">>, Comma |-> <<"then">>,
   Pow |-> <<"to", "the", "power", "of">>]

PrefixWords == [Not |-> <<"not">>, BitNot |-> <<"bitwise", "not">>, Neg |-> <<"minus">>]

ExprShapes ==
  [Int |-> <<"#1">>, Float |-> <<"#1">>, String |-> <<"#1">>, Bool |-> <<"#1">>,
   Nullptr |-> <<"null", "pointer">>, Var |-> <<"#1">>,
   AddressOf |-> <<"address", "of", "#1">>, Deref |-> <<"value", "at", "#1">>,
   Choose |-> <<"choose", "#1", "when", "#2", "otherwise", "#3">>,
   Compound |-> <<"compound", "value", "of", "type", "#1", "with", "#braces">>,
   Select |-> <<"select", "by", "type", "of", "#1", "with", "#2", "done">>,
   PreInc |-> <<"increment", "before", "#1">>, PostInc |-> <<"increment", "after", "#1">>,
   PreDec |-> <<"decrement", "before", "#1">>, PostDec |-> <<"decrement", "after", "#1">>,
   Cast |-> <<"convert", "#1", "to", "type", "#2">>,
   VaArg |-> <<"next", "variadic", "argument", "#from", "as", "#last">>,
   Element |-> <<"element", "at", "#1", "in", "#2">>,
   Member |-> <<"member", "#1", "of", "#2">>,
   Enumerator |-> <<"enumerator", "#1", "of", "#2">>,
   List |-> <<"list", "with", "#1", "done">>, EmptyList |-> <<"empty", "list", "of", "#1">>,
   Item |-> <<"item", "at", "#1", "in", "#2">>, Length |-> <<"length", "of", "#1">>,
   SizeOfType |-> <<"size", "of", "type", "#1">>, SizeOf |-> <<"size", "of", "#1">>,
   AlignOf |-> <<"alignment", "of", "type", "#1">>,
   Call |-> <<"call", "#1", "#2", "done">>, Math |-> <<"#1", "of", "#2">>]

TypeShapes ==
  [Type |-> <<"#1", "#2">>, Pointer |-> <<"pointer", "to", "#1">>,
   Array |-> <<"array", "of", "#1", "with", "length", "#2">>,
   Function |-> <<"function", "taking", "#1", "returning", "#2">>,
   StructType |-> <<"structure", "#1">>, UnionType |-> <<"union", "#1">>,
   EnumType |-> <<"enumeration", "#1">>, NullptrType |-> <<"null", "pointer", "type">>,
   Alias |-> <<"#1">>, TypeOf |-> <<"type", "of", "#typed">>,
   TypeOfUnqual |-> <<"type", "of", "unqualified", "#typed">>,
   BitInt |-> <<"bit", "integer", "with", "width", "#1">>,
   UBitInt |-> <<"unsigned", "bit", "integer", "with", "width", "#1">>,
   Exact |-> <<"integer", "with", "exactly", "#1", "bits">>,
   UExact |-> <<"unsigned", "integer", "with", "exactly", "#1", "bits">>,
   Least |-> <<"least", "integer", "with", "at", "least", "#1", "bits">>,
   Fast |-> <<"fast", "integer", "with", "at", "least", "#1", "bits">>,
   ULeast |-> <<"unsigned", "least", "integer", "with", "at", "least", "#1", "bits">>,
   UFast |-> <<"unsigned", "fast", "integer", "with", "at", "least", "#1", "bits">>]

(* printStmt.                                                                 *)
StmtShapes ==
  [Say |-> <<"say", "#1", ".">>, Set |-> <<"set", "#1", "to", "#2", ".">>,
   StoreThrough |-> <<"set", "value", "at", "#1", "to", "#2", ".">>,
   StoreElement |-> <<"set", "element", "at", "#1", "in", "#2", "to", "#3", ".">>,
   StoreMember |-> <<"set", "member", "#1", "of", "#2", "to", "#3", ".">>,
   AddTo |-> <<"add", "#1", "to", "#2", ".">>, SubFrom |-> <<"subtract", "#1", "from", "#2", ".">>,
   Read |-> <<"read", "#1", ".">>, ReadFloat |-> <<"readfloat", "#1", ".">>,
   Append |-> <<"append", "#1", "to", "#2", ".">>,
   Replace |-> <<"replace", "item", "at", "#1", "in", "#2", "with", "#3", ".">>,
   Remove |-> <<"remove", "item", "at", "#1", "from", "#2", ".">>,
   Comment |-> <<"#1">>, Warning |-> <<"warning", "#1", ".">>,
   Break |-> <<"break", ".">>, Continue |-> <<"continue", ".">>,
   VaStart |-> <<"start", "variadic", "arguments", "after", "#1", ".">>,
   VaEnd |-> <<"finish", "variadic", "arguments", ".">>,
   VaCopy |-> <<"copy", "variadic", "arguments", "to", "#1", ".">>,
   VaCopyEnd |-> <<"finish", "variadic", "arguments", "copy", "#1", ".">>,
   Goto |-> <<"go", "to", "#1", ".">>, Label |-> <<"label", "#1", ".">>,
   CallStmt |-> <<"call", "#1", "#2", "done", ".">>, Return |-> <<"return", "#1?", ".">>]

BlockShapes ==
  [Structure |-> <<"structure", "#1", ":", "#2", "end", "structure", ".">>,
   Union |-> <<"union", "#1", ":", "#2", "end", "union", ".">>,
   Enumeration |-> <<"enumeration", "#1", ":", "#2", "end", "enumeration", ".">>,
   Field |-> <<"field", "#1", "as", "#2", ".">>,
   FlexibleField |-> <<"flexible", "field", "#1", "as", "#2", ".">>,
   BitField |-> <<"bit", "field", "#1", "as", "#2", "with", "width", "#3", ".">>,
   UnnamedBits |-> <<"bit", "field", "as", "#1", "with", "width", "#2", ".">>,
   Repeat |-> <<"repeat", "#1", ":", "#2", "end", "repeat", ".">>,
   If |-> <<"if", "#1", "then", ":", "#2", "#else", "end", "if", ".">>,
   CompileIf |-> <<"compile", "if", "#1", "is", "defined", ":", "#2", "#3", "#otherwise",
                   "end", "compile", "if", ".">>,
   Elif |-> <<"elif", "#1", "is", "defined", ":", "#2">>,
   While |-> <<"while", "#1", ":", "#2", "end", "while", ".">>,
   DoWhile |-> <<"do", ":", "#1", "end", "do", "while", "#2", ".">>,
   ForEach |-> <<"for", "each", "#1", "in", "#2", ":", "#3", "end", "for", ".">>,
   For |-> <<"for", "#1", "from", "#2", "#down", "to", "#4", ":", "#5", "end", "for", ".">>,
   Switch |-> <<"switch", "#1", ":", "#2", "end", "switch", ".">>]

(* What the printer has no words for.                                         *)
Unprinted == {"Limit", "OffsetOf", "LockFree", "Exchange", "Fetch", "CallThrough",
              "CallThroughStmt", "TypeAlias", "StaticAssert", "Assert", "AtomicFence",
              "AtomicStore", "Import", "ImportFunction", "ImportObject", "ImportConstant"}
Unknown == <<"<unknown>">>

NotGrouped(par, ws) == ws   (* mutant: an operator is written bare               *)
Grouped(par, ws) == IF par THEN <<"(">> \o ws \o <<")">> ELSE ws

RECURSIVE Write(_, _), Piece(_, _, _)
Joined(par, kids, between) ==
  FlattenSeq([k \in DOMAIN kids |->
                (IF k > 1 THEN between ELSE <<>>) \o Write(par, kids[k])])

(* Aggregates: the with-block of a declaration, and that of a compound value. *)
Entry(par, t) ==
  CASE Len(t) = 2 -> t[2]
    [] OTHER      -> t[3]
EntryWords(par, t) ==
  (IF Len(t) = 2 THEN <<>>
   ELSE IF t[2][1] \in Digits THEN <<"at">> \o t[2] \o <<"as">> ELSE t[2] \o <<"as">>)
  \o (IF Entry(par, t)[1] = "Braces" THEN <<"with">> ELSE <<>>) \o Write(par, Entry(par, t))
EntriesWords(par, t) ==
  LET kids == SubSeq(t, 3, Len(t)) IN
  t[2] \o FlattenSeq([k \in DOMAIN kids |->
             (IF k > 1 THEN <<"followed", "by">> ELSE <<>>)
             \o (IF t[2] = Leaf("value") THEN Write(par, kids[k]) ELSE EntryWords(par, kids[k]))])
BracesWords(par, t) ==
  IF t[2] = Leaf("empty") THEN <<"empty", "braces">> ELSE EntriesWords(par, t) \o <<"done">>
CompoundWords(par, t) ==
  (IF t[2] = Leaf("empty") THEN <<"empty", "braces">> ELSE EntriesWords(par, t)) \o <<"done">>

(* Of the flags of a declaration the printer writes these.                    *)
FlagWords(t) ==
  FlattenSeq([k \in 1 .. Len(t) - 1 |->
    CASE t[k + 1] = Leaf("deprecated") -> <<"with", "deprecated">>
      [] t[k + 1] = Leaf("unused")     -> <<"with", "maybe", "unused">>
      [] t[k + 1] = Leaf("inline")     -> <<"with", "inline">>
      [] t[k + 1] = Leaf("noreturn")   -> <<"with", "no", "return">>
      [] OTHER                         -> <<>>])
DeclareWords(par, t) ==
  <<"declare">> \o t[2] \o FlagWords(t[3]) \o <<"as">> \o Write(par, t[5])
  \o (IF Len(t[6]) = 1 THEN <<>>
      ELSE IF t[6][2][1] = "Braces" THEN <<"with">> \o BracesWords(par, t[6][2])
      ELSE <<"with", "value">> \o Write(par, t[6][2])) \o <<".">>

Typed(par, kids) ==
  FlattenSeq([k \in DOMAIN kids |->
    IF kids[k][1] = "Variadic" THEN <<>>
    ELSE kids[k][2] \o (IF Len(kids[k]) = 3 THEN <<"as">> \o Write(par, kids[k][3]) ELSE <<>>)])
ProcedureWords(par, t) ==
  LET params   == Tail(t[3])
      variadic == params # <<>> /\ Last(params)[1] = "Variadic"
      none     == params = <<>> \/ params[1][1] = "Variadic"
  IN <<"procedure">> \o t[2]
     \o (IF none THEN <<>> ELSE <<"takes">> \o Typed(par, params))
     \o (IF variadic THEN <<"and", "variadic", "parameters">> ELSE <<>>)
     \o (IF Len(t[4]) = 2 THEN <<"returns">> \o Write(par, t[4][2]) ELSE <<>>)
     \o FlagWords(t[5]) \o <<":">> \o Write(par, t[6]) \o <<"end", "procedure", ".">>

(* One word of a shape.                                                       *)
Piece(par, t, e) ==
  CASE e = "#1" -> Write(par, t[2])
    [] e = "#2" -> Write(par, t[3])
    [] e = "#3" -> Write(par, t[4])
    [] e = "#4" -> Write(par, t[5])
    [] e = "#5" -> Write(par, t[6])
    [] e = "#last" -> Write(par, Last(t))
    [] e = "#1?"   -> IF Len(t) = 1 THEN <<>> ELSE Write(par, t[2])
    [] e = "#from" -> IF Len(t) = 2 THEN <<>> ELSE <<"from">> \o t[2]
    [] e = "#down" -> IF t[4] = Leaf("down") THEN <<"down">> ELSE <<>>
    [] e = "#else" -> IF Len(t[4]) = 1 THEN <<>> ELSE <<"else", ":">> \o Write(par, t[4])
    [] e = "#otherwise" ->
         IF Len(t[5]) = 1 THEN <<>> ELSE <<"otherwise", ":">> \o Write(par, t[5])
    [] e = "#typed" -> Grouped(Len(t[2]) > 1 \/ t[2] = <<"Nullptr">>, Write(par, t[2]))
    [] e = "#braces" -> CompoundWords(par, t[3])
    [] OTHER -> <<e>>
Shaped(par, t, shape) == FlattenSeq([k \in DOMAIN shape |-> Piece(par, t, shape[k])])

(* The words of a node; par says whether operators get their parentheses.     *)
Write(par, t) ==
  LET label == t[1] IN
  CASE label \in DOMAIN InfixWords ->
         Grouped(par, Write(par, t[2]) \o InfixWords[label] \o Write(par, t[3]))
    [] label \in DOMAIN PrefixWords -> Grouped(par, PrefixWords[label] \o Write(par, t[2]))
    [] label \in DOMAIN ExprShapes -> Shaped(par, t, ExprShapes[label])
    [] label \in DOMAIN TypeShapes -> Shaped(par, t, TypeShapes[label])
    [] label \in DOMAIN StmtShapes -> Shaped(par, t, StmtShapes[label])
    [] label \in DOMAIN BlockShapes -> Shaped(par, t, BlockShapes[label])
    [] label = "Declare"    -> DeclareWords(par, t)
    [] label = "Procedure"  -> ProcedureWords(par, t)
    [] label = "Braces"     -> BracesWords(par, t)
    [] label = "Items"      -> Joined(par, Tail(t), <<"followed", "by">>)
    [] label = "Parameters" ->
         LET types == SelectSeq(Tail(t), LAMBDA k : k[1] # "Variadic") IN
         IF types = <<>> THEN <<"no", "parameters">> ELSE Joined(par, types, <<"and">>)
    [] label = "Args" -> (IF Len(t) = 1 THEN <<>> ELSE <<"with">>) \o Joined(par, Tail(t), <<>>)
    [] label = "Associations" ->
         LET kids == Tail(t) IN
         FlattenSeq([k \in DOMAIN kids |->
           (IF k > 1 /\ kids[k][1] = "As" THEN <<"followed", "by">> ELSE <<>>)
           \o Write(par, kids[k])])
    [] label = "As"         -> Write(par, t[2]) \o <<"as">> \o Write(par, t[3])
    [] label = "Default"    -> <<"otherwise">> \o Write(par, t[2])
    [] label = "Clause" ->
         (IF Len(t) = 2 THEN <<"otherwise", ":">> ELSE <<"when">> \o Write(par, t[3]) \o <<":">>)
         \o Write(par, t[2])
    [] label = "EnumeratorDef" ->
         <<"enumerator">> \o t[2] \o (IF Len(t) = 2 THEN <<>> ELSE <<"as">>)
         \o FlattenSeq(SubSeq(t, 3, Len(t))) \o <<".">>
    [] label \in {"Program", "Body", "Fields", "Enumerators", "Elifs", "Clauses",
                  "Qualifiers", "Basic"} -> Joined(par, Tail(t), <<>>)
    [] label = "Variadic"   -> <<>>
    [] label \in Unprinted -> Unknown
    [] OTHER -> Spoken(t[1])      (* a leaf *)

PrintAST(t) == Write(TRUE, t)
==============================================================================
