--------------------------------- MODULE Trees ---------------------------------
(***************************************************************************)
(* The syntax tree of ast.h: which children a node of each kind has.        *)
(*                                                                          *)
(* A node is a label and its children, a leaf is one word.  A sort names    *)
(* the nodes that may stand in one place; the children of a node are given  *)
(* as the sorts its structure in ast.h has members of.                      *)
(***************************************************************************)
EXTENDS Integers, Sequences, SequencesExt

Infix  == {"Or", "And", "BitOr", "BitXor", "BitAnd", "Gt", "Lt", "Eq", "Ne", "Ge", "Le",
           "ShiftLeft", "ShiftRight", "Add", "Sub", "Mul", "Div", "Mod", "Pow", "Comma"}
Prefix == {"Not", "BitNot", "Neg"}
Counts == {"PreInc", "PostInc", "PreDec", "PostDec"}

(* ExprNode: the nodes of each shape.                                         *)
ExprFields(label) ==
  CASE label \in {"Int", "Float", "String", "Bool", "Var", "AddressOf", "EmptyList",
                  "LockFree"}                      -> {<<"word">>}
    [] label = "Nullptr"                           -> {<<>>}
    [] label \in Prefix \cup Counts \cup {"Deref", "Length", "SizeOf"} -> {<<"expr">>}
    [] label \in {"SizeOfType", "AlignOf"}         -> {<<"type">>}
    [] label \in {"Limit", "OffsetOf"}             -> {<<"word", "type">>}
    [] label = "Exchange"                          -> {<<"expr", "word">>}
    [] label = "Fetch"                             -> {<<"word", "expr", "word">>}
    [] label = "Cast"                              -> {<<"expr", "type">>}
    [] label = "Choose"                            -> {<<"expr", "expr", "expr">>}
    [] label = "Compound"                          -> {<<"type", "braces">>}
    [] label = "Select"                            -> {<<"expr", "associations">>}
    [] label \in Infix \cup {"Element", "Item"}    -> {<<"expr", "expr">>}
    [] label \in {"Member", "Math"}                -> {<<"word", "expr">>}
    [] label = "Enumerator"                        -> {<<"word", "word">>}
    [] label = "Call"                              -> {<<"word", "args">>}
    [] label = "CallThrough"                       -> {<<"expr", "args">>}
    [] label = "List"                              -> {<<"items">>}
    [] label = "VaArg"                             -> {<<"type">>, <<"word", "type">>}
    [] OTHER                                       -> {}

(* TypeSpec: a bound and the operand of type of are a word or an expression.  *)
TypeFields(label) ==
  CASE label \in {"StructType", "UnionType", "EnumType", "Alias", "BitInt", "UBitInt", "Exact",
                  "UExact", "Least", "Fast", "ULeast", "UFast"} -> {<<"word">>}
    [] label = "NullptrType"                       -> {<<>>}
    [] label \in {"TypeOf", "TypeOfUnqual"}        -> {<<"word">>, <<"expr">>}
    [] label = "Pointer"                           -> {<<"type">>}
    [] label = "Array"                             -> {<<"type", "word">>, <<"type", "expr">>}
    [] label = "Function"                          -> {<<"parameters", "type">>}
    [] OTHER                                       -> {}

(* StmtNode.                                                                  *)
StmtFields(label) ==
  CASE label \in {"Break", "Continue", "VaEnd", "AtomicFence"} -> {<<>>}
    [] label \in {"Read", "ReadFloat", "Comment", "Warning", "Goto", "Label", "VaStart",
                  "VaCopy", "VaCopyEnd"}           -> {<<"word">>}
    [] label = "Say"                               -> {<<"items">>}
    [] label = "Set"                               -> {<<"word", "expr">>}
    [] label \in {"AddTo", "SubFrom", "Append", "Remove", "AtomicStore"} -> {<<"expr", "word">>}
    [] label = "StoreThrough"                      -> {<<"expr", "expr">>}
    [] label = "StoreElement"                      -> {<<"expr", "expr", "expr">>}
    [] label = "StoreMember"                       -> {<<"word", "expr", "expr">>}
    [] label = "Replace"                           -> {<<"expr", "word", "expr">>}
    [] label = "Declare" -> {<<"word", "attributes", "storage", "type", "init">>}
    [] label \in {"Structure", "Union"}            -> {<<"word", "fields">>}
    [] label = "Enumeration"                       -> {<<"word", "enumerators">>}
    [] label = "TypeAlias"                         -> {<<"word", "type">>}
    [] label \in {"Repeat", "While"}               -> {<<"expr", "body">>}
    [] label = "If"                                -> {<<"expr", "body", "body">>}
    [] label = "CompileIf"                         -> {<<"word", "body", "elifs", "body">>}
    [] label = "DoWhile"                           -> {<<"body", "expr">>}
    [] label = "ForEach"                           -> {<<"word", "expr", "body">>}
    [] label = "For"                               -> {<<"word", "expr", "word", "expr", "body">>}
    [] label = "Switch"                            -> {<<"expr", "clauses">>}
    [] label = "CallStmt"                          -> {<<"word", "args">>}
    [] label = "CallThroughStmt"                   -> {<<"expr", "args">>}
    [] label = "Procedure"   -> {<<"word", "params", "returns", "specifiers", "body">>}
    [] label = "Return"                            -> {<<>>, <<"expr">>}
    [] label = "StaticAssert"                      -> {<<"expr">>, <<"expr", "word">>}
    [] label = "Assert"                            -> {<<"expr">>}
    [] label = "Import"                            -> {<<"word", "word">>}
    [] label = "ImportFunction"                    -> {<<"word", "parameters", "type", "word">>}
    [] label \in {"ImportObject", "ImportConstant"} -> {<<"word", "type", "word">>}
    [] OTHER                                       -> {}

(* The structures that only stand in others.                                  *)
InnerFields(sort, label) ==
  CASE sort = "type" /\ label = "Type"             -> {<<"qualifiers", "spec">>}
    [] sort = "field" /\ label \in {"Field", "FlexibleField"} -> {<<"word", "type">>}
    [] sort = "field" /\ label = "BitField"        -> {<<"word", "type", "word">>}
    [] sort = "field" /\ label = "UnnamedBits"     -> {<<"type", "word">>}
    [] sort = "enumerator" /\ label = "EnumeratorDef" ->
         {<<"word">>, <<"word", "word">>, <<"word", "word", "word">>}
    [] sort = "elif" /\ label = "Elif"             -> {<<"word", "body">>}
    [] sort = "clause" /\ label = "Clause"         -> {<<"body">>, <<"body", "expr">>}
    [] sort = "param" /\ label = "Param"           -> {<<"word">>, <<"word", "type">>}
    [] sort \in {"param", "parameter"} /\ label = "Variadic" -> {<<>>}
    [] sort = "association" /\ label = "As"        -> {<<"type", "expr">>}
    [] sort = "association" /\ label = "Default"   -> {<<"expr">>}
    [] sort = "entry" /\ label = "Entry"           -> {<<"value">>, <<"word", "value">>}
    [] sort = "returns" /\ label = "Returns"       -> {<<>>, <<"type">>}
    [] sort = "init" /\ label = "Init"             -> {<<>>, <<"value">>}
    [] OTHER                                       -> {}

(* The vectors: the label of each and the sort of its elements.               *)
Lists ==
  [items |-> <<"Items", "expr">>, args |-> <<"Args", "expr">>,
   associations |-> <<"Associations", "association">>, parameters |-> <<"Parameters", "parameter">>,
   qualifiers |-> <<"Qualifiers", "word">>, attributes |-> <<"Attributes", "word">>,
   storage |-> <<"Storage", "word">>, specifiers |-> <<"Specifiers", "word">>,
   fields |-> <<"Fields", "field">>, enumerators |-> <<"Enumerators", "enumerator">>,
   body |-> <<"Body", "stmt">>, elifs |-> <<"Elifs", "elif">>, clauses |-> <<"Clauses", "clause">>,
   params |-> <<"Params", "param">>, program |-> <<"Program", "stmt">>]

FieldsOf(sort, label) ==
  CASE sort = "expr" -> ExprFields(label)
    [] sort = "spec" -> TypeFields(label)
    [] sort = "stmt" -> StmtFields(label)
    [] OTHER         -> InnerFields(sort, label)

(* A sort whose nodes are of more than one kind.                              *)
RECURSIVE IsOf(_, _)
Children(t, sorts) ==
  /\ Len(t) = Len(sorts) + 1
  /\ \A k \in DOMAIN sorts : IsOf(t[k + 1], sorts[k])
IsOf(t, sort) ==
  CASE sort = "word" -> Len(t) = 1
    [] sort \in DOMAIN Lists ->
         t[1] = Lists[sort][1] /\ \A k \in 2 .. Len(t) : IsOf(t[k], Lists[sort][2])
    [] sort = "braces" ->
         t[1] = "Braces" /\ \A k \in 3 .. Len(t) :
           IsOf(t[k], IF t[2] = <<"value">> THEN "expr" ELSE "entry")
    [] sort = "value" /\ t[1] = "Braces" -> IsOf(t, "braces")
    [] sort = "value" /\ t[1] # "Braces" -> IsOf(t, "expr")
    [] sort = "parameter" /\ t[1] # "Variadic" -> IsOf(t, "type")
    [] sort = "spec" /\ t[1] = "Basic" -> \A k \in 2 .. Len(t) : IsOf(t[k], "word")
    [] OTHER -> \E sorts \in FieldsOf(sort, t[1]) : Children(t, sorts)
==============================================================================
