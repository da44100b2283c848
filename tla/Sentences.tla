------------------------------ MODULE Sentences ------------------------------
(***************************************************************************)
(* The parser's statements: the verb selects a row, blocks run to their     *)
(* closing words, and a program is statements up to the end of the file.    *)
(* The optional articles of the imports, which the parser skips, are not    *)
(* among the words, and a deprecation message is read and left out.         *)
(***************************************************************************)
EXTENDS Phrases

(* alias_table.cpp: the verbs that mean the same statement.                   *)
Aliases ==
  [set |-> {"set", "let", "make", "assign", "put"},
   say |-> {"say", "print", "show", "display", "write", "output"},
   declare |-> {"declare", "create"}, add |-> {"add", "sum"},
   subtract |-> {"subtract", "deduct", "take"},
   increase |-> {"increase", "raise", "grow"},
   decrease |-> {"decrease", "reduce", "lower"},
   append |-> {"append", "push"}, return |-> {"return", "yield"},
   warning |-> {"warn", "warning"}]
Verb(w) == IF \E v \in DOMAIN Aliases : w \in Aliases[v]
           THEN CHOOSE v \in DOMAIN Aliases : w \in Aliases[v] ELSE w

------------------------------------------------------------------------------
(* The rows, in the order of the tests of parseStmt.                          *)

AssignRows == <<
  Row("Say", <<"say">>, <<"<items>", ".">>),
  Row("StoreThrough", <<"set", "value", "at">>, <<"<expr>", "to", "<expr>", ".">>),
  Row("StoreElement", <<"set", "element", "at">>,
      <<"<expr>", "in", "<expr>", "to", "<expr>", ".">>),
  Row("StoreMember", <<"set", "member">>, <<"<name>", "of", "<expr>", "to", "<expr>", ".">>),
  Row("Set", <<"set">>, <<"<name>", "to", "<expr>", ".">>) >>

DeclareRows == <<
  Row("Declare", <<"declare">>,
      <<"<name>", "<attributes>", "as", "<storage>", "<type>", "<initializer>", ".">>) >>

UpdateRows == <<
  Row("AddTo", <<"add">>, <<"<expr>", "to", "<name>", ".">>),
  Row("SubFrom", <<"subtract">>, <<"<expr>", "from", "<name>", ".">>),
  Row("Increase", <<"increase">>, <<"<name>", "by", "<expr>", ".">>),
  Row("Decrease", <<"decrease">>, <<"<name>", "by", "<expr>", ".">>),
  Row("ReadFloat", <<"readfloat">>, <<"<name>", ".">>),
  Row("Read", <<"read">>, <<"<name>", ".">>) >>

ListRows == <<
  Row("Append", <<"append">>, <<"<expr>", "to", "<name>", ".">>),
  Row("Replace", <<"replace">>,
      <<"item", "at", "<expr>", "in", "<name>", "with", "<expr>", ".">>),
  Row("Remove", <<"remove">>, <<"item", "at", "<expr>", "from", "<name>", ".">>) >>

SimpleRows == <<
  Row("Warning", <<"warning">>, <<"<string>", ".">>),
  Row("Break", <<"break">>, <<".">>),
  Row("Continue", <<"continue">>, <<".">>) >>

(* Else and Otherwise are read by the part that reads the bodies.             *)
BlockRows == <<
  Row("Repeat", <<"repeat">>, <<"<expr>", ":", "<repeat>", ".">>),
  Row("Unless", <<"unless">>, <<"<expr>", "then", ":", "<branches>", ".">>),
  Row("If", <<"if">>, <<"<expr>", "then", ":", "<branches>", ".">>),
  Row("CompileIf", <<"compile", "if">>,
      <<"<name>", "is", "defined", ":", "<guarded>", "end", "compile", "if", ".">>),
  Row("Until", <<"until">>, <<"<expr>", ":", "<while>", ".">>),
  Row("While", <<"while">>, <<"<expr>", ":", "<while>", ".">>),
  Row("DoWhile", <<"do">>, <<":", "<do>", "while", "<expr>", ".">>),
  Row("ForEach", <<"for", "each">>, <<"<name>", "in", "<expr>", ":", "<for>", ".">>),
  Row("For", <<"for">>, <<"<name>", "from", "<expr>", "<direction>", "to", "<expr>", ":", "<for>", ".">>),
  Row("Switch", <<"switch">>, <<"<expr>", ":", "<clauses>", ".">>) >>

JumpRows == <<
  Row("Goto", <<"go">>, <<"to", "<name>", ".">>),
  Row("Label", <<"label">>, <<"<name>", ".">>),
  Row("CallThroughStmt", <<"call", "through">>, <<"<primary>", "<args>", ".">>),
  Row("CallStmt", <<"call">>, <<"<name>", "<args>", ".">>) >>

ProcedureRows == <<
  Row("Procedure", <<"procedure">>,
      <<"<name>", "<signature>", "<specifiers>", ":", "<procedure>", ".">>),
  Row("Return", <<"return">>, <<"<result>", ".">>) >>

AssertRows == <<
  Row("StaticAssert", <<"assert", "that">>, <<"<expr>", "<message>", ".">>),
  Row("Assert", <<"assert">>, <<"<expr>", ".">>) >>

VariadicRows == <<
  Row("VaStart", <<"start", "variadic", "arguments">>, <<"after", "<name>", ".">>),
  Row("VaCopy", <<"copy", "variadic", "arguments">>, <<"to", "<name>", ".">>),
  Row("VaCopyEnd", <<"finish", "variadic", "arguments", "copy">>, <<"<name>", ".">>),
  Row("VaEnd", <<"finish", "variadic", "arguments">>, <<".">>) >>

(* The statements parseTopLevelStmt knows and parseStmt does not.             *)
TypeDeclarationRows == <<
  Row("Structure", <<"structure">>, <<"<name>", ":", "<structure>", ".">>),
  Row("Union", <<"union">>, <<"<name>", ":", "<union>", ".">>),
  Row("Enumeration", <<"enumeration">>, <<"<name>", ":", "<enumeration>", ".">>),
  Row("TypeAlias", <<"define">>, <<"<name>", "as", "<type>", ".">>) >>

AtomicRows == <<
  Row("AtomicFence", <<"atomic", "fence">>, <<".">>),
  Row("AtomicStore", <<"atomic", "store">>, <<"<expr>", "to", "<name>", ".">>) >>

From == <<"from", "header", "<string>", ".">>
ImportRows == <<
  Row("ImportFunction", <<"import", "c", "function">>,
      <<"<name>", "taking", "<c parameters>", "<returning>", "<type word>", "<type>">> \o From),
  Row("ImportObject", <<"import", "c", "object">>, <<"<name>", "as", "<type word>", "<type>">> \o From),
  Row("ImportConstant", <<"import", "c", "constant">>, <<"<name>", "as", "<type word>", "<type>">> \o From),
  LeafRow("Import", "header", <<"import", "c", "header">>, <<"<string>", ".">>),
  LeafRow("Import", "library", <<"import", "c", "library">>, <<"<string>", ".">>),
  Row("Import", <<"import", "c">>, <<"header">>) >>          (* none of the above *)

StmtRows == AssignRows \o DeclareRows \o UpdateRows \o ListRows \o SimpleRows \o BlockRows
            \o JumpRows \o ProcedureRows \o AssertRows \o VariadicRows
TopLevelRows == StmtRows \o TypeDeclarationRows \o AtomicRows \o ImportRows
StmtTable     == Table(StmtRows)
TopLevelTable == Table(TopLevelRows)

ArrangedInPlace(t) ==   (* mutant: Increase and Decrease keep their order       *)
  CASE t[1] = "Increase" -> <<"AddTo", t[2], t[3]>>
    [] t[1] = "Decrease" -> <<"SubFrom", t[2], t[3]>>
    [] t[1] = "Unless"   -> <<"If", <<"Not", t[2]>>, t[3], t[4]>>
    [] t[1] = "Until"    -> <<"While", <<"Not", t[2]>>, t[3]>>
    [] OTHER             -> t

(* The forms that are other forms with their children arranged.               *)
Arranged(t) ==
  CASE t[1] = "Increase" -> <<"AddTo", t[3], t[2]>>
    [] t[1] = "Decrease" -> <<"SubFrom", t[3], t[2]>>
    [] t[1] = "Unless"   -> <<"If", <<"Not", t[2]>>, t[3], t[4]>>
    [] t[1] = "Until"    -> <<"While", <<"Not", t[2]>>, t[3]>>
    [] OTHER             -> t

------------------------------------------------------------------------------
(* Blocks: the words that close a body.  An If ends with either of its two    *)
(* closers, and so does a While.                                              *)
Closers(block) ==
  CASE block = "<branches>"  -> {<<"end", "if">>, <<"end", "unless">>}
    [] block = "<while>"     -> {<<"end", "while">>, <<"end", "until">>}
    [] block = "<guarded>"   -> {<<"end", "compile", "if">>}
    [] block = "<repeat>"    -> {<<"end", "repeat">>}
    [] block = "<do>"        -> {<<"end", "do">>}
    [] block = "<for>"       -> {<<"end", "for">>}
    [] block = "<clauses>"   -> {<<"end", "switch">>}
    [] block = "<procedure>" -> {<<"end", "procedure">>}
NoSeparators(block) == IF block = "<branches>" THEN {<<"else">>} ELSE {}   (* mutant *)
Separators(block) ==
  CASE block = "<branches>" -> {<<"else">>}
    [] block = "<guarded>"  -> {<<"otherwise">>, <<"elif">>}
    [] block = "<clauses>"  -> {<<"when">>, <<"otherwise">>}
    [] OTHER                -> {}
AtAny(words, ts, i) == \E ws \in words : Starts(ts, i, ws)

(* SPart is to statements what Part is to expressions.                        *)
RECURSIVE SPart(_, _, _), SParts(_, _, _, _), Statements(_, _, _), Body(_, _, _, _),
          Elifs(_, _, _), Clauses(_, _, _), Fields(_, _, _, _), Enumerators(_, _, _),
          Attributes(_, _, _), Params(_, _, _), Specifiers(_, _, _), CParameters(_, _, _)

(* Statements up to one of the words that end this body, which stay.          *)
Body(node, ends, ts, i) ==
  LET r == Only(SPart(ts, i, "<stmt>")) IN
  IF AtAny(ends, ts, i) THEN Got(node, i)
  ELSE IF r.ok THEN Body(Append(node, r.t), ends, ts, r.i) ELSE r
Inside(block, ts, i) == Body(<<"Body">>, Closers(block) \cup Separators(block), ts, i)

(* A body and the two words that close it.                                    *)
Closed(block, ts, i) ==
  LET r == Body(<<"Body">>, Closers(block), ts, i) IN
  IF r.ok THEN Got(<<r.t>>, r.i + 2) ELSE r

Branches(ts, i) ==
  LET then == Inside("<branches>", ts, i)
      else == IF WordAt(ts, then.i) # "else" THEN Got(<<<<"Body">>>>, then.i + 2)
              ELSE IF WordAt(ts, then.i + 1) # ":" THEN Fail(then.i + 1)
              ELSE Closed("<branches>", ts, then.i + 2)
  IN IF ~ then.ok THEN then ELSE IF ~ else.ok THEN else
     ELSE Got(<<then.t>> \o else.t, else.i)

(* parseCompileIf: its three closing words are parts of its row.              *)
Elifs(node, ts, i) ==
  LET r == SParts(ts, i, <<"elif", "<name>", "is", "defined", ":">>, <<>>)
      b == Inside("<guarded>", ts, r.i)
  IN IF WordAt(ts, i) # "elif" THEN Got(node, i)
     ELSE IF ~ r.ok THEN r ELSE IF ~ b.ok THEN b
     ELSE Elifs(Append(node, <<"Elif", r.t[1], b.t>>), ts, b.i)
Guarded(ts, i) ==
  LET then  == Inside("<guarded>", ts, i)
      elifs == Elifs(<<"Elifs">>, ts, then.i)
      else  == IF WordAt(ts, elifs.i) # "otherwise" THEN Got(<<"Body">>, elifs.i)
               ELSE IF WordAt(ts, elifs.i + 1) # ":" THEN Fail(elifs.i + 1)
               ELSE Body(<<"Body">>, Closers("<guarded>"), ts, elifs.i + 2)
  IN IF ~ then.ok THEN then ELSE IF ~ elifs.ok THEN elifs ELSE IF ~ else.ok THEN else
     ELSE Got(<<then.t, elifs.t, else.t>>, else.i)

Clauses(node, ts, i) ==
  LET head == CASE WordAt(ts, i) = "otherwise" -> SParts(ts, i + 1, <<":">>, <<>>)
                [] WordAt(ts, i) = "when"      -> SParts(ts, i + 1, <<"<expr>", ":">>, <<>>)
                [] OTHER                       -> Fail(i)
      body == Inside("<clauses>", ts, head.i)
  IN IF AtAny(Closers("<clauses>"), ts, i)
     THEN (IF Len(node) > 1 THEN Got(<<node>>, i + 2)
           ELSE Fail(IF WordAt(ts, i + 2) = "." THEN i + 3 ELSE i + 2))
     ELSE IF ~ head.ok THEN head ELSE IF ~ body.ok THEN body
     ELSE Clauses(Append(node, <<"Clause", body.t>> \o head.t), ts, body.i)

------------------------------------------------------------------------------
(* The parts of declarations: flags in a loop of options, in any order.       *)

Flags(label, order, set) ==
  LET in(f) == f \in set
      kept  == SelectSeq(order, in)
  IN <<label>> \o [k \in DOMAIN kept |-> Leaf(kept[k])]

AttributePhrases ==
  [alignment |-> <<"alignment">>, internal |-> <<"internal", "linkage">>,
   external |-> <<"external", "linkage">>, static |-> <<"static", "storage">>,
   deprecated |-> <<"deprecated">>, unused |-> <<"maybe", "unused">>]
AttributeOrder == <<"alignment", "internal", "external", "static", "deprecated", "unused">>

(* A message after "deprecated", if one stands there.                         *)
AfterMessage(flag, ts, i) ==
  IF flag = "deprecated" /\ WordAt(ts, i) \in Quoted THEN i + 1 ELSE i

Attributes(set, ts, i) ==
  LET here == {f \in DOMAIN AttributePhrases : Starts(ts, i + 1, AttributePhrases[f])}
      flag == CHOOSE f \in here : TRUE
      next == i + 1 + Len(AttributePhrases[flag])
  IN IF WordAt(ts, i) # "with" \/ here = {} THEN Got(Flags("Attributes", AttributeOrder, set), i)
     ELSE IF flag # "alignment" THEN Attributes(set \cup {flag}, ts, AfterMessage(flag, ts, next))
     ELSE IF WordAt(ts, next) \in Digits \ {"0"} THEN Attributes(set \cup {flag}, ts, next + 1)
     ELSE Fail(next)

Storage(ts, i) ==
  LET local == Starts(ts, i, <<"thread", "local">>)
      j     == IF local THEN i + 2 ELSE i
      const == WordAt(ts, j) = "constexpr"
  IN Got(Flags("Storage", <<"local", "constexpr">>,
               (IF local THEN {"local"} ELSE {}) \cup (IF const THEN {"constexpr"} ELSE {})),
         IF const THEN j + 1 ELSE j)

Initializer(ts, i) ==
  LET r == IF WordAt(ts, i + 1) = "value" THEN SPart(ts, i + 2, "<expr>")
           ELSE SPart(ts, i + 1, "<aggregate>") IN
  IF WordAt(ts, i) # "with" THEN Got(<<"Init">>, i)
  ELSE IF r.ok THEN Got(<<"Init">> \o r.t, r.i) ELSE r

(* The members of a Structure or a Union, and the values of an Enumeration.   *)
FieldParts(ts, i) ==
  CASE Starts(ts, i, <<"bit", "field", "as">>) ->
         <<"bit", "field", "as", "<type>", "with", "width", "<index>", ".">>
    [] Starts(ts, i, <<"bit", "field">>) /\ WordAt(ts, i + 2) # "as" ->
         <<"bit", "field", "<name>", "as", "<type>", "with", "width", "<index>", ".">>
    [] Starts(ts, i, <<"flexible", "field">>) ->
         <<"flexible", "field", "<name>", "as", "<type>", ".">>
    [] OTHER -> <<"field", "<name>", "as", "<type>", ".">>
FieldLabel(parts, kids) ==
  CASE Head(parts) = "field"    -> "Field"
    [] Head(parts) = "flexible" -> "FlexibleField"
    [] Len(kids) = 2            -> "UnnamedBits"
    [] OTHER                    -> "BitField"
Fields(node, closer, ts, i) ==
  LET parts == FieldParts(ts, i)
      r     == SParts(ts, i, parts, <<>>)
  IN IF Starts(ts, i, <<"end", closer>>) THEN Got(<<node>>, i + 2)
     ELSE IF ~ r.ok THEN r
     ELSE Fields(Append(node, <<FieldLabel(parts, r.t)>> \o r.t), closer, ts, r.i)

Enumerators(node, ts, i) ==
  LET head  == SParts(ts, i, <<"enumerator", "<name>">>, <<>>)
      minus == Starts(ts, head.i, <<"as", "minus">>)
      value == IF Starts(ts, head.i, <<"as", "minus", "0">>) THEN Got(<<Leaf("0")>>, head.i + 3)
               ELSE IF minus THEN SParts(ts, head.i + 2, <<"<index>">>, <<Leaf("minus")>>)
               ELSE IF WordAt(ts, head.i) = "as" THEN SParts(ts, head.i + 1, <<"<index>">>, <<>>)
               ELSE Got(<<>>, head.i)
  IN IF Starts(ts, i, <<"end", "enumeration">>) THEN Got(<<node>>, i + 2)
     ELSE IF ~ head.ok THEN head ELSE IF ~ value.ok THEN value
     ELSE IF WordAt(ts, value.i) # "." THEN Fail(value.i)
     ELSE Enumerators(Append(node, <<"EnumeratorDef">> \o head.t \o value.t), ts, value.i + 1)

(* A Procedure's parameters: all of them typed, or none.                      *)
Params(node, ts, i) ==
  LET typed == WordAt(ts, i + 1) = "as"
      r     == IF typed THEN SParts(ts, i, <<"<name>", "as", "<type>">>, <<>>)
               ELSE SParts(ts, i, <<"<name>">>, <<>>)
      mixed == \E k \in 2 .. Len(node) : (Len(node[k]) = 3) # typed
  IN IF WordAt(ts, i) \in {":", "returns"} THEN Got(node, i)
     ELSE IF Starts(ts, i, <<"and", "variadic", "parameters">>)
          THEN Got(Append(node, <<"Variadic">>), i + 3)
     ELSE IF ~ r.ok THEN r ELSE IF mixed THEN Fail(r.i)
     ELSE Params(Append(node, <<"Param">> \o r.t), ts, r.i)
Signature(ts, i) ==
  LET params  == IF WordAt(ts, i) = "takes" THEN Params(<<"Params">>, ts, i + 1)
                 ELSE Got(<<"Params">>, i)
      typed   == \E k \in 2 .. Len(params.t) : Len(params.t[k]) = 3
      untyped == \E k \in 2 .. Len(params.t) : Len(params.t[k]) = 2
      returns == WordAt(ts, params.i) = "returns"
      result  == Only(SPart(ts, params.i + 1, "<type>"))
  IN IF ~ params.ok THEN params
     ELSE IF ~ returns
          THEN (IF typed THEN Fail(params.i) ELSE Got(<<params.t, <<"Returns">>>>, params.i))
     ELSE IF ~ result.ok THEN result ELSE IF untyped THEN Fail(result.i)
     ELSE Got(<<params.t, <<"Returns", result.t>>>>, result.i)

SpecifierPhrases ==
  [inline |-> <<"inline">>, noreturn |-> <<"no", "return">>,
   deprecated |-> <<"deprecated">>, unused |-> <<"maybe", "unused">>]
SpecifierOrder == <<"inline", "noreturn", "deprecated", "unused">>
Specifiers(set, ts, i) ==
  LET here == {f \in DOMAIN SpecifierPhrases : Starts(ts, i + 1, SpecifierPhrases[f])}
      flag == CHOOSE f \in here : TRUE
      next == i + 1 + Len(SpecifierPhrases[flag])
  IN IF WordAt(ts, i) # "with" THEN Got(Flags("Specifiers", SpecifierOrder, set), i)
     ELSE IF here = {} THEN Fail(i + 1)
     ELSE Specifiers(set \cup {flag}, ts, AfterMessage(flag, ts, next))

CParameters(node, ts, i) ==
  LET r == SParts(ts, i, <<"<type word>", "<type>">>, <<>>)
      n == node \o r.t
  IN IF WordAt(ts, i) = "no" /\ Len(node) = 1
     THEN (IF WordAt(ts, i + 1) = "parameters" THEN Got(node, i + 2) ELSE Fail(i + 1))
     ELSE IF ~ r.ok THEN r
     ELSE IF WordAt(ts, r.i) # "and" THEN Got(n, r.i)
     ELSE IF WordAt(ts, r.i + 1) # "variadic" THEN CParameters(n, ts, r.i + 1)
     ELSE IF WordAt(ts, r.i + 2) # "parameters" THEN Fail(r.i + 2)
     ELSE Got(Append(n, <<"Variadic">>), r.i + 3)

------------------------------------------------------------------------------
(* parseTopLevelStmt and parseStmt: a comment, or the row of the verb.        *)
Stmt(table, ts, i) ==
  LET spoken == [ts EXCEPT ![i] = Verb(@)]
      here   == Matching(table, spoken, i)
      row    == table.rows[First(here)]
      r      == SParts(ts, i + Len(row.look), row.parts, row.leaf)
  IN CASE WordAt(ts, i) \in Comments -> Got(<<"Comment", Leaf(ts[i])>>, i + 1)
       [] ~ IsName(WordAt(ts, i)) -> Fail(i)
       [] IsName(WordAt(ts, i)) /\ here = {} -> Fail(i)
       [] OTHER -> IF r.ok THEN Got(Arranged(<<row.label>> \o r.t), r.i) ELSE r

Statements(node, ts, i) ==
  LET r == Only(SPart(ts, i, "<top level stmt>")) IN
  IF WordAt(ts, i) = Eof THEN Got(node, i)
  ELSE IF r.ok THEN Statements(Append(node, r.t), ts, r.i) ELSE r

SPart(ts, i, e) ==
  LET w == WordAt(ts, i) IN
  CASE e = "<program>"  -> Statements(<<"Program">>, ts, i)
    [] e = "<stmt>"     -> Child(Stmt(StmtTable, ts, i))
    [] e = "<top level stmt>" -> Child(Stmt(TopLevelTable, ts, i))
    [] e \in {"<repeat>", "<while>", "<do>", "<for>", "<procedure>"} -> Closed(e, ts, i)
    [] e = "<branches>"   -> Branches(ts, i)
    [] e = "<guarded>"    -> Guarded(ts, i)
    [] e = "<clauses>"    -> Clauses(<<"Clauses">>, ts, i)
    [] e = "<structure>"  -> Fields(<<"Fields">>, "structure", ts, i)
    [] e = "<union>"      -> Fields(<<"Fields">>, "union", ts, i)
    [] e = "<enumeration>" -> Enumerators(<<"Enumerators">>, ts, i)
    [] e = "<attributes>" -> Child(Attributes({}, ts, i))
    [] e = "<storage>"    -> Child(Storage(ts, i))
    [] e = "<initializer>" -> Child(Initializer(ts, i))
    [] e = "<signature>"  -> Signature(ts, i)
    [] e = "<specifiers>" -> Child(Specifiers({}, ts, i))
    [] e = "<c parameters>" -> Child(CParameters(<<"Parameters">>, ts, i))
    [] e = "<type word>"  -> Got(<<>>, IF w = "type" THEN i + 1 ELSE i)
    [] e = "<returning>"  -> IF w \in {"returning", "returns"} THEN Got(<<>>, i + 1) ELSE Fail(i)
    [] e = "<direction>"  -> IF w = "down" THEN Got(<<Leaf("down")>>, i + 1)
                             ELSE Got(<<Leaf("up")>>, i)
    [] e = "<result>"     -> IF w = "." THEN Got(<<>>, i) ELSE SPart(ts, i, "<expr>")
    [] e = "<message>"    -> IF Starts(ts, i, <<"with", "message">>) THEN SPart(ts, i + 2, "<string>")
                             ELSE Got(<<>>, i)
    [] OTHER              -> Part(ts, i, e)

SParts(ts, i, parts, kids) ==
  IF parts = <<>> THEN Got(kids, i)
  ELSE LET r == SPart(ts, i, Head(parts)) IN
       IF r.ok THEN SParts(ts, r.i, Tail(parts), kids \o r.t) ELSE r

Program(ts) == SPart(ts, 1, "<program>")
==============================================================================
