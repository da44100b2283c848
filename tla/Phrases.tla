------------------------------- MODULE Phrases -------------------------------
(***************************************************************************)
(* The parser's expressions and types, as functions from words to trees.    *)
(*                                                                          *)
(* A word stands for a token: a keyword or a name for an Ident, and one of  *)
(* the marks below for every other kind.  A parse function is an operator   *)
(* of the words and a position; it returns a tree and the position after    *)
(* it, or the position error() was called at.  Most parse functions expect  *)
(* one thing after another, so they are rows of a table: the words that     *)
(* select the row, which are consumed, and the parts that must follow.      *)
(* A part is a word that must stand there (expectWord) or, in angle         *)
(* brackets, something to be read.                                          *)
(***************************************************************************)
EXTENDS Integers, Sequences, SequencesExt

Digits   == {"0", "1", "99"}            (* 99 is the code of c               *)
Decimals == {"1.5", "1.0"}
Quoted   == {"'c'", "'text'",           (* of one character, and longer         *)
             "'a\\b'", "'a\"b'"}        (* with a backslash, with a quote inside *)
Unclosed == "<unclosed>"               (* a quote the text ends in               *)
Comments == {"(note)"}
Marks    == {".", ":", "(", ")"}
Eof      == "<eof>"

IsName(w) == w \notin Digits \cup Decimals \cup Quoted \cup Comments \cup Marks \cup {Unclosed, Eof}

(* peek, checkWordAt and a run of advances.                                   *)
WordAt(ts, i) == IF i <= Len(ts) THEN ts[i] ELSE Eof
Starts(ts, i, ws) == \A k \in DOMAIN ws : WordAt(ts, i + k - 1) = ws[k]

Got(t, i) == [ok |-> TRUE,  t |-> t, i |-> i]
Fail(i)   == [ok |-> FALSE, t |-> <<>>, i |-> i]

(* A node is a label and its children; a leaf is a word.                      *)
Leaf(w) == <<w>>
Row(label, look, parts) == [label |-> label, leaf |-> <<>>, look |-> look, parts |-> parts]
LeafRow(label, leaf, look, parts) ==
  [label |-> label, leaf |-> <<Leaf(leaf)>>, look |-> look, parts |-> parts]

(* A table is its rows and, for each word, those it starts; a chain of ifs     *)
(* takes the first row whose words stand here.                                *)
Table(rows) ==
  LET heads == {rows[k].look[1] : k \in DOMAIN rows}
  IN [rows |-> rows,
      from |-> [w \in heads |-> {k \in DOMAIN rows : rows[k].look[1] = w}]]
Matching(table, ts, i) ==
  LET w == WordAt(ts, i) IN
  IF w \notin DOMAIN table.from THEN {}
  ELSE {k \in table.from[w] : Starts(ts, i, table.rows[k].look)}
First(S) == CHOOSE k \in S : \A j \in S : k <= j

------------------------------------------------------------------------------
(* Expressions: one level per function from parseOr to parsePower.            *)

Additive       == {<<<<"plus">>, "Add">>, <<<<"minus">>, "Sub">>}
Multiplicative == {<<<<"times">>, "Mul">>, <<<<"divided", "by">>, "Div">>,
                   <<<<"mod">>, "Mod">>, <<<<"modulo">>, "Mod">>}
Infixes == <<
  {<<<<"or">>, "Or">>},
  {<<<<"and">>, "And">>},
  {<<<<"bitwise", "or">>, "BitOr">>},
  {<<<<"bitwise", "xor">>, "BitXor">>},
  {<<<<"bitwise", "and">>, "BitAnd">>},
  {},
  {<<<<"is", "greater", "than", "or", "equal", "to">>, "Ge">>,
   <<<<"is", "less", "than", "or", "equal", "to">>, "Le">>,
   <<<<"is", "greater", "than">>, "Gt">>, <<<<"is", "less", "than">>, "Lt">>,
   <<<<"is", "equal", "to">>, "Eq">>, <<<<"is", "not", "equal", "to">>, "Ne">>},
  {<<<<"shifted", "left", "by">>, "ShiftLeft">>, <<<<"shifted", "right", "by">>, "ShiftRight">>},
  Additive,
  Multiplicative,
  {<<<<"to", "the", "power", "of">>, "Pow">>} >>
NotLevel        == 6
ComparisonLevel == 7
PrimaryLevel    == 12

(* The longest operator of a level that stands here.                          *)
InfixHere(level, ts, i) == {o \in Infixes[level] : Starts(ts, i, o[1])}
Longest(ops) == CHOOSE o \in ops : \A p \in ops : Len(p[1]) <= Len(o[1])

(* Every part is read by Part, which calls each parse function from one place. *)
RECURSIVE Part(_, _, _), Parts(_, _, _, _)
Only(r) == IF r.ok THEN Got(r.t[1], r.i) ELSE r            (* r, one child        *)
Expr(ts, i) == Only(Part(ts, i, "<expr>"))

RECURSIVE Level(_, _, _), Operands(_, _, _, _)

(* Mutant: the right operand takes its own level, so a chain groups from the   *)
(* right.                                                                      *)
OperandsFromRight(level, lhs, ts, i) ==
  LET ops == InfixHere(level, ts, i) IN
  IF ops = {} THEN Got(lhs, i)
  ELSE LET o   == Longest(ops)
           rhs == Level(level, ts, i + Len(o[1]))
       IN IF rhs.ok THEN Got(<<o[2], lhs, rhs.t>>, rhs.i) ELSE rhs

(* The while loop of a left-associative level.                                *)
Operands(level, lhs, ts, i) ==
  LET ops == InfixHere(level, ts, i) IN
  IF ops = {} THEN Got(lhs, i)
  ELSE LET o   == Longest(ops)
           rhs == Level(level + 1, ts, i + Len(o[1]))
       IN IF rhs.ok THEN Operands(level, <<o[2], lhs, rhs.t>>, ts, rhs.i) ELSE rhs

(* parseNot takes its own level for the operand; parseComparison takes one    *)
(* comparison, and nothing but a comparison after "is".                       *)
Negated(label, r) == IF r.ok THEN Got(<<label, r.t>>, r.i) ELSE r
Compared(lhs, ts, i) ==
  LET ops == InfixHere(ComparisonLevel, ts, i) IN
  IF WordAt(ts, i) # "is" THEN Got(lhs, i)
  ELSE IF ops = {} THEN Fail(i + 1)
  ELSE LET o   == Longest(ops)
           rhs == Level(ComparisonLevel + 1, ts, i + Len(o[1]))
       IN IF rhs.ok THEN Got(<<o[2], lhs, rhs.t>>, rhs.i) ELSE rhs

Level(level, ts, i) ==
  CASE level = PrimaryLevel -> Only(Part(ts, i, "<primary>"))
    [] level = NotLevel /\ WordAt(ts, i) = "not" ->
         Negated("Not", Level(NotLevel, ts, i + 1))
    [] level = NotLevel /\ Starts(ts, i, <<"bitwise", "not">>) ->
         Negated("BitNot", Level(NotLevel, ts, i + 2))
    [] OTHER ->
         LET lhs == Level(level + 1, ts, i) IN
         IF ~ lhs.ok THEN lhs
         ELSE IF level = ComparisonLevel THEN Compared(lhs.t, ts, lhs.i)
         ELSE Operands(level, lhs.t, ts, lhs.i)

------------------------------------------------------------------------------
(* parsePrimary, in the order of its tests.                                   *)

LeadingRows == <<
  Row("Compound", <<"compound", "value">>, <<"of", "type", "<type>", "with", "<compound>">>),
  Row("Select", <<"select", "by", "type", "of">>, <<"<expr>", "with", "<associations>", "done">>),
  Row("VaArg", <<"next", "variadic", "argument">>, <<"<source>", "as", "<type>">>) >>

OperatorRows == <<
  Row("Comma", <<"evaluate">>, <<"<expr>", "then", "<expr>">>),
  LeafRow("Bool", "true", <<"true">>, <<>>),
  LeafRow("Bool", "false", <<"false">>, <<>>),
  Row("Neg", <<"minus">>, <<"<primary>">>),
  Row("Nullptr", <<"null", "pointer">>, <<>>),
  Row("Choose", <<"choose">>, <<"<expr>", "when", "<expr>", "otherwise", "<expr>">>),
  Row("PreInc", <<"increment", "before">>, <<"<primary>">>),
  Row("PostInc", <<"increment", "after">>, <<"<primary>">>),
  Row("PreDec", <<"decrement", "before">>, <<"<primary>">>),
  Row("PostDec", <<"decrement", "after">>, <<"<primary>">>),
  Row("Cast", <<"convert">>, <<"<primary>", "to", "type", "<type>">>) >>

ObjectRows == <<
  Row("AddressOf", <<"address", "of">>, <<"<name>">>),
  Row("Deref", <<"value", "at">>, <<"<primary>">>),
  Row("Length", <<"length", "of">>, <<"<primary>">>),
  Row("SizeOfType", <<"size", "of", "type">>, <<"<type>">>),
  Row("SizeOf", <<"size", "of">>, <<"<primary>">>),
  Row("AlignOf", <<"alignment", "of", "type">>, <<"<type>">>),
  LeafRow("Limit", "maximum", <<"maximum", "value", "of", "type">>, <<"<type>">>),
  LeafRow("Limit", "minimum", <<"minimum", "value", "of", "type">>, <<"<type>">>),
  Row("OffsetOf", <<"offset", "of", "member">>, <<"<name>", "in", "type", "<type>">>),
  Row("LockFree", <<"is", "lock", "free">>, <<"<name>">>),
  LeafRow("Math", "atomic_load", <<"atomic", "load", "of">>, <<"<primary>">>),
  Row("Exchange", <<"atomic", "exchange">>, <<"<expr>", "with", "<name>">>),
  LeafRow("Fetch", "add", <<"atomic", "fetch", "add">>, <<"<expr>", "to", "<name>">>),
  LeafRow("Fetch", "subtract", <<"atomic", "fetch", "subtract">>, <<"<expr>", "to", "<name>">>) >>

DataRows == <<
  Row("List", <<"list", "with">>, <<"<not done>", "<items>", "done">>),
  Row("EmptyList", <<"empty", "list", "of">>, <<"<element kind>">>),
  Row("Enumerator", <<"enumerator">>, <<"<name>", "of", "<name>">>),
  Row("Member", <<"member">>, <<"<name>", "of", "<primary>">>),
  Row("Element", <<"element", "at">>, <<"<expr>", "in", "<primary>">>),
  Row("Item", <<"item", "at">>, <<"<expr>", "in", "<primary>">>) >>

(* The longer spellings; then one function name stands for the whole table.   *)
MathRows == <<
  LeafRow("Math", "sqrt", <<"square", "root", "of">>, <<"<primary>">>),
  LeafRow("Math", "real", <<"real", "part", "of">>, <<"<primary>">>),
  LeafRow("Math", "imaginary", <<"imaginary", "part", "of">>, <<"<primary>">>),
  LeafRow("Math", "magnitude", <<"magnitude", "of">>, <<"<primary>">>),
  LeafRow("Math", "conjugate", <<"conjugate", "of">>, <<"<primary>">>),
  LeafRow("Math", "abs", <<"absolute", "value", "of">>, <<"<primary>">>),
  LeafRow("Math", "sqrt", <<"sqrt", "of">>, <<"<primary>">>),
  LeafRow("Math", "abs", <<"abs", "of">>, <<"<primary>">>) >>

ClosingRows == <<
  Row("Group", <<"(">>, <<"<expr>", ")">>),
  Row("CallThrough", <<"call", "through">>, <<"<primary>", "<args>">>),
  Row("Call", <<"call">>, <<"<name>", "<args>">>) >>

PrimaryTable ==
  Table(LeadingRows \o OperatorRows \o ObjectRows \o DataRows \o MathRows \o ClosingRows)

Read(row, ts, i) ==
  LET r == Parts(ts, i + Len(row.look), row.parts, row.leaf) IN
  IF r.ok THEN Got(<<row.label>> \o r.t, r.i) ELSE r

(* Parentheses leave no node; a word no row starts with is a variable.        *)
Primary(ts, i) ==
  LET w    == WordAt(ts, i)
      rows == Matching(PrimaryTable, ts, i)
      r    == Read(PrimaryTable.rows[First(rows)], ts, i)
  IN CASE w \in Digits   -> Got(<<"Int", Leaf(w)>>, i + 1)
       [] w \in Decimals -> Got(<<"Float", Leaf(w)>>, i + 1)
       [] w \in Quoted   -> Got(<<"String", Leaf(w)>>, i + 1)
       [] Starts(ts, i, <<"the", "character">>) /\ WordAt(ts, i + 2) \in Quoted ->
            IF WordAt(ts, i + 2) = "'c'" THEN Got(<<"Int", Leaf("99")>>, i + 3) ELSE Fail(i + 2)
       [] rows # {} -> IF r.ok /\ r.t[1] = "Group" THEN Got(r.t[2], r.i) ELSE r
       [] rows = {} /\ IsName(w) -> Got(<<"Var", Leaf(w)>>, i + 1)
       [] OTHER -> Fail(i)

------------------------------------------------------------------------------
(* parseTypeSpec: qualifiers are flags, so their order is lost.               *)

Qualifiers == <<"constant", "volatile", "restricted", "atomic">>

RECURSIVE AfterQualifiers(_, _)
AfterQualifiers(ts, i) ==
  IF WordAt(ts, i) \in ToSet(Qualifiers) THEN AfterQualifiers(ts, i + 1) ELSE i
QualifierNode(ts, i, j) ==
  LET seen(q) == \E k \in i .. j - 1 : ts[k] = q
      set     == SelectSeq(Qualifiers, seen)
  IN <<"Qualifiers">> \o [k \in DOMAIN set |-> Leaf(set[k])]

TaggedRows == <<
  Row("EnumType", <<"enumeration">>, <<"<name>">>),
  Row("UnionType", <<"union">>, <<"<name>">>),
  Row("StructType", <<"structure">>, <<"<name>">>),
  Row("NullptrType", <<"null", "pointer", "type">>, <<>>),
  Row("TypeOfUnqual", <<"type", "of", "unqualified">>, <<"<typed>">>),
  Row("TypeOf", <<"type", "of">>, <<"<typed>">>),
  Row("Array", <<"array", "of">>, <<"<type>", "with", "length", "<bound>">>) >>

WidthRows == <<
  Row("Exact", <<"integer", "with", "exactly">>, <<"<width>", "bits">>),
  Row("UExact", <<"unsigned", "integer", "with", "exactly">>, <<"<width>", "bits">>),
  Row("Least", <<"least", "integer", "with", "at", "least">>, <<"<width>", "bits">>),
  Row("Fast", <<"fast", "integer", "with", "at", "least">>, <<"<width>", "bits">>),
  Row("ULeast", <<"unsigned", "least", "integer", "with", "at", "least">>, <<"<width>", "bits">>),
  Row("UFast", <<"unsigned", "fast", "integer", "with", "at", "least">>, <<"<width>", "bits">>) >>

FunctionRows == <<
  Row("Function", <<"function", "taking">>, <<"<parameter types>", "returning", "<type>">>),
  [Row("Function", <<"function", "returning">>, <<"<type>">>) EXCEPT !.leaf = <<<<"Parameters">>>>],
  Row("Pointer", <<"pointer", "to">>, <<"<type>">>),
  Row("BitInt", <<"bit", "integer", "with", "width">>, <<"<width>">>),
  Row("UBitInt", <<"unsigned", "bit", "integer", "with", "width">>, <<"<width>">>) >>

Spelled(words) == [label |-> "Basic", leaf |-> [k \in DOMAIN words |-> Leaf(words[k])],
                   look |-> words, parts |-> <<>>]
BasicRows == <<
  Spelled(<<"void">>), Spelled(<<"complex", "decimal">>), Spelled(<<"size", "type">>),
  Spelled(<<"difference", "type">>), Spelled(<<"auto">>), Spelled(<<"boolean">>),
  Spelled(<<"character">>), Spelled(<<"signed", "character">>),
  Spelled(<<"unsigned", "character">>), Spelled(<<"short", "integer">>),
  Spelled(<<"unsigned", "short", "integer">>), Spelled(<<"integer">>),
  Spelled(<<"unsigned", "integer">>), Spelled(<<"long", "long", "integer">>),
  Spelled(<<"unsigned", "long", "long", "integer">>), Spelled(<<"long", "integer">>),
  Spelled(<<"unsigned", "long", "integer">>), Spelled(<<"float">>),
  Spelled(<<"decimal">>), Spelled(<<"long", "decimal">>) >>

(* The width forms look for their number and "bits" before they commit.       *)
WidthAhead(row, ts, i) ==
  LET n == i + Len(row.look) IN WordAt(ts, n) \in Digits /\ WordAt(ts, n + 1) = "bits"
TypeTable == Table(TaggedRows \o WidthRows \o FunctionRows \o BasicRows)
TypeMatching(ts, i) ==
  LET ahead(row) == row \in ToSet(WidthRows) => WidthAhead(row, ts, i)
  IN {k \in Matching(TypeTable, ts, i) : ahead(TypeTable.rows[k])}

Type(ts, i) ==
  LET j     == AfterQualifiers(ts, i)
      rows  == TypeMatching(ts, j)
      named == Got(<<"Alias", Leaf(WordAt(ts, j))>>, j + 1)
      r     == IF rows # {} THEN Read(TypeTable.rows[First(rows)], ts, j)
               ELSE IF IsName(WordAt(ts, j)) THEN named ELSE Fail(j)
  IN IF r.ok THEN Got(<<"Type", QualifierNode(ts, i, j), r.t>>, r.i) ELSE r

------------------------------------------------------------------------------
(* The parts of expressions and types that are not one thing after another.   *)

Child(r) == IF r.ok THEN Got(<<r.t>>, r.i) ELSE r      (* r as one more child *)
Word(ok, w, i) == IF ok THEN Got(<<Leaf(w)>>, i + 1) ELSE Fail(i)
Append1(node, r) == [r EXCEPT !.t = Append(node, r.t)]

(* expression (followed by expression)*                                       *)
RECURSIVE Items(_, _, _), Arguments(_, _, _), Associations(_, _, _),
          Parameters(_, _, _), Entries(_, _, _, _), Aggregate(_, _)
Items(node, ts, i) ==
  LET r == Expr(ts, i) IN
  IF ~ r.ok THEN r
  ELSE IF Starts(ts, r.i, <<"followed", "by">>) THEN Items(Append(node, r.t), ts, r.i + 2)
  ELSE Append1(node, r)

(* Arguments stand side by side until "done"; the tokenizer drops commas.     *)
Arguments(node, ts, i) ==
  LET r == Expr(ts, i) IN
  IF WordAt(ts, i) = "done" THEN Got(node, i + 1)
  ELSE IF r.ok THEN Arguments(Append(node, r.t), ts, r.i) ELSE r

(* parseGenericSelection after "with", up to its "done".                      *)
Default(node, ts, i) ==
  LET r == Expr(ts, i + 1) IN
  IF Len(node) = 1 \/ ~ r.ok THEN (IF r.ok THEN Fail(r.i) ELSE r)
  ELSE Got(Append(node, <<"Default", r.t>>), r.i)
Associations(node, ts, i) ==
  LET r == Parts(ts, i, <<"<type>", "as", "<expr>">>, <<>>)
      n == Append(node, <<"As">> \o r.t)
  IN IF WordAt(ts, i) = "done" THEN (IF Len(node) = 1 THEN Fail(i) ELSE Got(node, i))
     ELSE IF WordAt(ts, i) = "otherwise" THEN Default(node, ts, i)
     ELSE IF ~ r.ok THEN r
     ELSE IF Starts(ts, r.i, <<"followed", "by">>) THEN Associations(n, ts, r.i + 2)
     ELSE IF WordAt(ts, r.i) = "otherwise" THEN Default(n, ts, r.i)
     ELSE Got(n, r.i)

(* The parameter types of a function type.                                    *)
Parameters(node, ts, i) ==
  LET r == Only(Part(ts, i, "<type>")) IN
  IF Starts(ts, i, <<"no", "parameters">>) /\ Len(node) = 1 THEN Got(node, i + 2)
  ELSE IF ~ r.ok THEN r
  ELSE IF Starts(ts, r.i, <<"and", "variadic", "parameters">>)
       THEN Got(Append(node, r.t) \o <<<<"Variadic">>>>, r.i + 3)
  ELSE IF WordAt(ts, r.i) = "and" THEN Parameters(Append(node, r.t), ts, r.i + 1)
  ELSE Append1(node, r)

(* parseAggregateBlock and parseAggregateEntryValue.                          *)
EntryParts(kind) ==
  CASE kind = "values"   -> <<"<entry>">>
    [] kind = "members"  -> <<"<name>", "as", "<entry>">>
    [] kind = "elements" -> <<"at", "<index>", "as", "<entry>">>
Entries(node, kind, ts, i) ==
  LET r == Parts(ts, i, EntryParts(kind), <<>>)
      n == Append(node, <<"Entry">> \o r.t)
  IN IF ~ r.ok THEN r
     ELSE IF Starts(ts, r.i, <<"followed", "by">>) THEN Entries(n, kind, ts, r.i + 2)
     ELSE IF WordAt(ts, r.i) = "done" THEN Got(n, r.i + 1)
     ELSE Fail(r.i)
Aggregate(ts, i) ==
  LET kind == WordAt(ts, i) IN
  IF Starts(ts, i, <<"empty", "braces">>) THEN Got(<<"Braces", Leaf("empty")>>, i + 2)
  ELSE IF kind \notin {"values", "members", "elements"} THEN Fail(i)
  ELSE IF WordAt(ts, i + 1) = "done" THEN Fail(i + 1)
  ELSE Entries(<<"Braces", Leaf(kind)>>, kind, ts, i + 1)
Compound(ts, i) ==
  LET r == Aggregate(ts, i) IN
  IF WordAt(ts, i) = "value"
  THEN LET e == Parts(ts, i + 1, <<"<expr>", "done">>, <<>>) IN
       IF e.ok THEN Got(<<"Braces", Leaf("value")>> \o e.t, e.i) ELSE e
  ELSE IF ~ r.ok \/ r.t[2] # Leaf("empty") THEN r
  ELSE IF WordAt(ts, r.i) = "done" THEN Got(r.t, r.i + 1)
  ELSE Fail(r.i)

Part(ts, i, e) ==
  LET w == WordAt(ts, i) IN
  CASE e = "<expr>"    -> Child(Level(1, ts, i))
    [] e = "<primary>" -> Child(Primary(ts, i))
    [] e = "<type>"    -> Child(Type(ts, i))
    [] e = "<name>"    -> Word(IsName(w), w, i)
    [] e = "<string>"  -> Word(w \in Quoted, w, i)
    [] e = "<index>"   -> Word(w \in Digits, w, i)
    [] e = "<width>"   -> Word(w \in Digits \ {"0"}, w, i)
    [] e = "<bound>"   -> IF w \in Digits THEN Word(w # "0", w, i) ELSE Part(ts, i, "<expr>")
    [] e = "<element kind>" -> Word(w \in {"numbers", "decimals", "strings"}, w, i)
    [] e = "<typed>"   -> IF w = "(" THEN Parts(ts, i + 1, <<"<expr>", ")">>, <<>>)
                          ELSE Word(IsName(w), w, i)
    [] e = "<not done>" -> IF w = "done" THEN Fail(i) ELSE Got(<<>>, i)
    [] e = "<items>"   -> Child(Items(<<"Items">>, ts, i))
    [] e = "<args>"    -> IF w = "with" THEN Child(Arguments(<<"Args">>, ts, i + 1))
                          ELSE IF w = "done" THEN Got(<<<<"Args">>>>, i + 1) ELSE Fail(i)
    [] e = "<source>"  -> IF w = "from" THEN Part(ts, i + 1, "<name>") ELSE Got(<<>>, i)
    [] e = "<associations>" -> Child(Associations(<<"Associations">>, ts, i))
    [] e = "<parameter types>" -> Child(Parameters(<<"Parameters">>, ts, i))
    [] e = "<compound>" -> Child(Compound(ts, i))
    [] e = "<aggregate>" -> Child(Aggregate(ts, i))
    [] e = "<entry>"   -> IF w = "with" THEN Part(ts, i + 1, "<aggregate>") ELSE Part(ts, i, "<expr>")
    [] OTHER           -> IF w = e THEN Got(<<>>, i + 1) ELSE Fail(i)

(* One part after another; kids are the children read so far.                 *)
Parts(ts, i, parts, kids) ==
  IF parts = <<>> THEN Got(kids, i)
  ELSE LET r == Part(ts, i, Head(parts)) IN
       IF r.ok THEN Parts(ts, r.i, Tail(parts), kids \o r.t) ELSE r
==============================================================================
