------------------------------ MODULE MCFrontEnd ------------------------------
EXTENDS FrontEnd

Book(about, opening, phrases, length) ==
  [about |-> about, opening |-> opening, phrases |-> phrases, length |-> length]

(* Operators: every level beside its neighbours, and the greedy forms.        *)
ExpressionBooks == {
  Book("expressions", <<"say">>,
       {<<"x">>, <<"plus">>, <<"minus">>, <<"times">>, <<"to", "the", "power", "of">>, <<".">>}, 6),
  Book("expressions", <<"say">>,
       {<<"x">>, <<"plus", "x">>, <<"times", "x">>, <<"minus">>, <<"is", "less", "than", "x">>,
        <<"(">>, <<")">>, <<".">>}, 6),
  Book("expressions", <<"say">>,
       {<<"x">>, <<"not">>, <<"x", "and">>, <<"x", "or">>, <<"x", "is", "equal", "to">>,
        <<"x", "bitwise", "and">>, <<".">>}, 5),
  Book("expressions", <<"say">>,
       {<<"x">>, <<"bitwise", "not">>, <<"minus">>, <<"x", "bitwise", "or">>, <<"x", "bitwise", "xor">>,
        <<"x", "shifted", "left", "by">>, <<"x", "shifted", "right", "by">>, <<"x", "divided", "by">>,
        <<"x", "mod">>, <<".">>}, 4),
  Book("expressions", <<"say">>,
       {<<"x">>, <<"is", "less", "than">>, <<"is", "less", "than", "or", "equal", "to">>,
        <<"is", "greater", "than">>, <<"is", "greater", "than", "or", "equal", "to">>,
        <<"is", "not", "equal", "to">>, <<"and">>, <<".">>}, 6),
  Book("expressions", <<"say">>,
       {<<"x">>, <<"plus">>, <<"choose", "x", "when", "y", "otherwise">>,
        <<"increment", "after">>, <<"value", "at">>, <<"(">>, <<")">>, <<".">>}, 5),
  Book("expressions", <<"say">>,
       {<<"x">>, <<"x", "times">>, <<"x", "to", "the", "power", "of">>, <<"size", "of">>,
        <<"increment", "before">>, <<"decrement", "before">>, <<"decrement", "after">>, <<"length", "of">>,
        <<".">>}, 4) }

(* The other forms of expressions.                                            *)
FormBooks == {
  Book("forms", <<"say">>,
       {<<"x">>, <<"element", "at">>, <<"in">>, <<"member", "y", "of">>, <<"item", "at">>,
        <<"list", "with">>, <<"followed", "by">>, <<"done">>, <<"empty", "list", "of", "numbers">>,
        <<"enumerator", "y", "of", "x">>, <<".">>}, 5),
  Book("forms", <<"say">>,
       {<<"x">>, <<"address", "of", "x">>, <<"size", "of">>, <<"size", "of", "type">>,
        <<"alignment", "of", "type">>, <<"maximum", "value", "of", "type">>,
        <<"minimum", "value", "of", "type">>, <<"offset", "of", "member", "y", "in", "type">>,
        <<"is", "lock", "free", "x">>, <<"atomic", "load", "of">>, <<"atomic", "exchange">>,
        <<"with", "y">>, <<"atomic", "fetch", "add">>, <<"atomic", "fetch", "subtract">>, <<"to", "y">>,
        <<"integer">>, <<"pointer", "to">>, <<".">>}, 4),
  Book("forms", <<"say", "select", "by", "type", "of", "x", "with", "integer", "as">>,
       {<<"x">>, <<"followed", "by", "float", "as">>, <<"otherwise">>, <<"done">>, <<"plus">>,
        <<".">>}, 6),
  Book("forms", <<"say">>,
       {<<"x">>, <<"minus">>, <<"call", "f", "with">>, <<"call", "f", "done">>,
        <<"call", "through", "f", "with">>, <<"done">>, <<".">>}, 5),
  Book("forms", <<"say">>,
       {<<"x">>, <<"compound", "value", "of", "type", "integer", "with">>, <<"value">>, <<"values">>,
        <<"members">>, <<"elements">>, <<"at", "1", "as">>, <<"y", "as">>, <<"empty", "braces">>,
        <<"with", "values">>, <<"followed", "by">>, <<"done">>, <<".">>}, 6),
  Book("forms", <<"say">>,
       {<<"x">>, <<"1">>, <<"convert">>, <<"to", "type">>, <<"array", "of">>, <<"with", "length">>,
        <<"integer">>, <<"plus">>, <<"(">>, <<")">>, <<".">>}, 6),
  Book("forms", <<"say">>,
       {<<"1">>, <<"1.5">>, <<"1.0">>, <<"'text'">>, <<"'c'">>, <<"'a\\b'">>, <<"'a\"b'">>,
        <<"the", "character">>, <<"true">>, <<"false">>,
        <<"null", "pointer">>, <<"square", "root", "of">>, <<"absolute", "value", "of">>,
        <<"sqrt", "of">>, <<"abs", "of">>, <<"real", "part", "of">>, <<"imaginary", "part", "of">>,
        <<"magnitude", "of">>, <<"conjugate", "of">>, <<"next", "variadic", "argument">>,
        <<"from", "x">>, <<"as", "integer">>, <<"evaluate">>, <<"then">>, <<".">>}, 3) }

(* Types and declarations.                                                    *)
DeclarationBooks == {
  Book("forms", <<"declare", "x", "as">>,
       {<<"constant">>, <<"volatile">>, <<"atomic">>, <<"integer">>, <<"unsigned">>, <<"long">>,
        <<"short">>, <<"character">>, <<"signed">>, <<"decimal">>, <<"with", "exactly", "99", "bits">>,
        <<"with", "at", "least", "1", "bits">>, <<"fast">>, <<"least">>,
        <<"bit", "integer", "with", "width", "1">>, <<".">>}, 5),
  Book("forms", <<"declare", "x", "as">>,
       {<<"restricted">>, <<"integer">>, <<"y">>, <<"pointer", "to">>, <<"array", "of">>,
        <<"with", "length">>, <<"1">>, <<"structure", "s">>, <<"enumeration", "s">>, <<"union", "s">>,
        <<"null", "pointer", "type">>, <<"type", "of">>, <<"type", "of", "unqualified">>,
        <<"(", "1", ")">>, <<".">>}, 5),
  Book("forms", <<"declare", "x", "as">>,
       {<<"integer">>, <<"pointer", "to">>, <<"function", "taking">>, <<"no", "parameters">>,
        <<"function", "returning">>, <<"returning">>, <<"and", "integer">>, <<"and", "variadic", "parameters">>,
        <<".">>}, 6),
  Book("forms", <<"declare", "x">>,
       {<<"with", "alignment", "1">>, <<"with", "internal", "linkage">>,
        <<"with", "external", "linkage">>, <<"with", "static", "storage">>, <<"with", "deprecated">>,
        <<"with", "maybe", "unused">>, <<"'text'">>, <<"as">>, <<"thread", "local">>, <<"constexpr">>,
        <<"integer", ".">>, <<"integer", "with", "value", "1", ".">>}, 4),
  Book("forms", <<"declare", "x", "as", "s">>,
       {<<"with">>, <<"values">>, <<"members">>, <<"y", "as">>, <<"elements">>, <<"at", "1", "as">>,
        <<"empty", "braces">>, <<"1">>, <<"followed", "by">>, <<"done">>, <<".">>}, 8),
  Book("forms", <<"procedure", "f">>,
       {<<"takes", "x">>, <<"as", "integer">>, <<"and", "variadic", "parameters">>, <<"returns">>,
        <<"integer">>, <<"with", "inline">>, <<"with", "no", "return">>, <<"with", "deprecated">>,
        <<"'text'">>, <<"with", "maybe", "unused">>, <<":", "end", "procedure", ".">>}, 5),
  Book("forms", <<>>,
       {<<"structure", "s", ":">>, <<"union", "s", ":">>, <<"field", "x", "as">>,
        <<"bit", "field", "x", "as">>, <<"bit", "field", "as">>, <<"flexible", "field", "x", "as">>,
        <<"with", "width", "1">>, <<"integer">>, <<".">>, <<"end", "structure", ".">>,
        <<"end", "union", ".">>}, 8),
  Book("forms", <<"enumeration", "s", ":">>,
       {<<"enumerator", "x">>, <<"as">>, <<"minus">>, <<"1">>, <<"0">>, <<".">>,
        <<"end", "enumeration", ".">>}, 8),
  Book("forms", <<"import", "c">>,
       {<<"function", "f", "taking">>, <<"no", "parameters">>, <<"type", "integer">>, <<"integer">>,
        <<"and">>, <<"and", "variadic", "parameters">>, <<"returning">>, <<"returns">>,
        <<"object", "x", "as">>, <<"constant", "x", "as">>, <<"header", "'text'", ".">>,
        <<"library", "'text'", ".">>, <<"from", "header", "'text'", ".">>}, 5) }

(* Statements.                                                                *)
StatementBooks == {
  Book("forms", <<>>,
       {<<"put">>, <<"set", "value", "at">>, <<"set", "element", "at">>, <<"set", "member", "y", "of">>,
        <<"x">>, <<"in", "x">>, <<"to">>, <<"'text'">>, <<"(note)">>, <<"1">>, <<".">>}, 7),
  Book("forms", <<>>,
       {<<"sum">>, <<"take">>, <<"grow", "x", "by">>, <<"lower", "x", "by">>, <<"push">>,
        <<"replace", "item", "at">>, <<"remove", "item", "at">>, <<"in", "x", "with">>, <<"to", "x", ".">>,
        <<"from", "x", ".">>, <<"1">>, <<"readfloat", "x", ".">>, <<"read", "x", ".">>, <<".">>}, 5),
  Book("forms", <<>>,
       {<<"warn", "'text'", ".">>, <<"warn", "'a\"b'", ".">>, <<"go", "to", "x", ".">>, <<"label", "x", ".">>, <<"call", "f", "with">>,
        <<"call", "through", "f", "with">>, <<"call", "f">>, <<"done">>, <<"yield">>, <<"assert", "that">>, <<"assert">>,
        <<"with", "message", "'text'">>, <<"x">>, <<"atomic", "fence", ".">>,
        <<"atomic", "store", "x", "to", "y", ".">>, <<"define", "x", "as", "integer", ".">>, <<".">>}, 3),
  Book("forms", <<"procedure", "f", "takes", "x", "and", "variadic", "parameters", ":">>,
       {<<"start", "variadic", "arguments", "after", "x", ".">>,
        <<"copy", "variadic", "arguments", "to", "y", ".">>,
        <<"finish", "variadic", "arguments", "copy", "y", ".">>,
        <<"finish", "variadic", "arguments", ".">>, <<"end", "procedure", ".">>}, 4) }

(* Whole sentences that open, divide and close blocks.                        *)
Sentence == [
  while  |-> <<"while", "x", ":">>,       until    |-> <<"until", "x", ":">>,
  do     |-> <<"do", ":">>,               endDo    |-> <<"end", "do", "while", "x", ".">>,
  endWhile |-> <<"end", "while", ".">>,   endUntil |-> <<"end", "until", ".">>,
  for    |-> <<"for", "x", "from", "0", "down", "to", "1", ":">>,
  each   |-> <<"for", "each", "x", "in", "y", ":">>,
  endFor |-> <<"end", "for", ".">>,       break    |-> <<"break", ".">>,
  repeat |-> <<"repeat", "1", ":">>,      endRepeat |-> <<"end", "repeat", ".">>,
  if     |-> <<"if", "x", "then", ":">>,  unless   |-> <<"unless", "x", "then", ":">>,
  else   |-> <<"else", ":">>,             endIf    |-> <<"end", "if", ".">>,
  endUnless |-> <<"end", "unless", ".">>, switch   |-> <<"switch", "x", ":">>,
  when   |-> <<"when", "1", ":">>,        otherwise |-> <<"otherwise", ":">>,
  endSwitch |-> <<"end", "switch", ".">>, continue |-> <<"continue", ".">>,
  compile |-> <<"compile", "if", "x", "is", "defined", ":">>,
  elif   |-> <<"elif", "y", "is", "defined", ":">>,
  endCompile |-> <<"end", "compile", "if", ".">>,
  procedure |-> <<"procedure", "f", ":">>, endProcedure |-> <<"end", "procedure", ".">> ]
Of(names) == {Sentence[n] : n \in names}
BlockBooks == {
  Book("blocks", <<>>, Of({"while", "until", "do", "endWhile", "endUntil", "endDo"}), 4),
  Book("blocks", <<>>, Of({"for", "each", "repeat", "break", "endFor", "endRepeat"}), 4),
  Book("blocks", <<>>, Of({"if", "else", "endIf", "switch", "when", "otherwise", "endSwitch"}), 5),
  Book("blocks", <<>>, Of({"if", "unless", "else", "endIf", "endUnless"}), 4),
  Book("blocks", <<>>, Of({"compile", "elif", "otherwise", "endCompile", "switch", "when", "endSwitch"}), 5),
  Book("blocks", <<>>, Of({"compile", "endCompile", "if", "endIf", "procedure", "endProcedure"}), 4) }

(* Characters: comments and sentences; numbers; strings; the other marks.     *)
Alphabet(characters, size) == [characters |-> characters, size |-> size]
MCAlphabets == {
  Alphabet({"(", ")", "a", ".", "nl"}, 6),
  Alphabet({"0", "1", "x", "e", ".", "-", "space"}, 5),
  Alphabet({"quote", "back", "n", "nl", "a", ":"}, 5),
  Alphabet({"(", ")", ":", "nl", ",", "quote", "space"}, 5) }

MCBooks == ExpressionBooks \cup FormBooks \cup DeclarationBooks \cup StatementBooks \cup BlockBooks
==============================================================================
