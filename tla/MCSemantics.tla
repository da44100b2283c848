------------------------------ MODULE MCSemantics ------------------------------
EXTENDS Semantics

(* Expressions: arithmetic, shifts, logic, effects.                           *)
Ints(S) == {<<"Int", n>> : n \in S}
Object(kind, target, object, via) == <<kind, [target |-> target, object |-> object, via |-> via]>>
Var(n) == Object("Var", n, <<n, 0>>, {})
Element(k) == Object("Element", "a[]", <<"a[]", k>>, {})
Kit(operands, unary, binary, more, size) ==
  [operands |-> operands, unary |-> unary, binary |-> binary, more |-> more, size |-> size]
MCKits == {
  Kit(Ints({1, 2, 7}), {"Neg", "BitNot"}, {"Add", "Sub", "Mul", "Div", "Mod"}, {}, 6),
  Kit(Ints({1, 3}) \cup {<<"Bool", 1>>}, {"BitNot"},
      {"ShiftLeft", "ShiftRight", "BitAnd", "BitOr", "BitXor"}, {}, 5),
  Kit({<<"Bool", 1>>}, {"Neg", "BitNot"}, {"Sub", "Div", "Mod"}, {}, 9),
  Kit(Ints({0, 2}) \cup {<<"Bool", 1>>} \cup {Var("x")}, {"Not"},
      {"And", "Or", "Eq", "Lt", "Comma", "Div"}, {"Choose"}, 5),
  Kit(Ints({3}) \cup {<<"Bool", 1>>}, {"Neg", "Cast"}, {"Add", "And", "Comma"}, {"Choose"}, 5),
  Kit({Var("x"), Var("y"), Object("Member", "s.m", <<"s.m", 0>>, {})}, {"Neg", "Cast", "Call"},
      {"Add", "And", "Comma", "Call"}, {"IncDec", "Choose"}, 6),
  (* elements of an array, one of them by a variable index, and p, which points to x *)
  Kit({Var("x"), Var("p"), Element(0), Element(1), Object("Element", "a[]", <<"a[]", 0>>, {"x"}),
       Object("Deref", "*p", <<"x", 0>>, {"p"})},
      {}, {"Add", "And"}, {"IncDec"}, 5) }

(* Declarations: completion, flexible arrays, aliases, procedures and tags.    *)
Is(kind, name, types) == [is |-> kind, name |-> name, types |-> types, flexible |-> FALSE]
Flexible(name, types) == [Is("structure", name, types) EXCEPT !.flexible = TRUE]
Base(kind, n) == [wraps |-> <<>>, base |-> <<kind, n>>]
Wrapped(wrap, t) == [t EXCEPT !.wraps = <<wrap>> \o @]
Number == Base("integer", "")
Void == Base("void", "")
ArrayOf(t) == Wrapped("array", t)
To(t) == Wrapped("pointer", t)
S(n) == Base("structure", n)
U(n) == Base("union", n)
E(n) == Base("enumeration", n)
T(n) == Base("alias", n)
MCShelves == {
  { Is("structure", "s", <<Number>>), Is("structure", "w", <<S("s"), To(S("w"))>>),
    Is("union", "u", <<S("w"), Number>>), Is("structure", "v", <<ArrayOf(U("u"))>>),
    Is("enumeration", "e", <<>>), Is("structure", "x", <<E("e"), S("x")>>),
    Is("structure", "y", <<ArrayOf(E("e")), To(ArrayOf(S("s")))>>), Is("declare", "d", <<S("w")>>),
    Is("structure", "z", <<>>) },
  { Flexible("p", <<Number, Number>>), Is("union", "q", <<S("p"), Number>>),
    Is("structure", "r", <<U("q")>>), Is("declare", "d", <<ArrayOf(S("p"))>>),
    Is("structure", "r", <<To(S("p"))>>), Is("union", "u", <<U("q")>>),
    Is("size", "", <<ArrayOf(U("u"))>>), Flexible("v", <<Number, ArrayOf(U("q"))>>) },
  { Is("alias", "a", <<T("b")>>), Is("alias", "b", <<To(S("s"))>>), Is("alias", "b", <<T("a")>>),
    Is("alias", "c", <<To(T("c"))>>), Is("declare", "d", <<T("a")>>), Is("declare", "k", <<T("c")>>),
    Is("structure", "s", <<T("a"), T("b")>>), Is("procedure", "f", <<T("b"), T("a")>>) },
  { Is("procedure", "f", <<S("s"), To(S("s"))>>), Is("procedure", "g", <<Void, S("s")>>),
    Is("procedure", "h", <<To(U("s")), ArrayOf(S("t"))>>), Is("structure", "s", <<Number>>),
    Is("union", "s", <<Number>>), Is("enumeration", "s", <<>>), Is("declare", "d", <<To(S("s"))>>),
    Is("structure", "t", <<U("s")>>), Is("declare", "k", <<To(U("s"))>>) } }

(* Words: blocks, labels, variadic arguments.                                  *)
One(words) == {<<w>> : w \in words}
Words(words, size) == [words |-> words, size |-> size]
MCVocabularies == {
  Words(One({"loop", "switch", "other", "end", "procedure", "break", "continue"}), 6),
  Words(One({"other", "end", "procedure"}) \cup ({"goto", "label"} \X {"a", "b"}), 7),
  Words(One({"end", "procedure", "variadic", "start", "finish", "next"})
          \cup ({"copy", "finish", "next"} \X {"a"}), 7) }

(* Invocations: two sources to two outputs, one request that only prints and    *)
(* one with a bad definition.                                                   *)
Request(source, output, options, define) ==
  [source |-> source, output |-> output, options |-> options, define |-> define]
MCRequests ==
  {Request(s, o, {}, TRUE) : s \in Sources, o \in Outputs}
    \cup {Request("one", "p", {"lint"}, TRUE), Request("one", "p", {}, FALSE)}
==============================================================================
