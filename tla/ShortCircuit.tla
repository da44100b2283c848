------------------------------ MODULE ShortCircuit ------------------------------
(***************************************************************************)
(* One expression printed twice: raw, where and and or are && and ||, and     *)
(* boxed, where a PsValue is wanted and they are calls of the runtime.         *)
(*                                                                          *)
(* An expression over numerals and native objects is written operand first.   *)
(* Its meaning is a function from the values of the objects to its outcomes:   *)
(* a value, the values of the objects afterwards, and which of them were read  *)
(* and written on the way.  No outcome is undefined behaviour.                *)
(***************************************************************************)
EXTENDS LongArithmetic, Sequences, FiniteSets

CONSTANTS
  Cells,           (* the native objects, longs                                   *)
  Numerals,        (* the literals                                                *)
  Joins,           (* the operators with two operands                             *)
  MaxTerms         (* a bound: how many leaves and operators an expression has    *)

VARIABLE terms     (* the operands written so far, the last one first             *)

Logic == {"And", "Or"}
Stores == [Cells -> Long]

Outcome(value, store, reads, writes) ==
  [value |-> value, store |-> store, reads |-> reads, writes |-> writes]
Valued(o, v) == Outcome(v, o.store, o.reads, o.writes)

(* p comes after o, and the value of both is v.                                *)
Later(o, p, v) == Outcome(v, p.store, o.reads \cup p.reads, o.writes \cup p.writes)

(* Neither writes what the other reads or writes, so their order is the same.   *)
Apart(o, p) == o.writes \cap (p.reads \cup p.writes) = {} /\ p.writes \cap o.reads = {}

(* Both operands are evaluated, in an order C leaves open.                      *)
BothOf(F(_, _), left, right, s) ==
  UNION {UNION {{Later(o, p, v) : v \in {w \in F(o.value, p.value) : Apart(o, p)}}
                : p \in right[o.store]} : o \in left[s]}

(* The right operand is evaluated if the left one does not decide.              *)
Decides(op, a) == IF op = "And" THEN a = 0 ELSE a # 0
Shortened(op, left, right, s) ==
  UNION {IF Decides(op, o.value)
         THEN {Valued(o, Truth(o.value # 0))}
         ELSE {Later(o, p, Truth(p.value # 0)) : p \in right[o.store]} : o \in left[s]}

(* Every operand is taken for a long, truths too.                               *)
PlainOf(op, a, b) == CBinary("long", op, a, b)
PsOf(op, a, b) == IF op = "And" THEN PsAnd(a, b) ELSE PsOr(a, b)
Operated(op, left, right, s) == BothOf(LAMBDA a, b : PlainOf(op, a, b), left, right, s)
Called(op, left, right, s)   == BothOf(LAMBDA a, b : PsOf(op, a, b), left, right, s)

(* emitRawExpr and emitBoxedExpr: all but and and or is boxed as a whole.         *)
RawJoin(op, left, right) ==
  [s \in Stores |-> IF op \in Logic THEN Shortened(op, left.raw, right.raw, s)
                    ELSE Operated(op, left.raw, right.raw, s)]
BoxedJoin(op, left, right) ==
  IF op \in Logic
  THEN [s \in Stores |-> Called(op, left.boxed, right.boxed, s)]
  ELSE RawJoin(op, left, right)

------------------------------------------------------------------------------
(* What can be said of a text without its objects: those it may read and write,  *)
(* whether it may be undefined for any other reason than these, and whether it    *)
(* takes more than both operands of an and or or to print it boxed.             *)
Term(raw, boxed, reads, writes, fails, risky, size) ==
  [raw |-> raw, boxed |-> boxed, reads |-> reads, writes |-> writes, fails |-> fails,
   risky |-> risky, size |-> size]
Leaf(raw, reads, writes) == Term(raw, raw, reads, writes, FALSE, FALSE, 1)

Numeral(n) == Leaf([s \in Stores |-> {Outcome(n, s, {}, {})}], {}, {})
Cell(x)    == Leaf([s \in Stores |-> {Outcome(s[x], s, {x}, {})}], {x}, {})
(* Increment after x.                                                           *)
Bump(x) ==
  Leaf([s \in Stores |-> {Outcome(s[x], [s EXCEPT ![x] = v], {x}, {x}) : v \in Only("long", s[x] + 1)}],
       {x}, {x})

(* not.                                                                         *)
Negated(t) ==
  LET raw == [s \in Stores |-> {Valued(o, Truth(o.value = 0)) : o \in t.raw[s]}]
  IN  Term(raw, raw, t.reads, t.writes, t.fails, FALSE, t.size + 1)

(* An and or or whose right operand writes, may be undefined or reads what the    *)
(* left one writes.                                                             *)
Entangled(left, right) ==
  right.writes # {} \/ right.fails \/ left.writes \cap right.reads # {}

Joined(op, left, right) ==
  Term(RawJoin(op, left, right), BoxedJoin(op, left, right),
       left.reads \cup right.reads, left.writes \cup right.writes,
       left.fails \/ right.fails \/ op \notin Logic \cup Comparisons,
       op \in Logic /\ (left.risky \/ right.risky \/ Entangled(left, right)),
       left.size + right.size + 1)

------------------------------------------------------------------------------
SizeOf(s) ==
  LET Sum[k \in 0 .. Len(s)] == IF k = 0 THEN 0 ELSE Sum[k - 1] + s[k].size IN Sum[Len(s)]

SInit == terms = <<>>

(* Every term but the first still needs an operator.                           *)
WriteLeaf ==
  /\ SizeOf(terms) + 1 + Len(terms) <= MaxTerms
  /\ \/ \E n \in Numerals : terms' = <<Numeral(n)>> \o terms
     \/ \E x \in Cells : terms' = <<Cell(x)>> \o terms
     \/ \E x \in Cells : terms' = <<Bump(x)>> \o terms

WriteNot ==
  /\ terms # <<>> /\ SizeOf(terms) + Len(terms) <= MaxTerms
  /\ terms' = <<Negated(terms[1])>> \o Tail(terms)

WriteJoin ==
  /\ Len(terms) >= 2
  /\ \E op \in Joins : terms' = <<Joined(op, terms[2], terms[1])>> \o SubSeq(terms, 3, Len(terms))

SNext == WriteLeaf \/ WriteNot \/ WriteJoin

SSpec == SInit /\ [][SNext]_terms

------------------------------------------------------------------------------
(* What a program can see of its outcomes.                                     *)
Seen(outcomes) == {<<o.value, o.store>> : o \in outcomes}

OneTerm == Len(terms) = 1

(* Boxed and raw, an expression has the same value and leaves the same values in  *)
(* the objects, whatever was in them, and is undefined for the same ones, unless  *)
(* it is risky: what ps_and and ps_or evaluate too much cannot be seen (ps_and,    *)
(* ps_or, emitBoxedExpr, emitRawExpr).                                         *)
BoxedIsRaw ==
  OneTerm /\ ~ terms[1].risky =>
    \A s \in Stores : Seen(terms[1].boxed[s]) = Seen(terms[1].raw[s])

(* The documentation: and and or keep their short circuit everywhere.           *)
KeepsShortCircuit ==
  OneTerm => \A s \in Stores : Seen(terms[1].boxed[s]) = Seen(terms[1].raw[s])
==============================================================================
