----------------------------- MODULE LongArithmetic -----------------------------
(***************************************************************************)
(* The arithmetic of long and of int: what the constant folder of sema       *)
(* computes, what C computes for the text the emitter prints, and what the   *)
(* runtime computes on boxed numbers.  A result is the set of its value;      *)
(* none is a refusal of the folder, undefined behaviour or an exit.           *)
(***************************************************************************)
EXTENDS Integers

CONSTANTS LongBits, IntBits     (* the widths of long and int                     *)

ASSUME LongAssumption == LongBits \in Nat /\ IntBits \in 2 .. LongBits

LongMax == 2 ^ (LongBits - 1) - 1
LongMin == - LongMax - 1
Long    == LongMin .. LongMax
IntMax  == 2 ^ (IntBits - 1) - 1
IntValues   == - IntMax - 1 .. IntMax

(* What powers of two are, which the prover does not know.                     *)
ASSUME PowersAssumption ==
  /\ 2 ^ 0 = 1
  /\ \A n \in 0 .. LongBits : 2 ^ n \in Nat \ {0} /\ 2 ^ (n + 1) = 2 * 2 ^ n

Truth(p) == IF p THEN 1 ELSE 0
Magnitude(a) == IF a < 0 THEN - a ELSE a

(* C's division goes towards zero.                                             *)
Quotient(a, b) ==
  LET q == Magnitude(a) \div Magnitude(b) IN IF (a < 0) = (b < 0) THEN q ELSE - q
Remainder(a, b) == a - b * Quotient(a, b)

(* Bit k of a in two's complement.                                             *)
Bit(a, k) == (a \div 2 ^ k) % 2
OfBits(bits) == CHOOSE v \in Long : \A k \in 0 .. LongBits - 1 : Bit(v, k) = bits[k]
BitAndOf(a, b) == OfBits([k \in 0 .. LongBits - 1 |-> Bit(a, k) * Bit(b, k)])
BitOrOf(a, b)  == OfBits([k \in 0 .. LongBits - 1 |-> Bit(a, k) + Bit(b, k) - Bit(a, k) * Bit(b, k)])
BitXorOf(a, b) == OfBits([k \in 0 .. LongBits - 1 |-> (Bit(a, k) + Bit(b, k)) % 2])

------------------------------------------------------------------------------
(* The checked operations: every comparison stays inside long.                 *)

CheckedAdd(a, b) ==
  IF \/ b > 0 /\ a > LongMax - b
     \/ b < 0 /\ a < LongMin - b
  THEN {} ELSE {a + b}

CheckedSub(a, b) ==
  IF \/ b < 0 /\ a > LongMax + b
     \/ b > 0 /\ a < LongMin + b
  THEN {} ELSE {a - b}

(* Mutant: the bounds of a product of different signs are swapped.             *)
CheckedMulSwapped(a, b) ==
  IF \/ a = 0 \/ b = 0
     \/ /\ ~ (a = -1 /\ b = LongMin) /\ ~ (b = -1 /\ a = LongMin)
        /\ \/ a > 0 /\ b > 0 /\ a <= Quotient(LongMax, b)
           \/ a > 0 /\ b < 0 /\ b >= Quotient(LongMax, - a)
           \/ a < 0 /\ b > 0 /\ a >= Quotient(LongMin, b)
           \/ a < 0 /\ b < 0 /\ a >= Quotient(LongMax, b)
  THEN {a * b} ELSE {}

CheckedMul(a, b) ==
  IF \/ a = 0 \/ b = 0
     \/ /\ ~ (a = -1 /\ b = LongMin) /\ ~ (b = -1 /\ a = LongMin)
        /\ \/ a > 0 /\ b > 0 /\ a <= Quotient(LongMax, b)
           \/ a > 0 /\ b < 0 /\ b >= Quotient(LongMin, a)
           \/ a < 0 /\ b > 0 /\ a >= Quotient(LongMin, b)
           \/ a < 0 /\ b < 0 /\ a >= Quotient(LongMax, b)
  THEN {a * b} ELSE {}

FoldUnary(op, a) ==
  CASE op = "Not"    -> {Truth(a = 0)}
    [] op = "BitNot" -> {- a - 1}
    [] op = "Neg"    -> IF a = LongMin THEN {} ELSE {- a}

Comparisons == {"Gt", "Lt", "Eq", "Ne", "Ge", "Le"}
Compare(op, a, b) ==
  CASE op = "Gt" -> a > b
    [] op = "Lt" -> a < b
    [] op = "Eq" -> a = b
    [] op = "Ne" -> a # b
    [] op = "Ge" -> a >= b
    [] op = "Le" -> a <= b

Divides(a, b) == b # 0 /\ ~ (a = LongMin /\ b = -1)
FoldBinary(op, a, b) ==
  CASE op = "Add"    -> CheckedAdd(a, b)
    [] op = "Sub"    -> CheckedSub(a, b)
    [] op = "Mul"    -> CheckedMul(a, b)
    [] op = "Div"    -> IF Divides(a, b) THEN {Quotient(a, b)} ELSE {}
    [] op = "Mod"    -> IF Divides(a, b) THEN {Remainder(a, b)} ELSE {}
    [] op = "ShiftLeft"  ->
         IF a >= 0 /\ b \in 0 .. LongBits - 1 /\ a <= LongMax \div 2 ^ b THEN {a * 2 ^ b} ELSE {}
    [] op = "ShiftRight" -> IF b \in 0 .. LongBits - 1 THEN {a \div 2 ^ b} ELSE {}
    [] op = "BitAnd" -> {BitAndOf(a, b)}
    [] op = "BitXor" -> {BitXorOf(a, b)}
    [] op = "BitOr"  -> {BitOrOf(a, b)}
    [] op \in {"And", "Or"} -> {Truth(b # 0)}
    [] op = "Comma"  -> {b}
    [] OTHER         -> {Truth(Compare(op, a, b))}

------------------------------------------------------------------------------
(* C on a type: the mathematical result, if the type has it.                   *)

Values(type) == IF type = "int" THEN IntValues ELSE Long
Width(type) == IF type = "int" THEN IntBits ELSE LongBits
Only(type, n) == {n} \cap Values(type)

CUnary(type, op, a) ==
  CASE op = "Not"    -> {Truth(a = 0)}
    [] op = "BitNot" -> Only(type, - a - 1)
    [] op = "Neg"    -> Only(type, - a)

CBinary(type, op, a, b) ==
  CASE op = "Add" -> Only(type, a + b)
    [] op = "Sub" -> Only(type, a - b)
    [] op = "Mul" -> Only(type, a * b)
    [] op = "Div" -> IF b = 0 THEN {} ELSE Only(type, Quotient(a, b))
    [] op = "Mod" -> IF b = 0 \/ Only(type, Quotient(a, b)) = {} THEN {} ELSE {Remainder(a, b)}
    [] op = "ShiftLeft"  ->
         IF a >= 0 /\ b \in 0 .. Width(type) - 1 THEN Only(type, a * 2 ^ b) ELSE {}
    [] op = "ShiftRight" -> IF b \in 0 .. Width(type) - 1 THEN {a \div 2 ^ b} ELSE {}
    [] op = "BitAnd" -> {BitAndOf(a, b)}
    [] op = "BitXor" -> {BitXorOf(a, b)}
    [] op = "BitOr"  -> {BitOrOf(a, b)}
    [] op = "Comma"  -> {b}
    [] OTHER         -> {Truth(Compare(op, a, b))}

(* The runtime's and and or are functions: both operands have been evaluated.  *)
PsAnd(a, b) == {Truth(a # 0 /\ b # 0)}
(* Mutant: the second operand's value instead of its truth.                    *)
PsOrValue(a, b) == {IF a # 0 THEN 1 ELSE b}
PsOr(a, b)  == {Truth(a # 0 \/ b # 0)}
==============================================================================
