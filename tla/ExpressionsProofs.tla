-------------------------- MODULE ExpressionsProofs --------------------------
(***************************************************************************)
(* Proofs about LongArithmetic, Expressions and ShortCircuit: for every width  *)
(* of long, the folder gives the result of C for every operator, where C has    *)
(* one, and refuses exactly the others; and for expressions of any size, the    *)
(* folded value is that of the raw text, an access C leaves unsequenced is      *)
(* reported and a reported one is unsequenced, outside the forms named for it,   *)
(* and the boxed text shows what the raw one shows, unless it is risky.          *)
(***************************************************************************)
EXTENDS Expressions, ShortCircuit, TLAPS, WellFoundedInduction

------------------------------------------------------------------------------
(* Powers of two and the limits of long.                                      *)

(* A power of two is positive, and the next one is its double.                *)
LEMMA Powers ==
  /\ 2 ^ 0 = 1
  /\ \A n \in 0 .. LongBits : 2 ^ n \in Nat /\ 2 ^ n > 0 /\ 2 ^ (n + 1) = 2 * 2 ^ n
BY PowersAssumption

(* A set of naturals has a least element.                                     *)
LEMMA Least ==
  ASSUME NEW S \in SUBSET Nat, S # {}
  PROVE  \E m \in S : \A n \in S : m <= n
<1> DEFINE R == {ss \in Nat \X Nat : ss[1] < ss[2]}
<1>1. R = OpToRel(<, Nat)
  BY Zenon DEF OpToRel
<1>2. \A m, n \in Nat : m <= n \/ <<n, m>> \in R
  OBVIOUS
<1> HIDE DEF R
<1>3. IsWellFoundedOn(R, Nat)
  BY <1>1, NatLessThanWellFounded, Zenon
<1>4. PICK m \in S : \A n \in S : ~(<<n, m>> \in R)
  BY <1>3, WFMin, Zenon
<1>5. QED
  BY <1>2, <1>4, Zenon

(* No power is less than an earlier one.                                      *)
LEMMA PowersGrow ==
  ASSUME NEW m \in 0 .. LongBits, NEW n \in 0 .. LongBits, m <= n
  PROVE  2 ^ m <= 2 ^ n
<1> DEFINE S == {k \in Nat : m <= k /\ k <= LongBits /\ ~ (2 ^ m <= 2 ^ k)}
<1>1. LongBits \in Nat
  BY LongAssumption
<1>2. ASSUME S # {}
      PROVE  FALSE
  <2>1. PICK k \in S : \A j \in S : k <= j
    BY <1>2, Least
  <2>2. k \in Nat /\ m <= k /\ k <= LongBits /\ ~ (2 ^ m <= 2 ^ k) /\ m \in Nat
    OBVIOUS
  <2>3. k # m
    BY <1>1, <2>2, Powers
  <2>4. k - 1 \in Nat /\ m <= k - 1 /\ k - 1 <= LongBits /\ k - 1 \notin S
    BY <1>1, <2>1, <2>2, <2>3
  <2>5. 2 ^ m <= 2 ^ (k - 1)
    BY <2>4
  <2>6. 2 ^ ((k - 1) + 1) = 2 * 2 ^ (k - 1) /\ 2 ^ (k - 1) \in Nat /\ 2 ^ m \in Nat
    BY <1>1, <2>2, <2>4, Powers
  <2>7. (k - 1) + 1 = k
    BY <2>2
  <2>8. QED
    BY <2>2, <2>5, <2>6, <2>7
<1>3. QED
  BY <1>1, <1>2

(* LONG_MIN is one further from zero than LONG_MAX, and every int is a long.    *)
LEMMA Limits ==
  /\ LongMin \in Int /\ LongMin = - (LongMax + 1) /\ LongMin < 0
  /\ LongMax \in Nat /\ LongMax >= 1
  /\ IntMax \in Nat /\ IntMax <= LongMax
<1>1. LongBits \in Nat /\ IntBits \in Nat /\ 2 <= IntBits /\ IntBits <= LongBits
  BY LongAssumption
<1>2. LongBits - 1 \in 0 .. LongBits /\ IntBits - 1 \in 0 .. LongBits /\ 1 \in 0 .. LongBits
      /\ IntBits - 1 <= LongBits - 1 /\ 1 <= LongBits - 1
  BY <1>1
<1>3. 2 ^ 1 = 2
  <2>1. 0 \in 0 .. LongBits /\ 0 + 1 = 1
    BY <1>1
  <2>2. QED
    BY <2>1, Powers
<1>4. 2 ^ (LongBits - 1) \in Nat /\ 2 ^ (IntBits - 1) \in Nat /\ 2 ^ (IntBits - 1) > 0
  BY <1>2, Powers
<1>5. 2 ^ 1 <= 2 ^ (LongBits - 1) /\ 2 ^ (IntBits - 1) <= 2 ^ (LongBits - 1)
  BY <1>2, PowersGrow
<1>6. QED
  BY <1>3, <1>4, <1>5 DEF LongMin, LongMax, IntMax

(* An int is a long.                                                          *)
LEMMA IntsAreLong == IntValues \subseteq Long
BY Limits DEF IntValues, Long

------------------------------------------------------------------------------
(* The checked operations.                                                    *)

(* The values of a long are the integers between its limits.                  *)
LEMMA InLong == ASSUME NEW n \in Int PROVE n \in Long <=> LongMin <= n /\ n <= LongMax
BY Limits DEF Long

(* To compare with a quotient is to compare the product.                      *)
LEMMA QuotientBounds ==
  ASSUME NEW x \in Nat, NEW y \in Nat, y > 0, NEW a \in Int
  PROVE  a <= x \div y <=> a * y <= x
OBVIOUS

(* A quotient by its signs.                                                   *)
LEMMA Quotients ==
  ASSUME NEW x \in Nat, NEW y \in Nat, y > 0
  PROVE  /\ Quotient(x, y) = x \div y /\ x \div y \in Nat
         /\ Quotient(x, - y) = - (x \div y)
         /\ x > 0 => Quotient(- x, y) = - (x \div y)
<1>1. Magnitude(x) = x /\ Magnitude(y) = y /\ Magnitude(- x) = x /\ Magnitude(- y) = y
  BY DEF Magnitude
<1>2. x \div y \in Nat
  OBVIOUS
<1>3. (x < 0) = (y < 0) /\ ~ ((x < 0) = (- y < 0)) /\ (x > 0 => ~ ((- x < 0) = (y < 0)))
  OBVIOUS
<1>4. QED
  BY <1>1, <1>2, <1>3 DEF Quotient

(* checkedAddLong and checkedSubLong refuse a sum or a difference if and only if *)
(* C has none for it, whatever the width of long.                              *)
THEOREM SumsFolded ==
  \A a, b \in Long : CheckedAdd(a, b) = CBinary("long", "Add", a, b)
                     /\ CheckedSub(a, b) = CBinary("long", "Sub", a, b)
<1>1. ASSUME NEW a \in Long, NEW b \in Long
      PROVE  CheckedAdd(a, b) = Only("long", a + b) /\ CheckedSub(a, b) = Only("long", a - b)
  BY Limits DEF CheckedAdd, CheckedSub, Only, Values, Long
<1>2. QED
  BY <1>1 DEF CBinary

(* The bound of checkedMulLong for two positive factors.                      *)
LEMMA MulPositive ==
  ASSUME NEW a \in Long, NEW b \in Long, a > 0, b > 0
  PROVE  a * b \in Long <=> a <= Quotient(LongMax, b)
<1>1. a \in Nat /\ b \in Nat /\ a * b \in Nat
  BY Limits DEF Long
<1>2. Quotient(LongMax, b) = LongMax \div b
  BY <1>1, Limits, Quotients
<1>3. a <= LongMax \div b <=> a * b <= LongMax
  BY <1>1, Limits, QuotientBounds
<1>4. QED
  BY <1>1, <1>2, <1>3, Limits, InLong

(* The bound for a positive and a negative one.                               *)
LEMMA MulMixed ==
  ASSUME NEW a \in Long, NEW b \in Long, a > 0, b < 0
  PROVE  a * b \in Long <=> b >= Quotient(LongMin, a)
<1>1. a \in Nat /\ - b \in Nat /\ (- b) * a \in Nat /\ a * b = - ((- b) * a)
  BY Limits DEF Long
<1>2. Quotient(LongMin, a) = - ((LongMax + 1) \div a) /\ (LongMax + 1) \div a \in Nat
  <2>1. LongMax + 1 \in Nat /\ LongMax + 1 > 0 /\ LongMin = - (LongMax + 1)
    BY Limits
  <2>2. QED
    BY <1>1, <2>1, Quotients
<1>3. - b <= (LongMax + 1) \div a <=> (- b) * a <= LongMax + 1
  BY <1>1, Limits, QuotientBounds
<1>4. a * b \in Long <=> (- b) * a <= LongMax + 1
  BY <1>1, Limits, InLong
<1>5. b \in Int
  BY DEF Long
<1>6. QED
  BY <1>2, <1>3, <1>4, <1>5

(* The bound for two negative ones.                                           *)
LEMMA MulNegative ==
  ASSUME NEW a \in Long, NEW b \in Long, a < 0, b < 0
  PROVE  a * b \in Long <=> a >= Quotient(LongMax, b)
<1>1. - a \in Nat /\ - b \in Nat /\ (- a) * (- b) \in Nat /\ a * b = (- a) * (- b) /\ - (- b) = b
  BY Limits DEF Long
<1>2. Quotient(LongMax, b) = - (LongMax \div (- b)) /\ LongMax \div (- b) \in Nat
  BY <1>1, Limits, Quotients
<1>3. - a <= LongMax \div (- b) <=> (- a) * (- b) <= LongMax
  BY <1>1, Limits, QuotientBounds
<1>4. a * b \in Long <=> (- a) * (- b) <= LongMax
  BY <1>1, Limits, InLong
<1>5. a \in Int
  BY DEF Long
<1>6. QED
  BY <1>2, <1>3, <1>4, <1>5

(* What C has for a result: the result when it fits, else nothing.            *)
LEMMA OnlyLong ==
  ASSUME NEW n
  PROVE  Only("long", n) = IF n \in Long THEN {n} ELSE {}
BY DEF Only, Values

(* checkedMulLong refuses a product if and only if C has none for it, whatever    *)
(* the signs and the width of long: no division in its bounds is off by one.    *)
THEOREM ProductsFolded ==
  \A a, b \in Long : CheckedMul(a, b) = CBinary("long", "Mul", a, b)
<1> SUFFICES ASSUME NEW a \in Long, NEW b \in Long
             PROVE  CheckedMul(a, b) = Only("long", a * b)
  BY DEF CBinary
<1>1. a \in Int /\ b \in Int /\ a * b \in Int /\ a * b = b * a
  BY DEF Long
<1>2. CASE a = 0 \/ b = 0
  <2>1. a * b = 0 /\ 0 \in Long
    BY <1>1, <1>2, Limits, InLong
  <2>2. QED
    BY <1>2, <2>1 DEF CheckedMul, Only, Values
<1>3. CASE a > 0 /\ b > 0
  <2>1. CheckedMul(a, b) = IF a <= Quotient(LongMax, b) THEN {a * b} ELSE {}
    BY <1>1, <1>3 DEF CheckedMul
  <2>2. QED
    BY <1>3, <2>1, MulPositive, OnlyLong
<1>4. CASE a > 0 /\ b < 0
  <2>1. /\ ~ (a = 0 \/ b = 0) /\ a # -1 /\ (b = -1 => a # LongMin)
        /\ ~ (b > 0) /\ ~ (a < 0)
    BY <1>1, <1>4, Limits
  <2>2. CheckedMul(a, b) = IF b >= Quotient(LongMin, a) THEN {a * b} ELSE {}
    BY <1>4, <2>1, Zenon DEF CheckedMul
  <2>3. QED
    BY <1>4, <2>2, MulMixed, OnlyLong
<1>5. CASE a < 0 /\ b > 0
  <2>1. /\ ~ (a = 0 \/ b = 0) /\ (a = -1 => b # LongMin) /\ b # -1
        /\ ~ (a > 0) /\ ~ (b < 0)
    BY <1>1, <1>5, Limits
  <2>2. CheckedMul(a, b) = IF a >= Quotient(LongMin, b) THEN {a * b} ELSE {}
    BY <1>5, <2>1, Zenon DEF CheckedMul
  <2>3. a * b \in Long <=> a >= Quotient(LongMin, b)
    BY <1>1, <1>5, MulMixed
  <2>4. QED
    BY <2>2, <2>3, OnlyLong
<1>6. CASE a < 0 /\ b < 0
  <2>1. CASE (a = -1 /\ b = LongMin) \/ (b = -1 /\ a = LongMin)
    <3>1. CheckedMul(a, b) = {}
      BY <1>1, <1>6, <2>1 DEF CheckedMul
    <3>2. a * b \notin Long
      BY <1>1, <2>1, Limits, InLong
    <3>3. QED
      BY <3>1, <3>2, OnlyLong
  <2>2. CASE ~ (a = -1 /\ b = LongMin) /\ ~ (b = -1 /\ a = LongMin)
    <3>1. CheckedMul(a, b) = IF a >= Quotient(LongMax, b) THEN {a * b} ELSE {}
      BY <1>1, <1>6, <2>2 DEF CheckedMul
    <3>2. QED
      BY <1>6, <3>1, MulNegative, OnlyLong
  <2>3. QED
    BY <2>1, <2>2
<1>7. QED
  BY <1>1, <1>2, <1>3, <1>4, <1>5, <1>6

(* The only quotient that does not fit is that of the smallest number by -1.    *)
LEMMA QuotientInLong ==
  ASSUME NEW a \in Long, NEW b \in Long, b # 0
  PROVE  Quotient(a, b) \in Long <=> ~ (a = LongMin /\ b = -1)
<1> DEFINE x == Magnitude(a)
           y == Magnitude(b)
           q == x \div y
<1>1. a \in Int /\ b \in Int /\ LongMin <= a /\ a <= LongMax
  BY Limits DEF Long
<1>2. x \in Nat /\ y \in Nat /\ y > 0 /\ x <= LongMax + 1 /\ (a >= 0 => x <= LongMax)
      /\ (x = LongMax + 1 <=> a = LongMin) /\ (y = 1 <=> b = 1 \/ b = -1)
  BY <1>1, Limits DEF Magnitude
<1> HIDE DEF x, y
<1>3. q \in Nat /\ q <= x
  <2>1. q \in Nat /\ (q <= q <=> q * y <= x)
    BY <1>2, QuotientBounds
  <2>2. q <= q * y
    BY <1>2, <2>1
  <2>3. QED
    BY <1>2, <2>1, <2>2
<1>4. y = 1 => q = x
  BY <1>2
<1>5. y # 1 => q = 0 \/ q < x
  <2>1. q \in Nat /\ (q <= q <=> q * y <= x)
    BY <1>2, QuotientBounds
  <2>2. ASSUME y # 1
        PROVE  2 * q <= q * y
    BY <1>2, <2>1, <2>2
  <2>3. QED
    BY <1>2, <2>1, <2>2
<1>6. Quotient(a, b) = IF (a < 0) = (b < 0) THEN q ELSE - q
  BY DEF Quotient, x, y
<1>7. CASE a >= 0
  <2>1. Quotient(a, b) = q \/ Quotient(a, b) = - q
    BY <1>6
  <2>2. q <= LongMax /\ a # LongMin
    BY <1>1, <1>2, <1>3, <1>7, Limits
  <2>3. QED
    BY <1>3, <2>1, <2>2, Limits, InLong
<1>8. CASE a < 0 /\ b > 0
  <2>1. Quotient(a, b) = - q /\ b # -1
    BY <1>1, <1>6, <1>8
  <2>2. QED
    BY <1>2, <1>3, <2>1, Limits, InLong
<1>9. CASE a < 0 /\ b < 0
  <2>1. Quotient(a, b) = q
    BY <1>1, <1>6, <1>9
  <2>2. q \in Long <=> q <= LongMax
    BY <1>3, Limits, InLong
  <2>3. q = LongMax + 1 <=> x = LongMax + 1 /\ y = 1
    BY <1>2, <1>3, <1>4, <1>5, Limits
  <2>4. q <= LongMax <=> q # LongMax + 1
    BY <1>2, <1>3, Limits
  <2>5. y = 1 <=> b = -1
    BY <1>1, <1>2, <1>9
  <2>6. QED
    BY <1>2, <2>1, <2>2, <2>3, <2>4, <2>5
<1>10. QED
  BY <1>1, <1>7, <1>8, <1>9

(* The folder refuses a quotient or a remainder if and only if C has none for it,  *)
(* whatever the width of long (integerConstantValue, Div and Mod).               *)
THEOREM QuotientsFolded ==
  \A a, b \in Long : \A op \in {"Div", "Mod"} : FoldBinary(op, a, b) = CBinary("long", op, a, b)
<1> SUFFICES ASSUME NEW a \in Long, NEW b \in Long
             PROVE  /\ FoldBinary("Div", a, b) = CBinary("long", "Div", a, b)
                    /\ FoldBinary("Mod", a, b) = CBinary("long", "Mod", a, b)
  OBVIOUS
<1>1. /\ FoldBinary("Div", a, b) = IF Divides(a, b) THEN {Quotient(a, b)} ELSE {}
      /\ FoldBinary("Mod", a, b) = IF Divides(a, b) THEN {Remainder(a, b)} ELSE {}
  BY DEF FoldBinary
<1>2. /\ CBinary("long", "Div", a, b) = IF b = 0 THEN {} ELSE Only("long", Quotient(a, b))
      /\ CBinary("long", "Mod", a, b) =
           IF b = 0 \/ Only("long", Quotient(a, b)) = {} THEN {} ELSE {Remainder(a, b)}
  BY DEF CBinary
<1>3. CASE b = 0
  BY <1>1, <1>2, <1>3 DEF Divides
<1>4. CASE b # 0
  <2>1. Divides(a, b) <=> Quotient(a, b) \in Long
    BY <1>4, QuotientInLong DEF Divides
  <2>2. QED
    BY <1>1, <1>2, <1>4, <2>1, OnlyLong
<1>5. QED
  BY <1>3, <1>4

------------------------------------------------------------------------------
(* Bits.                                                                      *)

(* What a division that rounds down is.                                       *)
LEMMA RoundsDown ==
  ASSUME NEW a \in Int, NEW d \in Nat, d > 0
  PROVE  a \div d \in Int /\ (a \div d) * d <= a /\ a < (a \div d + 1) * d
OBVIOUS

(* The quotient of a division that rounds down.                               *)
LEMMA Rounded ==
  ASSUME NEW a \in Int, NEW d \in Nat, d > 0, NEW q \in Int, q * d <= a, a < (q + 1) * d
  PROVE  a \div d = q
<1>1. a \div d \in Int /\ (a \div d) * d <= a /\ a < (a \div d + 1) * d
  OBVIOUS
<1> DEFINE r == a \div d
<1> HIDE DEF r
<1>2. r \in Int /\ r * d <= a /\ a < (r + 1) * d
  BY <1>1 DEF r
<1>3. ~ (r < q)
  <2>1. ASSUME r < q
        PROVE  (r + 1) * d <= q * d
    <3>1. r + 1 <= q /\ r + 1 \in Int
      BY <1>2, <2>1
    <3>2. QED
      BY <3>1
  <2>2. r * d \in Int /\ (r + 1) * d \in Int /\ q * d \in Int
    BY <1>2
  <2>3. QED
    BY <1>2, <2>1, <2>2
<1>4. ~ (q < r)
  <2>1. ASSUME q < r
        PROVE  (q + 1) * d <= r * d
    <3>1. q + 1 <= r /\ q + 1 \in Int
      BY <1>2, <2>1
    <3>2. QED
      BY <1>2, <3>1
  <2>2. r * d \in Int /\ (q + 1) * d \in Int
    BY <1>2
  <2>3. QED
    BY <1>2, <2>1, <2>2
<1>5. QED
  BY <1>2, <1>3, <1>4 DEF r

(* A number without its lowest bit.                                           *)
LEMMA Halved ==
  ASSUME NEW w \in Int, NEW b \in {0, 1}, NEW p \in Nat, p > 0
  PROVE  (b + 2 * w) \div (2 * p) = w \div p
<1> DEFINE q == w \div p
<1>1. q \in Int /\ q * p <= w /\ w < (q + 1) * p
  OBVIOUS
<1> HIDE DEF q
<1>2. q * p \in Int /\ (q + 1) * p \in Int /\ q * (2 * p) = 2 * (q * p)
      /\ (q + 1) * (2 * p) = 2 * ((q + 1) * p)
  BY <1>1
<1>3. q * (2 * p) <= b + 2 * w /\ b + 2 * w < (q + 1) * (2 * p)
  BY <1>1, <1>2
<1>4. 2 * p \in Nat /\ 2 * p > 0 /\ b + 2 * w \in Int
  OBVIOUS
<1>5. (b + 2 * w) \div (2 * p) = q
  BY <1>1, <1>3, <1>4, Rounded
<1>6. QED
  BY <1>5 DEF q

(* The lowest bit of a number.                                                *)
LEMMA LowestBit ==
  ASSUME NEW w \in Int, NEW b \in {0, 1}
  PROVE  Bit(b + 2 * w, 0) = b
<1>1. ((b + 2 * w) \div 1) % 2 = b
  OBVIOUS
<1>2. QED
  BY <1>1, Powers DEF Bit

(* Every pattern of n + 1 bits is that of a number in two's complement.        *)
Patterned(n) ==
  \A f \in [0 .. n -> {0, 1}] :
    \E v \in - (2 ^ n) .. 2 ^ n - 1 : \A k \in 0 .. n : Bit(v, k) = f[k]

(* One bit.                                                                   *)
LEMMA OneBit == Patterned(0)
<1> SUFFICES ASSUME NEW f \in [0 .. 0 -> {0, 1}]
             PROVE  \E v \in - 1 .. 0 : \A k \in 0 .. 0 : Bit(v, k) = f[k]
  BY Powers DEF Patterned
<1>1. Bit(0, 0) = 0 /\ Bit(-1, 0) = 1
  <2>1. Bit(0 + 2 * 0, 0) = 0 /\ Bit(1 + 2 * (-1), 0) = 1
    <3>1. \A b \in {0, 1}, w \in Int : Bit(b + 2 * w, 0) = b
      BY LowestBit
    <3> HIDE DEF Bit
    <3>2. QED
      BY <3>1
  <2>2. 0 + 2 * 0 = 0 /\ 1 + 2 * (-1) = -1
    OBVIOUS
  <2>3. QED
    BY <2>1, <2>2
<1>2. f[0] = 0 \/ f[0] = 1
  OBVIOUS
<1>3. QED
  BY <1>1, <1>2

(* One bit more.                                                              *)
LEMMA BitMore ==
  ASSUME NEW n \in Nat, n < LongBits, Patterned(n)
  PROVE  Patterned(n + 1)
<1> SUFFICES ASSUME NEW f \in [0 .. n + 1 -> {0, 1}]
             PROVE  \E v \in - (2 ^ (n + 1)) .. 2 ^ (n + 1) - 1 :
                      \A k \in 0 .. n + 1 : Bit(v, k) = f[k]
  BY DEF Patterned
<1> DEFINE g == [k \in 0 .. n |-> f[k + 1]]
<1>1. LongBits \in Nat /\ n \in 0 .. LongBits
  BY LongAssumption
<1>2. g \in [0 .. n -> {0, 1}]
  OBVIOUS
<1>3. PICK w \in - (2 ^ n) .. 2 ^ n - 1 : \A k \in 0 .. n : Bit(w, k) = g[k]
  BY <1>2 DEF Patterned
<1>4. 2 ^ n \in Nat /\ 2 ^ (n + 1) = 2 * 2 ^ n /\ f[0] \in {0, 1}
  BY <1>1, Powers
<1>5. w \in Int /\ - (2 ^ n) <= w /\ w <= 2 ^ n - 1
  BY <1>3, <1>4
<1> DEFINE v == f[0] + 2 * w
<1>6. v \in - (2 ^ (n + 1)) .. 2 ^ (n + 1) - 1
  BY <1>4, <1>5
<1>7. Bit(v, 0) = f[0]
  BY <1>4, <1>5, LowestBit
<1>8. ASSUME NEW k \in 0 .. n
      PROVE  Bit(v, k + 1) = f[k + 1]
  <2>1. k \in 0 .. LongBits
    BY <1>1
  <2>2. 2 ^ k \in Nat /\ 2 ^ k > 0 /\ 2 ^ (k + 1) = 2 * 2 ^ k
    BY <2>1, Powers
  <2>3. v \div 2 ^ (k + 1) = w \div 2 ^ k
    BY <1>4, <1>5, <2>2, Halved
  <2>4. Bit(w, k) = f[k + 1]
    BY <1>3
  <2>5. QED
    BY <2>3, <2>4 DEF Bit
<1> HIDE DEF v
<1>9. ASSUME NEW k \in 0 .. n + 1
      PROVE  Bit(v, k) = f[k]
  <2>1. CASE k = 0
    BY <1>7, <2>1
  <2>2. CASE k # 0
    <3>1. k - 1 \in 0 .. n /\ (k - 1) + 1 = k
      BY <2>2
    <3>2. QED
      BY <1>8, <3>1
  <2>3. QED
    BY <2>1, <2>2
<1>10. QED
  BY <1>6, <1>9

(* A long has any bits.                                                       *)
LEMMA AllBits ==
  ASSUME NEW f \in [0 .. LongBits - 1 -> {0, 1}]
  PROVE  OfBits(f) \in Long
<1>1. LongBits \in Nat /\ LongBits - 1 \in Nat
  BY LongAssumption
<1> DEFINE S == {n \in Nat : n < LongBits /\ ~ Patterned(n)}
<1>2. ASSUME S # {}
      PROVE  FALSE
  <2>1. PICK n \in S : \A j \in S : n <= j
    BY <1>2, Least
  <2>2. n \in Nat /\ n < LongBits /\ ~ Patterned(n)
    OBVIOUS
  <2>3. n # 0
    BY <2>2, OneBit
  <2>4. n - 1 \in Nat /\ n - 1 < LongBits /\ (n - 1) + 1 = n /\ ~ (n <= n - 1)
    BY <1>1, <2>2, <2>3
  <2>5. Patterned(n - 1)
    BY <2>1, <2>4
  <2>6. QED
    BY <2>2, <2>4, <2>5, BitMore
<1>3. Patterned(LongBits - 1)
  BY <1>1, <1>2
<1>4. 2 ^ (LongBits - 1) - 1 = LongMax /\ - (2 ^ (LongBits - 1)) = LongMin
  <2>1. LongBits - 1 \in 0 .. LongBits
    BY <1>1
  <2>2. 2 ^ (LongBits - 1) \in Nat
    BY <2>1, Powers
  <2>3. QED
    BY <2>2 DEF LongMax, LongMin
<1>5. \E v \in Long : \A k \in 0 .. LongBits - 1 : Bit(v, k) = f[k]
  BY <1>3, <1>4 DEF Patterned, Long
<1>6. QED
  BY <1>5 DEF OfBits

(* A bitwise operation gives a long.                                          *)
LEMMA BitwiseInLong ==
  ASSUME NEW a \in Int, NEW b \in Int
  PROVE  BitAndOf(a, b) \in Long /\ BitOrOf(a, b) \in Long /\ BitXorOf(a, b) \in Long
<1>1. ASSUME NEW n \in Int, NEW k \in 0 .. LongBits - 1
      PROVE  Bit(n, k) \in {0, 1}
  <2>1. k \in 0 .. LongBits
    BY LongAssumption
  <2>2. 2 ^ k \in Nat /\ 2 ^ k > 0
    BY <2>1, Powers
  <2>3. n \div 2 ^ k \in Int
    BY <2>2
  <2>4. QED
    BY <2>3 DEF Bit
<1>2. ASSUME NEW x \in {0, 1}, NEW y \in {0, 1}
      PROVE  x * y \in {0, 1} /\ x + y - x * y \in {0, 1} /\ (x + y) % 2 \in {0, 1}
  OBVIOUS
<1>3. /\ [k \in 0 .. LongBits - 1 |-> Bit(a, k) * Bit(b, k)] \in [0 .. LongBits - 1 -> {0, 1}]
      /\ [k \in 0 .. LongBits - 1 |-> Bit(a, k) + Bit(b, k) - Bit(a, k) * Bit(b, k)]
           \in [0 .. LongBits - 1 -> {0, 1}]
      /\ [k \in 0 .. LongBits - 1 |-> (Bit(a, k) + Bit(b, k)) % 2] \in [0 .. LongBits - 1 -> {0, 1}]
  BY <1>1, <1>2
<1>4. QED
  BY <1>3, AllBits DEF BitAndOf, BitOrOf, BitXorOf

------------------------------------------------------------------------------
(* Every operator.                                                            *)

(* What a division leaves over.                                               *)
LEMMA LeftOver ==
  ASSUME NEW m \in Nat, NEW d \in Nat, d > 0
  PROVE  LET n == m \div d
         IN  n \in Int /\ d * n \in Int /\ 0 <= m - d * n /\ m - d * n < d
<1> DEFINE n == m \div d
<1>1. n \in Int /\ n * d <= m /\ m < (n + 1) * d
  BY RoundsDown, m \in Int
<1> HIDE DEF n
<1>2. d * n = n * d /\ d * n \in Int /\ (n + 1) * d = d * n + d
  BY <1>1
<1>3. 0 <= m - d * n /\ m - d * n < d
  BY <1>1, <1>2
<1>4. QED
  BY <1>1, <1>2, <1>3 DEF n

(* A remainder is smaller than what it is the remainder of a division by.      *)
LEMMA RemainderInLong ==
  ASSUME NEW a \in Long, NEW b \in Long, b # 0
  PROVE  Remainder(a, b) \in Long
<1> DEFINE x == Magnitude(a)
           y == Magnitude(b)
           q == x \div y
           r == x - y * q
<1>1. a \in Int /\ b \in Int /\ LongMin <= b /\ b <= LongMax
  BY Limits DEF Long
<1>2. x \in Nat /\ y \in Nat /\ y > 0 /\ y <= LongMax + 1
      /\ (a = x \/ (a < 0 /\ a = - x)) /\ (b = y \/ (b < 0 /\ b = - y))
  BY <1>1, Limits DEF Magnitude
<1>3. Quotient(a, b) = IF (a < 0) = (b < 0) THEN q ELSE - q
  BY DEF Quotient
<1>4. q \in Int /\ y * q \in Int /\ 0 <= r /\ r < y
  BY <1>2, LeftOver
<1> HIDE DEF x, y, q
<1>5. (- y) * (- q) = y * q /\ (- y) * q = - (y * q) /\ y * (- q) = - (y * q)
  BY <1>2, <1>4
<1>6. a - b * Quotient(a, b) = r \/ a - b * Quotient(a, b) = - r
  <2>1. CASE a = x /\ a >= 0
    <3>1. b * Quotient(a, b) = y * q
      BY <1>1, <1>2, <1>3, <1>5, <2>1
    <3>2. QED
      BY <1>2, <1>4, <2>1, <3>1
  <2>2. CASE a < 0 /\ a = - x
    <3>1. b * Quotient(a, b) = - (y * q)
      BY <1>1, <1>2, <1>3, <1>5, <2>2
    <3>2. QED
      BY <1>2, <1>4, <2>2, <3>1
  <2>3. QED
    BY <1>1, <1>2, <2>1, <2>2
<1>7. r \in Int /\ - r \in Int /\ r <= LongMax /\ LongMin <= - r /\ - r <= LongMax /\ LongMin <= r
  BY <1>2, <1>4, Limits
<1>8. QED
  BY <1>6, <1>7, InLong DEF Remainder

(* A number shifted to the right is no further from zero.                     *)
LEMMA ShiftedInLong ==
  ASSUME NEW a \in Long, NEW p \in Nat, p > 0
  PROVE  a \div p \in Long
<1> DEFINE q == a \div p
<1>1. a \in Int /\ LongMin <= a /\ a <= LongMax
  BY Limits DEF Long
<1>2. q \in Int /\ q * p <= a /\ a < (q + 1) * p
  BY <1>1
<1> HIDE DEF q
<1>3. q <= LongMax
  <2>1. ASSUME q > LongMax
        PROVE  FALSE
    <3>1. q \in Nat
      BY <1>2, <2>1, Limits
    <3>2. q <= q * p
      BY <1>2, <3>1
    <3>3. QED
      BY <1>1, <1>2, <2>1, <3>1, <3>2, Limits
  <2>2. QED
    BY <1>2, <2>1, Limits
<1>4. LongMin <= q
  <2>1. ASSUME q < LongMin
        PROVE  FALSE
    <3>1. - (q + 1) \in Nat /\ - (q + 1) <= (- (q + 1)) * p /\ (q + 1) * p = - ((- (q + 1)) * p)
      BY <1>2, <2>1, Limits
    <3>2. (- (q + 1)) * p \in Int
      BY <1>2
    <3>3. (q + 1) * p <= q + 1
      BY <1>2, <3>1, <3>2
    <3>4. QED
      BY <1>1, <1>2, <2>1, <3>2, <3>3, <3>1, Limits
  <2>2. QED
    BY <1>2, <2>1, Limits
<1>5. QED
  BY <1>2, <1>3, <1>4, InLong DEF q

(* What C has for a result on ints.                                           *)
LEMMA OnlyInt ==
  ASSUME NEW n
  PROVE  Only("int", n) = IF n \in IntValues THEN {n} ELSE {}
BY DEF Only, Values

(* A result that is a long, or none where it is not, is that of C on ints too    *)
(* if it is an int.                                                           *)
LEMMA OnlyOf ==
  ASSUME NEW type \in {"int", "long"}, NEW n,
         type = "int" => Only("long", n) \subseteq IntValues
  PROVE  Only("long", n) = Only(type, n) /\ Only("long", n) \subseteq Long
BY OnlyLong, OnlyInt, IntsAreLong

(* A unary operator is folded to what C has for it, on longs, and on ints if the *)
(* value is an int.                                                           *)
LEMMA UnaryFolded ==
  ASSUME NEW a \in Long, NEW op \in Unary, NEW type \in {"int", "long"},
         type = "int" => FoldUnary(op, a) \subseteq IntValues
  PROVE  FoldUnary(op, a) = CUnary(type, op, a) /\ FoldUnary(op, a) \subseteq Long
<1>1. a \in Int /\ LongMin <= a /\ a <= LongMax
  BY Limits DEF Long
<1>2. CASE op = "Not"
  <2>1. FoldUnary(op, a) = {Truth(a = 0)} /\ CUnary(type, op, a) = {Truth(a = 0)}
    BY <1>2 DEF FoldUnary, CUnary
  <2>2. Truth(a = 0) \in Long
    BY Limits, InLong DEF Truth
  <2>3. QED
    BY <2>1, <2>2
<1>3. CASE op = "BitNot"
  <2>1. FoldUnary(op, a) = {- a - 1} /\ CUnary(type, op, a) = Only(type, - a - 1)
    BY <1>3 DEF FoldUnary, CUnary
  <2>2. - a - 1 \in Long
    BY <1>1, Limits, InLong
  <2>3. QED
    BY <2>1, <2>2, OnlyOf, OnlyLong
<1>4. CASE op = "Neg"
  <2>1. FoldUnary(op, a) = (IF a = LongMin THEN {} ELSE {- a}) /\ CUnary(type, op, a) = Only(type, - a)
    BY <1>4 DEF FoldUnary, CUnary
  <2>2. - a \in Long <=> a # LongMin
    BY <1>1, Limits, InLong
  <2>3. QED
    BY <2>1, <2>2, OnlyOf, OnlyLong
<1>5. QED
  BY <1>2, <1>3, <1>4 DEF Unary

(* When C has for a binary operator what the folder has: always on long; on ints *)
(* if the value, or the quotient that belongs to a remainder, is an int, and the *)
(* count of a shift is less than the width of int.                            *)
Fits(type, op, a, b) ==
  type = "int" =>
    /\ FoldBinary(op, a, b) \subseteq IntValues
    /\ op \in {"ShiftLeft", "ShiftRight"} => ~ (b >= IntBits)
    /\ op = "Mod" => ~ (b # 0 /\ Quotient(a, b) \notin IntValues)

(* Sums, differences, products.                                               *)
LEMMA ArithmeticFolded ==
  ASSUME NEW a \in Long, NEW b \in Long, NEW op \in {"Add", "Sub", "Mul"},
         NEW type \in {"int", "long"}, Fits(type, op, a, b)
  PROVE  FoldBinary(op, a, b) = CBinary(type, op, a, b) /\ FoldBinary(op, a, b) \subseteq Long
<1> DEFINE n == CASE op = "Add" -> a + b [] op = "Sub" -> a - b [] op = "Mul" -> a * b
<1>1. FoldBinary(op, a, b) = CBinary("long", op, a, b)
  <2>1. CASE op = "Add"
    BY <2>1, SumsFolded DEF FoldBinary
  <2>2. CASE op = "Sub"
    BY <2>2, SumsFolded DEF FoldBinary
  <2>3. CASE op = "Mul"
    BY <2>3, ProductsFolded DEF FoldBinary
  <2>4. QED
    BY <2>1, <2>2, <2>3
<1>2. CBinary("long", op, a, b) = Only("long", n) /\ CBinary(type, op, a, b) = Only(type, n)
  BY DEF CBinary
<1> HIDE DEF n
<1>3. type = "int" => Only("long", n) \subseteq IntValues
  BY <1>1, <1>2 DEF Fits
<1>4. QED
  BY <1>1, <1>2, <1>3, OnlyOf

(* Quotients and remainders.                                                  *)
LEMMA DivisionFolded ==
  ASSUME NEW a \in Long, NEW b \in Long, NEW op \in {"Div", "Mod"},
         NEW type \in {"int", "long"}, Fits(type, op, a, b)
  PROVE  FoldBinary(op, a, b) = CBinary(type, op, a, b) /\ FoldBinary(op, a, b) \subseteq Long
<1>1. FoldBinary(op, a, b) = CBinary("long", op, a, b)
  BY QuotientsFolded
<1>2. CASE b = 0
  BY <1>1, <1>2 DEF CBinary
<1>3. CASE b # 0 /\ op = "Div"
  <2>1. CBinary("long", op, a, b) = Only("long", Quotient(a, b))
        /\ CBinary(type, op, a, b) = Only(type, Quotient(a, b))
    BY <1>3 DEF CBinary
  <2>2. type = "int" => Only("long", Quotient(a, b)) \subseteq IntValues
    BY <1>1, <2>1 DEF Fits
  <2>3. QED
    BY <1>1, <2>1, <2>2, OnlyOf
<1>4. CASE b # 0 /\ op = "Mod"
  <2>1. /\ CBinary("long", op, a, b) = IF Only("long", Quotient(a, b)) = {} THEN {} ELSE {Remainder(a, b)}
        /\ CBinary(type, op, a, b) = IF Only(type, Quotient(a, b)) = {} THEN {} ELSE {Remainder(a, b)}
    BY <1>4 DEF CBinary
  <2>2. type = "int" => Quotient(a, b) \in IntValues
    BY <1>4 DEF Fits
  <2>3. Only("long", Quotient(a, b)) = Only(type, Quotient(a, b))
    BY <2>2, OnlyLong, OnlyInt, IntsAreLong
  <2>4. Remainder(a, b) \in Long
    BY <1>4, RemainderInLong
  <2>5. QED
    BY <1>1, <2>1, <2>3, <2>4
<1>5. QED
  BY <1>2, <1>3, <1>4

(* Shifts.                                                                    *)
LEMMA ShiftsFolded ==
  ASSUME NEW a \in Long, NEW b \in Long, NEW op \in {"ShiftLeft", "ShiftRight"},
         NEW type \in {"int", "long"}, Fits(type, op, a, b)
  PROVE  FoldBinary(op, a, b) = CBinary(type, op, a, b) /\ FoldBinary(op, a, b) \subseteq Long
<1>1. LongBits \in Nat /\ IntBits \in Nat /\ IntBits <= LongBits
  BY LongAssumption
<1>2. a \in Int /\ b \in Int
  BY DEF Long
<1>3. Width(type) \in Nat /\ Width(type) <= LongBits /\ (b < Width(type) <=> b < LongBits)
  <2>1. type = "int" => b < IntBits
    BY <1>1, <1>2 DEF Fits
  <2>2. QED
    BY <1>1, <1>2, <2>1 DEF Width
<1>4. b \in 0 .. Width(type) - 1 <=> b \in 0 .. LongBits - 1
  BY <1>1, <1>2, <1>3
<1>5. b \in 0 .. LongBits - 1 => 2 ^ b \in Nat /\ 2 ^ b > 0
  BY <1>1, Powers
<1>6. CASE op = "ShiftLeft"
  <2>1. /\ FoldBinary(op, a, b) =
             IF a >= 0 /\ b \in 0 .. LongBits - 1 /\ a <= LongMax \div 2 ^ b THEN {a * 2 ^ b} ELSE {}
        /\ CBinary(type, op, a, b) =
             IF a >= 0 /\ b \in 0 .. Width(type) - 1 THEN Only(type, a * 2 ^ b) ELSE {}
    BY <1>6 DEF FoldBinary, CBinary
  <2>2. CASE a >= 0 /\ b \in 0 .. LongBits - 1
    <3>1. a * 2 ^ b \in Nat
      BY <1>2, <1>5, <2>2
    <3>2. a <= LongMax \div 2 ^ b <=> a * 2 ^ b <= LongMax
      BY <1>2, <1>5, <2>2, Limits, QuotientBounds
    <3>3. a * 2 ^ b \in Long <=> a * 2 ^ b <= LongMax
      BY <3>1, Limits, InLong
    <3>4. FoldBinary(op, a, b) = Only("long", a * 2 ^ b)
      BY <2>1, <2>2, <3>2, <3>3, OnlyLong
    <3>5. CBinary(type, op, a, b) = Only(type, a * 2 ^ b)
      BY <1>4, <2>1, <2>2
    <3>6. type = "int" => Only("long", a * 2 ^ b) \subseteq IntValues
      BY <3>4 DEF Fits
    <3>7. QED
      BY <3>4, <3>5, <3>6, OnlyOf
  <2>3. QED
    BY <1>4, <2>1, <2>2
<1>7. CASE op = "ShiftRight"
  <2>1. /\ FoldBinary(op, a, b) = IF b \in 0 .. LongBits - 1 THEN {a \div 2 ^ b} ELSE {}
        /\ CBinary(type, op, a, b) = IF b \in 0 .. Width(type) - 1 THEN {a \div 2 ^ b} ELSE {}
    BY <1>7 DEF FoldBinary, CBinary
  <2>2. b \in 0 .. LongBits - 1 => a \div 2 ^ b \in Long
    BY <1>5, ShiftedInLong
  <2>3. QED
    BY <1>4, <2>1, <2>2
<1>8. QED
  BY <1>6, <1>7

(* Every operator but and and or, whose right operand may not be evaluated, is    *)
(* folded to what C has for it: on longs always, on ints where it fits           *)
(* (integerConstantValue).                                                      *)
THEOREM OperatorsFolded ==
  ASSUME NEW a \in Long, NEW b \in Long, NEW op, op \notin {"And", "Or"},
         NEW type \in {"int", "long"}, Fits(type, op, a, b)
  PROVE  FoldBinary(op, a, b) = CBinary(type, op, a, b) /\ FoldBinary(op, a, b) \subseteq Long
<1>1. CASE op \in {"Add", "Sub", "Mul"}
  BY <1>1, ArithmeticFolded
<1>2. CASE op \in {"Div", "Mod"}
  BY <1>2, DivisionFolded
<1>3. CASE op \in {"ShiftLeft", "ShiftRight"}
  BY <1>3, ShiftsFolded
<1>4. CASE op \in {"BitAnd", "BitXor", "BitOr", "Comma"}
  <2>1. a \in Int /\ b \in Int
    BY DEF Long
  <2>2. BitAndOf(a, b) \in Long /\ BitOrOf(a, b) \in Long /\ BitXorOf(a, b) \in Long
    BY <2>1, BitwiseInLong
  <2>3. QED
    BY <1>4, <2>2 DEF FoldBinary, CBinary
<1>5. CASE op \notin {"Add", "Sub", "Mul", "Div", "Mod", "ShiftLeft", "ShiftRight",
                      "BitAnd", "BitXor", "BitOr", "Comma"}
  <2>1. /\ FoldBinary(op, a, b) = {Truth(Compare(op, a, b))}
        /\ CBinary(type, op, a, b) = {Truth(Compare(op, a, b))}
    BY <1>5 DEF FoldBinary, CBinary
  <2>2. Truth(Compare(op, a, b)) \in Long
    BY Limits, InLong DEF Truth
  <2>3. QED
    BY <2>1, <2>2
<1>6. QED
  BY <1>1, <1>2, <1>3, <1>4, <1>5

------------------------------------------------------------------------------
(* Nodes.                                                                     *)

(* What the folder finds for an expression is a long, and that of C.           *)
Agrees(e) ==
  /\ e.folded \subseteq Long
  /\ e.type \in {"int", "long"}
  /\ ~ e.narrow => e.folded \subseteq e.raw /\ (e.folded = e.raw \/ e.converts)

(* The folded value of a node is that of C, if it is not narrow.                *)
NodeAgrees(op, name, c) ==
  ~ Narrow(op, name, c) =>
    /\ Folded(op, name, c) \subseteq Raw(op, name, c)
    /\ Folded(op, name, c) = Raw(op, name, c) \/ Converts(op, c)

(* A leaf.                                                                    *)
LEMMA LeafAgrees ==
  ASSUME NEW op \in Leaves, NEW name, op = "Int" => name \in Long, op = "Bool" => name \in {0, 1}
  PROVE  /\ Folded(op, name, <<>>) \subseteq Long
         /\ CType(op, <<>>) \in {"int", "long"}
         /\ Folded(op, name, <<>>) = Raw(op, name, <<>>)
<1>1. op \in {"Int", "Bool", "Var", "Member", "Element", "Deref"}
  BY DEF Leaves, Objects
<1>2. /\ Folded(op, name, <<>>) = Raw(op, name, <<>>)
      /\ \/ Folded(op, name, <<>>) = {name} /\ op \in {"Int", "Bool"}
         \/ Folded(op, name, <<>>) = {}
  BY <1>1 DEF Folded, Raw, Unary, Objects
<1>3. CType(op, <<>>) \in {"int", "long"}
  BY <1>1 DEF CType, Objects, Comparisons
<1>4. 0 \in Long /\ 1 \in Long
  BY Limits, InLong
<1>5. QED
  BY <1>2, <1>3, <1>4

(* A unary operator.                                                          *)
LEMMA UnaryAgrees ==
  ASSUME NEW op \in Unary, NEW name, NEW c, Agrees(c[1]), DOMAIN c = {1}
  PROVE  /\ Folded(op, name, c) \subseteq Long
         /\ CType(op, c) \in {"int", "long"}
         /\ NodeAgrees(op, name, c)
<1> DEFINE A == c[1].folded
           T == CType(op, c)
<1>0. op \notin {"Int", "Bool"} /\ op \notin Objects \cup {"IncDec", "Cast", "Call"}
      /\ op \notin {"Choose", "And", "Or"}
  BY DEF Unary, Objects
<1>1. Folded(op, name, c) = UNION {FoldUnary(op, a) : a \in A}
  BY <1>0 DEF Folded
<1>2. Raw(op, name, c) = UNION {CUnary(T, op, a) : a \in c[1].raw}
  BY <1>0 DEF Raw
<1>3. T \in {"int", "long"}
  BY DEF CType, Unary, Comparisons, Agrees
<1>4. A \subseteq Long
  BY DEF Agrees
<1>5. ASSUME NEW a \in A
      PROVE  FoldUnary(op, a) \subseteq Long
  BY <1>4, UnaryFolded, "long" \in {"int", "long"}
<1>6. NodeAgrees(op, name, c)
  <2> SUFFICES ASSUME ~ Narrow(op, name, c)
               PROVE  /\ Folded(op, name, c) \subseteq Raw(op, name, c)
                      /\ Folded(op, name, c) = Raw(op, name, c) \/ Converts(op, c)
    BY Zenon DEF NodeAgrees
  <2>1. ~ c[1].narrow
    BY DEF Narrow
  <2>2. A \subseteq c[1].raw /\ (A = c[1].raw \/ Converts(op, c))
    BY <2>1 DEF Agrees, Converts
  <2>3. T = "int" => Folded(op, name, c) \subseteq IntValues
    BY DEF Narrow
  <2>4. ASSUME NEW a \in A
        PROVE  FoldUnary(op, a) = CUnary(T, op, a)
    <3>1. T = "int" => FoldUnary(op, a) \subseteq IntValues
      BY <1>1, <2>3
    <3>2. QED
      BY <1>3, <1>4, <3>1, UnaryFolded
  <2>5. Folded(op, name, c) = UNION {CUnary(T, op, a) : a \in A}
    BY <1>1, <2>4
  <2>6. QED
    BY <1>2, <2>2, <2>5
<1>7. QED
  BY <1>1, <1>3, <1>5, <1>6

(* An operator that evaluates both operands.                                  *)
LEMMA BinaryAgrees ==
  ASSUME NEW op, IsInfix(op), op \notin {"And", "Or"}, NEW name, NEW c,
         Agrees(c[1]), Agrees(c[2]), DOMAIN c = {1, 2}
  PROVE  /\ Folded(op, name, c) \subseteq Long
         /\ CType(op, c) \in {"int", "long"}
         /\ NodeAgrees(op, name, c)
<1> DEFINE A == c[1].folded
           B == c[2].folded
           T == CType(op, c)
<1>1. /\ op \notin {"Int", "Bool", "Choose", "IncDec", "Cast", "Call"} \cup Unary
      /\ op \notin {"Var", "Member", "Element", "Deref"}
  BY DEF IsInfix, Leaves, Objects
<1>2. Folded(op, name, c) = UNION {UNION {FoldBinary(op, a, b) : b \in B} : a \in A}
  BY <1>1 DEF Folded, Objects
<1>3. Raw(op, name, c) = UNION {UNION {CBinary(T, op, a, b) : b \in c[2].raw} : a \in c[1].raw}
  BY <1>1 DEF Raw, Objects
<1>4. T \in {"int", "long"}
  BY <1>1 DEF CType, Agrees, Wider, Objects
<1>5. A \subseteq Long /\ B \subseteq Long
  BY DEF Agrees
<1>6. ASSUME NEW a \in A, NEW b \in B
      PROVE  FoldBinary(op, a, b) \subseteq Long
  <2>1. Fits("long", op, a, b)
    BY DEF Fits
  <2>2. QED
    BY <1>5, <2>1, OperatorsFolded, "long" \in {"int", "long"}
<1>7. NodeAgrees(op, name, c)
  <2> SUFFICES ASSUME ~ Narrow(op, name, c)
               PROVE  /\ Folded(op, name, c) \subseteq Raw(op, name, c)
                      /\ Folded(op, name, c) = Raw(op, name, c) \/ Converts(op, c)
    BY Zenon DEF NodeAgrees
  <2>1. ~ c[1].narrow /\ ~ c[2].narrow
    BY DEF Narrow
  <2>2. /\ A \subseteq c[1].raw /\ B \subseteq c[2].raw
        /\ (A = c[1].raw /\ B = c[2].raw) \/ Converts(op, c)
    BY <2>1 DEF Agrees, Converts
  <2>3. T = "int" =>
          /\ Folded(op, name, c) \subseteq IntValues
          /\ op \in {"ShiftLeft", "ShiftRight"} => \A b \in B : ~ (b >= IntBits)
          /\ op = "Mod" => \A a \in A, b \in B : ~ (b # 0 /\ Quotient(a, b) \notin IntValues)
    BY Zenon DEF Narrow
  <2>4. ASSUME NEW a \in A, NEW b \in B
        PROVE  FoldBinary(op, a, b) = CBinary(T, op, a, b)
    <3>1. FoldBinary(op, a, b) \subseteq Folded(op, name, c)
      BY <1>2
    <3>2. Fits(T, op, a, b)
      BY <2>3, <3>1 DEF Fits
    <3>3. QED
      BY <1>4, <1>5, <3>2, OperatorsFolded
  <2>5. Folded(op, name, c) = UNION {UNION {CBinary(T, op, a, b) : b \in B} : a \in A}
    BY <1>2, <2>4
  <2> DEFINE Value(a, b) == CBinary(T, op, a, b)
  <2>6. /\ Folded(op, name, c) = UNION {UNION {Value(a, b) : b \in B} : a \in A}
        /\ Raw(op, name, c) = UNION {UNION {Value(a, b) : b \in c[2].raw} : a \in c[1].raw}
    BY <1>3, <2>5
  <2> HIDE DEF Value, A, B, T
  <2>7. QED
    BY <2>2, <2>6
<1>8. QED
  BY <1>2, <1>4, <1>6, <1>7

(* And and or, whose right operand may not be evaluated.                       *)
LEMMA LogicAgrees ==
  ASSUME NEW op \in {"And", "Or"}, NEW name, NEW c, Agrees(c[1]), Agrees(c[2]), DOMAIN c = {1, 2}
  PROVE  /\ Folded(op, name, c) \subseteq Long
         /\ CType(op, c) \in {"int", "long"}
         /\ NodeAgrees(op, name, c)
<1> DEFINE A == c[1].folded
           B == c[2].folded
           Truths == {Truth(b # 0) : b \in B}
<1>0. 0 \in Long /\ 1 \in Long
  BY Limits, InLong
<1>v. ~ Narrow(op, name, c) =>
        /\ A \subseteq c[1].raw /\ B \subseteq c[2].raw
        /\ (A = c[1].raw /\ B = c[2].raw) \/ Converts(op, c)
  BY DEF Narrow, Agrees, Converts
<1>1. \A a \in A : UNION {FoldBinary(op, a, b) : b \in B} = Truths
  <2>1. \A a \in A, b \in B : FoldBinary(op, a, b) = {Truth(b # 0)}
    BY DEF FoldBinary
  <2>2. QED
    BY <2>1
<1>2. CASE op = "And"
  <2>1. Folded(op, name, c) = UNION {IF a = 0 THEN {0} ELSE UNION {FoldBinary(op, a, b) : b \in B} : a \in A}
    BY <1>2 DEF Folded, Unary, Objects
  <2>2. Folded(op, name, c) = UNION {IF a = 0 THEN {0} ELSE Truths : a \in A}
    <3>1. \A a \in A : (IF a = 0 THEN {0} ELSE UNION {FoldBinary(op, a, b) : b \in B})
                         = (IF a = 0 THEN {0} ELSE Truths)
      BY <1>1
    <3> DEFINE Each(a) == IF a = 0 THEN {0} ELSE UNION {FoldBinary(op, a, b) : b \in B}
               Short(a) == IF a = 0 THEN {0} ELSE Truths
    <3>2. \A a \in A : Each(a) = Short(a)
      BY <3>1
    <3>3. Folded(op, name, c) = UNION {Each(a) : a \in A}
      BY <2>1
    <3> HIDE DEF Each, Short
    <3>4. UNION {Each(a) : a \in A} = UNION {Short(a) : a \in A}
      BY <3>2
    <3>5. QED
      BY <3>3, <3>4 DEF Short
  <2>3. Raw(op, name, c) =
          UNION {IF a = 0 THEN {0} ELSE {Truth(b # 0) : b \in c[2].raw} : a \in c[1].raw}
    BY <1>2 DEF Raw, Unary, Objects
  <2>4. NodeAgrees(op, name, c)
    <3> DEFINE Short(a, S) == IF a = 0 THEN {0} ELSE {Truth(b # 0) : b \in S}
    <3>1. /\ Folded(op, name, c) = UNION {Short(a, B) : a \in A}
          /\ Raw(op, name, c) = UNION {Short(a, c[2].raw) : a \in c[1].raw}
      BY <2>2, <2>3
    <3>2. \A a, S, Z : S \subseteq Z => Short(a, S) \subseteq Short(a, Z)
      OBVIOUS
    <3> DEFINE All(S, P) == UNION {Short(a, P) : a \in S}
    <3> HIDE DEF Short, A, B, Truths
    <3>3. \A S, Z, P, Q : S \subseteq Z /\ P \subseteq Q => All(S, P) \subseteq All(Z, Q)
      BY <3>2
    <3>4. Folded(op, name, c) = All(A, B) /\ Raw(op, name, c) = All(c[1].raw, c[2].raw)
      BY <3>1
    <3> HIDE DEF All
    <3>5. ~ Narrow(op, name, c) => Folded(op, name, c) \subseteq Raw(op, name, c)
      <4> SUFFICES ASSUME ~ Narrow(op, name, c)
                   PROVE  All(A, B) \subseteq All(c[1].raw, c[2].raw)
        BY <3>4
      <4>1. A \subseteq c[1].raw /\ B \subseteq c[2].raw
        BY <1>v
      <4>2. QED
        BY <3>3, <4>1
    <3>6. A = c[1].raw /\ B = c[2].raw => Folded(op, name, c) = Raw(op, name, c)
      BY <3>4
    <3>7. QED
      BY <1>v, <3>5, <3>6, Zenon DEF NodeAgrees
  <2>5. Folded(op, name, c) \subseteq {0, 1}
    BY <2>2 DEF Truth
  <2>6. CType(op, c) = "int"
    BY <1>2 DEF CType, Comparisons, Objects
  <2>7. QED
    BY <2>4, <2>5, <2>6, <1>0
<1>3. CASE op = "Or"
  <2>1. Folded(op, name, c) = UNION {IF a # 0 THEN {1} ELSE UNION {FoldBinary(op, a, b) : b \in B} : a \in A}
    BY <1>3 DEF Folded, Unary, Objects
  <2>2. Folded(op, name, c) = UNION {IF a # 0 THEN {1} ELSE Truths : a \in A}
    BY <1>1, <2>1
  <2>3. Raw(op, name, c) =
          UNION {IF a # 0 THEN {1} ELSE {Truth(b # 0) : b \in c[2].raw} : a \in c[1].raw}
    BY <1>3 DEF Raw, Unary, Objects
  <2>4. NodeAgrees(op, name, c)
    <3> DEFINE Short(a, S) == IF a # 0 THEN {1} ELSE {Truth(b # 0) : b \in S}
    <3>1. /\ Folded(op, name, c) = UNION {Short(a, B) : a \in A}
          /\ Raw(op, name, c) = UNION {Short(a, c[2].raw) : a \in c[1].raw}
      BY <2>2, <2>3
    <3>2. \A a, S, Z : S \subseteq Z => Short(a, S) \subseteq Short(a, Z)
      OBVIOUS
    <3> DEFINE All(S, P) == UNION {Short(a, P) : a \in S}
    <3> HIDE DEF Short, A, B, Truths
    <3>3. \A S, Z, P, Q : S \subseteq Z /\ P \subseteq Q => All(S, P) \subseteq All(Z, Q)
      BY <3>2
    <3>4. Folded(op, name, c) = All(A, B) /\ Raw(op, name, c) = All(c[1].raw, c[2].raw)
      BY <3>1
    <3> HIDE DEF All
    <3>5. ~ Narrow(op, name, c) => Folded(op, name, c) \subseteq Raw(op, name, c)
      <4> SUFFICES ASSUME ~ Narrow(op, name, c)
                   PROVE  All(A, B) \subseteq All(c[1].raw, c[2].raw)
        BY <3>4
      <4>1. A \subseteq c[1].raw /\ B \subseteq c[2].raw
        BY <1>v
      <4>2. QED
        BY <3>3, <4>1
    <3>6. A = c[1].raw /\ B = c[2].raw => Folded(op, name, c) = Raw(op, name, c)
      BY <3>4
    <3>7. QED
      BY <1>v, <3>5, <3>6, Zenon DEF NodeAgrees
  <2>5. Folded(op, name, c) \subseteq {0, 1}
    BY <2>2 DEF Truth
  <2>6. CType(op, c) = "int"
    BY <1>3 DEF CType, Comparisons, Objects
  <2>7. QED
    BY <2>4, <2>5, <2>6, <1>0
<1>4. QED
  BY <1>2, <1>3

(* A choice.                                                                  *)
LEMMA ChoiceAgrees ==
  ASSUME NEW name, NEW c, Agrees(c[1]), Agrees(c[2]), Agrees(c[3]), DOMAIN c = {1, 2, 3}
  PROVE  /\ Folded("Choose", name, c) \subseteq Long
         /\ CType("Choose", c) \in {"int", "long"}
         /\ NodeAgrees("Choose", name, c)
<1>1. Folded("Choose", name, c) =
        UNION {IF a # 0 THEN c[1].folded ELSE c[3].folded : a \in c[2].folded}
  BY DEF Folded, Unary, Objects
<1>2. Raw("Choose", name, c) = UNION {IF a # 0 THEN c[1].raw ELSE c[3].raw : a \in c[2].raw}
  BY DEF Raw, Unary, Objects
<1>3. CType("Choose", c) \in {"int", "long"}
  BY DEF CType, Agrees, Comparisons, Wider
<1>4. ~ Narrow("Choose", name, c) =>
        /\ \A k \in {1, 2, 3} : c[k].folded \subseteq c[k].raw
        /\ (\A k \in {1, 2, 3} : c[k].folded = c[k].raw) \/ Converts("Choose", c)
  BY DEF Narrow, Agrees, Converts
<1>5. Folded("Choose", name, c) \subseteq Long
  BY <1>1 DEF Agrees
<1>6. NodeAgrees("Choose", name, c)
  <2> SUFFICES ASSUME ~ Narrow("Choose", name, c)
               PROVE  /\ Folded("Choose", name, c) \subseteq Raw("Choose", name, c)
                      /\ Folded("Choose", name, c) = Raw("Choose", name, c) \/ Converts("Choose", c)
    BY Zenon DEF NodeAgrees
  <2>1. /\ c[1].folded \subseteq c[1].raw /\ c[2].folded \subseteq c[2].raw
        /\ c[3].folded \subseteq c[3].raw
    BY <1>4
  <2>2. Folded("Choose", name, c) \subseteq Raw("Choose", name, c)
    BY <1>1, <1>2, <2>1
  <2>3. ASSUME ~ Converts("Choose", c)
        PROVE  Folded("Choose", name, c) = Raw("Choose", name, c)
    <3>1. c[1].folded = c[1].raw /\ c[2].folded = c[2].raw /\ c[3].folded = c[3].raw
      BY <1>4, <2>3
    <3>2. QED
      BY <1>1, <1>2, <3>1
  <2>4. QED
    BY <2>2, <2>3
<1>7. QED
  BY <1>3, <1>5, <1>6

(* What sema does not fold.                                                   *)
LEMMA UnfoldedAgrees ==
  ASSUME NEW op \in {"IncDec", "Cast", "Call"}, NEW name, NEW c
  PROVE  /\ Folded(op, name, c) \subseteq Long
         /\ CType(op, c) \in {"int", "long"}
         /\ NodeAgrees(op, name, c)
<1>1. op \notin Unary \cup {"Int", "Bool", "Choose", "And", "Or"}
  BY DEF Unary
<1>2. Folded(op, name, c) = {} /\ CType(op, c) = "long"
  BY <1>1 DEF Folded, CType, Comparisons
<1>3. op = "Cast" => Converts(op, c)
  BY DEF Converts
<1>4. op # "Cast" => Raw(op, name, c) = {}
  BY <1>1 DEF Raw
<1>5. QED
  BY <1>2, <1>3, <1>4 DEF NodeAgrees

------------------------------------------------------------------------------
(* Accesses.                                                                  *)

(* The targets of what an expression accesses, and of what it writes.           *)
Touched(accesses) == {f.target : f \in accesses}
Changed(accesses) == {f.target : f \in {g \in accesses : g.writes}}

(* Every object has the name written out for it.                              *)
NamedInFull(accesses) == \A f \in accesses : f.object[1] = f.target

(* The accesses of one object.                                                *)
LEMMA OneAccess ==
  ASSUME NEW name, NEW w \in BOOLEAN
  PROVE  /\ Touched(AccessOf(name, w)) = {name.target} \cup name.via
         /\ Changed(AccessOf(name, w)) = IF w THEN {name.target} ELSE {}
         /\ name.via = {} /\ name.object[1] = name.target => NamedInFull(AccessOf(name, w))
<1> DEFINE own == Access(name.target, name.object, w)
           others == {Access(v, <<v, 0>>, FALSE) : v \in name.via}
<1>1. own.target = name.target /\ own.object = name.object /\ own.writes = w
  BY Zenon DEF Access
<1>2. \A v : LET f == Access(v, <<v, 0>>, FALSE) IN f.target = v /\ ~ f.writes
  BY Zenon DEF Access
<1>3. Touched(others) = name.via /\ \A f \in others : ~ f.writes
  <2> DEFINE Read(v) == Access(v, <<v, 0>>, FALSE)
  <2>1. \A v : Read(v).target = v /\ ~ Read(v).writes
    BY <1>2
  <2>2. others = {Read(v) : v \in name.via}
    OBVIOUS
  <2> HIDE DEF Read, others
  <2>3. QED
    BY <2>1, <2>2 DEF Touched
<1>4. AccessOf(name, w) = {own} \cup others
  BY DEF AccessOf
<1> HIDE DEF own, others
<1>5. Touched({own} \cup others) = {own.target} \cup Touched(others)
  BY DEF Touched
<1>6. \A x : x \in Changed({own} \cup others) <=> x = own.target /\ own.writes
  BY <1>3, Zenon DEF Changed
<1>7. ASSUME name.via = {}, name.object[1] = name.target
      PROVE  NamedInFull(AccessOf(name, w))
  <2>1. others = {}
    BY <1>7 DEF others
  <2>2. QED
    BY <1>1, <1>4, <1>7, <2>1 DEF NamedInFull
<1>8. QED
  BY <1>1, <1>3, <1>4, <1>5, <1>6, <1>7

(* The effects of two together.                                               *)
LEMMA TogetherTwo ==
  ASSUME NEW f, NEW g
  PROVE  /\ Together({f, g}).reads = f.reads \cup g.reads
         /\ Together({f, g}).writes = f.writes \cup g.writes
BY DEF Together

(* The effects sema collects are accesses; outside the overlooked forms they are  *)
(* all of them, and objects have their own names.                              *)
Collects(effects, accesses, overlooked) ==
  /\ effects.reads \cup effects.writes \subseteq Touched(accesses)
  /\ effects.writes \subseteq Changed(accesses)
  /\ ~ overlooked => /\ Touched(accesses) \subseteq effects.reads \cup effects.writes
                     /\ Changed(accesses) \subseteq effects.writes
                     /\ NamedInFull(accesses)

(* A conflict that was found has been reported, one that was reported is one or    *)
(* takes two objects for one, and one that is has been reported, outside the       *)
(* overlooked forms.                                                           *)
Finds(conflict, reported, unsequenced, overlooked, accesses) ==
  /\ conflict => reported \/ overlooked
  /\ reported => unsequenced \/ TakenForOne(accesses)
  /\ unsequenced => reported \/ overlooked

(* What increment and decrement are applied to is an object that is only read.  *)
OnlyRead(e) ==
  e.op \in Objects =>
    /\ e.effects.reads \subseteq {e.name.target} /\ e.effects.writes = {}
    /\ ~ e.conflict /\ ~ e.reported /\ ~ e.unsequenced
    /\ e.name.via = {} => e.name.object[1] = e.name.target

(* Only and and or are printed otherwise where a PsValue is wanted.             *)
PrintedAlike(e) ==
  e.op \notin {"And", "Or"} => (e.unsequencedBoxed <=> e.unsequenced)

Sees(e) ==
  /\ Collects(e.effects, e.accesses, e.overlooked)
  /\ Finds(e.conflict, e.reported, e.unsequenced, e.overlooked, e.accesses)
  /\ OnlyRead(e)
  /\ PrintedAlike(e)

(* Two operands have accesses of one object, or of one target, one of them a       *)
(* write.                                                                      *)
Meet(acc1, acc2) ==
  \E f \in acc1, g \in acc2 : f.object = g.object /\ (f.writes \/ g.writes)
MeetInName(acc1, acc2) ==
  \E f \in acc1, g \in acc2 : f.target = g.target /\ (f.writes \/ g.writes)

(* Operands whose effects clash meet in a name, and none meets without a clash     *)
(* but through an overlooked form.                                             *)
LEMMA ClashMeets ==
  ASSUME NEW eff1, NEW eff2, NEW acc1, NEW acc2, NEW over1, NEW over2,
         Collects(eff1, acc1, over1), Collects(eff2, acc2, over2)
  PROVE  /\ Clash(eff1, eff2) => MeetInName(acc1, acc2)
         /\ Meet(acc1, acc2) => Clash(eff1, eff2) \/ over1 \/ over2
<1>1. ASSUME Clash(eff1, eff2)
      PROVE  MeetInName(acc1, acc2)
  <2>1. \/ \E x : x \in eff1.writes /\ x \in eff2.reads \cup eff2.writes
        \/ \E x : x \in eff2.writes /\ x \in eff1.reads
    BY <1>1, Zenon DEF Clash
  <2>2. \/ \E x : x \in Changed(acc1) /\ x \in Touched(acc2)
        \/ \E x : x \in Changed(acc2) /\ x \in Touched(acc1)
    BY <2>1 DEF Collects
  <2>3. QED
    BY <2>2, Zenon DEF Changed, Touched, MeetInName
<1>2. ASSUME Meet(acc1, acc2), ~ over1, ~ over2
      PROVE  Clash(eff1, eff2)
  <2>1. PICK f \in acc1, g \in acc2 : f.object = g.object /\ (f.writes \/ g.writes)
    BY <1>2, Zenon DEF Meet
  <2>2. f.target = g.target
    <3>1. f.object[1] = f.target /\ g.object[1] = g.target
      BY <1>2, Zenon DEF Collects, NamedInFull
    <3>2. QED
      BY <2>1, <3>1, Zenon
  <2>3. \/ \E x : x \in Changed(acc1) /\ x \in Touched(acc2)
        \/ \E x : x \in Changed(acc2) /\ x \in Touched(acc1)
    BY <2>1, <2>2, Zenon DEF Changed, Touched
  <2>4. \/ \E x : x \in eff1.writes /\ x \in eff2.reads \cup eff2.writes
        \/ \E x : x \in eff2.writes /\ x \in eff1.reads \cup eff1.writes
    BY <1>2, <2>3 DEF Collects
  <2>5. QED
    BY <2>4 DEF Clash
<1>3. QED
  BY <1>1, <1>2

(* The effects and the accesses of an operator are those of its operands.       *)
LEMMA OperatorCollects ==
  ASSUME NEW op, op \notin Leaves \cup {"IncDec"}, NEW name, NEW c, \A k \in DOMAIN c : Sees(c[k])
  PROVE  /\ Accesses(op, name, c) = UNION {c[k].accesses : k \in DOMAIN c}
         /\ Collects(Effects(op, name, c), Accesses(op, name, c), Overlooked(op, c))
<1> DEFINE eff == Effects(op, name, c)
           acc == Accesses(op, name, c)
<1>1. /\ op \notin {"Int", "Bool", "Var", "Member", "Element", "Deref", "IncDec"}
      /\ op \notin Objects
  BY DEF Leaves, Objects
<1>2. acc = UNION {c[k].accesses : k \in DOMAIN c}
  BY <1>1 DEF Accesses
<1>3. \A x : /\ x \in Touched(acc) <=> \E k \in DOMAIN c : x \in Touched(c[k].accesses)
             /\ x \in Changed(acc) <=> \E k \in DOMAIN c : x \in Changed(c[k].accesses)
  <2>1. \A f : f \in acc <=> \E k \in DOMAIN c : f \in c[k].accesses
    BY <1>2, Zenon
  <2> HIDE DEF acc
  <2>2. \A x : x \in Touched(acc) <=> \E k \in DOMAIN c : x \in Touched(c[k].accesses)
    BY <2>1, Zenon DEF Touched
  <2>3. \A x : x \in Changed(acc) <=> \E k \in DOMAIN c : x \in Changed(c[k].accesses)
    BY <2>1, Zenon DEF Changed
  <2>4. QED
    BY <2>2, <2>3
<1>4. ASSUME NEW k \in DOMAIN c
      PROVE  Collects(c[k].effects, c[k].accesses, c[k].overlooked)
  BY DEF Sees
<1>5. CASE op = "Cast"
  <2>1. eff.reads = {} /\ eff.writes = {}
    BY <1>5 DEF Effects, Nothing
  <2>2. Overlooked(op, c)
    BY <1>5 DEF Overlooked
  <2>3. QED
    BY <1>2, <2>1, <2>2 DEF Collects
<1>6. CASE op # "Cast"
  <2>1. eff = Together({c[k].effects : k \in DOMAIN c})
    BY <1>1, <1>6 DEF Effects
  <2>2. \A x : /\ x \in eff.reads <=> \E k \in DOMAIN c : x \in c[k].effects.reads
               /\ x \in eff.writes <=> \E k \in DOMAIN c : x \in c[k].effects.writes
    BY <2>1 DEF Together
  <2>3. ~ Overlooked(op, c) => \A k \in DOMAIN c : ~ c[k].overlooked
    BY <1>1 DEF Overlooked
  <2>4. (\A k \in DOMAIN c : NamedInFull(c[k].accesses)) => NamedInFull(acc)
    BY <1>2 DEF NamedInFull
  <2> HIDE DEF eff, acc
  <2>5. eff.reads \cup eff.writes \subseteq Touched(acc) /\ eff.writes \subseteq Changed(acc)
    BY <1>3, <1>4, <2>2 DEF Collects
  <2>6. ASSUME ~ Overlooked(op, c)
        PROVE  /\ Touched(acc) \subseteq eff.reads \cup eff.writes /\ Changed(acc) \subseteq eff.writes
               /\ NamedInFull(acc)
    BY <1>3, <1>4, <2>2, <2>3, <2>4, <2>6 DEF Collects
  <2>7. Collects(eff, acc, Overlooked(op, c))
    BY <2>5, <2>6 DEF Collects
  <2>8. QED
    BY <1>2, <2>7 DEF eff, acc
<1>7. QED
  BY <1>5, <1>6

(* The conflicts of an operator.                                              *)
LEMMA OperatorFinds ==
  ASSUME NEW op, op \notin Leaves \cup {"IncDec"}, NEW n \in {1, 2, 3}, NEW c,
         DOMAIN c = 1 .. n, Len(c) = n, \A k \in DOMAIN c : Sees(c[k]),
         IsInfix(op) => n = 2, op \in Unary \cup {"Cast"} => n = 1,
         NEW acc, acc = UNION {c[k].accesses : k \in DOMAIN c}
  PROVE  Finds(FindsConflict(op, c), Reported(op, c), Unsequenced(op, c), Overlooked(op, c), acc)
<1>1. ASSUME NEW k \in DOMAIN c
      PROVE  /\ Collects(c[k].effects, c[k].accesses, c[k].overlooked)
             /\ Finds(c[k].conflict, c[k].reported, c[k].unsequenced, c[k].overlooked, c[k].accesses)
  BY DEF Sees
<1>2. IsInfix(op) => 1 \in DOMAIN c /\ 2 \in DOMAIN c /\ \A k \in DOMAIN c : k = 1 \/ k = 2
  OBVIOUS
<1>3. op # "IncDec"
  OBVIOUS
<1>4. \A k \in DOMAIN c : /\ c[k].reported => Reported(op, c)
                          /\ c[k].overlooked => Overlooked(op, c)
                          /\ c[k].unsequenced => Unsequenced(op, c)
                          /\ c[k].conflict => Reported(op, c) \/ Overlooked(op, c)
                          /\ TakenForOne(c[k].accesses) => TakenForOne(acc)
  <2>1. ASSUME NEW k \in DOMAIN c
        PROVE  TakenForOne(c[k].accesses) => TakenForOne(acc)
    <3>1. \A f \in c[k].accesses : f \in acc
      BY Zenon
    <3>2. QED
      BY <3>1, Zenon DEF TakenForOne
  <2>2. QED
    BY <1>1, <1>3, <2>1, Zenon DEF Reported, Overlooked, Unsequenced, Finds
<1>5. ASSUME IsInfix(op), op \notin Sequenced
      PROVE  Clash(c[1].effects, c[2].effects) => Reported(op, c) \/ Overlooked(op, c)
  BY <1>2, <1>4, <1>5, Zenon DEF Reported
<1>6. FindsConflict(op, c) => Reported(op, c) \/ Overlooked(op, c)
  <2>1. ASSUME op = "Call", NEW j \in DOMAIN c, NEW k \in DOMAIN c, j < k
        PROVE  Overlooked(op, c)
    <3>1. n > 1
      BY <2>1
    <3>2. QED
      BY <2>1, <3>1 DEF Overlooked
  <2>2. QED
    BY <1>4, <1>5, <2>1, Zenon DEF FindsConflict
<1>7. Reported(op, c) => Unsequenced(op, c) \/ TakenForOne(acc)
  <2>1. ASSUME IsInfix(op), op \notin Sequenced, Clash(c[1].effects, c[2].effects)
        PROVE  Unsequenced(op, c) \/ TakenForOne(acc)
    <3>1. 1 \in DOMAIN c /\ 2 \in DOMAIN c /\ 1 # 2
      BY <1>2, <2>1
    <3>2. PICK f \in c[1].accesses, g \in c[2].accesses : f.target = g.target /\ (f.writes \/ g.writes)
      <4>1. MeetInName(c[1].accesses, c[2].accesses)
        BY <1>1, <2>1, <3>1, ClashMeets
      <4>2. QED
        BY <4>1, Zenon DEF MeetInName
    <3>3. CASE f.object = g.object
      <4>1. op \notin Sequenced \cup {"Choose"}
        BY <2>1 DEF IsInfix
      <4>2. Meeting(c)
        BY <3>1, <3>2, <3>3, Zenon DEF Meeting
      <4>3. QED
        BY <4>1, <4>2, Zenon DEF Unsequenced
    <3>4. CASE f.object # g.object
      <4>1. f \in acc /\ g \in acc
        BY <3>1, <3>2, Zenon
      <4>2. QED
        BY <3>2, <3>4, <4>1, Zenon DEF TakenForOne
    <3>5. QED
      BY <3>3, <3>4
  <2>2. \A k \in DOMAIN c : c[k].reported => Unsequenced(op, c) \/ TakenForOne(acc)
    BY <1>1, <1>4, Zenon DEF Finds
  <2>3. QED
    BY <2>1, <2>2, Zenon DEF Reported
<1>8. Unsequenced(op, c) => Reported(op, c) \/ Overlooked(op, c)
  <2>1. ASSUME op \notin Sequenced \cup {"Choose"}, NEW j \in DOMAIN c, NEW k \in DOMAIN c, j # k,
               NEW f \in c[j].accesses, NEW g \in c[k].accesses, f.object = g.object, f.writes
        PROVE  Reported(op, c) \/ Overlooked(op, c)
    <3>1. n > 1 /\ op \notin Unary \cup {"Cast"}
      BY <2>1
    <3>2. CASE op = "Call"
      BY <3>1, <3>2 DEF Overlooked
    <3>3. CASE op # "Call"
      <4>1. IsInfix(op) /\ op \notin Sequenced
        BY <2>1, <3>1, <3>3 DEF IsInfix
      <4>2. (j = 1 /\ k = 2) \/ (j = 2 /\ k = 1)
        BY <1>2, <2>1, <4>1
      <4>3. Meet(c[1].accesses, c[2].accesses)
        BY <2>1, <4>2, Zenon DEF Meet
      <4>4. Clash(c[1].effects, c[2].effects) \/ c[1].overlooked \/ c[2].overlooked
        BY <1>1, <1>2, <4>1, <4>3, ClashMeets
      <4>5. QED
        BY <1>2, <1>4, <1>5, <4>1, <4>4
    <3>4. QED
      BY <3>2, <3>3
  <2>2. \A k \in DOMAIN c : c[k].unsequenced => Reported(op, c) \/ Overlooked(op, c)
    BY <1>1, <1>4, Zenon DEF Finds
  <2>3. QED
    BY <2>1, <2>2, Zenon DEF Unsequenced, Meeting
<1>9. QED
  BY <1>6, <1>7, <1>8, Zenon DEF Finds

(* A leaf accesses what it names, and nothing else.                            *)
LEMMA LeafSees ==
  ASSUME NEW op \in Leaves, NEW name, op = "Var" => name.via = {},
         op \in Objects /\ name.via = {} => name.object[1] = name.target
  PROVE  /\ Collects(Effects(op, name, <<>>), Accesses(op, name, <<>>), Overlooked(op, <<>>))
         /\ ~ FindsConflict(op, <<>>) /\ ~ Reported(op, <<>>) /\ ~ Unsequenced(op, <<>>)
         /\ op \in Objects => /\ Effects(op, name, <<>>).reads \subseteq {name.target}
                              /\ Effects(op, name, <<>>).writes = {}
<1>1. /\ op \in {"Int", "Bool", "Var", "Member", "Element", "Deref"}
      /\ op \in Objects <=> op \in {"Var", "Member", "Element", "Deref"}
  BY DEF Leaves, Objects
<1>2. ~ IsInfix(op) /\ op \notin {"Choose", "Call", "IncDec"}
  BY <1>1 DEF IsInfix
<1>3. ~ FindsConflict(op, <<>>) /\ ~ Reported(op, <<>>) /\ ~ Unsequenced(op, <<>>)
  <2>1. DOMAIN <<>> = {}
    OBVIOUS
  <2>2. QED
    BY <1>2, <2>1 DEF FindsConflict, Reported, Unsequenced, Meeting
<1>4. CASE op = "Var"
  <2>1. Effects(op, name, <<>>) = [reads |-> {name.target}, writes |-> {}]
    <3>1. \A o : o = "Var" => Effects(o, name, <<>>) = [reads |-> {name.target}, writes |-> {}]
      BY SMT DEF Effects
    <3>2. QED
      BY <1>4, <3>1, Zenon
  <2>2. Accesses(op, name, <<>>) = AccessOf(name, FALSE)
    BY <1>1, <1>4, Zenon DEF Accesses
  <2>3. /\ Touched(Accesses(op, name, <<>>)) = {name.target}
        /\ Changed(Accesses(op, name, <<>>)) = {}
        /\ NamedInFull(Accesses(op, name, <<>>))
    BY <1>1, <1>4, <2>2, OneAccess
  <2>4. QED
    BY <1>3, <2>1, <2>3 DEF Collects
<1>5. CASE op \in {"Member", "Element", "Deref"}
  <2>1. Effects(op, name, <<>>) = [reads |-> {}, writes |-> {}]
    BY <1>1, <1>5 DEF Effects, Nothing
  <2>2. Overlooked(op, <<>>)
    BY <1>1, <1>5 DEF Overlooked
  <2>3. QED
    BY <1>3, <2>1, <2>2 DEF Collects
<1>6. CASE op \in {"Int", "Bool"}
  <2>1. Effects(op, name, <<>>) = [reads |-> {}, writes |-> {}]
    BY <1>6 DEF Effects, Nothing
  <2>2. Accesses(op, name, <<>>) = {}
    <3>1. op \notin Objects /\ op # "IncDec" /\ DOMAIN <<>> = {}
      BY <1>1, <1>2, <1>6
    <3>2. Accesses(op, name, <<>>) = UNION {<<>>[k].accesses : k \in DOMAIN <<>>}
      BY <3>1 DEF Accesses
    <3>3. QED
      BY <3>1, <3>2
  <2>3. /\ Touched(Accesses(op, name, <<>>)) = {} /\ Changed(Accesses(op, name, <<>>)) = {}
        /\ NamedInFull(Accesses(op, name, <<>>))
    BY <2>2 DEF Touched, Changed, NamedInFull
  <2>4. QED
    BY <1>1, <1>3, <1>6, <2>1, <2>3 DEF Collects
<1>7. QED
  BY <1>1, <1>4, <1>5, <1>6

(* Increment and decrement read and write their object.                        *)
LEMMA IncDecSees ==
  ASSUME NEW c, DOMAIN c = {1}, c[1].op \in Objects, Sees(c[1])
  PROVE  /\ Collects(Effects("IncDec", "", c), Accesses("IncDec", "", c), Overlooked("IncDec", c))
         /\ ~ FindsConflict("IncDec", c) /\ ~ Reported("IncDec", c) /\ ~ Unsequenced("IncDec", c)
<1>1. PICK x : x = c[1].name.target
  OBVIOUS
<1>2. PICK own : own = [reads |-> {x}, writes |-> {x}]
  OBVIOUS
<1>3. PICK name : name = c[1].name
  OBVIOUS
<1>4. /\ c[1].effects.reads \subseteq {x} /\ c[1].effects.writes = {}
      /\ ~ c[1].reported /\ ~ c[1].unsequenced
      /\ name.via = {} => name.object[1] = x
  BY <1>1, <1>3, Zenon DEF Sees, OnlyRead
<1>5. PICK eff : eff = Effects("IncDec", "", c)
  OBVIOUS
<1>6. eff = Together({c[1].effects, own})
  <2>1. \A op : op = "IncDec" => op # "Var"
    OBVIOUS
  <2>2. \A op : op = "IncDec" =>
          Effects(op, "", c) =
            Together({c[1].effects, [reads |-> {c[1].name.target}, writes |-> {c[1].name.target}]})
    BY <2>1 DEF Effects
  <2>3. QED
    BY <1>1, <1>2, <1>5, <2>2, Zenon
<1>7. eff.reads = {x} /\ eff.writes = {x}
  <2>1. own.reads = {x} /\ own.writes = {x}
    BY <1>2
  <2>2. eff.reads = c[1].effects.reads \cup own.reads /\ eff.writes = c[1].effects.writes \cup own.writes
    BY <1>6, TogetherTwo
  <2>3. QED
    BY <1>4, <2>1, <2>2
<1>8. PICK acc : acc = Accesses("IncDec", "", c)
  OBVIOUS
<1>9. acc = AccessOf(name, TRUE)
  BY <1>3, <1>8 DEF Accesses, Objects
<1>10. /\ Touched(acc) = {x} \cup name.via /\ Changed(acc) = {x}
       /\ name.via = {} => NamedInFull(acc)
  <2>1. TRUE \in BOOLEAN
    OBVIOUS
  <2>2. /\ Touched(AccessOf(name, TRUE)) = {name.target} \cup name.via
        /\ Changed(AccessOf(name, TRUE)) = {name.target}
        /\ name.via = {} /\ name.object[1] = name.target => NamedInFull(AccessOf(name, TRUE))
    BY <2>1, OneAccess
  <2>3. QED
    BY <1>1, <1>3, <1>4, <1>9, <2>2, Zenon
<1>11. ~ FindsConflict("IncDec", c) /\ ~ Reported("IncDec", c)
  <2>1. ~ IsInfix("IncDec") /\ "IncDec" \notin {"Choose", "Call"}
    BY DEF IsInfix
  <2>2. \A k \in DOMAIN c : ~ c[k].reported
    BY <1>4
  <2>3. QED
    BY <2>1, <2>2, Zenon DEF FindsConflict, Reported
<1>12. ~ Unsequenced("IncDec", c)
  <2>1. \A k \in DOMAIN c : ~ c[k].unsequenced
    BY <1>4
  <2>2. ~ Meeting(c)
    BY DEF Meeting
  <2>3. QED
    BY <2>1, <2>2, Zenon DEF Unsequenced
<1>13. ~ Overlooked("IncDec", c) => name.via = {}
  BY <1>3 DEF Overlooked
<1>14. Collects(eff, acc, Overlooked("IncDec", c))
  BY <1>7, <1>10, <1>13 DEF Collects
<1>15. QED
  BY <1>5, <1>8, <1>11, <1>12, <1>14

------------------------------------------------------------------------------
(* The invariant: what the functions return for the operands on the stack, of     *)
(* which there may be any number, each of any size, is as it should be.          *)

Good(e) == Agrees(e) /\ Sees(e)

EInv ==
  /\ kit \in Kits
  /\ \E S : stack \in Seq(S) /\ \A e \in S : Good(e)

(* A node is good if its parts are.                                           *)
LEMMA NodeGood ==
  ASSUME NEW op, NEW name, NEW c,
         Folded(op, name, c) \subseteq Long,
         CType(op, c) \in {"int", "long"},
         NodeAgrees(op, name, c),
         Collects(Effects(op, name, c), Accesses(op, name, c), Overlooked(op, c)),
         Finds(FindsConflict(op, c), Reported(op, c), Unsequenced(op, c), Overlooked(op, c),
               Accesses(op, name, c)),
         op \in Objects =>
           /\ Effects(op, name, c).reads \subseteq {name.target} /\ Effects(op, name, c).writes = {}
           /\ ~ FindsConflict(op, c) /\ ~ Reported(op, c) /\ ~ Unsequenced(op, c)
           /\ name.via = {} => name.object[1] = name.target
  PROVE  Good(Node(op, name, c))
<1> DEFINE e == Node(op, name, c)
<1>0. e = Node(op, name, c)
  OBVIOUS
<1> HIDE DEF e
<1>1. /\ e.op = op /\ e.name = name
      /\ e.folded = Folded(op, name, c) /\ e.raw = Raw(op, name, c)
      /\ e.type = CType(op, c) /\ e.converts = Converts(op, c)
      /\ e.narrow = Narrow(op, name, c)
      /\ e.effects = Effects(op, name, c) /\ e.accesses = Accesses(op, name, c)
      /\ e.conflict = FindsConflict(op, c) /\ e.reported = Reported(op, c)
      /\ e.unsequenced = Unsequenced(op, c) /\ e.overlooked = Overlooked(op, c)
      /\ e.unsequencedBoxed = UnsequencedBoxed(op, c)
  BY <1>0, Zenon DEF Node
<1>2. Agrees(e)
  BY <1>1, Zenon DEF Agrees, NodeAgrees
<1>3. PrintedAlike(e)
  BY <1>1, Zenon DEF PrintedAlike, UnsequencedBoxed
<1>4. Collects(e.effects, e.accesses, e.overlooked)
  BY <1>1, Zenon
<1>5. Finds(e.conflict, e.reported, e.unsequenced, e.overlooked, e.accesses)
  BY <1>1, Zenon
<1>6. OnlyRead(e)
  BY <1>1, Zenon DEF OnlyRead
<1>7. Good(e)
  BY <1>2, <1>3, <1>4, <1>5, <1>6 DEF Good, Sees
<1>8. QED
  BY <1>7 DEF e

(* A leaf.                                                                    *)
LEMMA LeafGood ==
  ASSUME NEW op \in Leaves, NEW name, op = "Int" => name \in Long, op = "Bool" => name \in {0, 1},
         op = "Var" => name.via = {},
         op \in Objects /\ name.via = {} => name.object[1] = name.target
  PROVE  Good(Node(op, name, <<>>))
<1>1. NodeAgrees(op, name, <<>>)
  BY LeafAgrees DEF NodeAgrees
<1>2. Finds(FindsConflict(op, <<>>), Reported(op, <<>>), Unsequenced(op, <<>>), Overlooked(op, <<>>),
            Accesses(op, name, <<>>))
  BY LeafSees, Zenon DEF Finds
<1>3. QED
  BY <1>1, <1>2, LeafAgrees, LeafSees, NodeGood

(* An operator, of any kind but increment and decrement.                       *)
LEMMA OperatorGood ==
  ASSUME NEW op, NEW n \in {1, 2, 3}, NEW c, DOMAIN c = 1 .. n, Len(c) = n,
         \A k \in DOMAIN c : Good(c[k]),
         \/ op \in Unary \cup {"Cast", "Call"} /\ n = 1
         \/ (IsInfix(op) \/ op = "Call") /\ n = 2
         \/ op = "Choose" /\ n = 3
  PROVE  Good(Node(op, "", c))
<1>1. /\ op \notin Leaves \cup {"IncDec"}
      /\ op \notin Objects
      /\ IsInfix(op) => n = 2
      /\ op \in Unary \cup {"Cast"} => n = 1
      /\ op \in {"And", "Or"} => n = 2
  BY DEF IsInfix, Leaves, Objects, Unary
<1>2. \A k \in DOMAIN c : Agrees(c[k]) /\ Sees(c[k])
  BY DEF Good
<1>3. /\ Accesses(op, "", c) = UNION {c[k].accesses : k \in DOMAIN c}
      /\ Collects(Effects(op, "", c), Accesses(op, "", c), Overlooked(op, c))
  BY <1>1, <1>2, OperatorCollects
<1>4. Finds(FindsConflict(op, c), Reported(op, c), Unsequenced(op, c), Overlooked(op, c),
            Accesses(op, "", c))
  BY <1>1, <1>2, <1>3, OperatorFinds
<1>6. /\ Folded(op, "", c) \subseteq Long
      /\ CType(op, c) \in {"int", "long"}
      /\ NodeAgrees(op, "", c)
  <2>1. CASE op \in Unary
    <3>1. DOMAIN c = {1}
      BY <1>1, <2>1
    <3>2. QED
      BY <1>2, <2>1, <3>1, UnaryAgrees
  <2>2. CASE op \in {"Cast", "Call"}
    <3>1. op \in {"IncDec", "Cast", "Call"}
      BY <2>2
    <3>2. QED
      BY <3>1, UnfoldedAgrees
  <2>3. CASE IsInfix(op)
    <3>1. DOMAIN c = {1, 2}
      BY <1>1, <2>3
    <3>2. CASE op \in {"And", "Or"}
      BY <1>2, <3>1, <3>2, LogicAgrees
    <3>3. CASE op \notin {"And", "Or"}
      BY <1>2, <2>3, <3>1, <3>3, BinaryAgrees
    <3>4. QED
      BY <3>2, <3>3
  <2>4. CASE op = "Choose"
    <3>1. DOMAIN c = {1, 2, 3}
      BY <2>4 DEF IsInfix, Unary
    <3>2. QED
      BY <1>2, <2>4, <3>1, ChoiceAgrees
  <2>5. QED
    BY <2>1, <2>2, <2>3, <2>4
<1>7. QED
  BY <1>1, <1>3, <1>4, <1>6, NodeGood

(* Increment and decrement.                                                   *)
LEMMA IncDecGood ==
  ASSUME NEW c, DOMAIN c = 1 .. 1, c[1].op \in Objects, Good(c[1])
  PROVE  Good(Node("IncDec", "", c))
<1>1. DOMAIN c = {1} /\ Sees(c[1])
  BY DEF Good
<1>2. "IncDec" \in {"IncDec", "Cast", "Call"} /\ "IncDec" \notin Objects
  BY DEF Objects
<1>4. Finds(FindsConflict("IncDec", c), Reported("IncDec", c), Unsequenced("IncDec", c),
            Overlooked("IncDec", c), Accesses("IncDec", "", c))
  BY <1>1, IncDecSees, Zenon DEF Finds
<1>5. QED
  BY <1>1, <1>2, <1>4, IncDecSees, UnfoldedAgrees, NodeGood

(* The operands an operator takes from the stack, and what is left there.       *)
LEMMA Taken ==
  ASSUME NEW S, NEW s \in Seq(S), NEW n \in {1, 2, 3}, n <= Len(s)
  PROVE  /\ \A k \in 1 .. n : s[n + 1 - k] \in S
         /\ SubSeq(s, n + 1, Len(s)) \in Seq(S)
<1>1. Len(s) \in Nat /\ \A k \in 1 .. Len(s) : s[k] \in S
  OBVIOUS
<1>2. \A k \in 1 .. n : n + 1 - k \in 1 .. Len(s)
  BY <1>1
<1>3. SubSeq(s, n + 1, Len(s)) \in Seq(S)
  BY <1>1
<1>4. QED
  BY <1>1, <1>2, <1>3

(* A sequence of n elements.                                                  *)
LEMMA Elements ==
  ASSUME NEW S, NEW n \in Nat, NEW c \in [1 .. n -> S]
  PROVE  DOMAIN c = 1 .. n /\ Len(c) = n /\ \A k \in DOMAIN c : c[k] \in S
<1>1. c \in Seq(S)
  OBVIOUS
<1>2. QED
  OBVIOUS

(* A good node on top of a good stack.                                        *)
LEMMA Put ==
  ASSUME NEW S, NEW s \in Seq(S), \A e \in S : Good(e), NEW node, Good(node)
  PROVE  \E Z : <<node>> \o s \in Seq(Z) /\ \A e \in Z : Good(e)
<1> DEFINE Z == S \cup {node}
<1>1. <<node>> \in Seq(Z) /\ s \in Seq(Z)
  OBVIOUS
<1>2. <<node>> \o s \in Seq(Z)
  BY <1>1
<1>3. \A e \in Z : Good(e)
  OBVIOUS
<1>4. QED
  BY <1>2, <1>3

(* An operator with as many operands as it has.                               *)
LEMMA OperatorStep ==
  ASSUME EInv, NEW op, NEW n \in {1, 2, 3}, Operator(op, n),
         \/ op \in Unary \cup {"Cast", "Call"} /\ n = 1
         \/ (IsInfix(op) \/ op = "Call") /\ n = 2
         \/ op = "Choose" /\ n = 3
  PROVE  EInv'
<1> DEFINE c == [k \in 1 .. n |-> stack[n + 1 - k]]
<1>1. PICK S : stack \in Seq(S) /\ \A e \in S : Good(e)
  BY DEF EInv
<1>2. n <= Len(stack) /\ stack' = <<Node(op, "", c)>> \o SubSeq(stack, n + 1, Len(stack)) /\ kit' = kit
  BY DEF Operator
<1>3. (\A k \in 1 .. n : stack[n + 1 - k] \in S) /\ SubSeq(stack, n + 1, Len(stack)) \in Seq(S)
  BY <1>1, <1>2, Taken
<1>4. DOMAIN c = 1 .. n /\ Len(c) = n /\ \A k \in DOMAIN c : c[k] \in S
  <2>1. c \in [1 .. n -> S]
    BY <1>3
  <2> HIDE DEF c
  <2>2. QED
    BY <2>1, Elements, n \in Nat
<1> HIDE DEF c
<1>5. Good(Node(op, "", c))
  BY <1>1, <1>4, OperatorGood
<1>6. \E Z : stack' \in Seq(Z) /\ \A e \in Z : Good(e)
  BY <1>1, <1>2, <1>3, <1>5, Put
<1>7. QED
  BY <1>2, <1>6 DEF EInv

(* Every step keeps the invariant.                                            *)
LEMMA EInvStep == EInv /\ [ENext]_expressionVars => EInv'
<1> SUFFICES ASSUME EInv, [ENext]_expressionVars
             PROVE  EInv'
  OBVIOUS
<1>1. PICK S : stack \in Seq(S) /\ \A e \in S : Good(e)
  BY DEF EInv
<1>2. kit \in Kits
  BY DEF EInv
<1>3. ASSUME NEW t \in kit.operands, Operand(t)
      PROVE  EInv'
  <2>1. /\ t[1] \in Leaves /\ (t[1] = "Int" => t[2] \in Long) /\ (t[1] = "Bool" => t[2] \in {0, 1})
        /\ t[1] = "Var" => t[2].via = {}
        /\ t[1] \in Objects /\ t[2].via = {} => t[2].object[1] = t[2].target
    BY <1>2, KitsAssumption DEF Leaves, Objects
  <2>2. Good(Node(t[1], t[2], <<>>))
    BY <2>1, LeafGood
  <2>3. stack' = <<Node(t[1], t[2], <<>>)>> \o stack /\ kit' = kit
    BY <1>3 DEF Operand
  <2>4. \E Z : stack' \in Seq(Z) /\ \A e \in Z : Good(e)
    BY <1>1, <2>2, <2>3, Put
  <2>5. QED
    BY <1>2, <2>3, <2>4 DEF EInv
<1>4. ASSUME NEW op \in kit.unary, Operator(op, 1)
      PROVE  EInv'
  <2>1. op \in Unary \cup {"Cast", "Call"}
    BY <1>2, KitsAssumption
  <2>2. QED
    BY <1>4, <2>1, OperatorStep
<1>5. ASSUME NEW op \in kit.binary, Operator(op, 2)
      PROVE  EInv'
  <2>1. IsInfix(op) \/ op = "Call"
    BY <1>2, KitsAssumption
  <2>2. QED
    BY <1>5, <2>1, OperatorStep
<1>6. ASSUME Operator("Choose", 3)
      PROVE  EInv'
  BY <1>6, OperatorStep
<1>7. ASSUME IncDec
      PROVE  EInv'
  <2> DEFINE c == [k \in 1 .. 1 |-> stack[1 + 1 - k]]
  <2>1. 1 <= Len(stack) /\ stack[1].op \in Objects
        /\ stack' = <<Node("IncDec", "", c)>> \o SubSeq(stack, 1 + 1, Len(stack)) /\ kit' = kit
    BY <1>7 DEF IncDec, Operator
  <2>2. stack[1] \in S /\ SubSeq(stack, 1 + 1, Len(stack)) \in Seq(S)
    <3>1. 1 <= Len(stack)
      BY <2>1
    <3>2. \A k \in 1 .. 1 : stack[1 + 1 - k] \in S
      BY <1>1, <3>1, Taken
    <3>3. SubSeq(stack, 1 + 1, Len(stack)) \in Seq(S)
      BY <1>1, <3>1
    <3>4. QED
      BY <3>2, <3>3
  <2>3. c[1] = stack[1] /\ DOMAIN c = 1 .. 1 /\ stack[1] \in S
    BY <2>2
  <2> HIDE DEF c
  <2>4. Good(c[1]) /\ c[1].op \in Objects
    BY <1>1, <2>1, <2>3
  <2>5. Good(Node("IncDec", "", c))
    BY <2>3, <2>4, IncDecGood
  <2>6. \E Z : stack' \in Seq(Z) /\ \A e \in Z : Good(e)
    BY <1>1, <2>1, <2>2, <2>5, Put
  <2>7. QED
    BY <1>2, <2>1, <2>6 DEF EInv
<1>8. ASSUME UNCHANGED expressionVars
      PROVE  EInv'
  BY <1>8 DEF EInv, expressionVars
<1>9. QED
  BY <1>3, <1>4, <1>5, <1>6, <1>7, <1>8 DEF ENext

(* The invariant holds.                                                       *)
THEOREM ExpressionsInvariant == ESpec => []EInv
<1>1. EInit => EInv
  <2> SUFFICES ASSUME EInit
               PROVE  EInv
    OBVIOUS
  <2>1. kit \in Kits /\ stack = <<>>
    BY DEF EInit
  <2>2. stack \in Seq({}) /\ \A e \in {} : Good(e)
    BY <2>1
  <2>3. QED
    BY <2>1, <2>2 DEF EInv
<1>2. QED
  BY <1>1, EInvStep, PTL DEF ESpec

(* What a finished expression is.                                             *)
LEMMA WholeGood ==
  ASSUME EInv, Whole
  PROVE  Good(stack[1])
BY DEF EInv, Whole

(* The folder's value of an expression of any size, over any operators, for every  *)
(* width of long and int, is that of its C text, and there is one wherever C has    *)
(* one without reading an object or converting (integerConstantValue).            *)
THEOREM FoldingIsC == ESpec => []FoldIsC
<1>1. EInv => FoldIsC
  BY WholeGood DEF FoldIsC, Good, Agrees
<1>2. QED
  BY <1>1, ExpressionsInvariant, PTL

(* Reporting conflicts at the innermost operator only loses none of an expression  *)
(* of any size, and invents none but between two objects called alike (inferExpr,   *)
(* expressionEffects, findUnsequencedConflict, nativeModificationTarget).        *)
THEOREM ConflictsFound == ESpec => []SequencingFound
<1>1. EInv => SequencingFound
  <2> SUFFICES ASSUME EInv, Whole
               PROVE  /\ stack[1].reported => stack[1].unsequenced \/ TakenForOne(stack[1].accesses)
                      /\ stack[1].unsequenced => stack[1].reported \/ stack[1].overlooked
                      /\ stack[1].unsequencedBoxed =>
                           stack[1].reported \/ stack[1].overlooked \/ stack[1].op \in {"And", "Or"}
    BY Zenon DEF SequencingFound
  <2>1. Sees(stack[1])
    BY WholeGood DEF Good
  <2>2. QED
    BY <2>1, Zenon DEF Sees, Finds, PrintedAlike
<1>2. QED
  BY <1>1, ExpressionsInvariant, PTL

------------------------------------------------------------------------------
(* An expression printed twice.                                               *)

(* Every outcome leaves a store, accesses only what the expression does, and      *)
(* changes nothing if it writes nothing.                                       *)
Inside(meaning, reads, writes) ==
  \A s \in Stores : \A o \in meaning[s] :
    /\ o.store \in Stores /\ o.reads \subseteq reads /\ o.writes \subseteq writes
    /\ writes = {} => o.store = s

Printed(t) ==
  /\ Inside(t.raw, t.reads, t.writes) /\ Inside(t.boxed, t.reads, t.writes)
  /\ ~ t.fails /\ t.writes = {} => \A s \in Stores : t.raw[s] # {}
  /\ ~ t.risky => \A s \in Stores : Seen(t.boxed[s]) = Seen(t.raw[s])

SInv == \E S : terms \in Seq(S) /\ \A t \in S : Printed(t)

(* The fields of what is built.                                               *)
LEMMA Fields ==
  /\ \A v, s, r, w : LET o == Outcome(v, s, r, w)
                     IN  o.value = v /\ o.store = s /\ o.reads = r /\ o.writes = w
  /\ \A raw, boxed, r, w, f, k, n :
       LET t == Term(raw, boxed, r, w, f, k, n)
       IN  t.raw = raw /\ t.boxed = boxed /\ t.reads = r /\ t.writes = w /\ t.fails = f /\ t.risky = k
<1>1. \A v, s, r, w : LET o == Outcome(v, s, r, w)
                      IN  o.value = v /\ o.store = s /\ o.reads = r /\ o.writes = w
  BY DEF Outcome
<1>2. \A raw, boxed, r, w, f, k, n :
        LET t == Term(raw, boxed, r, w, f, k, n)
        IN  t.raw = raw /\ t.boxed = boxed /\ t.reads = r /\ t.writes = w /\ t.fails = f /\ t.risky = k
  BY DEF Term
<1>3. QED
  BY <1>1, <1>2

(* One outcome after another.                                                 *)
LEMMA Afterwards ==
  ASSUME NEW o, NEW p, NEW v
  PROVE  LET q == Later(o, p, v)
         IN  /\ q.value = v /\ q.store = p.store
             /\ q.reads = o.reads \cup p.reads /\ q.writes = o.writes \cup p.writes
BY Fields DEF Later

(* Some outcome shows a value, and leaves a store.                             *)
Shows(outcomes, value, store) == \E o \in outcomes : o.value = value /\ o.store = store

(* Outcomes that show the same are seen alike.                                 *)
LEMMA SeenAlike ==
  ASSUME NEW A, NEW B
  PROVE  Seen(A) = Seen(B) <=>
           \A value, store : Shows(A, value, store) <=> Shows(B, value, store)
<1>1. \A C, value, store : <<value, store>> \in Seen(C) <=> Shows(C, value, store)
  BY DEF Seen, Shows
<1>2. \A C, x : x \in Seen(C) => \E value, store : x = <<value, store>>
  BY DEF Seen
<1>3. ASSUME \A value, store : Shows(A, value, store) <=> Shows(B, value, store)
      PROVE  Seen(A) = Seen(B)
  <2>1. \A x : x \in Seen(A) <=> x \in Seen(B)
    BY <1>1, <1>2, <1>3
  <2>2. QED
    BY <2>1
<1>4. ASSUME Seen(A) = Seen(B), NEW value, NEW store
      PROVE  Shows(A, value, store) <=> Shows(B, value, store)
  BY <1>1, <1>4
<1>5. QED
  BY <1>3, <1>4

(* Two operands in either order, as && and || evaluate them, and as the runtime's  *)
(* functions do: every outcome is one operand's after the other's, or the left     *)
(* one's alone.                                                               *)
LEMMA InBothPlain ==
  ASSUME NEW op, NEW l, NEW r, NEW s, NEW x
  PROVE  x \in Operated(op, l, r, s) <=>
           \E o \in l[s] : \E p \in r[o.store] : \E v \in PlainOf(op, o.value, p.value) :
             Apart(o, p) /\ x = Later(o, p, v)
BY DEF Operated, BothOf

LEMMA InBothPs ==
  ASSUME NEW op, NEW l, NEW r, NEW s, NEW x
  PROVE  x \in Called(op, l, r, s) <=>
           \E o \in l[s] : \E p \in r[o.store] : \E v \in PsOf(op, o.value, p.value) :
             Apart(o, p) /\ x = Later(o, p, v)
BY DEF Called, BothOf

LEMMA InShort ==
  ASSUME NEW op, NEW l, NEW r, NEW s, NEW x
  PROVE  x \in Shortened(op, l, r, s) <=>
           \E o \in l[s] :
             \/ Decides(op, o.value) /\ x = Valued(o, Truth(o.value # 0))
             \/ ~ Decides(op, o.value) /\ \E p \in r[o.store] : x = Later(o, p, Truth(p.value # 0))
BY DEF Shortened

(* Of an outcome of two expressions: the first one's alone, or both in turn.     *)
From(x, o, r) ==
  \/ x.store = o.store /\ x.reads = o.reads /\ x.writes = o.writes
  \/ \E p \in r[o.store] : /\ x.store = p.store
                           /\ x.reads = o.reads \cup p.reads
                           /\ x.writes = o.writes \cup p.writes

(* What accesses no more than one operand, or one after the other, stays inside    *)
(* both.                                                                      *)
LEMMA Composed ==
  ASSUME NEW l, NEW r, NEW lr, NEW lw, NEW rr, NEW rw, Inside(l, lr, lw), Inside(r, rr, rw), NEW m,
         \A s \in Stores : \A x \in m[s] : \E o \in l[s] : From(x, o, r)
  PROVE  Inside(m, lr \cup rr, lw \cup rw)
<1> SUFFICES ASSUME NEW s \in Stores, NEW x \in m[s]
             PROVE  /\ x.store \in Stores /\ x.reads \subseteq lr \cup rr /\ x.writes \subseteq lw \cup rw
                    /\ lw \cup rw = {} => x.store = s
  BY DEF Inside
<1>1. PICK o \in l[s] : From(x, o, r)
  OBVIOUS
<1>2. /\ o.store \in Stores /\ o.reads \subseteq lr /\ o.writes \subseteq lw
      /\ lw = {} => o.store = s
  BY Zenon DEF Inside
<1>3. CASE x.store = o.store /\ x.reads = o.reads /\ x.writes = o.writes
  BY <1>2, <1>3
<1>4. ASSUME NEW p \in r[o.store], x.store = p.store, x.reads = o.reads \cup p.reads,
             x.writes = o.writes \cup p.writes
      PROVE  /\ x.store \in Stores /\ x.reads \subseteq lr \cup rr /\ x.writes \subseteq lw \cup rw
             /\ lw \cup rw = {} => x.store = s
  <2>1. /\ p.store \in Stores /\ p.reads \subseteq rr /\ p.writes \subseteq rw
        /\ rw = {} => p.store = o.store
    BY <1>2, Zenon DEF Inside
  <2>2. QED
    BY <1>2, <1>4, <2>1
<1>5. QED
  BY <1>1, <1>3, <1>4 DEF From

(* Joined expressions stay inside their operands, raw and boxed.                *)
LEMMA JoinInside ==
  ASSUME NEW op, NEW left, NEW right, Printed(left), Printed(right)
  PROVE  /\ Inside(RawJoin(op, left, right), left.reads \cup right.reads, left.writes \cup right.writes)
         /\ Inside(BoxedJoin(op, left, right), left.reads \cup right.reads, left.writes \cup right.writes)
<1>1. /\ Inside(left.raw, left.reads, left.writes) /\ Inside(left.boxed, left.reads, left.writes)
      /\ Inside(right.raw, right.reads, right.writes) /\ Inside(right.boxed, right.reads, right.writes)
  BY Zenon DEF Printed
<1>2. \A o, p, r, v : p \in r[o.store] => From(Later(o, p, v), o, r)
  BY Afterwards DEF From
<1>3. \A o, r, v : From(Valued(o, v), o, r)
  BY Fields DEF Valued, From
<1>4. \A l, r, s, x :
        /\ x \in Operated(op, l, r, s) => \E o \in l[s] : From(x, o, r)
        /\ x \in Called(op, l, r, s) => \E o \in l[s] : From(x, o, r)
        /\ x \in Shortened(op, l, r, s) => \E o \in l[s] : From(x, o, r)
  <2> TAKE l, r, s, x
  <2>1. x \in Operated(op, l, r, s) => \E o \in l[s] : From(x, o, r)
    BY <1>2, InBothPlain
  <2>2. x \in Called(op, l, r, s) => \E o \in l[s] : From(x, o, r)
    BY <1>2, InBothPs
  <2>3. x \in Shortened(op, l, r, s) => \E o \in l[s] : From(x, o, r)
    BY <1>2, <1>3, InShort
  <2>4. QED
    BY <2>1, <2>2, <2>3
<1>5. ASSUME NEW s \in Stores, NEW x \in RawJoin(op, left, right)[s]
      PROVE  \E o \in left.raw[s] : From(x, o, right.raw)
  BY <1>4 DEF RawJoin
<1>6. Inside(RawJoin(op, left, right), left.reads \cup right.reads, left.writes \cup right.writes)
  BY <1>1, <1>5, Composed
<1>7. CASE op \notin Logic
  BY <1>6, <1>7 DEF BoxedJoin
<1>8. CASE op \in Logic
  <2>1. ASSUME NEW s \in Stores, NEW x \in BoxedJoin(op, left, right)[s]
        PROVE  \E o \in left.boxed[s] : From(x, o, right.boxed)
    BY <1>4, <1>8 DEF BoxedJoin
  <2>2. QED
    BY <1>1, <1>6, <2>1, Composed
<1>9. QED
  BY <1>6, <1>7, <1>8

(* A comparison and an and or or have an outcome where their operands have and    *)
(* write nothing.                                                             *)
LEMMA JoinHappens ==
  ASSUME NEW op \in Logic \cup Comparisons, NEW left, NEW right, Printed(left), Printed(right),
         ~ left.fails, ~ right.fails, left.writes \cup right.writes = {}, NEW s \in Stores
  PROVE  RawJoin(op, left, right)[s] # {}
<1>1. left.writes = {} /\ right.writes = {}
  OBVIOUS
<1>2. left.raw[s] # {}
  BY <1>1, Zenon DEF Printed
<1>3. PICK o : o \in left.raw[s]
  BY <1>2
<1>4. o.store = s /\ o.writes = {}
  BY <1>1, <1>3 DEF Printed, Inside
<1>5. right.raw[s] # {}
  BY <1>1, Zenon DEF Printed
<1>6. PICK p : p \in right.raw[s]
  BY <1>5
<1>7. p.writes = {}
  BY <1>1, <1>6 DEF Printed, Inside
<1>8. p \in right.raw[o.store]
  BY <1>4, <1>6
<1>9. CASE op \in Logic
  <2>1. RawJoin(op, left, right)[s] = Shortened(op, left.raw, right.raw, s)
    BY <1>9 DEF RawJoin
  <2>2. \/ Valued(o, Truth(o.value # 0)) \in Shortened(op, left.raw, right.raw, s)
        \/ Later(o, p, Truth(p.value # 0)) \in Shortened(op, left.raw, right.raw, s)
    BY <1>3, <1>8, InShort
  <2>3. QED
    BY <2>1, <2>2
<1>10. CASE op \notin Logic
  <2>1. RawJoin(op, left, right)[s] =
          Operated(op, left.raw, right.raw, s)
    BY <1>10 DEF RawJoin
  <2>2. Truth(Compare(op, o.value, p.value)) \in PlainOf(op, o.value, p.value)
    BY <1>10 DEF PlainOf, CBinary, Comparisons
  <2>3. Apart(o, p)
    BY <1>4, <1>7 DEF Apart
  <2>4. Later(o, p, Truth(Compare(op, o.value, p.value)))
          \in Operated(op, left.raw, right.raw, s)
    BY <1>3, <1>8, <2>2, <2>3, InBothPlain
  <2>5. QED
    BY <2>1, <2>4
<1>11. QED
  BY <1>9, <1>10

(* What && and || give for the values of both operands.                        *)
Shortly(op, a, b) == IF Decides(op, a) THEN Truth(a # 0) ELSE Truth(b # 0)

(* The runtime's and and or give what && and || give, where the right operand       *)
(* could have been evaluated anyway.                                          *)
LEMMA JoinSeen ==
  ASSUME NEW op \in Logic, NEW left, NEW right, Printed(left), Printed(right),
         ~ left.risky, ~ right.risky, ~ Entangled(left, right), NEW s \in Stores
  PROVE  Seen(BoxedJoin(op, left, right)[s]) = Seen(RawJoin(op, left, right)[s])
<1> DEFINE boxed == BoxedJoin(op, left, right)[s]
           raw == RawJoin(op, left, right)[s]
<1>1. right.writes = {} /\ ~ right.fails /\ left.writes \cap right.reads = {}
  BY DEF Entangled
<1>2. /\ \A a, store : Shows(left.boxed[s], a, store) <=> Shows(left.raw[s], a, store)
      /\ \A st \in Stores : /\ right.raw[st] # {}
                            /\ \A b, store : Shows(right.boxed[st], b, store) <=>
                                              Shows(right.raw[st], b, store)
  <2>1. /\ Seen(left.boxed[s]) = Seen(left.raw[s])
        /\ \A st \in Stores : Seen(right.boxed[st]) = Seen(right.raw[st]) /\ right.raw[st] # {}
    BY <1>1, Zenon DEF Printed
  <2>2. QED
    BY <2>1, SeenAlike
<1>3. \A o \in left.boxed[s] : o.store \in Stores /\ o.writes \subseteq left.writes
  BY Zenon DEF Printed, Inside
<1>4. \A o \in left.raw[s] : o.store \in Stores
  BY Zenon DEF Printed, Inside
<1>5. \A store \in Stores : \A p \in right.boxed[store] :
        p.store = store /\ p.writes = {} /\ p.reads \subseteq right.reads
  BY <1>1 DEF Printed, Inside
<1>6. \A store \in Stores : \A p \in right.raw[store] : p.store = store
  BY <1>1, Zenon DEF Printed, Inside
<1>7. boxed = Called(op, left.boxed, right.boxed, s)
  BY DEF BoxedJoin
<1>8. raw = Shortened(op, left.raw, right.raw, s)
  BY DEF RawJoin
<1>9. \A a, b : PsOf(op, a, b) = {Shortly(op, a, b)}
  BY DEF PsOf, PsAnd, PsOr, Decides, Logic, Truth, Shortly
<1>10. \A o \in left.boxed[s] : \A p \in right.boxed[o.store] : Apart(o, p)
  BY <1>1, <1>3, <1>5 DEF Apart
<1>11. \A a, b : /\ Decides(op, a) => Shortly(op, a, b) = Truth(a # 0)
                /\ ~ Decides(op, a) => Shortly(op, a, b) = Truth(b # 0)
  BY DEF Shortly
<1>12. \A o, p, v : /\ Later(o, p, v).value = v /\ Later(o, p, v).store = p.store
                   /\ Valued(o, v).value = v /\ Valued(o, v).store = o.store
  BY Fields, Afterwards DEF Valued
<1> HIDE DEF boxed, raw
<1>13. ASSUME NEW value, NEW store, Shows(boxed, value, store)
       PROVE  Shows(raw, value, store)
  <2>1. PICK x \in boxed : x.value = value /\ x.store = store
    BY <1>13 DEF Shows
  <2>2. PICK o \in left.boxed[s] : \E p \in right.boxed[o.store] :
          x = Later(o, p, Shortly(op, o.value, p.value))
    BY <1>7, <1>9, InBothPs
  <2>3. PICK p \in right.boxed[o.store] : x = Later(o, p, Shortly(op, o.value, p.value))
    BY <2>2
  <2>4. value = Shortly(op, o.value, p.value) /\ p.store = o.store /\ o.store = store
    BY <1>3, <1>5, <1>12, <2>1, <2>3
  <2>5. Shows(left.raw[s], o.value, store) /\ Shows(right.raw[store], p.value, store)
    BY <1>2, <1>3, <2>4 DEF Shows
  <2>6. PICK o1 \in left.raw[s] : o1.value = o.value /\ o1.store = store
    BY <2>5 DEF Shows
  <2>7. PICK p1 \in right.raw[store] : p1.value = p.value /\ p1.store = store
    BY <2>5 DEF Shows
  <2>8. CASE Decides(op, o.value)
    <3>1. Valued(o1, Truth(o1.value # 0)) \in raw
      BY <1>8, <2>6, <2>8, InShort
    <3>2. value = Truth(o1.value # 0)
      <4>1. Shortly(op, o.value, p.value) = Truth(o.value # 0)
        BY <2>8 DEF Shortly
      <4>2. o1.value # 0 <=> o.value # 0
        BY <2>6
      <4>3. QED
        BY <2>4, <4>1, <4>2 DEF Truth
    <3>3. QED
      BY <1>12, <2>6, <3>1, <3>2 DEF Shows
  <2>9. CASE ~ Decides(op, o.value)
    <3>1. Later(o1, p1, Truth(p1.value # 0)) \in raw
      BY <1>8, <2>6, <2>7, <2>9, InShort
    <3>2. value = Truth(p1.value # 0)
      BY <1>11, <2>4, <2>7, <2>9 DEF Truth
    <3>3. QED
      BY <1>12, <2>7, <3>1, <3>2 DEF Shows
  <2>10. QED
    BY <2>8, <2>9
<1>14. ASSUME NEW value, NEW store, Shows(raw, value, store)
       PROVE  Shows(boxed, value, store)
  <2>1. PICK x \in raw : x.value = value /\ x.store = store
    BY <1>14 DEF Shows
  <2>2. PICK o \in left.raw[s] :
          \/ Decides(op, o.value) /\ x = Valued(o, Truth(o.value # 0))
          \/ ~ Decides(op, o.value) /\ \E p \in right.raw[o.store] : x = Later(o, p, Truth(p.value # 0))
    BY <1>8, InShort
  <2>3. PICK p \in right.raw[o.store] : value = Shortly(op, o.value, p.value)
    <3>1. CASE Decides(op, o.value)
      <4>1. PICK p : p \in right.raw[o.store]
        BY <1>2, <1>4
      <4>2. value = Truth(o.value # 0)
        BY <1>12, <2>1, <2>2, <3>1
      <4>3. value = Shortly(op, o.value, p.value)
        BY <3>1, <4>2 DEF Shortly
      <4>4. QED
        BY <4>1, <4>3
    <3>2. CASE ~ Decides(op, o.value)
      BY <1>11, <1>12, <2>1, <2>2, <3>2
    <3>3. QED
      BY <3>1, <3>2
  <2>4. p.store = o.store /\ o.store = store /\ store \in Stores
    BY <1>4, <1>6, <1>12, <2>1, <2>2
  <2>5. Shows(left.boxed[s], o.value, store) /\ Shows(right.boxed[store], p.value, store)
    BY <1>2, <2>4 DEF Shows
  <2>6. PICK o1 \in left.boxed[s] : o1.value = o.value /\ o1.store = store
    BY <2>5 DEF Shows
  <2>7. PICK p1 \in right.boxed[store] : p1.value = p.value /\ p1.store = store
    BY <2>5 DEF Shows
  <2>8. Apart(o1, p1) /\ value \in PsOf(op, o1.value, p1.value)
    BY <1>9, <1>10, <2>3, <2>6, <2>7
  <2>9. Later(o1, p1, value) \in boxed
    BY <1>7, <2>6, <2>7, <2>8, InBothPs
  <2>10. QED
    BY <1>12, <2>7, <2>9 DEF Shows
<1>15. Seen(boxed) = Seen(raw)
  BY <1>13, <1>14, SeenAlike
<1>16. QED
  BY <1>15 DEF boxed, raw

(* What is joined is as it should be if both operands are.                      *)
LEMMA JoinPrinted ==
  ASSUME NEW op, NEW left, NEW right, Printed(left), Printed(right)
  PROVE  Printed(Joined(op, left, right))
<1> DEFINE t == Joined(op, left, right)
<1>1. /\ t.raw = RawJoin(op, left, right) /\ t.boxed = BoxedJoin(op, left, right)
      /\ t.reads = left.reads \cup right.reads /\ t.writes = left.writes \cup right.writes
      /\ t.fails = (left.fails \/ right.fails \/ op \notin Logic \cup Comparisons)
      /\ t.risky = (op \in Logic /\ (left.risky \/ right.risky \/ Entangled(left, right)))
  BY DEF Joined, Term
<1> HIDE DEF t
<1>2. Inside(t.raw, t.reads, t.writes) /\ Inside(t.boxed, t.reads, t.writes)
  BY <1>1, JoinInside
<1>3. ASSUME ~ t.fails, t.writes = {}, NEW s \in Stores
      PROVE  t.raw[s] # {}
  <2>1. ~ left.fails /\ ~ right.fails /\ op \in Logic \cup Comparisons /\ left.writes \cup right.writes = {}
    BY <1>1, <1>3
  <2>2. QED
    BY <1>1, <2>1, JoinHappens
<1>4. ASSUME ~ t.risky, NEW s \in Stores
      PROVE  Seen(t.boxed[s]) = Seen(t.raw[s])
  <2>1. CASE op \in Logic
    <3>1. ~ left.risky /\ ~ right.risky /\ ~ Entangled(left, right)
      BY <1>1, <1>4, <2>1
    <3>2. QED
      BY <1>1, <2>1, <3>1, JoinSeen
  <2>2. CASE op \notin Logic
    BY <1>1, <2>2 DEF BoxedJoin
  <2>3. QED
    BY <2>1, <2>2
<1>5. Printed(t)
  BY <1>2, <1>3, <1>4, Zenon DEF Printed
<1>6. QED
  BY <1>5 DEF t

(* Leaves and negations.                                                      *)
LEMMA NumeralPrinted == ASSUME NEW n PROVE Printed(Numeral(n))
<1> DEFINE m == [s \in Stores |-> {Outcome(n, s, {}, {})}]
           t == Numeral(n)
<1>1. t.raw = m /\ t.boxed = m /\ t.reads = {} /\ t.writes = {} /\ t.fails = FALSE
  BY DEF Numeral, Leaf, Term
<1>2. Inside(m, {}, {}) /\ \A s \in Stores : m[s] # {}
  BY Fields DEF Inside
<1> HIDE DEF m, t
<1>3. Printed(t)
  BY <1>1, <1>2 DEF Printed
<1>4. QED
  BY <1>3 DEF t

LEMMA CellPrinted == ASSUME NEW x PROVE Printed(Cell(x))
<1> DEFINE m == [s \in Stores |-> {Outcome(s[x], s, {x}, {})}]
           t == Cell(x)
<1>1. t.raw = m /\ t.boxed = m /\ t.reads = {x} /\ t.writes = {} /\ t.fails = FALSE
  BY DEF Cell, Leaf, Term
<1>2. Inside(m, {x}, {}) /\ \A s \in Stores : m[s] # {}
  BY Fields DEF Inside
<1> HIDE DEF m, t
<1>3. Printed(t)
  BY <1>1, <1>2 DEF Printed
<1>4. QED
  BY <1>3 DEF t

LEMMA BumpPrinted == ASSUME NEW x \in Cells PROVE Printed(Bump(x))
<1> DEFINE m == [s \in Stores |-> {Outcome(s[x], [s EXCEPT ![x] = v], {x}, {x}) : v \in Only("long", s[x] + 1)}]
           t == Bump(x)
<1>1. t.raw = m /\ t.boxed = m /\ t.reads = {x} /\ t.writes = {x}
  BY DEF Bump, Leaf, Term
<1>2. Inside(m, {x}, {x})
  <2> SUFFICES ASSUME NEW s \in Stores, NEW o \in m[s]
               PROVE  o.store \in Stores /\ o.reads \subseteq {x} /\ o.writes \subseteq {x}
    BY DEF Inside
  <2>1. PICK v \in Only("long", s[x] + 1) : o = Outcome(s[x], [s EXCEPT ![x] = v], {x}, {x})
    OBVIOUS
  <2>2. v \in Long
    BY DEF Only, Values
  <2>3. [s EXCEPT ![x] = v] \in Stores
    BY <2>2 DEF Stores
  <2>4. QED
    BY <2>1, <2>3, Fields
<1> HIDE DEF m, t
<1>3. Printed(t)
  BY <1>1, <1>2 DEF Printed
<1>4. QED
  BY <1>3 DEF t

LEMMA NegatedPrinted == ASSUME NEW e, Printed(e) PROVE Printed(Negated(e))
<1> DEFINE m == [s \in Stores |-> {Valued(o, Truth(o.value = 0)) : o \in e.raw[s]}]
           t == Negated(e)
<1>1. t.raw = m /\ t.boxed = m /\ t.reads = e.reads /\ t.writes = e.writes /\ t.fails = e.fails
  BY DEF Negated, Term
<1>2. Inside(e.raw, e.reads, e.writes) /\ (~ e.fails /\ e.writes = {} => \A s \in Stores : e.raw[s] # {})
  BY Zenon DEF Printed
<1>3. Inside(m, e.reads, e.writes)
  <2> SUFFICES ASSUME NEW s \in Stores, NEW o \in m[s]
               PROVE  /\ o.store \in Stores /\ o.reads \subseteq e.reads /\ o.writes \subseteq e.writes
                      /\ e.writes = {} => o.store = s
    BY DEF Inside
  <2>1. PICK p \in e.raw[s] : o = Valued(p, Truth(p.value = 0))
    OBVIOUS
  <2>2. o.store = p.store /\ o.reads = p.reads /\ o.writes = p.writes
    BY <2>1, Fields DEF Valued
  <2>3. QED
    BY <1>2, <2>2 DEF Inside
<1>4. ~ e.fails /\ e.writes = {} => \A s \in Stores : m[s] # {}
  BY <1>2
<1> HIDE DEF m, t
<1>5. Printed(t)
  BY <1>1, <1>3, <1>4 DEF Printed
<1>6. QED
  BY <1>5 DEF t

(* Every step keeps the invariant.                                            *)
LEMMA SInvStep == SInv /\ [SNext]_terms => SInv'
<1> SUFFICES ASSUME SInv, [SNext]_terms
             PROVE  SInv'
  OBVIOUS
<1>1. PICK S : terms \in Seq(S) /\ \A t \in S : Printed(t)
  BY DEF SInv
<1>2. ASSUME NEW t, Printed(t), NEW rest, rest \in Seq(S), terms' = <<t>> \o rest
      PROVE  SInv'
  <2> DEFINE Z == S \cup {t}
  <2>1. <<t>> \in Seq(Z) /\ rest \in Seq(Z)
    BY <1>2
  <2>2. terms' \in Seq(Z)
    BY <1>2, <2>1
  <2>3. \A e \in Z : Printed(e)
    BY <1>1, <1>2
  <2>4. QED
    BY <2>2, <2>3 DEF SInv
<1>3. CASE WriteLeaf
  <2>1. \/ \E n \in Numerals : terms' = <<Numeral(n)>> \o terms
        \/ \E x \in Cells : terms' = <<Cell(x)>> \o terms
        \/ \E x \in Cells : terms' = <<Bump(x)>> \o terms
    BY <1>3 DEF WriteLeaf
  <2>2. QED
    BY <1>1, <1>2, <2>1, NumeralPrinted, CellPrinted, BumpPrinted
<1>4. CASE WriteNot
  <2>1. terms # <<>> /\ terms' = <<Negated(terms[1])>> \o Tail(terms)
    BY <1>4 DEF WriteNot
  <2>2. terms[1] \in S /\ Tail(terms) \in Seq(S)
    BY <1>1, <2>1
  <2>3. Printed(Negated(terms[1]))
    BY <1>1, <2>2, NegatedPrinted
  <2>4. QED
    BY <1>2, <2>1, <2>2, <2>3
<1>5. CASE WriteJoin
  <2>1. PICK op \in Joins : /\ Len(terms) >= 2
                            /\ terms' = <<Joined(op, terms[2], terms[1])>> \o SubSeq(terms, 3, Len(terms))
    BY <1>5 DEF WriteJoin
  <2>2. terms[1] \in S /\ terms[2] \in S /\ SubSeq(terms, 3, Len(terms)) \in Seq(S)
    BY <1>1, <2>1
  <2>3. Printed(Joined(op, terms[2], terms[1]))
    BY <1>1, <2>2, JoinPrinted
  <2>4. QED
    BY <1>2, <2>1, <2>2, <2>3
<1>6. CASE UNCHANGED terms
  BY <1>6 DEF SInv
<1>7. QED
  BY <1>3, <1>4, <1>5, <1>6 DEF SNext

(* Printed boxed, where and and or are calls of the runtime, an expression of any   *)
(* size over any objects and operators shows the same value and leaves the same    *)
(* values in the objects as its raw text, for whatever is in them and every width   *)
(* of long, unless a right operand of and or or writes, may be undefined or reads   *)
(* what the left one writes (emitBoxedExpr, emitRawExpr, ps_and, ps_or).          *)
THEOREM BoxingIsRaw == SSpec => []BoxedIsRaw
<1>1. SInit => SInv
  <2> SUFFICES ASSUME SInit
               PROVE  SInv
    OBVIOUS
  <2>1. terms \in Seq({}) /\ \A t \in {} : Printed(t)
    BY DEF SInit
  <2>2. QED
    BY <2>1 DEF SInv
<1>2. SInv => BoxedIsRaw
  <2> SUFFICES ASSUME SInv, OneTerm, ~ terms[1].risky
               PROVE  \A s \in Stores : Seen(terms[1].boxed[s]) = Seen(terms[1].raw[s])
    BY Zenon DEF BoxedIsRaw
  <2>1. Printed(terms[1])
    BY DEF SInv, OneTerm
  <2>2. QED
    BY <2>1, Zenon DEF Printed
<1>3. QED
  BY <1>1, <1>2, SInvStep, PTL DEF SSpec
==============================================================================
