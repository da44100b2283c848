---------------------------- MODULE TokenizerProofs ----------------------------
(* Proofs that neither the layout of a source text nor its comments matter to *)
(* its other tokens, for texts of any length.  Every turn of the tokenizer    *)
(* keeps what it read readable (Reading), and readable tokens that are        *)
(* written out are read as themselves (Rescanned).                            *)
EXTENDS Tokenizer, SequenceTheorems, WellFoundedInduction, TLAPS

(* A nonempty set of natural numbers has a least one.                          *)
LEMMA Least ==
  ASSUME NEW S \in SUBSET Nat, S # {}
  PROVE  \E m \in S : \A n \in S : m <= n
<1> DEFINE R == {ss \in Nat \X Nat : ss[1] < ss[2]}
<1>1. R = OpToRel(<, Nat)
  BY Zenon DEF OpToRel
<1>2. \A m, n \in Nat : m <= n \/ <<n, m>> \in R
  OBVIOUS
<1> HIDE DEF R
<1>3. IsWellFoundedOn(R, Nat)
  BY <1>1, NatLessThanWellFounded, Zenon
<1>4. PICK m \in S : \A n \in S : ~(<<n, m>> \in R)
  BY <1>3, WFMin, Zenon
<1>5. QED
  BY <1>2, <1>4

(* What holds at 0 and, with every number, of the next, holds of all numbers    *)
(* up to a bound.                                                               *)
LEMMA UpTo ==
  ASSUME NEW N \in Nat, NEW S, 0 \in S, \A n \in 0 .. N - 1 : n \in S => n + 1 \in S
  PROVE  \A n \in 0 .. N : n \in S
<1> SUFFICES ASSUME NEW k \in 0 .. N, k \notin S PROVE FALSE
  OBVIOUS
<1>1. (0 .. N) \ S \in SUBSET Nat /\ (0 .. N) \ S # {}
  OBVIOUS
<1>2. PICK m \in (0 .. N) \ S : \A n \in (0 .. N) \ S : m <= n
  BY <1>1, Least
<1>3. m # 0 /\ m - 1 \in 0 .. N - 1 /\ ~ (m <= m - 1)
  BY <1>2
<1>4. m - 1 \in S /\ (m - 1) + 1 = m
  BY <1>2, <1>3
<1>5. QED
  BY <1>2, <1>3, <1>4

(* f computes step by step from z.                                             *)
Steps(D, z, step, n, f) ==
  f \in [0 .. n -> D] /\ f[0] = z /\ \A k \in 1 .. n : f[k] = step[<<k, f[k - 1]>>]

(* A function can be computed step by step.                                    *)
LEMMA StepsExist ==
  ASSUME NEW D, NEW z \in D, NEW N \in Nat, NEW step \in [(1 .. N) \X D -> D]
  PROVE  \E f : Steps(D, z, step, N, f)
<1> DEFINE S == {n \in 0 .. N : \E f : Steps(D, z, step, n, f)}
<1>1. 0 \in S
  <2>1. Steps(D, z, step, 0, [k \in 0 .. 0 |-> z])
    BY DEF Steps
  <2>2. QED
    BY <2>1
<1>2. ASSUME NEW n \in 0 .. N - 1, n \in S PROVE n + 1 \in S
  <2>1. PICK f : Steps(D, z, step, n, f)
    BY <1>2
  <2> DEFINE g == [k \in 0 .. n + 1 |-> IF k = n + 1 THEN step[<<n + 1, f[n]>>] ELSE f[k]]
  <2>2. f[n] \in D /\ n + 1 \in 1 .. N
    BY <2>1 DEF Steps
  <2>3. step[<<n + 1, f[n]>>] \in D
    BY <2>2
  <2>4. g \in [0 .. n + 1 -> D] /\ g[0] = z
    BY <2>1, <2>3 DEF Steps
  <2>5. ASSUME NEW k \in 1 .. n + 1 PROVE g[k] = step[<<k, g[k - 1]>>]
    <3>1. CASE k = n + 1
      <4>1. k - 1 = n /\ g[n] = f[n] /\ g[n + 1] = step[<<n + 1, f[n]>>]
        BY <3>1
      <4>2. QED
        BY <3>1, <4>1
    <3>2. CASE k # n + 1
      <4>1. k \in 1 .. n /\ k - 1 \in 0 .. n /\ k - 1 # n + 1
        BY <3>2
      <4>2. g[k] = f[k] /\ g[k - 1] = f[k - 1]
        BY <4>1, <3>2
      <4>3. QED
        BY <2>1, <4>1, <4>2 DEF Steps
    <3>3. QED
      BY <3>1, <3>2
  <2> HIDE DEF g
  <2>6. Steps(D, z, step, n + 1, g)
    BY <2>4, <2>5 DEF Steps
  <2>7. QED
    BY <2>2, <2>6
<1>3. N \in S
  <2> HIDE DEF S
  <2>1. \A n \in 0 .. N - 1 : n \in S => n + 1 \in S
    BY <1>2
  <2>2. \A n \in 0 .. N : n \in S
    BY <1>1, <2>1, UpTo
  <2>3. QED
    BY <2>2
<1>4. QED
  BY <1>3

------------------------------------------------------------------------------
(* Texts.                                                                      *)

Characters ==
  (UNION {a.characters : a \in Alphabets})
    \cup {"space", "nl", "(", ")", "0", "x", "quote", "back", "n"}
Text == Seq(Characters)

(* The end of a text is no character of it.                                    *)
LEMMA NoEnd == "end" \notin Characters
<1>1. "end" \notin UNION {a.characters : a \in Alphabets}
  BY AlphabetsAssumption
<1>2. "end" \notin {"space", "nl", "(", ")", "0", "x", "quote", "back", "n"}
  OBVIOUS
<1>3. QED
  BY <1>1, <1>2 DEF Characters

(* The characters every spelling may need.                                     *)
LEMMA Spelling ==
  \A c \in {"space", "nl", "(", ")", "0", "x", "quote", "back", "n"} : c \in Characters
BY DEF Characters

(* One or two characters are a text.                                           *)
LEMMA ShortText ==
  \A c, d \in Characters : <<c>> \in Text /\ <<c, d>> \in Text
BY DEF Text

(* The elements of a text.                                                     *)
LEMMA Elements ==
  ASSUME NEW cs \in Text
  PROVE  /\ Len(cs) \in Nat /\ DOMAIN cs = 1 .. Len(cs)
         /\ \A i \in 1 .. Len(cs) : cs[i] \in Characters /\ cs[i] # "end" /\ CharAt(cs, i) = cs[i]
         /\ CharAt(cs, Len(cs) + 1) = "end"
BY NoEnd DEF Text, CharAt

(* Where the characters of a set end, there is one place.                      *)
LEMMA AfterIs ==
  ASSUME NEW cs \in Text, NEW i \in Nat, NEW S, NEW j \in i .. Len(cs) + 1,
         CharAt(cs, j) \notin S, \A k \in i .. j - 1 : CharAt(cs, k) \in S, 1 <= i
  PROVE  After(cs, i, S) = j
<1>1. Len(cs) \in Nat
  BY Elements
<1>2. \A k \in i .. j - 1 : CharAt(cs, k) = cs[k]
  BY <1>1 DEF CharAt
<1> DEFINE P(h) == CharAt(cs, h) \notin S /\ \A k \in i .. h - 1 : cs[k] \in S
<1>3. j \in i .. Len(cs) + 1 /\ P(j)
  BY <1>2
<1>4. ASSUME NEW h \in i .. Len(cs) + 1, P(h) PROVE h = j
  <2>1. CASE h < j
    BY <1>1, <1>4, <2>1
  <2>2. CASE j < h
    <3>1. j \in i .. h - 1 /\ CharAt(cs, j) = cs[j]
      BY <1>1, <2>2 DEF CharAt
    <3>2. QED
      BY <1>4, <3>1
  <2>3. QED
    BY <1>1, <2>1, <2>2
<1>5. After(cs, i, S) = CHOOSE h \in i .. Len(cs) + 1 : P(h)
  BY DEF After
<1> HIDE DEF P
<1>6. QED
  BY <1>3, <1>4, <1>5

(* The characters of a set end somewhere, at the end if not before.             *)
LEMMA AfterFacts ==
  ASSUME NEW cs \in Text, NEW i \in 1 .. Len(cs) + 1, NEW S, "end" \notin S
  PROVE  /\ After(cs, i, S) \in i .. Len(cs) + 1
         /\ CharAt(cs, After(cs, i, S)) \notin S
         /\ \A k \in i .. After(cs, i, S) - 1 : cs[k] \in S
<1>1. Len(cs) \in Nat /\ CharAt(cs, Len(cs) + 1) = "end"
  BY Elements
<1> DEFINE stops == {h \in i .. Len(cs) + 1 : CharAt(cs, h) \notin S}
<1>2. stops \in SUBSET Nat /\ stops # {}
  BY <1>1
<1>3. PICK j \in stops : \A h \in stops : j <= h
  BY <1>2, Least
<1>4. ASSUME NEW k \in i .. j - 1 PROVE CharAt(cs, k) \in S /\ CharAt(cs, k) = cs[k]
  BY <1>1, <1>3 DEF CharAt
<1>5. After(cs, i, S) = j
  BY <1>1, <1>4, AfterIs
<1>6. QED
  BY <1>4, <1>5

------------------------------------------------------------------------------
(* Counting characters.                                                        *)

Weight(c, S, T) == IF c \in S THEN 1 ELSE IF c \in T THEN -1 ELSE 0

(* A count starts at nothing and changes by the weight of a character.         *)
LEMMA BalanceFacts ==
  ASSUME NEW cs \in Text, NEW S, NEW T
  PROVE  /\ Balance(cs, S, T)[0] = 0
         /\ \A n \in 0 .. Len(cs) : Balance(cs, S, T)[n] \in Int
         /\ \A n \in 1 .. Len(cs) :
              Balance(cs, S, T)[n] = Balance(cs, S, T)[n - 1] + Weight(cs[n], S, T)
<1> DEFINE N == Len(cs)
           step == [p \in (1 .. N) \X Int |-> p[2] + Weight(cs[p[1]], S, T)]
           Counts(f) == f = [n \in 0 .. N |-> IF n = 0 THEN 0 ELSE f[n - 1] + Weight(cs[n], S, T)]
           more == CHOOSE f : Counts(f)
<1>1. N \in Nat
  BY Elements
<1>2. \A n : Weight(cs[n], S, T) \in Int
  BY DEF Weight
<1>3. step \in [(1 .. N) \X Int -> Int]
  BY <1>2
<1>4. \A k \in 1 .. N, v \in Int : step[<<k, v>>] = v + Weight(cs[k], S, T)
  OBVIOUS
<1>5. Balance(cs, S, T) = more
  BY DEF Balance, Weight
<1> HIDE DEF step, N
<1>0. 0 \in Int
  OBVIOUS
<1>6. PICK f : Steps(Int, 0, step, N, f)
  BY <1>0, <1>1, <1>3, StepsExist, Zenon
<1>7. ASSUME NEW k \in 1 .. N PROVE f[k] = f[k - 1] + Weight(cs[k], S, T)
  <2>1. k - 1 \in 0 .. N
    BY <1>1
  <2>2. f[k - 1] \in Int /\ f[k] = step[<<k, f[k - 1]>>]
    BY <1>6, <2>1 DEF Steps
  <2>3. QED
    BY <1>4, <2>2
<1>8. Counts(f)
  BY <1>1, <1>6, <1>7 DEF Steps
<1>9. Counts(more)
  BY <1>8
<1> HIDE DEF more
<1>10. more[0] = 0 /\ \A k \in 1 .. N : more[k] = more[k - 1] + Weight(cs[k], S, T)
  BY <1>1, <1>9
<1>11. \A n \in 0 .. N : more[n] \in Int
  <2> DEFINE I == {n \in 0 .. N : more[n] \in Int}
  <2>1. 0 \in I
    BY <1>1, <1>10
  <2>2. \A n \in 0 .. N - 1 : n \in I => n + 1 \in I
    BY <1>1, <1>2, <1>10
  <2> HIDE DEF I
  <2>3. \A n \in 0 .. N : n \in I
    BY <1>1, <2>1, <2>2, UpTo
  <2>4. QED
    BY <2>3 DEF I
<1>12. QED
  BY <1>5, <1>10, <1>11 DEF N

(* The N characters after i in cs are those after p in ds.                     *)
Same(cs, i, ds, p, N) ==
  /\ i \in Nat /\ p \in Nat /\ N \in Nat /\ i + N <= Len(cs) /\ p + N <= Len(ds)
  /\ \A k \in 1 .. N : cs[i + k] = ds[p + k]

(* Equal windows count equally.                                                *)
LEMMA BalanceWindow ==
  ASSUME NEW cs \in Text, NEW ds \in Text, NEW S, NEW T, NEW i, NEW p, NEW N, Same(cs, i, ds, p, N)
  PROVE  \A m \in 0 .. N : Balance(cs, S, T)[i + m] - Balance(cs, S, T)[i]
                             = Balance(ds, S, T)[p + m] - Balance(ds, S, T)[p]
<1> DEFINE c == Balance(cs, S, T)
           d == Balance(ds, S, T)
           I == {m \in 0 .. N : c[i + m] - c[i] = d[p + m] - d[p]}
<1>0. /\ i \in Nat /\ p \in Nat /\ N \in Nat /\ i + N <= Len(cs) /\ p + N <= Len(ds)
      /\ \A k \in 1 .. N : cs[i + k] = ds[p + k]
  BY DEF Same
<1>1. /\ Len(cs) \in Nat /\ Len(ds) \in Nat /\ i \in Nat /\ p \in Nat /\ N \in Nat
      /\ i + N <= Len(cs) /\ p + N <= Len(ds)
  BY <1>0, Elements
<1>2. /\ \A n \in 0 .. Len(cs) : c[n] \in Int
      /\ \A n \in 1 .. Len(cs) : c[n] = c[n - 1] + Weight(cs[n], S, T)
  BY BalanceFacts
<1>3. /\ \A n \in 0 .. Len(ds) : d[n] \in Int
      /\ \A n \in 1 .. Len(ds) : d[n] = d[n - 1] + Weight(ds[n], S, T)
  BY BalanceFacts
<1> HIDE DEF c, d
<1>4. 0 \in I
  <2>1. i \in 0 .. Len(cs) /\ p \in 0 .. Len(ds) /\ i + 0 = i /\ p + 0 = p
    BY <1>1
  <2>2. c[i] \in Int /\ d[p] \in Int
    BY <1>2, <1>3, <2>1
  <2>3. c[i + 0] - c[i] = d[p + 0] - d[p]
    BY <2>1, <2>2
  <2>4. QED
    BY <1>1, <2>3
<1>5. ASSUME NEW n \in 0 .. N - 1, n \in I PROVE n + 1 \in I
  <2>0. n + 1 \in 1 .. N
    BY <1>1
  <2>1. i + (n + 1) \in 1 .. Len(cs) /\ (i + (n + 1)) - 1 = i + n /\ i + n \in 0 .. Len(cs) /\ i \in 0 .. Len(cs)
    BY <1>1
  <2>2. p + (n + 1) \in 1 .. Len(ds) /\ (p + (n + 1)) - 1 = p + n /\ p + n \in 0 .. Len(ds) /\ p \in 0 .. Len(ds)
    BY <1>1
  <2> DEFINE k == n + 1
             w == Weight(cs[i + k], S, T)
  <2>3. cs[i + k] = ds[p + k] /\ w \in Int
    <3>1. k \in 1 .. N
      BY <2>0
    <3>2. w \in Int
      BY DEF Weight
    <3> HIDE DEF k, w
    <3>3. QED
      BY <1>0, <3>1, <3>2
  <2>4. c[i + (n + 1)] = c[i + n] + w
    BY <1>2, <2>1
  <2>5. d[p + (n + 1)] = d[p + n] + w
    BY <1>3, <2>2, <2>3
  <2>6. c[i + n] \in Int /\ c[i] \in Int /\ d[p + n] \in Int /\ d[p] \in Int
    BY <1>2, <1>3, <2>1, <2>2
  <2>7. c[i + n] - c[i] = d[p + n] - d[p]
    BY <1>5
  <2>8. c[i + (n + 1)] - c[i] = d[p + (n + 1)] - d[p]
    <3> DEFINE a == c[i + (n + 1)]
               b == d[p + (n + 1)]
               x == c[i + n]
               y == d[p + n]
               g == c[i]
               h == d[p]
    <3>1. a = x + w /\ b = y + w /\ x - g = y - h
      BY <2>4, <2>5, <2>7
    <3>2. w \in Int /\ x \in Int /\ y \in Int /\ g \in Int /\ h \in Int
      BY <2>3, <2>6
    <3>3. SUFFICES a - g = b - h
      OBVIOUS
    <3> HIDE DEF w, a, b, x, y, g, h
    <3>4. QED
      BY <3>1, <3>2
  <2>9. QED
    BY <2>0, <2>8
<1> HIDE DEF I
<1>6. \A m \in 0 .. N : m \in I
  BY <1>1, <1>4, <1>5, UpTo
<1>7. QED
  BY <1>6 DEF I, c, d

(* Lines are only added.                                                       *)
LEMMA LinesGrow ==
  ASSUME NEW cs \in Text, NEW i \in 0 .. Len(cs), NEW j \in i .. Len(cs)
  PROVE  Lines(cs)[i] \in Int /\ Lines(cs)[j] \in Int /\ Lines(cs)[i] <= Lines(cs)[j]
<1> DEFINE c == Lines(cs)
           I == {m \in 0 .. j - i : c[i] <= c[i + m]}
<1>1. Len(cs) \in Nat
  BY Elements
<1>2. /\ \A n \in 0 .. Len(cs) : c[n] \in Int
      /\ \A n \in 1 .. Len(cs) : c[n] = c[n - 1] + Weight(cs[n], {"nl"}, {})
  BY BalanceFacts DEF Lines
<1> HIDE DEF c
<1>3. 0 \in I
  BY <1>1, <1>2
<1>4. ASSUME NEW n \in 0 .. (j - i) - 1, n \in I PROVE n + 1 \in I
  <2>1. i + (n + 1) \in 1 .. Len(cs) /\ (i + (n + 1)) - 1 = i + n /\ i + n \in 0 .. Len(cs)
    BY <1>1
  <2>2. Weight(cs[i + (n + 1)], {"nl"}, {}) \in {0, 1}
    BY DEF Weight
  <2>3. c[i + (n + 1)] = c[i + n] + Weight(cs[i + (n + 1)], {"nl"}, {})
    BY <1>2, <2>1
  <2>4. QED
    BY <1>2, <1>4, <2>1, <2>2, <2>3
<1> HIDE DEF I
<1>5. j - i \in Nat
  BY <1>1
<1>6. \A m \in 0 .. j - i : m \in I
  BY <1>3, <1>4, <1>5, UpTo
<1>7. j - i \in I /\ i + (j - i) = j
  BY <1>5, <1>6
<1>8. QED
  BY <1>1, <1>2, <1>7 DEF I, c

(* Characters that weigh nothing leave the count as it is.                      *)
LEMMA BalanceStays ==
  ASSUME NEW cs \in Text, NEW S, NEW T, NEW i \in 0 .. Len(cs), NEW j \in i .. Len(cs),
         \A k \in i + 1 .. j : cs[k] \notin S \cup T
  PROVE  Balance(cs, S, T)[j] = Balance(cs, S, T)[i]
<1> DEFINE c == Balance(cs, S, T)
           I == {m \in 0 .. j - i : c[i + m] = c[i]}
<1>1. Len(cs) \in Nat
  BY Elements
<1>2. /\ \A n \in 0 .. Len(cs) : c[n] \in Int
      /\ \A n \in 1 .. Len(cs) : c[n] = c[n - 1] + Weight(cs[n], S, T)
  BY BalanceFacts
<1> HIDE DEF c
<1>3. 0 \in I
  BY <1>1, <1>2
<1>4. ASSUME NEW n \in 0 .. (j - i) - 1, n \in I PROVE n + 1 \in I
  <2>1. i + (n + 1) \in 1 .. Len(cs) /\ (i + (n + 1)) - 1 = i + n /\ i + n \in 0 .. Len(cs)
    BY <1>1
  <2>2. i + (n + 1) \in i + 1 .. j
    BY <1>1
  <2>3. Weight(cs[i + (n + 1)], S, T) = 0
    BY <2>2 DEF Weight
  <2>4. QED
    BY <1>2, <1>4, <2>1, <2>3
<1> HIDE DEF I
<1>5. j - i \in Nat
  BY <1>1
<1>6. \A m \in 0 .. j - i : m \in I
  BY <1>3, <1>4, <1>5, UpTo
<1>7. j - i \in I /\ i + (j - i) = j
  BY <1>5, <1>6
<1>8. QED
  BY <1>1, <1>2, <1>7 DEF I, c

(* Part of a text is a text.                                                   *)
LEMMA PartFacts ==
  ASSUME NEW cs \in Text, NEW i \in 1 .. Len(cs) + 1, NEW j \in i - 1 .. Len(cs)
  PROVE  /\ SubSeq(cs, i, j) \in Text
         /\ Len(SubSeq(cs, i, j)) = j - i + 1
         /\ \A k \in 1 .. j - i + 1 : SubSeq(cs, i, j)[k] = cs[i + k - 1]
<1>1. Len(cs) \in Nat /\ \A k \in 1 .. Len(cs) : cs[k] \in Characters
  BY Elements
<1>2. i \in Int /\ j \in Int /\ \A k \in i .. j : cs[k] \in Characters
  BY <1>1
<1>3. /\ SubSeq(cs, i, j) \in Seq(Characters)
      /\ Len(SubSeq(cs, i, j)) = IF i <= j THEN j - i + 1 ELSE 0
      /\ \A k \in 1 .. j - i + 1 : SubSeq(cs, i, j)[k] = cs[i + k - 1]
  BY <1>2, SubSeqProperties
<1>4. ~ (i <= j) => j - i + 1 = 0
  BY <1>1
<1>5. QED
  BY <1>3, <1>4 DEF Text

(* Texts with the same characters are the same.                                *)
LEMMA SameText ==
  ASSUME NEW cs \in Text, NEW ds \in Text, Len(cs) = Len(ds), \A k \in 1 .. Len(cs) : cs[k] = ds[k]
  PROVE  cs = ds
BY SeqEqual DEF Text

------------------------------------------------------------------------------
(* Trimming.                                                                   *)

Tight(w) == w = <<>> \/ (w[1] \notin Blanks /\ w[Len(w)] \notin Blanks)

(* Trimming takes the blanks off both ends and no more.                         *)
LEMMA TrimmedFacts ==
  ASSUME NEW u \in Text
  PROVE  \/ Trimmed(u) = <<>> /\ \A k \in 1 .. Len(u) : u[k] \in Blanks
         \/ \E a \in 1 .. Len(u), b \in 1 .. Len(u) :
              /\ a <= b /\ Trimmed(u) = SubSeq(u, a, b)
              /\ u[a] \notin Blanks /\ u[b] \notin Blanks
              /\ \A k \in 1 .. a - 1 : u[k] \in Blanks
              /\ \A k \in b + 1 .. Len(u) : u[k] \in Blanks
<1> DEFINE solid == {k \in DOMAIN u : u[k] \notin Blanks}
           from  == CHOOSE k \in solid : \A j \in solid : k <= j
           to    == CHOOSE k \in solid : \A j \in solid : k >= j
           N     == Len(u)
<1>1. N \in Nat /\ DOMAIN u = 1 .. N
  BY Elements
<1>2. CASE solid = {}
  BY <1>1, <1>2 DEF Trimmed
<1>3. CASE solid # {}
  <2>1. solid \in SUBSET Nat /\ \A k \in solid : k \in 1 .. N
    BY <1>1
  <2>2. \A k \in 1 .. N : k \notin solid => u[k] \in Blanks
    BY <1>1
  <2>3. \A k \in solid : u[k] \notin Blanks
    OBVIOUS
  <2>4. Trimmed(u) = SubSeq(u, from, to)
    BY <1>3 DEF Trimmed
  <2> HIDE DEF solid, N
  <2>5. from \in solid /\ \A j \in solid : from <= j
    <3>1. \E k \in solid : \A j \in solid : k <= j
      BY <1>3, <2>1, Least
    <3>2. QED
      BY <3>1
  <2>6. to \in solid /\ \A j \in solid : to >= j
    <3> DEFINE back == {N - k : k \in solid}
    <3>1. back \in SUBSET Nat /\ back # {}
      <4>1. \A k \in solid : N - k \in Nat
        BY <1>1, <2>1
      <4>2. QED
        BY <1>3, <4>1
    <3>2. PICK m \in back : \A n \in back : m <= n
      BY <3>1, Least
    <3>3. PICK k \in solid : m = N - k
      BY <3>2
    <3>4. \A j \in solid : k >= j
      <4>1. TAKE j \in solid
      <4>2. N - k <= N - j
        BY <3>2, <3>3
      <4>3. QED
        BY <1>1, <2>1, <4>2
    <3>5. QED
      BY <3>4
  <2> HIDE DEF from, to
  <2>7. from \in 1 .. N /\ to \in 1 .. N /\ from <= to
    BY <2>1, <2>5, <2>6
  <2>8. \A k \in 1 .. from - 1 : k \in 1 .. N /\ k \notin solid
    BY <1>1, <2>5, <2>7
  <2>9. \A k \in to + 1 .. N : k \in 1 .. N /\ k \notin solid
    BY <1>1, <2>6, <2>7
  <2>10. QED
    BY <2>2, <2>3, <2>4, <2>5, <2>6, <2>7, <2>8, <2>9 DEF N
<1>4. QED
  BY <1>2, <1>3

(* What has no blanks at its ends stays.                                       *)
LEMMA TrimmedTight ==
  ASSUME NEW w \in Text, Tight(w)
  PROVE  Trimmed(w) = w
<1>1. Len(w) \in Nat /\ DOMAIN w = 1 .. Len(w)
  BY Elements
<1>2. CASE w = <<>>
  <2>1. {k \in DOMAIN w : w[k] \notin Blanks} = {}
    BY <1>2
  <2>2. QED
    BY <1>2, <2>1 DEF Trimmed
<1>3. CASE w # <<>>
  <2>1. Len(w) \in Nat \ {0}
    BY <1>3, EmptySeq DEF Text
  <2>2. 1 \in 1 .. Len(w) /\ Len(w) \in 1 .. Len(w) /\ w[1] \notin Blanks /\ w[Len(w)] \notin Blanks
    BY <1>3, <2>1 DEF Tight
  <2>3. PICK a \in 1 .. Len(w), b \in 1 .. Len(w) :
              /\ a <= b /\ Trimmed(w) = SubSeq(w, a, b)
              /\ \A k \in 1 .. a - 1 : w[k] \in Blanks
              /\ \A k \in b + 1 .. Len(w) : w[k] \in Blanks
    BY <2>2, TrimmedFacts
  <2>4. a = 1 /\ b = Len(w)
    BY <2>1, <2>2, <2>3
  <2>5. SubSeq(w, 1, Len(w)) = w
    BY SubSeqFull DEF Text
  <2>6. QED
    BY <2>3, <2>4, <2>5
<1>4. QED
  BY <1>2, <1>3

(* What was trimmed has no blanks at its ends.                                  *)
LEMMA TightTrimmed ==
  ASSUME NEW u \in Text
  PROVE  Trimmed(u) \in Text /\ Tight(Trimmed(u))
<1>1. Len(u) \in Nat
  BY Elements
<1>2. CASE Trimmed(u) = <<>>
  BY <1>2, EmptySeq DEF Text, Tight
<1>3. CASE Trimmed(u) # <<>>
  <2>1. PICK a \in 1 .. Len(u), b \in 1 .. Len(u) :
          a <= b /\ Trimmed(u) = SubSeq(u, a, b) /\ u[a] \notin Blanks /\ u[b] \notin Blanks
    BY <1>3, TrimmedFacts
  <2> DEFINE n == b - a + 1
             w == SubSeq(u, a, b)
  <2>2. a \in 1 .. Len(u) + 1 /\ b \in a - 1 .. Len(u) /\ n \in Nat /\ 1 \in 1 .. n /\ n \in 1 .. n
    BY <1>1, <2>1
  <2>3. w \in Text /\ Len(w) = n /\ \A k \in 1 .. n : w[k] = u[a + k - 1]
    BY <2>2, PartFacts
  <2>4. w[1] = u[a] /\ w[n] = u[b]
    <3>1. a + 1 - 1 = a /\ a + n - 1 = b
      BY <1>1, <2>1
    <3>2. QED
      BY <2>2, <2>3, <3>1
  <2>5. QED
    BY <2>1, <2>3, <2>4 DEF Tight
<1>4. QED
  BY <1>2, <1>3

------------------------------------------------------------------------------
(* A sequence of sequences, one after another: f says where each one ends.      *)

Flat(D, pieces, f) ==
  /\ f \in [0 .. Len(pieces) -> Nat] /\ f[0] = 0
  /\ \A k \in 1 .. Len(pieces) : f[k] = f[k - 1] + Len(pieces[k])
  /\ FlattenSeq(pieces) \in Seq(D) /\ Len(FlattenSeq(pieces)) = f[Len(pieces)]
  /\ \A k \in 1 .. Len(pieces) : \A n \in 1 .. Len(pieces[k]) :
       f[k - 1] + n <= f[Len(pieces)] /\ FlattenSeq(pieces)[f[k - 1] + n] = pieces[k][n]
  /\ \A k \in 0 .. Len(pieces) : f[k] <= f[Len(pieces)]

(* Such places exist.                                                          *)
LEMMA FlattenFacts ==
  ASSUME NEW D, NEW pieces \in Seq(Seq(D))
  PROVE  \E f : Flat(D, pieces, f)
<1> DEFINE N == Len(pieces)
           E == Seq(D)
           step == [p \in (1 .. N) \X E |-> p[2] \o pieces[p[1]]]
<1>1. N \in Nat /\ \A k \in 1 .. N : pieces[k] \in E
  OBVIOUS
<1>2. \A s, t \in E :
        /\ s \o t \in E /\ Len(s) \in Nat /\ Len(t) \in Nat /\ Len(s \o t) = Len(s) + Len(t)
        /\ \A i \in 1 .. Len(s) + Len(t) : (s \o t)[i] = IF i <= Len(s) THEN s[i] ELSE t[i - Len(s)]
  BY ConcatProperties, LenProperties
<1>3. <<>> \in E /\ Len(<<>>) = 0 /\ \A s \in E : <<>> \o s = s
  BY EmptySeq, ConcatEmptySeq
<1>4. step \in [(1 .. N) \X E -> E]
  BY <1>1, <1>2
<1>5. \A k \in 1 .. N, v \in E : step[<<k, v>>] = v \o pieces[k]
  OBVIOUS
<1> HIDE DEF step
<1>6. PICK h : Steps(E, <<>>, step, N, h)
  BY <1>1, <1>3, <1>4, StepsExist, Zenon
<1> HIDE DEF E
<1>7. h[0] = <<>> /\ \A k \in 0 .. N : h[k] \in E
  BY <1>6 DEF Steps
<1>8. \A k \in 1 .. N : h[k] = h[k - 1] \o pieces[k]
  <2>1. TAKE k \in 1 .. N
  <2>2. k - 1 \in 0 .. N
    BY <1>1
  <2>3. QED
    BY <1>5, <1>6, <1>7, <2>2 DEF Steps
<1>9. FlattenSeq(pieces) = h[N]
  <2>1. CASE N = 0
    <3>1. pieces = <<>>
      BY <2>1
    <3>2. QED
      BY <1>7, <2>1, <3>1 DEF FlattenSeq
  <2>2. CASE N # 0
    <3> DEFINE Flattens(g) == g = [i \in 1 .. N |-> IF i = 1 THEN pieces[i] ELSE g[i - 1] \o pieces[i]]
               flatten == CHOOSE g : Flattens(g)
               g0 == [i \in 1 .. N |-> h[i]]
               I == {n \in 0 .. N - 1 : flatten[n + 1] = h[n + 1]}
    <3>1. FlattenSeq(pieces) = flatten[N]
      BY <2>2 DEF FlattenSeq
    <3>2. h[1] = pieces[1] /\ 1 \in 1 .. N
      <4>1. 1 \in 1 .. N /\ 1 - 1 = 0
        BY <1>1, <2>2
      <4>2. QED
        BY <1>1, <1>3, <1>7, <1>8, <4>1
    <3>3. Flattens(g0)
      <4>1. ASSUME NEW i \in 1 .. N PROVE g0[i] = IF i = 1 THEN pieces[i] ELSE g0[i - 1] \o pieces[i]
        <5>1. CASE i = 1
          BY <3>2, <5>1
        <5>2. CASE i # 1
          <6>1. i - 1 \in 1 .. N
            BY <1>1, <5>2
          <6>2. QED
            BY <1>8, <5>2, <6>1
        <5>3. QED
          BY <5>1, <5>2
      <4>2. QED
        BY <4>1
    <3>4. Flattens(flatten)
      BY <3>3
    <3> HIDE DEF flatten, g0, N
    <3>5. \A i \in 1 .. N : flatten[i] = IF i = 1 THEN pieces[i] ELSE flatten[i - 1] \o pieces[i]
      BY <3>4
    <3>6. 0 \in I
      BY <1>1, <2>2, <3>2, <3>5
    <3>7. ASSUME NEW n \in 0 .. (N - 1) - 1, n \in I PROVE n + 1 \in I
      <4>1. /\ n + 1 \in 0 .. N - 1 /\ n + 1 \in 1 .. N /\ (n + 1) + 1 \in 1 .. N /\ (n + 1) + 1 # 1
            /\ ((n + 1) + 1) - 1 = n + 1
        BY <1>1
      <4>2. flatten[(n + 1) + 1] = flatten[n + 1] \o pieces[(n + 1) + 1]
        BY <3>5, <4>1
      <4>3. h[(n + 1) + 1] = h[n + 1] \o pieces[(n + 1) + 1]
        BY <1>8, <4>1
      <4>4. QED
        BY <3>7, <4>1, <4>2, <4>3
    <3> HIDE DEF I
    <3>8. N - 1 \in Nat
      BY <1>1, <2>2
    <3>9. \A n \in 0 .. N - 1 : n \in I
      BY <3>6, <3>7, <3>8, UpTo
    <3>10. N - 1 \in I /\ (N - 1) + 1 = N
      <4>1. N - 1 \in 0 .. N - 1 /\ (N - 1) + 1 = N
        BY <1>1, <3>8
      <4>2. QED
        BY <3>9, <4>1
    <3>11. QED
      BY <3>1, <3>10 DEF I
  <2>3. QED
    BY <2>1, <2>2
<1> DEFINE f == [k \in 0 .. N |-> Len(h[k])]
           J == {m \in 0 .. N :
                  /\ \A k \in 0 .. m : f[k] <= f[m]
                  /\ \A k \in 1 .. m : \A n \in 1 .. Len(pieces[k]) :
                       f[k - 1] + n <= f[m] /\ h[m][f[k - 1] + n] = pieces[k][n]}
<1> HIDE DEF N
<1>10. f \in [0 .. N -> Nat] /\ f[0] = 0
  BY <1>1, <1>2, <1>3, <1>7
<1>11. \A k \in 1 .. N : f[k] = f[k - 1] + Len(pieces[k]) /\ Len(pieces[k]) \in Nat /\ f[k - 1] = Len(h[k - 1]) /\ k - 1 \in 0 .. N
  <2>1. TAKE k \in 1 .. N
  <2>2. k - 1 \in 0 .. N /\ k \in 0 .. N
    BY <1>1
  <2>3. h[k] = h[k - 1] \o pieces[k] /\ h[k - 1] \in E /\ pieces[k] \in E
    BY <1>1, <1>7, <1>8, <2>2
  <2>4. Len(h[k]) = Len(h[k - 1]) + Len(pieces[k]) /\ Len(pieces[k]) \in Nat
    BY <1>2, <2>3
  <2>5. f[k] = Len(h[k]) /\ f[k - 1] = Len(h[k - 1])
    BY <2>2
  <2>6. QED
    BY <2>2, <2>4, <2>5
<1>12. \A k \in 0 .. N : f[k] \in Nat
  BY <1>10
<1>13. \A k \in 0 .. N : f[k] = Len(h[k])
  OBVIOUS
<1> HIDE DEF f
<1>14. 0 \in J
  BY <1>1, <1>10
<1>15. ASSUME NEW m \in 0 .. N - 1, m \in J PROVE m + 1 \in J
  <2> DEFINE q == m + 1
             l == Len(pieces[q])
             from == f[m]
             to == f[q]
  <2>1. /\ q \in 1 .. N /\ q - 1 = m /\ m \in 0 .. N /\ q \in 0 .. N
        /\ (\A k \in 0 .. q : k = q \/ (k \in 0 .. m /\ k \in 0 .. N))
        /\ \A k \in 1 .. q : k = q \/ k \in 1 .. m
    BY <1>1
  <2> HIDE DEF q
  <2>2. to = from + l /\ l \in Nat /\ from \in Nat /\ to \in Nat /\ from = Len(h[m])
    BY <1>11, <1>12, <1>13, <2>1
  <2>3. \A k \in 0 .. q : f[k] <= to
    <3>1. TAKE k \in 0 .. q
    <3>2. CASE k = q
      <4>1. f[k] = to
        BY <3>2
      <4> HIDE DEF from, to, l
      <4>2. QED
        BY <2>2, <4>1
    <3>3. CASE k \in 0 .. m /\ k \in 0 .. N
      <4>1. f[k] <= from /\ f[k] \in Nat
        BY <1>12, <1>15, <3>3
      <4> HIDE DEF from, to, l
      <4>2. QED
        BY <2>2, <4>1
    <3>4. QED
      BY <2>1, <3>2, <3>3
  <2>4. ASSUME NEW k \in 1 .. q, NEW n \in 1 .. Len(pieces[k])
        PROVE  f[k - 1] + n <= to /\ h[q][f[k - 1] + n] = pieces[k][n]
    <3>1. h[q] = h[m] \o pieces[q] /\ h[m] \in E /\ pieces[q] \in E
      BY <1>1, <1>7, <1>8, <2>1
    <3>2. \A i \in 1 .. to : h[q][i] = IF i <= from THEN h[m][i] ELSE pieces[q][i - from]
      BY <1>2, <2>2, <3>1
    <3>3. CASE k = q
      <4>1. n \in 1 .. l /\ f[k - 1] = from
        BY <2>1, <3>3
      <4> HIDE DEF from, to, l
      <4>2. from + n \in 1 .. to /\ ~ (from + n <= from) /\ (from + n) - from = n /\ from + n <= to
        BY <2>2, <4>1
      <4>3. QED
        BY <3>2, <3>3, <4>1, <4>2
    <3>4. CASE k \in 1 .. m
      <4> DEFINE g == f[k - 1] + n
      <4>1. g <= from /\ h[m][g] = pieces[k][n]
        BY <1>15, <3>4
      <4>2. k \in 1 .. N /\ f[k - 1] \in Nat /\ n \in Nat /\ 1 <= n
        BY <1>1, <1>11, <1>12, <3>4
      <4>3. g \in Nat /\ 1 <= g
        BY <4>2
      <4> HIDE DEF from, to, l, g
      <4>4. g \in 1 .. to
        BY <2>2, <4>1, <4>3
      <4>5. h[q][g] = pieces[k][n] /\ g <= to
        BY <2>2, <3>2, <4>1, <4>3, <4>4
      <4>6. QED
        BY <4>5 DEF g
    <3>5. QED
      BY <2>1, <3>3, <3>4
  <2>5. q \in J
    BY <2>1, <2>3, <2>4
  <2>6. QED
    BY <2>5 DEF q
<1>16. N \in J
  <2> HIDE DEF J
  <2>1. \A m \in 0 .. N : m \in J
    BY <1>1, <1>14, <1>15, UpTo
  <2>2. QED
    BY <1>1, <2>1
<1>17. h[N] \in Seq(D) /\ Len(h[N]) = f[N]
  BY <1>1, <1>7, <1>13 DEF E
<1>18. Flat(D, pieces, f)
  BY <1>9, <1>10, <1>11, <1>16, <1>17 DEF Flat, N
<1>19. QED
  BY <1>18

------------------------------------------------------------------------------
(* Tokens as they are spelled.                                                 *)

Kinds == {"ident", "number", "float", "hex", "string", "comment", "dot", "colon", "lparen", "rparen", "eof"}
Tokens == [kind : Kinds, text : Text, line : Nat]

(* In cs, digits from i on end before a, a fraction before f and an exponent    *)
(* before e.                                                                   *)
NumberAt(cs, i, a, f, e) ==
  /\ a \in i + 1 .. e /\ f \in a .. e /\ \A k \in i .. a - 1 : cs[k] \in Digit
  /\ f # a => f > a + 1 /\ cs[a] = "." /\ \A k \in a + 1 .. f - 1 : cs[k] \in Digit
  /\ e # f =>
       /\ cs[f] = "e"
       /\ \/ e > f + 1 /\ \A k \in f + 1 .. e - 1 : cs[k] \in Digit
          \/ e > f + 2 /\ cs[f + 1] \in Signs /\ \A k \in f + 2 .. e - 1 : cs[k] \in Digit

(* The parentheses around w are each other's.                                   *)
Parenthesized(w) == <<"(">> \o w \o <<")">>
Matched(w) ==
  /\ \A m \in 1 .. Len(w) + 1 : Depths(Parenthesized(w))[m] > 0
  /\ Depths(Parenthesized(w))[Len(w) + 2] = 0

(* The text of a token is one the tokenizer can have read.                      *)
Well(t) ==
  /\ t.kind = "ident" =>
       t.text # <<>> /\ t.text[1] \in Letter /\ \A k \in 1 .. Len(t.text) : t.text[k] \in InWord
  /\ t.kind = "hex" =>
       t.text # <<>> /\ \A k \in 1 .. Len(t.text) : t.text[k] \in HexDigit
  /\ t.kind \in {"number", "float"} =>
       \E a, f \in 1 .. Len(t.text) + 1 :
         NumberAt(t.text, 1, a, f, Len(t.text) + 1) /\ (t.kind = "float" <=> a # Len(t.text) + 1)
  /\ t.kind = "comment" => Matched(t.text) /\ Tight(t.text)
  /\ t.kind \in DOMAIN Single => t.text = <<Single[t.kind]>>
  /\ t.kind = "eof" => t.text = <<>>

(* The text w stands in cs at p.                                               *)
Holds(cs, p, w) ==
  p + Len(w) <= Len(cs) + 1 /\ \A k \in 1 .. Len(w) : cs[p + k - 1] = w[k]

State == [at : Nat, line : Nat, toks : Seq(Tokens), over : BOOLEAN]

(* What each character is the start of.                                        *)
LEMMA ScanBranches ==
  ASSUME NEW cs, NEW s \in State, ~ s.over, NEW c, c = CharAt(cs, s.at)
  PROVE  /\ c = "end" => Scan(cs, s) = Finish(s)
         /\ c \in Blanks \cup {","} => Scan(cs, s) = SkipBlank(cs, s)
         /\ c = "(" /\ Boundary(s.toks) => Scan(cs, s) = TakeComment(cs, s)
         /\ c \in {".", ")", ":"} \/ (c = "(" /\ ~ Boundary(s.toks)) => Scan(cs, s) = TakeSingle(cs, s)
         /\ c = "quote" => Scan(cs, s) = TakeString(cs, s)
         /\ c \in Digit => Scan(cs, s) = TakeNumber(cs, s)
         /\ c \in Letter => Scan(cs, s) = TakeWord(cs, s)
         /\ c \notin {"end", ",", "(", ".", ")", ":", "quote"} \cup Blanks \cup Digit \cup Letter =>
              Scan(cs, s) = Throw(s)
<1> DEFINE b == Boundary(s.toks)
           fin == Finish(s)
           skip == SkipBlank(cs, s)
           com == TakeComment(cs, s)
           sin == TakeSingle(cs, s)
           str == TakeString(cs, s)
           num == TakeNumber(cs, s)
           wor == TakeWord(cs, s)
           thr == Throw(s)
<1>1. Scan(cs, s) =
        CASE s.over                        -> s
          [] ~ s.over /\ c = "end"         -> fin
          [] ~ s.over /\ c \in Blanks \cup {","} -> skip
          [] ~ s.over /\ c = "(" /\ b -> com
          [] ~ s.over /\ (c \in {".", ")", ":"} \/ (c = "(" /\ ~ b)) -> sin
          [] ~ s.over /\ c = "quote"       -> str
          [] ~ s.over /\ c \in Digit       -> num
          [] ~ s.over /\ c \in Letter      -> wor
          [] OTHER                         -> thr
  BY DEF Scan
<1>2. b \in BOOLEAN
  BY DEF Boundary
<1> HIDE DEF b, fin, skip, com, sin, str, num, wor, thr
<1>3. c = "end" => Scan(cs, s) = fin
  BY <1>1 DEF Blanks, Digit, Letter
<1>4. c \in Blanks \cup {","} => Scan(cs, s) = skip
  BY <1>1 DEF Blanks, Digit, Letter
<1>5. c = "(" /\ b => Scan(cs, s) = com
  BY <1>1, <1>2 DEF Blanks, Digit, Letter
<1>6. c \in {".", ")", ":"} \/ (c = "(" /\ ~ b) => Scan(cs, s) = sin
  BY <1>1, <1>2 DEF Blanks, Digit, Letter
<1>7. c = "quote" => Scan(cs, s) = str
  BY <1>1, <1>2 DEF Blanks, Digit, Letter
<1>8. c \in Digit => Scan(cs, s) = num
  BY <1>1, <1>2 DEF Blanks, Digit, Letter
<1>9. c \in Letter => Scan(cs, s) = wor
  BY <1>1, <1>2 DEF Blanks, Digit, Letter
<1>10. c \notin {"end", ",", "(", ".", ")", ":", "quote"} \cup Blanks \cup Digit \cup Letter => Scan(cs, s) = thr
  BY <1>1, <1>2
<1>11. QED
  BY <1>3, <1>4, <1>5, <1>6, <1>7, <1>8, <1>9, <1>10 DEF b, fin, skip, com, sin, str, num, wor, thr

(* A text that stands in another counts there as it does alone.                 *)
LEMMA HeldBalance ==
  ASSUME NEW cs \in Text, NEW w \in Text, NEW p \in Nat, 1 <= p, Holds(cs, p, w), NEW S, NEW T,
         NEW m \in 0 .. Len(w)
  PROVE  /\ Balance(cs, S, T)[p - 1 + m] - Balance(cs, S, T)[p - 1] = Balance(w, S, T)[m]
         /\ Balance(cs, S, T)[p - 1 + m] \in Int /\ Balance(cs, S, T)[p - 1] \in Int
<1> DEFINE i == p - 1
           o == 0
           N == Len(w)
<1>1. N \in Nat /\ Len(cs) \in Nat /\ i \in Nat /\ i + N <= Len(cs)
  BY Elements DEF Holds
<1>2. \A k \in 1 .. N : cs[i + k] = w[o + k] /\ i + k = p + k - 1
  <2>1. TAKE k \in 1 .. N
  <2>2. i + k = p + k - 1 /\ o + k = k
    BY <1>1
  <2>3. QED
    BY <2>2 DEF Holds
<1>3. o \in Nat /\ o + N <= Len(w) /\ \A k \in 0 .. N : o + k = k
  BY <1>1
<1>4. /\ Balance(w, S, T)[o] = 0 /\ Balance(w, S, T)[m] \in Int
      /\ Balance(cs, S, T)[i + m] \in Int /\ Balance(cs, S, T)[i] \in Int
  <2>1. i + m \in 0 .. Len(cs) /\ i \in 0 .. Len(cs) /\ m \in 0 .. Len(w)
    BY <1>1
  <2>2. QED
    BY <2>1, BalanceFacts
<1>5. i + m = p - 1 + m
  BY <1>1
<1> HIDE DEF i, o
<1>6. Same(cs, i, w, o, N)
  BY <1>1, <1>2, <1>3 DEF Same
<1>7. \A k \in 0 .. N : Balance(cs, S, T)[i + k] - Balance(cs, S, T)[i]
                         = Balance(w, S, T)[o + k] - Balance(w, S, T)[o]
  BY <1>6, BalanceWindow
<1>8. Balance(cs, S, T)[i + m] - Balance(cs, S, T)[i] = Balance(w, S, T)[m]
  BY <1>3, <1>4, <1>7
<1>9. QED
  BY <1>4, <1>5, <1>8 DEF i

(* A text has its newlines wherever it stands.                                 *)
LEMMA HeldLines ==
  ASSUME NEW cs \in Text, NEW w \in Text, NEW p \in Nat, 1 <= p, Holds(cs, p, w)
  PROVE  Newlines(cs, p, p + Len(w)) = LineAfter(w) - 1
<1> DEFINE n == Len(w)
<1>1. n \in Nat /\ n \in 0 .. Len(w)
  BY Elements
<1>2. Lines(cs)[p - 1 + n] - Lines(cs)[p - 1] = Lines(w)[n]
  BY <1>1, HeldBalance DEF Lines
<1>3. Lines(w)[n] \in Int
  BY <1>1, BalanceFacts DEF Lines
<1>4. p + n - 1 = p - 1 + n
  BY <1>1
<1>5. Newlines(cs, p, p + n) = Lines(w)[n]
  BY <1>2, <1>4 DEF Newlines
<1>6. QED
  BY <1>3, <1>5 DEF LineAfter

(* What is read as a word, and what a word is read as.                          *)
LEMMA WordTaken ==
  ASSUME NEW cs \in Text, NEW i \in 1 .. Len(cs), cs[i] \in Letter, NEW n,
         NEW j, j = After(cs, i, InWord), NEW t, t = Token("ident", SubSeq(cs, i, j - 1), n)
  PROVE  j \in i + 1 .. Len(cs) + 1 /\ t.text \in Text /\ Well(t) /\ Holds(cs, i, SpelledOut(t)) /\ Len(SpelledOut(t)) = j - i
<1>1. Len(cs) \in Nat /\ "end" \notin InWord /\ \A k \in 1 .. Len(cs) : CharAt(cs, k) = cs[k]
  BY Elements DEF InWord, Letter, Digit
<1>2. j \in i .. Len(cs) + 1 /\ CharAt(cs, j) \notin InWord /\ \A k \in i .. j - 1 : cs[k] \in InWord
  BY <1>1, AfterFacts
<1>3. j # i
  BY <1>1, <1>2 DEF InWord
<1> DEFINE w == SubSeq(cs, i, j - 1)
<1>4. /\ w \in Text /\ Len(w) = j - i /\ j - i \in Nat /\ j - i >= 1
      /\ \A k \in 1 .. j - i : w[k] = cs[i + k - 1] /\ i + k - 1 \in i .. j - 1
  <2>1. /\ i \in 1 .. Len(cs) + 1 /\ j - 1 \in i - 1 .. Len(cs) /\ (j - 1) - i + 1 = j - i /\ j - i \in Nat /\ j - i >= 1
        /\ \A k \in 1 .. j - i : i + k - 1 \in i .. j - 1
    BY <1>1, <1>2, <1>3, SMTT(30)
  <2>2. QED
    BY <2>1, PartFacts
<1>5. t.kind = "ident" /\ t.text = w
  BY DEF Token
<1>6. SpelledOut(t) = w
  BY <1>5 DEF SpelledOut
<1> HIDE DEF w
<1>7. w # <<>> /\ w[1] \in Letter /\ \A k \in 1 .. Len(w) : w[k] \in InWord
  <2>1. w # <<>>
    BY <1>4
  <2>2. w[1] = cs[i]
    <3>1. i + 1 - 1 = i /\ 1 \in 1 .. j - i
      BY <1>4
    <3>2. QED
      BY <1>4, <3>1
  <2>3. QED
    BY <1>2, <1>4, <2>1, <2>2
<1>8. Holds(cs, i, w)
  BY <1>1, <1>2, <1>4, SMTT(30) DEF Holds
<1>9. QED
  BY <1>1, <1>2, <1>3, <1>4, <1>5, <1>6, <1>7, <1>8 DEF Well, Single

(* A word that is spelled out and apart is read as that word.                   *)
LEMMA WordRead ==
  ASSUME NEW cs \in Text, NEW i \in Nat, 1 <= i, NEW t \in Tokens, t.kind = "ident", Well(t),
         Holds(cs, i, t.text), CharAt(cs, i + Len(t.text)) \in Blanks
  PROVE  /\ t.text # <<>> /\ CharAt(cs, i) \in Letter
         /\ After(cs, i, InWord) = i + Len(t.text)
<1> DEFINE w == t.text
           n == Len(w)
           j == i + n
<1>1. w \in Text /\ w # <<>> /\ w[1] \in Letter /\ \A k \in 1 .. n : w[k] \in InWord
  BY DEF Well, Tokens
<1>2. n \in Nat \ {0} /\ Len(cs) \in Nat
  BY <1>1, EmptySeq, Elements DEF Text
<1>3. j \in i .. Len(cs) + 1 /\ \A k \in 1 .. n : cs[i + k - 1] = w[k]
  BY <1>2 DEF Holds
<1>4. CharAt(cs, j) \notin InWord
  BY DEF Blanks, InWord, Letter, Digit
<1>5. ASSUME NEW k \in i .. j - 1 PROVE CharAt(cs, k) = w[k - i + 1] /\ k - i + 1 \in 1 .. n
  <2>1. k - i + 1 \in 1 .. n /\ i + (k - i + 1) - 1 = k /\ k <= Len(cs)
    BY <1>2, <1>3
  <2>2. QED
    BY <1>3, <2>1 DEF CharAt
<1>6. i \in i .. j - 1 /\ i - i + 1 = 1
  BY <1>2
<1> HIDE DEF w, n, j
<1>7. \A k \in i .. j - 1 : CharAt(cs, k) \in InWord
  BY <1>1, <1>5
<1>8. After(cs, i, InWord) = j
  BY <1>3, <1>4, <1>7, AfterIs
<1>9. CharAt(cs, i) \in Letter
  BY <1>1, <1>5, <1>6
<1>10. QED
  BY <1>1, <1>8, <1>9 DEF w, j, n

(* What is read as a hexadecimal number.                                       *)
LEMMA HexTaken ==
  ASSUME NEW cs \in Text, NEW i \in 1 .. Len(cs), Hexadecimal(cs, i), NEW n,
         NEW j, j = After(cs, i + 2, HexDigit), NEW t, t = Token("hex", SubSeq(cs, i + 2, j - 1), n)
  PROVE  j \in i + 1 .. Len(cs) + 1 /\ t.text \in Text /\ Well(t) /\ Holds(cs, i, SpelledOut(t)) /\ Len(SpelledOut(t)) = j - i
<1>1. Len(cs) \in Nat /\ "end" \notin HexDigit /\ \A k \in 1 .. Len(cs) : CharAt(cs, k) = cs[k]
  BY Elements DEF HexDigit, Digit
<1>2. i + 2 <= Len(cs) /\ cs[i] = "0" /\ cs[i + 1] = "x" /\ cs[i + 2] \in HexDigit
  <2>1. CharAt(cs, i + 2) # "end"
    BY <1>1 DEF Hexadecimal
  <2>2. i + 2 <= Len(cs)
    BY <1>1, <2>1 DEF CharAt
  <2>3. CharAt(cs, i + 1) = cs[i + 1] /\ CharAt(cs, i + 2) = cs[i + 2]
    BY <1>1, <2>2
  <2>4. QED
    BY <2>2, <2>3 DEF Hexadecimal
<1>3. i + 2 \in 1 .. Len(cs) + 1 /\ i + 2 \in 1 .. Len(cs)
  BY <1>1, <1>2
<1>4. j \in i + 2 .. Len(cs) + 1 /\ CharAt(cs, j) \notin HexDigit /\ \A k \in i + 2 .. j - 1 : cs[k] \in HexDigit
  BY <1>1, <1>3, AfterFacts
<1>5. j # i + 2
  BY <1>1, <1>2, <1>3, <1>4
<1> DEFINE w == SubSeq(cs, i + 2, j - 1)
           N == j - (i + 2)
<1>6. /\ w \in Text /\ Len(w) = N /\ N \in Nat /\ N >= 1
      /\ \A k \in 1 .. N : w[k] = cs[(i + 2) + k - 1] /\ (i + 2) + k - 1 \in i + 2 .. j - 1
  <2>1. /\ i + 2 \in 1 .. Len(cs) + 1 /\ j - 1 \in (i + 2) - 1 .. Len(cs) /\ (j - 1) - (i + 2) + 1 = N /\ N \in Nat /\ N >= 1
        /\ \A k \in 1 .. N : (i + 2) + k - 1 \in i + 2 .. j - 1
    BY <1>1, <1>3, <1>4, <1>5
  <2>2. QED
    BY <2>1, PartFacts
<1>7. t.kind = "hex" /\ t.text = w
  BY DEF Token
<1> HIDE DEF w
<1>8. <<"0", "x">> \in Text
  BY Spelling, ShortText
<1> DEFINE v == <<"0", "x">> \o w
<1>9. SpelledOut(t) = v
  BY <1>7 DEF SpelledOut
<1>10. /\ v \in Text /\ Len(v) = N + 2 /\ v[1] = "0" /\ v[2] = "x"
       /\ \A k \in 1 .. N + 2 : k > 2 => v[k] = w[k - 2]
  <2>1. Len(<<"0", "x">>) = 2 /\ <<"0", "x">>[1] = "0" /\ <<"0", "x">>[2] = "x"
    OBVIOUS
  <2>2. /\ v \in Text /\ Len(v) = 2 + N
        /\ \A k \in 1 .. 2 + N : v[k] = IF k <= 2 THEN <<"0", "x">>[k] ELSE w[k - 2]
    BY <1>6, <1>8, <2>1, ConcatProperties DEF Text
  <2>3. 1 \in 1 .. 2 + N /\ 2 \in 1 .. 2 + N /\ 2 + N = N + 2
    BY <1>6
  <2>4. QED
    BY <1>6, <2>1, <2>2, <2>3
<1>11. \A k \in 1 .. N + 2 : cs[i + k - 1] = v[k]
  <2>1. TAKE k \in 1 .. N + 2
  <2>2. CASE k = 1
    BY <1>2, <1>10, <2>2
  <2>3. CASE k = 2
    <3>1. i + k - 1 = i + 1
      BY <2>3
    <3>2. QED
      BY <1>2, <1>10, <2>3, <3>1
  <2>4. CASE k > 2
    <3>1. k - 2 \in 1 .. N /\ (i + 2) + (k - 2) - 1 = i + k - 1
      BY <1>6, <2>4
    <3>2. w[k - 2] = cs[i + k - 1]
      BY <1>6, <3>1
    <3>3. QED
      BY <1>10, <2>4, <3>2
  <2>5. QED
    BY <1>6, <2>2, <2>3, <2>4
<1>12. Len(v) = j - i /\ i + Len(v) <= Len(cs) + 1 /\ j \in i + 1 .. Len(cs) + 1
  BY <1>1, <1>4, <1>10
<1>13. Holds(cs, i, v)
  BY <1>10, <1>11, <1>12 DEF Holds
<1>14. w # <<>> /\ \A k \in 1 .. Len(w) : w[k] \in HexDigit
  BY <1>4, <1>6
<1>15. Well(t)
  BY <1>7, <1>14 DEF Well, Single
<1> HIDE DEF v
<1>16. QED
  BY <1>6, <1>7, <1>9, <1>12, <1>13, <1>15

(* A hexadecimal number that is spelled out and apart is read as that number.    *)
LEMMA HexRead ==
  ASSUME NEW cs \in Text, NEW i \in Nat, 1 <= i, NEW t \in Tokens, t.kind = "hex", Well(t),
         Holds(cs, i, SpelledOut(t)), CharAt(cs, i + Len(SpelledOut(t))) \in Blanks
  PROVE  /\ SpelledOut(t) \in Text /\ Len(SpelledOut(t)) = Len(t.text) + 2 /\ cs[i] = "0" /\ CharAt(cs, i) = "0" /\ Hexadecimal(cs, i)
         /\ After(cs, i + 2, HexDigit) = i + Len(SpelledOut(t))
         /\ SubSeq(cs, i + 2, i + Len(SpelledOut(t)) - 1) = t.text
<1> DEFINE w == t.text
           n == Len(w)
           v == <<"0", "x">> \o w
           j == i + Len(v)
<1>1. w \in Text /\ w # <<>> /\ \A k \in 1 .. n : w[k] \in HexDigit
  BY DEF Well, Tokens
<1>2. n \in Nat /\ n # 0 /\ Len(cs) \in Nat
  BY <1>1, EmptySeq, Elements DEF Text
<1>3. SpelledOut(t) = v
  BY DEF SpelledOut
<1>4. <<"0", "x">> \in Text
  BY Spelling, ShortText
<1>5. /\ v \in Text /\ Len(v) = n + 2 /\ v[1] = "0" /\ v[2] = "x"
      /\ \A k \in 1 .. n : v[k + 2] = w[k]
  <2>1. Len(<<"0", "x">>) = 2 /\ <<"0", "x">>[1] = "0" /\ <<"0", "x">>[2] = "x"
    OBVIOUS
  <2>2. /\ v \in Text /\ Len(v) = 2 + n
        /\ \A k \in 1 .. 2 + n : v[k] = IF k <= 2 THEN <<"0", "x">>[k] ELSE w[k - 2]
    BY <1>1, <1>4, <2>1, ConcatProperties DEF Text
  <2>3. /\ 1 \in 1 .. 2 + n /\ 2 \in 1 .. 2 + n /\ 2 + n = n + 2
        /\ \A k \in 1 .. n : k + 2 \in 1 .. 2 + n /\ ~ (k + 2 <= 2) /\ (k + 2) - 2 = k
    BY <1>2
  <2>4. QED
    BY <2>1, <2>2, <2>3
<1> HIDE DEF v, w, n
<1>6. j = i + (n + 2) /\ j <= Len(cs) + 1 /\ \A k \in 1 .. n + 2 : cs[i + k - 1] = v[k]
  BY <1>2, <1>3, <1>5 DEF Holds
<1>7. cs[i] = "0" /\ cs[i + 1] = "x" /\ \A k \in 1 .. n : cs[(i + 2) + k - 1] = w[k]
  <2>1. 1 \in 1 .. n + 2 /\ 2 \in 1 .. n + 2 /\ i + 1 - 1 = i /\ i + 2 - 1 = i + 1
    BY <1>2
  <2>2. ASSUME NEW k \in 1 .. n PROVE cs[(i + 2) + k - 1] = w[k]
    <3>1. k + 2 \in 1 .. n + 2 /\ i + (k + 2) - 1 = (i + 2) + k - 1
      BY <1>2
    <3>2. cs[i + (k + 2) - 1] = v[k + 2]
      BY <1>6, <3>1
    <3>3. QED
      BY <1>5, <3>1, <3>2
  <2>3. QED
    BY <1>5, <1>6, <2>1, <2>2
<1>8. /\ i + 2 \in Nat /\ 1 <= i + 2 /\ j \in i + 2 .. Len(cs) + 1
      /\ \A k \in i + 2 .. j - 1 : k - (i + 2) + 1 \in 1 .. n /\ (i + 2) + (k - (i + 2) + 1) - 1 = k /\ k <= Len(cs)
      /\ i + 2 \in i + 2 .. j - 1 /\ i + 1 <= Len(cs) /\ i <= Len(cs) /\ j - 1 = (i + 2) + n - 1
  BY <1>2, <1>6
<1>9. \A k \in i + 2 .. j - 1 : CharAt(cs, k) \in HexDigit
  <2>1. TAKE k \in i + 2 .. j - 1
  <2>2. CharAt(cs, k) = cs[k]
    BY <1>8 DEF CharAt
  <2>3. cs[k] = w[k - (i + 2) + 1]
    BY <1>7, <1>8
  <2>4. QED
    BY <1>1, <1>8, <2>2, <2>3 DEF w, n
<1>10. CharAt(cs, j) \notin HexDigit
  BY <1>3 DEF Blanks, HexDigit, Digit
<1> HIDE DEF j
<1>11. After(cs, i + 2, HexDigit) = j
  BY <1>8, <1>9, <1>10, AfterIs
<1>12. CharAt(cs, i) = cs[i] /\ CharAt(cs, i + 1) = cs[i + 1]
  BY <1>8 DEF CharAt
<1>13. Hexadecimal(cs, i)
  BY <1>7, <1>8, <1>9, <1>12 DEF Hexadecimal
<1>14. SubSeq(cs, i + 2, j - 1) = w
  <2>1. i + 2 \in 1 .. Len(cs) + 1 /\ j - 1 \in (i + 2) - 1 .. Len(cs) /\ (j - 1) - (i + 2) + 1 = n
    BY <1>2, <1>8
  <2>2. /\ SubSeq(cs, i + 2, j - 1) \in Text /\ Len(SubSeq(cs, i + 2, j - 1)) = n
        /\ \A k \in 1 .. n : SubSeq(cs, i + 2, j - 1)[k] = cs[(i + 2) + k - 1]
    BY <2>1, PartFacts
  <2>3. w \in Text /\ Len(w) = n
    BY <1>1 DEF n
  <2>4. QED
    BY <1>7, <2>2, <2>3, SameText
<1>15. QED
  BY <1>3, <1>5, <1>7, <1>11, <1>12, <1>13, <1>14 DEF w, n, j

(* A number has its parts wherever it stands.                                   *)
LEMMA NumberHeld ==
  ASSUME NEW cs \in Text, NEW w \in Text, NEW p \in Nat, 1 <= p, Holds(cs, p, w),
         NEW a \in Nat, NEW f \in Nat, NEW e, e = Len(w) + 1
  PROVE  NumberAt(w, 1, a, f, e) <=> NumberAt(cs, p, a + p - 1, f + p - 1, e + p - 1)
<1> DEFINE d == p - 1
<1>1. Len(w) \in Nat /\ e \in Nat /\ d \in Nat /\ e = Len(w) + 1
  BY Elements
<1>2. \A k \in 1 .. e - 1 : cs[d + k] = w[k] /\ d + k = p + k - 1
  BY <1>1 DEF Holds
<1>3. a + p - 1 = d + a /\ f + p - 1 = d + f /\ e + p - 1 = d + e /\ p = d + 1
  BY <1>1
<1> HIDE DEF d
<1>4. /\ a \in 1 + 1 .. e <=> d + a \in p + 1 .. d + e
      /\ f \in a .. e <=> d + f \in d + a .. d + e
      /\ f # a <=> d + f # d + a
      /\ e # f <=> d + e # d + f
      /\ f > a + 1 <=> d + f > (d + a) + 1
      /\ e > f + 1 <=> d + e > (d + f) + 1
      /\ e > f + 2 <=> d + e > (d + f) + 2
  BY <1>1, <1>3
<1>5. ASSUME NEW x \in Nat, NEW y \in Nat, 1 <= x, y <= e, NEW S
      PROVE  (\A k \in x .. y - 1 : w[k] \in S) <=> (\A k \in d + x .. (d + y) - 1 : cs[k] \in S)
  <2>1. ASSUME \A k \in x .. y - 1 : w[k] \in S, NEW k \in d + x .. (d + y) - 1 PROVE cs[k] \in S
    <3>1. k - d \in x .. y - 1 /\ k - d \in 1 .. e - 1 /\ d + (k - d) = k
      BY <1>1, <1>5
    <3>2. QED
      BY <1>2, <2>1, <3>1
  <2>2. ASSUME \A k \in d + x .. (d + y) - 1 : cs[k] \in S, NEW k \in x .. y - 1 PROVE w[k] \in S
    <3>1. d + k \in d + x .. (d + y) - 1 /\ k \in 1 .. e - 1
      BY <1>1, <1>5
    <3>2. QED
      BY <1>2, <2>2, <3>1
  <2>3. QED
    BY <2>1, <2>2
<1>6. ASSUME a \in 1 + 1 .. e, f \in a .. e
      PROVE  NumberAt(w, 1, a, f, e) <=> NumberAt(cs, p, d + a, d + f, d + e)
  <2>1. /\ a \in Nat /\ f \in Nat /\ e \in Nat /\ a + 1 \in Nat /\ f + 1 \in Nat /\ f + 2 \in Nat
        /\ 1 <= a + 1 /\ 1 <= f + 1 /\ 1 <= f + 2 /\ a <= e /\ f <= e /\ e <= e
        /\ d + (a + 1) = (d + a) + 1 /\ d + (f + 1) = (d + f) + 1 /\ d + (f + 2) = (d + f) + 2
    BY <1>1, <1>6
  <2>2. (\A k \in 1 .. a - 1 : w[k] \in Digit) <=> (\A k \in p .. (d + a) - 1 : cs[k] \in Digit)
    <3>1. 1 \in Nat /\ 1 <= 1
      OBVIOUS
    <3>2. (\A k \in 1 .. a - 1 : w[k] \in Digit) <=> (\A k \in d + 1 .. (d + a) - 1 : cs[k] \in Digit)
      BY <1>5, <2>1, <3>1
    <3>3. QED
      BY <1>3, <3>2
  <2>3. (\A k \in a + 1 .. f - 1 : w[k] \in Digit) <=> (\A k \in (d + a) + 1 .. (d + f) - 1 : cs[k] \in Digit)
    BY <1>5, <2>1
  <2>4. (\A k \in f + 1 .. e - 1 : w[k] \in Digit) <=> (\A k \in (d + f) + 1 .. (d + e) - 1 : cs[k] \in Digit)
    BY <1>5, <2>1
  <2>5. (\A k \in f + 2 .. e - 1 : w[k] \in Digit) <=> (\A k \in (d + f) + 2 .. (d + e) - 1 : cs[k] \in Digit)
    BY <1>5, <2>1
  <2>6. f > a + 1 => cs[d + a] = w[a]
    BY <1>1, <1>2, <1>6
  <2>7. e # f => cs[d + f] = w[f]
    BY <1>1, <1>2, <1>6
  <2>8. e > f + 2 => cs[(d + f) + 1] = w[f + 1]
    <3>1. e > f + 2 => f + 1 \in 1 .. e - 1 /\ d + (f + 1) = (d + f) + 1
      BY <1>1, <1>6
    <3>2. QED
      BY <1>2, <3>1
  <2>9. QED
    BY <1>4, <1>6, <2>2, <2>3, <2>4, <2>5, <2>6, <2>7, <2>8, Zenon DEF NumberAt
<1>7. NumberAt(w, 1, a, f, e) => a \in 1 + 1 .. e /\ f \in a .. e
  BY DEF NumberAt
<1>8. NumberAt(cs, p, d + a, d + f, d + e) => a \in 1 + 1 .. e /\ f \in a .. e
  BY <1>4 DEF NumberAt
<1>9. QED
  BY <1>3, <1>6, <1>7, <1>8

(* Where a number ends.                                                        *)
LEMMA NumberEnds ==
  ASSUME NEW cs \in Text, NEW i \in 1 .. Len(cs), cs[i] \in Digit,
         NEW a, a = After(cs, i, Digit), NEW f, f = FractionEnd(cs, a), NEW e, e = ExponentEnd(cs, f)
  PROVE  a \in Nat /\ f \in Nat /\ e \in i + 1 .. Len(cs) + 1 /\ NumberAt(cs, i, a, f, e)
<1> DEFINE N == Len(cs)
<1>1. N \in Nat /\ "end" \notin Digit /\ "end" \notin Signs /\ \A k \in 1 .. N : CharAt(cs, k) = cs[k]
  BY Elements DEF Digit, Signs
<1>2. \A k \in Nat : CharAt(cs, k) # "end" => k <= N
  BY DEF CharAt
<1>3. a \in i .. N + 1 /\ CharAt(cs, a) \notin Digit /\ \A k \in i .. a - 1 : cs[k] \in Digit
  BY <1>1, AfterFacts, SMTT(30)
<1>4. a # i
  BY <1>1, <1>3
<1>5. ASSUME NEW k \in Nat, k \in 1 .. N + 1, CharAt(cs, k) \in Digit, NEW j, j = After(cs, k, Digit)
      PROVE  j \in k + 1 .. N + 1 /\ \A n \in k .. j - 1 : cs[n] \in Digit
  <2>1. j \in k .. N + 1 /\ CharAt(cs, j) \notin Digit /\ \A n \in k .. j - 1 : cs[n] \in Digit
    BY <1>1, <1>5, AfterFacts
  <2>2. QED
    BY <1>1, <1>5, <2>1
<1>6. /\ f \in a .. N + 1
      /\ f # a => f > a + 1 /\ cs[a] = "." /\ \A k \in a + 1 .. f - 1 : cs[k] \in Digit
  <2>1. CASE CharAt(cs, a) = "." /\ CharAt(cs, a + 1) \in Digit
    <3>1. a + 1 \in Nat /\ a + 1 <= N /\ a \in 1 .. N /\ a + 1 \in 1 .. N + 1
      BY <1>1, <1>2, <1>3, <2>1
    <3>2. f = After(cs, a + 1, Digit)
      BY <2>1 DEF FractionEnd
    <3>3. f \in (a + 1) + 1 .. N + 1 /\ \A n \in a + 1 .. f - 1 : cs[n] \in Digit
      BY <1>5, <2>1, <3>1, <3>2
    <3>4. QED
      BY <1>1, <2>1, <3>1, <3>3
  <2>2. CASE ~ (CharAt(cs, a) = "." /\ CharAt(cs, a + 1) \in Digit)
    <3>1. f = a
      BY <2>2 DEF FractionEnd
    <3>2. QED
      BY <1>1, <1>3, <3>1
  <2>3. QED
    BY <2>1, <2>2
<1>7. /\ e \in f .. N + 1
      /\ e # f =>
           /\ cs[f] = "e"
           /\ \/ e > f + 1 /\ \A k \in f + 1 .. e - 1 : cs[k] \in Digit
              \/ e > f + 2 /\ cs[f + 1] \in Signs /\ \A k \in f + 2 .. e - 1 : cs[k] \in Digit
  <2>0. f \in 1 .. N + 1
    BY <1>1, <1>3, <1>6
  <2>1. CASE CharAt(cs, f) = "e" /\ CharAt(cs, f + 1) \in Signs /\ CharAt(cs, f + 2) \in Digit
    <3>1. f + 2 \in Nat /\ f + 2 <= N /\ f \in 1 .. N /\ f + 1 \in 1 .. N /\ f + 2 \in 1 .. N + 1
      BY <1>1, <1>2, <2>0, <2>1
    <3>2. e = After(cs, f + 2, Digit)
      BY <2>1 DEF ExponentEnd
    <3>3. e \in (f + 2) + 1 .. N + 1 /\ \A n \in f + 2 .. e - 1 : cs[n] \in Digit
      BY <1>5, <2>1, <3>1, <3>2
    <3>4. cs[f] = "e" /\ cs[f + 1] \in Signs
      BY <1>1, <2>1, <3>1
    <3>5. e \in f .. N + 1 /\ e > f + 2
      BY <1>1, <2>0, <3>3
    <3>6. QED
      BY <3>3, <3>4, <3>5
  <2>2. CASE /\ CharAt(cs, f) = "e" /\ ~ (CharAt(cs, f + 1) \in Signs /\ CharAt(cs, f + 2) \in Digit)
             /\ CharAt(cs, f + 1) \in Digit
    <3>1. f + 1 \in Nat /\ f + 1 <= N /\ f \in 1 .. N /\ f + 1 \in 1 .. N + 1
      BY <1>1, <1>2, <2>0, <2>2
    <3>2. e = After(cs, f + 1, Digit)
      BY <2>2 DEF ExponentEnd
    <3>3. e \in (f + 1) + 1 .. N + 1 /\ \A n \in f + 1 .. e - 1 : cs[n] \in Digit
      BY <1>5, <2>2, <3>1, <3>2
    <3>4. cs[f] = "e"
      BY <1>1, <2>2, <3>1
    <3>5. e \in f .. N + 1 /\ e > f + 1
      BY <1>1, <2>0, <3>3
    <3>6. QED
      BY <3>3, <3>4, <3>5
  <2>3. CASE \/ CharAt(cs, f) # "e"
             \/ /\ ~ (CharAt(cs, f + 1) \in Signs /\ CharAt(cs, f + 2) \in Digit)
                /\ CharAt(cs, f + 1) \notin Digit
    <3>1. e = f
      BY <2>3 DEF ExponentEnd
    <3>2. QED
      BY <1>1, <2>0, <3>1
  <2>4. QED
    BY <2>1, <2>2, <2>3
<1>8. a \in i + 1 .. e /\ f \in a .. e /\ e \in i + 1 .. N + 1 /\ a \in Nat /\ f \in Nat
  BY <1>1, <1>3, <1>4, <1>6, <1>7
<1>9. NumberAt(cs, i, a, f, e)
  BY <1>3, <1>6, <1>7, <1>8 DEF NumberAt
<1>10. QED
  BY <1>8, <1>9

(* What is read as a number that is not hexadecimal.                            *)
LEMMA NumberTaken ==
  ASSUME NEW cs \in Text, NEW i \in 1 .. Len(cs), cs[i] \in Digit, NEW n,
         NEW a, a = After(cs, i, Digit), NEW j, j = ExponentEnd(cs, FractionEnd(cs, a)),
         NEW t, t = Token(IF j > a THEN "float" ELSE "number", SubSeq(cs, i, j - 1), n)
  PROVE  j \in i + 1 .. Len(cs) + 1 /\ t.text \in Text /\ Well(t) /\ Holds(cs, i, SpelledOut(t)) /\ Len(SpelledOut(t)) = j - i
<1> DEFINE f == FractionEnd(cs, a)
<1>1. a \in Nat /\ f \in Nat /\ j \in i + 1 .. Len(cs) + 1 /\ NumberAt(cs, i, a, f, j)
  BY NumberEnds
<1> HIDE DEF f
<1> DEFINE w == SubSeq(cs, i, j - 1)
<1>2. Len(cs) \in Nat
  BY Elements
<1>3. /\ w \in Text /\ Len(w) = j - i /\ j - i \in Nat /\ j - i >= 1
      /\ \A k \in 1 .. j - i : w[k] = cs[i + k - 1]
  <2>1. i \in 1 .. Len(cs) + 1 /\ j - 1 \in i - 1 .. Len(cs) /\ (j - 1) - i + 1 = j - i /\ j - i \in Nat /\ j - i >= 1
    BY <1>1, <1>2
  <2>2. QED
    BY <2>1, PartFacts
<1>4. t.kind = (IF j > a THEN "float" ELSE "number") /\ t.text = w
  BY DEF Token
<1>5. SpelledOut(t) = w
  BY <1>4 DEF SpelledOut
<1> HIDE DEF w
<1>6. Holds(cs, i, w)
  BY <1>1, <1>2, <1>3, SMTT(30) DEF Holds
<1>7. a \in i + 1 .. j /\ f \in a .. j
  BY <1>1 DEF NumberAt
<1> DEFINE a1 == a - i + 1
           f1 == f - i + 1
           e1 == Len(w) + 1
<1>8. /\ a1 \in Nat /\ f1 \in Nat /\ a1 \in 1 .. e1 /\ f1 \in 1 .. e1 /\ e1 = j - i + 1
      /\ a1 + i - 1 = a /\ f1 + i - 1 = f /\ e1 + i - 1 = j /\ (j > a <=> a1 # e1) /\ i \in Nat /\ 1 <= i
  <2>1. e1 = (j - i) + 1
    BY <1>3
  <2> HIDE DEF e1
  <2>2. i \in Nat /\ 1 <= i /\ j \in Nat /\ a \in Nat /\ f \in Nat /\ i + 1 <= a /\ a <= j /\ a <= f /\ f <= j
    BY <1>1, <1>2, <1>7
  <2>3. a1 \in Nat /\ f1 \in Nat /\ a1 \in 1 .. e1 /\ f1 \in 1 .. e1
    BY <2>1, <2>2, SMTT(30)
  <2>4. a1 + i - 1 = a /\ f1 + i - 1 = f /\ e1 + i - 1 = j
    BY <2>1, <2>2, SMTT(30)
  <2>5. j > a => a1 # e1
    BY <2>1, <2>2
  <2>6. a1 # e1 => j > a
    BY <2>1, <2>2
  <2>7. QED
    BY <2>1, <2>2, <2>3, <2>4, <2>5, <2>6
<1> HIDE DEF a1, f1, e1
<1>9. NumberAt(w, 1, a1, f1, e1)
  <2>1. e1 = Len(w) + 1
    BY DEF e1
  <2>2. NumberAt(w, 1, a1, f1, e1) <=> NumberAt(cs, i, a1 + i - 1, f1 + i - 1, e1 + i - 1)
    BY <1>3, <1>6, <1>8, <2>1, NumberHeld
  <2>3. QED
    BY <1>1, <1>8, <2>2
<1>10. (t.kind = "float" <=> a1 # e1) /\ t.kind \in {"number", "float"}
  BY <1>4, <1>8
<1>11. Well(t)
  BY <1>4, <1>8, <1>9, <1>10 DEF Well, Single, e1
<1>12. QED
  BY <1>1, <1>3, <1>4, <1>5, <1>6, <1>11

(* A number that is spelled out and apart is read as that number.               *)
LEMMA NumberRead ==
  ASSUME NEW cs \in Text, NEW i \in Nat, 1 <= i, NEW t \in Tokens, t.kind \in {"number", "float"}, Well(t),
         Holds(cs, i, t.text), CharAt(cs, i + Len(t.text)) \in Blanks,
         NEW a, a = After(cs, i, Digit), NEW j, j = ExponentEnd(cs, FractionEnd(cs, a))
  PROVE  /\ CharAt(cs, i) \in Digit /\ ~ Hexadecimal(cs, i) /\ j = i + Len(t.text)
         /\ t.kind = IF j > a THEN "float" ELSE "number"
<1> DEFINE w == t.text
           e1 == Len(w) + 1
           e == e1 + i - 1
<1>1. w \in Text /\ Len(w) \in Nat /\ Len(cs) \in Nat
  BY Elements DEF Tokens
<1>2. PICK a1 \in 1 .. e1, f1 \in 1 .. e1 :
        NumberAt(w, 1, a1, f1, e1) /\ (t.kind = "float" <=> a1 # e1)
  BY DEF Well
<1> DEFINE a0 == a1 + i - 1
           f0 == f1 + i - 1
<1>0. Holds(cs, i, w) /\ e1 \in Nat /\ e1 = Len(w) + 1
  BY <1>1
<1> HIDE DEF e1, w
<1>3. NumberAt(cs, i, a0, f0, e)
  <2>1. a1 \in Nat /\ f1 \in Nat
    BY <1>0
  <2>2. QED
    BY <1>0, <1>1, <1>2, <2>1, NumberHeld
<1>4. e = i + Len(w) /\ e <= Len(cs) + 1 /\ e \in Nat /\ (a1 # e1 <=> a0 # e) /\ a0 \in Nat /\ f0 \in Nat
  <2>1. i + Len(w) <= Len(cs) + 1
    BY <1>0 DEF Holds
  <2>2. e = i + Len(w) /\ e <= Len(cs) + 1 /\ e \in Nat
    BY <1>0, <1>1, <2>1
  <2>3. a1 # e1 => a0 # e
    BY <1>0
  <2>4. a0 # e => a1 # e1
    BY <1>0
  <2>5. a0 \in Nat /\ f0 \in Nat
    BY <1>0
  <2>6. QED
    BY <2>2, <2>3, <2>4, <2>5
<1> HIDE DEF e, a0, f0
<1>5. /\ a0 \in i + 1 .. e /\ f0 \in a0 .. e /\ \A k \in i .. a0 - 1 : cs[k] \in Digit
      /\ f0 # a0 => f0 > a0 + 1 /\ cs[a0] = "." /\ \A k \in a0 + 1 .. f0 - 1 : cs[k] \in Digit
      /\ e # f0 =>
           /\ cs[f0] = "e"
           /\ \/ e > f0 + 1 /\ \A k \in f0 + 1 .. e - 1 : cs[k] \in Digit
              \/ e > f0 + 2 /\ cs[f0 + 1] \in Signs /\ \A k \in f0 + 2 .. e - 1 : cs[k] \in Digit
  BY <1>3 DEF NumberAt
<1>6. CharAt(cs, e) \in Blanks
  BY <1>4 DEF w
<1>7. \A k \in Nat : k <= Len(cs) => CharAt(cs, k) = cs[k]
  BY DEF CharAt
<1>8. \A k \in Nat : k < e => CharAt(cs, k) = cs[k]
  BY <1>1, <1>4, <1>7
<1>9. /\ \A c \in Digit : c \notin Blanks /\ c \notin Signs /\ c # "e" /\ c # "." /\ c # "x"
      /\ \A c \in Blanks : c \notin Signs /\ c # "e" /\ c # "." /\ c # "x"
      /\ \A c \in Signs : c # "e" /\ c # "."
      /\ "e" \notin Digit /\ "." \notin Digit
  BY DEF Digit, Blanks, Signs
<1>10. ASSUME NEW x \in Nat, NEW y \in Nat, 1 <= x, x <= y, y <= e, \A k \in x .. y - 1 : cs[k] \in Digit,
              CharAt(cs, y) \notin Digit
       PROVE  After(cs, x, Digit) = y
  <2>1. \A k \in x .. y - 1 : CharAt(cs, k) \in Digit
    BY <1>4, <1>8, <1>10
  <2>2. y \in x .. Len(cs) + 1
    BY <1>1, <1>4, <1>10
  <2>3. QED
    BY <1>10, <2>1, <2>2, AfterIs
<1>11. /\ f0 # a0 => CharAt(cs, a0) = "." /\ CharAt(cs, a0 + 1) \in Digit
       /\ f0 = a0 /\ e # f0 => CharAt(cs, a0) = "e"
       /\ f0 = a0 /\ e = f0 => CharAt(cs, a0) \in Blanks
  <2>1. f0 # a0 => a0 < e /\ a0 + 1 < e /\ a0 + 1 \in a0 + 1 .. f0 - 1 /\ a0 + 1 \in Nat
    BY <1>4, <1>5
  <2>2. f0 = a0 /\ e # f0 => a0 < e
    BY <1>4, <1>5
  <2>3. QED
    BY <1>4, <1>5, <1>6, <1>8, <2>1, <2>2
<1>12. a = a0
  <2>1. CharAt(cs, a0) \notin Digit
    BY <1>9, <1>11
  <2>2. i <= a0 /\ a0 <= e
    BY <1>4, <1>5
  <2>3. QED
    BY <1>4, <1>5, <1>10, <2>1, <2>2
<1>13. /\ e # f0 => CharAt(cs, f0) = "e"
       /\ e = f0 => CharAt(cs, f0) \in Blanks
  BY <1>4, <1>5, <1>6, <1>8
<1>14. FractionEnd(cs, a0) = f0
  <2>1. CASE f0 # a0
    <3>1. CharAt(cs, f0) \notin Digit
      BY <1>9, <1>13
    <3>2. a0 + 1 \in Nat /\ 1 <= a0 + 1 /\ a0 + 1 <= f0 /\ f0 <= e
      BY <1>4, <1>5, <2>1
    <3>3. After(cs, a0 + 1, Digit) = f0
      BY <1>4, <1>5, <1>10, <2>1, <3>1, <3>2
    <3>4. QED
      BY <1>11, <2>1, <3>3 DEF FractionEnd
  <2>2. CASE f0 = a0
    BY <1>9, <1>11, <2>2 DEF FractionEnd
  <2>3. QED
    BY <2>1, <2>2
<1>15. ExponentEnd(cs, f0) = e
  <2>1. CASE e = f0
    BY <1>9, <1>13, <2>1 DEF ExponentEnd
  <2>2. CASE e # f0 /\ e > f0 + 1 /\ \A k \in f0 + 1 .. e - 1 : cs[k] \in Digit
    <3>1. f0 + 1 \in Nat /\ 1 <= f0 + 1 /\ f0 + 1 <= e /\ e <= e /\ f0 + 1 \in f0 + 1 .. e - 1 /\ f0 + 1 < e
      BY <1>4, <1>5, <2>2
    <3>2. CharAt(cs, f0 + 1) \in Digit
      BY <1>8, <2>2, <3>1
    <3>3. CharAt(cs, e) \notin Digit
      BY <1>6, <1>9
    <3>4. After(cs, f0 + 1, Digit) = e
      BY <1>4, <1>10, <2>2, <3>1, <3>3
    <3>5. QED
      BY <1>9, <1>13, <2>2, <3>2, <3>4 DEF ExponentEnd
  <2>3. CASE e # f0 /\ e > f0 + 2 /\ cs[f0 + 1] \in Signs /\ \A k \in f0 + 2 .. e - 1 : cs[k] \in Digit
    <3>1. /\ f0 + 2 \in Nat /\ 1 <= f0 + 2 /\ f0 + 2 <= e /\ e <= e /\ f0 + 2 \in f0 + 2 .. e - 1 /\ f0 + 2 < e
          /\ f0 + 1 \in Nat /\ f0 + 1 < e
      BY <1>4, <1>5, <2>3
    <3>2. CharAt(cs, f0 + 1) \in Signs /\ CharAt(cs, f0 + 2) \in Digit
      BY <1>8, <2>3, <3>1
    <3>3. CharAt(cs, e) \notin Digit
      BY <1>6, <1>9
    <3>4. After(cs, f0 + 2, Digit) = e
      BY <1>4, <1>10, <2>3, <3>1, <3>3
    <3>5. QED
      BY <1>9, <1>13, <2>3, <3>2, <3>4 DEF ExponentEnd
  <2>4. QED
    BY <1>5, <2>1, <2>2, <2>3
<1>16. j = e
  BY <1>12, <1>14, <1>15
<1>17. CharAt(cs, i) \in Digit /\ ~ Hexadecimal(cs, i)
  <2>1. i \in i .. a0 - 1 /\ i < e
    BY <1>4, <1>5
  <2>2. CharAt(cs, i) \in Digit
    BY <1>5, <1>8, <2>1
  <2>3. CharAt(cs, i + 1) # "x"
    <3>1. CASE i + 1 < a0
      <4>1. i + 1 \in i .. a0 - 1 /\ i + 1 \in Nat /\ i + 1 < e
        BY <1>4, <1>5, <3>1
      <4>2. CharAt(cs, i + 1) \in Digit
        BY <1>5, <1>8, <4>1
      <4>3. QED
        BY <1>9, <4>2
    <3>2. CASE ~ (i + 1 < a0)
      <4>1. i + 1 = a0
        BY <1>4, <1>5, <3>2
      <4>2. QED
        BY <1>9, <1>11, <4>1
    <3>3. QED
      BY <3>1, <3>2
  <2>4. QED
    BY <2>2, <2>3 DEF Hexadecimal
<1>18. t.kind = IF j > a THEN "float" ELSE "number"
  BY <1>2, <1>4, <1>5, <1>12, <1>16
<1>19. QED
  BY <1>4, <1>16, <1>17, <1>18 DEF w

------------------------------------------------------------------------------
(* Strings.                                                                    *)

(* One element more of a sequence.                                             *)
LEMMA PrefixFacts ==
  ASSUME NEW D, NEW s \in Seq(D), NEW k \in 0 .. Len(s)
  PROVE  /\ SubSeq(s, 1, k) \in Seq(D) /\ Len(SubSeq(s, 1, k)) = k
         /\ \A n \in 1 .. k : SubSeq(s, 1, k)[n] = s[n]
         /\ k < Len(s) => SubSeq(s, 1, k + 1) = Append(SubSeq(s, 1, k), s[k + 1])
<1>1. Len(s) \in Nat /\ \A n \in 1 .. Len(s) : s[n] \in D
  OBVIOUS
<1>2. ASSUME NEW m \in 0 .. Len(s)
      PROVE  /\ SubSeq(s, 1, m) \in Seq(D) /\ Len(SubSeq(s, 1, m)) = m
             /\ \A n \in 1 .. m : SubSeq(s, 1, m)[n] = s[n]
  <2>1. /\ 1 \in Int /\ m \in Int /\ (\A n \in 1 .. m : s[n] \in D) /\ m - 1 + 1 = m /\ (1 <= m \/ m = 0)
        /\ \A n \in 1 .. m : 1 + n - 1 = n
    BY <1>1
  <2>2. /\ SubSeq(s, 1, m) \in Seq(D)
        /\ Len(SubSeq(s, 1, m)) = IF 1 <= m THEN m - 1 + 1 ELSE 0
        /\ \A n \in 1 .. m - 1 + 1 : SubSeq(s, 1, m)[n] = s[1 + n - 1]
    BY <2>1, SubSeqProperties
  <2>3. QED
    BY <2>1, <2>2
<1>3. ASSUME k < Len(s) PROVE SubSeq(s, 1, k + 1) = Append(SubSeq(s, 1, k), s[k + 1])
  <2> DEFINE a == SubSeq(s, 1, k)
             b == SubSeq(s, 1, k + 1)
             c == Append(a, s[k + 1])
  <2>1. k + 1 \in 0 .. Len(s) /\ s[k + 1] \in D /\ k \in Nat
    BY <1>1, <1>3
  <2>2. a \in Seq(D) /\ Len(a) = k /\ \A n \in 1 .. k : a[n] = s[n]
    BY <1>2
  <2>3. b \in Seq(D) /\ Len(b) = k + 1 /\ \A n \in 1 .. k + 1 : b[n] = s[n]
    BY <1>2, <2>1
  <2> HIDE DEF a, b
  <2>4. c \in Seq(D) /\ Len(c) = k + 1 /\ c[k + 1] = s[k + 1] /\ \A n \in 1 .. k : c[n] = a[n]
    BY <2>1, <2>2
  <2>5. \A n \in 1 .. k + 1 : n \in 1 .. k \/ n = k + 1
    BY <2>1
  <2>6. \A n \in 1 .. Len(b) : b[n] = c[n]
    BY <2>2, <2>3, <2>4, <2>5
  <2> HIDE DEF c
  <2>7. b = c
    BY <2>3, <2>4, <2>6, SeqEqual
  <2>8. QED
    BY <2>7 DEF a, b, c
<1>4. QED
  BY <1>2, <1>3

(* Every place of a sequence of sequences is in one of them.                    *)
LEMMA FlatOnto ==
  ASSUME NEW D, NEW pieces \in Seq(Seq(D)), NEW f, Flat(D, pieces, f), NEW x \in 1 .. f[Len(pieces)]
  PROVE  \E k \in 1 .. Len(pieces) : \E n \in 1 .. Len(pieces[k]) : x = f[k - 1] + n
<1> DEFINE N == Len(pieces)
           S == {k \in 0 .. N : x <= f[k]}
<1>1. N \in Nat /\ \A k \in 1 .. N : Len(pieces[k]) \in Nat
  OBVIOUS
<1>2. f \in [0 .. N -> Nat] /\ f[0] = 0 /\ \A k \in 1 .. N : f[k] = f[k - 1] + Len(pieces[k])
  BY DEF Flat
<1> HIDE DEF N
<1>3. N \in 0 .. N /\ f[N] \in Nat /\ x \in 1 .. f[N]
  BY <1>1, <1>2 DEF N
<1>4. S \in SUBSET Nat /\ S # {}
  BY <1>1, <1>3
<1>5. PICK k \in S : \A m \in S : k <= m
  BY <1>4, Least
<1>6. k \in 0 .. N /\ x <= f[k] /\ x \in Nat /\ 1 <= x
  BY <1>3, <1>5
<1>7. k # 0
  BY <1>2, <1>6
<1>8. k \in 1 .. N /\ k - 1 \in 0 .. N /\ ~ (k <= k - 1)
  BY <1>1, <1>6, <1>7
<1>9. k - 1 \notin S
  BY <1>5, <1>8
<1>10. ~ (x <= f[k - 1]) /\ f[k - 1] \in Nat /\ f[k] \in Nat
  BY <1>2, <1>6, <1>8, <1>9
<1> DEFINE y == f[k - 1]
           z == f[k]
           l == Len(pieces[k])
           n == x - y
<1>11. z = y + l /\ l \in Nat /\ y \in Nat /\ x <= z /\ ~ (x <= y) /\ x \in Nat
  BY <1>1, <1>2, <1>6, <1>8, <1>10
<1> HIDE DEF y, z, l
<1>12. n \in 1 .. l /\ x = y + n
  BY <1>11
<1>13. QED
  BY <1>8, <1>12 DEF N, y, l

(* What an escape looks like.                                                  *)
LEMMA EscapedFacts ==
  ASSUME NEW c \in Characters
  PROVE  /\ Escaped(c) \in Text
         /\ c \in {"nl", "quote", "back"} =>
              /\ Escaped(c) = <<"back", IF c = "nl" THEN "n" ELSE c>> /\ Len(Escaped(c)) = 2
              /\ Unescaped(IF c = "nl" THEN "n" ELSE c) = c
         /\ c \notin {"nl", "quote", "back"} => Escaped(c) = <<c>> /\ Len(Escaped(c)) = 1
         /\ \A n \in 1 .. Len(Escaped(c)) : Escaped(c)[n] # "nl"
<1>1. ASSUME NEW d \in Characters, d # "nl"
      PROVE  <<"back", d>> \in Text /\ Len(<<"back", d>>) = 2 /\ \A n \in 1 .. 2 : <<"back", d>>[n] # "nl"
  <2>1. <<"back", d>> \in Text
    BY <1>1, Spelling, ShortText
  <2>2. \A n \in 1 .. 2 : n = 1 \/ n = 2
    OBVIOUS
  <2>3. QED
    BY <1>1, <2>1, <2>2
<1>2. "n" \in Characters
  BY Spelling
<1>3. CASE c = "nl"
  <2>1. Escaped(c) = <<"back", "n">>
    BY <1>3 DEF Escaped
  <2>2. QED
    BY <1>1, <1>2, <1>3, <2>1 DEF Unescaped
<1>4. CASE c \in {"quote", "back"}
  <2>1. Escaped(c) = <<"back", c>>
    BY <1>4 DEF Escaped
  <2>2. QED
    BY <1>1, <1>4, <2>1 DEF Unescaped
<1>5. CASE c \notin {"nl", "quote", "back"}
  <2>1. Escaped(c) = <<c>>
    BY <1>5 DEF Escaped
  <2>2. <<c>> \in Text /\ Len(<<c>>) = 1 /\ <<c>>[1] = c
    BY ShortText
  <2>3. \A n \in 1 .. 1 : n = 1
    OBVIOUS
  <2>4. QED
    BY <1>5, <2>1, <2>2, <2>3
<1>6. QED
  BY <1>3, <1>4, <1>5

(* A string as it is spelled: f says where each character's spelling ends.       *)
LEMMA StringSpelled ==
  ASSUME NEW t \in Tokens, t.kind = "string"
  PROVE  /\ SpelledOut(t) \in Text
         /\ \A n \in 1 .. Len(SpelledOut(t)) : SpelledOut(t)[n] # "nl"
         /\ \E f :
              /\ f \in [0 .. Len(t.text) -> Nat] /\ f[0] = 0 /\ Len(SpelledOut(t)) = f[Len(t.text)] + 2
              /\ \A k \in 1 .. Len(t.text) :
                   /\ f[k] = f[k - 1] + Len(Escaped(t.text[k]))
                   /\ f[k] <= f[Len(t.text)]
                   /\ \A n \in 1 .. Len(Escaped(t.text[k])) :
                        SpelledOut(t)[f[k - 1] + n + 1] = Escaped(t.text[k])[n]
              /\ SpelledOut(t)[1] = "quote" /\ SpelledOut(t)[f[Len(t.text)] + 2] = "quote"
<1> DEFINE w == t.text
           N == Len(w)
           pieces == [k \in DOMAIN w |-> Escaped(w[k])]
           body == FlattenSeq(pieces)
           q == <<"quote">>
<1>1. w \in Text /\ N \in Nat /\ DOMAIN w = 1 .. N /\ \A k \in 1 .. N : w[k] \in Characters
  BY Elements DEF Tokens
<1>2. pieces \in Seq(Text) /\ Len(pieces) = N /\ \A k \in 1 .. N : pieces[k] = Escaped(w[k]) /\ pieces[k] \in Text
  <2>1. \A k \in 1 .. N : Escaped(w[k]) \in Text
    BY <1>1, EscapedFacts
  <2>2. QED
    BY <1>1, <2>1
<1>3. SpelledOut(t) = (q \o body) \o q
  BY DEF SpelledOut
<1> HIDE DEF pieces, w, N
<1>4. pieces \in Seq(Seq(Characters))
  BY <1>2 DEF Text
<1>5. PICK f : Flat(Characters, pieces, f)
  BY <1>4, FlattenFacts
<1>6. /\ f \in [0 .. N -> Nat] /\ f[0] = 0
      /\ \A k \in 1 .. N : f[k] = f[k - 1] + Len(pieces[k])
      /\ body \in Text /\ Len(body) = f[N]
      /\ \A k \in 1 .. N : \A n \in 1 .. Len(pieces[k]) :
           f[k - 1] + n <= f[N] /\ body[f[k - 1] + n] = pieces[k][n]
      /\ \A k \in 0 .. N : f[k] <= f[N]
  BY <1>2, <1>5 DEF Flat, Text
<1> DEFINE L == f[N]
<1>7. L \in Nat /\ \A k \in 1 .. N : f[k - 1] \in Nat /\ k \in 0 .. N
  BY <1>1, <1>6
<1>8. \A k \in 1 .. L : body[k] # "nl"
  <2>1. TAKE x \in 1 .. L
  <2>2. PICK k \in 1 .. N : \E n \in 1 .. Len(pieces[k]) : x = f[k - 1] + n
    BY <1>2, <1>4, <1>5, FlatOnto, SMTT(30)
  <2>3. PICK n \in 1 .. Len(pieces[k]) : x = f[k - 1] + n
    BY <2>2
  <2>4. body[x] = pieces[k][n]
    BY <1>6, <2>3
  <2>5. pieces[k] = Escaped(w[k]) /\ w[k] \in Characters
    BY <1>1, <1>2
  <2>6. QED
    BY <2>4, <2>5, EscapedFacts
<1> HIDE DEF body
<1>9. q \in Text /\ Len(q) = 1 /\ q[1] = "quote"
  BY Spelling, ShortText
<1> HIDE DEF q
<1>10. /\ q \o body \in Text /\ Len(q \o body) = L + 1 /\ (q \o body)[1] = "quote"
       /\ \A k \in 1 .. L : (q \o body)[k + 1] = body[k]
  <2>1. /\ q \o body \in Text /\ Len(q \o body) = 1 + L
        /\ \A k \in 1 .. 1 + L : (q \o body)[k] = IF k <= 1 THEN q[k] ELSE body[k - 1]
    <3> HIDE DEF L
    <3>1. Len(body) = L /\ body \in Text
      BY <1>6 DEF L
    <3>2. /\ q \o body \in Seq(Characters) /\ Len(q \o body) = Len(q) + Len(body)
          /\ \A k \in 1 .. Len(q) + Len(body) : (q \o body)[k] = IF k <= Len(q) THEN q[k] ELSE body[k - Len(q)]
      BY <1>9, <3>1, ConcatProperties DEF Text
    <3>3. QED
      BY <1>9, <3>1, <3>2 DEF Text
  <2>2. 1 \in 1 .. 1 + L /\ 1 + L = L + 1 /\ \A k \in 1 .. L : k + 1 \in 1 .. 1 + L /\ ~ (k + 1 <= 1) /\ (k + 1) - 1 = k
    BY <1>7
  <2>3. QED
    BY <1>9, <2>1, <2>2
<1> DEFINE v == (q \o body) \o q
<1>11. /\ v \in Text /\ Len(v) = L + 2 /\ v[1] = "quote" /\ v[L + 2] = "quote"
       /\ \A k \in 1 .. L : v[k + 1] = body[k]
  <2> DEFINE u == q \o body
  <2> HIDE DEF u, L
  <2>1. /\ u \o q \in Text /\ Len(u \o q) = (L + 1) + 1
        /\ \A k \in 1 .. (L + 1) + 1 : (u \o q)[k] = IF k <= L + 1 THEN u[k] ELSE q[k - (L + 1)]
    BY <1>9, <1>10, ConcatProperties DEF Text, u
  <2>2. /\ 1 \in 1 .. (L + 1) + 1 /\ (L + 1) + 1 = L + 2 /\ L + 2 \in 1 .. (L + 1) + 1 /\ 1 <= L + 1
        /\ ~ (L + 2 <= L + 1) /\ (L + 2) - (L + 1) = 1
        /\ \A k \in 1 .. L : k + 1 \in 1 .. (L + 1) + 1 /\ k + 1 <= L + 1
    BY <1>7
  <2>3. u[1] = "quote" /\ \A k \in 1 .. L : u[k + 1] = body[k]
    BY <1>10 DEF u
  <2>4. (u \o q)[L + 2] = q[1] /\ (u \o q)[1] = u[1] /\ \A k \in 1 .. L : (u \o q)[k + 1] = u[k + 1]
    BY <2>1, <2>2
  <2>5. QED
    BY <1>9, <2>1, <2>2, <2>3, <2>4 DEF u
<1> HIDE DEF v
<1>12. \A n \in 1 .. Len(v) : v[n] # "nl"
  <2>1. TAKE n \in 1 .. Len(v)
  <2>2. n = 1 \/ n = L + 2 \/ (n - 1 \in 1 .. L /\ (n - 1) + 1 = n)
    BY <1>7, <1>11
  <2> HIDE DEF L
  <2>3. n - 1 \in 1 .. L /\ (n - 1) + 1 = n => v[n] = body[n - 1]
    BY <1>11
  <2>4. QED
    BY <1>8, <1>11, <2>2, <2>3
<1>13. \A k \in 1 .. N :
         /\ f[k] = f[k - 1] + Len(Escaped(w[k])) /\ f[k] <= L
         /\ \A n \in 1 .. Len(Escaped(w[k])) : v[f[k - 1] + n + 1] = Escaped(w[k])[n]
  <2>1. TAKE k \in 1 .. N
  <2>2. pieces[k] = Escaped(w[k]) /\ f[k - 1] \in Nat /\ k \in 0 .. N /\ Len(pieces[k]) \in Nat
    BY <1>2, <1>7, Elements
  <2>3. ASSUME NEW n \in 1 .. Len(pieces[k]) PROVE v[f[k - 1] + n + 1] = pieces[k][n]
    <3> DEFINE x == f[k - 1] + n
    <3>1. x <= L /\ body[x] = pieces[k][n]
      BY <1>6
    <3>2. x \in Nat /\ 1 <= x
      BY <2>2
    <3> HIDE DEF x, L
    <3>3. x \in 1 .. L
      BY <1>7, <3>1, <3>2
    <3>4. v[x + 1] = body[x]
      BY <1>11, <3>3
    <3>5. QED
      BY <3>1, <3>4 DEF x
  <2>4. QED
    BY <1>6, <2>2, <2>3
<1>14. SpelledOut(t) = v
  BY <1>3 DEF v
<1>15. QED
  BY <1>6, <1>11, <1>12, <1>13, <1>14 DEF w, N

(* Reading on keeps to the text.                                               *)
LEMMA ReadOnType ==
  ASSUME NEW cs \in Text, NEW i \in 1 .. Len(cs) + 1, NEW r \in [at : i .. Len(cs) + 1, text : Text]
  PROVE  ReadOn(cs, r) \in [at : i .. Len(cs) + 1, text : Text]
<1> DEFINE c == CharAt(cs, r.at)
<1>1. r.at \in i .. Len(cs) + 1 /\ r.text \in Text /\ Len(cs) \in Nat
  BY Elements
<1>2. CASE c \in {"quote", "end"}
  BY <1>2 DEF ReadOn
<1>3. CASE c \notin {"quote", "end"}
  <2>1. r.at \in 1 .. Len(cs)
    BY <1>1, <1>3 DEF CharAt
  <2>2. cs[r.at] \in Characters
    BY <2>1, Elements
  <2>3. CASE cs[r.at] = "back" /\ r.at < Len(cs)
    <3> DEFINE d == cs[r.at + 1]
    <3>1. r.at + 1 \in 1 .. Len(cs) /\ r.at + 2 \in i .. Len(cs) + 1
      BY <1>1, <2>1, <2>3
    <3>2. d \in Characters
      BY <3>1, Elements
    <3>3. Unescaped(d) \in Characters
      BY <3>2, Spelling DEF Unescaped
    <3>4. ReadOn(cs, r) = [at |-> r.at + 2, text |-> Append(r.text, Unescaped(d))]
      BY <1>3, <2>3 DEF ReadOn
    <3> HIDE DEF d
    <3>5. Append(r.text, Unescaped(d)) \in Text
      BY <1>1, <3>3 DEF Text
    <3>6. QED
      BY <3>1, <3>4, <3>5
  <2>4. CASE ~ (cs[r.at] = "back" /\ r.at < Len(cs))
    <3>1. r.at + 1 \in i .. Len(cs) + 1
      BY <1>1, <2>1
    <3>2. ReadOn(cs, r) = [at |-> r.at + 1, text |-> Append(r.text, cs[r.at])]
      BY <1>3, <2>4 DEF ReadOn
    <3>3. Append(r.text, cs[r.at]) \in Text
      BY <1>1, <2>2 DEF Text
    <3>4. QED
      BY <3>1, <3>2, <3>3
  <2>5. QED
    BY <2>3, <2>4
<1>4. QED
  BY <1>2, <1>3

(* A string is read step by step.                                              *)
LEMMA QuotedSteps ==
  ASSUME NEW cs \in Text, NEW i \in 1 .. Len(cs) + 1
  PROVE  \E f : /\ f[0] = [at |-> i, text |-> <<>>]
                /\ \A k \in 1 .. Len(cs) : f[k] = ReadOn(cs, f[k - 1])
                /\ \A k \in 0 .. Len(cs) : f[k] \in [at : i .. Len(cs) + 1, text : Text]
                /\ ReadQuoted(cs, i) = f[Len(cs)]
<1> DEFINE N == Len(cs)
           D == [at : i .. Len(cs) + 1, text : Text]
           z == [at |-> i, text |-> <<>>]
           step == [p \in (1 .. N) \X D |-> ReadOn(cs, p[2])]
           Reads(f) == f = [n \in 0 .. N |-> IF n = 0 THEN z ELSE ReadOn(cs, f[n - 1])]
           after == CHOOSE f : Reads(f)
<1>1. N \in Nat /\ z \in D
  <2>1. <<>> \in Text /\ i \in i .. Len(cs) + 1
    BY Elements, EmptySeq DEF Text
  <2>2. QED
    BY <2>1, Elements
<1>2. \A r \in D : ReadOn(cs, r) \in D
  BY ReadOnType
<1>3. ReadQuoted(cs, i) = after[N]
  BY DEF ReadQuoted
<1> HIDE DEF D
<1>4. step \in [(1 .. N) \X D -> D]
  BY <1>2
<1>5. \A k \in 1 .. N, r \in D : step[<<k, r>>] = ReadOn(cs, r)
  OBVIOUS
<1> HIDE DEF step, N, z
<1>6. PICK f : Steps(D, z, step, N, f)
  BY <1>1, <1>4, StepsExist, Zenon
<1>7. ASSUME NEW k \in 1 .. N PROVE f[k] = ReadOn(cs, f[k - 1])
  <2>1. k - 1 \in 0 .. N
    BY <1>1
  <2>2. f[k - 1] \in D /\ f[k] = step[<<k, f[k - 1]>>]
    BY <1>6, <2>1 DEF Steps
  <2>3. QED
    BY <1>5, <2>2
<1>8. Reads(f)
  BY <1>1, <1>6, <1>7 DEF Steps
<1>9. Reads(after)
  BY <1>8
<1> HIDE DEF after
<1>10. after[0] = z /\ \A k \in 1 .. N : after[k] = ReadOn(cs, after[k - 1])
  BY <1>1, <1>9
<1>11. \A n \in 0 .. N : after[n] \in D
  <2> DEFINE I == {n \in 0 .. N : after[n] \in D}
  <2>1. 0 \in I
    BY <1>1, <1>10
  <2>2. ASSUME NEW n \in 0 .. N - 1, n \in I PROVE n + 1 \in I
    <3>1. n + 1 \in 1 .. N /\ (n + 1) - 1 = n
      BY <1>1
    <3>2. QED
      BY <1>2, <1>10, <2>2, <3>1
  <2> HIDE DEF I
  <2>3. \A n \in 0 .. N : n \in I
    BY <1>1, <2>1, <2>2, UpTo
  <2>4. QED
    BY <2>3 DEF I
<1>12. QED
  BY <1>3, <1>10, <1>11 DEF N, D, z

(* What is read as a string.                                                   *)
LEMMA StringTaken ==
  ASSUME NEW cs \in Text, NEW i \in 1 .. Len(cs), NEW n \in Nat, NEW q, q = ReadQuoted(cs, i + 1), q.at <= Len(cs),
         NEW t, t = Token("string", q.text, n)
  PROVE  q.at + 1 \in i + 1 .. Len(cs) + 1 /\ t.text \in Text /\ Well(t) /\ LineAfter(SpelledOut(t)) = 1
<1>1. Len(cs) \in Nat /\ i + 1 \in 1 .. Len(cs) + 1 /\ Len(cs) \in 0 .. Len(cs)
  BY Elements
<1>2. q \in [at : i + 1 .. Len(cs) + 1, text : Text]
  BY <1>1, QuotedSteps
<1>3. q.at + 1 \in i + 1 .. Len(cs) + 1
  BY <1>1, <1>2
<1>4. t \in Tokens /\ t.kind = "string" /\ t.text = q.text
  BY <1>2 DEF Token, Tokens, Kinds
<1>5. Well(t)
  BY <1>4 DEF Well, Single
<1> DEFINE v == SpelledOut(t)
<1>6. v \in Text /\ \A k \in 1 .. Len(v) : v[k] # "nl"
  BY <1>4, StringSpelled
<1> HIDE DEF v
<1>7. Len(v) \in Nat /\ 0 \in 0 .. Len(v) /\ Len(v) \in 0 .. Len(v)
  BY <1>6, Elements
<1>8. Lines(v)[Len(v)] = Lines(v)[0] /\ Lines(v)[0] = 0
  <2> DEFINE S == {"nl"}
             T == {}
  <2>1. \A k \in 0 + 1 .. Len(v) : v[k] \notin S \cup T
    BY <1>6
  <2> HIDE DEF S, T
  <2>2. Balance(v, S, T)[Len(v)] = Balance(v, S, T)[0]
    BY <1>6, <1>7, <2>1, BalanceStays
  <2>3. Balance(v, S, T)[0] = 0
    BY <1>6, BalanceFacts
  <2>4. QED
    BY <2>2, <2>3 DEF Lines, S, T
<1>9. QED
  BY <1>2, <1>3, <1>4, <1>5, <1>8 DEF LineAfter, v

(* A string that is spelled out is read as that string.                         *)
LEMMA StringRead ==
  ASSUME NEW cs \in Text, NEW i \in Nat, 1 <= i, NEW t \in Tokens, t.kind = "string",
         Holds(cs, i, SpelledOut(t))
  PROVE  /\ SpelledOut(t) \in Text /\ CharAt(cs, i) = "quote"
         /\ ReadQuoted(cs, i + 1) = [at |-> i + Len(SpelledOut(t)) - 1, text |-> t.text]
         /\ i + Len(SpelledOut(t)) - 1 <= Len(cs)
<1> DEFINE w == t.text
           N == Len(w)
           v == SpelledOut(t)
<1>1. w \in Text /\ N \in Nat /\ Len(cs) \in Nat /\ \A k \in 1 .. N : w[k] \in Characters
  BY Elements DEF Tokens
<1>2. v \in Text /\ Len(v) \in Nat
  BY StringSpelled, Elements
<1>3. PICK f :
        /\ f \in [0 .. N -> Nat] /\ f[0] = 0 /\ Len(v) = f[N] + 2
        /\ \A k \in 1 .. N :
             /\ f[k] = f[k - 1] + Len(Escaped(w[k])) /\ f[k] <= f[N]
             /\ \A n \in 1 .. Len(Escaped(w[k])) : v[f[k - 1] + n + 1] = Escaped(w[k])[n]
        /\ v[1] = "quote" /\ v[f[N] + 2] = "quote"
  BY StringSpelled
<1>4. i + Len(v) <= Len(cs) + 1 /\ \A k \in 1 .. Len(v) : cs[i + k - 1] = v[k]
  BY DEF Holds
<1> HIDE DEF w, N, v
<1> DEFINE L == f[N]
<1>5. L \in Nat /\ Len(v) = L + 2 /\ i + L + 1 <= Len(cs)
  BY <1>1, <1>3, <1>4
<1>6. \A k \in 0 .. N : f[k] \in Nat
  BY <1>3
<1>7. \A k \in 0 .. N : N <= Len(cs) /\ k <= f[k]
  <2> DEFINE I == {k \in 0 .. N : k <= f[k]}
  <2>1. 0 \in I
    BY <1>1, <1>3
  <2>2. ASSUME NEW k \in 0 .. N - 1, k \in I PROVE k + 1 \in I
    <3>1. k + 1 \in 1 .. N /\ (k + 1) - 1 = k /\ w[k + 1] \in Characters
      BY <1>1
    <3> DEFINE l == Len(Escaped(w[k + 1]))
               x == f[k]
               y == f[k + 1]
    <3>2. l \in {1, 2}
      BY <3>1, EscapedFacts
    <3>3. y = x + l /\ x \in Nat /\ k <= x
      BY <1>1, <1>3, <1>6, <2>2, <3>1
    <3> HIDE DEF l, x, y
    <3>4. k + 1 <= y
      BY <3>2, <3>3
    <3>5. QED
      BY <3>1, <3>4 DEF y
  <2> HIDE DEF I
  <2>3. \A k \in 0 .. N : k \in I
    BY <1>1, <2>1, <2>2, UpTo
  <2>4. N <= L
    BY <1>1, <2>3 DEF I
  <2> HIDE DEF L
  <2>5. N <= Len(cs)
    BY <1>1, <1>5, <2>4
  <2>6. QED
    BY <2>3, <2>5 DEF I
<1>8. CharAt(cs, i) = "quote" /\ CharAt(cs, i + L + 1) = "quote"
  <2> HIDE DEF L
  <2>1. v[1] = "quote" /\ v[L + 2] = "quote"
    BY <1>3 DEF L
  <2>2. 1 \in 1 .. Len(v) /\ L + 2 \in 1 .. Len(v) /\ i + 1 - 1 = i /\ i + (L + 2) - 1 = i + L + 1 /\ i <= Len(cs)
    BY <1>5
  <2>3. cs[i] = "quote" /\ cs[i + L + 1] = "quote"
    BY <1>4, <2>1, <2>2
  <2>4. QED
    BY <1>5, <2>2, <2>3 DEF CharAt
<1>9. i + 1 \in 1 .. Len(cs) + 1
  BY <1>1, <1>5
<1>10. PICK g :
         /\ g[0] = [at |-> i + 1, text |-> <<>>]
         /\ \A k \in 1 .. Len(cs) : g[k] = ReadOn(cs, g[k - 1])
         /\ ReadQuoted(cs, i + 1) = g[Len(cs)]
  BY <1>9, QuotedSteps
<1> DEFINE Read(k) == [at |-> i + 1 + f[k], text |-> SubSeq(w, 1, k)]
           J == {k \in 0 .. N : g[k] = Read(k)}
<1>11. 0 \in J
  <2>1. SubSeq(w, 1, 0) = <<>>
    BY SubSeqEmpty
  <2>2. i + 1 + f[0] = i + 1
    BY <1>3
  <2>3. QED
    BY <1>1, <1>10, <2>1, <2>2
<1>12. ASSUME NEW k \in 0 .. N - 1, k \in J PROVE k + 1 \in J
  <2> DEFINE m == k + 1
             c == w[m]
             e == Escaped(c)
             x == f[k]
             y == f[m]
             p == i + 1 + x
             pre == SubSeq(w, 1, k)
  <2>1. m \in 1 .. N /\ m - 1 = k /\ k \in 0 .. N /\ k < N /\ c \in Characters /\ c # "end" /\ m \in 0 .. N
    BY <1>1, NoEnd
  <2>2. SubSeq(w, 1, k + 1) = Append(pre, c)
    BY <1>1, <2>1, PrefixFacts DEF N, Text
  <2>3. g[m] = ReadOn(cs, g[k]) /\ g[k] = [at |-> p, text |-> pre]
    <3>1. m \in 1 .. Len(cs)
      BY <1>1, <1>7, <2>1
    <3>2. QED
      BY <1>10, <1>12, <2>1, <3>1
  <2>4. y = x + Len(e) /\ y <= L /\ x \in Nat /\ \A n \in 1 .. Len(e) : v[x + n + 1] = e[n]
    BY <1>3, <1>6, <2>1
  <2> HIDE DEF m, c, e, x, y, L, pre
  <2>5. ASSUME NEW n \in 1 .. 2, n <= Len(e), Len(e) \in {1, 2}
        PROVE  cs[p + n - 1] = e[n] /\ p + n - 1 < Len(cs) /\ p + n - 1 \in Nat
    <3>1. n \in 1 .. Len(e) /\ x + n + 1 \in 1 .. Len(v) /\ i + (x + n + 1) - 1 = p + n - 1
      BY <1>5, <2>4, <2>5
    <3>2. p + n - 1 < Len(cs) /\ p + n - 1 \in Nat
      BY <1>5, <2>4, <2>5
    <3>3. cs[i + (x + n + 1) - 1] = v[x + n + 1]
      BY <1>4, <3>1
    <3>4. QED
      BY <2>4, <3>1, <3>2, <3>3
  <2>6. p \in Nat /\ p + 1 - 1 = p /\ p + 2 - 1 = p + 1 /\ 1 \in 1 .. 2 /\ 2 \in 1 .. 2
    BY <2>4
  <2>7. CASE c \in {"nl", "quote", "back"}
    <3> DEFINE d == IF c = "nl" THEN "n" ELSE c
    <3>1. e = <<"back", d>> /\ Len(e) = 2 /\ Unescaped(d) = c /\ e[1] = "back" /\ e[2] = d
      BY <2>1, <2>7, EscapedFacts DEF e
    <3>2. cs[p] = "back" /\ cs[p + 1] = d /\ p < Len(cs)
      BY <2>5, <2>6, <3>1
    <3>3. CharAt(cs, p) = "back"
      BY <3>2, <2>6, <1>1 DEF CharAt
    <3> DEFINE r == [at |-> p, text |-> pre]
    <3>4. ReadOn(cs, r) = [at |-> p + 2, text |-> Append(pre, Unescaped(cs[p + 1]))]
      BY <3>2, <3>3 DEF ReadOn
    <3>5. p + 2 = i + 1 + y
      BY <2>4, <3>1
    <3>6. QED
      BY <2>1, <2>2, <2>3, <3>1, <3>2, <3>4, <3>5 DEF m, y
  <2>8. CASE c \notin {"nl", "quote", "back"}
    <3>1. e = <<c>> /\ Len(e) = 1 /\ e[1] = c
      BY <2>1, <2>8, EscapedFacts DEF e
    <3>2. cs[p] = c /\ p < Len(cs)
      BY <2>5, <2>6, <3>1
    <3>3. CharAt(cs, p) = c
      BY <3>2, <2>6, <1>1 DEF CharAt
    <3> DEFINE r == [at |-> p, text |-> pre]
    <3>4. ReadOn(cs, r) = [at |-> p + 1, text |-> Append(pre, c)]
      BY <2>1, <2>8, <3>2, <3>3 DEF ReadOn
    <3>5. p + 1 = i + 1 + y
      BY <2>4, <3>1
    <3>6. QED
      BY <2>1, <2>2, <2>3, <3>4, <3>5 DEF m, y
  <2>9. QED
    BY <2>7, <2>8
<1>13. g[N] = Read(N)
  <2> HIDE DEF J
  <2>1. \A k \in 0 .. N : k \in J
    BY <1>1, <1>11, <1>12, UpTo
  <2>2. QED
    BY <1>1, <2>1 DEF J
<1>14. Read(N) = [at |-> i + L + 1, text |-> w]
  <2>1. SubSeq(w, 1, N) = w
    BY <1>1, SubSeqFull DEF N, Text
  <2>2. i + 1 + L = i + L + 1
    BY <1>5
  <2>3. QED
    BY <2>1, <2>2
<1> HIDE DEF Read, L
<1> DEFINE stop == [at |-> i + L + 1, text |-> w]
           K == {k \in 0 .. Len(cs) - N : g[N + k] = stop}
<1>15. ReadOn(cs, stop) = stop
  BY <1>8 DEF ReadOn
<1> HIDE DEF stop
<1>16. 0 \in K
  BY <1>1, <1>7, <1>13, <1>14 DEF stop
<1>17. ASSUME NEW k \in 0 .. (Len(cs) - N) - 1, k \in K PROVE k + 1 \in K
  <2>1. N + (k + 1) \in 1 .. Len(cs) /\ (N + (k + 1)) - 1 = N + k /\ k + 1 \in 0 .. Len(cs) - N
    BY <1>1, <1>7
  <2>2. g[N + (k + 1)] = ReadOn(cs, g[N + k])
    BY <1>10, <2>1
  <2>3. QED
    BY <1>15, <1>17, <2>1, <2>2
<1>18. g[Len(cs)] = stop
  <2> HIDE DEF K
  <2>1. Len(cs) - N \in Nat /\ N + (Len(cs) - N) = Len(cs)
    BY <1>1, <1>7
  <2>2. \A k \in 0 .. Len(cs) - N : k \in K
    BY <1>16, <1>17, <2>1, UpTo
  <2>3. Len(cs) - N \in K
    BY <2>1, <2>2
  <2>4. QED
    BY <2>1, <2>3 DEF K
<1>19. i + Len(v) - 1 = i + L + 1
  BY <1>5
<1>20. QED
  BY <1>2, <1>5, <1>8, <1>10, <1>18, <1>19 DEF stop, w, v

------------------------------------------------------------------------------
(* Comments.                                                                   *)

(* A text in parentheses.                                                      *)
LEMMA ParenthesizedFacts ==
  ASSUME NEW w \in Text
  PROVE  /\ Parenthesized(w) \in Text /\ Len(Parenthesized(w)) = Len(w) + 2
         /\ Parenthesized(w)[1] = "(" /\ Parenthesized(w)[Len(w) + 2] = ")"
         /\ \A k \in 1 .. Len(w) : Parenthesized(w)[k + 1] = w[k]
<1> DEFINE n == Len(w)
           l == <<"(">>
           r == <<")">>
           u == l \o w
           v == u \o r
<1>1. n \in Nat
  BY Elements
<1>2. l \in Text /\ Len(l) = 1 /\ l[1] = "(" /\ r \in Text /\ Len(r) = 1 /\ r[1] = ")"
  BY Spelling, ShortText
<1>3. Parenthesized(w) = v
  BY DEF Parenthesized
<1>4. /\ l \o w \in Text /\ Len(l \o w) = Len(l) + Len(w)
      /\ \A k \in 1 .. Len(l) + Len(w) : (l \o w)[k] = IF k <= Len(l) THEN l[k] ELSE w[k - Len(l)]
  <2> HIDE DEF l
  <2>1. QED
    BY <1>2, ConcatProperties DEF Text
<1>5. u \in Text /\ Len(u) = 1 + n /\ \A k \in 1 .. 1 + n : u[k] = IF k <= 1 THEN l[k] ELSE w[k - 1]
  BY <1>2, <1>4
<1> HIDE DEF u, l, r, n
<1>6. /\ u \o r \in Text /\ Len(u \o r) = Len(u) + Len(r)
      /\ \A k \in 1 .. Len(u) + Len(r) : (u \o r)[k] = IF k <= Len(u) THEN u[k] ELSE r[k - Len(u)]
  BY <1>2, <1>5, ConcatProperties DEF Text
<1>7. /\ v \in Text /\ Len(v) = n + 2
      /\ \A k \in 1 .. n + 2 : v[k] = IF k <= n + 1 THEN u[k] ELSE r[k - (n + 1)]
  <2>1. Len(u) = n + 1 /\ Len(u) + Len(r) = n + 2
    BY <1>1, <1>2, <1>5
  <2>2. QED
    BY <1>6, <2>1
<1> HIDE DEF v
<1>8. v[1] = "("
  <2>1. 1 \in 1 .. n + 2 /\ 1 <= n + 1 /\ 1 \in 1 .. 1 + n /\ 1 <= 1
    BY <1>1
  <2>2. QED
    BY <1>2, <1>5, <1>7, <2>1
<1>9. v[n + 2] = ")"
  <2>1. n + 2 \in 1 .. n + 2 /\ ~ (n + 2 <= n + 1) /\ (n + 2) - (n + 1) = 1
    BY <1>1
  <2>2. QED
    BY <1>2, <1>7, <2>1
<1>10. \A k \in 1 .. n : v[k + 1] = w[k]
  <2>1. TAKE k \in 1 .. n
  <2>2. k + 1 \in 1 .. n + 2 /\ k + 1 <= n + 1 /\ k + 1 \in 1 .. 1 + n /\ ~ (k + 1 <= 1) /\ (k + 1) - 1 = k
    BY <1>1
  <2>3. QED
    BY <1>5, <1>7, <2>2
<1>11. QED
  BY <1>3, <1>7, <1>8, <1>9, <1>10 DEF n

(* How a text counts inside parentheses.                                       *)
LEMMA ParenthesizedBalance ==
  ASSUME NEW w \in Text, NEW cs \in Text, NEW S, NEW T, NEW o \in Nat, o + Len(w) <= Len(cs),
         \A k \in 1 .. Len(w) : cs[o + k] = w[k]
  PROVE  /\ Balance(Parenthesized(w), S, T)[0] = 0
         /\ Balance(Parenthesized(w), S, T)[1] = Weight("(", S, T)
         /\ \A m \in 0 .. Len(w) :
              Balance(Parenthesized(w), S, T)[m + 1]
                = Weight("(", S, T) + (Balance(cs, S, T)[o + m] - Balance(cs, S, T)[o])
         /\ Balance(Parenthesized(w), S, T)[Len(w) + 2]
              = Balance(Parenthesized(w), S, T)[Len(w) + 1] + Weight(")", S, T)
         /\ \A m \in 0 .. Len(w) + 2 : Balance(Parenthesized(w), S, T)[m] \in Int
<1> DEFINE v == Parenthesized(w)
           n == Len(w)
           b == Balance(v, S, T)
           d == Balance(cs, S, T)
           one == 1
<1>1. v \in Text /\ Len(v) = n + 2 /\ v[1] = "(" /\ v[n + 2] = ")" /\ \A k \in 1 .. n : v[k + 1] = w[k]
  BY ParenthesizedFacts
<1>2. n \in Nat /\ Len(cs) \in Nat
  BY Elements
<1> HIDE DEF v
<1>3. b[0] = 0 /\ (\A m \in 0 .. n + 2 : b[m] \in Int) /\ \A m \in 1 .. n + 2 : b[m] = b[m - 1] + Weight(v[m], S, T)
  BY <1>1, BalanceFacts, SMTT(30)
<1>4. \A m \in 0 .. Len(cs) : d[m] \in Int
  BY BalanceFacts
<1>5. \A c : Weight(c, S, T) \in Int
  BY DEF Weight
<1>6. Same(cs, o, v, one, n)
  <2>1. ASSUME NEW k \in 1 .. n PROVE cs[o + k] = v[one + k]
    <3>1. one + k = k + 1
      BY <1>2
    <3>2. QED
      BY <1>1, <3>1
  <2>2. one \in Nat /\ one + n <= n + 2
    BY <1>2
  <2>3. QED
    BY <1>1, <1>2, <2>1, <2>2 DEF Same
<1> HIDE DEF one
<1>7. \A m \in 0 .. n : d[o + m] - d[o] = b[one + m] - b[one]
  BY <1>1, <1>6, BalanceWindow
<1> HIDE DEF b, d, n
<1>8. b[1] = Weight("(", S, T)
  <2>1. 1 \in 1 .. n + 2 /\ 1 - 1 = 0
    BY <1>2
  <2>2. b[1] = b[0] + Weight("(", S, T)
    BY <1>1, <1>3, <2>1
  <2>3. QED
    BY <1>3, <1>5, <2>2
<1>9. b[n + 2] = b[n + 1] + Weight(")", S, T)
  <2>1. n + 2 \in 1 .. n + 2 /\ (n + 2) - 1 = n + 1
    BY <1>2
  <2>2. QED
    BY <1>1, <1>3, <2>1
<1>10. ASSUME NEW m \in 0 .. n PROVE b[m + 1] = Weight("(", S, T) + (d[o + m] - d[o])
  <2>1. one + m = m + 1 /\ one = 1 /\ m + 1 \in 0 .. n + 2 /\ 1 \in 0 .. n + 2 /\ o + m \in 0 .. Len(cs) /\ o \in 0 .. Len(cs)
    BY <1>2 DEF one, n
  <2> DEFINE x == b[m + 1]
             y == d[o + m]
             z == d[o]
             g == Weight("(", S, T)
  <2>2. y - z = x - g
    BY <1>7, <1>8, <2>1
  <2>3. x \in Int /\ y \in Int /\ z \in Int /\ g \in Int
    BY <1>3, <1>4, <1>5, <2>1
  <2> HIDE DEF x, y, z, g
  <2>4. x = g + (y - z)
    BY <2>2, <2>3
  <2>5. QED
    BY <2>4 DEF x, y, z, g
<1>11. QED
  BY <1>3, <1>8, <1>9, <1>10 DEF v, b, d, n

(* What is left of a comment when it is trimmed: where it stands.               *)
LEMMA TrimmedPlace ==
  ASSUME NEW cs \in Text, NEW i \in 1 .. Len(cs), NEW j \in i + 1 .. Len(cs),
         NEW w, w = Trimmed(SubSeq(cs, i + 1, j - 1))
  PROVE  /\ w \in Text /\ Tight(w)
         /\ \E o \in i .. j - 1 :
              /\ o + Len(w) \in i .. j - 1
              /\ \A k \in 1 .. Len(w) : cs[o + k] = w[k]
              /\ \A k \in i + 1 .. o : cs[k] \in Blanks
              /\ \A k \in o + Len(w) + 1 .. j - 1 : cs[k] \in Blanks
<1> DEFINE u == SubSeq(cs, i + 1, j - 1)
           N == j - i - 1
<1>1. Len(cs) \in Nat
  BY Elements
<1>2. N \in Nat /\ i \in Nat /\ j \in Nat /\ i < j /\ j <= Len(cs) /\ j - 1 = i + N
  BY <1>1
<1>3. u \in Text /\ Len(u) = N /\ \A k \in 1 .. N : u[k] = cs[i + k]
  <2>1. /\ i + 1 \in 1 .. Len(cs) + 1 /\ j - 1 \in (i + 1) - 1 .. Len(cs) /\ (j - 1) - (i + 1) + 1 = N
        /\ \A k \in 1 .. N : (i + 1) + k - 1 = i + k
    BY <1>2
  <2>2. QED
    BY <2>1, PartFacts
<1> HIDE DEF u, N
<1>4. w \in Text /\ Tight(w)
  BY <1>3, TightTrimmed DEF u
<1>5. CASE w = <<>> /\ \A k \in 1 .. N : u[k] \in Blanks
  <2>1. Len(w) = 0
    BY <1>5
  <2>2. \A k \in i + 1 .. j - 1 : k - i \in 1 .. N /\ i + (k - i) = k
    BY <1>2
  <2>3. \A k \in i + 1 .. j - 1 : cs[k] \in Blanks
    BY <1>3, <1>5, <2>2
  <2> DEFINE o == j - 1
  <2>4. o \in i .. j - 1 /\ o + Len(w) \in i .. j - 1
    BY <1>2, <2>1
  <2>5. \A k \in o + Len(w) + 1 .. j - 1 : FALSE
    BY <1>2, <2>1
  <2>6. \A k \in 1 .. Len(w) : FALSE
    BY <2>1
  <2>7. QED
    BY <1>4, <2>3, <2>4, <2>5, <2>6
<1>6. CASE \E a \in 1 .. N, b \in 1 .. N :
              /\ a <= b /\ w = SubSeq(u, a, b)
              /\ \A k \in 1 .. a - 1 : u[k] \in Blanks
              /\ \A k \in b + 1 .. N : u[k] \in Blanks
  <2>1. PICK a \in 1 .. N, b \in 1 .. N :
              /\ a <= b /\ w = SubSeq(u, a, b)
              /\ \A k \in 1 .. a - 1 : u[k] \in Blanks
              /\ \A k \in b + 1 .. N : u[k] \in Blanks
    BY <1>6
  <2> DEFINE n == b - a + 1
             o == i + a - 1
  <2>2. n \in Nat /\ a \in Nat /\ b \in Nat /\ 1 <= a /\ b <= N /\ o \in Nat /\ o + n = i + b /\ o \in i .. j - 1 /\ o + n \in i .. j - 1
    BY <1>2, <2>1
  <2>3. Len(w) = n /\ \A k \in 1 .. n : w[k] = u[a + k - 1]
    <3>1. a \in 1 .. Len(u) + 1 /\ b \in a - 1 .. Len(u)
      BY <1>2, <1>3, <2>1
    <3>2. QED
      BY <1>3, <2>1, <3>1, PartFacts, SMTT(30)
  <2>4. \A k \in 1 .. n : cs[o + k] = w[k]
    <3>1. TAKE k \in 1 .. n
    <3>2. a + k - 1 \in 1 .. N /\ i + (a + k - 1) = o + k
      BY <2>1, <2>2, <1>2
    <3>3. QED
      BY <1>3, <2>3, <3>2
  <2>5. \A k \in i + 1 .. o : cs[k] \in Blanks
    <3>1. TAKE k \in i + 1 .. o
    <3>2. k - i \in 1 .. a - 1 /\ k - i \in 1 .. N /\ i + (k - i) = k
      BY <1>2, <2>2, <2>1
    <3>3. QED
      BY <1>3, <2>1, <3>2
  <2>6. \A k \in o + n + 1 .. j - 1 : cs[k] \in Blanks
    <3>1. TAKE k \in o + n + 1 .. j - 1
    <3>2. k - i \in b + 1 .. N /\ k - i \in 1 .. N /\ i + (k - i) = k
      BY <1>2, <2>2, <2>1
    <3>3. QED
      BY <1>3, <2>1, <3>2
  <2> HIDE DEF n, o
  <2>7. QED
    BY <1>4, <2>2, <2>3, <2>4, <2>5, <2>6
<1>7. QED
  BY <1>3, <1>5, <1>6, TrimmedFacts DEF u

(* What is read as a comment.                                                  *)
LEMMA CommentTaken ==
  ASSUME NEW cs \in Text, NEW i \in 1 .. Len(cs), cs[i] = "(", NEW j \in CommentEnds(cs, i), NEW n,
         NEW t, t = Token("comment", Trimmed(SubSeq(cs, i + 1, j - 1)), n)
  PROVE  /\ j + 1 \in i + 1 .. Len(cs) + 1 /\ t.text \in Text /\ Well(t)
         /\ LineAfter(SpelledOut(t)) - 1 <= Newlines(cs, i, j + 1)
<1> DEFINE d == Depths(cs)
           w == t.text
           N == Len(w)
<1>1. Len(cs) \in Nat
  BY Elements
<1>2. j \in i + 1 .. Len(cs) /\ d[j] = d[i - 1] /\ \A k \in i .. j - 1 : d[k] > d[i - 1]
  BY DEF CommentEnds
<1>3. t.kind = "comment" /\ w = Trimmed(SubSeq(cs, i + 1, j - 1))
  BY DEF Token
<1>4. w \in Text /\ Tight(w)
  BY <1>2, <1>3, TrimmedPlace
<1>5. PICK o \in i .. j - 1 :
              /\ o + N \in i .. j - 1
              /\ \A k \in 1 .. N : cs[o + k] = w[k]
              /\ \A k \in i + 1 .. o : cs[k] \in Blanks
              /\ \A k \in o + N + 1 .. j - 1 : cs[k] \in Blanks
  BY <1>2, <1>3, TrimmedPlace
<1> HIDE DEF w
<1>6. N \in Nat /\ o \in Nat /\ i \in Nat /\ j \in Nat /\ 1 <= i /\ i <= o /\ o + N <= j - 1 /\ j <= Len(cs) /\ i < j
  BY <1>1, <1>2, <1>4, <1>5, Elements
<1> HIDE DEF N
<1>7. o + Len(w) <= Len(cs) /\ \A k \in 1 .. Len(w) : cs[o + k] = w[k]
  BY <1>1, <1>5, <1>6 DEF N
<1>8. (\A k \in 0 .. Len(cs) : d[k] \in Int) /\ \A k \in 1 .. Len(cs) : d[k] = d[k - 1] + Weight(cs[k], {"("}, {")"})
  BY BalanceFacts DEF Depths
<1>9. /\ Weight("(", {"("}, {")"}) = 1 /\ Weight(")", {"("}, {")"}) = -1 /\ \A c : Weight(c, {"("}, {")"}) \in {-1, 0, 1}
      /\ \A c : Weight(c, {"("}, {")"}) = -1 => c = ")"
  BY DEF Weight
<1> DEFINE D0 == d[i - 1]
<1>10. D0 \in Int /\ d[i] = D0 + 1 /\ d[j] = D0 /\ \A k \in i .. j - 1 : d[k] > D0 /\ d[k] \in Int
  <2>1. i - 1 \in 0 .. Len(cs) /\ i \in 1 .. Len(cs) /\ \A k \in i .. j - 1 : k \in 0 .. Len(cs)
    BY <1>1, <1>6
  <2>2. QED
    BY <1>2, <1>8, <1>9, <2>1
<1> HIDE DEF d, D0
<1>11. d[o] = D0 + 1
  <2>1. i \in 0 .. Len(cs) /\ o \in i .. Len(cs)
    BY <1>1, <1>6
  <2>2. \A k \in i + 1 .. o : cs[k] \notin {"("} \cup {")"}
    BY <1>5 DEF Blanks
  <2>3. d[o] = d[i]
    BY <2>1, <2>2, BalanceStays DEF d, Depths
  <2>4. QED
    BY <1>10, <2>3
<1>12. d[o + N] = D0 + 1
  <2>1. o + N \in 0 .. Len(cs) /\ j - 1 \in o + N .. Len(cs) /\ j \in 1 .. Len(cs) /\ j - 1 \in i .. j - 1
    BY <1>1, <1>6
  <2>2. \A k \in (o + N) + 1 .. j - 1 : cs[k] \notin {"("} \cup {")"}
    BY <1>5 DEF Blanks
  <2>3. d[j - 1] = d[o + N]
    <3> DEFINE e == o + N
               h == j - 1
    <3>1. e \in 0 .. Len(cs) /\ h \in e .. Len(cs) /\ \A k \in e + 1 .. h : cs[k] \notin {"("} \cup {")"}
      BY <2>1, <2>2
    <3> HIDE DEF e, h
    <3>2. d[h] = d[e]
      BY <3>1, BalanceStays DEF d, Depths
    <3>3. QED
      BY <3>2 DEF e, h
  <2> DEFINE x == d[j - 1]
             g == Weight(cs[j], {"("}, {")"})
  <2>4. D0 = x + g /\ x > D0 /\ x \in Int /\ g \in {-1, 0, 1}
    BY <1>8, <1>9, <1>10, <2>1
  <2> HIDE DEF x, g
  <2>5. x = D0 + 1
    BY <1>10, <2>4
  <2>6. QED
    BY <2>3, <2>5 DEF x
<1> DEFINE b == Depths(Parenthesized(w))
<1>22. ASSUME NEW S, NEW T
       PROVE  /\ Balance(Parenthesized(w), S, T)[1] = Weight("(", S, T)
              /\ \A m \in 0 .. N :
                   Balance(Parenthesized(w), S, T)[m + 1]
                     = Weight("(", S, T) + (Balance(cs, S, T)[o + m] - Balance(cs, S, T)[o])
              /\ Balance(Parenthesized(w), S, T)[N + 2]
                   = Balance(Parenthesized(w), S, T)[N + 1] + Weight(")", S, T)
              /\ \A m \in 0 .. N + 2 : Balance(Parenthesized(w), S, T)[m] \in Int
  BY <1>4, <1>6, <1>7, ParenthesizedBalance DEF N
<1>13. /\ b[1] = 1 /\ (\A m \in 0 .. N : b[m + 1] = 1 + (d[o + m] - d[o])) /\ b[N + 2] = b[N + 1] + -1
       /\ \A m \in 0 .. N + 2 : b[m] \in Int
  BY <1>9, <1>22 DEF Depths, d
<1> HIDE DEF b
<1>14. ASSUME NEW m \in 1 .. N + 1 PROVE b[m] > 0
  <2> DEFINE k == o + (m - 1)
             x == d[k]
             y == b[m]
  <2>1. m - 1 \in 0 .. N /\ (m - 1) + 1 = m /\ k \in i .. j - 1
    BY <1>6
  <2>2. y = 1 + (x - (D0 + 1)) /\ x > D0 /\ x \in Int
    BY <1>10, <1>11, <1>13, <2>1
  <2> HIDE DEF x, y
  <2>3. y > 0
    BY <1>10, <2>2
  <2>4. QED
    BY <2>3 DEF y
<1>15. b[N + 2] = 0
  <2>1. N \in 0 .. N
    BY <1>6
  <2>2. b[N + 1] = 1 + ((D0 + 1) - (D0 + 1))
    BY <1>11, <1>12, <1>13, <2>1
  <2>3. b[N + 1] = 1
    BY <1>10, <2>2
  <2>4. QED
    BY <1>13, <2>3
<1>16. Matched(w)
  BY <1>14, <1>15 DEF Matched, b, N
<1>17. Well(t)
  BY <1>3, <1>4, <1>16 DEF Well, w, Single
<1>18. SpelledOut(t) = Parenthesized(w)
  BY <1>3 DEF SpelledOut, Parenthesized, w
<1>19. LineAfter(Parenthesized(w)) - 1 <= Newlines(cs, i, j + 1)
  <2> DEFINE l == Lines(cs)
             r == Lines(Parenthesized(w))
  <2>1. Weight("(", {"nl"}, {}) = 0 /\ Weight(")", {"nl"}, {}) = 0
    BY DEF Weight
  <2>2. /\ (\A m \in 0 .. N : r[m + 1] = 0 + (l[o + m] - l[o])) /\ r[N + 2] = r[N + 1] + 0
        /\ \A m \in 0 .. N + 2 : r[m] \in Int
    BY <1>22, <2>1 DEF Lines
  <2>3. Len(Parenthesized(w)) = N + 2
    BY <1>4, ParenthesizedFacts DEF N
  <2>4. /\ i - 1 \in 0 .. Len(cs) /\ o \in i - 1 .. Len(cs) /\ o \in 0 .. Len(cs) /\ o + N \in o .. Len(cs)
        /\ o + N \in 0 .. Len(cs) /\ j \in o + N .. Len(cs) /\ N \in 0 .. N /\ N + 2 \in 0 .. N + 2 /\ N + 1 \in 0 .. N + 2
        /\ (j + 1) - 1 = j
    BY <1>1, <1>6
  <2> DEFINE p == l[i - 1]
             q == l[o]
             s == l[o + N]
             x == l[j]
             y == r[N + 2]
             z == r[N + 1]
  <2>5. p \in Int /\ q \in Int /\ s \in Int /\ x \in Int /\ p <= q /\ s <= x
    BY <2>4, LinesGrow
  <2>6. y = z + 0 /\ z = 0 + (s - q) /\ y \in Int /\ z \in Int
    BY <2>2, <2>4
  <2>7. LineAfter(Parenthesized(w)) = 1 + y
    BY <2>3 DEF LineAfter
  <2>8. Newlines(cs, i, j + 1) = x - p
    BY <2>4 DEF Newlines
  <2> HIDE DEF p, q, s, x, y, z
  <2>9. QED
    BY <2>5, <2>6, <2>7, <2>8
<1>20. j + 1 \in i + 1 .. Len(cs) + 1
  BY <1>1, <1>6
<1>21. QED
  BY <1>4, <1>17, <1>18, <1>19, <1>20 DEF w

(* A comment that is spelled out is read as that comment.                       *)
LEMMA CommentRead ==
  ASSUME NEW cs \in Text, NEW i \in Nat, 1 <= i, NEW t \in Tokens, t.kind = "comment", Well(t),
         Holds(cs, i, SpelledOut(t))
  PROVE  /\ SpelledOut(t) \in Text /\ Len(SpelledOut(t)) = Len(t.text) + 2 /\ CharAt(cs, i) = "("
         /\ CommentEnds(cs, i) = {i + Len(t.text) + 1}
         /\ Trimmed(SubSeq(cs, i + 1, i + Len(t.text))) = t.text
<1> DEFINE w == t.text
           N == Len(w)
           v == Parenthesized(w)
           d == Depths(cs)
           b == Depths(v)
<1>1. w \in Text /\ N \in Nat /\ Len(cs) \in Nat /\ Matched(w) /\ Tight(w)
  BY Elements DEF Tokens, Well
<1>2. SpelledOut(t) = v
  BY DEF SpelledOut, Parenthesized
<1>3. v \in Text /\ Len(v) = N + 2 /\ v[1] = "(" /\ \A k \in 1 .. N : v[k + 1] = w[k]
  BY <1>1, ParenthesizedFacts
<1>4. (\A m \in 1 .. N + 1 : b[m] > 0) /\ b[N + 2] = 0
  BY <1>1 DEF Matched
<1> HIDE DEF v, w, N
<1>5. Holds(cs, i, v)
  BY <1>2
<1>6. i + N + 1 <= Len(cs) /\ \A k \in 1 .. N + 2 : cs[i + k - 1] = v[k]
  BY <1>1, <1>3, <1>5 DEF Holds
<1>7. CharAt(cs, i) = "("
  <2>1. 1 \in 1 .. N + 2 /\ i + 1 - 1 = i /\ i <= Len(cs)
    BY <1>1, <1>6
  <2>2. QED
    BY <1>3, <1>6, <2>1 DEF CharAt
<1>8. ASSUME NEW m \in 0 .. N + 2
      PROVE  d[i - 1 + m] - d[i - 1] = b[m] /\ d[i - 1 + m] \in Int /\ d[i - 1] \in Int
  BY <1>3, <1>5, HeldBalance DEF Depths
<1>9. \A m \in 0 .. N + 2 : b[m] \in Int
  BY <1>3, BalanceFacts DEF Depths
<1> HIDE DEF d, b
<1> DEFINE j == i + N + 1
           D0 == d[i - 1]
<1>10. D0 \in Int
  <2>1. 0 \in 0 .. N + 2
    BY <1>1
  <2>2. QED
    BY <1>8, <2>1
<1>11. ASSUME NEW k \in i .. j - 1 PROVE d[k] > D0
  <2> DEFINE m == k - i + 1
             x == d[k]
             y == b[m]
  <2>1. m \in 1 .. N + 1 /\ m \in 0 .. N + 2 /\ i - 1 + m = k
    BY <1>1
  <2>2. x - D0 = y /\ x \in Int /\ y > 0 /\ y \in Int
    BY <1>4, <1>8, <1>9, <2>1
  <2> HIDE DEF x, y, D0
  <2>3. x > D0
    BY <1>10, <2>2
  <2>4. QED
    BY <2>3 DEF x
<1>12. d[j] = D0
  <2> DEFINE x == d[j]
  <2>1. N + 2 \in 0 .. N + 2 /\ i - 1 + (N + 2) = j
    BY <1>1
  <2>2. x - D0 = 0 /\ x \in Int
    BY <1>4, <1>8, <2>1
  <2> HIDE DEF x, D0
  <2>3. x = D0
    BY <1>10, <2>2
  <2>4. QED
    BY <2>3 DEF x
<1>13. CommentEnds(cs, i) = {h \in i + 1 .. Len(cs) : d[h] = D0 /\ \A k \in i .. h - 1 : d[k] > D0}
  BY DEF CommentEnds, d
<1> HIDE DEF D0
<1>14. j \in i + 1 .. Len(cs)
  BY <1>1, <1>6
<1>15. ASSUME NEW h \in i + 1 .. Len(cs), d[h] = D0, \A k \in i .. h - 1 : d[k] > D0 PROVE h = j
  <2>1. CASE h < j
    <3>1. h \in i .. j - 1
      BY <1>1, <2>1
    <3>2. d[h] > D0
      BY <1>11, <3>1
    <3>3. QED
      BY <1>10, <1>15, <3>2
  <2>2. CASE j < h
    <3>1. j \in i .. h - 1
      BY <1>1, <2>2
    <3>2. d[j] > D0
      BY <1>15, <3>1
    <3>3. QED
      BY <1>10, <1>12, <3>2
  <2>3. QED
    BY <1>1, <2>1, <2>2
<1>16. CommentEnds(cs, i) = {j}
  <2> HIDE DEF j
  <2>1. QED
    BY <1>11, <1>12, <1>13, <1>14, <1>15
<1>17. SubSeq(cs, i + 1, i + N) = w
  <2> DEFINE s == SubSeq(cs, i + 1, i + N)
  <2>1. s \in Text /\ Len(s) = N /\ \A k \in 1 .. N : s[k] = cs[(i + 1) + k - 1]
    <3>1. i + 1 \in 1 .. Len(cs) + 1 /\ i + N \in (i + 1) - 1 .. Len(cs) /\ (i + N) - (i + 1) + 1 = N
      BY <1>1, <1>6
    <3>2. QED
      BY <3>1, PartFacts
  <2> HIDE DEF s
  <2>2. \A k \in 1 .. N : s[k] = w[k]
    <3>1. TAKE k \in 1 .. N
    <3>2. k + 1 \in 1 .. N + 2 /\ i + (k + 1) - 1 = (i + 1) + k - 1
      BY <1>1
    <3>3. QED
      BY <1>3, <1>6, <2>1, <3>2
  <2>3. s = w
    BY <1>1, <2>1, <2>2, SameText DEF N
  <2>4. QED
    BY <2>3 DEF s
<1>18. Trimmed(w) = w
  BY <1>1, TrimmedTight
<1>19. QED
  BY <1>2, <1>3, <1>7, <1>16, <1>17, <1>18 DEF w, N

------------------------------------------------------------------------------
(* What the tokenizer leaves behind.                                           *)

Ending == {"dot", "colon", "comment"}
Fits(toks, k) ==
  /\ Well(toks[k])
  /\ toks[k].kind = "comment" => k = 1 \/ toks[k - 1].kind \in Ending
  /\ toks[k].kind = "lparen" => ~ (k = 1 \/ toks[k - 1].kind \in Ending)
  /\ LineBefore(toks, k) <= toks[k].line
Readable(toks) ==
  /\ toks \in Seq(Tokens) /\ toks # <<>>
  /\ \A k \in 1 .. Len(toks) : Fits(toks, k) /\ (toks[k].kind = "eof" <=> k = Len(toks))

(* The tokenizer at a character of cs, the tokens before it behind.             *)
Reading(cs, s) ==
  /\ s \in State
  /\ ~ s.over =>
       /\ s.at \in 1 .. Len(cs) + 1 /\ s.line = 1 + Lines(cs)[s.at - 1]
       /\ \A k \in 1 .. Len(s.toks) : Fits(s.toks, k) /\ s.toks[k].kind # "eof"
       /\ LineBefore(s.toks, Len(s.toks) + 1) <= s.line
  /\ s.over /\ s.toks # <<>> =>
       Readable(s.toks) /\ s.toks[Len(s.toks)].line = LineAfter(cs)

(* The characters of a token, and its lines.                                   *)
LEMMA SpelledText ==
  ASSUME NEW t \in Tokens
  PROVE  SpelledOut(t) \in Text /\ Len(SpelledOut(t)) \in Nat /\ LineAfter(SpelledOut(t)) \in Nat /\ LineAfter(SpelledOut(t)) >= 1
<1> DEFINE v == SpelledOut(t)
           w == t.text
<1>1. w \in Text
  BY DEF Tokens
<1>2. v \in Text
  <2>1. CASE t.kind = "string"
    BY <2>1, StringSpelled
  <2>2. CASE t.kind = "comment"
    <3>1. v = Parenthesized(w)
      BY <2>2 DEF SpelledOut, Parenthesized
    <3>2. QED
      BY <1>1, <3>1, ParenthesizedFacts
  <2>3. CASE t.kind = "hex"
    <3>1. v = <<"0", "x">> \o w
      BY <2>3 DEF SpelledOut
    <3>2. <<"0", "x">> \in Text
      BY Spelling, ShortText
    <3> HIDE DEF w
    <3>3. <<"0", "x">> \o w \in Text
      BY <1>1, <3>2, ConcatProperties DEF Text
    <3>4. QED
      BY <3>1, <3>3
  <2>4. CASE t.kind \notin {"string", "comment", "hex"}
    <3>1. v = w
      BY <2>4 DEF SpelledOut
    <3>2. QED
      BY <1>1, <3>1
  <2>5. QED
    BY <2>1, <2>2, <2>3, <2>4
<1> HIDE DEF v
<1>3. Len(v) \in Nat /\ 0 \in 0 .. Len(v) /\ Len(v) \in 0 .. Len(v)
  BY <1>2, Elements
<1>4. Lines(v)[Len(v)] \in Int /\ Lines(v)[0] <= Lines(v)[Len(v)]
  BY <1>2, <1>3, LinesGrow
<1>5. Lines(v)[0] = 0
  BY <1>2, BalanceFacts DEF Lines
<1>6. LineAfter(v) \in Nat /\ LineAfter(v) >= 1
  BY <1>4, <1>5 DEF LineAfter
<1>7. QED
  BY <1>2, <1>3, <1>6 DEF v

(* The line a token can stand on.                                              *)
LEMMA LineBeforeType ==
  ASSUME NEW toks \in Seq(Tokens), NEW k \in 1 .. Len(toks) + 1
  PROVE  LineBefore(toks, k) \in Nat
<1>1. CASE k = 1
  BY <1>1 DEF LineBefore
<1>2. CASE k # 1
  <2> DEFINE t == toks[k - 1]
             l == LineAfter(SpelledOut(t))
  <2>1. t \in Tokens
    <3>1. k - 1 \in 1 .. Len(toks)
      BY <1>2
    <3>2. QED
      BY <3>1
  <2>2. t.line \in Nat /\ l \in Nat /\ l >= 1
    BY <2>1, SpelledText DEF Tokens
  <2>3. LineBefore(toks, k) = t.line + l - 1
    BY <1>2 DEF LineBefore
  <2> HIDE DEF t, l
  <2>4. QED
    BY <2>2, <2>3
<1>3. QED
  BY <1>1, <1>2

(* Whether a token fits is about it and the one before.                         *)
LEMMA FitsSame ==
  ASSUME NEW toks, NEW more, NEW k \in Nat, toks[k] = more[k], k > 1 => toks[k - 1] = more[k - 1], k >= 1, Fits(toks, k)
  PROVE  Fits(more, k)
<1>1. LineBefore(more, k) = LineBefore(toks, k)
  BY DEF LineBefore
<1>2. QED
  BY <1>1 DEF Fits

(* A token at the end of others.                                               *)
Grown(toks, t, more) ==
  /\ toks \in Seq(Tokens) /\ \A k \in 1 .. Len(toks) : Fits(toks, k)
  /\ t \in Tokens /\ Well(t) /\ (t.kind = "comment" => Boundary(toks)) /\ (t.kind = "lparen" => ~ Boundary(toks))
  /\ LineBefore(toks, Len(toks) + 1) <= t.line /\ more = Append(toks, t)

(* Such tokens fit.                                                            *)
LEMMA AppendFits ==
  ASSUME NEW toks, NEW t, NEW more, Grown(toks, t, more)
  PROVE  /\ more \in Seq(Tokens) /\ Len(more) = Len(toks) + 1 /\ more[Len(toks) + 1] = t /\ more # <<>>
         /\ \A k \in 1 .. Len(toks) : more[k] = toks[k]
         /\ \A k \in 1 .. Len(more) : Fits(more, k)
         /\ LineBefore(more, Len(more) + 1) = t.line + LineAfter(SpelledOut(t)) - 1
<1> USE DEF Grown
<1> DEFINE n == Len(toks)
<1>1. n \in Nat
  OBVIOUS
<1>2. more \in Seq(Tokens) /\ Len(more) = n + 1 /\ more[n + 1] = t /\ \A k \in 1 .. n : more[k] = toks[k]
  OBVIOUS
<1>3. ASSUME NEW k \in 1 .. n PROVE Fits(more, k)
  <2>1. k \in Nat /\ k >= 1 /\ toks[k] = more[k]
    BY <1>1, <1>2
  <2>2. k > 1 => k - 1 \in 1 .. n
    BY <1>1
  <2>3. QED
    BY <1>2, <2>1, <2>2, FitsSame
<1>4. LineBefore(more, n + 1) = LineBefore(toks, n + 1)
  <2>1. CASE n = 0
    BY <2>1 DEF LineBefore
  <2>2. CASE n # 0
    <3>1. n + 1 # 1 /\ (n + 1) - 1 = n /\ n \in 1 .. n
      BY <1>1, <2>2
    <3>2. more[n] = toks[n]
      BY <1>2, <3>1
    <3> HIDE DEF n
    <3>3. LineBefore(more, n + 1) = more[n].line + LineAfter(SpelledOut(more[n])) - 1
      BY <3>1 DEF LineBefore
    <3>4. LineBefore(toks, n + 1) = toks[n].line + LineAfter(SpelledOut(toks[n])) - 1
      BY <3>1 DEF LineBefore
    <3>5. QED
      BY <3>2, <3>3, <3>4
  <2>3. QED
    BY <2>1, <2>2
<1>5. Boundary(toks) <=> (n + 1 = 1 \/ more[(n + 1) - 1].kind \in Ending)
  <2>1. CASE n = 0
    <3>1. toks = <<>>
      BY <2>1
    <3>2. QED
      BY <2>1, <3>1 DEF Boundary
  <2>2. CASE n # 0
    <3>1. n + 1 # 1 /\ (n + 1) - 1 = n /\ n \in 1 .. n /\ toks # <<>>
      BY <1>1, <2>2
    <3>2. more[n] = toks[n]
      BY <1>2, <3>1
    <3>3. Boundary(toks) <=> toks[n].kind \in Ending
      BY <3>1 DEF Boundary, Ending
    <3> HIDE DEF n
    <3>4. QED
      BY <3>1, <3>2, <3>3
  <2>3. QED
    BY <2>1, <2>2
<1>6. Fits(more, n + 1)
  <2> DEFINE m == n + 1
  <2>1. more[m] = t /\ LineBefore(more, m) <= t.line /\ (Boundary(toks) <=> (m = 1 \/ more[m - 1].kind \in Ending))
    BY <1>2, <1>4, <1>5
  <2> HIDE DEF m
  <2>2. Fits(more, m)
    BY <2>1 DEF Fits
  <2>3. QED
    BY <2>2 DEF m
<1>7. \A k \in 1 .. n + 1 : k \in 1 .. n \/ k = n + 1
  BY <1>1
<1>8. LineBefore(more, (n + 1) + 1) = t.line + LineAfter(SpelledOut(t)) - 1
  <2>1. (n + 1) + 1 # 1 /\ ((n + 1) + 1) - 1 = n + 1
    BY <1>1
  <2>2. QED
    BY <1>2, <2>1 DEF LineBefore
<1>9. \A k \in 1 .. Len(more) : Fits(more, k)
  BY <1>2, <1>3, <1>6, <1>7
<1>10. more # <<>>
  BY <1>1, <1>2
<1>11. QED
  BY <1>2, <1>8, <1>9, <1>10

(* A token is taken.                                                           *)
LEMMA TakeReads ==
  ASSUME NEW cs \in Text, NEW s, Reading(cs, s), ~ s.over, s.at \in 1 .. Len(cs),
         NEW j \in s.at + 1 .. Len(cs) + 1, NEW kind \in Kinds \ {"eof"}, NEW value \in Text,
         NEW t, t = Token(kind, value, s.line), Well(t), LineAfter(SpelledOut(t)) - 1 <= Newlines(cs, s.at, j),
         kind = "comment" => Boundary(s.toks), kind = "lparen" => ~ Boundary(s.toks)
  PROVE  /\ Reading(cs, Take(cs, s, j, kind, value))
         /\ ~ Take(cs, s, j, kind, value).over /\ Take(cs, s, j, kind, value).at > s.at
<1> DEFINE i == s.at
           more == Append(s.toks, t)
           r == Take(cs, s, j, kind, value)
           n == Newlines(cs, i, j)
<1>1. /\ s \in State /\ s.line = 1 + Lines(cs)[i - 1] /\ \A k \in 1 .. Len(s.toks) : Fits(s.toks, k) /\ s.toks[k].kind # "eof"
      /\ LineBefore(s.toks, Len(s.toks) + 1) <= s.line
  BY DEF Reading
<1>2. Len(cs) \in Nat /\ i \in Nat /\ j \in Nat /\ s.toks \in Seq(Tokens) /\ s.line \in Nat
  BY <1>1, Elements DEF State
<1>3. t \in Tokens /\ t.kind = kind /\ t.line = s.line
  BY <1>2 DEF Token, Tokens
<1>4. r = [at |-> j, line |-> s.line + n, toks |-> more, over |-> FALSE]
  BY DEF Take
<1> HIDE DEF more, r
<1>5. /\ more \in Seq(Tokens) /\ Len(more) = Len(s.toks) + 1 /\ more[Len(s.toks) + 1] = t
      /\ \A k \in 1 .. Len(s.toks) : more[k] = s.toks[k]
      /\ \A k \in 1 .. Len(more) : Fits(more, k)
      /\ LineBefore(more, Len(more) + 1) = t.line + LineAfter(SpelledOut(t)) - 1
  <2>1. \A k \in 1 .. Len(s.toks) : Fits(s.toks, k)
    BY <1>1
  <2>2. (t.kind = "comment" => Boundary(s.toks)) /\ (t.kind = "lparen" => ~ Boundary(s.toks)) /\ LineBefore(s.toks, Len(s.toks) + 1) <= t.line
    BY <1>1, <1>3
  <2>3. Grown(s.toks, t, more)
    BY <1>2, <1>3, <2>1, <2>2, Zenon DEF more, Grown
  <2>4. QED
    BY <2>3, AppendFits, SMT
<1> DEFINE x == Lines(cs)[i - 1]
           y == Lines(cs)[j - 1]
<1>6. x \in Int /\ y \in Int /\ x <= y
  <2>1. i - 1 \in 0 .. Len(cs) /\ j - 1 \in i - 1 .. Len(cs)
    BY <1>2
  <2>2. QED
    BY <2>1, LinesGrow
<1>7. n = y - x /\ s.line = 1 + x
  BY <1>1 DEF Newlines
<1> HIDE DEF x, y, n
<1>8. s.line + n = 1 + y /\ s.line + n \in Nat
  BY <1>2, <1>6, <1>7
<1>9. r \in State
  BY <1>2, <1>4, <1>5, <1>8 DEF State
<1>10. \A k \in 1 .. Len(more) : more[k].kind # "eof"
  <2>1. \A k \in 1 .. Len(more) : k \in 1 .. Len(s.toks) \/ k = Len(s.toks) + 1
    BY <1>2, <1>5
  <2>2. QED
    BY <1>1, <1>3, <1>5, <2>1
<1>11. LineBefore(more, Len(more) + 1) <= s.line + n
  <2> DEFINE l == LineAfter(SpelledOut(t))
  <2>1. l \in Nat /\ l - 1 <= n /\ n \in Int /\ LineBefore(more, Len(more) + 1) = s.line + l - 1
    BY <1>3, <1>5, <1>6, <1>7, SpelledText DEF n
  <2> HIDE DEF l
  <2>2. QED
    BY <1>2, <2>1
<1>12. j \in 1 .. Len(cs) + 1 /\ j > s.at
  BY <1>2
<1>13. Reading(cs, r)
  BY <1>4, <1>5, <1>8, <1>9, <1>10, <1>11, <1>12 DEF Reading, y
<1>14. QED
  BY <1>4, <1>12, <1>13 DEF r

(* The end is found.                                                           *)
LEMMA FinishReads ==
  ASSUME NEW cs \in Text, NEW s, Reading(cs, s), ~ s.over, CharAt(cs, s.at) = "end"
  PROVE  Reading(cs, Finish(s)) /\ Finish(s).over
<1> DEFINE t == Token("eof", <<>>, s.line)
           more == Append(s.toks, t)
           r == Finish(s)
<1>1. /\ s \in State /\ s.at \in 1 .. Len(cs) + 1 /\ s.line = 1 + Lines(cs)[s.at - 1]
      /\ \A k \in 1 .. Len(s.toks) : Fits(s.toks, k) /\ s.toks[k].kind # "eof"
      /\ LineBefore(s.toks, Len(s.toks) + 1) <= s.line
  BY DEF Reading
<1>2. Len(cs) \in Nat /\ s.toks \in Seq(Tokens) /\ s.line \in Nat
  BY <1>1, Elements DEF State
<1>3. s.at = Len(cs) + 1 /\ s.at - 1 = Len(cs)
  <2>1. s.at \notin 1 .. Len(cs)
    BY Elements
  <2>2. QED
    BY <1>1, <1>2, <2>1
<1>4. t \in Tokens /\ t.kind = "eof" /\ t.line = s.line
  <2>1. <<>> \in Text
    BY EmptySeq DEF Text
  <2>2. QED
    BY <1>2, <2>1 DEF Token, Tokens, Kinds
<1>5. Well(t)
  BY <1>4 DEF Well, Token, Single
<1>6. r = [at |-> s.at, line |-> s.line, toks |-> more, over |-> TRUE]
  BY DEF Finish
<1> HIDE DEF more, r, t
<1>7. /\ more \in Seq(Tokens) /\ Len(more) = Len(s.toks) + 1 /\ more[Len(s.toks) + 1] = t /\ more # <<>>
      /\ \A k \in 1 .. Len(s.toks) : more[k] = s.toks[k]
      /\ \A k \in 1 .. Len(more) : Fits(more, k)
  <2>1. \A k \in 1 .. Len(s.toks) : Fits(s.toks, k)
    BY <1>1
  <2>2. (t.kind = "comment" => Boundary(s.toks)) /\ (t.kind = "lparen" => ~ Boundary(s.toks)) /\ LineBefore(s.toks, Len(s.toks) + 1) <= t.line
    BY <1>1, <1>4
  <2>3. Grown(s.toks, t, more)
    BY <1>2, <1>4, <1>5, <2>1, <2>2, Zenon DEF more, Grown
  <2>4. QED
    BY <2>3, AppendFits, SMT
<1>8. \A k \in 1 .. Len(more) : more[k].kind = "eof" <=> k = Len(more)
  <2>1. \A k \in 1 .. Len(more) : (k \in 1 .. Len(s.toks) /\ k # Len(more)) \/ (k = Len(s.toks) + 1 /\ k = Len(more))
    BY <1>2, <1>7
  <2>2. QED
    BY <1>1, <1>4, <1>7, <2>1
<1>9. Readable(more)
  BY <1>7, <1>8 DEF Readable
<1>10. more[Len(more)].line = LineAfter(cs)
  BY <1>1, <1>3, <1>4, <1>7 DEF LineAfter
<1>11. r \in State
  BY <1>1, <1>6, <1>7 DEF State
<1>12. Reading(cs, r)
  BY <1>6, <1>9, <1>10, <1>11 DEF Reading
<1>13. QED
  BY <1>6, <1>12 DEF r

(* A blank is skipped.                                                         *)
LEMMA SkipReads ==
  ASSUME NEW cs \in Text, NEW s, Reading(cs, s), ~ s.over, s.at \in 1 .. Len(cs)
  PROVE  Reading(cs, SkipBlank(cs, s)) /\ ~ SkipBlank(cs, s).over /\ SkipBlank(cs, s).at > s.at
<1> DEFINE i == s.at
           r == SkipBlank(cs, s)
           n == Newlines(cs, i, i + 1)
           x == Lines(cs)[i - 1]
           y == Lines(cs)[i]
<1>1. /\ s \in State /\ s.line = 1 + x /\ \A k \in 1 .. Len(s.toks) : Fits(s.toks, k) /\ s.toks[k].kind # "eof"
      /\ LineBefore(s.toks, Len(s.toks) + 1) <= s.line
  BY DEF Reading
<1>2. Len(cs) \in Nat /\ i \in Nat /\ s.toks \in Seq(Tokens) /\ s.line \in Nat
  BY <1>1, Elements DEF State
<1>3. r = [at |-> i + 1, line |-> s.line + n, toks |-> s.toks, over |-> FALSE]
  BY DEF SkipBlank
<1>4. x \in Int /\ y \in Int /\ x <= y
  <2>1. i - 1 \in 0 .. Len(cs) /\ i \in i - 1 .. Len(cs)
    BY <1>2
  <2>2. QED
    BY <2>1, LinesGrow
<1>5. (i + 1) - 1 = i /\ i + 1 \in 1 .. Len(cs) + 1 /\ i + 1 > i /\ i + 1 \in Nat
  BY <1>2
<1>6. n = y - x
  BY <1>5 DEF Newlines
<1>7. LineBefore(s.toks, Len(s.toks) + 1) \in Nat
  <2>1. Len(s.toks) + 1 \in 1 .. Len(s.toks) + 1
    BY <1>2
  <2>2. QED
    BY <1>2, <2>1, LineBeforeType
<1> HIDE DEF x, y, n, r
<1>8. s.line + n = 1 + y /\ s.line + n \in Nat /\ s.line <= s.line + n
  BY <1>1, <1>2, <1>4, <1>6
<1>9. r \in State
  BY <1>2, <1>3, <1>5, <1>8 DEF State
<1>10. LineBefore(s.toks, Len(s.toks) + 1) <= s.line + n
  BY <1>1, <1>2, <1>7, <1>8
<1>11. Reading(cs, r)
  BY <1>1, <1>3, <1>5, <1>8, <1>9, <1>10 DEF Reading, y
<1>12. QED
  BY <1>3, <1>5, <1>11 DEF r

(* A turn keeps to the reading and leaves characters behind.                    *)
Goes(cs, s, r) == Reading(cs, r) /\ (~ r.over => r.at > s.at)
Reader(cs, s) == cs \in Text /\ Reading(cs, s) /\ ~ s.over /\ s.at \in 1 .. Len(cs)

(* What is known of a tokenizer that goes on.                                   *)
LEMMA ReaderFacts ==
  ASSUME NEW cs, NEW s, Reader(cs, s)
  PROVE  /\ cs \in Text /\ s \in State /\ s.line \in Nat /\ s.at \in Nat /\ 1 <= s.at /\ Len(cs) \in Nat
         /\ s.at \in 1 .. Len(cs) /\ CharAt(cs, s.at) = cs[s.at]
BY Elements DEF Reader, Reading, State

(* A token that stands where it is read counts the newlines it is read over.    *)
LEMMA HeldTakes ==
  ASSUME NEW cs \in Text, NEW i \in Nat, 1 <= i, NEW j \in Nat, NEW t \in Tokens,
         Holds(cs, i, SpelledOut(t)), Len(SpelledOut(t)) = j - i
  PROVE  LineAfter(SpelledOut(t)) - 1 <= Newlines(cs, i, j)
<1> DEFINE v == SpelledOut(t)
           n == Len(v)
           l == LineAfter(v) - 1
<1>1. v \in Text /\ n \in Nat /\ l \in Int
  BY SpelledText
<1>2. Newlines(cs, i, i + n) = l
  BY <1>1, HeldLines
<1>3. i + n = j
  BY <1>1
<1> HIDE DEF l, n
<1>4. Newlines(cs, i, j) = l
  BY <1>2, <1>3
<1>5. l <= l
  BY <1>1
<1>6. QED
  BY <1>4, <1>5 DEF l

(* A word.                                                                     *)
LEMMA WordReads ==
  ASSUME NEW cs, NEW s, Reader(cs, s), cs[s.at] \in Letter
  PROVE  Goes(cs, s, TakeWord(cs, s))
<1> DEFINE i == s.at
           j == After(cs, i, InWord)
           v == SubSeq(cs, i, j - 1)
           t == Token("ident", v, s.line)
           r == Take(cs, s, j, "ident", v)
<1>1. cs \in Text /\ s.line \in Nat /\ i \in Nat /\ 1 <= i /\ Len(cs) \in Nat /\ i \in 1 .. Len(cs)
  BY ReaderFacts
<1>2. j \in i + 1 .. Len(cs) + 1 /\ t.text \in Text /\ Well(t) /\ Holds(cs, i, SpelledOut(t)) /\ Len(SpelledOut(t)) = j - i
  BY <1>1, WordTaken
<1>3. v \in Text /\ t.kind = "ident" /\ t \in Tokens /\ j \in Nat
  BY <1>1, <1>2 DEF Token, Tokens, Kinds
<1>4. TakeWord(cs, s) = r
  BY DEF TakeWord
<1> HIDE DEF j, v, t
<1>5. LineAfter(SpelledOut(t)) - 1 <= Newlines(cs, i, j)
  BY <1>1, <1>2, <1>3, HeldTakes
<1>6. t = Token("ident", v, s.line) /\ "ident" \in Kinds \ {"eof"} /\ "ident" # "comment" /\ "ident" # "lparen"
  BY DEF t, Kinds
<1>7. Reading(cs, r) /\ ~ r.over /\ r.at > i
  BY <1>1, <1>2, <1>3, <1>5, <1>6, TakeReads DEF Reader
<1>8. QED
  BY <1>4, <1>7 DEF Goes

(* A hexadecimal number.                                                       *)
LEMMA HexReads ==
  ASSUME NEW cs, NEW s, Reader(cs, s), Hexadecimal(cs, s.at)
  PROVE  Goes(cs, s, TakeNumber(cs, s))
<1> DEFINE i == s.at
           j == After(cs, i + 2, HexDigit)
           v == SubSeq(cs, i + 2, j - 1)
           t == Token("hex", v, s.line)
           r == Take(cs, s, j, "hex", v)
<1>1. cs \in Text /\ s.line \in Nat /\ i \in Nat /\ 1 <= i /\ Len(cs) \in Nat /\ i \in 1 .. Len(cs)
  BY ReaderFacts
<1>2. j \in i + 1 .. Len(cs) + 1 /\ t.text \in Text /\ Well(t) /\ Holds(cs, i, SpelledOut(t)) /\ Len(SpelledOut(t)) = j - i
  <2>1. j = After(cs, i + 2, HexDigit) /\ t = Token("hex", SubSeq(cs, i + 2, j - 1), s.line) /\ Hexadecimal(cs, i)
    OBVIOUS
  <2> HIDE DEF i, j, v, t
  <2>2. QED
    BY <1>1, <2>1, HexTaken
<1>3. v \in Text /\ t.kind = "hex" /\ t \in Tokens /\ j \in Nat
  BY <1>1, <1>2 DEF Token, Tokens, Kinds
<1>4. TakeNumber(cs, s) = r
  BY DEF TakeNumber
<1> HIDE DEF j, v, t
<1>5. LineAfter(SpelledOut(t)) - 1 <= Newlines(cs, i, j)
  BY <1>1, <1>2, <1>3, HeldTakes
<1>6. t = Token("hex", v, s.line) /\ "hex" \in Kinds \ {"eof"} /\ "hex" # "comment" /\ "hex" # "lparen"
  BY DEF t, Kinds
<1>7. Reading(cs, r) /\ ~ r.over /\ r.at > i
  BY <1>1, <1>2, <1>3, <1>5, <1>6, TakeReads DEF Reader
<1>8. QED
  BY <1>4, <1>7 DEF Goes

(* Another number.                                                             *)
LEMMA NumberReads ==
  ASSUME NEW cs, NEW s, Reader(cs, s), ~ Hexadecimal(cs, s.at), cs[s.at] \in Digit
  PROVE  Goes(cs, s, TakeNumber(cs, s))
<1> DEFINE i == s.at
           a == After(cs, i, Digit)
           j == ExponentEnd(cs, FractionEnd(cs, a))
           kind == IF j > a THEN "float" ELSE "number"
           v == SubSeq(cs, i, j - 1)
           t == Token(kind, v, s.line)
           r == Take(cs, s, j, kind, v)
<1>1. cs \in Text /\ s.line \in Nat /\ i \in Nat /\ 1 <= i /\ Len(cs) \in Nat /\ i \in 1 .. Len(cs)
  BY ReaderFacts
<1>2. j \in i + 1 .. Len(cs) + 1 /\ t.text \in Text /\ Well(t) /\ Holds(cs, i, SpelledOut(t)) /\ Len(SpelledOut(t)) = j - i
  <2>1. /\ cs[i] \in Digit /\ a = After(cs, i, Digit) /\ j = ExponentEnd(cs, FractionEnd(cs, a))
        /\ t = Token(IF j > a THEN "float" ELSE "number", SubSeq(cs, i, j - 1), s.line)
    OBVIOUS
  <2> HIDE DEF i, a, j, v, t, kind
  <2>2. QED
    BY <1>1, <2>1, NumberTaken
<1>3. TakeNumber(cs, s) = r
  BY DEF TakeNumber
<1>4. kind \in Kinds \ {"eof"} /\ kind # "comment" /\ kind # "lparen"
  BY DEF Kinds
<1> HIDE DEF j, v, kind
<1>5. v \in Text /\ t.kind = kind /\ t \in Tokens /\ j \in Nat
  BY <1>1, <1>2, <1>4 DEF Token, Tokens
<1> HIDE DEF t
<1>6. LineAfter(SpelledOut(t)) - 1 <= Newlines(cs, i, j)
  BY <1>1, <1>2, <1>5, HeldTakes
<1>7. t = Token(kind, v, s.line)
  BY DEF t
<1>8. Reading(cs, r) /\ ~ r.over /\ r.at > i
  BY <1>1, <1>2, <1>4, <1>5, <1>6, <1>7, TakeReads DEF Reader
<1>9. QED
  BY <1>3, <1>8 DEF Goes

(* An error.                                                                   *)
LEMMA ThrowReads ==
  ASSUME NEW cs, NEW s, Reader(cs, s)
  PROVE  Goes(cs, s, Throw(s))
<1>1. s \in State
  BY ReaderFacts
<1>2. <<>> \in Seq(Tokens)
  OBVIOUS
<1>3. Throw(s) \in State /\ Throw(s).over /\ Throw(s).toks = <<>>
  BY <1>1, <1>2 DEF Throw, State
<1>4. QED
  BY <1>3 DEF Goes, Reading

(* A string.                                                                   *)
LEMMA StringReads ==
  ASSUME NEW cs, NEW s, Reader(cs, s), cs[s.at] = "quote"
  PROVE  Goes(cs, s, TakeString(cs, s))
<1> DEFINE i == s.at
           q == ReadQuoted(cs, i + 1)
           j == q.at + 1
           t == Token("string", q.text, s.line)
           r == Take(cs, s, j, "string", q.text)
<1>1. cs \in Text /\ s.line \in Nat /\ i \in Nat /\ 1 <= i /\ Len(cs) \in Nat /\ i \in 1 .. Len(cs)
  BY ReaderFacts
<1>2. CASE q.at > Len(cs)
  <2>1. TakeString(cs, s) = Throw(s)
    BY <1>2 DEF TakeString
  <2>2. QED
    BY <2>1, ThrowReads
<1>3. CASE ~ (q.at > Len(cs))
  <2>1. TakeString(cs, s) = r
    BY <1>3 DEF TakeString
  <2>2. q.at \in Nat
    <3>1. i + 1 \in 1 .. Len(cs) + 1 /\ Len(cs) \in 0 .. Len(cs)
      BY <1>1
    <3>2. PICK f : /\ \A k \in 0 .. Len(cs) : f[k] \in [at : i + 1 .. Len(cs) + 1, text : /\ Text]
                                                                                          /\ q = f[Len(cs)]
      BY <1>1, <3>1, QuotedSteps
    <3>3. q \in [at : i + 1 .. Len(cs) + 1, text : Text]
      BY <3>1, <3>2
    <3> HIDE DEF q
    <3>4. QED
      BY <1>1, <3>3
  <2>3. q.at <= Len(cs)
    BY <1>1, <1>3, <2>2
  <2>4. j \in i + 1 .. Len(cs) + 1 /\ t.text \in Text /\ Well(t) /\ LineAfter(SpelledOut(t)) = 1
    BY <1>1, <2>3, StringTaken
  <2> DEFINE v == q.text
  <2>5. v \in Text /\ j \in Nat
    BY <1>1, <2>4 DEF Token
  <2>6. t = Token("string", v, s.line)
    OBVIOUS
  <2>7. LineAfter(SpelledOut(t)) - 1 <= Newlines(cs, i, j)
    <3>1. i - 1 \in 0 .. Len(cs) /\ j - 1 \in i - 1 .. Len(cs)
      BY <1>1, <2>4, SMTT(30)
    <3>2. Lines(cs)[i - 1] \in Int /\ Lines(cs)[j - 1] \in Int /\ Lines(cs)[i - 1] <= Lines(cs)[j - 1]
      BY <1>1, <3>1, LinesGrow
    <3>3. Newlines(cs, i, j) = Lines(cs)[j - 1] - Lines(cs)[i - 1]
      BY DEF Newlines
    <3> DEFINE x == Lines(cs)[i - 1]
               y == Lines(cs)[j - 1]
    <3> HIDE DEF x, y, j, t
    <3>4. x \in Int /\ y \in Int /\ x <= y /\ Newlines(cs, i, j) = y - x
      BY <3>2, <3>3 DEF x, y
    <3>5. QED
      BY <2>4, <3>4
  <2>8. "string" \in Kinds \ {"eof"} /\ "string" # "comment" /\ "string" # "lparen"
    BY DEF Kinds
  <2> HIDE DEF j, t, v
  <2>9. Reading(cs, Take(cs, s, j, "string", v)) /\ ~ Take(cs, s, j, "string", v).over /\ Take(cs, s, j, "string", v).at > i
    BY <1>1, <2>4, <2>5, <2>6, <2>7, <2>8, TakeReads DEF Reader
  <2>10. QED
    BY <2>1, <2>9 DEF Goes, v
<1>4. QED
  BY <1>2, <1>3

(* A comment.                                                                  *)
LEMMA CommentReads ==
  ASSUME NEW cs, NEW s, Reader(cs, s), cs[s.at] = "(", Boundary(s.toks)
  PROVE  Goes(cs, s, TakeComment(cs, s))
<1> DEFINE i == s.at
           ends == CommentEnds(cs, i)
           k == CHOOSE k \in ends : TRUE
           j == k + 1
           v == Trimmed(SubSeq(cs, i + 1, k - 1))
           t == Token("comment", v, s.line)
           r == Take(cs, s, j, "comment", v)
<1>1. cs \in Text /\ s.line \in Nat /\ i \in Nat /\ 1 <= i /\ Len(cs) \in Nat /\ i \in 1 .. Len(cs)
  BY ReaderFacts
<1>2. CASE ends = {}
  <2>1. TakeComment(cs, s) = Throw(s)
    BY <1>2 DEF TakeComment
  <2>2. QED
    BY <2>1, ThrowReads
<1>3. CASE ends # {}
  <2>1. TakeComment(cs, s) = r
    BY <1>3 DEF TakeComment
  <2>2. k \in ends
    BY <1>3
  <2> HIDE DEF k
  <2>3. j \in i + 1 .. Len(cs) + 1 /\ t.text \in Text /\ Well(t) /\ LineAfter(SpelledOut(t)) - 1 <= Newlines(cs, i, j)
    BY <1>1, <2>2, CommentTaken
  <2> HIDE DEF j, v
  <2>4. v \in Text /\ j \in Nat
    BY <1>1, <2>3 DEF Token
  <2>5. t = Token("comment", v, s.line)
    OBVIOUS
  <2>6. "comment" \in Kinds \ {"eof"} /\ "comment" # "lparen"
    BY DEF Kinds
  <2> HIDE DEF t
  <2>7. Reading(cs, r) /\ ~ r.over /\ r.at > i
    BY <1>1, <2>3, <2>4, <2>5, <2>6, TakeReads DEF Reader
  <2>8. QED
    BY <2>1, <2>7 DEF Goes
<1>4. QED
  BY <1>2, <1>3

(* Each mark has its own name.                                                 *)
LEMMA SingleIs ==
  ASSUME NEW c \in {".", ":", "(", ")"}
  PROVE  \E kind \in {"dot", "colon", "lparen", "rparen"} :
           /\ kind \in DOMAIN Single /\ Single[kind] = c
           /\ (CHOOSE k \in DOMAIN Single : Single[k] = c) = kind
           /\ kind = "lparen" => c = "("
<1>1. DOMAIN Single = {"dot", "colon", "lparen", "rparen"}
  BY DEF Single
<1>2. Single["dot"] = "." /\ Single["colon"] = ":" /\ Single["lparen"] = "(" /\ Single["rparen"] = ")"
  BY DEF Single
<1>3. PICK kind \in {"dot", "colon", "lparen", "rparen"} : Single[kind] = c /\ (kind = "lparen" => c = "(")
  BY <1>2
<1>4. \A k \in DOMAIN Single : Single[k] = c => k = kind
  BY <1>1, <1>2, <1>3
<1>5. (CHOOSE k \in DOMAIN Single : Single[k] = c) = kind
  BY <1>1, <1>3, <1>4
<1>6. QED
  BY <1>1, <1>3, <1>5

(* A mark.                                                                     *)
LEMMA SingleReads ==
  ASSUME NEW cs, NEW s, Reader(cs, s), cs[s.at] \in {".", ")", ":"} \/ (cs[s.at] = "(" /\ ~ Boundary(s.toks))
  PROVE  Goes(cs, s, TakeSingle(cs, s))
<1> DEFINE i == s.at
           c == cs[i]
           j == i + 1
           v == <<c>>
<1>1. cs \in Text /\ s.line \in Nat /\ i \in Nat /\ 1 <= i /\ Len(cs) \in Nat /\ i \in 1 .. Len(cs) /\ c \in Characters
  BY ReaderFacts, Elements
<1>2. c \in {".", ":", "(", ")"} /\ (c = "(" => ~ Boundary(s.toks))
  OBVIOUS
<1>3. PICK kind \in {"dot", "colon", "lparen", "rparen"} :
        /\ kind \in DOMAIN Single /\ Single[kind] = c
        /\ (CHOOSE k \in DOMAIN Single : Single[k] = c) = kind
        /\ kind = "lparen" => c = "("
  BY <1>2, SingleIs
<1> DEFINE t == Token(kind, v, s.line)
           r == Take(cs, s, j, kind, v)
<1>4. TakeSingle(cs, s) = r
  BY <1>3 DEF TakeSingle
<1>5. v \in Text /\ Len(v) = 1 /\ v[1] = c
  BY <1>1, ShortText
<1>6. t.kind = kind /\ t.text = v /\ t \in Tokens /\ kind \in Kinds \ {"eof"} /\ kind # "comment"
  BY <1>1, <1>5 DEF Token, Tokens, Kinds
<1>7. Well(t)
  BY <1>3, <1>6 DEF Well
<1>8. SpelledOut(t) = v
  BY <1>6 DEF SpelledOut
<1>9. Holds(cs, i, SpelledOut(t)) /\ Len(SpelledOut(t)) = j - i /\ j \in Nat /\ j \in i + 1 .. Len(cs) + 1
  <2>1. i + 1 <= Len(cs) + 1 /\ \A k \in 1 .. 1 : i + k - 1 = i /\ k = 1
    BY <1>1
  <2>2. Holds(cs, i, v)
    BY <1>5, <2>1 DEF Holds
  <2>3. j - i = 1 /\ j \in Nat /\ j \in i + 1 .. Len(cs) + 1
    BY <1>1
  <2>4. QED
    BY <1>5, <1>8, <2>2, <2>3
<1>10. t = Token(kind, v, s.line) /\ (kind = "lparen" => ~ Boundary(s.toks))
  BY <1>2, <1>3
<1> HIDE DEF j, v, t
<1>11. LineAfter(SpelledOut(t)) - 1 <= Newlines(cs, i, j)
  BY <1>1, <1>6, <1>9, HeldTakes
<1>12. Reading(cs, r) /\ ~ r.over /\ r.at > i
  BY <1>1, <1>5, <1>6, <1>7, <1>9, <1>10, <1>11, TakeReads DEF Reader
<1>13. QED
  BY <1>4, <1>12 DEF Goes

(* A turn of the loop, whatever the character.                                  *)
LEMMA ScanReads ==
  ASSUME NEW cs \in Text, NEW s, Reading(cs, s)
  PROVE  /\ Reading(cs, Scan(cs, s))
         /\ s.over => Scan(cs, s) = s
         /\ ~ s.over /\ ~ Scan(cs, s).over => Scan(cs, s).at > s.at
<1>1. CASE s.over
  <2>1. Scan(cs, s) = s
    BY <1>1 DEF Scan
  <2>2. QED
    BY <1>1, <2>1
<1>2. CASE ~ s.over /\ CharAt(cs, s.at) = "end"
  <2>1. s \in State
    BY DEF Reading
  <2>2. Scan(cs, s) = Finish(s)
    BY <1>2, <2>1, ScanBranches
  <2>3. Reading(cs, Finish(s)) /\ Finish(s).over
    BY <1>2, FinishReads
  <2>4. QED
    BY <1>2, <2>2, <2>3
<1>3. CASE ~ s.over /\ CharAt(cs, s.at) # "end"
  <2> DEFINE c == cs[s.at]
             b == Boundary(s.toks)
  <2>1. s.at \in 1 .. Len(cs)
    <3>1. s.at \in 1 .. Len(cs) + 1 /\ Len(cs) \in Nat /\ CharAt(cs, Len(cs) + 1) = "end"
      BY <1>3, Elements DEF Reading
    <3>2. QED
      BY <1>3, <3>1
  <2>2. Reader(cs, s)
    BY <1>3, <2>1 DEF Reader
  <2>3. s \in State /\ CharAt(cs, s.at) = c
    BY <2>2, ReaderFacts
  <2> HIDE DEF c
  <2>4. Goes(cs, s, Scan(cs, s))
    <3>1. CASE c \in Blanks \cup {","}
      <4>1. Scan(cs, s) = SkipBlank(cs, s)
        BY <1>3, <2>3, <3>1, ScanBranches
      <4>2. QED
        BY <1>3, <2>1, <4>1, SkipReads DEF Goes
    <3>2. CASE c = "(" /\ b
      <4>1. Scan(cs, s) = TakeComment(cs, s)
        BY <1>3, <2>3, <3>2, ScanBranches
      <4>2. QED
        BY <2>2, <3>2, <4>1, CommentReads DEF c
    <3>3. CASE c \in {".", ")", ":"} \/ (c = "(" /\ ~ b)
      <4>1. Scan(cs, s) = TakeSingle(cs, s)
        BY <1>3, <2>3, <3>3, ScanBranches
      <4>2. QED
        BY <2>2, <3>3, <4>1, SingleReads DEF c
    <3>4. CASE c = "quote"
      <4>1. Scan(cs, s) = TakeString(cs, s)
        BY <1>3, <2>3, <3>4, ScanBranches
      <4>2. QED
        BY <2>2, <3>4, <4>1, StringReads DEF c
    <3>5. CASE c \in Digit
      <4>1. Scan(cs, s) = TakeNumber(cs, s)
        BY <1>3, <2>3, <3>5, ScanBranches
      <4>2. QED
        BY <2>2, <3>5, <4>1, HexReads, NumberReads DEF c
    <3>6. CASE c \in Letter
      <4>1. Scan(cs, s) = TakeWord(cs, s)
        BY <1>3, <2>3, <3>6, ScanBranches
      <4>2. QED
        BY <2>2, <3>6, <4>1, WordReads DEF c
    <3>7. CASE c \notin {"end", ",", "(", ".", ")", ":", "quote"} \cup Blanks \cup Digit \cup Letter
      <4>1. Scan(cs, s) = Throw(s)
        BY <1>3, <2>3, <3>7, ScanBranches
      <4>2. QED
        BY <2>2, <4>1, ThrowReads
    <3>8. c # "end"
      BY <1>3, <2>3
    <3>9. QED
      BY <3>1, <3>2, <3>3, <3>4, <3>5, <3>6, <3>7, <3>8
  <2>5. QED
    BY <1>3, <2>4 DEF Goes
<1>4. QED
  BY <1>1, <1>2, <1>3

(* The start.                                                                  *)
LEMMA FreshReads ==
  ASSUME NEW cs \in Text
  PROVE  Reading(cs, Fresh)
<1>1. Fresh \in State /\ Fresh.at = 1 /\ Fresh.line = 1 /\ Fresh.toks = <<>> /\ ~ Fresh.over
  BY DEF Fresh, State
<1>2. Len(cs) \in Nat /\ 1 \in 1 .. Len(cs) + 1
  BY Elements
<1>3. Lines(cs)[0] = 0
  BY BalanceFacts DEF Lines
<1>4. 1 = 1 + Lines(cs)[1 - 1]
  BY <1>3
<1>5. Len(Fresh.toks) = 0 /\ Len(Fresh.toks) + 1 = 1
  BY <1>1
<1>6. LineBefore(Fresh.toks, Len(Fresh.toks) + 1) = 1
  BY <1>5 DEF LineBefore
<1>7. \A k \in 1 .. Len(Fresh.toks) : FALSE
  BY <1>5
<1>8. QED
  BY <1>1, <1>2, <1>4, <1>6, <1>7 DEF Reading

(* The turns of the loop, from the start.                                       *)
Turns(cs, f) ==
  /\ f[0] = Fresh
  /\ \A k \in 1 .. Len(cs) + 1 : f[k] = Scan(cs, f[k - 1])
  /\ \A k \in 0 .. Len(cs) + 1 : Reading(cs, f[k])
  /\ Tokenize(cs) = f[Len(cs) + 1].toks

(* A text is read turn by turn.                                                *)
LEMMA TurnsExist ==
  ASSUME NEW cs \in Text
  PROVE  \E f : Turns(cs, f)
<1> DEFINE N == Len(cs) + 1
           D == {s \in State : Reading(cs, s)}
           z == Fresh
           step == [p \in (1 .. N) \X D |-> Scan(cs, p[2])]
           Reads(f) == f = [n \in 0 .. N |-> IF n = 0 THEN z ELSE Scan(cs, f[n - 1])]
           after == CHOOSE f : Reads(f)
<1>1. N \in Nat /\ z \in D
  BY Elements, FreshReads DEF Reading
<1>2. \A s \in D : Scan(cs, s) \in D /\ Reading(cs, s)
  <2>1. TAKE s \in D
  <2>2. Reading(cs, s)
    OBVIOUS
  <2>3. Reading(cs, Scan(cs, s))
    BY <2>2, ScanReads
  <2>4. QED
    BY <2>2, <2>3 DEF Reading
<1>3. Tokenize(cs) = after[N].toks
  BY DEF Tokenize
<1> HIDE DEF D
<1>4. step \in [(1 .. N) \X D -> D]
  BY <1>2
<1>5. \A k \in 1 .. N, r \in D : step[<<k, r>>] = Scan(cs, r)
  OBVIOUS
<1> HIDE DEF step, N, z
<1>6. PICK f : Steps(D, z, step, N, f)
  BY <1>1, <1>4, StepsExist, Zenon
<1>7. ASSUME NEW k \in 1 .. N PROVE f[k] = Scan(cs, f[k - 1])
  <2>1. k - 1 \in 0 .. N
    BY <1>1
  <2>2. f[k - 1] \in D /\ f[k] = step[<<k, f[k - 1]>>]
    BY <1>6, <2>1 DEF Steps
  <2>3. QED
    BY <1>5, <2>2
<1>8. Reads(f)
  BY <1>1, <1>6, <1>7 DEF Steps
<1>9. Reads(after)
  BY <1>8
<1> HIDE DEF after
<1>10. after[0] = z /\ \A k \in 1 .. N : after[k] = Scan(cs, after[k - 1])
  BY <1>1, <1>9
<1>11. \A n \in 0 .. N : after[n] \in D
  <2> DEFINE I == {n \in 0 .. N : after[n] \in D}
  <2>1. 0 \in I
    BY <1>1, <1>10
  <2>2. ASSUME NEW n \in 0 .. N - 1, n \in I PROVE n + 1 \in I
    <3>1. n + 1 \in 1 .. N /\ (n + 1) - 1 = n
      BY <1>1
    <3>2. QED
      BY <1>2, <1>10, <2>2, <3>1
  <2> HIDE DEF I
  <2>3. \A n \in 0 .. N : n \in I
    BY <1>1, <2>1, <2>2, UpTo
  <2>4. QED
    BY <2>3 DEF I
<1>12. Turns(cs, after)
  <2>1. \A n \in 0 .. N : Reading(cs, after[n])
    BY <1>2, <1>11
  <2>2. QED
    BY <1>3, <1>10, <2>1 DEF N, z, Turns
<1>13. QED
  BY <1>12

(* The loop has ended after the turns Tokenize takes.                          *)
LEMMA TurnsEnd ==
  ASSUME NEW cs \in Text, NEW f, Turns(cs, f)
  PROVE  f[Len(cs) + 1].over
<1> DEFINE N == Len(cs) + 1
           I == {n \in 0 .. N : f[n].over \/ f[n].at > n}
<1>1. /\ N \in Nat /\ f[0] = Fresh /\ \A k \in 1 .. N : f[k] = Scan(cs, f[k - 1])
      /\ \A k \in 0 .. N : Reading(cs, f[k])
  BY Elements DEF Turns
<1>2. \A k \in 0 .. N : ~ f[k].over => f[k].at \in 1 .. N
  BY <1>1 DEF Reading
<1> HIDE DEF N
<1>3. 0 \in I
  <2>1. f[0].at > 0
    BY <1>1 DEF Fresh
  <2>2. QED
    BY <1>1, <2>1
<1>4. ASSUME NEW n \in 0 .. N - 1, n \in I PROVE n + 1 \in I
  <2>1. n + 1 \in 1 .. N /\ n + 1 \in 0 .. N /\ n \in 0 .. N /\ (n + 1) - 1 = n
    BY <1>1
  <2>2. f[n + 1] = Scan(cs, f[n]) /\ Reading(cs, f[n])
    BY <1>1, <2>1
  <2>3. CASE f[n].over
    <3>1. f[n + 1] = f[n]
      BY <2>2, <2>3, ScanReads
    <3>2. QED
      BY <2>1, <2>3, <3>1
  <2>4. CASE ~ f[n].over /\ ~ f[n + 1].over
    <3>1. f[n + 1].at > f[n].at
      BY <2>2, <2>4, ScanReads
    <3>2. f[n].at \in Nat /\ f[n + 1].at \in Nat /\ f[n].at > n
      BY <1>1, <1>2, <1>4, <2>1, <2>4
    <3> DEFINE x == f[n].at
               y == f[n + 1].at
    <3>3. x \in Nat /\ y \in Nat /\ x > n /\ y > x
      BY <3>1, <3>2
    <3> HIDE DEF x, y
    <3>4. y > n + 1
      BY <3>3
    <3>5. QED
      BY <2>1, <3>4 DEF y
  <2>5. CASE f[n + 1].over
    BY <2>1, <2>5
  <2>6. QED
    BY <2>3, <2>4, <2>5
<1>5. N \in I
  <2> HIDE DEF I
  <2>1. \A n \in 0 .. N : n \in I
    BY <1>1, <1>3, <1>4, UpTo
  <2>2. N \in 0 .. N
    BY <1>1
  <2>3. QED
    BY <2>1, <2>2
<1>6. ~ f[N].over => f[N].at \in 1 .. N
  BY <1>1, <1>2
<1>7. f[N].over
  BY <1>1, <1>5, <1>6
<1>8. QED
  BY <1>7 DEF N

(* What the tokenizer returns can be written out again, and the end of the text *)
(* is on the line that the newlines of the text make it.                        *)
LEMMA TokenizedReadable ==
  ASSUME NEW cs \in Text, Tokenize(cs) # <<>>
  PROVE  Readable(Tokenize(cs)) /\ Tokenize(cs)[Len(Tokenize(cs))].line = LineAfter(cs)
<1>1. PICK f : Turns(cs, f)
  BY TurnsExist
<1>2. f[Len(cs) + 1].over
  BY <1>1, TurnsEnd
<1>3. Len(cs) + 1 \in 0 .. Len(cs) + 1
  BY Elements
<1>4. Reading(cs, f[Len(cs) + 1]) /\ Tokenize(cs) = f[Len(cs) + 1].toks
  BY <1>1, <1>3 DEF Turns
<1>5. QED
  BY <1>2, <1>4 DEF Reading

------------------------------------------------------------------------------
(* Reading what was spelled.                                                   *)

(* A text that stands in another is that part of it.                            *)
LEMMA HeldPart ==
  ASSUME NEW cs \in Text, NEW w \in Text, NEW p \in Nat, 1 <= p, Holds(cs, p, w), NEW e, e = p + Len(w)
  PROVE  SubSeq(cs, p, e - 1) = w
<1> DEFINE n == Len(w)
           j == e - 1
           u == SubSeq(cs, p, j)
<1>1. n \in Nat /\ Len(cs) \in Nat /\ p + n <= Len(cs) + 1 /\ \A k \in 1 .. n : cs[p + k - 1] = w[k]
  BY Elements DEF Holds
<1>2. p \in 1 .. Len(cs) + 1 /\ j \in p - 1 .. Len(cs) /\ j - p + 1 = n
  BY <1>1
<1> HIDE DEF j
<1>3. u \in Text /\ Len(u) = j - p + 1 /\ \A k \in 1 .. j - p + 1 : u[k] = cs[p + k - 1]
  BY <1>2, PartFacts
<1>4. Len(u) = n /\ \A k \in 1 .. n : u[k] = w[k]
  BY <1>1, <1>2, <1>3
<1>5. u = w
  BY <1>3, <1>4, SameText
<1>6. QED
  BY <1>5 DEF j

(* The tokenizer stands before a spelled token, with a blank behind it.         *)
Standing(cs, s, t) ==
  /\ cs \in Text /\ s \in State /\ ~ s.over /\ 1 <= s.at /\ s.line = t.line
  /\ t \in Tokens /\ t.kind # "eof" /\ Well(t)
  /\ Holds(cs, s.at, SpelledOut(t)) /\ CharAt(cs, s.at + Len(SpelledOut(t))) \in Blanks
  /\ t.kind = "comment" => Boundary(s.toks)
  /\ t.kind = "lparen" => ~ Boundary(s.toks)

(* Such a token is taken as it is.                                             *)
LEMMA WordScanned ==
  ASSUME NEW cs, NEW s, NEW t, Standing(cs, s, t), t.kind = "ident"
  PROVE  Scan(cs, s) = Take(cs, s, s.at + Len(SpelledOut(t)), t.kind, t.text)
<1> DEFINE i == s.at
           w == t.text
           j == i + Len(w)
<1>1. cs \in Text /\ s \in State /\ ~ s.over /\ i \in Nat /\ 1 <= i /\ t \in Tokens /\ Well(t) /\ w \in Text
  BY DEF Standing, State, Tokens
<1>2. SpelledOut(t) = w
  BY DEF SpelledOut
<1>3. Holds(cs, i, w) /\ CharAt(cs, j) \in Blanks
  BY <1>2 DEF Standing
<1>4. CharAt(cs, i) \in Letter /\ After(cs, i, InWord) = j
  BY <1>1, <1>3, WordRead
<1>5. SubSeq(cs, i, j - 1) = w
  <2>1. j = i + Len(w)
    OBVIOUS
  <2> HIDE DEF j
  <2>2. QED
    BY <1>1, <1>3, <2>1, HeldPart, SMTT(30)
<1>6. Scan(cs, s) = TakeWord(cs, s)
  BY <1>1, <1>4, ScanBranches
<1>7. QED
  BY <1>2, <1>4, <1>5, <1>6 DEF TakeWord

(* A hexadecimal number.                                                       *)
LEMMA HexScanned ==
  ASSUME NEW cs, NEW s, NEW t, Standing(cs, s, t), t.kind = "hex"
  PROVE  Scan(cs, s) = Take(cs, s, s.at + Len(SpelledOut(t)), t.kind, t.text)
<1> DEFINE i == s.at
           j == i + Len(SpelledOut(t))
<1>1. cs \in Text /\ s \in State /\ ~ s.over /\ i \in Nat /\ 1 <= i /\ t \in Tokens /\ Well(t)
  BY DEF Standing, State
<1>2. Holds(cs, i, SpelledOut(t)) /\ CharAt(cs, j) \in Blanks
  BY DEF Standing
<1>3. /\ CharAt(cs, i) = "0" /\ Hexadecimal(cs, i)
      /\ After(cs, i + 2, HexDigit) = j /\ SubSeq(cs, i + 2, j - 1) = t.text
  <2>1. j = i + Len(SpelledOut(t)) /\ t.kind = "hex"
    OBVIOUS
  <2> HIDE DEF i, j
  <2>2. QED
    BY <1>1, <1>2, <2>1, HexRead
<1>4. CharAt(cs, i) \in Digit
  BY <1>3 DEF Digit
<1>5. Scan(cs, s) = TakeNumber(cs, s)
  BY <1>1, <1>4, ScanBranches
<1>6. QED
  BY <1>3, <1>5 DEF TakeNumber

(* Another number.                                                             *)
LEMMA NumberScanned ==
  ASSUME NEW cs, NEW s, NEW t, Standing(cs, s, t), t.kind \in {"number", "float"}
  PROVE  Scan(cs, s) = Take(cs, s, s.at + Len(SpelledOut(t)), t.kind, t.text)
<1> DEFINE i == s.at
           w == t.text
           a == After(cs, i, Digit)
           j == ExponentEnd(cs, FractionEnd(cs, a))
<1>1. cs \in Text /\ s \in State /\ ~ s.over /\ i \in Nat /\ 1 <= i /\ t \in Tokens /\ Well(t) /\ w \in Text
  BY DEF Standing, State, Tokens
<1>2. SpelledOut(t) = w
  BY DEF SpelledOut
<1>3. Holds(cs, i, w) /\ CharAt(cs, i + Len(w)) \in Blanks
  BY <1>2 DEF Standing
<1>4. CharAt(cs, i) \in Digit /\ ~ Hexadecimal(cs, i) /\ j = i + Len(w) /\ t.kind = IF j > a THEN "float" ELSE "number"
  <2>1. a = After(cs, i, Digit) /\ j = ExponentEnd(cs, FractionEnd(cs, a))
    OBVIOUS
  <2> HIDE DEF a, j
  <2>2. QED
    BY <1>1, <1>3, <2>1, NumberRead
<1>5. SubSeq(cs, i, j - 1) = w
  <2>1. j = i + Len(w)
    BY <1>4
  <2> HIDE DEF i, j, w
  <2>2. QED
    BY <1>1, <1>3, <2>1, HeldPart
<1>6. Scan(cs, s) = TakeNumber(cs, s)
  BY <1>1, <1>4, ScanBranches
<1>7. TakeNumber(cs, s) = Take(cs, s, j, IF j > a THEN "float" ELSE "number", SubSeq(cs, i, j - 1))
  BY <1>4 DEF TakeNumber
<1>8. QED
  BY <1>2, <1>4, <1>5, <1>6, <1>7

(* A string.                                                                   *)
LEMMA StringScanned ==
  ASSUME NEW cs, NEW s, NEW t, Standing(cs, s, t), t.kind = "string"
  PROVE  Scan(cs, s) = Take(cs, s, s.at + Len(SpelledOut(t)), t.kind, t.text)
<1> DEFINE i == s.at
           n == Len(SpelledOut(t))
           q == ReadQuoted(cs, i + 1)
<1>1. cs \in Text /\ s \in State /\ ~ s.over /\ i \in Nat /\ 1 <= i /\ t \in Tokens /\ Well(t) /\ Holds(cs, i, SpelledOut(t))
  BY DEF Standing, State
<1>2. /\ SpelledOut(t) \in Text /\ CharAt(cs, i) = "quote" /\ q = [at |-> i + n - 1, text |-> t.text] /\ i + n - 1 <= Len(cs)
  BY <1>1, StringRead
<1>3. n \in Nat /\ Len(cs) \in Nat
  BY <1>1, <1>2, Elements
<1>4. Scan(cs, s) = TakeString(cs, s)
  BY <1>1, <1>2, ScanBranches
<1> HIDE DEF n
<1>5. q.at = i + n - 1 /\ q.text = t.text /\ ~ (q.at > Len(cs)) /\ q.at + 1 = i + n
  BY <1>1, <1>2, <1>3
<1>6. TakeString(cs, s) = Take(cs, s, q.at + 1, "string", q.text)
  BY <1>5 DEF TakeString
<1>7. QED
  BY <1>4, <1>5, <1>6 DEF n

(* A comment.                                                                  *)
LEMMA CommentScanned ==
  ASSUME NEW cs, NEW s, NEW t, Standing(cs, s, t), t.kind = "comment"
  PROVE  Scan(cs, s) = Take(cs, s, s.at + Len(SpelledOut(t)), t.kind, t.text)
<1> DEFINE i == s.at
           n == Len(t.text)
           m == i + n + 1
           ends == CommentEnds(cs, i)
<1>1. /\ cs \in Text /\ s \in State /\ ~ s.over /\ i \in Nat /\ 1 <= i /\ t \in Tokens /\ Well(t) /\ Holds(cs, i, SpelledOut(t))
      /\ t.text \in Text /\ Boundary(s.toks)
  BY DEF Standing, State, Tokens
<1>2. /\ Len(SpelledOut(t)) = n + 2 /\ CharAt(cs, i) = "("
      /\ ends = {m} /\ Trimmed(SubSeq(cs, i + 1, i + n)) = t.text
  BY <1>1, CommentRead, ZenonT(40)
<1>3. n \in Nat
  BY <1>1, Elements
<1>4. Scan(cs, s) = TakeComment(cs, s)
  BY <1>1, <1>2, ScanBranches
<1> DEFINE k == CHOOSE k \in ends : TRUE
<1>5. k = m /\ ends # {}
  BY <1>2
<1>6. TakeComment(cs, s) = Take(cs, s, k + 1, "comment", Trimmed(SubSeq(cs, i + 1, k - 1)))
  BY <1>5 DEF TakeComment
<1> HIDE DEF k, n
<1>7. k + 1 = i + (n + 2) /\ k - 1 = i + n
  BY <1>1, <1>3, <1>5
<1>8. QED
  BY <1>2, <1>4, <1>6, <1>7 DEF n

(* A mark.                                                                     *)
LEMMA SingleScanned ==
  ASSUME NEW cs, NEW s, NEW t, Standing(cs, s, t), t.kind \in {"dot", "colon", "lparen", "rparen"}
  PROVE  Scan(cs, s) = Take(cs, s, s.at + Len(SpelledOut(t)), t.kind, t.text)
<1> DEFINE i == s.at
           c == cs[i]
<1>1. /\ cs \in Text /\ s \in State /\ ~ s.over /\ i \in Nat /\ 1 <= i /\ t \in Tokens /\ Well(t)
      /\ (t.kind = "lparen" => ~ Boundary(s.toks))
  BY DEF Standing, State
<1>2. /\ DOMAIN Single = {"dot", "colon", "lparen", "rparen"} /\ Single["dot"] = "." /\ Single["colon"] = ":"
      /\ Single["lparen"] = "(" /\ Single["rparen"] = ")"
  BY DEF Single
<1>3. SpelledOut(t) = t.text
  BY DEF SpelledOut
<1>4. t.text = <<Single[t.kind]>>
  BY <1>1, <1>2 DEF Well
<1>5. Len(t.text) = 1 /\ t.text[1] = Single[t.kind]
  BY <1>4
<1>6. c = Single[t.kind] /\ i \in 1 .. Len(cs)
  <2>1. Holds(cs, i, t.text)
    BY <1>3 DEF Standing
  <2>2. i + 1 <= Len(cs) + 1 /\ cs[i + 1 - 1] = t.text[1]
    BY <1>5, <2>1 DEF Holds
  <2>3. i + 1 - 1 = i /\ Len(cs) \in Nat
    BY <1>1, Elements
  <2>4. QED
    BY <1>1, <1>5, <2>2, <2>3
<1>7. CharAt(cs, i) = c
  BY <1>1, <1>6, Elements
<1>8. c \in {".", ")", ":"} \/ (c = "(" /\ ~ Boundary(s.toks))
  BY <1>1, <1>2, <1>6
<1>9. Scan(cs, s) = TakeSingle(cs, s)
  BY <1>1, <1>7, <1>8, ScanBranches
<1>10. c \in {".", ":", "(", ")"}
  BY <1>8
<1>11. PICK kind \in {"dot", "colon", "lparen", "rparen"} :
         Single[kind] = c /\ (CHOOSE k \in DOMAIN Single : Single[k] = c) = kind
  BY <1>10, SingleIs
<1>12. kind = t.kind
  BY <1>2, <1>6, <1>11
<1>13. QED
  BY <1>3, <1>4, <1>5, <1>6, <1>9, <1>11, <1>12 DEF TakeSingle

(* Any token: it is taken, and the lines of its spelling are counted.           *)
LEMMA TokenScanned ==
  ASSUME NEW cs, NEW s, NEW t, Standing(cs, s, t)
  PROVE  Scan(cs, s) = [at |-> s.at + Len(SpelledOut(t)), line |-> t.line + (LineAfter(SpelledOut(t)) - 1),
                        toks |-> Append(s.toks, t), over |-> FALSE]
<1>1. cs \in Text /\ s \in State /\ s.at \in Nat /\ 1 <= s.at /\ s.line = t.line /\ t \in Tokens /\ t.kind # "eof" /\ Holds(cs, s.at, SpelledOut(t))
  BY DEF Standing, State
<1>2. t.kind \in {"ident", "hex", "number", "float", "string", "comment", "dot", "colon", "lparen", "rparen"}
  BY <1>1 DEF Tokens, Kinds
<1>3. Scan(cs, s) = Take(cs, s, s.at + Len(SpelledOut(t)), t.kind, t.text)
  BY <1>2, WordScanned, HexScanned, NumberScanned, StringScanned, CommentScanned, SingleScanned
<1>4. Token(t.kind, t.text, s.line) = t
  BY <1>1 DEF Token, Tokens
<1>5. Newlines(cs, s.at, s.at + Len(SpelledOut(t))) = LineAfter(SpelledOut(t)) - 1
  BY <1>1, SpelledText, HeldLines
<1>6. QED
  BY <1>1, <1>3, <1>4, <1>5 DEF Take

(* The gap before a token of tokens that can be written out.                    *)
LEMMA GapFacts ==
  ASSUME NEW toks, Readable(toks), NEW k \in 1 .. Len(toks)
  PROVE  /\ Gap(toks, k) \in Text /\ Len(Gap(toks, k)) \in Nat /\ Len(Gap(toks, k)) >= 1
         /\ \A n \in 1 .. Len(Gap(toks, k)) : Gap(toks, k)[n] \in Blanks
         /\ LineBefore(toks, k) + (LineAfter(Gap(toks, k)) - 1) = toks[k].line
<1> DEFINE b == LineBefore(toks, k)
           l == toks[k].line
           d == l - b
           g == Gap(toks, k)
<1>1. b \in Nat /\ l \in Nat /\ b <= l
  <2>1. toks \in Seq(Tokens) /\ Fits(toks, k)
    BY DEF Readable
  <2>2. k \in 1 .. Len(toks) + 1 /\ toks[k] \in Tokens
    BY <2>1
  <2>3. QED
    BY <2>1, <2>2, LineBeforeType DEF Fits, Tokens
<1>2. g = IF d <= 0 THEN <<"space">> ELSE [n \in 1 .. d |-> "nl"]
  BY DEF Gap
<1> HIDE DEF b, l
<1>3. d \in Nat /\ b + d = l
  BY <1>1
<1> HIDE DEF d
<1>4. "space" \in Characters /\ "nl" \in Characters
  BY Spelling
<1>5. CASE d = 0
  <2>1. g = <<"space">> /\ g \in Text /\ Len(g) = 1 /\ g[1] = "space"
    <3>1. g = <<"space">>
      BY <1>2, <1>5
    <3>2. <<"space">> \in Text
      BY <1>4, ShortText
    <3>3. Len(<<"space">>) = 1 /\ <<"space">>[1] = "space"
      OBVIOUS
    <3>4. QED
      BY <3>1, <3>2, <3>3, Zenon
  <2> HIDE DEF g
  <2>2. 0 \in 0 .. Len(g) /\ Len(g) \in 0 .. Len(g) /\ \A n \in 0 + 1 .. Len(g) : g[n] \notin {"nl"} \cup {}
    BY <2>1
  <2>3. Balance(g, {"nl"}, {})[Len(g)] = Balance(g, {"nl"}, {})[0] /\ Balance(g, {"nl"}, {})[0] = 0
    BY <2>1, <2>2, BalanceStays, BalanceFacts
  <2>4. LineAfter(g) = 1
    BY <2>3 DEF LineAfter, Lines
  <2>5. \A n \in 1 .. Len(g) : g[n] \in Blanks
    BY <2>1 DEF Blanks
  <2>6. b + (LineAfter(g) - 1) = l
    BY <1>1, <1>3, <1>5, <2>4
  <2>7. QED
    BY <2>1, <2>5, <2>6 DEF g, b, l
<1>6. CASE d # 0
  <2>1. g = [n \in 1 .. d |-> "nl"]
    BY <1>2, <1>3, <1>6
  <2>2. g \in Text /\ Len(g) = d /\ \A n \in 1 .. d : g[n] = "nl"
    BY <1>3, <1>4, <2>1 DEF Text
  <2> HIDE DEF g
  <2> DEFINE c == Lines(g)
             I == {m \in 0 .. d : c[m] = m}
  <2>3. c[0] = 0 /\ \A n \in 1 .. d : c[n] \in Int /\ c[n] = c[n - 1] + Weight(g[n], {"nl"}, {})
    BY <2>2, BalanceFacts DEF Lines
  <2> HIDE DEF c
  <2>4. \A n \in 1 .. d : Weight(g[n], {"nl"}, {}) = 1
    BY <2>2 DEF Weight
  <2>5. 0 \in I
    BY <1>3, <2>3
  <2>6. ASSUME NEW m \in 0 .. d - 1, m \in I PROVE m + 1 \in I
    <3>1. m + 1 \in 1 .. d /\ m + 1 \in 0 .. d /\ (m + 1) - 1 = m
      BY <1>3
    <3>2. c[m] = m
      BY <2>6
    <3>3. c[m + 1] = m + 1
      BY <2>3, <2>4, <3>1, <3>2
    <3>4. QED
      BY <3>1, <3>3
  <2>7. c[d] = d
    <3> HIDE DEF I
    <3>1. \A m \in 0 .. d : m \in I
      BY <1>3, <2>5, <2>6, UpTo
    <3>2. d \in 0 .. d
      BY <1>3
    <3>3. QED
      BY <3>1, <3>2 DEF I
  <2>8. LineAfter(g) = 1 + d
    BY <2>2, <2>7 DEF LineAfter, c
  <2>9. b + (LineAfter(g) - 1) = l
    BY <1>1, <1>3, <2>8
  <2>10. Len(g) >= 1 /\ \A n \in 1 .. Len(g) : g[n] \in Blanks
    BY <1>3, <1>6, <2>2 DEF Blanks
  <2>11. QED
    BY <1>3, <2>2, <2>9, <2>10 DEF g, b, l
<1>7. QED
  BY <1>5, <1>6

(* The tokenizer before p on a line, with tokens.                               *)
Place(p, line, toks) == [at |-> p, line |-> line, toks |-> toks, over |-> FALSE]

(* After n turns it is before g blanks.                                        *)
BeforeBlanks(cs, h, n, p, l, q, g) ==
  /\ cs \in Text /\ Turns(cs, h) /\ n \in Nat /\ p \in Nat /\ 1 <= p /\ l \in Nat /\ q \in Seq(Tokens)
  /\ h[n] = Place(p, l, q) /\ g \in Nat /\ p + g <= Len(cs) + 1 /\ n + g <= Len(cs) + 1
  /\ \A k \in p .. p + g - 1 : cs[k] \in Blanks

(* Blanks are skipped one a turn.                                              *)
LEMMA BlanksScanned ==
  ASSUME NEW cs, NEW h, NEW n, NEW p, NEW l, NEW q, NEW g, BeforeBlanks(cs, h, n, p, l, q, g)
  PROVE  h[n + g] = Place(p + g, l + Newlines(cs, p, p + g), q)
<1> USE DEF BeforeBlanks
<1> DEFINE N == Len(cs) + 1
           c == Lines(cs)
           I == {m \in 0 .. g : h[n + m] = Place(p + m, l + (c[p + m - 1] - c[p - 1]), q)}
<1>1. N \in Nat /\ \A k \in 1 .. N : h[k] = Scan(cs, h[k - 1])
  BY Elements DEF Turns
<1>2. \A k \in 0 .. Len(cs) : c[k] \in Int
  BY BalanceFacts DEF Lines
<1> HIDE DEF c
<1>3. 0 \in I
  <2>1. n + 0 = n /\ p + 0 = p /\ p - 1 \in 0 .. Len(cs) /\ 0 \in 0 .. g
    BY <1>1
  <2>2. l + (c[p - 1] - c[p - 1]) = l
    BY <1>2, <2>1
  <2>3. h[n + 0] = Place(p + 0, l + (c[p + 0 - 1] - c[p - 1]), q)
    BY <2>1, <2>2
  <2>4. QED
    BY <2>1, <2>3
<1>4. ASSUME NEW m \in 0 .. g - 1, m \in I PROVE m + 1 \in I
  <2> DEFINE i == p + m
             s == Place(i, l + (c[i - 1] - c[p - 1]), q)
  <2>1. /\ n + (m + 1) \in 1 .. N /\ n + (m + 1) - 1 = n + m /\ i \in 1 .. Len(cs) /\ i \in p .. p + g - 1 /\ i \in Nat
        /\ p + (m + 1) = i + 1 /\ (i + 1) - 1 = i /\ i - 1 \in 0 .. Len(cs) /\ i \in 0 .. Len(cs) /\ p - 1 \in 0 .. Len(cs)
        /\ m + 1 \in 0 .. g /\ p - 1 <= i - 1
    BY <1>1
  <2>2. h[n + m] = s
    BY <1>4
  <2>3. cs[i] \in Blanks /\ CharAt(cs, i) = cs[i]
    BY <2>1, Elements
  <2> HIDE DEF i
  <2>4. c[p - 1] <= c[i - 1]
    <3>1. i - 1 \in p - 1 .. Len(cs)
      BY <2>1
    <3>2. QED
      BY <2>1, <3>1, LinesGrow DEF c
  <2> DEFINE x == c[p - 1]
             y == c[i - 1]
             z == c[i]
  <2>5. x \in Int /\ y \in Int /\ z \in Int /\ x <= y
    BY <1>2, <2>1, <2>4
  <2>6. Newlines(cs, i, i + 1) = z - y
    BY <2>1 DEF Newlines, c
  <2> DEFINE a == l + (y - x)
  <2>7. s = Place(i, a, q)
    OBVIOUS
  <2> HIDE DEF x, y, z, s
  <2>8. a \in Nat /\ a + (z - y) = l + (z - x)
    BY <2>5
  <2> HIDE DEF a
  <2>9. s \in State /\ ~ s.over /\ s.at = i /\ s.line = a /\ s.toks = q
    BY <2>1, <2>7, <2>8 DEF State, Place
  <2>10. Scan(cs, s) = SkipBlank(cs, s)
    BY <2>3, <2>9, ScanBranches
  <2>11. Scan(cs, s) = Place(i + 1, l + (z - x), q)
    BY <2>6, <2>8, <2>9, <2>10 DEF SkipBlank, Place
  <2>12. h[n + (m + 1)] = Scan(cs, s)
    BY <1>1, <2>1, <2>2
  <2>13. h[n + (m + 1)] = Place(p + (m + 1), l + (c[p + (m + 1) - 1] - c[p - 1]), q)
    BY <2>1, <2>11, <2>12 DEF x, z
  <2>14. QED
    BY <2>1, <2>13
<1>5. g \in I
  <2> HIDE DEF I
  <2>1. \A m \in 0 .. g : m \in I
    BY <1>3, <1>4, UpTo
  <2>2. QED
    BY <2>1
<1>6. QED
  BY <1>5 DEF Newlines, c

(* Tokens written out: f says where each one's spelling ends.                   *)
Laid(toks, cs, f) ==
  /\ cs \in Text /\ f \in [0 .. Len(toks) -> Nat] /\ f[0] = 0 /\ Len(cs) = f[Len(toks)]
  /\ \A k \in 1 .. Len(toks) :
       /\ f[k] = f[k - 1] + Len(Gap(toks, k)) + Len(SpelledOut(toks[k])) /\ f[k] <= Len(cs)
       /\ Holds(cs, f[k - 1] + 1, Gap(toks, k))
       /\ Holds(cs, f[k - 1] + Len(Gap(toks, k)) + 1, SpelledOut(toks[k]))

(* Two texts one after the other.                                              *)
LEMMA BothFacts ==
  ASSUME NEW u \in Text, NEW v \in Text, NEW w, w = u \o v
  PROVE  /\ w \in Text /\ Len(w) = Len(u) + Len(v)
         /\ \A n \in 1 .. Len(u) : w[n] = u[n] /\ n \in 1 .. Len(w)
         /\ \A n \in 1 .. Len(v) : w[Len(u) + n] = v[n] /\ Len(u) + n \in 1 .. Len(w)
<1>1. Len(u) \in Nat /\ Len(v) \in Nat
  BY Elements
<1>2. /\ w \in Seq(Characters) /\ Len(w) = Len(u) + Len(v)
      /\ \A i \in 1 .. Len(u) + Len(v) : w[i] = IF i <= Len(u) THEN u[i] ELSE v[i - Len(u)]
  BY ConcatProperties DEF Text
<1> DEFINE a == Len(u)
           b == Len(v)
<1>3. ASSUME NEW n \in 1 .. a PROVE w[n] = u[n] /\ n \in 1 .. a + b
  <2>1. n \in 1 .. a + b /\ n <= a
    BY <1>1
  <2>2. QED
    BY <1>2, <2>1
<1>4. ASSUME NEW n \in 1 .. b PROVE w[a + n] = v[n] /\ a + n \in 1 .. a + b
  <2> DEFINE i == a + n
  <2>1. i \in 1 .. a + b /\ ~ (i <= a) /\ i - a = n
    BY <1>1
  <2> HIDE DEF i
  <2>2. w[i] = v[i - a]
    BY <1>2, <2>1
  <2>3. QED
    BY <2>1, <2>2 DEF i
<1>5. QED
  BY <1>2, <1>3, <1>4 DEF Text

(* The spelling of a list of tokens has each of them in its place.              *)
LEMMA RespelledLaid ==
  ASSUME NEW toks, Readable(toks)
  PROVE  \E f : Laid(toks, Respelled(toks), f)
<1> DEFINE N == Len(toks)
           pieces == [k \in DOMAIN toks |-> Gap(toks, k) \o SpelledOut(toks[k])]
           cs == FlattenSeq(pieces)
<1>1. N \in Nat /\ DOMAIN toks = 1 .. N /\ \A k \in 1 .. N : toks[k] \in Tokens
  BY DEF Readable
<1>2. \A k \in 1 .. N :
        /\ Gap(toks, k) \in Text /\ Len(Gap(toks, k)) \in Nat
        /\ SpelledOut(toks[k]) \in Text /\ Len(SpelledOut(toks[k])) \in Nat
  BY <1>1, GapFacts, SpelledText
<1>3. \A k \in 1 .. N : pieces[k] = Gap(toks, k) \o SpelledOut(toks[k])
  BY <1>1
<1>4. Len(pieces) = N /\ pieces \in Seq(Seq(Characters))
  <2>1. \A k \in 1 .. N : pieces[k] \in Seq(Characters)
    BY <1>2, <1>3, BothFacts DEF Text
  <2>2. DOMAIN pieces = 1 .. N /\ pieces = [k \in 1 .. N |-> pieces[k]]
    BY <1>1
  <2> HIDE DEF pieces
  <2>3. QED
    BY <1>1, <2>1, <2>2
<1>5. Respelled(toks) = cs
  BY DEF Respelled
<1> HIDE DEF pieces
<1>6. PICK f : Flat(Characters, pieces, f)
  BY <1>4, FlattenFacts
<1>7. /\ f \in [0 .. N -> Nat] /\ f[0] = 0 /\ \A k \in 1 .. N : f[k] = f[k - 1] + Len(pieces[k])
      /\ cs \in Text /\ Len(cs) = f[N]
      /\ \A k \in 1 .. N : \A n \in 1 .. Len(pieces[k]) : cs[f[k - 1] + n] = pieces[k][n]
      /\ \A k \in 0 .. N : f[k] <= f[N]
  BY <1>4, <1>6 DEF Flat, Text
<1> HIDE DEF cs
<1>8. ASSUME NEW k \in 1 .. N
      PROVE  /\ f[k] = f[k - 1] + Len(Gap(toks, k)) + Len(SpelledOut(toks[k])) /\ f[k] <= Len(cs)
             /\ Holds(cs, f[k - 1] + 1, Gap(toks, k))
             /\ Holds(cs, f[k - 1] + Len(Gap(toks, k)) + 1, SpelledOut(toks[k]))
  <2> DEFINE u == Gap(toks, k)
             v == SpelledOut(toks[k])
             w == pieces[k]
             a == Len(u)
             b == Len(v)
             x == f[k - 1]
             y == f[k]
             z == f[N]
  <2>1. u \in Text /\ v \in Text /\ a \in Nat /\ b \in Nat /\ w = u \o v
    BY <1>2, <1>3
  <2>2. /\ Len(w) = a + b /\ (\A n \in 1 .. a : w[n] = u[n] /\ n \in 1 .. Len(w))
        /\ (\A n \in 1 .. b : w[a + n] = v[n] /\ a + n \in 1 .. Len(w))
    <3> HIDE DEF u, v, w
    <3>1. QED
      BY <2>1, BothFacts
  <2>3. k \in 0 .. N /\ k - 1 \in 0 .. N
    BY <1>1
  <2>4. /\ x \in Nat /\ y \in Nat /\ z \in Nat /\ y = x + Len(w) /\ y <= z /\ Len(cs) = z
        /\ \A n \in 1 .. Len(w) : cs[x + n] = w[n]
    <3>1. N \in 0 .. N
      BY <1>1
    <3>2. x \in Nat /\ y \in Nat /\ z \in Nat
      <4> HIDE DEF N
      <4>1. QED
        BY <1>7, <2>3, <3>1
    <3>3. y = x + Len(w)
      BY <1>7
    <3>4. y <= z /\ Len(cs) = z
      BY <1>7, <2>3
    <3>5. \A n \in 1 .. Len(w) : cs[x + n] = w[n]
      BY <1>7
    <3>6. QED
      BY <3>2, <3>3, <3>4, <3>5
  <2> HIDE DEF u, v, w, a, b, x, y, z
  <2>5. y = x + a + b /\ x + 1 + a <= z + 1 /\ x + a + 1 + b <= z + 1
    BY <2>1, <2>2, <2>4
  <2>6. \A n \in 1 .. a : cs[x + 1 + n - 1] = u[n]
    <3>1. TAKE n \in 1 .. a
    <3>2. x + 1 + n - 1 = x + n
      BY <2>1, <2>4
    <3>3. QED
      BY <2>2, <2>4, <3>2
  <2>7. \A n \in 1 .. b : cs[x + a + 1 + n - 1] = v[n]
    <3>1. TAKE n \in 1 .. b
    <3>2. x + a + 1 + n - 1 = x + (a + n)
      BY <2>1, <2>4
    <3>3. QED
      BY <2>2, <2>4, <3>2
  <2>8. Holds(cs, x + 1, u) /\ Holds(cs, x + a + 1, v)
    BY <2>4, <2>5, <2>6, <2>7 DEF Holds, a, b
  <2>9. QED
    BY <2>4, <2>5, <2>8 DEF u, v, a, b, x, y
<1>9. Laid(toks, cs, f)
  BY <1>7, <1>8 DEF Laid
<1>10. QED
  BY <1>5, <1>9

(* The tokenizer before the k-th gap, with the tokens before it.                *)
Before(toks, f, k) == Place(f[k - 1] + 1, LineBefore(toks, k), SubSeq(toks, 1, k - 1))

(* What is known of the k-th token as it is laid.                               *)
LEMMA LaidFacts ==
  ASSUME NEW toks, Readable(toks), NEW cs, NEW f, Laid(toks, cs, f), NEW k \in 1 .. Len(toks)
  PROVE  /\ cs \in Text /\ Len(cs) \in Nat /\ f[k - 1] \in Nat /\ f[k] \in Nat /\ f[k] <= Len(cs)
         /\ f[k] = f[k - 1] + Len(Gap(toks, k)) + Len(SpelledOut(toks[k]))
         /\ Holds(cs, f[k - 1] + 1, Gap(toks, k)) /\ Holds(cs, f[k - 1] + Len(Gap(toks, k)) + 1, SpelledOut(toks[k]))
         /\ toks[k] \in Tokens /\ Fits(toks, k) /\ Well(toks[k]) /\ SpelledOut(toks[k]) \in Text /\ Len(SpelledOut(toks[k])) \in Nat
         /\ LineBefore(toks, k) \in Nat /\ toks[k].line \in Nat
         /\ SubSeq(toks, 1, k - 1) \in Seq(Tokens)
         /\ SubSeq(toks, 1, k) = Append(SubSeq(toks, 1, k - 1), toks[k])
         /\ Boundary(SubSeq(toks, 1, k - 1)) <=> (k = 1 \/ toks[k - 1].kind \in Ending)
<1> DEFINE N == Len(toks)
           q == SubSeq(toks, 1, k - 1)
<1>1. toks \in Seq(Tokens) /\ N \in Nat /\ toks[k] \in Tokens /\ Fits(toks, k)
  BY DEF Readable
<1>2. k \in 0 .. N /\ k - 1 \in 0 .. N /\ k - 1 < N /\ (k - 1) + 1 = k /\ k \in 1 .. N + 1
  BY <1>1
<1>3. cs \in Text /\ Len(cs) \in Nat
  BY Elements DEF Laid
<1>4. f[k - 1] \in Nat /\ f[k] \in Nat
  BY <1>2 DEF Laid
<1>5. q \in Seq(Tokens) /\ Len(q) = k - 1 /\ \A n \in 1 .. k - 1 : q[n] = toks[n]
  BY <1>1, <1>2, PrefixFacts
<1>6. SubSeq(toks, 1, k) = Append(q, toks[k])
  <2> DEFINE m == k - 1
  <2>1. m \in 0 .. N /\ m < N /\ m + 1 = k
    BY <1>2
  <2> HIDE DEF m
  <2>2. SubSeq(toks, 1, m + 1) = Append(SubSeq(toks, 1, m), toks[m + 1])
    BY <1>1, <2>1, PrefixFacts
  <2>3. QED
    BY <2>1, <2>2 DEF m
<1>7. Boundary(q) <=> (k = 1 \/ toks[k - 1].kind \in Ending)
  <2>1. CASE k = 1
    <3>1. q = <<>>
      BY <1>5, <2>1
    <3>2. QED
      BY <2>1, <3>1 DEF Boundary
  <2>2. CASE k # 1
    <3> DEFINE m == k - 1
    <3>1. m \in 1 .. m /\ m # 0
      BY <1>2, <2>2
    <3>2. q # <<>> /\ Len(q) = m /\ q[m] = toks[m]
      BY <1>5, <3>1
    <3> HIDE DEF q, m
    <3>3. Boundary(q) <=> toks[m].kind \in Ending
      BY <3>2 DEF Boundary, Ending
    <3>4. QED
      BY <2>2, <3>3 DEF m
  <2>3. QED
    BY <2>1, <2>2
<1>8. SpelledOut(toks[k]) \in Text /\ Len(SpelledOut(toks[k])) \in Nat /\ toks[k].line \in Nat /\ Well(toks[k])
  BY <1>1, SpelledText DEF Tokens, Fits
<1>9. LineBefore(toks, k) \in Nat
  BY <1>1, <1>2, LineBeforeType
<1>10. /\ f[k] <= Len(cs) /\ f[k] = f[k - 1] + Len(Gap(toks, k)) + Len(SpelledOut(toks[k]))
       /\ Holds(cs, f[k - 1] + 1, Gap(toks, k)) /\ Holds(cs, f[k - 1] + Len(Gap(toks, k)) + 1, SpelledOut(toks[k]))
  BY DEF Laid
<1>11. QED
  BY <1>1, <1>3, <1>4, <1>5, <1>6, <1>7, <1>8, <1>9, <1>10

(* The gap is skipped: what follows is the token, on its line.                  *)
LEMMA GapScanned ==
  ASSUME NEW toks, Readable(toks), NEW cs, NEW f, Laid(toks, cs, f), NEW h, Turns(cs, h), NEW k \in 1 .. Len(toks),
         NEW n \in 0 .. f[k - 1], h[n] = Before(toks, f, k), NEW g, g = Len(Gap(toks, k))
  PROVE  /\ h[n + g] = Place(f[k - 1] + g + 1, toks[k].line, SubSeq(toks, 1, k - 1))
         /\ g \in Nat /\ g >= 1 /\ n + g <= Len(cs)
<1> DEFINE w == Gap(toks, k)
           x == f[k - 1]
           p == x + 1
           l == LineBefore(toks, k)
           q == SubSeq(toks, 1, k - 1)
           b == Len(SpelledOut(toks[k]))
           y == f[k]
           z == Len(cs)
<1>1. /\ cs \in Text /\ z \in Nat /\ x \in Nat /\ y \in Nat /\ y <= z /\ y = x + g + b /\ b \in Nat /\ l \in Nat /\ q \in Seq(Tokens)
      /\ Holds(cs, p, w)
  BY LaidFacts
<1>2. w \in Text /\ g \in Nat /\ g >= 1 /\ (\A m \in 1 .. g : w[m] \in Blanks) /\ l + (LineAfter(w) - 1) = toks[k].line
  BY GapFacts
<1>3. Newlines(cs, p, p + g) = LineAfter(w) - 1
  <2>1. p \in Nat /\ 1 <= p
    BY <1>1, SMTT(30)
  <2> HIDE DEF p, w
  <2>2. Newlines(cs, p, p + Len(w)) = LineAfter(w) - 1
    BY <1>1, <1>2, <2>1, HeldLines
  <2>3. QED
    BY <2>2 DEF w
<1>4. h[n] = Place(p, l, q)
  BY DEF Before
<1> HIDE DEF x, l, q, b, y, z
<1>5. n \in Nat /\ n <= x
  BY <1>1 DEF x
<1>6. p \in Nat /\ 1 <= p /\ p + g <= z + 1 /\ n + g <= z + 1 /\ n + g <= z /\ p + g = x + g + 1
  BY <1>1, <1>2, <1>5
<1>7. \A m \in p .. p + g - 1 : cs[m] \in Blanks
  <2>1. TAKE m \in p .. p + g - 1
  <2> DEFINE i == m - p + 1
  <2>2. i \in 1 .. g /\ p + i - 1 = m
    BY <1>2, <1>6, SMTT(30)
  <2> HIDE DEF i, p
  <2>3. cs[p + i - 1] = w[i]
    BY <1>1, <2>2 DEF Holds
  <2>4. QED
    BY <1>2, <2>2, <2>3
<1> HIDE DEF p, w
<1>8. h[n + g] = Place(p + g, l + Newlines(cs, p, p + g), q)
  <2>1. p + g <= Len(cs) + 1 /\ n + g <= Len(cs) + 1
    BY <1>6 DEF z
  <2>2. \A m \in p .. p + g - 1 : cs[m] \in Blanks
    BY <1>7
  <2>3. p \in Nat /\ 1 <= p /\ g \in Nat /\ n \in Nat /\ l \in Nat /\ q \in Seq(Tokens) /\ cs \in Text /\ h[n] = Place(p, l, q)
    BY <1>1, <1>2, <1>4, <1>5, <1>6
  <2>4. Turns(cs, h)
    OBVIOUS
  <2>5. BeforeBlanks(cs, h, n, p, l, q, g)
    BY <2>1, <2>2, <2>3, <2>4, Zenon DEF BeforeBlanks
  <2>6. QED
    BY <2>5, BlanksScanned
<1>9. h[n + g] = Place(x + g + 1, toks[k].line, q)
  BY <1>2, <1>3, <1>6, <1>8
<1>10. QED
  BY <1>2, <1>6, <1>9 DEF x, q, z

(* The token is taken: the tokenizer is before the next gap.                    *)
LEMMA TokenTurned ==
  ASSUME NEW toks, Readable(toks), NEW cs, NEW f, Laid(toks, cs, f), NEW h, Turns(cs, h),
         NEW k \in 1 .. Len(toks), k # Len(toks), NEW n \in 0 .. f[k - 1], h[n] = Before(toks, f, k)
  PROVE  \E m \in 0 .. f[k] : h[m] = Before(toks, f, k + 1)
<1> DEFINE g == Len(Gap(toks, k))
           t == toks[k]
           v == SpelledOut(t)
           b == Len(v)
           x == f[k - 1]
           y == f[k]
           q == SubSeq(toks, 1, k - 1)
           p == x + g + 1
           i == n + g
           s == h[i]
<1>1. /\ cs \in Text /\ Len(cs) \in Nat /\ x \in Nat /\ y \in Nat /\ y <= Len(cs) /\ y = x + g + b
      /\ t \in Tokens /\ Fits(toks, k) /\ Well(t) /\ v \in Text /\ b \in Nat /\ t.line \in Nat
      /\ Holds(cs, p, v) /\ q \in Seq(Tokens) /\ SubSeq(toks, 1, k) = Append(q, t)
      /\ (Boundary(q) <=> (k = 1 \/ toks[k - 1].kind \in Ending))
  BY LaidFacts
<1>2. s = Place(p, t.line, q) /\ g \in Nat /\ g >= 1 /\ i <= Len(cs)
  BY GapScanned
<1>3. k + 1 \in 1 .. Len(toks) /\ (k + 1) - 1 = k /\ k + 1 # 1
  BY DEF Readable
<1>4. CharAt(cs, y + 1) \in Blanks
  <2> DEFINE w == Gap(toks, k + 1)
  <2>1. w \in Text /\ Len(w) \in Nat /\ Len(w) >= 1 /\ w[1] \in Blanks
    BY <1>3, GapFacts
  <2>2. Holds(cs, f[(k + 1) - 1] + 1, w)
    BY <1>3, LaidFacts
  <2>3. Holds(cs, y + 1, w)
    BY <1>3, <2>2
  <2> HIDE DEF w, y
  <2>4. y + 1 + Len(w) <= Len(cs) + 1 /\ cs[y + 1 + 1 - 1] = w[1]
    BY <2>1, <2>3 DEF Holds
  <2>5. y + 1 + 1 - 1 = y + 1 /\ y + 1 \in 1 .. Len(cs)
    <3> DEFINE c == Len(w)
               z == Len(cs)
    <3>1. y \in Nat /\ c \in Nat /\ z \in Nat /\ c >= 1 /\ y + 1 + c <= z + 1
      BY <1>1, <2>1, <2>4
    <3> HIDE DEF c, z
    <3>2. y + 1 + 1 - 1 = y + 1 /\ y + 1 \in 1 .. z
      BY <3>1
    <3>3. QED
      BY <3>2 DEF z
  <2>6. QED
    BY <1>1, <2>1, <2>4, <2>5, Elements
<1>5. t.kind # "eof" /\ (t.kind = "comment" => Boundary(q)) /\ (t.kind = "lparen" => ~ Boundary(q))
  <2>1. t.kind # "eof"
    BY DEF Readable
  <2>2. /\ (t.kind = "comment" => k = 1 \/ toks[k - 1].kind \in Ending)
        /\ (t.kind = "lparen" => ~ (k = 1 \/ toks[k - 1].kind \in Ending))
    BY <1>1 DEF Fits
  <2>3. QED
    BY <1>1, <2>1, <2>2
<1>6. LineBefore(toks, k + 1) = t.line + LineAfter(v) - 1
  BY <1>3 DEF LineBefore
<1>7. n \in Nat /\ n <= x
  BY <1>1
<1>8. Before(toks, f, k + 1) = Place(y + 1, t.line + LineAfter(v) - 1, Append(q, t))
  BY <1>1, <1>3, <1>6 DEF Before
<1> HIDE DEF g, t, v, b, x, y, q
<1>9. p \in Nat /\ 1 <= p /\ p + b = y + 1 /\ i \in Nat /\ i + 1 \in 1 .. Len(cs) + 1 /\ i \in 0 .. Len(cs) + 1 /\ (i + 1) - 1 = i
  BY <1>1, <1>2, <1>7
<1>10. h[i + 1] = Scan(cs, s) /\ Reading(cs, s)
  BY <1>9 DEF Turns
<1> HIDE DEF p, i, s
<1>11. s.at = p /\ s.line = t.line /\ s.toks = q /\ ~ s.over
  BY <1>2 DEF Place
<1>12. Holds(cs, s.at, v) /\ CharAt(cs, s.at + b) \in Blanks /\ s \in State
  BY <1>1, <1>4, <1>9, <1>10, <1>11 DEF Reading
<1>13. Standing(cs, s, t)
  BY <1>1, <1>5, <1>9, <1>11, <1>12 DEF Standing, v, b
<1>14. Scan(cs, s) = [at |-> s.at + b, line |-> t.line + (LineAfter(v) - 1), toks |-> Append(s.toks, t), over |-> FALSE]
  BY <1>13, TokenScanned DEF v, b
<1>15. b >= 1
  <2>1. Scan(cs, s).at = p + b /\ ~ Scan(cs, s).over
    BY <1>11, <1>14
  <2>2. Scan(cs, s).at > s.at
    BY <1>1, <1>10, <1>11, <2>1, ScanReads
  <2>3. p + b > p
    BY <1>11, <2>1, <2>2
  <2>4. QED
    BY <1>1, <1>9, <2>3
<1> DEFINE l == LineAfter(v)
<1>16. l \in Nat
  BY <1>1, SpelledText DEF v
<1>17. t.line + (l - 1) = t.line + l - 1
  <2> HIDE DEF l
  <2>1. QED
    BY <1>1, <1>16
<1>18. h[i + 1] = Before(toks, f, k + 1)
  BY <1>8, <1>9, <1>10, <1>11, <1>14, <1>17 DEF Place
<1>19. i + 1 \in 0 .. y
  BY <1>1, <1>2, <1>7, <1>15 DEF i
<1>20. QED
  BY <1>18, <1>19 DEF y

(* The end is found where the last token is spelled.                            *)
LEMMA EndTurned ==
  ASSUME NEW toks, Readable(toks), NEW cs, NEW f, Laid(toks, cs, f), NEW h, Turns(cs, h), NEW k, k = Len(toks),
         NEW n \in 0 .. f[k - 1], h[n] = Before(toks, f, k)
  PROVE  \E m \in 0 .. Len(cs) + 1 : h[m].over /\ h[m].toks = toks
<1> DEFINE g == Len(Gap(toks, k))
           t == toks[k]
           b == Len(SpelledOut(t))
           x == f[k - 1]
           y == f[k]
           q == SubSeq(toks, 1, k - 1)
           p == x + g + 1
           i == n + g
           s == h[i]
<1>1. toks \in Seq(Tokens) /\ k \in 1 .. Len(toks) /\ Len(toks) \in Nat
  <2>1. toks \in Seq(Tokens) /\ toks # <<>>
    BY DEF Readable
  <2>2. QED
    BY <2>1, EmptySeq
<1>2. /\ cs \in Text /\ Len(cs) \in Nat /\ x \in Nat /\ y \in Nat /\ y = x + g + b
      /\ t \in Tokens /\ Well(t) /\ b \in Nat /\ t.line \in Nat
      /\ q \in Seq(Tokens) /\ SubSeq(toks, 1, k) = Append(q, t)
  BY <1>1, LaidFacts
<1>3. s = Place(p, t.line, q) /\ g \in Nat /\ g >= 1 /\ i <= Len(cs)
  BY <1>1, GapScanned
<1>4. t.kind = "eof" /\ t.text = <<>> /\ b = 0
  <2>1. t.kind = "eof"
    BY <1>1 DEF Readable
  <2>2. t.text = <<>>
    BY <1>2, <2>1 DEF Well
  <2>3. SpelledOut(t) = <<>>
    BY <2>1, <2>2 DEF SpelledOut
  <2>4. QED
    BY <2>1, <2>2, <2>3
<1>5. y = Len(cs)
  BY DEF Laid
<1>6. n \in Nat
  BY <1>2
<1>7. Token("eof", <<>>, t.line) = t
  BY <1>2, <1>4 DEF Token, Tokens
<1>8. SubSeq(toks, 1, k) = toks
  <2>1. k \in 0 .. Len(toks)
    BY <1>1
  <2>2. SubSeq(toks, 1, k) \in Seq(Tokens) /\ Len(SubSeq(toks, 1, k)) = k /\ \A m \in 1 .. k : SubSeq(toks, 1, k)[m] = toks[m]
    BY <1>1, <2>1, PrefixFacts
  <2> DEFINE u == SubSeq(toks, 1, k)
  <2> HIDE DEF u
  <2>3. u \in Seq(Tokens) /\ Len(u) = Len(toks) /\ \A m \in 1 .. Len(u) : u[m] = toks[m]
    BY <2>2 DEF u
  <2>4. u = toks
    BY <1>1, <2>3, SeqEqual
  <2>5. QED
    BY <2>4 DEF u
<1> HIDE DEF g, t, b, x, y, q
<1>9. p = Len(cs) + 1 /\ i \in Nat /\ i + 1 \in 1 .. Len(cs) + 1 /\ i \in 0 .. Len(cs) + 1 /\ i + 1 \in 0 .. Len(cs) + 1 /\ (i + 1) - 1 = i
  <2> DEFINE z == Len(cs)
  <2>1. z \in Nat /\ x \in Nat /\ g \in Nat /\ z = x + g + 0 /\ n \in Nat /\ n + g <= z
    BY <1>2, <1>3, <1>4, <1>5, <1>6
  <2> HIDE DEF z
  <2>2. p = z + 1 /\ i \in Nat /\ i + 1 \in 1 .. z + 1 /\ i \in 0 .. z + 1 /\ i + 1 \in 0 .. z + 1 /\ (i + 1) - 1 = i
    BY <2>1
  <2>3. QED
    BY <2>2 DEF z
<1>10. h[i + 1] = Scan(cs, s) /\ Reading(cs, s)
  BY <1>9 DEF Turns
<1> HIDE DEF p, s
<1>11. s.at = p /\ s.line = t.line /\ s.toks = q /\ ~ s.over /\ s \in State
  BY <1>3, <1>10 DEF Place, Reading
<1>12. CharAt(cs, s.at) = "end"
  BY <1>2, <1>9, <1>11, Elements
<1>13. Scan(cs, s) = Finish(s)
  BY <1>11, <1>12, ScanBranches
<1>14. Finish(s).over /\ Finish(s).toks = Append(q, t)
  BY <1>7, <1>11 DEF Finish
<1>15. h[i + 1].over /\ h[i + 1].toks = toks
  BY <1>2, <1>8, <1>10, <1>13, <1>14
<1>16. QED
  BY <1>9, <1>15

(* What has ended stays ended.                                                 *)
LEMMA OverStays ==
  ASSUME NEW cs \in Text, NEW h, Turns(cs, h), NEW m \in 0 .. Len(cs) + 1, h[m].over
  PROVE  Tokenize(cs) = h[m].toks
<1> DEFINE N == Len(cs) + 1
           M == N - m
           I == {d \in 0 .. M : h[m + d] = h[m]}
<1>1. N \in Nat /\ M \in Nat /\ m \in Nat /\ m + M = N
  BY Elements
<1>2. (\A k \in 1 .. N : h[k] = Scan(cs, h[k - 1])) /\ (\A k \in 0 .. N : Reading(cs, h[k])) /\ Tokenize(cs) = h[N].toks
  BY DEF Turns
<1> HIDE DEF N, M
<1>3. 0 \in I
  BY <1>1
<1>4. ASSUME NEW d \in 0 .. M - 1, d \in I PROVE d + 1 \in I
  <2>1. m + (d + 1) \in 1 .. N /\ m + (d + 1) - 1 = m + d /\ m + d \in 0 .. N /\ d + 1 \in 0 .. M
    BY <1>1
  <2>2. h[m + (d + 1)] = Scan(cs, h[m + d]) /\ Reading(cs, h[m + d]) /\ h[m + d] = h[m]
    BY <1>2, <1>4, <2>1
  <2>3. Scan(cs, h[m]) = h[m]
    BY <2>2, ScanReads
  <2>4. QED
    BY <2>1, <2>2, <2>3
<1>5. M \in I
  <2> HIDE DEF I
  <2>1. \A d \in 0 .. M : d \in I
    BY <1>1, <1>3, <1>4, UpTo
  <2>2. QED
    BY <1>1, <2>1
<1>6. h[N] = h[m]
  BY <1>1, <1>5
<1>7. QED
  BY <1>2, <1>6

(* Tokens that can be written out are read again as they are.                   *)
LEMMA Rescanned ==
  ASSUME NEW toks, Readable(toks)
  PROVE  Tokenize(Respelled(toks)) = toks
<1> DEFINE cs == Respelled(toks)
           N == Len(toks)
<1>1. PICK f : Laid(toks, cs, f)
  BY RespelledLaid
<1>2. cs \in Text
  BY <1>1 DEF Laid
<1>3. PICK h : Turns(cs, h)
  BY <1>2, TurnsExist
<1> HIDE DEF cs
<1> DEFINE I == {k \in 0 .. N - 1 : \E n \in 0 .. f[k] : h[n] = Before(toks, f, k + 1)}
<1>4. N \in Nat /\ N >= 1 /\ N - 1 \in Nat
  <2>1. toks \in Seq(Tokens) /\ toks # <<>>
    BY DEF Readable
  <2>2. QED
    BY <2>1, EmptySeq
<1>5. 0 \in I
  <2>1. f[0] = 0 /\ h[0] = Fresh
    BY <1>1, <1>3 DEF Laid, Turns
  <2>2. LineBefore(toks, 1) = 1
    BY DEF LineBefore
  <2>3. SubSeq(toks, 1, 0) = <<>>
    <3>1. toks \in Seq(Tokens) /\ 0 \in 0 .. N
      BY <1>4 DEF Readable
    <3>2. SubSeq(toks, 1, 0) \in Seq(Tokens) /\ Len(SubSeq(toks, 1, 0)) = 0
      BY <3>1, PrefixFacts
    <3>3. QED
      BY <3>2, EmptySeq
  <2>4. Before(toks, f, 1) = Fresh
    <3>1. 1 - 1 = 0 /\ 0 + 1 = 1
      OBVIOUS
    <3>2. f[1 - 1] + 1 = 1 /\ SubSeq(toks, 1, 1 - 1) = <<>>
      BY <2>1, <2>3, <3>1, Zenon
    <3>3. QED
      BY <2>2, <3>2, Zenon DEF Before, Place, Fresh
  <2>5. 0 \in 0 .. f[0] /\ 0 + 1 = 1 /\ 0 \in 0 .. N - 1
    BY <1>4, <2>1
  <2>6. QED
    BY <2>1, <2>4, <2>5
<1>6. ASSUME NEW k \in 0 .. (N - 1) - 1, k \in I PROVE k + 1 \in I
  <2> DEFINE j == k + 1
  <2>1. j \in 1 .. N /\ j # N /\ j - 1 = k /\ j \in 0 .. N - 1
    BY <1>4
  <2>2. PICK n \in 0 .. f[k] : h[n] = Before(toks, f, j)
    BY <1>6
  <2> HIDE DEF j
  <2>3. n \in 0 .. f[j - 1]
    BY <2>1, <2>2
  <2>4. \E m \in 0 .. f[j] : h[m] = Before(toks, f, j + 1)
    BY <1>1, <1>3, <2>1, <2>2, <2>3, TokenTurned
  <2>5. j \in I
    BY <2>1, <2>4
  <2>6. QED
    BY <2>5 DEF j
<1>7. PICK n \in 0 .. f[N - 1] : h[n] = Before(toks, f, N)
  <2> HIDE DEF I
  <2>1. \A k \in 0 .. N - 1 : k \in I
    BY <1>4, <1>5, <1>6, UpTo
  <2>2. N - 1 \in 0 .. N - 1 /\ (N - 1) + 1 = N
    BY <1>4
  <2>3. N - 1 \in I
    BY <2>1, <2>2
  <2>4. \E n \in 0 .. f[N - 1] : h[n] = Before(toks, f, (N - 1) + 1)
    BY <2>3 DEF I
  <2>5. QED
    BY <2>2, <2>4
<1>8. PICK m \in 0 .. Len(cs) + 1 : h[m].over /\ h[m].toks = toks
  BY <1>1, <1>3, <1>7, EndTurned
<1>9. Tokenize(cs) = toks
  BY <1>2, <1>3, <1>8, OverStays
<1>10. QED
  BY <1>9 DEF cs

------------------------------------------------------------------------------
(* Without comments.                                                           *)

(* plain is toks without its comments: f says how many are left of the first k. *)
Plain(toks, plain, f) ==
  /\ f \in [0 .. Len(toks) -> Nat] /\ f[0] = 0 /\ plain \in Seq(Tokens) /\ Len(plain) = f[Len(toks)]
  /\ \A k \in 1 .. Len(toks) :
       /\ toks[k].kind = "comment" => f[k] = f[k - 1]
       /\ toks[k].kind # "comment" => f[k] = f[k - 1] + 1 /\ plain[f[k]] = toks[k]

(* The tokens that are left stand one after the other.                          *)
LEMMA UncommentedPlain ==
  ASSUME NEW toks \in Seq(Tokens)
  PROVE  \E f : Plain(toks, Uncommented(toks), f)
<1> DEFINE N == Len(toks)
           pieces == [k \in DOMAIN toks |-> IF toks[k].kind = "comment" THEN <<>> ELSE <<toks[k]>>]
           plain == FlattenSeq(pieces)
<1>1. N \in Nat /\ DOMAIN toks = 1 .. N /\ \A k \in 1 .. N : toks[k] \in Tokens
  OBVIOUS
<1>2. \A k \in 1 .. N : pieces[k] = IF toks[k].kind = "comment" THEN <<>> ELSE <<toks[k]>>
  BY <1>1
<1>3. Len(pieces) = N /\ pieces \in Seq(Seq(Tokens))
  <2>1. \A k \in 1 .. N : pieces[k] \in Seq(Tokens)
    BY <1>1, <1>2
  <2>2. DOMAIN pieces = 1 .. N /\ pieces = [k \in 1 .. N |-> pieces[k]]
    BY <1>1
  <2> HIDE DEF pieces
  <2>3. QED
    BY <1>1, <2>1, <2>2
<1>4. Uncommented(toks) = plain
  BY DEF Uncommented
<1> HIDE DEF pieces
<1>5. PICK f : Flat(Tokens, pieces, f)
  BY <1>3, FlattenFacts
<1>6. /\ f \in [0 .. N -> Nat] /\ f[0] = 0 /\ \A k \in 1 .. N : f[k] = f[k - 1] + Len(pieces[k])
      /\ plain \in Seq(Tokens) /\ Len(plain) = f[N]
      /\ \A k \in 1 .. N : \A n \in 1 .. Len(pieces[k]) : plain[f[k - 1] + n] = pieces[k][n]
  BY <1>3, <1>5 DEF Flat
<1> HIDE DEF plain
<1>7. ASSUME NEW k \in 1 .. N
      PROVE  /\ toks[k].kind = "comment" => f[k] = f[k - 1]
             /\ toks[k].kind # "comment" => f[k] = f[k - 1] + 1 /\ plain[f[k]] = toks[k]
  <2>1. f[k] = f[k - 1] + Len(pieces[k]) /\ \A n \in 1 .. Len(pieces[k]) : plain[f[k - 1] + n] = pieces[k][n]
    BY <1>6
  <2>2. f[k - 1] \in Nat
    <3>1. k - 1 \in 0 .. N
      BY <1>1
    <3>2. QED
      BY <1>6, <3>1
  <2>3. CASE toks[k].kind = "comment"
    <3>1. Len(pieces[k]) = 0
      <4>1. pieces[k] = <<>>
        BY <1>2, <2>3
      <4>2. QED
        BY <4>1
    <3>2. QED
      BY <2>1, <2>2, <2>3, <3>1
  <2>4. CASE toks[k].kind # "comment"
    <3>1. Len(pieces[k]) = 1 /\ pieces[k][1] = toks[k]
      <4>1. pieces[k] = <<toks[k]>>
        BY <1>2, <2>4
      <4>2. QED
        BY <4>1
    <3>2. f[k] = f[k - 1] + 1
      BY <2>1, <3>1
    <3>3. plain[f[k - 1] + 1] = toks[k]
      BY <2>1, <3>1
    <3>4. QED
      BY <2>4, <3>2, <3>3
  <2>5. QED
    BY <2>3, <2>4
<1>8. Plain(toks, plain, f)
  BY <1>6, <1>7 DEF Plain
<1>9. QED
  BY <1>4, <1>8

(* Of the first k tokens, those that are left fit and end where those did, or   *)
(* before.                                                                     *)
PlainFits(toks, plain, f, k) ==
  /\ \A m \in 1 .. f[k] : Fits(plain, m) /\ (plain[m].kind = "eof" <=> (k = Len(toks) /\ m = f[k]))
  /\ LineBefore(plain, f[k] + 1) <= LineBefore(toks, k + 1)

(* The next token fits too.                                                    *)
LEMMA PlainGrows ==
  ASSUME NEW toks, Readable(toks), NEW plain, NEW f, Plain(toks, plain, f), NEW j \in 1 .. Len(toks), NEW k, k = j - 1,
         PlainFits(toks, plain, f, k)
  PROVE  PlainFits(toks, plain, f, j)
<1> DEFINE N == Len(toks)
           t == toks[j]
           b == LineBefore(toks, j)
           l == LineAfter(SpelledOut(t))
           x == f[k]
           y == f[j]
           c == LineBefore(plain, x + 1)
<1>1. toks \in Seq(Tokens) /\ N \in Nat /\ t \in Tokens /\ Fits(toks, j) /\ (t.kind = "eof" <=> j = N)
  BY DEF Readable
<1>2. k \in 0 .. N /\ k + 1 = j /\ j \in 0 .. N /\ j + 1 # 1 /\ (j + 1) - 1 = j /\ k # N
  BY <1>1
<1>3. x \in Nat /\ y \in Nat /\ Len(plain) \in Nat
  <2>1. f \in [0 .. N -> Nat] /\ plain \in Seq(Tokens)
    BY DEF Plain
  <2>2. QED
    BY <1>2, <2>1
<1>4. t.line \in Nat /\ l \in Nat /\ l >= 1
  BY <1>1, SpelledText DEF Tokens
<1>5. b \in Nat /\ b <= t.line
  <2>1. j \in 1 .. Len(toks) + 1
    BY <1>1
  <2>2. QED
    BY <1>1, <2>1, LineBeforeType DEF Fits
<1>6. LineBefore(toks, j + 1) = t.line + l - 1
  BY <1>2 DEF LineBefore
<1>7. (\A m \in 1 .. x : Fits(plain, m) /\ plain[m].kind # "eof") /\ c <= b
  BY <1>2 DEF PlainFits
<1>8. x <= Len(plain)
  <2> DEFINE I == {n \in 0 .. N - k : f[k + n] >= x}
  <2>1. 0 \in I
    BY <1>2, <1>3
  <2>2. ASSUME NEW n \in 0 .. (N - k) - 1, n \in I PROVE n + 1 \in I
    <3> DEFINE h == k + n
    <3>1. h \in 0 .. N /\ h + 1 \in 0 .. N /\ h + 1 \in 1 .. N /\ (h + 1) - 1 = h /\ h + 1 = k + (n + 1) /\ n + 1 \in 0 .. N - k
      BY <1>1, <1>2
    <3> HIDE DEF h
    <3>2. f[h] \in Nat /\ f[h + 1] \in Nat
      BY <3>1 DEF Plain
    <3>3. f[h + 1] = f[h] \/ f[h + 1] = f[h] + 1
      <4>1. f[h + 1] = f[(h + 1) - 1] \/ f[h + 1] = f[(h + 1) - 1] + 1
        BY <3>1 DEF Plain
      <4>2. QED
        BY <3>1, <4>1
    <3>4. f[h] >= x
      BY <2>2 DEF h
    <3>5. f[h + 1] >= x
      <4> DEFINE u == f[h]
                 v == f[h + 1]
      <4>1. u \in Nat /\ v \in Nat /\ (v = u \/ v = u + 1) /\ u >= x
        BY <3>2, <3>3, <3>4
      <4> HIDE DEF u, v, x
      <4>2. v >= x
        BY <1>3, <4>1
      <4>3. QED
        BY <4>2 DEF v
    <3>6. QED
      BY <3>1, <3>5
  <2>3. N - k \in I
    <3> HIDE DEF I
    <3>1. N - k \in Nat
      BY <1>1, <1>2
    <3>2. \A n \in 0 .. N - k : n \in I
      BY <2>1, <2>2, <3>1, UpTo
    <3>3. QED
      BY <3>1, <3>2
  <2>4. f[k + (N - k)] >= x /\ k + (N - k) = N
    BY <1>1, <1>2, <2>3
  <2>5. QED
    BY <2>4 DEF Plain
<1>9. CASE t.kind = "comment"
  <2>1. y = x
    BY <1>9 DEF Plain
  <2>2. j # N
    BY <1>1, <1>9
  <2> HIDE DEF x, l, b
  <2>3. b <= t.line + l - 1
    BY <1>4, <1>5
  <2>4. c \in Nat
    <3>1. x + 1 \in 1 .. Len(plain) + 1
      BY <1>3, <1>8
    <3>2. QED
      BY <3>1, LineBeforeType DEF Plain
  <2> HIDE DEF c
  <2>5. c <= t.line + l - 1
    BY <1>4, <1>5, <1>7, <2>3, <2>4
  <2>6. LineBefore(plain, y + 1) <= LineBefore(toks, j + 1)
    BY <1>6, <2>1, <2>5 DEF c
  <2>7. \A m \in 1 .. y : Fits(plain, m) /\ plain[m].kind # "eof"
    BY <1>7, <2>1
  <2>8. QED
    BY <2>2, <2>6, <2>7 DEF PlainFits
<1>10. CASE t.kind # "comment"
  <2>1. y = x + 1 /\ plain[y] = t
    BY <1>10 DEF Plain
  <2>2. LineBefore(plain, y + 1) = LineBefore(toks, j + 1)
    <3>1. y + 1 # 1 /\ (y + 1) - 1 = y
      <4>1. x \in Nat /\ y = x + 1
        BY <1>3, <2>1
      <4> HIDE DEF x, y
      <4>2. QED
        BY <4>1
    <3>2. LineBefore(plain, y + 1) = plain[(y + 1) - 1].line + LineAfter(SpelledOut(plain[(y + 1) - 1])) - 1
      BY <3>1 DEF LineBefore
    <3>3. QED
      BY <1>6, <2>1, <3>1, <3>2
  <2>3. t.kind = "lparen" => ~ (y = 1 \/ plain[y - 1].kind \in Ending)
    <3>1. HAVE t.kind = "lparen"
    <3>2. ~ (j = 1 \/ toks[j - 1].kind \in Ending)
      BY <1>1, <3>1 DEF Fits
    <3>3. k \in 1 .. N /\ toks[k].kind \notin Ending
      BY <1>1, <1>2, <3>2
    <3>4. f[k] = f[k - 1] + 1 /\ plain[f[k]] = toks[k]
      BY <3>3 DEF Plain, Ending
    <3>5. f[k - 1] \in Nat
      <4>1. k - 1 \in 0 .. N
        BY <1>1, <3>3
      <4>2. QED
        BY <4>1 DEF Plain
    <3>6. y # 1 /\ y - 1 = x
      BY <1>3, <2>1, <3>4, <3>5
    <3>7. QED
      BY <3>3, <3>4, <3>6
  <2>4. Well(plain[y]) /\ LineBefore(plain, y) <= plain[y].line
    <3>1. Well(t)
      BY <1>1 DEF Fits
    <3>2. c \in Nat
      <4>1. x + 1 \in 1 .. Len(plain) + 1
        BY <1>3, <1>8
      <4>2. QED
        BY <4>1, LineBeforeType DEF Plain
    <3> HIDE DEF c, b
    <3>3. c <= t.line
      BY <1>4, <1>5, <1>7, <3>2
    <3>4. QED
      BY <2>1, <3>1, <3>3 DEF c
  <2>5. Fits(plain, y)
    BY <1>10, <2>1, <2>3, <2>4 DEF Fits
  <2>6. \A m \in 1 .. y : m = y \/ (m \in 1 .. x /\ m # y)
    BY <1>3, <2>1
  <2>7. \A m \in 1 .. y : Fits(plain, m) /\ (plain[m].kind = "eof" <=> (j = N /\ m = y))
    BY <1>1, <1>7, <2>1, <2>5, <2>6
  <2>8. LineBefore(toks, j + 1) <= LineBefore(toks, j + 1)
    <3>1. t.line + l - 1 \in Int
      BY <1>4
    <3>2. QED
      BY <1>6, <3>1
  <2>9. QED
    BY <2>2, <2>7, <2>8 DEF PlainFits
<1>11. QED
  BY <1>9, <1>10

(* Without its comments what can be written out can be.                         *)
LEMMA UncommentedReadable ==
  ASSUME NEW toks, Readable(toks)
  PROVE  Readable(Uncommented(toks))
<1> DEFINE N == Len(toks)
           plain == Uncommented(toks)
<1>1. toks \in Seq(Tokens) /\ N \in Nat /\ N >= 1
  <2>1. toks \in Seq(Tokens) /\ toks # <<>>
    BY DEF Readable
  <2>2. QED
    BY <2>1, EmptySeq
<1>2. PICK f : Plain(toks, plain, f)
  BY <1>1, UncommentedPlain
<1> HIDE DEF plain
<1> DEFINE I == {k \in 0 .. N : PlainFits(toks, plain, f, k)}
<1>3. 0 \in I
  <2>1. f[0] = 0
    BY <1>2 DEF Plain
  <2>2. \A m \in 1 .. f[0] : FALSE
    BY <2>1
  <2>3. f[0] + 1 = 1 /\ 0 + 1 = 1
    BY <2>1
  <2>4. LineBefore(plain, f[0] + 1) = 1 /\ LineBefore(toks, 0 + 1) = 1
    BY <2>3 DEF LineBefore
  <2>5. PlainFits(toks, plain, f, 0)
    BY <2>2, <2>4 DEF PlainFits
  <2>6. QED
    BY <1>1, <2>5
<1>4. ASSUME NEW k \in 0 .. N - 1, k \in I PROVE k + 1 \in I
  <2> DEFINE j == k + 1
  <2>1. j \in 1 .. N /\ k = j - 1 /\ j \in 0 .. N
    BY <1>1
  <2> HIDE DEF j
  <2>2. PlainFits(toks, plain, f, j)
    BY <1>2, <1>4, <2>1, PlainGrows
  <2>3. QED
    BY <2>1, <2>2 DEF j
<1>5. PlainFits(toks, plain, f, N)
  <2> HIDE DEF I
  <2>1. \A k \in 0 .. N : k \in I
    BY <1>1, <1>3, <1>4, UpTo
  <2>2. N \in I
    BY <1>1, <2>1
  <2>3. QED
    BY <2>2 DEF I
<1>6. plain \in Seq(Tokens) /\ Len(plain) = f[N]
  BY <1>2 DEF Plain
<1>7. plain # <<>>
  <2>1. toks[N].kind = "eof"
    BY <1>1 DEF Readable
  <2>2. N \in 1 .. N
    BY <1>1
  <2>3. f[N] = f[N - 1] + 1
    BY <1>2, <2>1, <2>2 DEF Plain
  <2>4. f[N - 1] \in Nat
    <3>1. N - 1 \in 0 .. N
      BY <1>1
    <3>2. QED
      BY <1>2, <3>1 DEF Plain
  <2>5. f[N] # 0
    BY <2>3, <2>4
  <2>6. QED
    BY <1>6, <2>5
<1>8. \A m \in 1 .. Len(plain) : Fits(plain, m) /\ (plain[m].kind = "eof" <=> m = Len(plain))
  BY <1>5, <1>6 DEF PlainFits
<1>9. Readable(plain)
  BY <1>6, <1>7, <1>8 DEF Readable
<1>10. QED
  BY <1>9 DEF plain

------------------------------------------------------------------------------
(* The theorems.                                                               *)

(* What is written is a text.                                                  *)
Written == alphabet \in Alphabets /\ source \in Seq(alphabet.characters)

(* A behaviour writes a text of the characters of its alphabet.                 *)
THEOREM WrittenText == KSpec => []Written
<1>1. KInit => Written
  BY DEF KInit, Written
<1>2. Written /\ [KNext]_sourceVars => Written'
  <2> SUFFICES ASSUME Written, [KNext]_sourceVars PROVE Written'
    OBVIOUS
  <2>1. ASSUME NEW c \in alphabet.characters, WriteCharacter(c) PROVE Written'
    BY <2>1 DEF WriteCharacter, Written
  <2>2. CASE UNCHANGED sourceVars
    BY <2>2 DEF sourceVars, Written
  <2>3. QED
    BY <2>1, <2>2 DEF KNext
<1>3. QED
  BY <1>1, <1>2, PTL DEF KSpec

(* Such a text is of characters.                                               *)
LEMMA SourceText ==
  ASSUME Written
  PROVE  source \in Text
<1>1. alphabet.characters \subseteq Characters
  BY DEF Written, Characters
<1>2. QED
  BY <1>1 DEF Written, Text

(* Tokens written out by themselves, on the lines they carry, are read as the   *)
(* same tokens on the same lines, and the end is on the last line.              *)
THEOREM LayoutDoesNotMatter == KSpec => []LayoutFree
<1>1. Written => LayoutFree
  <2> SUFFICES ASSUME Written PROVE LayoutFree
    OBVIOUS
  <2> DEFINE toks == Tokenize(source)
  <2>1. source \in Text
    BY SourceText
  <2>2. ASSUME toks # <<>> PROVE Tokenize(Respelled(toks)) = toks /\ toks[Len(toks)].line = LineAfter(source)
    BY <2>1, <2>2, TokenizedReadable, Rescanned
  <2>3. QED
    BY <2>2 DEF LayoutFree
<1>2. QED
  BY <1>1, WrittenText, PTL

(* Without its comments a text has the same other tokens.                       *)
THEOREM CommentsDoNotMatter == KSpec => []CommentsDropped
<1>1. Written => CommentsDropped
  <2> SUFFICES ASSUME Written PROVE CommentsDropped
    OBVIOUS
  <2> DEFINE toks == Tokenize(source)
             plain == Uncommented(toks)
  <2>1. source \in Text
    BY SourceText
  <2>2. ASSUME plain # <<>> PROVE Tokenize(Respelled(plain)) = plain
    <3>1. toks # <<>>
      <4> SUFFICES ASSUME toks = <<>> PROVE FALSE
        OBVIOUS
      <4>1. toks \in Seq(Tokens) /\ Len(toks) = 0
        OBVIOUS
      <4>2. PICK f : Plain(toks, plain, f)
        BY <4>1, UncommentedPlain
      <4>3. plain \in Seq(Tokens) /\ Len(plain) = 0
        BY <4>1, <4>2 DEF Plain
      <4> HIDE DEF plain
      <4>4. QED
        BY <2>2, <4>3, EmptySeq
    <3>2. Readable(toks)
      BY <2>1, <3>1, TokenizedReadable
    <3>3. Readable(plain)
      BY <3>2, UncommentedReadable
    <3>4. QED
      BY <3>3, Rescanned
  <2>3. QED
    BY <2>2 DEF CommentsDropped
<1>2. QED
  BY <1>1, WrittenText, PTL
==============================================================================
