--------------------------- MODULE TypeTablesProofs ---------------------------
(* Proofs about the tags and aliases of a program of any length: what sema     *)
(* accepts compiles in the order the emitter prints it, and what it refuses    *)
(* does not compile as it was written.                                         *)
EXTENDS TypeTables, TLAPS, WellFoundedInduction

------------------------------------------------------------------------------
(* Numbers and functions.                                                      *)

(* A set of numbers that is not empty has a least one.                         *)
LEMMA Least ==
  ASSUME NEW S \in SUBSET Nat, S # {}
  PROVE  \E m \in S : \A n \in S : m <= n
<1> DEFINE R == {ss \in Nat \X Nat : ss[1] < ss[2]}
<1>1. R = OpToRel(<, Nat)
  BY Zenon DEF OpToRel
<1>2. \A m, n \in Nat : m <= n \/ <<n, m>> \in R
  OBVIOUS
<1> HIDE DEF R
<1>3. IsWellFoundedOn(R, Nat)
  BY <1>1, NatLessThanWellFounded, Zenon
<1>4. PICK m \in S : \A n \in S : ~(<<n, m>> \in R)
  BY <1>3, WFMin, Zenon
<1>5. QED
  BY <1>2, <1>4, Zenon

(* A set of numbers with every number whose predecessors it has, has them all. *)
LEMMA StrongInduction ==
  ASSUME NEW S, \A n \in Nat : (\A m \in 0 .. n - 1 : m \in S) => n \in S
  PROVE  \A n \in Nat : n \in S
<1> SUFFICES ASSUME NEW k \in Nat, k \notin S PROVE FALSE
  OBVIOUS
<1>1. PICK m \in Nat \ S : \A n \in Nat \ S : m <= n
  <2>1. Nat \ S \in SUBSET Nat /\ Nat \ S # {}
    OBVIOUS
  <2>2. QED
    BY <2>1, Least
<1>2. \A n \in 0 .. m - 1 : n \in Nat /\ ~ (m <= n)
  BY <1>1
<1>3. QED
  BY <1>1, <1>2

------------------------------------------------------------------------------
(* The types of a program.                                                     *)

Written ==
  /\ program \in Seq(Declaration)
  /\ \A k \in DOMAIN program :
       /\ program[k].is \notin Tagged => program[k].types # <<>>
       /\ program[k].is = "enumeration" => program[k].types = <<>>

(* What an alias is taken for is a type.                                       *)
LEMMA AliasType ==
  ASSUME Written, NEW name, IsDeclared("alias", name)
  PROVE  AliasOf(name) \in Type
<1> DEFINE Defines(k) == program[k].is = "alias" /\ program[k].name = name
           S == {k \in DOMAIN program : Defines(k)}
<1>1. DOMAIN program = 1 .. Len(program) /\ Len(program) \in Nat
  BY DEF Written
<1>2. S \in SUBSET Nat /\ S # {}
  BY <1>1 DEF IsDeclared
<1>3. PICK k \in S : \A j \in S : k <= j
  BY <1>2, Least
<1>4. \A j \in 1 .. k - 1 : j \in DOMAIN program /\ ~ (k <= j)
  BY <1>1
<1>5. k \in DOMAIN program /\ Defines(k) /\ \A j \in 1 .. k - 1 : ~ Defines(j)
  BY <1>3, <1>4
<1> DEFINE c == CHOOSE i \in DOMAIN program : Defines(i) /\ \A j \in 1 .. i - 1 : ~ Defines(j)
<1>6. c \in DOMAIN program /\ Defines(c)
  BY <1>5
<1>7. AliasOf(name) = program[c].types[1]
  BY DEF AliasOf
<1> HIDE DEF c
<1>8. program[c] \in Declaration /\ program[c].types # <<>>
  BY <1>6 DEF Written, Tagged, Aggregates
<1>9. program[c].types \in Seq(Type)
  BY <1>8 DEF Declaration
<1>10. 1 \in 1 .. Len(program[c].types)
  BY <1>8, <1>9
<1>11. QED
  BY <1>7, <1>9, <1>10

(* One alias unfolded leaves a type.                                           *)
LEMMA UnfoldedType ==
  ASSUME Written, NEW t \in Type
  PROVE  Unfolded(t) \in Type
<1>1. CASE t.base[1] # "alias"
  BY <1>1 DEF Unfolded
<1>2. CASE t.base[1] = "alias" /\ IsDeclared("alias", t.base[2])
  <2> DEFINE a == AliasOf(t.base[2])
  <2>1. a \in Type
    BY <1>2, AliasType
  <2>2. Unfolded(t) = [wraps |-> t.wraps \o a.wraps, base |-> a.base]
    BY <1>2 DEF Unfolded
  <2> HIDE DEF a
  <2>3. t.wraps \o a.wraps \in Seq({"pointer", "array"})
    BY <2>1 DEF Type
  <2>4. QED
    BY <2>1, <2>2, <2>3 DEF Type
<1>3. CASE t.base[1] = "alias" /\ ~ IsDeclared("alias", t.base[2])
  <2>1. Unfolded(t) = [wraps |-> t.wraps, base |-> <<"void", t.base[2]>>]
    BY <1>3 DEF Unfolded
  <2>2. QED
    BY <2>1 DEF Type
<1>4. QED
  BY <1>1, <1>2, <1>3

Unfolding(t, n, f) == f = [i \in 0 .. n |-> IF i = 0 THEN t ELSE Unfolded(f[i - 1])]

(* A type can be unfolded any number of times.                                 *)
LEMMA UnfoldingExists ==
  ASSUME NEW t
  PROVE  \A n \in Nat : \E f : Unfolding(t, n, f)
<1> DEFINE S == {n \in Nat : \E f : Unfolding(t, n, f)}
<1>1. ASSUME NEW n \in Nat, \A m \in 0 .. n - 1 : m \in S
      PROVE  \E f : Unfolding(t, n, f)
  <2>1. CASE n = 0
    <3> DEFINE f == [i \in 0 .. n |-> t]
    <3>1. \A i \in 0 .. n : i = 0
      BY <2>1
    <3>2. Unfolding(t, n, f)
      BY <3>1 DEF Unfolding
    <3>3. QED
      BY <3>2
  <2>2. CASE n # 0
    <3>1. n - 1 \in 0 .. n - 1
      BY <2>2
    <3>2. PICK g : Unfolding(t, n - 1, g)
      BY <1>1, <3>1
    <3> DEFINE f == [i \in 0 .. n |-> IF i = n THEN Unfolded(g[n - 1]) ELSE g[i]]
    <3>3. \A i \in 0 .. n - 1 : f[i] = g[i] /\ g[i] = IF i = 0 THEN t ELSE Unfolded(g[i - 1])
      BY <3>2 DEF Unfolding
    <3>4. f[n] = Unfolded(g[n - 1]) /\ f = [i \in 0 .. n |-> f[i]]
      OBVIOUS
    <3> HIDE DEF f
    <3>5. ASSUME NEW i \in 0 .. n PROVE f[i] = IF i = 0 THEN t ELSE Unfolded(f[i - 1])
      <4>1. CASE i = n
        BY <2>2, <3>1, <3>3, <3>4, <4>1
      <4>2. CASE i = 0
        BY <2>2, <3>3, <4>2
      <4>3. CASE i # n /\ i # 0
        <5>1. i \in 0 .. n - 1 /\ i - 1 \in 0 .. n - 1
          BY <4>3
        <5>2. QED
          BY <3>3, <4>3, <5>1
      <4>4. QED
        BY <4>1, <4>2, <4>3
    <3>6. Unfolding(t, n, f)
      BY <3>4, <3>5 DEF Unfolding
    <3>7. QED
      BY <3>6
  <2>3. QED
    BY <2>1, <2>2
<1>2. \A n \in Nat : n \in S
  <2> HIDE DEF S
  <2>1. \A n \in Nat : (\A m \in 0 .. n - 1 : m \in S) => n \in S
    BY <1>1 DEF S
  <2>2. QED
    BY <2>1, StrongInduction
<1>3. QED
  BY <1>2

(* What sema resolves a type to is a type.                                     *)
LEMMA ResolvedType ==
  ASSUME Written, NEW t \in Type
  PROVE  Resolved(t) \in Type
<1> DEFINE N == Len(program) + 1
           f == CHOOSE g : Unfolding(t, N, g)
           S == {n \in Nat : n <= N => f[n] \in Type}
<1>1. N \in Nat
  BY DEF Written
<1>2. Unfolding(t, N, f)
  BY <1>1, UnfoldingExists
<1>3. Resolved(t) = f[N]
  BY DEF Resolved, Unfolding
<1> HIDE DEF f, N
<1>4. \A n \in 0 .. N : f[n] = IF n = 0 THEN t ELSE Unfolded(f[n - 1])
  BY <1>2 DEF Unfolding
<1>5. ASSUME NEW n \in Nat, \A m \in 0 .. n - 1 : m \in S, n <= N
      PROVE  f[n] \in Type
  <2>1. CASE n = 0
    BY <1>1, <1>4, <2>1
  <2>2. CASE n # 0
    <3>1. n - 1 \in 0 .. n - 1 /\ n - 1 <= N /\ n \in 0 .. N
      BY <1>1, <1>5, <2>2
    <3>2. f[n - 1] \in Type
      BY <1>5, <3>1
    <3>3. QED
      BY <1>4, <2>2, <3>1, <3>2, UnfoldedType
  <2>3. QED
    BY <2>1, <2>2
<1>6. N \in S
  <2> HIDE DEF S
  <2>1. \A n \in Nat : (\A m \in 0 .. n - 1 : m \in S) => n \in S
    BY <1>5 DEF S
  <2>2. QED
    BY <1>1, <2>1, StrongInduction
<1>7. QED
  BY <1>1, <1>3, <1>6

------------------------------------------------------------------------------
(* The invariant.                                                              *)

TagInfo == [is : Tagged \cup {"none"}, complete : BOOLEAN, flexible : BOOLEAN]
Typed ==
  /\ shelf \in Shelves /\ Written
  /\ step \in 0 .. Len(program) + 1
  /\ tags \in [Identifiers -> TagInfo]
  /\ refused \in BOOLEAN /\ printed \subseteq DOMAIN program

(* The registration passes had nothing to report.                              *)
Clean ==
  /\ ValidAliases
  /\ \A kind \in Tagged \cup {"alias", "procedure"} : ~ Twice(kind)
  /\ \A k \in DOMAIN program :
       /\ program[k].is \in Tagged => FirstKind(program[k].name) = program[k].is
       /\ program[k].is = "procedure" => ~ BadSignature(program[k])

(* What a declaration contains by value was printed before it.                 *)
Grounded(k) ==
  \A j \in DOMAIN program[k].types :
    LET t == Resolved(program[k].types[j]) IN
    \/ Pointing(t) \/ t.base[1] \notin Tagged
    \/ \E i \in printed : i < k /\ program[i].is = t.base[1] /\ program[i].name = t.base[2]

(* Every definition that is printed was checked, still would be, and says of    *)
(* its tag what the table does.                                                 *)
Settled ==
  \A k \in printed :
    /\ k < step /\ program[k].is \in Tagged
    /\ tags[program[k].name].is = program[k].is /\ tags[program[k].name].complete
    /\ tags[program[k].name].flexible <=> HandsOn(program[k])
    /\ FieldsChecked(program[k]) /\ Grounded(k)

(* A tag is of the kind that was registered, and complete only by a definition. *)
Based ==
  \A n \in Identifiers :
    /\ tags[n].is = FirstKind(n)
    /\ tags[n].complete => \E k \in printed : program[k].name = n

(* Without a diagnostic every definition so far is printed, every use complete.  *)
Accepted ==
  /\ Clean
  /\ \A k \in 1 .. step - 1 :
       /\ program[k].is \in Tagged => k \in printed
       /\ program[k].is \in {"declare", "size"} => UseChecked(program[k])

Cause ==
  \/ Twice("alias") \/ ~ ValidAliases
  \/ ~ Compiles(Source)
  \/ \E p \in DOMAIN Source : Source[p].is = "procedure"
       /\ (IsArray(Source[p].types[1]) \/ \E k \in 2 .. Len(Source[p].types) : IsVoid(Source[p].types[k]))

TInv ==
  /\ Typed
  /\ step = 0 => ~ refused /\ printed = {}
  /\ step > 0 => Settled /\ Based /\ (refused \/ Accepted) /\ (refused => Cause)

------------------------------------------------------------------------------
(* What depends on the program alone.                                          *)

(* Types are resolved alike before and after a step that adds no declaration.   *)
LEMMA ResolvedStays ==
  ASSUME UNCHANGED program, NEW t
  PROVE  Resolved(t)' = Resolved(t)
BY DEF Resolved, Unfolded, IsDeclared, AliasOf

(* So are the verdicts of the registration passes.                             *)
LEMMA CleanStays ==
  ASSUME UNCHANGED program
  PROVE  /\ Clean' = Clean
         /\ \A n : FirstKind(n)' = FirstKind(n)
         /\ \A kind : Twice(kind)' = Twice(kind)
         /\ ValidAliases' = ValidAliases
<1>1. ValidAliases' = ValidAliases
  BY DEF ValidAliases, Ending, IsAlias, AliasOf
<1>2. \A kind : Twice(kind)' = Twice(kind)
  BY DEF Twice
<1>3. \A n : FirstKind(n)' = FirstKind(n)
  BY DEF FirstKind, IsDeclared
<1>4. \A k : BadSignature(program[k])' = BadSignature(program[k])
  BY ResolvedStays DEF BadSignature
<1>5. Clean' = Clean
  BY <1>1, <1>2, <1>3, <1>4 DEF Clean
<1>6. QED
  BY <1>1, <1>2, <1>3, <1>5

(* And C's verdict on the program as it was written.                           *)
LEMMA CauseStays ==
  ASSUME UNCHANGED program
  PROVE  Cause' = Cause
<1>1. Source' = Source
  BY ResolvedStays DEF Source
<1>2. Compiles(Source)' = Compiles(Source)
  BY <1>1
<1>3. QED
  BY <1>1, <1>2, CleanStays DEF Cause

(* The declarations of a program.                                              *)
LEMMA DeclarationFields ==
  ASSUME Written, NEW k \in DOMAIN program
  PROVE  /\ program[k] \in Declaration
         /\ program[k].name \in Identifiers /\ program[k].flexible \in BOOLEAN
         /\ program[k].types \in Seq(Type)
         /\ DOMAIN program[k].types = 1 .. Len(program[k].types) /\ Len(program[k].types) \in Nat
         /\ program[k].is \in Tagged \cup {"alias", "declare", "size", "procedure"}
         /\ program[k].is \notin Tagged => 1 \in DOMAIN program[k].types
         /\ \A j \in DOMAIN program[k].types :
              program[k].types[j] \in Type /\ Resolved(program[k].types[j]) \in Type
<1>1. program[k] \in Declaration /\ (program[k].is \notin Tagged => program[k].types # <<>>)
  BY DEF Written
<1>2. program[k].types \in Seq(Type)
  BY <1>1 DEF Declaration
<1>3. \A j \in DOMAIN program[k].types : program[k].types[j] \in Type
  BY <1>2
<1>4. \A j \in DOMAIN program[k].types : Resolved(program[k].types[j]) \in Type
  BY <1>3, ResolvedType
<1>5. program[k].is \notin Tagged => 1 \in DOMAIN program[k].types
  BY <1>1, <1>2
<1>6. QED
  BY <1>1, <1>2, <1>3, <1>4, <1>5 DEF Declaration

(* The text as it was written.                                                 *)
LEMMA SourceAt ==
  ASSUME Written
  PROVE  /\ DOMAIN Source = {1} \X {k \in DOMAIN program : program[k].is # "alias"}
         /\ \A k \in DOMAIN program : program[k].is # "alias" =>
              /\ <<1, k>> \in DOMAIN Source
              /\ Source[<<1, k>>].is = program[k].is /\ Source[<<1, k>>].name = program[k].name
              /\ Source[<<1, k>>].flexible = program[k].flexible
              /\ Source[<<1, k>>].types =
                   [j \in DOMAIN program[k].types |-> Resolved(program[k].types[j])]
<1>1. DOMAIN Source = {1} \X {k \in DOMAIN program : program[k].is # "alias"}
  BY DEF Source
<1>2. ASSUME NEW k \in DOMAIN program, program[k].is # "alias"
      PROVE  /\ <<1, k>> \in DOMAIN Source
             /\ Source[<<1, k>>].is = program[k].is /\ Source[<<1, k>>].name = program[k].name
             /\ Source[<<1, k>>].flexible = program[k].flexible
             /\ Source[<<1, k>>].types =
                  [j \in DOMAIN program[k].types |-> Resolved(program[k].types[j])]
  <2> DEFINE types == [j \in DOMAIN program[k].types |-> Resolved(program[k].types[j])]
  <2>1. <<1, k>> \in DOMAIN Source
    BY <1>1, <1>2
  <2>2. Source[<<1, k>>] = [program[k] EXCEPT !.types = types]
    BY <1>1, <2>1 DEF Source
  <2>3. program[k] \in Declaration
    BY DeclarationFields
  <2> HIDE DEF types
  <2>4. QED
    BY <2>1, <2>2, <2>3 DEF Declaration, types
<1>3. QED
  BY <1>1, <1>2

(* What the registration passes report C, or the alias table, refuses too.     *)
LEMMA DirtyCause ==
  ASSUME Written, ~ Clean
  PROVE  Cause
<1>1. CASE ~ ValidAliases \/ Twice("alias")
  BY <1>1 DEF Cause
<1>2. ASSUME NEW kind \in Tagged \cup {"procedure"}, Twice(kind)
      PROVE  Cause
  <2>1. PICK j, k \in DOMAIN program : j < k /\ program[j].is = kind /\ program[k].is = kind
                                       /\ program[j].name = program[k].name
    BY <1>2 DEF Twice
  <2>2. kind # "alias" /\ kind # "size"
    BY DEF Tagged, Aggregates
  <2>3. <<1, j>> # <<1, k>>
    BY <2>1 DEF Written
  <2>4. /\ <<1, j>> \in DOMAIN Source /\ <<1, k>> \in DOMAIN Source
        /\ Source[<<1, j>>].is = Source[<<1, k>>].is /\ Source[<<1, j>>].is # "size"
        /\ Source[<<1, j>>].name = Source[<<1, k>>].name
    BY <2>1, <2>2, SourceAt
  <2>5. ~ OneMeaning(Source)
    BY <2>3, <2>4, Zenon DEF OneMeaning
  <2>6. QED
    BY <2>5 DEF Compiles, Cause
<1>3. ASSUME NEW k \in DOMAIN program, program[k].is \in Tagged, FirstKind(program[k].name) # program[k].is
      PROVE  Cause
  <2> DEFINE n == program[k].name
  <2>1. IsDeclared(program[k].is, n)
    BY DEF IsDeclared
  <2>2. FirstKind(n) \in Tagged /\ IsDeclared(FirstKind(n), n)
    BY <1>3, <2>1 DEF FirstKind, Tagged, Aggregates
  <2>3. PICK j \in DOMAIN program : program[j].is = FirstKind(n) /\ program[j].name = n
    BY <2>2 DEF IsDeclared
  <2>4. program[j].is # "alias" /\ program[k].is # "alias"
    BY <1>3, <2>2, <2>3 DEF Tagged, Aggregates
  <2>5. /\ <<program[j].is, n>> \in MentionsOf(Source[<<1, j>>])
        /\ <<program[k].is, n>> \in MentionsOf(Source[<<1, k>>])
    BY <1>3, <2>2, <2>3, <2>4, SourceAt DEF MentionsOf
  <2>6. ~ OneMeaning(Source)
    <3> DEFINE f == <<program[j].is, n>>
               g == <<program[k].is, n>>
    <3>1. f[2] = g[2] /\ f[1] # g[1]
      BY <1>3, <2>3
    <3>2. <<1, j>> \in DOMAIN Source /\ <<1, k>> \in DOMAIN Source
      BY <2>4, SourceAt
    <3> HIDE DEF f, g
    <3>3. QED
      BY <2>5, <3>1, <3>2 DEF OneMeaning, f, g
  <2>7. QED
    BY <2>6 DEF Compiles, Cause
<1>4. ASSUME NEW k \in DOMAIN program, program[k].is = "procedure", BadSignature(program[k])
      PROVE  Cause
  <2> DEFINE types == Source[<<1, k>>].types
  <2>1. <<1, k>> \in DOMAIN Source /\ Source[<<1, k>>].is = "procedure"
        /\ types = [j \in DOMAIN program[k].types |-> Resolved(program[k].types[j])]
    BY <1>4, SourceAt
  <2>2. DOMAIN program[k].types = 1 .. Len(program[k].types) /\ 1 \in DOMAIN program[k].types
        /\ Len(program[k].types) \in Nat
    BY <1>4, DeclarationFields DEF Tagged, Aggregates
  <2>3. Len(types) = Len(program[k].types)
    BY <2>1, <2>2
  <2>4. \A j \in DOMAIN program[k].types : types[j] = Resolved(program[k].types[j])
    BY <2>1
  <2> HIDE DEF types
  <2>5. IsArray(types[1]) \/ \E j \in 2 .. Len(types) : IsVoid(types[j])
    BY <1>4, <2>2, <2>3, <2>4 DEF BadSignature
  <2>6. QED
    BY <2>1, <2>5 DEF Cause, types
<1>5. QED
  BY <1>1, <1>2, <1>3, <1>4 DEF Clean

------------------------------------------------------------------------------
(* What completing a tag leaves as it was.                                     *)

(* A tag a type is complete by is not the one that is being completed.         *)
LEMMA CompleteStays ==
  ASSUME Typed, UNCHANGED program, NEW n \in Identifiers, NEW info \in TagInfo,
         ~ tags[n].complete, tags' = [tags EXCEPT ![n] = info],
         NEW t \in Type, IsComplete(t)
  PROVE  IsComplete(t)' /\ IsFlexible(t)' = IsFlexible(t)
<1>1. CASE Pointing(t)
  BY <1>1 DEF IsComplete, IsFlexible
<1>2. CASE ~ Pointing(t)
  <2>1. Completed(t.base) /\ t.base[2] \in Identifiers
    BY <1>2 DEF IsComplete, Type
  <2>2. t.base[1] \in Tagged => tags'[t.base[2]] = tags[t.base[2]]
    BY <2>1 DEF Completed, Typed
  <2>3. IsFlexible(t)' = IsFlexible(t)
    BY <2>2 DEF IsFlexible, Tagged
  <2>4. Completed(t.base)'
    BY <2>1, <2>2 DEF Completed
  <2>5. QED
    BY <1>2, <2>3, <2>4 DEF IsComplete
<1>3. QED
  BY <1>1, <1>2

(* The fields of a definition are complete.                                    *)
LEMMA FieldsComplete ==
  ASSUME NEW d, FieldsChecked(d), NEW j \in DOMAIN d.types
  PROVE  IsComplete(Resolved(d.types[j]))
BY DEF FieldsChecked, FieldChecked

(* So a definition that was checked still would be, and hands on the same.     *)
LEMMA CheckedStays ==
  ASSUME Typed, UNCHANGED program, NEW n \in Identifiers, NEW info \in TagInfo,
         ~ tags[n].complete, tags' = [tags EXCEPT ![n] = info],
         NEW k \in DOMAIN program, FieldsChecked(program[k])
  PROVE  FieldsChecked(program[k])' /\ HandsOn(program[k])' = HandsOn(program[k])
<1> DEFINE R(j) == Resolved(program[k].types[j])
<1>1. \A j \in DOMAIN program[k].types : R(j) \in Type /\ IsComplete(R(j))
  BY DeclarationFields, FieldsComplete DEF Typed
<1>2. \A j : R(j)' = R(j)
  BY ResolvedStays
<1>3. \A j \in DOMAIN program[k].types : IsComplete(R(j))' /\ IsFlexible(R(j))' = IsFlexible(R(j))
  <2> SUFFICES ASSUME NEW j \in DOMAIN program[k].types
               PROVE  IsComplete(R(j))' /\ IsFlexible(R(j))' = IsFlexible(R(j))
    OBVIOUS
  <2> DEFINE r == R(j)
  <2>1. PICK t : t = r
    OBVIOUS
  <2>2. r' = t /\ t \in Type /\ IsComplete(t)
    BY <1>1, <1>2, <2>1
  <2>3. IsComplete(t)' /\ IsFlexible(t)' = IsFlexible(t)
    BY <2>2, CompleteStays
  <2>4. IsComplete(r)' = IsComplete(t)' /\ IsFlexible(r)' = IsFlexible(t)' /\ IsFlexible(r) = IsFlexible(t)
    BY <2>1, <2>2 DEF IsComplete, IsFlexible, Completed
  <2>5. QED
    BY <2>3, <2>4
<1> HIDE DEF R
<1>4. FieldsChecked(program[k])'
  BY <1>1, <1>3 DEF FieldsChecked, FieldChecked, R
<1>5. HandsOn(program[k])' = HandsOn(program[k])
  BY <1>3 DEF HandsOn, R
<1>6. QED
  BY <1>4, <1>5

------------------------------------------------------------------------------
(* What the walk refuses.                                                      *)

(* A tag the table calls flexible is so in every text that has the definitions  *)
(* printed so far.                                                              *)
LEMMA FlexibleInText ==
  ASSUME Typed, Settled, NEW text, NEW F, ClosedUnder(text, F),
         \A k \in printed : program[k].is \in Aggregates =>
           \E p \in DOMAIN text :
             /\ text[p].is = program[k].is /\ text[p].name = program[k].name
             /\ text[p].flexible = program[k].flexible
             /\ \A j \in DOMAIN program[k].types : Resolved(program[k].types[j]) \in TypesOf(text[p])
  PROVE  \A k \in printed : HandsOn(program[k]) => <<program[k].is, program[k].name>> \in F
<1> DEFINE S == {k \in Nat : k \in printed /\ HandsOn(program[k]) =>
                               <<program[k].is, program[k].name>> \in F}
<1>1. ASSUME NEW k \in Nat, \A i \in 0 .. k - 1 : i \in S, k \in printed, HandsOn(program[k])
      PROVE  <<program[k].is, program[k].name>> \in F
  <2>1. program[k].is \in Aggregates
    BY <1>1 DEF HandsOn, Aggregates
  <2>2. PICK p \in DOMAIN text :
          /\ text[p].is = program[k].is /\ text[p].name = program[k].name
          /\ text[p].flexible = program[k].flexible
          /\ \A j \in DOMAIN program[k].types : Resolved(program[k].types[j]) \in TypesOf(text[p])
    BY <1>1, <2>1
  <2>3. CASE program[k].is = "structure" /\ program[k].flexible
    <3>1. HoldFlexible(text, text[p], F)
      BY <2>2, <2>3 DEF HoldFlexible
    <3>2. QED
      BY <2>2, <3>1 DEF ClosedUnder
  <2>4. CASE program[k].is = "union"
            /\ \E j \in DOMAIN program[k].types : IsFlexible(Resolved(program[k].types[j]))
    <3>1. PICK j \in DOMAIN program[k].types : IsFlexible(Resolved(program[k].types[j]))
      BY <2>4
    <3> DEFINE t == Resolved(program[k].types[j])
    <3>2. t \in Type /\ t.base = <<t.base[1], t.base[2]>>
      BY <1>1, DeclarationFields DEF Typed, Type
    <3>3. IsFlexible(t) /\ t \in TypesOf(text[p])
      BY <2>2, <3>1
    <3>4. Grounded(k) /\ FieldsChecked(program[k])
      BY <1>1 DEF Settled
    <3>5. Pointing(t) \/ t.base[1] \notin Tagged
          \/ \E i \in printed : i < k /\ program[i].is = t.base[1] /\ program[i].name = t.base[2]
      BY <3>4 DEF Grounded
    <3> HIDE DEF t
    <3>6. /\ ~ Pointing(t) /\ t.base[1] \in Tagged
          /\ tags[t.base[2]].is = t.base[1] /\ tags[t.base[2]].complete /\ tags[t.base[2]].flexible
      BY <3>3 DEF IsFlexible, Tagged
    <3>7. PICK i \in printed : i < k /\ program[i].is = t.base[1] /\ program[i].name = t.base[2]
      BY <3>5, <3>6
    <3>8. tags[program[i].name].flexible <=> HandsOn(program[i])
      BY DEF Settled
    <3>9. HandsOn(program[i]) /\ i \in 0 .. k - 1
      BY <3>6, <3>7, <3>8 DEF Typed, Written
    <3>10. t.base \in F
      BY <1>1, <3>2, <3>7, <3>9
    <3>11. HoldFlexible(text, text[p], F)
      BY <2>2, <2>4, <3>3, <3>6, <3>10 DEF HoldFlexible
    <3>12. QED
      BY <2>2, <3>11 DEF ClosedUnder
  <2>5. QED
    BY <1>1, <2>3, <2>4 DEF HandsOn
<1>2. \A k \in Nat : k \in S
  <2> HIDE DEF S
  <2>1. \A n \in Nat : (\A m \in 0 .. n - 1 : m \in S) => n \in S
    BY <1>1 DEF S
  <2>2. QED
    BY <2>1, StrongInduction
<1>3. \A k \in printed : k \in Nat
  BY DEF Typed, Written
<1>4. QED
  BY <1>2, <1>3

(* While nothing is refused, what C finds complete in the text as it was         *)
(* written is complete in the tables, and what the tables call flexible is.       *)
LEMMA SourceAgrees ==
  ASSUME Typed, Settled, Based, Accepted, step \in DOMAIN program, NEW t \in Type
  PROVE  /\ HasSize(Source, <<1, step>>, t) => IsComplete(t)
         /\ IsFlexible(t) => HoldsFlexible(Source, t)
<1> DEFINE here == <<1, step>>
<1>0. /\ DOMAIN program = 1 .. Len(program) /\ step \in 1 .. Len(program)
      /\ t.base = <<t.base[1], t.base[2]>> /\ t.base[2] \in Identifiers
  BY DEF Typed, Written, Type
<1>1. IsFlexible(t) => HoldsFlexible(Source, t)
  <2> SUFFICES ASSUME IsFlexible(t) PROVE HoldsFlexible(Source, t)
    OBVIOUS
  <2>1. /\ ~ Pointing(t) /\ t.base[1] \in Aggregates
        /\ tags[t.base[2]].is = t.base[1] /\ tags[t.base[2]].complete /\ tags[t.base[2]].flexible
    BY DEF IsFlexible
  <2>2. PICK k \in printed : program[k].name = t.base[2]
    BY <1>0, <2>1 DEF Based
  <2>3. program[k].is = t.base[1] /\ HandsOn(program[k])
    BY <2>1, <2>2 DEF Settled
  <2>4. ASSUME NEW i \in printed, program[i].is \in Aggregates
        PROVE  /\ <<1, i>> \in DOMAIN Source
               /\ Source[<<1, i>>].is = program[i].is /\ Source[<<1, i>>].name = program[i].name
               /\ Source[<<1, i>>].flexible = program[i].flexible
               /\ \A j \in DOMAIN program[i].types :
                    Resolved(program[i].types[j]) \in TypesOf(Source[<<1, i>>])
    <3>1. i \in DOMAIN program /\ program[i].is # "alias"
      BY <2>4 DEF Typed, Aggregates
    <3>2. Source[<<1, i>>].types = [j \in DOMAIN program[i].types |-> Resolved(program[i].types[j])]
      BY <3>1, SourceAt DEF Typed
    <3>3. \A j \in DOMAIN program[i].types :
            Resolved(program[i].types[j]) \in TypesOf(Source[<<1, i>>])
      BY <3>2 DEF TypesOf
    <3>4. QED
      BY <3>1, <3>3, SourceAt DEF Typed
  <2>5. t.base \in AggregatesOf(Source)
    <3>1. /\ <<1, k>> \in DOMAIN Source /\ Source[<<1, k>>].is = t.base[1]
          /\ Source[<<1, k>>].name = t.base[2]
      BY <2>1, <2>2, <2>3, <2>4
    <3>2. QED
      BY <1>0, <2>1, <3>1 DEF AggregatesOf
  <2>6. ASSUME NEW F, ClosedUnder(Source, F) PROVE t.base \in F
    <3>1. <<program[k].is, program[k].name>> \in F
      BY <2>3, <2>4, <2>6, FlexibleInText
    <3>2. QED
      BY <1>0, <2>2, <2>3, <3>1
  <2>7. QED
    BY <2>1, <2>5, <2>6 DEF HoldsFlexible
<1>2. HasSize(Source, here, t) => IsComplete(t)
  <2> SUFFICES ASSUME HasSize(Source, here, t), ~ Pointing(t) PROVE IsComplete(t)
    BY DEF IsComplete
  <2>1. /\ t.base[1] # "void"
        /\ t.base[1] \in Tagged => DefinedBefore(Source, here, t.base)
        /\ t.wraps # <<>> => ~ HoldsFlexible(Source, t)
    BY DEF HasSize
  <2>2. ASSUME t.base[1] \in Tagged
        PROVE  tags[t.base[2]].is = t.base[1] /\ tags[t.base[2]].complete
    <3>1. PICK q \in DOMAIN Source : /\ Before(q, here) /\ Source[q].is = t.base[1]
                                     /\ Source[q].name = t.base[2]
      BY <2>1, <2>2 DEF DefinedBefore
    <3>2. PICK k \in DOMAIN program : q = <<1, k>> /\ program[k].is # "alias"
      BY SourceAt DEF Typed
    <3>3. k < step /\ program[k].is = t.base[1] /\ program[k].name = t.base[2]
      <4>1. Source[<<1, k>>].is = program[k].is /\ Source[<<1, k>>].name = program[k].name
        BY <3>2, SourceAt DEF Typed
      <4>2. <<1, k>>[1] = 1 /\ <<1, k>>[2] = k /\ here[1] = 1 /\ here[2] = step
        OBVIOUS
      <4>3. k < step
        BY <3>1, <3>2, <4>2 DEF Before
      <4>4. QED
        BY <3>1, <3>2, <4>1, <4>3
    <3>4. k \in printed
      BY <1>0, <2>2, <3>2, <3>3 DEF Accepted
    <3>5. QED
      BY <3>3, <3>4 DEF Settled
  <2>3. QED
    BY <1>1, <2>1, <2>2 DEF IsComplete, Completed
<1>3. QED
  BY <1>1, <1>2

(* A definition sema refuses is one C refuses.                                  *)
LEMMA RefusedDefinition ==
  ASSUME Typed, Settled, Based, Accepted, step \in DOMAIN program,
         program[step].is \in Tagged, ~ FieldsChecked(program[step])
  PROVE  Cause
<1> DEFINE d == program[step]
           p == <<1, step>>
<1>1. /\ d.types \in Seq(Type) /\ d.is \in Tagged /\ d.is # "alias" /\ d.flexible \in BOOLEAN
      /\ DOMAIN d.types = 1 .. Len(d.types) /\ Len(d.types) \in Nat
      /\ \A j \in DOMAIN d.types : Resolved(d.types[j]) \in Type
  BY DeclarationFields DEF Typed, Tagged, Aggregates
<1>2. /\ p \in DOMAIN Source /\ Source[p].is = d.is /\ Source[p].flexible = d.flexible
      /\ Source[p].types = [j \in DOMAIN d.types |-> Resolved(d.types[j])]
  BY <1>1, SourceAt DEF Typed
<1>3. /\ DOMAIN Source[p].types = DOMAIN d.types /\ Len(Source[p].types) = Len(d.types)
      /\ \A j \in DOMAIN d.types : Source[p].types[j] = Resolved(d.types[j])
      /\ Source[p].types = <<>> <=> d.types = <<>>
  BY <1>1, <1>2
<1>4. ~ FieldsChecked(d)
  OBVIOUS
<1> HIDE DEF d, p
<1>5. d.is \in Aggregates => ~ WellFormed(Source, p)
  <2> SUFFICES ASSUME d.is \in Aggregates, WellFormed(Source, p) PROVE FALSE
    OBVIOUS
  <2>1. Source[p].types # <<>> /\ \A j \in DOMAIN Source[p].types : Member(Source, p, j)
    BY <1>2 DEF WellFormed, Aggregates
  <2>2. ASSUME NEW j \in DOMAIN d.types PROVE FieldChecked(d, j)
    <3> DEFINE t == Resolved(d.types[j])
    <3>1. Member(Source, p, j) /\ Source[p].types[j] = t /\ t \in Type
      BY <1>1, <1>3, <2>1
    <3> HIDE DEF t
    <3>2. /\ HasSize(Source, p, t)
          /\ d.is = "structure" => ~ HoldsFlexible(Source, t)
          /\ d.flexible /\ j = Len(d.types) => d.is = "structure" /\ j > 1 /\ ~ HoldsFlexible(Source, t)
      BY <1>2, <1>3, <3>1 DEF Member
    <3>3. (HasSize(Source, p, t) => IsComplete(t)) /\ (IsFlexible(t) => HoldsFlexible(Source, t))
      BY <3>1, SourceAgrees DEF p
    <3>4. QED
      BY <3>2, <3>3 DEF FieldChecked, t
  <2>3. FieldsChecked(d)
    BY <1>3, <2>1, <2>2 DEF FieldsChecked
  <2>4. QED
    BY <1>4, <2>3
<1>6. d.is \in Aggregates
  <2>1. d.is = "enumeration" => d.types = <<>>
    BY DEF Typed, Written, d
  <2>2. d.is = "enumeration" => FieldsChecked(d)
    BY <1>1, <2>1 DEF FieldsChecked, Aggregates
  <2>3. QED
    BY <1>1, <1>4, <2>2 DEF Tagged
<1>7. QED
  BY <1>2, <1>4, <1>5, <1>6 DEF Compiles, Cause

(* A use sema refuses is one C refuses.                                        *)
LEMMA RefusedUse ==
  ASSUME Typed, Settled, Based, Accepted, step \in DOMAIN program,
         program[step].is \in {"declare", "size"}, ~ UseChecked(program[step])
  PROVE  Cause
<1> DEFINE d == program[step]
           p == <<1, step>>
           t == Resolved(d.types[1])
<1>1. d.is # "alias" /\ d.is \notin Tagged /\ 1 \in DOMAIN d.types /\ t \in Type
  BY DeclarationFields DEF Typed, Tagged, Aggregates
<1>2. /\ p \in DOMAIN Source /\ Source[p].is = d.is /\ Source[p].types[1] = t
  BY <1>1, SourceAt DEF Typed
<1>3. CASE ~ IsComplete(t)
  <2>1. ~ HasSize(Source, p, t)
    BY <1>1, <1>3, SourceAgrees
  <2> HIDE DEF d, p, t
  <2>2. d.is \in {"declare", "size"}
    BY DEF d
  <2>3. ~ WellFormed(Source, p)
    BY <1>2, <2>1, <2>2 DEF WellFormed, Aggregates
  <2>4. QED
    BY <1>2, <2>3 DEF Compiles, Cause
<1>4. CASE Twice("declare")
  <2>1. PICK j, k \in DOMAIN program : j < k /\ program[j].is = "declare" /\ program[k].is = "declare"
                                       /\ program[j].name = program[k].name
    BY <1>4 DEF Twice
  <2>2. <<1, j>> # <<1, k>>
    BY <2>1 DEF Typed, Written
  <2>3. /\ <<1, j>> \in DOMAIN Source /\ <<1, k>> \in DOMAIN Source
        /\ Source[<<1, j>>].is = Source[<<1, k>>].is /\ Source[<<1, j>>].is # "size"
        /\ Source[<<1, j>>].name = Source[<<1, k>>].name
    BY <2>1, SourceAt DEF Typed
  <2>4. ~ OneMeaning(Source)
    BY <2>2, <2>3, Zenon DEF OneMeaning
  <2>5. QED
    BY <2>4 DEF Compiles, Cause
<1>5. QED
  BY <1>3, <1>4 DEF UseChecked

------------------------------------------------------------------------------
(* The invariant holds from the first statement to the last.                    *)

(* Writing a declaration.                                                      *)
LEMMA WriteKeeps ==
  ASSUME TInv, NEW d \in shelf, Write(d)
  PROVE  TInv'
<1>1. d \in Declaration /\ (d.is \notin Tagged => d.types # <<>>)
      /\ (d.is = "enumeration" => d.types = <<>>)
  BY ShelvesAssumption DEF TInv, Typed
<1>2. /\ program \in Seq(Declaration) /\ program' = Append(program, d)
      /\ step = 0 /\ step' = 0 /\ shelf' = shelf /\ tags' = tags
      /\ refused' = refused /\ printed' = printed
  BY DEF TInv, Typed, Written, Write
<1>3. /\ program' \in Seq(Declaration) /\ Len(program') = Len(program) + 1
      /\ \A k \in DOMAIN program' : (program'[k] = program[k] /\ k \in DOMAIN program) \/ program'[k] = d
  BY <1>1, <1>2
<1>4. Written'
  BY <1>1, <1>3 DEF TInv, Typed, Written
<1>5. QED
  BY <1>2, <1>3, <1>4 DEF TInv, Typed

(* Registration.                                                               *)
LEMMA RegisterKeeps ==
  ASSUME TInv, Register
  PROVE  TInv'
<1>1. /\ step = 0 /\ step' = 1 /\ program # <<>> /\ ~ refused /\ printed = {}
      /\ shelf' = shelf /\ program' = program /\ printed' = printed
      /\ tags' = [n \in Identifiers |-> [Unknown EXCEPT !.is = FirstKind(n)]]
      /\ refused' \in BOOLEAN /\ (refused' <=> ~ Clean)
  BY DEF TInv, Register, Clean
<1>2. \A n : FirstKind(n) \in Tagged \cup {"none"}
  BY DEF FirstKind, Tagged, Aggregates
<1>3. \A n \in Identifiers : tags'[n] = [is |-> FirstKind(n), complete |-> FALSE, flexible |-> FALSE]
  BY <1>1 DEF Unknown
<1>4. tags' \in [Identifiers -> TagInfo]
  BY <1>1, <1>2, <1>3 DEF TagInfo
<1>5. Written' /\ Len(program) \in Nat
  BY <1>1 DEF TInv, Typed, Written
<1>6. Typed'
  BY <1>1, <1>4, <1>5 DEF TInv, Typed
<1>7. Settled'
  BY <1>1 DEF Settled
<1>8. Based'
  BY <1>1, <1>3, CleanStays DEF Based
<1>9. refused' \/ Accepted'
  BY <1>1, CleanStays DEF Accepted
<1>10. refused' => Cause'
  BY <1>1, DirtyCause, CauseStays DEF TInv, Typed
<1>11. QED
  BY <1>1, <1>6, <1>7, <1>8, <1>9, <1>10 DEF TInv

(* As long as the tables stay, so do the checks of declarations.                *)
LEMMA TablesStay ==
  ASSUME UNCHANGED <<program, tags>>, NEW k
  PROVE  /\ FieldsChecked(program[k])' <=> FieldsChecked(program[k])
         /\ HandsOn(program[k])' <=> HandsOn(program[k])
         /\ UseChecked(program[k])' <=> UseChecked(program[k])
<1> DEFINE R(j) == Resolved(program[k].types[j])
<1>1. \A j : R(j)' = R(j)
  BY ResolvedStays
<1>2. \A j : (IsComplete(R(j))' <=> IsComplete(R(j))) /\ (IsFlexible(R(j))' <=> IsFlexible(R(j)))
  <2> HIDE DEF R
  <2>1. QED
    BY <1>1 DEF IsComplete, IsFlexible, Completed
<1> HIDE DEF R
<1>3. FieldsChecked(program[k])' <=> FieldsChecked(program[k])
  BY <1>2 DEF FieldsChecked, FieldChecked, R
<1>4. HandsOn(program[k])' <=> HandsOn(program[k])
  BY <1>2 DEF HandsOn, R
<1>5. UseChecked(program[k])' <=> UseChecked(program[k])
  BY <1>2, CleanStays DEF UseChecked, R
<1>6. QED
  BY <1>3, <1>4, <1>5

(* A statement that leaves the tables alone.                                    *)
LEMMA RestKeeps ==
  ASSUME TInv, step \in 1 .. Len(program), step' = step + 1,
         UNCHANGED <<shelf, program, tags, printed>>, refused' \in BOOLEAN,
         refused => refused', refused' => Cause,
         ~ refused' => /\ program[step].is \in Tagged => step \in printed
                       /\ program[step].is \in {"declare", "size"} => UseChecked(program[step])
  PROVE  TInv'
<1>1. Settled /\ Based /\ (refused \/ Accepted) /\ Typed /\ Written /\ Len(program) \in Nat
  BY DEF TInv, Typed, Written
<1>2. Typed'
  BY <1>1 DEF Typed, Written
<1>3. \A k : /\ FieldsChecked(program[k])' <=> FieldsChecked(program[k])
             /\ HandsOn(program[k])' <=> HandsOn(program[k])
             /\ UseChecked(program[k])' <=> UseChecked(program[k])
  BY TablesStay
<1>4. \A k : Grounded(k)' = Grounded(k)
  BY ResolvedStays DEF Grounded
<1>5. Settled'
  BY <1>1, <1>3, <1>4 DEF Settled, Typed
<1>6. Based'
  BY <1>1, CleanStays DEF Based
<1>7. refused' \/ Accepted'
  <2> SUFFICES ASSUME ~ refused' PROVE Accepted'
    OBVIOUS
  <2>1. Accepted
    BY <1>1
  <2>2. \A k \in 1 .. step' - 1 : k \in 1 .. step - 1 \/ k = step
    BY DEF TInv, Typed
  <2>3. QED
    BY <1>3, <2>1, <2>2, CleanStays DEF Accepted
<1>8. refused' => Cause'
  BY CauseStays
<1>9. QED
  BY <1>2, <1>5, <1>6, <1>7, <1>8 DEF TInv

(* A definition completes its tag.                                              *)
LEMMA CompletionKeeps ==
  ASSUME TInv, step \in 1 .. Len(program), step' = step + 1, program[step].is \in Tagged,
         UNCHANGED <<shelf, program, refused>>,
         tags[program[step].name].is = program[step].is, ~ tags[program[step].name].complete,
         FieldsChecked(program[step]),
         tags' = [tags EXCEPT ![program[step].name] =
                    [is |-> program[step].is, complete |-> TRUE, flexible |-> HandsOn(program[step])]],
         printed' = printed \cup {step}
  PROVE  TInv'
<1> DEFINE n == program[step].name
<1>1. PICK info : info = [is |-> program[step].is, complete |-> TRUE, flexible |-> HandsOn(program[step])]
  OBVIOUS
<1>2. /\ info \in TagInfo /\ info.is = program[step].is /\ info.complete
      /\ info.flexible <=> HandsOn(program[step])
  <2>1. HandsOn(program[step]) \in BOOLEAN
    BY DEF HandsOn
  <2>2. PICK h \in BOOLEAN : h = HandsOn(program[step])
    BY <2>1
  <2>3. info = [is |-> program[step].is, complete |-> TRUE, flexible |-> h]
    BY <1>1, <2>2
  <2>4. QED
    BY <2>2, <2>3 DEF TagInfo
<1>3. /\ Typed /\ Written /\ Settled /\ Based /\ (refused \/ Accepted) /\ (refused => Cause)
      /\ Len(program) \in Nat /\ DOMAIN program = 1 .. Len(program) /\ step \in DOMAIN program
  BY DEF TInv, Typed, Written
<1>4. /\ n \in Identifiers /\ tags' = [tags EXCEPT ![n] = info] /\ ~ tags[n].complete
      /\ tags[n].is = program[step].is
  BY <1>1, <1>3, DeclarationFields
<1>5. /\ tags'[n] = info /\ \A m \in Identifiers : m # n => tags'[m] = tags[m]
      /\ tags' \in [Identifiers -> TagInfo]
  BY <1>2, <1>3, <1>4 DEF Typed
<1> HIDE DEF n
<1>6. Typed'
  BY <1>3, <1>5 DEF Typed, Written
<1>7. \A k \in DOMAIN program : FieldsChecked(program[k]) =>
        FieldsChecked(program[k])' /\ (HandsOn(program[k])' <=> HandsOn(program[k]))
  BY <1>2, <1>3, <1>4, CheckedStays
<1>8. \A k \in printed : k < step /\ program[k].name \in Identifiers /\ program[k].name # n
  BY <1>3, <1>4, DeclarationFields DEF Settled, Typed
<1>9. Grounded(step)
  <2> SUFFICES ASSUME NEW j \in DOMAIN program[step].types
               PROVE  LET t == Resolved(program[step].types[j]) IN
                      \/ Pointing(t) \/ t.base[1] \notin Tagged
                      \/ \E i \in printed : i < step /\ program[i].is = t.base[1]
                                            /\ program[i].name = t.base[2]
    BY DEF Grounded
  <2> DEFINE t == Resolved(program[step].types[j])
  <2>1. t \in Type /\ IsComplete(t)
    BY <1>3, DeclarationFields, FieldsComplete
  <2> HIDE DEF t
  <2>2. ASSUME ~ Pointing(t), t.base[1] \in Tagged
        PROVE  \E i \in printed : i < step /\ program[i].is = t.base[1] /\ program[i].name = t.base[2]
    <3>1. tags[t.base[2]].is = t.base[1] /\ tags[t.base[2]].complete /\ t.base[2] \in Identifiers
      BY <2>1, <2>2 DEF IsComplete, Completed, Type
    <3>2. PICK i \in printed : program[i].name = t.base[2]
      BY <1>3, <3>1 DEF Based
    <3>3. QED
      BY <1>3, <3>1, <3>2 DEF Settled
  <2>3. QED
    BY <2>2 DEF t
<1>10. \A k : Grounded(k) => Grounded(k)'
  BY ResolvedStays DEF Grounded
<1>11. Settled'
  <2> SUFFICES ASSUME NEW k \in printed'
               PROVE  /\ k < step' /\ program'[k].is \in Tagged
                      /\ tags'[program'[k].name].is = program'[k].is /\ tags'[program'[k].name].complete
                      /\ tags'[program'[k].name].flexible <=> HandsOn(program[k])'
                      /\ FieldsChecked(program[k])' /\ Grounded(k)'
    BY DEF Settled
  <2>1. CASE k \in printed
    <3>1. /\ k < step /\ program[k].is \in Tagged /\ FieldsChecked(program[k]) /\ Grounded(k)
          /\ tags[program[k].name].is = program[k].is /\ tags[program[k].name].complete
          /\ tags[program[k].name].flexible <=> HandsOn(program[k])
      BY <1>3, <2>1 DEF Settled
    <3>2. k \in DOMAIN program /\ tags'[program[k].name] = tags[program[k].name]
      BY <1>3, <1>5, <1>8, <2>1 DEF Typed
    <3>3. k < step'
      BY <1>3, <3>1, <3>2
    <3>4. QED
      BY <1>7, <1>10, <3>1, <3>2, <3>3
  <2>2. CASE k = step
    <3>1. k < step'
      BY <2>2
    <3>2. Grounded(k)' /\ FieldsChecked(program[k])' /\ (HandsOn(program[k])' <=> HandsOn(program[k]))
      BY <1>3, <1>7, <1>9, <1>10, <2>2
    <3>3. tags'[program'[k].name] = info
      BY <1>5, <2>2 DEF n
    <3>4. QED
      BY <1>2, <2>2, <3>1, <3>2, <3>3
  <2>3. QED
    BY <2>1, <2>2
<1>12. Based'
  <2> SUFFICES ASSUME NEW m \in Identifiers
               PROVE  /\ tags'[m].is = FirstKind(m)'
                      /\ tags'[m].complete => \E k \in printed' : program'[k].name = m
    BY DEF Based
  <2>1. tags[m].is = FirstKind(m) /\ (tags[m].complete => \E k \in printed : program[k].name = m)
    BY <1>3 DEF Based
  <2>2. tags'[m].is = tags[m].is
    BY <1>2, <1>4, <1>5
  <2>3. CASE m = n
    BY <2>1, <2>2, <2>3, CleanStays DEF n
  <2>4. CASE m # n
    BY <1>5, <2>1, <2>2, <2>4, CleanStays
  <2>5. QED
    BY <2>3, <2>4
<1>13. refused' \/ Accepted'
  <2> SUFFICES ASSUME ~ refused PROVE Accepted'
    OBVIOUS
  <2>1. Accepted
    BY <1>3
  <2>2. \A k \in 1 .. step' - 1 : k \in 1 .. step - 1 \/ k = step
    BY <1>3
  <2>3. ASSUME NEW k \in 1 .. step - 1, program[k].is \in {"declare", "size"}
        PROVE  UseChecked(program[k])'
    <3>1. UseChecked(program[k]) /\ k \in DOMAIN program
      BY <1>3, <2>1, <2>3 DEF Accepted
    <3>2. 1 \in DOMAIN program[k].types /\ Resolved(program[k].types[1]) \in Type
      BY <1>3, <2>3, <3>1, DeclarationFields DEF Tagged, Aggregates
    <3> DEFINE r == Resolved(program[k].types[1])
    <3>3. PICK t : t = r
      OBVIOUS
    <3>4. r' = t /\ t \in Type /\ IsComplete(t)
      BY <3>1, <3>2, <3>3, ResolvedStays DEF UseChecked
    <3>5. IsComplete(t)'
      BY <1>2, <1>3, <1>4, <3>4, CompleteStays
    <3>6. IsComplete(r)'
      BY <3>4, <3>5 DEF IsComplete, IsFlexible, Completed
    <3>7. QED
      BY <3>1, <3>6, CleanStays DEF UseChecked
  <2>4. program[step].is \notin {"declare", "size"}
    BY DEF Tagged, Aggregates
  <2>5. QED
    BY <2>1, <2>2, <2>3, <2>4, CleanStays DEF Accepted
<1>14. refused' => Cause'
  BY <1>3, CauseStays
<1>15. QED
  BY <1>3, <1>6, <1>11, <1>12, <1>13, <1>14 DEF TInv, Typed

(* The walk over the statements.                                               *)
LEMMA WalkKeeps ==
  ASSUME TInv, CheckDefinition \/ CheckUse \/ CheckOther
  PROVE  TInv'
<1>1. /\ step \in 1 .. Len(program) /\ step' = step + 1 /\ UNCHANGED <<shelf, program>>
  BY DEF CheckDefinition, CheckUse, CheckOther, Checking
<1>2. /\ Typed /\ Written /\ Settled /\ Based /\ (refused \/ Accepted) /\ (refused => Cause)
      /\ step \in DOMAIN program /\ refused \in BOOLEAN
      /\ program[step].name \in Identifiers
  BY <1>1, DeclarationFields DEF TInv, Typed, Written
<1>3. CASE CheckDefinition
  <2>1. Current = program[step] /\ program[step].is \in Tagged
    BY <1>3 DEF CheckDefinition, Checking, Current
  <2>2. CASE tags[Current.name].is # Current.is \/ tags[Current.name].complete
    <3>1. ~ Accepted
      <4> SUFFICES ASSUME Accepted PROVE FALSE
        OBVIOUS
      <4>1. tags[program[step].name].is = program[step].is
        BY <1>2, <2>1 DEF Accepted, Clean, Based
      <4>2. PICK k \in printed : program[k].name = program[step].name
        BY <1>2, <2>1, <2>2, <4>1 DEF Based
      <4>3. k \in DOMAIN program /\ k < step /\ program[k].is = program[step].is
        BY <1>2, <4>1, <4>2 DEF Settled, Typed
      <4>4. Twice(program[step].is)
        BY <1>2, <4>2, <4>3 DEF Twice
      <4>5. QED
        BY <2>1, <4>4 DEF Accepted, Clean
    <3>2. UNCHANGED <<tags, refused, printed>>
      BY <1>3, <2>2 DEF CheckDefinition
    <3>3. QED
      BY <1>1, <1>2, <3>1, <3>2, RestKeeps
  <2>3. CASE ~ (tags[Current.name].is # Current.is \/ tags[Current.name].complete) /\ FieldsChecked(Current)
    <3>1. /\ tags' = [tags EXCEPT ![program[step].name] =
                        [is |-> program[step].is, complete |-> TRUE, flexible |-> HandsOn(program[step])]]
          /\ printed' = printed \cup {step} /\ refused' = refused
      BY <1>3, <2>1, <2>3 DEF CheckDefinition
    <3>2. QED
      BY <1>1, <2>1, <2>3, <3>1, CompletionKeeps
  <2>4. CASE ~ (tags[Current.name].is # Current.is \/ tags[Current.name].complete) /\ ~ FieldsChecked(Current)
    <3>1. refused' = TRUE /\ UNCHANGED <<tags, printed>>
      BY <1>3, <2>4 DEF CheckDefinition
    <3>2. Cause
      BY <1>2, <2>1, <2>4, RefusedDefinition
    <3>3. QED
      BY <1>1, <1>2, <3>1, <3>2, RestKeeps
  <2>5. QED
    BY <2>2, <2>3, <2>4
<1>4. CASE CheckUse
  <2>1. Current = program[step] /\ program[step].is \in {"declare", "size"}
    BY <1>4 DEF CheckUse, Checking, Current
  <2>2. /\ UNCHANGED <<tags, printed>> /\ refused' \in BOOLEAN
        /\ refused' <=> (refused \/ ~ UseChecked(program[step]))
    BY <1>4, <2>1 DEF CheckUse
  <2>3. refused' => Cause
    BY <1>2, <2>1, <2>2, RefusedUse
  <2>4. program[step].is \notin Tagged
    BY <2>1 DEF Tagged, Aggregates
  <2>5. QED
    BY <1>1, <2>2, <2>3, <2>4, RestKeeps
<1>5. CASE CheckOther
  <2>1. program[step].is \in {"alias", "procedure"} /\ UNCHANGED <<tags, refused, printed>>
    BY <1>5 DEF CheckOther, Checking, Current
  <2>2. program[step].is \notin Tagged \cup {"declare", "size"}
    BY <2>1 DEF Tagged, Aggregates
  <2>3. QED
    BY <1>1, <1>2, <2>1, <2>2, RestKeeps
<1>6. QED
  BY <1>3, <1>4, <1>5

(* For programs of any length: the tables hold what the definitions printed so  *)
(* far say, each of them after what it contains by value, and a program that is  *)
(* refused has a cause.                                                          *)
THEOREM TypesInvariant == TSpec => []TInv
<1>1. TInit => TInv
  <2> SUFFICES ASSUME TInit PROVE TInv
    OBVIOUS
  <2>1. /\ shelf \in Shelves /\ program = <<>> /\ step = 0 /\ refused = FALSE /\ printed = {}
        /\ tags = [n \in Identifiers |-> Unknown]
    BY DEF TInit
  <2>2. Unknown \in TagInfo
    BY DEF Unknown, TagInfo
  <2>3. tags \in [Identifiers -> TagInfo]
    BY <2>1, <2>2
  <2>4. Written /\ Len(program) = 0
    BY <2>1 DEF Written
  <2>5. step \in 0 .. Len(program) + 1 /\ printed \subseteq DOMAIN program /\ ~ refused /\ ~ (step > 0)
    BY <2>1, <2>4
  <2>6. Typed
    BY <2>1, <2>3, <2>4, <2>5 DEF Typed
  <2>7. QED
    BY <2>1, <2>5, <2>6, Zenon DEF TInv
<1>2. TInv /\ [TNext]_typeVars => TInv'
  <2> SUFFICES ASSUME TInv, [TNext]_typeVars PROVE TInv'
    OBVIOUS
  <2>1. CASE \E d \in shelf : Write(d)
    BY <2>1, WriteKeeps
  <2>2. CASE Register
    BY <2>2, RegisterKeeps
  <2>3. CASE CheckDefinition \/ CheckUse \/ CheckOther
    BY <2>3, WalkKeeps
  <2>4. CASE UNCHANGED typeVars
    <3>1. /\ shelf' = shelf /\ program' = program /\ step' = step /\ tags' = tags
          /\ refused' = refused /\ printed' = printed
      BY <2>4 DEF typeVars
    <3>2. Typed'
      BY <3>1 DEF TInv, Typed, Written
    <3>3. \A k : Grounded(k)' <=> Grounded(k)
      BY <3>1, ResolvedStays DEF Grounded
    <3>4. ASSUME NEW k
          PROVE  /\ FieldsChecked(program[k])' <=> FieldsChecked(program[k])
                 /\ HandsOn(program[k])' <=> HandsOn(program[k])
                 /\ UseChecked(program[k])' <=> UseChecked(program[k])
      BY <3>1, TablesStay
    <3>5. (Settled' <=> Settled) /\ (Based' <=> Based) /\ (Accepted' <=> Accepted)
      BY <3>1, <3>3, <3>4, CleanStays DEF Settled, Based, Accepted
    <3>6. QED
      BY <3>1, <3>2, <3>5, CauseStays DEF TInv
  <2>5. QED
    BY <2>1, <2>2, <2>3, <2>4 DEF TNext
<1>3. QED
  BY <1>1, <1>2, PTL DEF TSpec

(* A program of any length is refused only if C would not have it in the         *)
(* source's order either, or an alias in it stands for no type.                   *)
THEOREM RefusalsHaveCause == TSpec => []RefusedForCause
<1>1. TInv => RefusedForCause
  <2> SUFFICES ASSUME TInv, Checked, refused PROVE Cause
    BY DEF RefusedForCause, Cause
  <2>1. step > 0
    BY DEF TInv, Typed, Written, Checked
  <2>2. QED
    BY <2>1 DEF TInv
<1>2. QED
  BY <1>1, TypesInvariant, PTL

------------------------------------------------------------------------------
(* The text the emitter prints of a program sema accepts.                      *)

(* Sema has walked the program without a diagnostic, and it has none of the     *)
(* tags and arrays sema does not look at.                                      *)
Done ==
  /\ Typed /\ Settled /\ Based /\ Accepted /\ step > Len(program)
  /\ \A k \in DOMAIN program : program[k].is # "alias" => ~ Overlooks(program[k])

(* A parameter's type is a pointer where it was an array, to the same base.     *)
LEMMA DecayedType ==
  ASSUME NEW t \in Type
  PROVE  /\ Decayed(t) \in Type /\ Decayed(t).base = t.base /\ ~ IsArray(Decayed(t))
         /\ Decayed(t).wraps = <<>> => Decayed(t) = t
<1>1. CASE ~ IsArray(t)
  BY <1>1 DEF Decayed
<1>2. CASE IsArray(t)
  <2> DEFINE w == [t.wraps EXCEPT ![1] = "pointer"]
  <2>1. t.wraps \in Seq({"pointer", "array"}) /\ t.wraps # <<>>
    BY <1>2 DEF Type, IsArray
  <2>2. w \in Seq({"pointer", "array"}) /\ w # <<>> /\ w[1] = "pointer"
    BY <2>1
  <2>3. Decayed(t) = [t EXCEPT !.wraps = w]
    BY <1>2 DEF Decayed
  <2> HIDE DEF w
  <2>4. Decayed(t) \in Type /\ Decayed(t).base = t.base /\ Decayed(t).wraps = w
    BY <2>2, <2>3 DEF Type
  <2>5. QED
    BY <2>2, <2>4 DEF IsArray
<1>3. QED
  BY <1>1, <1>2

(* A type sema has resolved and the emitter prints.                             *)
LEMMA ExpandedAt ==
  ASSUME Typed, NEW k \in DOMAIN program
  PROVE  LET d == program[k]  e == Expanded(d) IN
         /\ e.is = d.is /\ e.name = d.name /\ e.flexible = d.flexible
         /\ DOMAIN e.types = DOMAIN d.types /\ Len(e.types) = Len(d.types)
         /\ e.types = <<>> <=> d.types = <<>>
         /\ \A j \in DOMAIN d.types :
              /\ e.types[j] \in Type
              /\ e.types[j] = IF d.is = "procedure" THEN Decayed(Resolved(d.types[j]))
                              ELSE Resolved(d.types[j])
<1> DEFINE d == program[k]
           e == Expanded(d)
           types == [j \in DOMAIN d.types |->
                       IF d.is = "procedure" THEN Decayed(Resolved(d.types[j])) ELSE Resolved(d.types[j])]
<1>1. /\ d \in Declaration /\ d.types \in Seq(Type)
      /\ DOMAIN d.types = 1 .. Len(d.types) /\ Len(d.types) \in Nat
      /\ \A j \in DOMAIN d.types : Resolved(d.types[j]) \in Type
  BY DeclarationFields DEF Typed
<1>2. e = [d EXCEPT !.types = types]
  BY DEF Expanded
<1>3. \A j \in DOMAIN d.types : types[j] \in Type
  BY <1>1, DecayedType
<1>4. DOMAIN types = DOMAIN d.types /\ Len(types) = Len(d.types) /\ (types = <<>> <=> d.types = <<>>)
  BY <1>1
<1>5. \A j \in DOMAIN d.types : types[j] = IF d.is = "procedure" THEN Decayed(Resolved(d.types[j]))
                                           ELSE Resolved(d.types[j])
  OBVIOUS
<1> HIDE DEF types, d
<1>6. e.is = d.is /\ e.name = d.name /\ e.flexible = d.flexible /\ e.types = types
  BY <1>1, <1>2 DEF Declaration
<1>7. QED
  BY <1>3, <1>4, <1>5, <1>6 DEF d

(* What stands at a place of the text.                                         *)
LEMMA EmittedAt ==
  ASSUME Typed, NEW p \in DOMAIN Emitted
  PROVE  /\ p[1] \in 1 .. 6 /\ p[2] \in DOMAIN program /\ p = <<p[1], p[2]>>
         /\ program[p[2]].is \in Pages[p[1]]
         /\ program[p[2]].is \in Tagged => p[2] \in printed
         /\ Emitted[p].is = IF p[1] = 4 THEN "prototype" ELSE program[p[2]].is
         /\ Emitted[p].name = program[p[2]].name /\ Emitted[p].flexible = program[p[2]].flexible
         /\ Emitted[p].types = Expanded(program[p[2]]).types
<1> DEFINE e == Expanded(program[p[2]])
<1>1. p \in (1 .. Len(Pages)) \X (1 .. Len(program)) /\ PrintedAt(p)
  BY DEF Emitted
<1>2. Len(Pages) = 6 /\ DOMAIN program = 1 .. Len(program)
  BY DEF Pages, Typed, Written
<1>3. p[1] \in 1 .. 6 /\ p[2] \in DOMAIN program /\ p = <<p[1], p[2]>>
  BY <1>1, <1>2
<1>4. Emitted[p] = IF p[1] = 4 THEN [e EXCEPT !.is = "prototype"] ELSE e
  BY DEF Emitted, PrototypePage
<1>5. program[p[2]] \in Declaration
  BY <1>3, DeclarationFields DEF Typed
<1>6. e = [program[p[2]] EXCEPT !.types = e.types]
  BY <1>5 DEF Expanded, Declaration
<1> HIDE DEF e
<1>7. /\ e.is = program[p[2]].is /\ e.name = program[p[2]].name
      /\ e.flexible = program[p[2]].flexible
  BY <1>5, <1>6 DEF Declaration
<1>8. [e EXCEPT !.is = "prototype"].is = "prototype"
      /\ [e EXCEPT !.is = "prototype"].name = e.name
      /\ [e EXCEPT !.is = "prototype"].flexible = e.flexible
      /\ [e EXCEPT !.is = "prototype"].types = e.types
  BY <1>5, <1>6 DEF Declaration
<1>9. QED
  BY <1>1, <1>3, <1>4, <1>7, <1>8 DEF PrintedAt, e

(* Every kind of declaration has its pages.                                    *)
LEMMA PageOf ==
  ASSUME NEW page \in 1 .. 6, NEW is
  PROVE  /\ is \in Pages[page] => is # "alias"
         /\ is \in Pages[page] /\ is = "enumeration" => page = 1
         /\ is \in Pages[page] /\ is \in Aggregates => page = 2
         /\ is \in Pages[page] /\ is = "declare" => page = 3
         /\ is \in Pages[page] /\ is = "procedure" => page \in {4, 5}
         /\ is \in Pages[page] /\ is = "size" => page = 6
         /\ is \in Pages[page] /\ page = 4 => is = "procedure"
         /\ is = "enumeration" => is \in Pages[1]
         /\ is \in Aggregates => is \in Pages[2]
<1>1. /\ Pages[1] = {"enumeration"} /\ Pages[2] = {"structure", "union"} /\ Pages[3] = {"declare"}
      /\ Pages[4] = {"procedure"} /\ Pages[5] = {"procedure"} /\ Pages[6] = {"size"}
  BY DEF Pages
<1>2. page = 1 \/ page = 2 \/ page = 3 \/ page = 4 \/ page = 5 \/ page = 6
  OBVIOUS
<1>3. QED
  BY <1>1, <1>2 DEF Aggregates

(* A definition that is printed has a place on the first two pages.             *)
LEMMA DefinitionPrinted ==
  ASSUME Typed, Settled, NEW k \in printed
  PROVE  LET q == <<IF program[k].is = "enumeration" THEN 1 ELSE 2, k>> IN
         /\ q \in DOMAIN Emitted
         /\ Emitted[q].is = program[k].is /\ Emitted[q].name = program[k].name
<1> DEFINE page == IF program[k].is = "enumeration" THEN 1 ELSE 2
           q == <<page, k>>
<1>1. k \in DOMAIN program /\ DOMAIN program = 1 .. Len(program) /\ program[k].is \in Tagged
  BY DEF Typed, Written, Settled
<1>2. page \in 1 .. 6 /\ page # 4 /\ Len(Pages) = 6
  BY DEF Pages
<1>3. program[k].is \in Pages[page]
  BY <1>1, PageOf DEF Tagged
<1>4. q \in (1 .. Len(Pages)) \X (1 .. Len(program)) /\ q[1] = page /\ q[2] = k
  BY <1>1, <1>2
<1> HIDE DEF page
<1>5. PrintedAt(q)
  BY <1>3, <1>4 DEF PrintedAt
<1>6. q \in DOMAIN Emitted
  BY <1>4, <1>5 DEF Emitted
<1>7. Emitted[q].is = program[k].is /\ Emitted[q].name = program[k].name
  BY <1>2, <1>4, <1>6, EmittedAt
<1>8. QED
  BY <1>6, <1>7 DEF page

(* A tag that is declared is defined before the objects and the procedures.      *)
LEMMA DeclaredBefore ==
  ASSUME Done, NEW g \in Tagged \X Identifiers, IsDeclared(g[1], g[2]),
         NEW p \in DOMAIN Emitted, p[1] > 2
  PROVE  \E q \in DOMAIN Emitted : /\ Before(q, p) /\ Emitted[q].is = g[1] /\ Emitted[q].name = g[2]
<1>1. PICK k \in DOMAIN program : program[k].is = g[1] /\ program[k].name = g[2]
  BY DEF IsDeclared
<1>2. k \in 1 .. step - 1
  BY DEF Done, Typed, Written
<1>3. k \in printed
  BY <1>1, <1>2 DEF Done, Accepted
<1> DEFINE q == <<IF program[k].is = "enumeration" THEN 1 ELSE 2, k>>
<1>4. /\ q \in DOMAIN Emitted
      /\ Emitted[q].is = program[k].is /\ Emitted[q].name = program[k].name
  BY <1>3, DefinitionPrinted DEF Done
<1>5. q[1] < p[1]
  BY EmittedAt DEF Done
<1> HIDE DEF q
<1>6. QED
  BY <1>1, <1>4, <1>5 DEF Before

(* What C finds flexible in the text, the tables call flexible.                 *)
LEMMA FlexibleInTables ==
  ASSUME Done, NEW t \in Type, HoldsFlexible(Emitted, t)
  PROVE  IsFlexible(t)
<1> DEFINE F == {g \in AggregatesOf(Emitted) :
                   tags[g[2]].is = g[1] /\ tags[g[2]].complete /\ tags[g[2]].flexible}
<1>1. ASSUME NEW p \in DOMAIN Emitted, HoldFlexible(Emitted, Emitted[p], F)
      PROVE  <<Emitted[p].is, Emitted[p].name>> \in F
  <2> DEFINE k == p[2]
             d == program[k]
             e == Expanded(d)
  <2>1. Emitted[p].is \in Aggregates
    BY <1>1 DEF HoldFlexible, Aggregates
  <2>2. p[1] # 4
    BY <2>1, EmittedAt DEF Done, Aggregates
  <2>3. /\ k \in DOMAIN program /\ Emitted[p].is = d.is /\ Emitted[p].name = d.name
        /\ Emitted[p].flexible = d.flexible /\ Emitted[p].types = e.types
        /\ d.is \in Aggregates /\ k \in printed
    BY <2>1, <2>2, EmittedAt DEF Done, Tagged
  <2>4. /\ tags[d.name].is = d.is /\ tags[d.name].complete
        /\ tags[d.name].flexible <=> HandsOn(d)
    BY <2>3 DEF Done, Settled
  <2>5. HandsOn(d)
    <3>1. CASE d.is = "structure" /\ d.flexible
      BY <3>1 DEF HandsOn
    <3>2. CASE d.is = "union" /\ \E u \in TypesOf(Emitted[p]) : ~ Pointing(u) /\ u.base \in F
      <4>1. PICK u \in TypesOf(Emitted[p]) : ~ Pointing(u) /\ u.base \in F
        BY <3>2
      <4>2. PICK j \in DOMAIN d.types : u = Resolved(d.types[j])
        BY <2>3, <3>2, <4>1, ExpandedAt DEF Done, TypesOf
      <4>3. u.base[1] \in Aggregates
        BY <4>1 DEF AggregatesOf
      <4>4. IsFlexible(u)
        BY <4>1, <4>3 DEF IsFlexible
      <4>5. QED
        BY <3>2, <4>2, <4>4 DEF HandsOn
    <3>3. QED
      BY <1>1, <2>3, <3>1, <3>2 DEF HoldFlexible
  <2>6. <<Emitted[p].is, Emitted[p].name>> \in AggregatesOf(Emitted)
    BY <2>1 DEF AggregatesOf
  <2>7. QED
    BY <2>3, <2>4, <2>5, <2>6
<1>2. F \in SUBSET AggregatesOf(Emitted) /\ ClosedUnder(Emitted, F)
  BY <1>1 DEF ClosedUnder
<1>3. t.base \in F /\ ~ Pointing(t)
  BY <1>2 DEF HoldsFlexible
<1>4. t.base[1] \in Aggregates
  BY <1>3 DEF AggregatesOf
<1>5. QED
  BY <1>3, <1>4 DEF IsFlexible

(* A type complete by the tables has a size where its tag's definition comes     *)
(* first.                                                                        *)
LEMMA SizedThere ==
  ASSUME Done, NEW t \in Type, IsComplete(t), NEW p,
         ~ Pointing(t) /\ t.base[1] \in Tagged => DefinedBefore(Emitted, p, t.base)
  PROVE  HasSize(Emitted, p, t)
BY FlexibleInTables DEF IsComplete, Completed, HasSize

(* The elements of an array are looked at with the array, unless a pointer       *)
(* hides them.                                                                    *)
LEMMA FormedThere ==
  ASSUME NEW text, NEW p, NEW t \in Type, ~ HidesArray(t), HasSize(text, p, t)
  PROVE  Formed(text, p, t)
<1> DEFINE n == Len(t.wraps)
           element == [wraps |-> <<"array">>, base |-> t.base]
<1> SUFFICES ASSUME t.wraps # <<>>, t.wraps[n] = "array" PROVE HasSize(text, p, element)
  BY DEF Formed
<1>1. t.wraps \in Seq({"pointer", "array"}) /\ n \in DOMAIN t.wraps /\ DOMAIN t.wraps = 1 .. n /\ n \in Nat
  BY DEF Type
<1>2. ~ Pointing(t)
  <2> SUFFICES ASSUME NEW i \in DOMAIN t.wraps, t.wraps[i] = "pointer" PROVE FALSE
    BY DEF Pointing
  <2>1. i # n /\ i \in 1 .. n
    BY <1>1
  <2>2. i < n
    BY <1>1, <2>1
  <2>3. QED
    BY <1>1, <2>2 DEF HidesArray
<1>3. ~ Pointing(element) /\ element.base = t.base /\ element.wraps # <<>>
  BY DEF Pointing
<1>4. ~ HoldsFlexible(text, t)
  BY <1>2 DEF HasSize
<1>5. ~ HoldsFlexible(text, element)
  BY <1>2, <1>3, <1>4 DEF HoldsFlexible
<1> HIDE DEF element, n
<1>6. QED
  BY <1>2, <1>3, <1>5 DEF HasSize

(* A parameter's type is never an array with elements to look at.                *)
LEMMA FormedDecayed ==
  ASSUME NEW text, NEW p, NEW t \in Type, ~ HidesArray(t), ~ IsArray(t)
  PROVE  Formed(text, p, t)
<1> SUFFICES ASSUME t.wraps # <<>>, t.wraps[Len(t.wraps)] = "array" PROVE FALSE
  BY DEF Formed
<1>1. /\ t.wraps \in Seq({"pointer", "array"}) /\ Len(t.wraps) \in Nat
      /\ DOMAIN t.wraps = 1 .. Len(t.wraps) /\ 1 \in DOMAIN t.wraps /\ Len(t.wraps) \in DOMAIN t.wraps
  BY DEF Type
<1>2. t.wraps[1] = "pointer"
  BY <1>1 DEF IsArray
<1>3. 1 < Len(t.wraps)
  BY <1>1, <1>2
<1>4. QED
  BY <1>1, <1>2, <1>3 DEF HidesArray

(* Nor is it an aggregate by value unless it is nothing else.                     *)
LEMMA BareOrPointing ==
  ASSUME NEW t \in Type, ~ HidesArray(t), ~ IsArray(t)
  PROVE  Pointing(t) \/ t.wraps = <<>>
<1> SUFFICES ASSUME t.wraps # <<>> PROVE Pointing(t)
  OBVIOUS
<1>1. t.wraps \in Seq({"pointer", "array"}) /\ 1 \in DOMAIN t.wraps
  BY DEF Type
<1>2. t.wraps[1] = "pointer"
  BY <1>1 DEF IsArray
<1>3. QED
  BY <1>1, <1>2 DEF Pointing

(* The types of a printed declaration hide no array, and a signature's are       *)
(* parameters' types whose tags are declared.                                     *)
LEMMA EmittedTypes ==
  ASSUME Done, NEW p \in DOMAIN Emitted, NEW j \in DOMAIN Emitted[p].types
  PROVE  LET t == Emitted[p].types[j] IN
         /\ t \in Type /\ ~ HidesArray(t)
         /\ program[p[2]].is = "procedure" =>
              /\ ~ IsArray(t)
              /\ t.base[1] \in Tagged => IsDeclared(t.base[1], t.base[2])
<1> DEFINE k == p[2]
           d == program[k]
           e == Expanded(d)
           t == e.types[j]
<1>1. k \in DOMAIN program /\ Emitted[p].types = e.types /\ d.is # "alias"
  BY EmittedAt, PageOf DEF Done
<1>2. /\ j \in DOMAIN d.types /\ t \in Type /\ t \in TypesOf(e)
      /\ t = IF d.is = "procedure" THEN Decayed(Resolved(d.types[j])) ELSE Resolved(d.types[j])
  BY <1>1, ExpandedAt DEF Done, TypesOf
<1>3. ~ Overlooks(d)
  BY <1>1 DEF Done
<1>4. ~ HidesArray(t)
  BY <1>2, <1>3 DEF Overlooks
<1>5. ASSUME d.is = "procedure" PROVE ~ IsArray(t)
  <2>1. Resolved(d.types[j]) \in Type
    BY <1>1, <1>2, DeclarationFields DEF Done, Typed
  <2>2. QED
    BY <1>2, <1>5, <2>1, DecayedType
<1>6. ASSUME d.is = "procedure", t.base[1] \in Tagged PROVE IsDeclared(t.base[1], t.base[2])
  <2> DEFINE g == t.base
  <2>1. g \in NamedTags(e)
    BY <1>2, <1>6 DEF NamedTags
  <2>2. tags[g[2]].is = g[1]
    BY <1>3, <1>6, <2>1 DEF Overlooks
  <2>3. g[2] \in Identifiers
    BY <1>2 DEF Type
  <2>4. FirstKind(g[2]) = g[1]
    BY <2>2, <2>3 DEF Done, Based
  <2>5. QED
    BY <1>6, <2>4 DEF FirstKind, Tagged, Aggregates
<1>7. QED
  BY <1>1, <1>2, <1>4, <1>5, <1>6

------------------------------------------------------------------------------
(* Every declaration of the text is well formed.                                *)

(* A structure or union.                                                       *)
LEMMA AggregateFormed ==
  ASSUME Done, NEW p \in DOMAIN Emitted, Emitted[p].is \in Aggregates
  PROVE  WellFormed(Emitted, p)
<1> DEFINE k == p[2]
           d == program[k]
           x == Emitted[p]
<1>1. /\ p = <<p[1], k>> /\ k \in DOMAIN program /\ p[1] # 4 /\ x.is = d.is /\ d.is \in Aggregates
      /\ d.is \in Pages[p[1]] /\ x.flexible = d.flexible /\ x.types = Expanded(d).types /\ k \in printed
  BY EmittedAt DEF Done, Aggregates, Tagged
<1>2. p[1] = 2
  BY <1>1, EmittedAt, PageOf DEF Done
<1>3. FieldsChecked(d) /\ Grounded(k)
  BY <1>1 DEF Done, Settled
<1>4. /\ DOMAIN x.types = DOMAIN d.types /\ Len(x.types) = Len(d.types)
      /\ \A j \in DOMAIN d.types : x.types[j] = Resolved(d.types[j])
      /\ x.types # <<>>
  BY <1>1, <1>3, ExpandedAt DEF Done, Aggregates, FieldsChecked
<1>5. ASSUME NEW j \in DOMAIN x.types PROVE Member(Emitted, p, j)
  <2> DEFINE t == x.types[j]
  <2>1. t \in Type /\ ~ HidesArray(t) /\ t = Resolved(d.types[j])
    BY <1>4, EmittedTypes
  <2>2. FieldChecked(d, j)
    BY <1>3, <1>4 DEF FieldsChecked
  <2> HIDE DEF t
  <2>3. /\ IsComplete(t)
        /\ d.is = "structure" => ~ IsFlexible(t)
        /\ d.flexible /\ j = Len(d.types) => d.is = "structure" /\ j > 1 /\ ~ IsFlexible(t)
    BY <2>1, <2>2 DEF FieldChecked
  <2>4. ASSUME ~ Pointing(t), t.base[1] \in Tagged PROVE DefinedBefore(Emitted, p, t.base)
    <3>1. PICK i \in printed : i < k /\ program[i].is = t.base[1] /\ program[i].name = t.base[2]
      BY <1>3, <1>4, <2>1, <2>4 DEF Grounded
    <3> DEFINE q == <<IF program[i].is = "enumeration" THEN 1 ELSE 2, i>>
    <3>2. /\ q \in DOMAIN Emitted
          /\ Emitted[q].is = program[i].is /\ Emitted[q].name = program[i].name
      BY DefinitionPrinted DEF Done
    <3>3. q[2] = i /\ (q[1] = 1 \/ q[1] = 2)
      OBVIOUS
    <3> HIDE DEF q
    <3>4. Before(q, p)
      BY <1>2, <3>1, <3>3 DEF Before
    <3>5. QED
      BY <3>1, <3>2, <3>4 DEF DefinedBefore
  <2>5. HasSize(Emitted, p, t)
    BY <2>1, <2>3, <2>4, SizedThere
  <2>6. Formed(Emitted, p, t)
    BY <2>1, <2>5, FormedThere
  <2>7. HoldsFlexible(Emitted, t) => IsFlexible(t)
    BY <2>1, FlexibleInTables
  <2>8. QED
    BY <1>1, <1>4, <2>3, <2>5, <2>6, <2>7 DEF Member, t
<1>6. /\ Emitted[p].is \in Aggregates /\ Emitted[p].types # <<>>
      /\ \A j \in DOMAIN Emitted[p].types : Member(Emitted, p, j)
  BY <1>4, <1>5
<1>7. QED
  BY <1>6 DEF WellFormed, Aggregates

(* An object, and a type whose size is asked.                                  *)
LEMMA UseFormed ==
  ASSUME Done, NEW p \in DOMAIN Emitted, Emitted[p].is \in {"declare", "size"}
  PROVE  WellFormed(Emitted, p)
<1> DEFINE k == p[2]
           d == program[k]
           x == Emitted[p]
           t == x.types[1]
<1>1. /\ k \in DOMAIN program /\ p[1] # 4 /\ x.is = d.is /\ d.is \in {"declare", "size"}
      /\ d.is \in Pages[p[1]] /\ x.types = Expanded(d).types
  BY EmittedAt DEF Done
<1>2. p[1] > 2
  BY <1>1, EmittedAt, PageOf DEF Done
<1>3. d.is \notin Tagged /\ d.is # "procedure"
  BY <1>1 DEF Tagged, Aggregates
<1>4. 1 \in DOMAIN d.types
  BY <1>1, <1>3, DeclarationFields DEF Done, Typed
<1>5. 1 \in DOMAIN x.types /\ t = Resolved(d.types[1])
  BY <1>1, <1>3, <1>4, ExpandedAt DEF Done
<1>6. t \in Type /\ ~ HidesArray(t)
  BY <1>5, EmittedTypes
<1>7. k \in 1 .. step - 1
  BY <1>1 DEF Done, Typed, Written
<1>8. IsComplete(t)
  BY <1>1, <1>5, <1>7 DEF Done, Accepted, UseChecked
<1> HIDE DEF x, t
<1>9. ASSUME ~ Pointing(t), t.base[1] \in Tagged PROVE DefinedBefore(Emitted, p, t.base)
  <2>1. /\ tags[t.base[2]].is = t.base[1] /\ tags[t.base[2]].complete
        /\ t.base \in Tagged \X Identifiers
    BY <1>6, <1>8, <1>9 DEF IsComplete, Completed, Type
  <2>2. PICK i \in printed : program[i].name = t.base[2]
    BY <2>1 DEF Done, Based
  <2>3. program[i].is = t.base[1] /\ i \in DOMAIN program
    BY <2>1, <2>2 DEF Done, Settled, Typed
  <2>4. IsDeclared(t.base[1], t.base[2])
    BY <2>2, <2>3 DEF IsDeclared
  <2>5. QED
    BY <1>2, <2>1, <2>4, DeclaredBefore DEF DefinedBefore
<1>10. HasSize(Emitted, p, t)
  BY <1>6, <1>8, <1>9, SizedThere
<1>11. Formed(Emitted, p, t)
  BY <1>6, <1>10, FormedThere
<1>12. QED
  BY <1>1, <1>10, <1>11 DEF WellFormed, Aggregates, x, t

(* A prototype.                                                                *)
LEMMA PrototypeFormed ==
  ASSUME Done, NEW p \in DOMAIN Emitted, Emitted[p].is = "prototype"
  PROVE  WellFormed(Emitted, p)
<1> DEFINE k == p[2]
           d == program[k]
           x == Emitted[p]
<1>1. k \in DOMAIN program /\ d.is \in Pages[p[1]] /\ p[1] \in 1 .. 6 /\ p = <<p[1], k>>
  BY EmittedAt DEF Done
<1>2. p[1] = 4
  <2>1. p[1] # 4 => x.is = d.is
    BY EmittedAt DEF Done
  <2>2. d.is # "prototype"
    BY <1>1, DeclarationFields DEF Done, Typed, Tagged, Aggregates
  <2>3. QED
    BY <2>1, <2>2
<1>3. d.is = "procedure"
  BY <1>1, <1>2, PageOf
<1>4. ASSUME NEW t \in TypesOf(x) PROVE Formed(Emitted, p, t)
  <2>1. PICK j \in DOMAIN x.types : t = x.types[j]
    BY DEF TypesOf
  <2>2. t \in Type /\ ~ HidesArray(t) /\ ~ IsArray(t)
    BY <1>3, <2>1, EmittedTypes
  <2>3. QED
    BY <2>2, FormedDecayed
<1>5. ASSUME NEW g \in NamedTags(x) PROVE g \in Visible(Emitted, p)
  <2>1. PICK j \in DOMAIN x.types : g = x.types[j].base /\ g[1] \in Tagged
    BY DEF NamedTags, TypesOf
  <2>2. x.types[j] \in Type /\ IsDeclared(g[1], g[2])
    BY <1>3, <2>1, EmittedTypes
  <2>3. g \in Tagged \X Identifiers /\ g = <<g[1], g[2]>>
    BY <2>1, <2>2 DEF Type
  <2>4. PICK q \in DOMAIN Emitted : Before(q, p) /\ Emitted[q].is = g[1] /\ Emitted[q].name = g[2]
    BY <1>2, <2>2, <2>3, DeclaredBefore
  <2>5. g \in MentionsOf(Emitted[q]) /\ Emitted[q].is # "prototype"
    BY <2>3, <2>4 DEF MentionsOf, Tagged, Aggregates
  <2>6. QED
    BY <2>4, <2>5 DEF Visible
<1> HIDE DEF x
<1>6. QED
  BY <1>4, <1>5 DEF WellFormed, Aggregates, x

(* A procedure's definition.                                                   *)
LEMMA ProcedureFormed ==
  ASSUME Done, NEW p \in DOMAIN Emitted, Emitted[p].is = "procedure"
  PROVE  WellFormed(Emitted, p)
<1> DEFINE k == p[2]
           d == program[k]
           x == Emitted[p]
<1>1. /\ k \in DOMAIN program /\ d.is = "procedure" /\ d.is \in Pages[p[1]] /\ p[1] \in 1 .. 6
      /\ p[1] # 4 /\ x.types = Expanded(d).types
  BY EmittedAt DEF Done
<1>2. p[1] > 2
  BY <1>1, PageOf
<1>3. /\ DOMAIN x.types = DOMAIN d.types /\ Len(x.types) = Len(d.types)
      /\ \A j \in DOMAIN d.types : x.types[j] = Decayed(Resolved(d.types[j]))
  BY <1>1, ExpandedAt DEF Done
<1>4. /\ DOMAIN d.types = 1 .. Len(d.types) /\ Len(d.types) \in Nat /\ 1 \in DOMAIN d.types
      /\ \A j \in DOMAIN d.types : Resolved(d.types[j]) \in Type
  BY <1>1, DeclarationFields DEF Done, Typed, Tagged, Aggregates
<1>5. ~ BadSignature(d)
  BY <1>1 DEF Done, Accepted, Clean
<1>6. ASSUME NEW j \in DOMAIN x.types PROVE HasSize(Emitted, p, x.types[j]) \/ IsVoid(x.types[j])
  <2> DEFINE t == x.types[j]
  <2>1. /\ t \in Type /\ ~ HidesArray(t) /\ ~ IsArray(t)
        /\ t.base[1] \in Tagged => IsDeclared(t.base[1], t.base[2])
    BY <1>1, EmittedTypes
  <2> HIDE DEF t
  <2>2. CASE Pointing(t)
    BY <2>2 DEF HasSize, t
  <2>3. CASE t.wraps = <<>>
    <3>1. t.base[1] \in Tagged => DefinedBefore(Emitted, p, t.base)
      <4> SUFFICES ASSUME t.base[1] \in Tagged PROVE DefinedBefore(Emitted, p, t.base)
        OBVIOUS
      <4>1. t.base \in Tagged \X Identifiers
        BY <2>1 DEF Type
      <4>2. QED
        BY <1>2, <2>1, <4>1, DeclaredBefore DEF DefinedBefore
    <3>2. HasSize(Emitted, p, t) \/ IsVoid(t)
      BY <2>3, <3>1 DEF HasSize, IsVoid
    <3>3. QED
      BY <3>2 DEF t
  <2>4. QED
    BY <2>1, <2>2, <2>3, BareOrPointing
<1>7. ASSUME NEW j \in 2 .. Len(x.types) PROVE ~ IsVoid(x.types[j])
  <2>1. j \in DOMAIN d.types /\ j \in 2 .. Len(d.types)
    BY <1>3, <1>4
  <2>2. ~ IsVoid(Resolved(d.types[j]))
    BY <1>5, <2>1 DEF BadSignature
  <2>3. x.types[j].wraps = <<>> => x.types[j] = Resolved(d.types[j])
    BY <1>3, <1>4, <2>1, DecayedType
  <2>4. QED
    BY <2>2, <2>3 DEF IsVoid
<1>8. 1 \in DOMAIN x.types /\ \A j \in 2 .. Len(x.types) : j \in DOMAIN x.types
  BY <1>3, <1>4
<1> HIDE DEF x
<1>9. QED
  BY <1>6, <1>7, <1>8 DEF WellFormed, Aggregates, x

------------------------------------------------------------------------------
(* No tag has two kinds, and nothing is defined twice.                           *)

(* The tags a printed declaration names or defines are the program's.            *)
LEMMA EmittedTags ==
  ASSUME Done, NEW p \in DOMAIN Emitted, NEW f \in MentionsOf(Emitted[p])
  PROVE  LET d == program[p[2]] IN
         /\ p[2] \in DOMAIN program /\ d.is # "alias" /\ f[1] \in Tagged /\ NamedAs(f)
         /\ f = <<f[1], f[2]>>
         /\ \/ f \in NamedTags(Expanded(d))
            \/ d.is = f[1] /\ FirstKind(f[2]) = f[1]
<1> DEFINE d == program[p[2]]
           e == Expanded(d)
<1>1. /\ p[2] \in DOMAIN program /\ d.is \in Pages[p[1]] /\ p[1] \in 1 .. 6
      /\ Emitted[p].is = IF p[1] = 4 THEN "prototype" ELSE d.is
      /\ Emitted[p].name = d.name /\ Emitted[p].types = e.types
  BY EmittedAt DEF Done
<1>2. d.is # "alias" /\ (p[1] = 4 => d.is = "procedure")
  BY <1>1, PageOf
<1>3. e.is = d.is /\ e.name = d.name
  BY <1>1, ExpandedAt DEF Done
<1>4. NamedTags(Emitted[p]) = NamedTags(e)
  BY <1>1 DEF NamedTags, TypesOf
<1>5. CASE f \in NamedTags(Emitted[p])
  <2>1. f \in MentionsOf(e)
    BY <1>4, <1>5 DEF MentionsOf
  <2>2. PICK j \in DOMAIN e.types : f = e.types[j].base /\ f[1] \in Tagged
    BY <1>4, <1>5 DEF NamedTags, TypesOf
  <2>3. e.types[j] \in Type
    BY <1>1, <2>2, ExpandedAt DEF Done
  <2>4. f = <<f[1], f[2]>>
    BY <2>2, <2>3 DEF Type
  <2>5. QED
    BY <1>1, <1>2, <1>4, <1>5, <2>1, <2>2, <2>4 DEF NamedAs
<1>6. CASE Emitted[p].is \in Tagged /\ f = <<Emitted[p].is, Emitted[p].name>>
  <2>1. p[1] # 4
    BY <1>1, <1>6 DEF Tagged, Aggregates
  <2>2. f = <<d.is, d.name>> /\ d.is \in Tagged
    BY <1>1, <1>6, <2>1
  <2>3. f \in MentionsOf(e)
    BY <1>3, <2>2 DEF MentionsOf
  <2>4. FirstKind(d.name) = d.is
    BY <1>1, <2>2 DEF Done, Accepted, Clean
  <2>5. QED
    BY <1>1, <1>2, <2>2, <2>3, <2>4 DEF NamedAs
<1>7. QED
  BY <1>5, <1>6 DEF MentionsOf

(* A tag has one kind.                                                         *)
LEMMA OneKind ==
  ASSUME Done, NEW p \in DOMAIN Emitted, NEW q \in DOMAIN Emitted,
         NEW f \in MentionsOf(Emitted[p]), NEW g \in MentionsOf(Emitted[q]), f[2] = g[2]
  PROVE  f[1] = g[1]
<1>1. /\ f[1] \in Tagged /\ NamedAs(f) /\ f = <<f[1], f[2]>>
      /\ g[1] \in Tagged /\ NamedAs(g) /\ g = <<g[1], g[2]>>
  BY EmittedTags
<1>2. CASE f \in NamedTags(Expanded(program[p[2]]))
  <2>1. ~ Overlooks(program[p[2]])
    BY EmittedTags DEF Done
  <2>2. g = <<g[1], f[2]>>
    BY <1>1
  <2>3. QED
    BY <1>1, <1>2, <2>1, <2>2 DEF Overlooks
<1>3. CASE g \in NamedTags(Expanded(program[q[2]]))
  <2>1. ~ Overlooks(program[q[2]])
    BY EmittedTags DEF Done
  <2>2. f = <<f[1], g[2]>>
    BY <1>1
  <2>3. QED
    BY <1>1, <1>3, <2>1, <2>2 DEF Overlooks
<1>4. CASE FirstKind(f[2]) = f[1] /\ FirstKind(g[2]) = g[1]
  BY <1>4
<1>5. QED
  BY <1>2, <1>3, <1>4, EmittedTags

(* Two declarations of a kind and a name are a definition twice.                 *)
LEMMA SameIsTwice ==
  ASSUME Typed, NEW j \in DOMAIN program, NEW k \in DOMAIN program, j # k,
         program[j].is = program[k].is, program[j].name = program[k].name
  PROVE  Twice(program[k].is)
<1>1. j \in Nat /\ k \in Nat
  BY DEF Typed, Written
<1>2. CASE j < k
  BY <1>2 DEF Twice
<1>3. CASE k < j
  BY <1>3 DEF Twice
<1>4. QED
  BY <1>1, <1>2, <1>3

(* Nothing is defined twice.                                                   *)
LEMMA NothingTwice ==
  ASSUME Done, NEW p \in DOMAIN Emitted, NEW q \in DOMAIN Emitted, p # q,
         Emitted[p].is = Emitted[q].is, Emitted[p].name = Emitted[q].name
  PROVE  Emitted[p].is = "size"
<1> DEFINE c == program[p[2]]
           d == program[q[2]]
<1>1. /\ p[2] \in DOMAIN program /\ p = <<p[1], p[2]>> /\ p[1] \in 1 .. 6 /\ c.is \in Pages[p[1]]
      /\ Emitted[p].is = (IF p[1] = 4 THEN "prototype" ELSE c.is) /\ Emitted[p].name = c.name
  BY EmittedAt DEF Done
<1>2. /\ q[2] \in DOMAIN program /\ q = <<q[1], q[2]>> /\ q[1] \in 1 .. 6 /\ d.is \in Pages[q[1]]
      /\ Emitted[q].is = (IF q[1] = 4 THEN "prototype" ELSE d.is) /\ Emitted[q].name = d.name
  BY EmittedAt DEF Done
<1>3. /\ c.is \in Tagged \cup {"declare", "size", "procedure"}
      /\ d.is \in Tagged \cup {"declare", "size", "procedure"}
  BY <1>1, <1>2, DeclarationFields, PageOf DEF Done, Typed
<1>4. (p[1] = 4 => c.is = "procedure") /\ (q[1] = 4 => d.is = "procedure")
  BY <1>1, <1>2, PageOf
<1>5. c.is = d.is /\ p[1] = q[1]
  <2>1. (p[1] = 4) <=> (q[1] = 4)
    BY <1>1, <1>2, <1>3 DEF Tagged, Aggregates
  <2>2. c.is = d.is
    BY <1>1, <1>2, <1>4, <2>1
  <2>3. QED
    BY <1>1, <1>2, <1>3, <2>1, <2>2, PageOf DEF Tagged
<1>6. p[2] # q[2] /\ c.name = d.name
  BY <1>1, <1>2, <1>5
<1> HIDE DEF c, d
<1>7. Twice(d.is)
  BY <1>1, <1>2, <1>5, <1>6, SameIsTwice DEF Done, c, d
<1>8. d.is \notin Tagged \cup {"procedure"}
  BY <1>7 DEF Done, Accepted, Clean
<1>9. d.is # "declare"
  <2> SUFFICES ASSUME d.is = "declare" PROVE FALSE
    OBVIOUS
  <2>1. q[2] \in 1 .. step - 1
    BY <1>2 DEF Done, Typed, Written
  <2>2. UseChecked(d)
    BY <2>1 DEF Done, Accepted, d
  <2>3. QED
    BY <1>7, <2>2 DEF UseChecked
<1>10. QED
  BY <1>1, <1>3, <1>4, <1>5, <1>8, <1>9

(* What sema accepts of a program of any length, and does not overlook in it,    *)
(* C compiles in the order the emitter prints it.                                *)
THEOREM AcceptedCompiles == TSpec => []DefinedBeforeUse
<1>1. TInv => DefinedBeforeUse
  <2> SUFFICES ASSUME TInv, Checked, ~ refused,
                      \A k \in DOMAIN program : program[k].is # "alias" => ~ Overlooks(program[k])
               PROVE  Compiles(Emitted)
    BY DEF DefinedBeforeUse
  <2>1. step > 0
    BY DEF TInv, Typed, Written, Checked
  <2>2. Done
    BY <2>1 DEF TInv, Checked, Done
  <2>3. ASSUME NEW p \in DOMAIN Emitted PROVE WellFormed(Emitted, p)
    <3>1. \/ Emitted[p].is \in Aggregates \/ Emitted[p].is \in {"declare", "size"}
          \/ Emitted[p].is = "prototype" \/ Emitted[p].is = "procedure"
          \/ Emitted[p].is \notin Aggregates \cup {"declare", "size", "prototype", "procedure"}
      OBVIOUS
    <3>2. Emitted[p].is \notin Aggregates \cup {"declare", "size", "prototype", "procedure"}
            => WellFormed(Emitted, p)
      BY DEF WellFormed
    <3>3. QED
      BY <2>2, <3>1, <3>2, AggregateFormed, UseFormed, PrototypeFormed, ProcedureFormed
  <2>4. OneMeaning(Emitted)
    BY <2>2, OneKind, NothingTwice DEF OneMeaning
  <2>5. QED
    BY <2>3, <2>4 DEF Compiles
<1>2. QED
  BY <1>1, TypesInvariant, PTL

==============================================================================
