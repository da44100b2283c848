---------------------------- MODULE BindingsProofs ----------------------------
(***************************************************************************)
(* Proofs about Bindings: for any names, imports and depth of nesting, sema *)
(* and C agree on every name as long as the program keeps to the forms that *)
(* Quirks excludes.                                                         *)
(***************************************************************************)
EXTENDS Bindings, TLAPS, WellFoundedInduction

------------------------------------------------------------------------------
(* Scopes.                                                                    *)

(* A set of naturals has a least element.                                     *)
LEMMA Least ==
  ASSUME NEW S \in SUBSET Nat, S # {}
  PROVE  \E m \in S : \A n \in S : m <= n
<1> DEFINE R == {ss \in Nat \X Nat : ss[1] < ss[2]}
<1>1. R = OpToRel(<, Nat)
  BY Zenon DEF OpToRel
<1>2. \A m, n \in Nat : m <= n \/ <<n, m>> \in R
  OBVIOUS
<1> HIDE DEF R
<1>3. IsWellFoundedOn(R, Nat)
  BY <1>1, NatLessThanWellFounded, Zenon
<1>4. PICK m \in S : \A n \in S : ~(<<n, m>> \in R)
  BY <1>3, WFMin, Zenon
<1>5. \A n \in S : m <= n
  BY <1>2, <1>4, Zenon
<1>6. QED
  BY <1>5, Zenon

(* The innermost of some scopes is one of them, and the others are outside it. *)
LEMMA Greatest ==
  ASSUME NEW k \in Nat, NEW S \in SUBSET (1 .. k), S # {}
  PROVE  Innermost(S) \in S /\ \A j \in S : j <= Innermost(S)
<1> DEFINE T == {i \in Nat : k - i \in S}
<1>1. T \in SUBSET Nat
  OBVIOUS
<1>2. \A j \in S : k - j \in T
  OBVIOUS
<1> HIDE DEF T
<1>3. PICK m \in T : \A n \in T : m <= n
  BY <1>1, <1>2, Least
<1>4. m \in Nat /\ k - m \in S
  BY DEF T
<1>5. \A j \in S : j <= k - m
  <2>1. TAKE j \in S
  <2>2. m <= k - j
    BY <1>2, <1>3
  <2>3. QED
    BY <2>2, <1>4
<1>6. QED
  BY <1>4, <1>5 DEF Innermost

(* The kinds of places are different places, and so are the blocks.           *)
LEMMA Places ==
  /\ At("none") \notin {At("imported"), At("file"), At("global"), At("local"), At("param")}
  /\ At("imported") \notin {At("file"), At("global"), At("local"), At("param")}
  /\ At("file") \notin {At("global"), At("local"), At("param")}
  /\ At("global") \notin {At("local"), At("param")}
  /\ At("local") \notin {At("param")}
  /\ \A i : Block(i) \notin {At("none"), At("imported"), At("file"),
                          At("global"), At("local"), At("param")}
  /\ \A i, j : Block(i) = Block(j) => i = j
BY DEF At, Block

(* What the innermost scope is made of.                                       *)
LEMMA TopScope ==
  ASSUME TypeOK
  PROVE  /\ Len(scopes) \in Nat /\ Len(scopes) >= 1
         /\ \A i \in 1 .. Len(scopes) : scopes[i] \in Scopes
         /\ Top = scopes[Len(scopes)] /\ Top \in Scopes
BY DEF TypeOK, Top, Floor

(* A home is a home.                                                          *)
LEMMA HomeType ==
  /\ At("none") \in Homes /\ At("imported") \in Homes /\ At("file") \in Homes
  /\ At("global") \in Homes /\ At("local") \in Homes /\ At("param") \in Homes
  /\ \A i \in Nat : Block(i) \in Homes
BY DEF At, Block, Homes

(* A name is what the innermost scope that binds it says.                     *)
LEMMA SymbolIs ==
  ASSUME TypeOK, NEW n \in Names, Visible(n)
  PROVE  \E i \in 1 .. Len(scopes) :
           /\ i \in Binders(n) /\ i = Innermost(Binders(n))
           /\ Symbol(n) = scopes[i] /\ Home(n) = scopes[i].bind[n]
           /\ scopes[i].bind[n] # None
           /\ \A j \in 1 .. Len(scopes) : scopes[j].bind[n] # None => j <= i
<1> DEFINE i == Innermost(Binders(n))
<1>1. Binders(n) \in SUBSET (1 .. Len(scopes)) /\ Binders(n) # {} /\ Len(scopes) \in Nat
  BY TopScope DEF Binders, Visible
<1>2. i \in Binders(n) /\ \A j \in Binders(n) : j <= i
  BY <1>1, Greatest
<1>3. QED
  BY <1>1, <1>2 DEF Binders, Symbol, Home

------------------------------------------------------------------------------
(* The invariant.                                                             *)

(* The two sides of one binding, of n in the scope at position i: what its    *)
(* home says of the C declarations.                                           *)
Placed(n, i) ==
  LET sc == scopes[i]
      b  == sc.bind[n]
  IN  /\ b \in {None, At("imported"), At("file"), At("global"), At("local"),
                At("param"), Block(i)}
      /\ n \in sc.c <=> b = Block(i)
      /\ b = At("imported") <=> i = 1 /\ n \in Imported
      /\ n \in sc.native /\ n \in Imported => b = At("imported")
      /\ b = At("imported") => n \in sc.native
      /\ n \in sc.native => b # None
      /\ b = At("file") => i = 1 /\ n \in files
      /\ b = At("global") => n \in globals /\ (i = 1 \/ proc = "main")
      /\ b = At("local") => n \in locals /\ i > 1 /\ proc # "main"
      /\ b = At("param") => i = 2 /\ proc # "main"

(* What the emitter has declared for the whole program or procedure, as seen  *)
(* from its scope.                                                            *)
Declared(n) ==
  /\ n \in files => scopes[1].bind[n] = At("file")
  /\ n \in globals => scopes[1].bind[n] # At("file")
  /\ n \in locals => /\ scopes[1].bind[n] = None
                     /\ scopes[2].bind[n] \in {None, At("local")}

(* A boxed variable hides nothing: it was created where no variable of its    *)
(* name was visible.                                                          *)
Alone(n) ==
  \A i, j \in 1 .. Len(scopes) :
    j < i /\ scopes[i].bind[n] \in {At("global"), At("local")} => scopes[j].bind[n] = None

(* The inductive invariant.                                                   *)
IInv ==
  /\ TypeOK
  /\ proc # "main" => scopes[1].c = {}
  /\ \A n \in Names : /\ \A i \in 1 .. Len(scopes) : Placed(n, i)
                      /\ Declared(n)
                      /\ Alone(n)

------------------------------------------------------------------------------
(* What follows from the invariant.                                           *)

(* Every visible name denotes in C what it denotes in sema.                   *)
LEMMA InvDenotes ==
  ASSUME IInv
  PROVE  Denotes
<1> SUFFICES ASSUME NEW n \in Names, Visible(n)
             PROVE  Denoted(n) = Home(n)
  BY DEF Denotes
<1>1. PICK i \in 1 .. Len(scopes) :
        /\ i \in Binders(n) /\ i = Innermost(Binders(n))
        /\ Symbol(n) = scopes[i] /\ Home(n) = scopes[i].bind[n]
        /\ scopes[i].bind[n] # None
        /\ \A j \in 1 .. Len(scopes) : scopes[j].bind[n] # None => j <= i
  BY SymbolIs DEF IInv
<1> DEFINE b == scopes[i].bind[n]
<1>2. /\ TypeOK /\ Declared(n) /\ Alone(n)
      /\ \A j \in 1 .. Len(scopes) : Placed(n, j)
      /\ proc # "main" => scopes[1].c = {}
      /\ Len(scopes) \in Nat /\ Floor \in Nat /\ Floor >= 1 /\ Len(scopes) >= Floor
  BY TopScope DEF IInv, TypeOK, Floor
<1>3. /\ b \in {At("imported"), At("file"), At("global"), At("local"), At("param"), Block(i)}
      /\ n \in Imported /\ Native(n) <=> b = At("imported")
  BY <1>1, <1>2, Places DEF Placed, Native
<1>4. \A j \in Declarers(n) : scopes[j].bind[n] = Block(j) /\ j <= i
  BY <1>1, <1>2, Places DEF Declarers, Placed, None
<1>5. CASE b = At("imported")
  BY <1>1, <1>3, <1>5 DEF Denoted
<1>6. CASE b = Block(i)
  <2>1. i \in Declarers(n)
    BY <1>1, <1>2, <1>6 DEF Declarers, Placed, Floor
  <2>2. Declarers(n) \in SUBSET (1 .. Len(scopes)) /\ Declarers(n) # {}
    BY <1>2, <2>1 DEF Declarers
  <2>3. Innermost(Declarers(n)) = i
    <3>1. /\ Innermost(Declarers(n)) \in Declarers(n)
          /\ \A j \in Declarers(n) : j <= Innermost(Declarers(n))
      BY <1>2, <2>2, Greatest
    <3>2. Innermost(Declarers(n)) \in Nat /\ i \in Nat
      BY <2>1, <2>2, <3>1
    <3>3. QED
      BY <1>4, <2>1, <3>1, <3>2
  <2>4. ~(n \in Imported /\ Native(n))
    BY <1>3, <1>6, Places
  <2>5. QED
    BY <1>1, <1>6, <2>2, <2>3, <2>4 DEF Denoted
<1>7. CASE b \in {At("file"), At("global"), At("local"), At("param")}
  <2>1. Declarers(n) = {}
    <3>1. SUFFICES ASSUME NEW j \in Declarers(n)  PROVE FALSE
      OBVIOUS
    <3>2. /\ j \in 1 .. Len(scopes) /\ j >= Floor /\ j <= i
          /\ scopes[j].bind[n] = Block(j) /\ scopes[j].bind[n] # None
      BY <1>2, <1>4, Places DEF Declarers, None
    <3>3. j # i
      BY <1>7, <3>2, Places
    <3>4. b \notin {At("global"), At("local")}
      BY <1>1, <1>2, <3>2, <3>3 DEF Alone
    <3>5. Placed(n, i)
      BY <1>2
    <3>6. i = 2 /\ proc # "main"
      BY <1>1, <1>7, <3>2, <3>3, <3>4, <3>5, Places DEF Placed
    <3>7. QED
      BY <1>2, <3>2, <3>3, <3>6 DEF Floor
  <2>2. ~(n \in Imported /\ Native(n))
    BY <1>3, <1>7, Places
  <2>3. CASE b = At("local")
    BY <1>1, <1>2, <2>1, <2>2, <2>3 DEF Denoted, Placed
  <2>4. CASE b = At("param")
    <3>1. n \notin locals /\ n \in Params
      <4>1. Placed(n, i)
        BY <1>2
      <4>2. i = 2 /\ proc # "main"
        BY <2>4, <4>1, Places DEF Placed
      <4>3. QED
        BY <1>2, <2>4, <4>2, Places DEF Declared, Params, None
    <3>2. QED
      BY <1>1, <2>1, <2>2, <2>4, <3>1 DEF Denoted
  <2>5. CASE b \in {At("file"), At("global")}
    <3>1. n \notin locals
      BY <1>1, <1>2, <2>5, Places DEF Declared, Placed, None, TypeOK
    <3>2. n \notin Params
      <4>1. SUFFICES ASSUME n \in Params  PROVE FALSE
        OBVIOUS
      <4>2. proc # "main" /\ 2 \in 1 .. Len(scopes) /\ scopes[2].bind[n] = At("param")
        BY <1>2, <4>1 DEF Params, Floor
      <4>3. i = 2
        <5>1. Placed(n, i)
          BY <1>2
        <5>2. i >= 2
          BY <1>1, <4>2, Places DEF None
        <5>3. QED
          BY <2>5, <4>2, <5>1, <5>2, Places DEF Placed
      <4>4. QED
        BY <2>5, <4>2, <4>3, Places
    <3>3. n \in files <=> b = At("file")
      BY <1>1, <1>2, <2>5, Places DEF Declared, Placed, None, Alone
    <3>4. b = At("global") => n \in globals
      BY <1>1, <1>2 DEF Placed
    <3>5. QED
      BY <1>1, <2>1, <2>2, <2>5, <3>1, <3>2, <3>3, <3>4 DEF Denoted
  <2>6. QED
    BY <1>7, <2>3, <2>4, <2>5
<1>8. QED
  BY <1>3, <1>5, <1>6, <1>7

(* Shadowing variables have storage of their own.                             *)
LEMMA InvSeparate ==
  ASSUME IInv
  PROVE  Separate
<1> SUFFICES ASSUME NEW n \in Names, NEW i \in 1 .. Len(scopes), NEW j \in 1 .. Len(scopes),
                    scopes[i].bind[n] # None, scopes[j].bind[n] # None, j < i
             PROVE  scopes[i].bind[n] # scopes[j].bind[n]
  <2>1. \A i, j \in 1 .. Len(scopes) : i # j => i < j \/ j < i
    BY TopScope DEF IInv
  <2>2. QED
    BY <2>1 DEF Separate, Binders
<1>1. Placed(n, i) /\ Placed(n, j) /\ Alone(n)
  BY DEF IInv
<1>2. scopes[i].bind[n] \notin {At("global"), At("local")}
  BY <1>1 DEF Alone
<1>3. QED
  BY <1>1, <1>2, Places DEF Placed

(* The C declarations compile.                                                *)
LEMMA InvDeclaredOnce ==
  ASSUME IInv
  PROVE  DeclaredOnce
<1>1. files \cap globals = {}
  BY DEF IInv, Declared, TypeOK
<1>2. ASSUME proc # "main"
      PROVE  locals \cap Params = {} /\ scopes[2].c \cap (locals \cup Params) = {}
  <2>1. 2 \in 1 .. Len(scopes) /\ scopes[2].c \subseteq Names /\ locals \subseteq Names
    BY <1>2, TopScope DEF IInv, TypeOK, Floor, Scopes
  <2>2. \A n \in locals : scopes[2].bind[n] \in {None, At("local")}
    BY <2>1 DEF IInv, Declared
  <2>3. \A n \in Params : scopes[2].bind[n] = At("param")
    BY <1>2 DEF Params
  <2>4. \A n \in scopes[2].c : scopes[2].bind[n] = Block(2)
    BY <2>1 DEF IInv, Placed
  <2>5. locals \cap Params = {}
    BY <2>2, <2>3, Places DEF None
  <2>6. scopes[2].c \cap (locals \cup Params) = {}
    BY <2>2, <2>3, <2>4, Places DEF None
  <2>7. QED
    BY <2>5, <2>6
<1>3. QED
  BY <1>1, <1>2 DEF DeclaredOnce

------------------------------------------------------------------------------
(* The steps.                                                                 *)

(* A name bound in the innermost scope, its C declaration printed.            *)
LEMMA BindKeeps ==
  ASSUME IInv, NEW n \in Names, NEW h \in Homes, NEW t \in Scopes,
         t.bind = [Top.bind EXCEPT ![n] = h],
         \A m \in Names \ {n} : (m \in t.native <=> m \in Top.native) /\ (m \in t.c <=> m \in Top.c),
         scopes' = [scopes EXCEPT ![Len(scopes)] = t],
         proc' = proc,
         files' \in {files, files \cup {n}},
         globals' \in {globals, globals \cup {n}},
         locals' \in {locals, locals \cup {n}},
         proc = "main" => locals' = {},
         Placed(n, Len(scopes))',
         Declared(n)',
         Alone(n)'
  PROVE  IInv'
<1> DEFINE k == Len(scopes)
<1>1. /\ TypeOK /\ k \in Nat /\ k >= 1 /\ (proc # "main" => k >= 2)
      /\ Top = scopes[k] /\ Top \in Scopes
      /\ \A i \in 1 .. k : scopes[i] \in Scopes
  BY TopScope DEF IInv, TypeOK, Floor
<1>2. /\ Len(scopes') = k /\ scopes' \in Seq(Scopes) /\ scopes'[k] = t
      /\ \A i \in 1 .. k : i # k => scopes'[i] = scopes[i]
  BY <1>1 DEF TypeOK
<1>3. \A m \in Names \ {n} : \A i \in 1 .. k :
        /\ scopes'[i].bind[m] = scopes[i].bind[m]
        /\ m \in scopes'[i].native <=> m \in scopes[i].native
        /\ m \in scopes'[i].c <=> m \in scopes[i].c
  BY <1>1, <1>2 DEF Scopes
<1>4. \A m \in Names \ {n} : /\ m \in files' <=> m \in files
                             /\ m \in globals' <=> m \in globals
                             /\ m \in locals' <=> m \in locals
  OBVIOUS
<1>5. files \subseteq files' /\ globals \subseteq globals' /\ locals \subseteq locals'
  OBVIOUS
<1>6. \A m \in Names : \A i \in 1 .. k : Placed(m, i)'
  <2>1. ASSUME NEW m \in Names, NEW i \in 1 .. k, m # n \/ i # k
        PROVE  Placed(m, i)'
    <3>1. Placed(m, i)
      BY DEF IInv
    <3>2. /\ scopes'[i].bind[m] = scopes[i].bind[m]
          /\ m \in scopes'[i].native <=> m \in scopes[i].native
          /\ m \in scopes'[i].c <=> m \in scopes[i].c
      BY <1>2, <1>3, <2>1
    <3>3. QED
      BY <1>5, <3>1, <3>2 DEF Placed, Block, At, None
  <2>2. QED
    BY <2>1
<1>7. \A m \in Names : Declared(m)'
  <2>1. ASSUME NEW m \in Names \ {n}
        PROVE  Declared(m)'
    <3>1. Declared(m) /\ (m \in locals => k >= 2)
      BY <1>1 DEF IInv, TypeOK
    <3>2. QED
      BY <1>1, <1>3, <1>4, <2>1, <3>1 DEF Declared, At, None
  <2>2. QED
    BY <2>1
<1>8. \A m \in Names : Alone(m)'
  <2>1. ASSUME NEW m \in Names \ {n}
        PROVE  Alone(m)'
    <3>1. Alone(m)
      BY DEF IInv
    <3>2. \A i \in 1 .. k : scopes'[i].bind[m] = scopes[i].bind[m]
      BY <1>3
    <3>3. \A i, j \in 1 .. k :
            j < i /\ scopes'[i].bind[m] \in {At("global"), At("local")} => scopes'[j].bind[m] = None
      BY <3>1, <3>2 DEF Alone
    <3>4. QED
      BY <1>2, <3>3 DEF Alone, At, None
  <2>2. QED
    BY <2>1
<1>9. TypeOK'
  <2>1. \A i \in 1 .. k : \A m \in scopes'[i].native \cup scopes'[i].c :
          scopes'[i].bind[m] # None
    <3>1. SUFFICES ASSUME NEW i \in 1 .. k, NEW m \in scopes'[i].native \cup scopes'[i].c
                   PROVE  scopes'[i].bind[m] # None
      OBVIOUS
    <3>2. m \in Names
      BY <1>1, <1>2, <3>1 DEF Scopes
    <3>3. Placed(m, i)'
      BY <1>6, <3>2
    <3>4. QED
      BY <3>3, Places DEF Placed, None, At, Block
  <2>2. QED
    BY <1>1, <1>2, <2>1 DEF TypeOK, Floor, None, At
<1>10. proc' # "main" => scopes'[1].c = {}
  BY <1>1, <1>2 DEF IInv
<1>11. QED
  BY <1>2, <1>6, <1>7, <1>8, <1>9, <1>10 DEF IInv

(* A scope opened.                                                            *)
LEMMA EnterKeeps ==
  ASSUME IInv, NEW t \in Scopes, NEW d \in Nat, d = Len(scopes) + 1,
         scopes' = Append(scopes, t),
         UNCHANGED <<files, globals, locals>>,
         \/ proc' = proc
         \/ /\ proc = "main" /\ Len(scopes) = 1 /\ scopes[1].c = {}
            /\ proc' \in {"typed", "legacy"},
         \A n \in Names : /\ Placed(n, d)'
                          /\ t.bind[n] \notin {At("global"), At("local")}
  PROVE  IInv'
<1> DEFINE k == Len(scopes)
<1>1. /\ TypeOK /\ k \in Nat /\ k >= 1 /\ (proc # "main" => k >= 2)
      /\ \A i \in 1 .. k : scopes[i] \in Scopes
  BY TopScope DEF IInv, TypeOK, Floor
<1>2. /\ Len(scopes') = k + 1 /\ scopes' \in Seq(Scopes) /\ scopes'[k + 1] = t
      /\ \A i \in 1 .. k : scopes'[i] = scopes[i]
      /\ \A i \in 1 .. k + 1 : i \in 1 .. k \/ i = k + 1
  BY <1>1 DEF TypeOK
<1>3. \A n \in Names : \A i \in 1 .. k + 1 : Placed(n, i)'
  <2>1. ASSUME NEW n \in Names, NEW i \in 1 .. k
        PROVE  Placed(n, i)'
    <3>1. Placed(n, i) /\ scopes'[i] = scopes[i]
      BY <1>2 DEF IInv
    <3>2. CASE proc' = proc
      BY <3>1, <3>2 DEF Placed, At, None, Block
    <3>3. CASE proc = "main" /\ k = 1
      <4>1. i = 1
        BY <3>3
      <4>2. scopes[i].bind[n] # At("param") /\ scopes[i].bind[n] # At("local")
        BY <3>1, <3>3 DEF Placed
      <4>3. QED
        BY <3>1, <4>1, <4>2 DEF Placed, At, None, Block
    <3>4. QED
      BY <3>2, <3>3
  <2>2. QED
    BY <1>2, <2>1
<1>4. \A n \in Names : Declared(n)'
  <2>1. ASSUME NEW n \in Names
        PROVE  Declared(n)'
    <3>1. Declared(n) /\ (n \in locals => k >= 2)
      BY <1>1 DEF IInv, TypeOK
    <3>2. QED
      BY <1>1, <1>2, <3>1 DEF Declared, At, None
  <2>2. QED
    BY <2>1
<1>5. \A n \in Names : Alone(n)'
  <2>1. ASSUME NEW n \in Names
        PROVE  Alone(n)'
    <3>1. Alone(n) /\ t.bind[n] \notin {At("global"), At("local")}
      BY DEF IInv
    <3>2. QED
      BY <1>1, <1>2, <3>1 DEF Alone, At, None
  <2>2. QED
    BY <2>1
<1>6. TypeOK'
  <2>1. \A i \in 1 .. k + 1 : \A n \in scopes'[i].native \cup scopes'[i].c :
          scopes'[i].bind[n] # None
    <3>1. SUFFICES ASSUME NEW i \in 1 .. k + 1, NEW n \in scopes'[i].native \cup scopes'[i].c
                   PROVE  scopes'[i].bind[n] # None
      OBVIOUS
    <3>2. n \in Names
      BY <1>1, <1>2, <3>1 DEF Scopes
    <3>3. Placed(n, i)'
      BY <1>3, <3>2
    <3>4. QED
      BY <3>3, Places DEF Placed, None, At, Block
  <2>2. QED
    BY <1>1, <1>2, <2>1 DEF TypeOK, Floor, None, At
<1>7. proc' # "main" => scopes'[1].c = {}
  BY <1>1, <1>2 DEF IInv
<1>8. QED
  BY <1>2, <1>3, <1>4, <1>5, <1>6, <1>7 DEF IInv

(* A scope with one more binding, and its native names.                       *)
BoundTo(t, sc, n, h, native) ==
  /\ t \in Scopes
  /\ t.bind = [sc.bind EXCEPT ![n] = h] /\ t.bind[n] = h
  /\ t.native = native
  /\ t.c = sc.c

(* What declareVar makes of a scope: a boxed variable.                        *)
LEMMA BoxedIs ==
  ASSUME NEW sc \in Scopes, NEW n \in Names, NEW h \in Homes
  PROVE  BoundTo(Bound(sc, n, h, FALSE), sc, n, h, sc.native)
BY DEF BoundTo, Bound, Scopes

(* The same of a native one.                                                  *)
LEMMA NativeIs ==
  ASSUME NEW sc \in Scopes, NEW n \in Names, NEW h \in Homes
  PROVE  BoundTo(Bound(sc, n, h, TRUE), sc, n, h, sc.native \cup {n})
BY DEF BoundTo, Bound, Scopes

(* A C declaration added to a scope.                                          *)
LEMMA DeclaredIs ==
  ASSUME NEW t \in Scopes, NEW n \in Names
  PROVE  LET u == [t EXCEPT !.c = @ \cup {n}]
         IN  /\ u \in Scopes /\ u.bind = t.bind /\ u.native = t.native
             /\ u.c = t.c \cup {n}
BY DEF Scopes

(* A scope replaced on the top.                                               *)
LEMMA TopReplaced ==
  ASSUME TypeOK, NEW t \in Scopes, scopes' = [scopes EXCEPT ![Len(scopes)] = t]
  PROVE  /\ Len(scopes') = Len(scopes) /\ scopes'[Len(scopes)] = t
         /\ \A i \in 1 .. Len(scopes) : i # Len(scopes) => scopes'[i] = scopes[i]
BY TopScope DEF TypeOK

(* A boxed variable created where none of its name is visible.                *)
LEMMA CreateKeeps ==
  ASSUME IInv, NEW n \in Names, ~Visible(n),
         Bind(Bound(Top, n, Hoisted, FALSE)), Hoist(n), UNCHANGED <<proc, files>>
  PROVE  IInv'
<1> DEFINE k == Len(scopes)
           t == Bound(Top, n, Hoisted, FALSE)
<1>1. /\ TypeOK /\ k \in Nat /\ k >= 1 /\ (proc # "main" => k >= 2)
      /\ Top = scopes[k] /\ Top \in Scopes
  BY TopScope DEF IInv, TypeOK, Floor
<1>2. \A i \in 1 .. k : scopes[i].bind[n] = None
  BY DEF Visible, Binders
<1>3. Hoisted \in Homes
  BY HomeType DEF Hoisted
<1>4. /\ t \in Scopes /\ t.bind = [Top.bind EXCEPT ![n] = Hoisted] /\ t.bind[n] = Hoisted
      /\ t.native = Top.native /\ t.c = Top.c
  <2>1. BoundTo(Bound(Top, n, Hoisted, FALSE), Top, n, Hoisted, Top.native)
    BY <1>1, <1>3, BoxedIs
  <2>2. QED
    BY <2>1 DEF BoundTo
<1>5. scopes' = [scopes EXCEPT ![k] = t]
  BY DEF Bind
<1> HIDE DEF t
<1>6. /\ Len(scopes') = k /\ scopes'[k] = t
      /\ \A i \in 1 .. k : i # k => scopes'[i].bind[n] = None
  BY <1>1, <1>2, <1>4, <1>5, TopReplaced
<1>7. Placed(n, k) /\ scopes[k].bind[n] = None
  BY <1>1, <1>2 DEF IInv
<1>8. /\ files' = files /\ proc' = proc
      /\ globals' \in {globals, globals \cup {n}} /\ locals' \in {locals, locals \cup {n}}
      /\ proc = "main" => Hoisted = At("global") /\ locals' = {} /\ n \in globals'
      /\ proc # "main" => Hoisted = At("local") /\ n \in locals' /\ globals' = globals
  BY <1>1 DEF Hoist, Hoisted, TypeOK
<1>9. n \notin files
  BY <1>1, <1>2, Places DEF IInv, Declared, None
<1>10. Placed(n, Len(scopes))'
  <2>1. /\ n \notin t.c
        /\ ~(n \in t.native /\ n \in Imported)
        /\ n \notin t.native
        /\ ~(k = 1 /\ n \in Imported)
    BY <1>1, <1>4, <1>7, Places DEF Placed, None
  <2>2. Hoisted \in {At("global"), At("local")} /\ Hoisted # Block(k)
        /\ Hoisted \notin {At("imported"), At("file"), At("param"), None}
    BY <1>8, Places DEF None
  <2>3. /\ proc' = "main" => Hoisted = At("global") /\ n \in globals'
        /\ proc' # "main" => Hoisted = At("local") /\ n \in locals' /\ k > 1
    BY <1>1, <1>8
  <2>4. /\ scopes'[k].bind[n] = Hoisted
        /\ ~(k = 1 /\ n \in Imported) /\ n \notin scopes'[k].c /\ n \notin scopes'[k].native
    BY <1>4, <1>6, <2>1
  <2>5. CASE proc' = "main"
    BY <1>6, <2>2, <2>3, <2>4, <2>5 DEF Placed, At, None, Block
  <2>6. CASE proc' # "main"
    BY <1>6, <2>2, <2>3, <2>4, <2>6 DEF Placed, At, None, Block
  <2>7. QED
    BY <2>5, <2>6
<1>11. Declared(n)'
  <2>1. /\ n \notin files'
        /\ scopes'[1].bind[n] \in {None, Hoisted}
        /\ k >= 2 => scopes'[1].bind[n] = None /\ scopes'[2].bind[n] \in {None, Hoisted}
    <3>1. \A i \in 1 .. k : scopes'[i].bind[n] \in {None, Hoisted}
      BY <1>4, <1>6
    <3>2. 1 \in 1 .. k /\ (k >= 2 => 2 \in 1 .. k /\ 1 # k)
      BY <1>1
    <3>3. QED
      BY <1>6, <1>8, <1>9, <3>1, <3>2
  <2>2. At("file") \notin {None, Hoisted}
    BY <1>8, Places DEF None
  <2>3. n \in locals' => k >= 2 /\ Hoisted = At("local")
    BY <1>1, <1>8
  <2>4. QED
    BY <2>1, <2>2, <2>3 DEF Declared, At, None
<1>12. Alone(n)'
  <2>1. \A i, j \in 1 .. k :
          j < i /\ scopes'[i].bind[n] \in {At("global"), At("local")} => scopes'[j].bind[n] = None
    BY <1>1, <1>6
  <2>2. QED
    BY <1>6, <2>1 DEF Alone, At, None
<1>13. QED
  BY <1>3, <1>4, <1>5, <1>8, <1>10, <1>11, <1>12, BindKeeps

(* A native object declared where it stands.                                  *)
LEMMA DeclareKeeps ==
  ASSUME IInv, NEW n \in Names, Unbound(n), n \notin Imported,
         ~(proc # "main" /\ Len(scopes) = 2 /\ n \in locals),
         Bind([Bound(Top, n, Block(Len(scopes)), TRUE) EXCEPT !.c = @ \cup {n}]),
         UNCHANGED <<proc, files, globals, locals>>
  PROVE  IInv'
<1> DEFINE k == Len(scopes)
           h == Block(k)
           b == Bound(Top, n, h, TRUE)
           t == [b EXCEPT !.c = @ \cup {n}]
<1>1. /\ TypeOK /\ k \in Nat /\ k >= 1 /\ (proc # "main" => k >= 2)
      /\ Top = scopes[k] /\ Top \in Scopes
      /\ proc = "main" => locals = {}
  BY TopScope DEF IInv, TypeOK, Floor
<1>2. h \in Homes
  BY <1>1, HomeType
<1>3. /\ b \in Scopes /\ b.bind = [Top.bind EXCEPT ![n] = h] /\ b.bind[n] = h
      /\ b.native = Top.native \cup {n} /\ b.c = Top.c
  <2>1. BoundTo(Bound(Top, n, h, TRUE), Top, n, h, Top.native \cup {n})
    BY <1>1, <1>2, NativeIs
  <2>2. QED
    BY <2>1 DEF BoundTo
<1> HIDE DEF b
<1>4. /\ t \in Scopes /\ t.bind = [Top.bind EXCEPT ![n] = h] /\ t.bind[n] = h
      /\ t.native = Top.native \cup {n} /\ t.c = Top.c \cup {n}
  BY <1>3, DeclaredIs
<1>5. scopes' = [scopes EXCEPT ![k] = t]
  BY DEF Bind, b
<1> HIDE DEF t
<1>6. /\ Len(scopes') = k /\ scopes'[k] = t
      /\ \A i \in 1 .. k : i # k => scopes'[i] = scopes[i]
  BY <1>1, <1>4, <1>5, TopReplaced
<1>7. scopes[k].bind[n] = None /\ Declared(n) /\ Alone(n)
  BY <1>1 DEF IInv, Unbound
<1>8. Placed(n, Len(scopes))'
  <2>1. /\ n \in t.c /\ n \in t.native
        /\ h \notin {At("imported"), At("file"), At("global"), At("local"), At("param"), None}
    BY <1>4, Places DEF None
  <2>2. scopes'[k].bind[n] = h /\ n \in scopes'[k].c /\ n \in scopes'[k].native
    BY <1>4, <1>6, <2>1
  <2>3. QED
    BY <1>6, <2>1, <2>2 DEF Placed, At, None, Block
<1>9. Declared(n)'
  <2>1. n \in files => k # 1 /\ scopes'[1].bind[n] = At("file")
    BY <1>1, <1>6, <1>7, Places DEF Declared, None
  <2>2. n \in globals => scopes'[1].bind[n] # At("file")
    <3>1. CASE k = 1
      BY <1>4, <1>6, <3>1, Places
    <3>2. CASE k # 1
      BY <1>1, <1>6, <1>7, <3>2 DEF Declared
    <3>3. QED
      BY <3>1, <3>2
  <2>3. n \in locals => /\ scopes'[1].bind[n] = None
                        /\ scopes'[2].bind[n] \in {None, At("local")}
    BY <1>1, <1>6, <1>7 DEF Declared
  <2>4. QED
    BY <2>1, <2>2, <2>3 DEF Declared, At, None
<1>10. Alone(n)'
  <2>1. h \notin {At("global"), At("local")}
    BY Places
  <2>2. \A i, j \in 1 .. k :
          j < i /\ scopes'[i].bind[n] \in {At("global"), At("local")} => scopes'[j].bind[n] = None
    <3>1. SUFFICES ASSUME NEW i \in 1 .. k, NEW j \in 1 .. k, j < i,
                          scopes'[i].bind[n] \in {At("global"), At("local")}
                   PROVE  scopes'[j].bind[n] = None
      OBVIOUS
    <3>2. i # k
      BY <1>4, <1>6, <2>1, <3>1
    <3>3. scopes'[i] = scopes[i] /\ scopes'[j] = scopes[j]
      BY <1>1, <1>6, <3>1, <3>2
    <3>4. QED
      BY <1>7, <3>1, <3>3 DEF Alone
  <2>3. QED
    BY <1>6, <2>2 DEF Alone, At, None
<1>11. \A m \in Names \ {n} : (m \in t.native <=> m \in Top.native) /\ (m \in t.c <=> m \in Top.c)
  BY <1>4
<1>12. QED
  BY <1>1, <1>2, <1>4, <1>5, <1>8, <1>9, <1>10, <1>11, BindKeeps

(* The global scope alone is the main program.                                *)
LEMMA OnlyScope ==
  ASSUME IInv, ~Inner
  PROVE  /\ TypeOK /\ Len(scopes) = 1 /\ proc = "main" /\ locals = {}
         /\ Top = scopes[1] /\ Top \in Scopes
<1>1. TypeOK
  BY DEF IInv
<1>2. Len(scopes) = 1 /\ Top = scopes[1] /\ Top \in Scopes
  <2>1. PICK k \in Nat : k = Len(scopes) /\ k >= 1
    BY <1>1, TopScope
  <2>2. k = 1
    BY <2>1 DEF Inner
  <2>3. QED
    BY <1>1, <2>1, <2>2, TopScope
<1>3. proc = "main" /\ locals = {}
  BY <1>1, <1>2 DEF TypeOK, Floor
<1>4. QED
  BY <1>1, <1>2, <1>3

(* A native object declared at file scope.                                    *)
LEMMA DeclareFileKeeps ==
  ASSUME IInv, NEW n \in Names, Unbound(n), n \notin Imported, ~Inner, ~Taken(n),
         Bind(Bound(Top, n, At("file"), TRUE)), files' = files \cup {n},
         UNCHANGED <<proc, globals, locals>>
  PROVE  IInv'
<1> DEFINE h == At("file")
           t == Bound(Top, n, h, TRUE)
<1>1. /\ TypeOK /\ Len(scopes) = 1 /\ proc = "main" /\ locals = {}
      /\ Top = scopes[1] /\ Top \in Scopes
  BY OnlyScope
<1>2. h \in Homes
  BY HomeType
<1>3. /\ t \in Scopes /\ t.bind = [Top.bind EXCEPT ![n] = h] /\ t.bind[n] = h
      /\ t.native = Top.native \cup {n} /\ t.c = Top.c
  <2>1. BoundTo(Bound(Top, n, h, TRUE), Top, n, h, Top.native \cup {n})
    BY <1>1, <1>2, NativeIs
  <2>2. QED
    BY <2>1 DEF BoundTo
<1>4. scopes' = [scopes EXCEPT ![Len(scopes)] = t]
  BY DEF Bind
<1> HIDE DEF t
<1>5. Len(scopes') = 1 /\ scopes'[1] = t
  BY <1>1, <1>3, <1>4, TopReplaced
<1>6. n \notin globals
  BY <1>1 DEF Taken, Inner
<1>7. Placed(n, 1) /\ scopes[1].bind[n] = None
  BY <1>1 DEF IInv, Unbound
<1>8. Placed(n, Len(scopes))'
  <2>1. n \notin t.c /\ n \in t.native
    BY <1>1, <1>3, <1>7, Places DEF Placed, None
  <2>2. h \notin {At("imported"), At("global"), At("local"), At("param"), None, Block(1)}
    BY Places DEF None
  <2>3. scopes'[1].bind[n] = h /\ n \notin scopes'[1].c /\ n \in scopes'[1].native
    BY <1>3, <1>5, <2>1
  <2>4. QED
    BY <1>5, <2>2, <2>3 DEF Placed, At, None, Block
<1>9. Declared(n)'
  BY <1>1, <1>3, <1>5, <1>6 DEF Declared, At, None
<1>10. Alone(n)'
  BY <1>5 DEF Alone
<1>11. \A m \in Names \ {n} : (m \in t.native <=> m \in Top.native) /\ (m \in t.c <=> m \in Top.c)
  BY <1>3
<1>12. QED
  BY <1>1, <1>2, <1>3, <1>4, <1>8, <1>9, <1>10, <1>11, BindKeeps

(* An empty scope opened.                                                     *)
LEMMA OpenBlockKeeps ==
  ASSUME IInv, OpenBlock
  PROVE  IInv'
<1>1. PICK d \in Nat : d = Len(scopes) + 1 /\ d >= 2
  BY TopScope DEF IInv
<1>2. /\ Empty \in Scopes
      /\ \A n \in Names : Empty.bind[n] = None /\ n \notin Empty.native /\ n \notin Empty.c
  BY HomeType DEF Empty, Scopes, None
<1>3. scopes' = Append(scopes, Empty) /\ scopes'[d] = Empty
  BY <1>1 DEF OpenBlock, Enter, IInv, TypeOK
<1>4. \A n \in Names : Placed(n, d)'
  <2>1. None \notin {At("imported"), At("file"), At("global"), At("local"), At("param"), Block(d)}
    BY Places DEF None
  <2>2. \A n \in Names : scopes'[d].bind[n] = None /\ n \notin scopes'[d].native /\ n \notin scopes'[d].c
    BY <1>2, <1>3
  <2>3. d # 1 /\ d \in Nat
    BY <1>1
  <2>4. QED
    BY <2>1, <2>2, <2>3 DEF Placed, None, At, Block
<1>5. None \notin {At("global"), At("local")}
  BY Places DEF None
<1>6. UNCHANGED <<proc, files, globals, locals>>
  BY DEF OpenBlock
<1>7. QED
  BY <1>1, <1>2, <1>3, <1>4, <1>5, <1>6, EnterKeeps

(* A loop opened around its variable.                                         *)
LEMMA OpenLoopKeeps ==
  ASSUME IInv, Quirks = {}, NEW n \in Names, NEW native \in BOOLEAN, OpenLoop(n, native)
  PROVE  IInv'
<1>1. PICK d \in Nat : d = Len(scopes) + 1 /\ d >= 2
  BY TopScope DEF IInv
<1> DEFINE h == Block(d)
           b == Bound(Empty, n, h, native)
           t == [b EXCEPT !.c = {n}]
<1>0. h \in Homes
  BY HomeType
<1>2. /\ Empty \in Scopes
      /\ \A m \in Names : Empty.bind[m] = None /\ m \notin Empty.native /\ m \notin Empty.c
  BY HomeType DEF Empty, Scopes, None
<1>3. /\ b \in Scopes /\ b.bind = [Empty.bind EXCEPT ![n] = h]
      /\ \A m \in Names : m \in b.native => m = n /\ native
  <2>1. CASE native = TRUE
    <3>1. BoundTo(Bound(Empty, n, h, TRUE), Empty, n, h, Empty.native \cup {n})
      BY <1>0, <1>2, NativeIs
    <3>2. QED
      BY <1>2, <2>1, <3>1 DEF BoundTo
  <2>2. CASE native = FALSE
    <3>1. BoundTo(Bound(Empty, n, h, FALSE), Empty, n, h, Empty.native)
      BY <1>0, <1>2, BoxedIs
    <3>2. QED
      BY <1>2, <2>2, <3>1 DEF BoundTo
  <2>3. QED
    BY <2>1, <2>2
<1>4. native => n \notin Imported
  BY DEF OpenLoop, Importable
<1>5. scopes' = Append(scopes, t) /\ UNCHANGED <<proc, files, globals, locals>>
  BY <1>1 DEF OpenLoop, Enter
<1> HIDE DEF b
<1>6. /\ t \in Scopes /\ t.native = b.native /\ t.c = {n}
      /\ \A m \in Names : t.bind[m] = IF m = n THEN h ELSE None
  BY <1>2, <1>3 DEF Scopes
<1> HIDE DEF t
<1>7. scopes'[d] = t
  BY <1>1, <1>5, <1>6 DEF IInv, TypeOK
<1>8. None # h /\ h \notin {At("imported"), At("file"), At("global"), At("local"), At("param")}
      /\ None \notin {At("imported"), At("file"), At("global"), At("local"), At("param")}
  BY Places DEF None
<1>9. \A m \in Names : Placed(m, d)'
  <2>1. SUFFICES ASSUME NEW m \in Names  PROVE Placed(m, d)'
    OBVIOUS
  <2>2. CASE m = n
    BY <1>1, <1>3, <1>4, <1>6, <1>7, <1>8, <2>2 DEF Placed, None, At, Block
  <2>3. CASE m # n
    BY <1>1, <1>3, <1>6, <1>7, <1>8, <2>3 DEF Placed, None, At, Block
  <2>4. QED
    BY <2>2, <2>3
<1>10. \A m \in Names : t.bind[m] \notin {At("global"), At("local")}
  BY <1>6, <1>8
<1>11. QED
  BY <1>1, <1>5, <1>6, <1>9, <1>10, EnterKeeps

(* A Procedure entered.                                                       *)
LEMMA BeginProcedureKeeps ==
  ASSUME IInv, Quirks = {}, NEW kind \in {"typed", "legacy"}, NEW params \in SUBSET Names,
         BeginProcedure(kind, params)
  PROVE  IInv'
<1> DEFINE t == [bind   |-> [n \in Names |-> IF n \in params THEN At("param") ELSE None],
                 native |-> IF kind = "typed" THEN params ELSE {},
                 c      |-> {}]
<1>1. Len(scopes) = 1 /\ proc = "main" /\ scopes[1].c = {} /\ scopes' = Append(scopes, t)
      /\ proc' = kind /\ UNCHANGED <<files, globals, locals>>
  <2>1. Len(scopes) = 1 /\ proc = "main"
    BY OnlyScope DEF BeginProcedure
  <2>2. scopes[1].c = {}
    BY DEF BeginProcedure
  <2>3. scopes' = Append(scopes, t) /\ proc' = kind /\ UNCHANGED <<files, globals, locals>>
    BY DEF BeginProcedure, Enter
  <2>4. QED
    BY <2>1, <2>2, <2>3
<1>2. /\ t \in Scopes /\ t.c = {}
      /\ \A n \in Names : /\ t.bind[n] = IF n \in params THEN At("param") ELSE None
                          /\ n \in t.native => n \in params /\ n \notin Imported
  BY HomeType DEF BeginProcedure, Importable, Scopes, None
<1> HIDE DEF t
<1>3. scopes'[2] = t
  <2>1. scopes \in Seq(Scopes)
    BY DEF IInv, TypeOK
  <2>2. Append(scopes, t)[Len(scopes) + 1] = t
    BY <1>2, <2>1
  <2>3. QED
    BY <1>1, <2>2
<1>0. PICK d \in Nat : d = Len(scopes) + 1 /\ d = 2
  BY <1>1
<1>4. /\ At("param") \notin {At("imported"), At("file"), At("global"), At("local"), None, Block(2)}
      /\ None \notin {At("imported"), At("file"), At("global"), At("local"), At("param"), Block(2)}
  BY Places DEF None
<1>5. \A n \in Names : Placed(n, d)'
  BY <1>0, <1>1, <1>2, <1>3, <1>4 DEF Placed, None, At, Block
<1>6. \A n \in Names : t.bind[n] \notin {At("global"), At("local")}
  BY <1>2, <1>4
<1>7. QED
  BY <1>0, <1>1, <1>2, <1>5, <1>6, EnterKeeps

(* The scopes that stay when inner ones are left.                             *)
LEMMA Outer ==
  ASSUME NEW F, NEW s \in Seq(F), NEW e \in 1 .. Len(s)
  PROVE  /\ SubSeq(s, 1, e) \in Seq(F) /\ Len(SubSeq(s, 1, e)) = e
         /\ \A i \in 1 .. e : SubSeq(s, 1, e)[i] = s[i] /\ i \in 1 .. Len(s)
OBVIOUS

(* A block closed.                                                            *)
LEMMA CloseBlockKeeps ==
  ASSUME IInv, CloseBlock
  PROVE  IInv'
<1>1. TypeOK /\ scopes \in Seq(Scopes)
  BY DEF IInv, TypeOK
<1>2. PICK k \in Nat : k = Len(scopes) - 1 /\ k >= Floor /\ k >= 1 /\ k \in 1 .. Len(scopes)
  BY <1>1, TopScope DEF CloseBlock, Floor
<1>3. /\ scopes' \in Seq(Scopes) /\ Len(scopes') = k
      /\ \A i \in 1 .. k : scopes'[i] = scopes[i] /\ i \in 1 .. Len(scopes)
  BY <1>1, <1>2, Outer DEF CloseBlock
<1>4. UNCHANGED <<proc, files, globals, locals>>
  BY DEF CloseBlock
<1>5. TypeOK'
  BY <1>1, <1>2, <1>3, <1>4 DEF TypeOK, Floor, None, At
<1>6. \A n \in Names : \A i \in 1 .. k : Placed(n, i)'
  <2>1. SUFFICES ASSUME NEW n \in Names, NEW i \in 1 .. k  PROVE Placed(n, i)'
    OBVIOUS
  <2>2. Placed(n, i) /\ scopes'[i] = scopes[i]
    BY <1>3 DEF IInv
  <2>3. QED
    BY <1>4, <2>2 DEF Placed, None, At, Block
<1>7. \A n \in Names : Declared(n)'
  <2>1. SUFFICES ASSUME NEW n \in Names  PROVE Declared(n)'
    OBVIOUS
  <2>2. Declared(n) /\ scopes'[1] = scopes[1] /\ (n \in locals => scopes'[2] = scopes[2])
    BY <1>1, <1>2, <1>3 DEF IInv, TypeOK, Floor
  <2>3. QED
    BY <1>4, <2>2 DEF Declared, None, At
<1>8. \A n \in Names : Alone(n)'
  <2>1. SUFFICES ASSUME NEW n \in Names  PROVE Alone(n)'
    OBVIOUS
  <2>2. Alone(n)
    BY DEF IInv
  <2>3. QED
    BY <1>3, <2>2 DEF Alone, None, At
<1>9. proc' # "main" => scopes'[1].c = {}
  BY <1>2, <1>3, <1>4 DEF IInv
<1>10. QED
  BY <1>3, <1>5, <1>6, <1>7, <1>8, <1>9 DEF IInv

(* A Procedure left.                                                          *)
LEMMA LeaveProcedureKeeps ==
  ASSUME IInv, EndProcedure
  PROVE  IInv'
<1>1. TypeOK /\ scopes \in Seq(Scopes)
  BY DEF IInv, TypeOK
<1>2. /\ proc # "main" /\ proc' = "main" /\ locals' = {} /\ UNCHANGED <<files, globals>>
      /\ scopes' = SubSeq(scopes, 1, 1) /\ 1 \in 1 .. Len(scopes)
  BY <1>1, TopScope DEF EndProcedure
<1>3. scopes' \in Seq(Scopes) /\ Len(scopes') = 1 /\ scopes'[1] = scopes[1]
  BY <1>1, <1>2, Outer
<1>4. TypeOK'
  BY <1>1, <1>2, <1>3 DEF TypeOK, Floor, None, At
<1>5. \A n \in Names : Placed(n, 1)'
  <2>1. SUFFICES ASSUME NEW n \in Names  PROVE Placed(n, 1)'
    OBVIOUS
  <2>2. Placed(n, 1)
    BY <1>2 DEF IInv
  <2>3. scopes[1].bind[n] # At("local") /\ scopes[1].bind[n] # At("param")
    BY <2>2 DEF Placed
  <2>4. QED
    BY <1>2, <1>3, <2>2, <2>3 DEF Placed, None, At, Block
<1>6. \A n \in Names : Declared(n)'
  <2>1. SUFFICES ASSUME NEW n \in Names  PROVE Declared(n)'
    OBVIOUS
  <2>2. Declared(n)
    BY DEF IInv
  <2>3. QED
    BY <1>2, <1>3, <2>2 DEF Declared, None, At
<1>7. \A n \in Names : Alone(n)'
  BY <1>3 DEF Alone
<1>8. \A i \in 1 .. Len(scopes') : i = 1
  BY <1>3
<1>9. QED
  BY <1>2, <1>4, <1>5, <1>6, <1>7, <1>8 DEF IInv

(* A variable assigned: collectVars has it already.                           *)
LEMMA AssignKeeps ==
  ASSUME IInv, Quirks = {}, NEW n \in Names, Assign(n)
  PROVE  UNCHANGED vars
<1>1. TypeOK /\ Visible(n) /\ Home(n) = Hoisted
  BY DEF IInv, Assign
<1>2. PICK i \in 1 .. Len(scopes) : Home(n) = scopes[i].bind[n]
  BY <1>1, SymbolIs
<1>3. Placed(n, i)
  BY DEF IInv
<1>4. (proc = "main" => n \in globals) /\ (proc # "main" => n \in locals)
  BY <1>1, <1>2, <1>3 DEF Placed, Hoisted
<1>5. UNCHANGED <<globals, locals>>
  BY <1>1, <1>4 DEF Assign, Hoist, TypeOK
<1>6. QED
  BY <1>5 DEF Assign, vars

(* The initial state.                                                         *)
LEMMA InitKeeps ==
  ASSUME Init
  PROVE  IInv
<1> DEFINE t == scopes[1]
<1>1. /\ Len(scopes) = 1 /\ scopes \in Seq(Scopes)
      /\ t.native = Imported /\ t.c = {}
      /\ \A n \in Names : t.bind[n] = IF n \in Imported THEN At("imported") ELSE None
  <2> DEFINE r == [bind |-> [n \in Names |-> IF n \in Imported THEN At("imported") ELSE None],
                   native |-> Imported, c |-> {}]
  <2>1. scopes = <<r>>
    BY DEF Init
  <2>2. /\ r \in Scopes /\ r.native = Imported /\ r.c = {}
        /\ \A n \in Names : r.bind[n] = IF n \in Imported THEN At("imported") ELSE None
    BY HomeType, BindingsAssumption DEF Scopes, None
  <2> HIDE DEF r
  <2>3. <<r>> \in Seq(Scopes) /\ Len(<<r>>) = 1 /\ <<r>>[1] = r
    BY <2>2
  <2>4. QED
    BY <2>1, <2>2, <2>3
<1>2. proc = "main" /\ files = {} /\ globals = {} /\ locals = {}
  BY DEF Init
<1>3. /\ At("imported") \notin {At("file"), At("global"), At("local"), At("param"), None, Block(1)}
      /\ None \notin {At("imported"), At("file"), At("global"), At("local"), At("param"), Block(1)}
  BY Places DEF None
<1> HIDE DEF t
<1>4. \A n \in Names : Placed(n, 1)
  BY <1>1, <1>2, <1>3 DEF Placed, t
<1>5. \A n \in Names : Declared(n)
  BY <1>2 DEF Declared
<1>6. \A n \in Names : Alone(n)
  BY <1>1 DEF Alone
<1>7. TypeOK
  BY <1>1, <1>2, <1>3, BindingsAssumption DEF TypeOK, Floor, t
<1>8. QED
  BY <1>1, <1>2, <1>4, <1>5, <1>6, <1>7 DEF IInv

(* Nothing happens.                                                           *)
LEMMA StutterKeeps ==
  ASSUME IInv, UNCHANGED vars
  PROVE  IInv'
BY DEF IInv, vars, TypeOK, Floor, Placed, Declared, Alone, None, At, Block

(* One step.                                                                  *)
LEMMA StepKeeps ==
  ASSUME IInv, Quirks = {}, [Next]_vars
  PROVE  IInv'
<1>1. ASSUME NEW n \in Names, Create(n)
      PROVE  IInv'
  BY <1>1, CreateKeeps DEF Create
<1>2. ASSUME NEW n \in Names, Assign(n)
      PROVE  IInv'
  BY <1>2, AssignKeeps, StutterKeeps
<1>3. ASSUME NEW n \in Names, Read(n)
      PROVE  IInv'
  <2>1. ~Visible(n)
    BY <1>3 DEF Read
  <2>2. QED
    BY <1>3, <2>1, CreateKeeps DEF Read
<1>4. ASSUME NEW n \in Names, Declare(n)
      PROVE  IInv'
  <2>1. Unbound(n) /\ n \notin Imported /\ ~Taken(n)
    BY <1>4 DEF Declare, Importable
  <2>2. CASE Inner
    <3>1. ~(proc # "main" /\ Len(scopes) = 2 /\ n \in locals)
      BY <2>1 DEF Taken
    <3>2. QED
      BY <1>4, <2>1, <2>2, <3>1, DeclareKeeps DEF Declare
  <2>3. CASE ~Inner
    BY <1>4, <2>1, <2>3, DeclareFileKeeps DEF Declare
  <2>4. QED
    BY <2>2, <2>3
<1>5. ASSUME NEW n \in Names, DeclareSelected(n)
      PROVE  IInv'
  <2>1. Len(scopes) = 1 /\ proc = "main" /\ Top = scopes[1]
    BY <1>5, OnlyScope DEF DeclareSelected
  <2>2. n \notin Imported
    <3>1. Placed(n, 1) /\ scopes[1].bind[n] = None
      BY <1>5, <2>1 DEF IInv, DeclareSelected, Unbound
    <3>2. QED
      BY <3>1, Places DEF Placed, None
  <2>3. Bind([Bound(Top, n, Block(Len(scopes)), TRUE) EXCEPT !.c = @ \cup {n}])
    BY <1>5, <2>1 DEF DeclareSelected
  <2>4. Unbound(n) /\ UNCHANGED <<proc, files, globals, locals>>
    BY <1>5 DEF DeclareSelected
  <2>5. QED
    BY <2>1, <2>2, <2>3, <2>4, DeclareKeeps
<1>6. CASE Next
  BY <1>1, <1>2, <1>3, <1>4, <1>5, <1>6, OpenLoopKeeps, BeginProcedureKeeps, OpenBlockKeeps,
     CloseBlockKeeps, LeaveProcedureKeeps DEF Next
<1>7. CASE UNCHANGED vars
  BY <1>7, StutterKeeps
<1>8. QED
  BY <1>6, <1>7

------------------------------------------------------------------------------
(* Theorems.                                                                  *)

(* The invariant of every program that keeps to the forms without a quirk.    *)
THEOREM Invariance ==
  ASSUME Quirks = {}
  PROVE  Spec => []IInv
<1>1. Init => IInv
  BY InitKeeps
<1>2. IInv /\ [Next]_vars => IInv'
  BY StepKeeps
<1>3. QED
  BY <1>1, <1>2, PTL DEF Spec

(* The walk of checkStmt never leaves the function it is in, and its scopes    *)
(* and the names collectVars finds keep their types.                          *)
THEOREM TypeCorrect ==
  ASSUME Quirks = {}
  PROVE  Spec => []TypeOK
<1>1. IInv => TypeOK
  BY DEF IInv
<1>2. QED
  BY <1>1, Invariance, PTL

(* Whatever names, nesting and procedures a program has, the C identifier the *)
(* emitter prints for a visible name is declared where sema bound the name.   *)
THEOREM NamesAgree ==
  ASSUME Quirks = {}
  PROVE  Spec => []Denotes
<1>1. IInv => Denotes
  BY InvDenotes
<1>2. QED
  BY <1>1, Invariance, PTL

(* Hoisting never makes two live variables share one C object.                *)
THEOREM StorageSeparate ==
  ASSUME Quirks = {}
  PROVE  Spec => []Separate
<1>1. IInv => Separate
  BY InvSeparate
<1>2. QED
  BY <1>1, Invariance, PTL

(* The C declarations of every such program are accepted by the C compiler.   *)
THEOREM NoRedeclaration ==
  ASSUME Quirks = {}
  PROVE  Spec => []DeclaredOnce
<1>1. IInv => DeclaredOnce
  BY InvDeclaredOnce
<1>2. QED
  BY <1>1, Invariance, PTL
===============================================================================
