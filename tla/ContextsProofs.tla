---------------------------- MODULE ContextsProofs ----------------------------
(***************************************************************************)
(* Proofs about Contexts: for programs of any length, the context sema has   *)
(* saved and restored is that of the C function the next word is in, and its *)
(* verdict on jumps, labels and cursors is that function's.                  *)
(***************************************************************************)
EXTENDS Contexts, TLAPS

Members ==
  [loop : Int, breakable : Int, variadic : BOOLEAN, started : BOOLEAN, copies : SUBSET Names,
   labels : SUBSET Names, gotos : SUBSET Names]
Functions ==
  [labels : SUBSET Names, gotos : SUBSET Names, variadic : BOOLEAN, started : BOOLEAN,
   copies : SUBSET Names, wrong : BOOLEAN, abandoned : BOOLEAN]
Opened == [is : Blocks] \cup [is : {"procedure"}, saved : Members, caller : Nat]

Typed ==
  /\ vocabulary \in Vocabularies /\ said \in Nat /\ rejected \in BOOLEAN
  /\ own \in Seq(Functions) /\ fn \in DOMAIN own
  /\ context \in Members /\ open \in Seq(Opened)

(* Who waits for a procedure to end stands before it.                         *)
IsProcedure(s, k) == s[k].is = "procedure"
CallsNested(s, f) ==
  /\ \A k \in DOMAIN s : IsProcedure(s, k) => s[k].caller \in 1 .. f - 1
  /\ \A j, k \in DOMAIN s :
       IsProcedure(s, j) /\ IsProcedure(s, k) /\ j < k => s[k].caller < s[j].caller

(* A context is that of a function: of its words, as C has them.              *)
Agrees(c, r) ==
  /\ c.labels = r.labels /\ c.gotos = r.gotos
  /\ c.variadic = r.variadic /\ c.started = r.started
  /\ ~ r.abandoned => c.copies = r.copies
Agreement ==
  /\ Agrees(context, own[fn])
  /\ \A k \in DOMAIN open : IsProcedure(open, k) => Agrees(open[k].saved, own[open[k].caller])

(* The depth of loops, or of what Break leaves, at every block: one more than  *)
(* outside a block that counts, and none in a procedure.                       *)
Depth(c, kinds) == IF kinds = {"loop"} THEN c.loop ELSE c.breakable
Within(s, k, kinds) ==
  \E m \in k .. Len(s) : s[m].is \in kinds /\ \A j \in k .. m : ~ IsProcedure(s, j)
DepthAt(s, d, k, kinds) ==
  IF IsProcedure(s, k) THEN d[k + 1] = Depth(s[k].saved, kinds)
  ELSE d[k] = d[k + 1] + (IF s[k].is \in kinds THEN 1 ELSE 0)
DepthsAre(s, c, d, kinds) ==
  /\ d \in [1 .. Len(s) + 1 -> Nat] /\ d[1] = Depth(c, kinds)
  /\ \A k \in 1 .. Len(s) : DepthAt(s, d, k, kinds)
  /\ \A k \in 1 .. Len(s) + 1 : d[k] > 0 <=> Within(s, k, kinds)
Counted(kinds) == \E d : DepthsAre(open, context, d, kinds)

(* What has been accepted so far is sensible, the targets of functions that     *)
(* are not finished aside.                                                      *)
Orderly(r) ==
  ~ r.abandoned =>
    /\ ~ r.wrong
    /\ r.started => r.variadic
    /\ r.copies # {} => r.started
Unfinished(f) == f = fn \/ \E k \in DOMAIN open : IsProcedure(open, k) /\ open[k].caller = f
Accepted ==
  ~ rejected => \A f \in DOMAIN own :
    Orderly(own[f]) /\ (Unfinished(f) \/ own[f].gotos \subseteq own[f].labels)
Refused == rejected => \E f \in DOMAIN own : own[f].abandoned \/ ~ Sensible(f)
Over ==
  Finished /\ ~ rejected => open = <<>> /\ own[fn].gotos \subseteq own[fn].labels

CInv ==
  /\ Typed
  /\ CallsNested(open, fn)
  /\ Agreement
  /\ Counted({"loop"})
  /\ Counted({"loop", "switch"})
  /\ Accepted
  /\ Refused
  /\ Over

------------------------------------------------------------------------------
(* Sequences that grow and shrink at their head.                              *)
Extends(t, s) ==
  /\ Len(t) = Len(s) + 1
  /\ \A k \in 1 .. Len(s) : t[k + 1] = s[k]

(* A block pushed at the head.                                                *)
LEMMA Pushed ==
  ASSUME NEW S, NEW s \in Seq(S), NEW e \in S
  PROVE  /\ <<e>> \o s \in Seq(S) /\ Extends(<<e>> \o s, s)
         /\ (<<e>> \o s)[1] = e
BY DEF Extends

(* The head taken off.                                                        *)
LEMMA Popped ==
  ASSUME NEW S, NEW s \in Seq(S), s # <<>>
  PROVE  Tail(s) \in Seq(S) /\ Extends(s, Tail(s))
BY DEF Extends

(* Around the blocks of a longer sequence are those of the shorter one.        *)
LEMMA WithinShorter ==
  ASSUME NEW S, NEW s \in Seq(S), NEW t \in Seq(S), Extends(t, s), NEW kinds,
         NEW k \in 1 .. Len(s) + 1
  PROVE  Within(t, k + 1, kinds) <=> Within(s, k, kinds)
<1>1. ASSUME Within(s, k, kinds)
      PROVE  Within(t, k + 1, kinds)
  <2>1. PICK m \in k .. Len(s) : s[m].is \in kinds /\ \A j \in k .. m : ~ IsProcedure(s, j)
    BY <1>1 DEF Within
  <2>2. \A j \in k + 1 .. m + 1 : j - 1 \in k .. m /\ t[j] = s[j - 1]
    BY <2>1 DEF Extends
  <2>3. m + 1 \in k + 1 .. Len(t) /\ t[m + 1].is \in kinds
    BY <2>1 DEF Extends
  <2>4. \A j \in k + 1 .. m + 1 : ~ IsProcedure(t, j)
    BY <2>1, <2>2 DEF IsProcedure
  <2>5. QED
    BY <2>3, <2>4 DEF Within
<1>2. ASSUME Within(t, k + 1, kinds)
      PROVE  Within(s, k, kinds)
  <2>1. PICK m \in k + 1 .. Len(t) :
               t[m].is \in kinds /\ \A j \in k + 1 .. m : ~ IsProcedure(t, j)
    BY <1>2 DEF Within
  <2>2. \A j \in k .. m - 1 : j + 1 \in k + 1 .. m /\ t[j + 1] = s[j]
    BY <2>1 DEF Extends
  <2>3. m - 1 \in k .. Len(s) /\ s[m - 1].is \in kinds
    BY <2>1, <2>2 DEF Extends
  <2>4. \A j \in k .. m - 1 : ~ IsProcedure(s, j)
    BY <2>1, <2>2 DEF IsProcedure
  <2>5. QED
    BY <2>3, <2>4 DEF Within
<1>3. QED
  BY <1>1, <1>2

(* The innermost block decides, or what is around it.                          *)
LEMMA WithinFirst ==
  ASSUME NEW S, NEW t \in Seq(S), Len(t) >= 1, NEW kinds
  PROVE  Within(t, 1, kinds) <=>
           ~ IsProcedure(t, 1) /\ (t[1].is \in kinds \/ Within(t, 2, kinds))
<1>1. ASSUME Within(t, 1, kinds)
      PROVE  ~ IsProcedure(t, 1) /\ (t[1].is \in kinds \/ Within(t, 2, kinds))
  <2>1. PICK m \in 1 .. Len(t) : t[m].is \in kinds /\ \A j \in 1 .. m : ~ IsProcedure(t, j)
    BY <1>1 DEF Within
  <2>2. CASE m = 1
    BY <2>1, <2>2
  <2>3. CASE m >= 2
    BY <2>1, <2>3 DEF Within
  <2>4. QED
    BY <2>2, <2>3
<1>2. ASSUME ~ IsProcedure(t, 1), t[1].is \in kinds
      PROVE  Within(t, 1, kinds)
  <2>1. \A j \in 1 .. 1 : ~ IsProcedure(t, j)
    BY <1>2
  <2>2. QED
    BY <1>2, <2>1 DEF Within
<1>3. ASSUME ~ IsProcedure(t, 1), Within(t, 2, kinds)
      PROVE  Within(t, 1, kinds)
  <2>1. PICK m \in 2 .. Len(t) : t[m].is \in kinds /\ \A j \in 2 .. m : ~ IsProcedure(t, j)
    BY <1>3 DEF Within
  <2>2. \A j \in 1 .. m : j = 1 \/ j \in 2 .. m
    BY <2>1
  <2>3. \A j \in 1 .. m : ~ IsProcedure(t, j)
    BY <1>3, <2>1, <2>2
  <2>4. QED
    BY <2>1, <2>3 DEF Within
<1>4. QED
  BY <1>1, <1>2, <1>3

(* The depths of a longer sequence are those of the shorter one and its own.   *)
LEMMA DepthsPushed ==
  ASSUME NEW S, NEW s \in Seq(S), NEW t \in Seq(S), Extends(t, s), NEW kinds,
         NEW b, NEW c, NEW d, DepthsAre(s, b, d, kinds),
         Depth(c, kinds) \in Nat,
         IF IsProcedure(t, 1) THEN Depth(c, kinds) = 0 /\ Depth(t[1].saved, kinds) = Depth(b, kinds)
         ELSE Depth(c, kinds) = Depth(b, kinds) + (IF t[1].is \in kinds THEN 1 ELSE 0)
  PROVE  \E e : DepthsAre(t, c, e, kinds)
<1> DEFINE e == [k \in 1 .. Len(t) + 1 |-> IF k = 1 THEN Depth(c, kinds) ELSE d[k - 1]]
<1>1. Len(t) = Len(s) + 1 /\ Len(s) \in Nat /\ \A k \in 1 .. Len(s) : t[k + 1] = s[k]
  BY DEF Extends
<1>2. /\ d \in [1 .. Len(s) + 1 -> Nat] /\ d[1] = Depth(b, kinds)
      /\ \A k \in 1 .. Len(s) : DepthAt(s, d, k, kinds)
      /\ \A k \in 1 .. Len(s) + 1 : d[k] > 0 <=> Within(s, k, kinds)
  BY DEF DepthsAre
<1>3. e \in [1 .. Len(t) + 1 -> Nat] /\ e[1] = Depth(c, kinds)
  BY <1>1, <1>2
<1>4. \A k \in 1 .. Len(s) + 1 : e[k + 1] = d[k]
  BY <1>1
<1>5. DepthAt(t, e, 1, kinds)
  BY <1>1, <1>2, <1>3, <1>4 DEF DepthAt
<1>6. ASSUME NEW k \in 1 .. Len(s)
      PROVE  DepthAt(t, e, k + 1, kinds)
  <2>1. DepthAt(s, d, k, kinds) /\ t[k + 1] = s[k] /\ e[k + 1] = d[k] /\ e[k + 2] = d[k + 1]
    BY <1>1, <1>2, <1>4
  <2>2. (k + 1) + 1 = k + 2
    OBVIOUS
  <2>3. QED
    BY <2>1, <2>2 DEF DepthAt, IsProcedure
<1>7. \A k \in 1 .. Len(t) : k = 1 \/ k - 1 \in 1 .. Len(s)
  BY <1>1
<1>8. \A k \in 1 .. Len(t) : DepthAt(t, e, k, kinds)
  BY <1>5, <1>6, <1>7
<1>9. e[1] > 0 <=> Within(t, 1, kinds)
  <2>1. Within(t, 2, kinds) <=> d[1] > 0
    BY <1>1, <1>2, WithinShorter
  <2>2. d[1] \in Nat
    BY <1>1, <1>2
  <2>3. QED
    BY <1>1, <1>2, <1>3, <2>1, <2>2, WithinFirst
<1>10. \A k \in 1 .. Len(s) + 1 : e[k + 1] > 0 <=> Within(t, k + 1, kinds)
  BY <1>2, <1>4, WithinShorter
<1>11. \A k \in 1 .. Len(t) + 1 : k = 1 \/ k - 1 \in 1 .. Len(s) + 1
  BY <1>1
<1>12. \A k \in 1 .. Len(t) + 1 : e[k] > 0 <=> Within(t, k, kinds)
  BY <1>9, <1>10, <1>11
<1>13. DepthsAre(t, c, e, kinds)
  BY <1>3, <1>8, <1>12 DEF DepthsAre
<1>14. QED
  BY <1>13

(* Closing a block: the depths around what is left are still those of its blocks. *)
LEMMA DepthsPopped ==
  ASSUME NEW S, NEW s \in Seq(S), NEW t \in Seq(S), Extends(t, s), NEW kinds,
         NEW b, NEW c, NEW d, DepthsAre(t, c, d, kinds),
         IF IsProcedure(t, 1) THEN Depth(b, kinds) = Depth(t[1].saved, kinds)
         ELSE Depth(b, kinds) = Depth(c, kinds) - (IF t[1].is \in kinds THEN 1 ELSE 0)
  PROVE  \E e : DepthsAre(s, b, e, kinds)
<1> DEFINE e == [k \in 1 .. Len(s) + 1 |-> d[k + 1]]
<1>1. Len(t) = Len(s) + 1 /\ Len(s) \in Nat /\ \A k \in 1 .. Len(s) : t[k + 1] = s[k]
  BY DEF Extends
<1>2. /\ d \in [1 .. Len(t) + 1 -> Nat] /\ d[1] = Depth(c, kinds)
      /\ \A k \in 1 .. Len(t) : DepthAt(t, d, k, kinds)
      /\ \A k \in 1 .. Len(t) + 1 : d[k] > 0 <=> Within(t, k, kinds)
  BY DEF DepthsAre
<1>3. e \in [1 .. Len(s) + 1 -> Nat] /\ e[1] = d[2]
  BY <1>1, <1>2
<1>4. d[1] \in Nat /\ d[2] \in Nat /\ DepthAt(t, d, 1, kinds)
  BY <1>1, <1>2
<1>5. e[1] = Depth(b, kinds)
  BY <1>2, <1>3, <1>4 DEF DepthAt
<1>6. ASSUME NEW k \in 1 .. Len(s)
      PROVE  DepthAt(s, e, k, kinds)
  <2>1. DepthAt(t, d, k + 1, kinds) /\ t[k + 1] = s[k] /\ e[k] = d[k + 1]
        /\ e[k + 1] = d[(k + 1) + 1]
    BY <1>1, <1>2
  <2>2. QED
    BY <2>1 DEF DepthAt, IsProcedure
<1>7. \A k \in 1 .. Len(s) + 1 : e[k] > 0 <=> Within(s, k, kinds)
  BY <1>1, <1>2, WithinShorter
<1>8. DepthsAre(s, b, e, kinds)
  BY <1>3, <1>5, <1>6, <1>7 DEF DepthsAre
<1>9. QED
  BY <1>8

------------------------------------------------------------------------------
(* At the start there is the main program, nothing said.                       *)
LEMMA CInitInv == CInit => CInv
<1> SUFFICES ASSUME CInit
             PROVE  CInv
  OBVIOUS
<1>1. Fresh(FALSE) \in Members /\ Unsaid(FALSE) \in Functions
  BY DEF Fresh, Unsaid, Members, Functions, Names
<1>2. open \in Seq(Opened) /\ DOMAIN open = {} /\ Len(open) = 0
  <2>1. open = <<>>
    BY DEF CInit
  <2>2. QED
    BY <2>1
<1>3. own \in Seq(Functions) /\ DOMAIN own = 1 .. 1 /\ own[1] = Unsaid(FALSE)
  <2>1. own = <<Unsaid(FALSE)>>
    BY DEF CInit
  <2>2. ASSUME NEW e \in Functions
        PROVE  <<e>> \in Seq(Functions) /\ DOMAIN <<e>> = 1 .. 1 /\ <<e>>[1] = e
    OBVIOUS
  <2>3. QED
    BY <1>1, <2>1, <2>2
<1>4. /\ vocabulary \in Vocabularies /\ said = 0 /\ fn = 1 /\ rejected = FALSE
      /\ context = Fresh(FALSE)
  BY DEF CInit
<1>5. Typed
  <2>1. rejected \in BOOLEAN
    BY <1>4, Zenon
  <2>2. fn \in DOMAIN own /\ said \in Nat
    BY <1>3, <1>4
  <2>3. QED
    BY <1>1, <1>2, <1>3, <1>4, <2>1, <2>2, Zenon DEF Typed
<1>6. CallsNested(open, fn) /\ Agreement
  <2>1. Agrees(Fresh(FALSE), Unsaid(FALSE))
    BY DEF Agrees, Fresh, Unsaid
  <2>2. Agrees(context, own[fn])
    BY <1>3, <1>4, <2>1, Zenon
  <2>3. QED
    BY <1>2, <2>2 DEF CallsNested, Agreement
<1>7. ASSUME NEW kinds
      PROVE  Counted(kinds)
  <2> DEFINE d == [k \in 1 .. 1 |-> 0]
  <2>1. d \in [1 .. Len(open) + 1 -> Nat] /\ d[1] = Depth(context, kinds)
    BY <1>2, <1>4 DEF Depth, Fresh
  <2>2. \A k \in 1 .. Len(open) : DepthAt(open, d, k, kinds)
    BY <1>2
  <2>3. \A k \in 1 .. Len(open) + 1 : d[k] > 0 <=> Within(open, k, kinds)
    BY <1>2 DEF Within
  <2>4. QED
    BY <2>1, <2>2, <2>3 DEF Counted, DepthsAre
<1>8. Accepted /\ Refused
  BY <1>3, <1>4 DEF Accepted, Refused, Orderly, Unfinished, Unsaid
<1>9. Over
  BY <1>4, VocabulariesAssumption DEF Over, Finished
<1>10. QED
  BY <1>5, <1>6, <1>7, <1>8, <1>9 DEF CInv

(* The depth sema counts tells whether a word is inside such a block.           *)
LEMMA InsideCounted ==
  ASSUME CInv, NEW kinds \in {{"loop"}, {"loop", "switch"}}
  PROVE  Depth(context, kinds) > 0 <=> Inside(kinds)
<1>1. PICK d : DepthsAre(open, context, d, kinds)
  BY DEF CInv, Counted
<1>2. Depth(context, kinds) > 0 <=> Within(open, 1, kinds)
  BY <1>1 DEF DepthsAre, CInv, Typed
<1>3. DOMAIN open = 1 .. Len(open)
  BY DEF CInv, Typed
<1>4. Within(open, 1, kinds) <=> Inside(kinds)
  BY <1>3 DEF Within, Inside, IsProcedure
<1>5. QED
  BY <1>2, <1>4

(* A word that changes the members and the function's own record together.      *)
LEMMA StayKept ==
  ASSUME CInv, ~ rejected, said < vocabulary.size, said' = said + 1,
         UNCHANGED <<vocabulary, open, fn>>,
         context' \in Members, context'.loop = context.loop,
         context'.breakable = context.breakable,
         NEW r \in Functions, own' = [own EXCEPT ![fn] = r],
         Agrees(context', r), rejected' \in BOOLEAN,
         ~ rejected' => Orderly(r),
         rejected' => r.abandoned \/ r.wrong
  PROVE  CInv'
<1> USE DEF CInv
<1>1. own \in Seq(Functions) /\ fn \in DOMAIN own /\ DOMAIN own = 1 .. Len(own)
      /\ vocabulary.size \in Nat /\ said \in Nat
  BY VocabulariesAssumption DEF Typed
<1>2. /\ own' \in Seq(Functions) /\ DOMAIN own' = DOMAIN own /\ own'[fn] = r
      /\ \A f \in DOMAIN own : f # fn => own'[f] = own[f]
  BY <1>1
<1>3. Typed'
  BY <1>1, <1>2 DEF Typed
<1>4. CallsNested(open, fn)'
  BY DEF CallsNested
<1>5. Agreement'
  <2>1. Agrees(context', own'[fn'])
    BY <1>2
  <2>2. ASSUME NEW k \in DOMAIN open, IsProcedure(open, k)
        PROVE  Agrees(open[k].saved, own'[open[k].caller])
    <3>1. open[k].caller \in 1 .. fn - 1
      BY <2>2 DEF CallsNested
    <3>2. own'[open[k].caller] = own[open[k].caller]
      BY <1>1, <1>2, <3>1
    <3>3. QED
      BY <2>2, <3>2 DEF Agreement
  <2>3. QED
    BY <2>1, <2>2 DEF Agreement, IsProcedure
<1>6. ASSUME NEW kinds, Counted(kinds)
      PROVE  Counted(kinds)'
  <2>1. PICK d : DepthsAre(open, context, d, kinds)
    BY <1>6 DEF Counted
  <2>2. Depth(context', kinds) = Depth(context, kinds)
    BY DEF Depth
  <2>3. DepthsAre(open', context', d, kinds)
    BY <2>1, <2>2 DEF DepthsAre
  <2>4. QED
    BY <2>3 DEF Counted
<1>7. Accepted'
  BY <1>1, <1>2 DEF Accepted, Unfinished
<1>8. Refused'
  BY <1>1, <1>2 DEF Refused, Sensible
<1>9. Over'
  BY <1>1 DEF Over, Finished
<1>10. Counted({"loop"})' /\ Counted({"loop", "switch"})'
  BY <1>6
<1>11. QED
  BY <1>3, <1>4, <1>5, <1>7, <1>8, <1>9, <1>10

(* What the invariant says of the function the next word is in.                *)
LEMMA OwnRecord ==
  ASSUME CInv
  PROVE  /\ own[fn] \in Functions /\ context \in Members /\ Agrees(context, own[fn])
         /\ ~ rejected => Orderly(own[fn])
BY DEF CInv, Typed, Agreement, Accepted

(* Break is said: sema's breakable depth tells whether the function allows it. *)
LEMMA BreakKept == CInv /\ Break => CInv'
<1> SUFFICES ASSUME CInv, Break
             PROVE  CInv'
  OBVIOUS
<1> DEFINE r == [Mine EXCEPT !.wrong = Noted(Inside({"loop", "switch"}))]
<1> USE DEF Mine, Break, Say, Stay, Check
<1>1. context.breakable > 0 <=> Inside({"loop", "switch"})
  BY InsideCounted DEF Depth
<1>2. r \in Functions /\ Agrees(context', r)
  BY OwnRecord DEF Functions, Noted, Agrees
<1>3. (~ rejected' => Orderly(r)) /\ (rejected' => r.wrong)
  BY <1>1, OwnRecord DEF Functions, Orderly, Noted
<1>4. own' = [own EXCEPT ![fn] = r] /\ rejected' \in BOOLEAN
  OBVIOUS
<1>5. QED
  BY <1>2, <1>3, <1>4, OwnRecord, StayKept

(* Continue is said: sema's loop depth tells whether the function allows it.  *)
LEMMA ContinueKept == CInv /\ Continue => CInv'
<1> SUFFICES ASSUME CInv, Continue
             PROVE  CInv'
  OBVIOUS
<1> DEFINE r == [Mine EXCEPT !.wrong = Noted(Inside({"loop"}))]
<1> USE DEF Mine, Continue, Say, Stay, Check
<1>1. context.loop > 0 <=> Inside({"loop"})
  BY InsideCounted DEF Depth
<1>2. r \in Functions /\ Agrees(context', r)
  BY OwnRecord DEF Functions, Noted, Agrees
<1>3. (~ rejected' => Orderly(r)) /\ (rejected' => r.wrong)
  BY <1>1, OwnRecord DEF Functions, Orderly, Noted
<1>4. own' = [own EXCEPT ![fn] = r] /\ rejected' \in BOOLEAN
  OBVIOUS
<1>5. QED
  BY <1>2, <1>3, <1>4, OwnRecord, StayKept

(* Go to: the name is noted on both sides.                                    *)
LEMMA GotoKept == ASSUME NEW l \in Names PROVE CInv /\ Goto(l) => CInv'
<1> SUFFICES ASSUME CInv, Goto(l)
             PROVE  CInv'
  OBVIOUS
<1> DEFINE r == [Mine EXCEPT !.gotos = Mine.gotos \cup {l}]
<1> USE DEF Mine, Goto, Say, Stay
<1>1. r \in Functions /\ context' \in Members /\ Agrees(context', r)
  BY OwnRecord DEF Functions, Members, Agrees
<1>2. Orderly(r)
  BY OwnRecord DEF Functions, Orderly
<1>3. own' = [own EXCEPT ![fn] = r] /\ ~ rejected'
  OBVIOUS
<1>4. context'.loop = context.loop /\ context'.breakable = context.breakable
  BY OwnRecord DEF Members
<1>5. rejected' \in BOOLEAN
  BY DEF CInv, Typed
<1>6. QED
  BY <1>1, <1>2, <1>3, <1>4, <1>5, StayKept

(* Label: a second one of a name is wrong on both sides.                      *)
LEMMA LabelKept == ASSUME NEW l \in Names PROVE CInv /\ Label(l) => CInv'
<1> SUFFICES ASSUME CInv, Label(l)
             PROVE  CInv'
  OBVIOUS
<1> DEFINE r == [Mine EXCEPT !.labels = Mine.labels \cup {l},
                                !.wrong = Noted(l \notin Mine.labels)]
<1> USE DEF Mine, Label, Say, Stay, Check
<1>1. r \in Functions /\ context' \in Members /\ Agrees(context', r)
  BY OwnRecord DEF Functions, Members, Agrees, Noted
<1>2. (~ rejected' => Orderly(r)) /\ (rejected' => r.wrong)
  BY OwnRecord DEF Functions, Orderly, Noted, Agrees
<1>3. own' = [own EXCEPT ![fn] = r]
  OBVIOUS
<1>4. context'.loop = context.loop /\ context'.breakable = context.breakable
  BY OwnRecord DEF Members
<1>5. rejected' \in BOOLEAN
  OBVIOUS
<1>6. QED
  BY <1>1, <1>2, <1>3, <1>4, <1>5, StayKept

(* Starting the variadic arguments: wrong outside a variadic function or twice. *)
LEMMA StartKept == CInv /\ Start => CInv'
<1> SUFFICES ASSUME CInv, Start
             PROVE  CInv'
  OBVIOUS
<1> DEFINE r == [Mine EXCEPT !.started = TRUE,
                                !.wrong = Noted(Mine.variadic /\ ~ Mine.started)]
<1> USE DEF Mine, Start, Say, Stay, Check
<1>1. r \in Functions /\ context' \in Members /\ Agrees(context', r)
  BY OwnRecord DEF Functions, Members, Agrees, Noted, Orderly
<1>2. (~ rejected' => Orderly(r)) /\ (rejected' => r.abandoned \/ r.wrong)
  BY OwnRecord DEF Functions, Members, Orderly, Noted, Agrees
<1>3. own' = [own EXCEPT ![fn] = r]
  OBVIOUS
<1>4. context'.loop = context.loop /\ context'.breakable = context.breakable
  BY OwnRecord DEF Members
<1>5. rejected' \in BOOLEAN
  OBVIOUS
<1>6. QED
  BY <1>1, <1>2, <1>3, <1>4, <1>5, StayKept

(* Finishing them: wrong unless they were started.                            *)
LEMMA FinishKept == CInv /\ Finish => CInv'
<1> SUFFICES ASSUME CInv, Finish
             PROVE  CInv'
  OBVIOUS
<1> DEFINE r == [Mine EXCEPT !.started = FALSE,
                                !.abandoned = Mine.abandoned \/ Mine.copies # {},
                                !.wrong = Noted(Mine.started)]
<1> USE DEF Mine, Finish, Say, Stay, Check
<1>1. r \in Functions /\ context' \in Members /\ Agrees(context', r)
  BY OwnRecord DEF Functions, Members, Agrees, Noted, Orderly
<1>2. (~ rejected' => Orderly(r)) /\ (rejected' => r.abandoned \/ r.wrong)
  BY OwnRecord DEF Functions, Members, Orderly, Noted, Agrees
<1>3. own' = [own EXCEPT ![fn] = r]
  OBVIOUS
<1>4. context'.loop = context.loop /\ context'.breakable = context.breakable
  BY OwnRecord DEF Members
<1>5. rejected' \in BOOLEAN
  OBVIOUS
<1>6. QED
  BY <1>1, <1>2, <1>3, <1>4, <1>5, StayKept

(* A copied cursor belongs to the function it is made in.                     *)
LEMMA CopyKept == ASSUME NEW c \in Names PROVE CInv /\ Copy(c) => CInv'
<1> SUFFICES ASSUME CInv, Copy(c)
             PROVE  CInv'
  OBVIOUS
<1> DEFINE r == [Mine EXCEPT !.copies = Mine.copies \cup {c},
                                !.wrong = Noted(Mine.started /\ c \notin Mine.copies)]
<1> USE DEF Mine, Copy, Say, Stay, Check
<1>1. r \in Functions /\ context' \in Members /\ Agrees(context', r)
  BY OwnRecord DEF Functions, Members, Agrees, Noted, Orderly
<1>2. (~ rejected' => Orderly(r)) /\ (rejected' => r.abandoned \/ r.wrong)
  BY OwnRecord DEF Functions, Members, Orderly, Noted, Agrees
<1>3. own' = [own EXCEPT ![fn] = r]
  OBVIOUS
<1>4. context'.loop = context.loop /\ context'.breakable = context.breakable
  BY OwnRecord DEF Members
<1>5. rejected' \in BOOLEAN
  OBVIOUS
<1>6. QED
  BY <1>1, <1>2, <1>3, <1>4, <1>5, StayKept

(* A cursor finished is one of the function's own copies.                     *)
LEMMA FinishCopyKept == ASSUME NEW c \in Names PROVE CInv /\ FinishCopy(c) => CInv'
<1> SUFFICES ASSUME CInv, FinishCopy(c)
             PROVE  CInv'
  OBVIOUS
<1> DEFINE r == [Mine EXCEPT !.copies = Mine.copies \ {c},
                                !.wrong = Noted(c \in Mine.copies)]
<1> USE DEF Mine, FinishCopy, Say, Stay, Check
<1>1. r \in Functions /\ context' \in Members /\ Agrees(context', r)
  BY OwnRecord DEF Functions, Members, Agrees, Noted, Orderly
<1>2. (~ rejected' => Orderly(r)) /\ (rejected' => r.abandoned \/ r.wrong)
  BY OwnRecord DEF Functions, Members, Orderly, Noted, Agrees
<1>3. own' = [own EXCEPT ![fn] = r]
  OBVIOUS
<1>4. context'.loop = context.loop /\ context'.breakable = context.breakable
  BY OwnRecord DEF Members
<1>5. rejected' \in BOOLEAN
  OBVIOUS
<1>6. QED
  BY <1>1, <1>2, <1>3, <1>4, <1>5, StayKept

(* The next argument of the function's own cursor.                            *)
LEMMA NextArgumentKept == CInv /\ NextArgument => CInv'
<1> SUFFICES ASSUME CInv, NextArgument
             PROVE  CInv'
  OBVIOUS
<1> DEFINE r == [Mine EXCEPT !.wrong = Noted(Mine.started)]
<1> USE DEF Mine, NextArgument, Say, Stay, Check
<1>1. r \in Functions /\ context' \in Members /\ Agrees(context', r)
  BY OwnRecord DEF Functions, Members, Agrees, Noted, Orderly
<1>2. (~ rejected' => Orderly(r)) /\ (rejected' => r.abandoned \/ r.wrong)
  BY OwnRecord DEF Functions, Members, Orderly, Noted, Agrees
<1>3. own' = [own EXCEPT ![fn] = r]
  OBVIOUS
<1>4. context'.loop = context.loop /\ context'.breakable = context.breakable
  BY OwnRecord DEF Members
<1>5. rejected' \in BOOLEAN
  OBVIOUS
<1>6. QED
  BY <1>1, <1>2, <1>3, <1>4, <1>5, StayKept

(* The next argument of a copied cursor.                                      *)
LEMMA NextFromKept == ASSUME NEW c \in Names PROVE CInv /\ NextFrom(c) => CInv'
<1> SUFFICES ASSUME CInv, NextFrom(c)
             PROVE  CInv'
  OBVIOUS
<1> DEFINE r == [Mine EXCEPT !.wrong = Noted(c \in Mine.copies)]
<1> USE DEF Mine, NextFrom, Say, Stay, Check
<1>1. r \in Functions /\ context' \in Members /\ Agrees(context', r)
  BY OwnRecord DEF Functions, Members, Agrees, Noted, Orderly
<1>2. (~ rejected' => Orderly(r)) /\ (rejected' => r.abandoned \/ r.wrong)
  BY OwnRecord DEF Functions, Members, Orderly, Noted, Agrees
<1>3. own' = [own EXCEPT ![fn] = r]
  OBVIOUS
<1>4. context'.loop = context.loop /\ context'.breakable = context.breakable
  BY OwnRecord DEF Members
<1>5. rejected' \in BOOLEAN
  OBVIOUS
<1>6. QED
  BY <1>1, <1>2, <1>3, <1>4, <1>5, StayKept

------------------------------------------------------------------------------
(* Blocks and procedures: the word that opens or closes one.                   *)

(* A word more keeps the program within its vocabulary.                       *)
LEMMA NotTooLong ==
  ASSUME CInv, said < vocabulary.size, said' = said + 1, UNCHANGED vocabulary
  PROVE  Over' /\ said' \in Nat /\ vocabulary' \in Vocabularies
<1>1. said \in Nat /\ vocabulary \in Vocabularies /\ vocabulary.size \in Nat
  BY VocabulariesAssumption DEF CInv, Typed
<1>2. QED
  BY <1>1 DEF Over, Finished

(* Both depths, and nothing else, follow a block.                              *)
LEMMA DeeperIs ==
  ASSUME context \in Members, NEW is \in Blocks, NEW by \in Int
  PROVE  LET c == Deeper(is, by) IN
         /\ c \in Members /\ c.variadic = context.variadic /\ c.started = context.started
         /\ c.copies = context.copies /\ c.labels = context.labels /\ c.gotos = context.gotos
         /\ \A kinds \in {{"loop"}, {"loop", "switch"}} :
              Depth(c, kinds) = Depth(context, kinds) + (IF is \in kinds THEN by ELSE 0)
<1> DEFINE c == Deeper(is, by)
<1>1. /\ c = [context EXCEPT !.loop = c.loop, !.breakable = c.breakable]
      /\ c.loop = context.loop + (IF is = "loop" THEN by ELSE 0)
      /\ c.breakable = context.breakable + (IF is \in {"loop", "switch"} THEN by ELSE 0)
  BY DEF Deeper, Members
<1>2. context.loop \in Int /\ context.breakable \in Int
  BY DEF Members
<1>3. c.loop \in Int /\ c.breakable \in Int
  BY <1>1, <1>2
<1>4. /\ c \in Members /\ c.variadic = context.variadic /\ c.started = context.started
      /\ c.copies = context.copies /\ c.labels = context.labels /\ c.gotos = context.gotos
  BY <1>1, <1>3 DEF Members
<1>5. Depth(c, {"loop"}) = c.loop /\ Depth(context, {"loop"}) = context.loop
  BY DEF Depth
<1>6. /\ Depth(c, {"loop", "switch"}) = c.breakable
      /\ Depth(context, {"loop", "switch"}) = context.breakable
  BY DEF Depth
<1>7. QED
  BY <1>1, <1>4, <1>5, <1>6

(* The blocks of a longer sequence are the new one and those of the shorter.   *)
LEMMA Shifted ==
  ASSUME NEW S, NEW s \in Seq(S), NEW t \in Seq(S), Extends(t, s)
  PROVE  /\ DOMAIN s = 1 .. Len(s) /\ DOMAIN t = 1 .. Len(s) + 1
         /\ \A k \in DOMAIN s : k + 1 \in DOMAIN t /\ t[k + 1] = s[k]
         /\ \A k \in DOMAIN t : k = 1 \/ (k - 1 \in DOMAIN s /\ t[k] = s[k - 1])
BY DEF Extends

(* A loop, a Switch or another block opens inside the function.               *)
LEMMA OpenBlockKept ==
  ASSUME NEW is \in Blocks
  PROVE  CInv /\ OpenBlock(is) => CInv'
<1> SUFFICES ASSUME CInv, OpenBlock(is)
             PROVE  CInv'
  OBVIOUS
<1> DEFINE e == [is |-> is]
<1>1. /\ open \in Seq(Opened) /\ context \in Members /\ own \in Seq(Functions)
      /\ fn \in DOMAIN own
  BY DEF CInv, Typed
<1>2. /\ e \in Opened /\ e.is = is /\ is # "procedure"
  BY DEF Opened, Blocks
<1>3. /\ open' = <<e>> \o open /\ context' = Deeper(is, 1) /\ fn' = fn /\ own' = own
      /\ ~ rejected /\ ~ rejected' /\ rejected' \in BOOLEAN
      /\ Over' /\ said' \in Nat /\ vocabulary' \in Vocabularies
  BY NotTooLong DEF OpenBlock, Say, CInv, Typed
<1>4. open' \in Seq(Opened) /\ Extends(open', open) /\ open'[1] = e
  BY <1>1, <1>2, <1>3, Pushed
<1>5. /\ context' \in Members
      /\ context'.variadic = context.variadic /\ context'.started = context.started
      /\ context'.copies = context.copies /\ context'.labels = context.labels
      /\ context'.gotos = context.gotos
      /\ \A kinds \in {{"loop"}, {"loop", "switch"}} :
           Depth(context', kinds) = Depth(context, kinds) + (IF is \in kinds THEN 1 ELSE 0)
  BY <1>1, <1>3, DeeperIs
<1>6. ~ IsProcedure(open', 1)
  BY <1>2, <1>4 DEF IsProcedure
<1>7. /\ \A k \in DOMAIN open : k + 1 \in DOMAIN open' /\ open'[k + 1] = open[k]
      /\ \A k \in DOMAIN open' :
           k = 1 \/ (k - 1 \in DOMAIN open /\ k \in Int /\ open'[k] = open[k - 1])
  BY <1>1, <1>4, Shifted
<1>8. Typed'
  BY <1>1, <1>3, <1>4, <1>5 DEF Typed
<1>9. CallsNested(open', fn')
  <2>1. ASSUME NEW k \in DOMAIN open', IsProcedure(open', k)
        PROVE  open'[k].caller \in 1 .. fn' - 1
    BY <1>3, <1>6, <1>7, <2>1 DEF CInv, CallsNested, IsProcedure
  <2>2. ASSUME NEW j \in DOMAIN open', NEW k \in DOMAIN open',
               IsProcedure(open', j), IsProcedure(open', k), j < k
        PROVE  open'[k].caller < open'[j].caller
    <3>1. /\ j - 1 \in DOMAIN open /\ k - 1 \in DOMAIN open /\ j - 1 < k - 1
          /\ open'[j] = open[j - 1] /\ open'[k] = open[k - 1]
      BY <1>6, <1>7, <2>2
    <3>2. QED
      BY <2>2, <3>1 DEF CInv, CallsNested, IsProcedure
  <2>3. QED
    BY <2>1, <2>2 DEF CallsNested
<1>10. Agreement'
  <2>1. Agrees(context', own'[fn'])
    BY <1>3, <1>5, OwnRecord DEF Agrees
  <2>2. ASSUME NEW k \in DOMAIN open', IsProcedure(open', k)
        PROVE  Agrees(open'[k].saved, own'[open'[k].caller])
    BY <1>3, <1>6, <1>7, <2>2 DEF CInv, Agreement, IsProcedure
  <2>3. QED
    BY <2>1, <2>2 DEF Agreement, IsProcedure
<1>11. ASSUME NEW kinds \in {{"loop"}, {"loop", "switch"}}, Counted(kinds)
       PROVE  Counted(kinds)'
  <2>1. PICK d : DepthsAre(open, context, d, kinds)
    BY <1>11 DEF Counted
  <2>2. Depth(context, kinds) \in Nat
    BY <1>1, <2>1 DEF DepthsAre
  <2>3. Depth(context', kinds) = Depth(context, kinds) + (IF is \in kinds THEN 1 ELSE 0)
    BY <1>5
  <2>4. Depth(context', kinds) \in Nat
    BY <2>2, <2>3
  <2>5. \E d1 : DepthsAre(open', context', d1, kinds)
    BY <1>1, <1>2, <1>4, <1>6, <2>1, <2>3, <2>4, DepthsPushed
  <2>6. QED
    BY <2>5 DEF Counted
<1>12. Accepted'
  <2>1. ASSUME NEW f \in DOMAIN own, Unfinished(f)
        PROVE  Unfinished(f)'
    BY <1>3, <1>7, <2>1 DEF Unfinished, IsProcedure
  <2>2. QED
    BY <1>3, <2>1 DEF CInv, Accepted
<1>13. Refused'
  BY <1>3 DEF Refused
<1>14. QED
  BY <1>3, <1>8, <1>9, <1>10, <1>11, <1>12, <1>13 DEF CInv

(* The innermost block closes, and the depths go back.                        *)
LEMMA CloseBlockKept == CInv /\ CloseBlock => CInv'
<1> SUFFICES ASSUME CInv, CloseBlock
             PROVE  CInv'
  OBVIOUS
<1>1. /\ open \in Seq(Opened) /\ context \in Members /\ own \in Seq(Functions)
      /\ fn \in DOMAIN own
  BY DEF CInv, Typed
<1>2. /\ open # <<>> /\ open[1].is \in Blocks /\ open' = Tail(open)
      /\ context' = Deeper(open[1].is, -1) /\ fn' = fn /\ own' = own
      /\ ~ rejected /\ ~ rejected' /\ rejected' \in BOOLEAN
      /\ Over' /\ said' \in Nat /\ vocabulary' \in Vocabularies
  BY NotTooLong DEF CloseBlock, Say, CInv, Typed
<1>3. open' \in Seq(Opened) /\ Extends(open, open')
  BY <1>1, <1>2, Popped
<1>4. ~ IsProcedure(open, 1)
  BY <1>2 DEF IsProcedure, Blocks
<1>5. /\ context' \in Members
      /\ context'.variadic = context.variadic /\ context'.started = context.started
      /\ context'.copies = context.copies /\ context'.labels = context.labels
      /\ context'.gotos = context.gotos
      /\ \A kinds \in {{"loop"}, {"loop", "switch"}} :
           Depth(context', kinds) = Depth(context, kinds) + (IF open[1].is \in kinds THEN -1 ELSE 0)
  BY <1>1, <1>2, DeeperIs
<1>6. /\ \A k \in DOMAIN open' : k \in Int /\ k + 1 \in DOMAIN open /\ open[k + 1] = open'[k]
      /\ \A k \in DOMAIN open :
           k = 1 \/ (k - 1 \in DOMAIN open' /\ open[k] = open'[k - 1])
  BY <1>1, <1>3, Shifted
<1>7. Typed'
  BY <1>1, <1>2, <1>3, <1>5 DEF Typed
<1>8. CallsNested(open', fn')
  <2>1. ASSUME NEW k \in DOMAIN open', IsProcedure(open', k)
        PROVE  open'[k].caller \in 1 .. fn' - 1
    BY <1>2, <1>6, <2>1 DEF CInv, CallsNested, IsProcedure
  <2>2. ASSUME NEW j \in DOMAIN open', NEW k \in DOMAIN open',
               IsProcedure(open', j), IsProcedure(open', k), j < k
        PROVE  open'[k].caller < open'[j].caller
    <3>1. /\ j + 1 \in DOMAIN open /\ k + 1 \in DOMAIN open /\ j + 1 < k + 1
          /\ open'[j] = open[j + 1] /\ open'[k] = open[k + 1]
      BY <1>6, <2>2
    <3>2. QED
      BY <2>2, <3>1 DEF CInv, CallsNested, IsProcedure
  <2>3. QED
    BY <2>1, <2>2 DEF CallsNested
<1>9. Agreement'
  <2>1. Agrees(context', own'[fn'])
    BY <1>2, <1>5, OwnRecord DEF Agrees
  <2>2. ASSUME NEW k \in DOMAIN open', IsProcedure(open', k)
        PROVE  Agrees(open'[k].saved, own'[open'[k].caller])
    BY <1>2, <1>6, <2>2 DEF CInv, Agreement, IsProcedure
  <2>3. QED
    BY <2>1, <2>2 DEF Agreement, IsProcedure
<1>10. ASSUME NEW kinds \in {{"loop"}, {"loop", "switch"}}, Counted(kinds)
       PROVE  Counted(kinds)'
  <2>1. PICK d : DepthsAre(open, context, d, kinds)
    BY <1>10 DEF Counted
  <2>2. Depth(context, kinds) \in Int
    BY <1>1 DEF Members, Depth
  <2>3. Depth(context', kinds) = Depth(context, kinds) - (IF open[1].is \in kinds THEN 1 ELSE 0)
    <3>1. CASE open[1].is \in kinds
      BY <1>5, <2>2, <3>1
    <3>2. CASE open[1].is \notin kinds
      <4>1. Depth(context', kinds) = Depth(context, kinds) + 0
        BY <1>5, <3>2
      <4>2. Depth(context', kinds) = Depth(context, kinds) - 0
        BY <2>2, <4>1
      <4>3. QED
        BY <3>2, <4>2
    <3>3. QED
      BY <3>1, <3>2
  <2>4. \E d1 : DepthsAre(open', context', d1, kinds)
    BY <1>1, <1>3, <1>4, <2>1, <2>3, DepthsPopped
  <2>5. QED
    BY <2>4 DEF Counted
<1>11. Accepted'
  <2>1. ASSUME NEW f \in DOMAIN own, Unfinished(f)
        PROVE  Unfinished(f)'
    BY <1>2, <1>4, <1>6, <2>1 DEF Unfinished, IsProcedure
  <2>2. QED
    BY <1>2, <2>1 DEF CInv, Accepted
<1>12. Refused'
  BY <1>2 DEF Refused
<1>13. QED
  BY <1>2, <1>7, <1>8, <1>9, <1>10, <1>11, <1>12 DEF CInv

(* A Procedure opens: sema saves its context, a C function of its own begins. *)
LEMMA ProcedureKept ==
  ASSUME NEW variadic \in BOOLEAN
  PROVE  CInv /\ Procedure(variadic) => CInv'
<1> SUFFICES ASSUME CInv, Procedure(variadic)
             PROVE  CInv'
  OBVIOUS
<1> DEFINE e == [is |-> "procedure", saved |-> context, caller |-> fn]
<1>1. /\ open \in Seq(Opened) /\ context \in Members /\ own \in Seq(Functions)
      /\ fn \in DOMAIN own /\ DOMAIN own = 1 .. Len(own) /\ Len(own) \in Nat
  BY DEF CInv, Typed
<1>2. /\ open' = <<e>> \o open /\ context' = Fresh(variadic) /\ fn' = Len(own) + 1
      /\ own' = Append(own, Unsaid(variadic))
      /\ ~ rejected /\ ~ rejected' /\ rejected' \in BOOLEAN
      /\ Over' /\ said' \in Nat /\ vocabulary' \in Vocabularies
  BY NotTooLong DEF Procedure, Say, CInv, Typed
<1>3. e \in Opened /\ e.is = "procedure" /\ e.saved = context /\ e.caller = fn
  BY <1>1 DEF Opened
<1>4. Fresh(variadic) \in Members /\ Unsaid(variadic) \in Functions
  BY DEF Fresh, Unsaid, Members, Functions, Names
<1>5. open' \in Seq(Opened) /\ Extends(open', open) /\ open'[1] = e
  BY <1>1, <1>2, <1>3, Pushed
<1>6. /\ \A k \in DOMAIN open : k + 1 \in DOMAIN open' /\ open'[k + 1] = open[k]
      /\ \A k \in DOMAIN open' :
           k = 1 \/ (k - 1 \in DOMAIN open /\ k \in Int /\ open'[k] = open[k - 1])
      /\ 1 \in DOMAIN open'
  BY <1>1, <1>5, Shifted DEF Extends
<1>7. /\ own' \in Seq(Functions) /\ fn' \in DOMAIN own' /\ own'[fn'] = Unsaid(variadic)
      /\ \A f \in DOMAIN own : f \in DOMAIN own' /\ f # fn' /\ own'[f] = own[f]
      /\ \A f \in DOMAIN own' : f \in DOMAIN own \/ f = fn'
  BY <1>1, <1>2, <1>4
<1>8. Typed'
  BY <1>2, <1>4, <1>5, <1>7 DEF Typed
<1>9. CallsNested(open', fn')
  <2>1. ASSUME NEW k \in DOMAIN open', IsProcedure(open', k)
        PROVE  open'[k].caller \in 1 .. fn' - 1
    <3>1. CASE k = 1
      BY <1>1, <1>2, <1>3, <1>5, <3>1
    <3>2. CASE k # 1
      <4>1. open'[k].caller \in 1 .. fn - 1
        BY <1>6, <2>1, <3>2 DEF CInv, CallsNested, IsProcedure
      <4>2. QED
        BY <1>1, <1>2, <4>1
    <3>3. QED
      BY <3>1, <3>2
  <2>2. ASSUME NEW j \in DOMAIN open', NEW k \in DOMAIN open',
               IsProcedure(open', j), IsProcedure(open', k), j < k
        PROVE  open'[k].caller < open'[j].caller
    <3>1. k # 1 /\ k - 1 \in DOMAIN open /\ open'[k] = open[k - 1]
      BY <1>5, <1>6, <2>2
    <3>2. CASE j = 1
      <4>1. open'[k].caller \in 1 .. fn - 1 /\ open'[j].caller = fn
        BY <1>3, <1>5, <2>2, <3>1, <3>2 DEF CInv, CallsNested, IsProcedure
      <4>2. QED
        BY <1>1, <4>1
    <3>3. CASE j # 1
      <4>1. j - 1 \in DOMAIN open /\ j - 1 < k - 1 /\ open'[j] = open[j - 1]
        BY <1>6, <2>2, <3>3
      <4>2. QED
        BY <2>2, <3>1, <4>1 DEF CInv, CallsNested, IsProcedure
    <3>4. QED
      BY <3>2, <3>3
  <2>3. QED
    BY <2>1, <2>2 DEF CallsNested
<1>10. Agreement'
  <2>1. Agrees(Fresh(variadic), Unsaid(variadic))
    BY DEF Agrees, Fresh, Unsaid
  <2>2. Agrees(context', own'[fn'])
    BY <1>2, <1>7, <2>1
  <2>3. ASSUME NEW k \in DOMAIN open', IsProcedure(open', k)
        PROVE  Agrees(open'[k].saved, own'[open'[k].caller])
    <3>1. CASE k = 1
      BY <1>1, <1>3, <1>5, <1>7, <3>1, OwnRecord
    <3>2. CASE k # 1
      <4>1. IsProcedure(open, k - 1) /\ k - 1 \in DOMAIN open /\ open'[k] = open[k - 1]
        BY <1>6, <2>3, <3>2 DEF IsProcedure
      <4>2. open'[k].caller \in DOMAIN own
        BY <1>1, <4>1 DEF CInv, CallsNested
      <4>3. QED
        BY <1>7, <4>1, <4>2 DEF CInv, Agreement
    <3>3. QED
      BY <3>1, <3>2
  <2>4. QED
    BY <2>2, <2>3 DEF Agreement, IsProcedure
<1>11. ASSUME NEW kinds \in {{"loop"}, {"loop", "switch"}}, Counted(kinds)
       PROVE  Counted(kinds)'
  <2>1. PICK d : DepthsAre(open, context, d, kinds)
    BY <1>11 DEF Counted
  <2>2. Depth(context', kinds) = 0
    BY <1>2 DEF Fresh, Depth
  <2>3. IsProcedure(open', 1) /\ Depth(open'[1].saved, kinds) = Depth(context, kinds)
    BY <1>3, <1>5 DEF IsProcedure
  <2>4. \E d1 : DepthsAre(open', context', d1, kinds)
    BY <1>1, <1>5, <2>1, <2>2, <2>3, DepthsPushed
  <2>5. QED
    BY <2>4 DEF Counted
<1>12. Accepted'
  <2>1. ASSUME NEW f \in DOMAIN own, Unfinished(f)
        PROVE  Unfinished(f)'
    <3>1. CASE f = fn
      BY <1>3, <1>5, <1>6, <3>1 DEF Unfinished, IsProcedure
    <3>2. CASE f # fn
      BY <1>6, <2>1, <3>2 DEF Unfinished, IsProcedure
    <3>3. QED
      BY <3>1, <3>2
  <2>2. Orderly(Unsaid(variadic))
    BY DEF Orderly, Unsaid
  <2>3. ASSUME NEW f \in DOMAIN own'
        PROVE  Orderly(own'[f]) /\ (Unfinished(f)' \/ own'[f].gotos \subseteq own'[f].labels)
    <3>1. CASE f = fn'
      BY <1>7, <2>2, <3>1 DEF Unfinished
    <3>2. CASE f \in DOMAIN own
      BY <1>2, <1>7, <2>1, <3>2 DEF CInv, Accepted
    <3>3. QED
      BY <1>7, <3>1, <3>2
  <2>4. QED
    BY <2>3 DEF Accepted
<1>13. Refused'
  BY <1>2 DEF Refused
<1>14. QED
  BY <1>2, <1>8, <1>9, <1>10, <1>11, <1>12, <1>13 DEF CInv

(* The target of a jump is checked where a procedure ends.                     *)
LEMMA LabelsMatchOwn ==
  ASSUME CInv
  PROVE  LabelsMatch <=> own[fn].gotos \subseteq own[fn].labels
BY OwnRecord DEF LabelsMatch, Agrees

(* A Procedure ends: its labels are judged, the saved context comes back.     *)
LEMMA EndProcedureKept == CInv /\ EndProcedure => CInv'
<1> SUFFICES ASSUME CInv, EndProcedure
             PROVE  CInv'
  OBVIOUS
<1>1. /\ open \in Seq(Opened) /\ context \in Members /\ own \in Seq(Functions)
      /\ fn \in DOMAIN own /\ DOMAIN own = 1 .. Len(own) /\ Len(own) \in Nat
  BY DEF CInv, Typed
<1>2. /\ open # <<>> /\ open' = Tail(open) /\ context' = open[1].saved
      /\ fn' = open[1].caller /\ own' = own
      /\ ~ rejected /\ rejected' = ~ LabelsMatch
      /\ Over' /\ said' \in Nat /\ vocabulary' \in Vocabularies
  BY NotTooLong DEF EndProcedure, Say, Restored, Check
<1>3. IsProcedure(open, 1)
  BY DEF EndProcedure, IsProcedure
<1>4. open' \in Seq(Opened) /\ Extends(open, open')
  BY <1>1, <1>2, Popped
<1>5. /\ \A k \in DOMAIN open' : k \in Int /\ k + 1 \in DOMAIN open /\ open[k + 1] = open'[k]
      /\ \A k \in DOMAIN open :
           k = 1 \/ (k - 1 \in DOMAIN open' /\ open[k] = open'[k - 1])
  BY <1>1, <1>4, Shifted
<1>6. 1 \in DOMAIN open /\ \A k \in DOMAIN open' : k >= 1
  BY <1>1, <1>2, <1>4 DEF Extends
<1>7. context' \in Members /\ fn' \in 1 .. fn - 1
  <2>1. fn' \in 1 .. fn - 1
    BY <1>2, <1>3, <1>6 DEF CInv, CallsNested
  <2>2. open[1] \in Opened
    BY <1>1, <1>6
  <2>3. open[1] \in [is : {"procedure"}, saved : Members, caller : Nat]
    BY <1>3, <2>2 DEF Opened, Blocks, IsProcedure
  <2>4. QED
    BY <1>2, <2>1, <2>3
<1>8. Typed'
  <2>1. fn' \in DOMAIN own' /\ rejected' \in BOOLEAN
    BY <1>1, <1>2, <1>7
  <2>2. QED
    BY <1>1, <1>2, <1>4, <1>7, <2>1 DEF Typed
<1>9. CallsNested(open', fn')
  <2>1. ASSUME NEW k \in DOMAIN open', IsProcedure(open', k)
        PROVE  open'[k].caller \in 1 .. fn' - 1
    <3>1. /\ k + 1 \in DOMAIN open /\ IsProcedure(open, k + 1) /\ 1 < k + 1
          /\ open[k + 1] = open'[k]
      BY <1>5, <1>6, <2>1 DEF IsProcedure
    <3>2. open'[k].caller < fn' /\ open'[k].caller \in 1 .. fn - 1
      BY <1>2, <1>3, <1>6, <3>1 DEF CInv, CallsNested
    <3>3. QED
      BY <1>1, <1>7, <3>2
  <2>2. ASSUME NEW j \in DOMAIN open', NEW k \in DOMAIN open',
               IsProcedure(open', j), IsProcedure(open', k), j < k
        PROVE  open'[k].caller < open'[j].caller
    <3>1. /\ j + 1 \in DOMAIN open /\ k + 1 \in DOMAIN open /\ j + 1 < k + 1
          /\ open'[j] = open[j + 1] /\ open'[k] = open[k + 1]
      BY <1>5, <2>2
    <3>2. QED
      BY <2>2, <3>1 DEF CInv, CallsNested, IsProcedure
  <2>3. QED
    BY <2>1, <2>2 DEF CallsNested
<1>10. Agreement'
  <2>1. Agrees(context', own'[fn'])
    BY <1>2, <1>3, <1>6 DEF CInv, Agreement
  <2>2. ASSUME NEW k \in DOMAIN open', IsProcedure(open', k)
        PROVE  Agrees(open'[k].saved, own'[open'[k].caller])
    BY <1>2, <1>5, <2>2 DEF CInv, Agreement, IsProcedure
  <2>3. QED
    BY <2>1, <2>2 DEF Agreement, IsProcedure
<1>11. ASSUME NEW kinds \in {{"loop"}, {"loop", "switch"}}, Counted(kinds)
       PROVE  Counted(kinds)'
  <2>1. PICK d : DepthsAre(open, context, d, kinds)
    BY <1>11 DEF Counted
  <2>2. Depth(context', kinds) = Depth(open[1].saved, kinds)
    BY <1>2
  <2>3. \E d1 : DepthsAre(open', context', d1, kinds)
    BY <1>1, <1>3, <1>4, <2>1, <2>2, DepthsPopped
  <2>4. QED
    BY <2>3 DEF Counted
<1>12. Accepted'
  <2>1. ASSUME NEW f \in DOMAIN own, f # fn, Unfinished(f)
        PROVE  Unfinished(f)'
    <3>1. PICK k \in DOMAIN open : IsProcedure(open, k) /\ open[k].caller = f
      BY <2>1 DEF Unfinished
    <3>2. CASE k = 1
      BY <1>2, <3>1, <3>2 DEF Unfinished
    <3>3. CASE k # 1
      BY <1>5, <3>1, <3>3 DEF Unfinished, IsProcedure
    <3>4. QED
      BY <3>2, <3>3
  <2>2. ~ rejected' => own[fn].gotos \subseteq own[fn].labels
    BY <1>2, LabelsMatchOwn
  <2>3. QED
    BY <1>2, <2>1, <2>2 DEF CInv, Accepted
<1>13. Refused'
  BY <1>1, <1>2, LabelsMatchOwn DEF Refused, Sensible
<1>14. QED
  BY <1>2, <1>8, <1>9, <1>10, <1>11, <1>12, <1>13 DEF CInv

(* The program ends, and the labels of main are judged.                       *)
LEMMA EndProgramKept == CInv /\ EndProgram => CInv'
<1> SUFFICES ASSUME CInv, EndProgram
             PROVE  CInv'
  OBVIOUS
<1>1. /\ open = <<>> /\ ~ rejected /\ said' = vocabulary.size + 1
      /\ rejected' = ~ LabelsMatch
      /\ UNCHANGED <<vocabulary, open, context, fn, own>>
  BY DEF EndProgram, Check
<1>2. own[fn].gotos \subseteq own[fn].labels <=> ~ rejected'
  BY <1>1, LabelsMatchOwn
<1>3. Typed'
  <2>1. vocabulary \in Vocabularies /\ vocabulary.size \in Nat
    BY VocabulariesAssumption DEF CInv, Typed
  <2>2. said' \in Nat /\ rejected' \in BOOLEAN
    BY <1>1, <2>1
  <2>3. QED
    BY <1>1, <2>2 DEF CInv, Typed
<1>4. CallsNested(open, fn)' /\ Agreement'
  BY <1>1 DEF CInv, CallsNested, Agreement, IsProcedure
<1>5. ASSUME NEW kinds, Counted(kinds)
      PROVE  Counted(kinds)'
  BY <1>1, <1>5 DEF Counted
<1>6. Accepted'
  BY <1>1 DEF CInv, Accepted, Unfinished, IsProcedure
<1>7. Refused'
  BY <1>1, <1>2 DEF CInv, Typed, Refused, Sensible
<1>8. Over'
  BY <1>1, <1>2 DEF Over
<1>9. QED
  BY <1>3, <1>4, <1>5, <1>6, <1>7, <1>8 DEF CInv

------------------------------------------------------------------------------
(* Every word keeps the invariant.                                            *)
LEMMA CStepInv == CInv /\ [CNext]_contextVars => CInv'
<1> SUFFICES ASSUME CInv, [CNext]_contextVars
             PROVE  CInv'
  OBVIOUS
<1>1. CASE CNext
  BY <1>1, OpenBlockKept, CloseBlockKept, ProcedureKept, EndProcedureKept, BreakKept, ContinueKept,
     GotoKept, LabelKept, StartKept, FinishKept, CopyKept, FinishCopyKept, NextArgumentKept,
     NextFromKept, EndProgramKept DEF CNext
<1>2. CASE UNCHANGED contextVars
  BY <1>2 DEF contextVars, CInv, Typed, CallsNested, Agreement, Counted, Accepted, Unfinished,
     Refused, Sensible, Over, Finished, IsProcedure
<1>3. QED
  BY <1>1, <1>2

(* Whatever a program says, and however long it is, the members of Sema are     *)
(* those of the C function the next word is in, and the saved ones those of     *)
(* the functions that wait (checkStmt on ProcedureStmt).                        *)
THEOREM ContextsInvariant == CSpec => []CInv
BY CInitInv, CStepInv, PTL DEF CSpec

(* Between two words the cursors of variadic arguments are those of the function  *)
(* the next word is in, and no other's (VaStart, VaEnd, VaCopy, VaCopyEnd, VaArg).   *)
THEOREM ContextsCursors == CSpec => []CursorsAreOwn
<1>1. CInv => CursorsAreOwn
  <2> SUFFICES ASSUME CInv, ~ Abandons
               PROVE  context.started = own[fn].started /\ context.copies = own[fn].copies
    BY DEF CursorsAreOwn
  <2>1. ~ own[fn].abandoned
    BY DEF CInv, Typed, Abandons
  <2>2. QED
    BY <2>1, OwnRecord DEF Agrees
<1>2. QED
  BY <1>1, ContextsInvariant, PTL

(* For programs of any length: one that is accepted is sensible in every C        *)
(* function, and one that is refused is not in some one (checkStmt,               *)
(* validateLabels).                                                              *)
THEOREM ContextsJumps == CSpec => []JumpsLand
<1>1. CInv => JumpsLand
  <2> SUFFICES ASSUME CInv, ~ Abandons
               PROVE  /\ Finished /\ ~ rejected => \A f \in DOMAIN own : Sensible(f)
                      /\ rejected => \E f \in DOMAIN own : ~ Sensible(f)
    BY DEF JumpsLand
  <2>1. \A f \in DOMAIN own : ~ own[f].abandoned
    BY DEF Abandons
  <2>2. rejected => \E f \in DOMAIN own : ~ Sensible(f)
    BY <2>1 DEF CInv, Refused
  <2>3. ASSUME Finished, ~ rejected, NEW f \in DOMAIN own
        PROVE  Sensible(f)
    <3>1. open = <<>> /\ own[fn].gotos \subseteq own[fn].labels
      BY <2>3 DEF CInv, Over
    <3>2. DOMAIN open = {}
      BY <3>1
    <3>3. ~ own[f].wrong /\ (Unfinished(f) \/ own[f].gotos \subseteq own[f].labels)
      BY <2>1, <2>3 DEF CInv, Accepted, Orderly
    <3>4. own[f].gotos \subseteq own[f].labels
      BY <3>1, <3>2, <3>3 DEF Unfinished
    <3>5. QED
      BY <3>3, <3>4 DEF Sensible
  <2>4. QED
    BY <2>2, <2>3
<1>2. QED
  BY <1>1, ContextsInvariant, PTL
==============================================================================
