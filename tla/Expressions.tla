------------------------------ MODULE Expressions ------------------------------
(***************************************************************************)
(* Expressions of whole numbers, truth values and native objects, written    *)
(* operand first: the value sema folds them to, the value of their C text,   *)
(* and whether sema finds the accesses C leaves unsequenced.                  *)
(*                                                                          *)
(* The functions modelled recur over the tree below a node.  Here an operand  *)
(* on the stack is not its tree but what each function returns for it, so the  *)
(* call on a child is a field of the child: c[k] is the k-th child of a node.  *)
(* Of a literal name is the value; of an object it is the target, what sema    *)
(* calls it, the object it is in C, a pair of a name and a position, and the   *)
(* variables via which it is reached, a pointer or an index.                   *)
(* A kit says which nodes the expressions of a run are made of, and how many.  *)
(***************************************************************************)
EXTENDS LongArithmetic, Sequences, FiniteSets

CONSTANT Kits

VARIABLES
  kit,             (* the nodes to choose from                                    *)
  stack            (* the operands written so far, the last one first             *)

expressionVars == <<kit, stack>>

Unary   == {"Not", "BitNot", "Neg"}
Objects == {"Var", "Member", "Element", "Deref"}
Leaves  == {"Int", "Bool"} \cup Objects
IsInfix(op) == op \notin Leaves \cup Unary \cup {"IncDec", "Cast", "Choose", "Call"}

(* A literal fits a long, a name written out in full says which object is meant  *)
(* (only the elements of an array share theirs), and an operator has the         *)
(* operands it is written with.                                                *)
ASSUME KitsAssumption ==
  \A k \in Kits :
    /\ \A t \in k.operands :
         \/ t[1] = "Int" /\ t[2] \in Long
         \/ t[1] = "Bool" /\ t[2] \in {0, 1}
         \/ /\ t[1] \in Objects
            /\ t[2].via = {} => t[2].object[1] = t[2].target
            /\ t[1] = "Var" => t[2].via = {}
    /\ k.unary \subseteq Unary \cup {"Cast", "Call"}
    /\ \A op \in k.binary : IsInfix(op) \/ op = "Call"

------------------------------------------------------------------------------
(* integerConstantValue.                                                       *)
Folded(op, name, c) ==
  CASE op \in {"Int", "Bool"} -> {name}
    [] op \in Unary -> UNION {FoldUnary(op, a) : a \in c[1].folded}
    [] op \in Objects \cup {"IncDec", "Cast", "Call"} -> {}
    [] op = "Choose" -> UNION {IF a # 0 THEN c[1].folded ELSE c[3].folded : a \in c[2].folded}
    [] OTHER ->
         UNION {IF op = "And" /\ a = 0 THEN {0}
                ELSE IF op = "Or" /\ a # 0 THEN {1}
                ELSE UNION {FoldBinary(op, a, b) : b \in c[2].folded} : a \in c[1].folded}

(* The C type of the raw text: literals are long, truths are int.              *)
Wider(type1, type2) == IF "long" \in {type1, type2} THEN "long" ELSE "int"
CType(op, c) ==
  CASE op \in {"Bool", "And", "Or", "Not"} \cup Comparisons -> "int"
    [] op \in {"Neg", "BitNot", "ShiftLeft", "ShiftRight"} -> c[1].type
    [] op = "Comma" -> c[2].type
    [] op = "Choose" -> Wider(c[1].type, c[3].type)
    [] op \in {"Int", "IncDec", "Cast", "Call"} \cup Objects -> "long"
    [] OTHER -> Wider(c[1].type, c[2].type)

(* What the raw text is worth where the objects are unknown.                   *)
Raw(op, name, c) ==
  CASE op \in {"Int", "Bool"} -> {name}
    [] op \in Unary -> UNION {CUnary(CType(op, c), op, a) : a \in c[1].raw}
    [] op \in Objects \cup {"IncDec", "Call"} -> {}
    [] op = "Cast"   -> c[1].raw
    [] op = "Choose" -> UNION {IF a # 0 THEN c[1].raw ELSE c[3].raw : a \in c[2].raw}
    [] op = "And" ->
         UNION {IF a = 0 THEN {0} ELSE {Truth(b # 0) : b \in c[2].raw} : a \in c[1].raw}
    [] op = "Or" ->
         UNION {IF a # 0 THEN {1} ELSE {Truth(b # 0) : b \in c[2].raw} : a \in c[1].raw}
    [] OTHER ->
         UNION {UNION {CBinary(CType(op, c), op, a, b) : b \in c[2].raw} : a \in c[1].raw}

(* A conversion (to long) has a value in C where its operand has; sema folds     *)
(* none.                                                                       *)
Converts(op, c) == op = "Cast" \/ \E k \in DOMAIN c : c[k].converts

(* Arithmetic on truth values is int in C; the folder computes it as long.  The  *)
(* two differ when the value is no int, when int is too narrow for the count of  *)
(* a shift, or when the quotient that belongs to a remainder is no int.          *)
Narrow(op, name, c) ==
  \/ \E k \in DOMAIN c : c[k].narrow
  \/ /\ CType(op, c) = "int"
     /\ \/ ~ (Folded(op, name, c) \subseteq IntValues)
        \/ op \in {"ShiftLeft", "ShiftRight"} /\ \E b \in c[2].folded : b >= IntBits
        \/ op = "Mod" /\ \E a \in c[1].folded, b \in c[2].folded :
                            b # 0 /\ Quotient(a, b) \notin IntValues

------------------------------------------------------------------------------
(* expressionEffects: an object is called as nativeModificationTarget calls it,  *)
(* all elements of an array alike, and what a pointer points to by the pointer.  *)

Nothing == [reads |-> {}, writes |-> {}]
Together(S) == [reads |-> UNION {f.reads : f \in S}, writes |-> UNION {f.writes : f \in S}]

Effects(op, name, c) ==
  CASE op = "Var"    -> [reads |-> {name.target}, writes |-> {}]
    [] op = "IncDec" ->
         Together({c[1].effects, [reads |-> {c[1].name.target}, writes |-> {c[1].name.target}]})
    [] op \in {"Int", "Bool", "Cast", "Member", "Element", "Deref"} -> Nothing
    [] OTHER         -> Together({c[k].effects : k \in DOMAIN c})

(* Mutant: what the right operand writes is not compared.                      *)
ClashLeft(f, g) == f.writes \cap (g.reads \cup g.writes) # {}

Clash(f, g) ==
  \/ f.writes \cap (g.reads \cup g.writes) # {}
  \/ g.writes \cap f.reads # {}

Sequenced == {"And", "Or", "Comma"}
(* findUnsequencedConflict, of which the caller uses only whether it found one. *)
FindsConflict(op, c) ==
  \/ /\ IsInfix(op) \/ op \in {"Choose", "Call"}
     /\ \E k \in DOMAIN c : c[k].conflict
  \/ /\ IsInfix(op) /\ op \notin Sequenced
     /\ Clash(c[1].effects, c[2].effects)
  \/ /\ op = "Call"
     /\ \E j, k \in DOMAIN c : j < k /\ Clash(c[j].effects, c[k].effects)

(* inferExpr visits every node and reports E0034 at the innermost operator.     *)
Reported(op, c) ==
  \/ \E k \in DOMAIN c : c[k].reported
  \/ /\ IsInfix(op) /\ op \notin Sequenced
     /\ ~ c[1].conflict /\ ~ c[2].conflict
     /\ Clash(c[1].effects, c[2].effects)

(* C's own rule, over the accesses of the whole expression: two of them are     *)
(* unsequenced by the node where the paths to them part.                        *)
Access(target, object, writes) == [target |-> target, object |-> object, writes |-> writes]
AccessOf(name, writes) ==
  {Access(name.target, name.object, writes)} \cup {Access(v, <<v, 0>>, FALSE) : v \in name.via}

Accesses(op, name, c) ==
  CASE op \in Objects -> AccessOf(name, FALSE)
    [] op = "IncDec"  -> AccessOf(c[1].name, TRUE)
    [] OTHER          -> UNION {c[k].accesses : k \in DOMAIN c}

Meeting(c) ==
  \E j, k \in DOMAIN c : \E f \in c[j].accesses, g \in c[k].accesses :
    j # k /\ f.object = g.object /\ f.writes

Unsequenced(op, c) ==
  \/ \E k \in DOMAIN c : c[k].unsequenced
  \/ op \notin Sequenced \cup {"Choose"} /\ Meeting(c)

(* Where a PsValue is wanted, and and or are calls of the runtime, and only the   *)
(* operands of these are printed so in turn.                                    *)
UnsequencedBoxed(op, c) ==
  IF op \in {"And", "Or"}
  THEN (\E k \in DOMAIN c : c[k].unsequencedBoxed) \/ Meeting(c)
  ELSE Unsequenced(op, c)

(* What the effects leave out: objects that are read other than by their own     *)
(* names, the pointer or index on the way to a changed one, conversions, and      *)
(* the arguments of a call against each other.                                  *)
Overlooked(op, c) ==
  \/ op \in {"Cast"} \cup (Objects \ {"Var"})
  \/ op = "Call" /\ Len(c) > 1
  \/ IF op = "IncDec" THEN c[1].name.via # {} ELSE \E k \in DOMAIN c : c[k].overlooked

(* Two objects sema calls alike: elements of one array.                          *)
TakenForOne(accesses) ==
  \E f, g \in accesses : f.target = g.target /\ f.object # g.object /\ f.writes

------------------------------------------------------------------------------
(* How many nodes some operands have.                                           *)
Written(s) ==
  LET Sum[k \in 0 .. Len(s)] == IF k = 0 THEN 0 ELSE Sum[k - 1] + s[k].size IN Sum[Len(s)]

Node(op, name, c) ==
  [op |-> op, name |-> name, size |-> Written(c) + 1,
   folded |-> Folded(op, name, c), type |-> CType(op, c), raw |-> Raw(op, name, c),
   converts |-> Converts(op, c), narrow |-> Narrow(op, name, c),
   effects |-> Effects(op, name, c), conflict |-> FindsConflict(op, c), reported |-> Reported(op, c),
   accesses |-> Accesses(op, name, c), unsequenced |-> Unsequenced(op, c),
   unsequencedBoxed |-> UnsequencedBoxed(op, c), overlooked |-> Overlooked(op, c)]

EInit == kit \in Kits /\ stack = <<>>

(* Every operand on the stack but the first still needs an operator.          *)
Operand(t) ==
  /\ Written(stack) + 1 + Len(stack) <= kit.size
  /\ stack' = <<Node(t[1], t[2], <<>>)>> \o stack
  /\ UNCHANGED kit

(* An operator over the n operands on top.                                    *)
Operator(op, n) ==
  /\ n <= Len(stack) /\ Written(stack) < kit.size
  /\ stack' = <<Node(op, "", [k \in 1 .. n |-> stack[n + 1 - k]])>> \o SubSeq(stack, n + 1, Len(stack))
  /\ UNCHANGED kit

(* Increment and decrement want a native object.                              *)
IncDec ==
  /\ stack # <<>> /\ stack[1].op \in Objects
  /\ Operator("IncDec", 1)

ENext ==
  \/ \E t \in kit.operands : Operand(t)
  \/ \E op \in kit.unary : Operator(op, 1)
  \/ \E op \in kit.binary : Operator(op, 2)
  \/ "Choose" \in kit.more /\ Operator("Choose", 3)
  \/ "IncDec" \in kit.more /\ IncDec

ESpec == EInit /\ [][ENext]_expressionVars

------------------------------------------------------------------------------
Whole == Len(stack) = 1

(* The value the folder finds, and the compiler takes for granted (in Switch    *)
(* cases, static assertions, array lengths, loops known to run), is the value   *)
(* of the C text, and it finds one wherever C has one without reading an object   *)
(* or converting (integerConstantValue, checkedAddLong, checkedSubLong,          *)
(* checkedMulLong).                                                            *)
FoldIsC ==
  Whole /\ ~ stack[1].narrow =>
    /\ stack[1].folded \subseteq stack[1].raw
    /\ stack[1].folded = stack[1].raw \/ stack[1].converts

(* E0034 is reported only for expressions with unsequenced accesses, or with     *)
(* two objects taken for one; and for all expressions with unsequenced accesses  *)
(* outside the overlooked forms, as long as they are not joined by an and or or   *)
(* of the runtime: reporting at the innermost operator loses none                *)
(* (expressionEffects, findUnsequencedConflict, inferExpr).                     *)
SequencingFound ==
  Whole =>
    /\ stack[1].reported => stack[1].unsequenced \/ TakenForOne(stack[1].accesses)
    /\ stack[1].unsequenced => stack[1].reported \/ stack[1].overlooked
    /\ stack[1].unsequencedBoxed =>
         stack[1].reported \/ stack[1].overlooked \/ stack[1].op \in {"And", "Or"}
==============================================================================
