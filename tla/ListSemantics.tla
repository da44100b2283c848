---------------------------- MODULE ListSemantics ----------------------------
(* What docs/grammar.md and docs/runtime.md promise of PlainSpeak lists, with *)
(* no heap: a variable denotes a sequence, variables set from one another     *)
(* share it, positions count from one, a bad position ends the program, and   *)
(* For each walks the sequence the list had when the loop began.              *)
EXTENDS Naturals, Sequences

CONSTANTS
  Vars,       (* list variables                                               *)
  Values,     (* what a list may hold                                         *)
  Literals,   (* the sequences a list expression may spell out                *)
  Positions,  (* the positions a program may ask for, good and bad            *)
  Nothing

VARIABLES
  value,   (* the sequence each variable denotes, or Nothing                 *)
  shared,  (* pairs of variables that denote one list                        *)
  loops,   (* what each running For each has left to visit, innermost last   *)
  got,     (* the item read last                                              *)
  status   (* "running" or "died"                                             *)

vars == <<value, shared, loops, got, status>>

Defined(x) == value[x] # Nothing

Init ==
  /\ value = [x \in Vars |-> Nothing]
  /\ shared = {}
  /\ loops = <<>>
  /\ got = Nothing
  /\ status = "running"

(* x leaves whatever list it shared and joins the sharers S.                  *)
Rejoin(x, S) ==
  shared' = {p \in shared : p[1] # x /\ p[2] # x}
              \cup {<<x, y>> : y \in S \cup {x}} \cup {<<y, x>> : y \in S}

SetToItems(x, items) ==
  /\ value' = [value EXCEPT ![x] = items]
  /\ Rejoin(x, {})
  /\ UNCHANGED <<loops, got, status>>

SetToList(x, y) ==
  /\ Defined(y)
  /\ IF x = y THEN UNCHANGED <<value, shared>>
     ELSE /\ value' = [value EXCEPT ![x] = value[y]]
          /\ Rejoin(x, {z \in Vars : z # x /\ <<y, z>> \in shared})
  /\ UNCHANGED <<loops, got, status>>

(* Every sharer of x sees the new contents.                                   *)
Update(x, items) ==
  /\ value' = [y \in Vars |-> IF <<x, y>> \in shared THEN items ELSE value[y]]
  /\ UNCHANGED <<shared, loops, got, status>>

AppendItem(x, v)     == Defined(x) /\ Update(x, Append(value[x], v))
Position(x, i)       == Defined(x) /\ i \in DOMAIN value[x]
ReplaceItem(x, i, v) == Position(x, i) /\ Update(x, [value[x] EXCEPT ![i] = v])
RemoveItem(x, i) ==
  /\ Position(x, i)
  /\ Update(x, SubSeq(value[x], 1, i - 1) \o SubSeq(value[x], i + 1, Len(value[x])))

Item(x, i) ==
  /\ Position(x, i)
  /\ got' = value[x][i]
  /\ UNCHANGED <<value, shared, loops, status>>

Enter(x) ==
  /\ Defined(x)
  /\ loops' = Append(loops, value[x])
  /\ UNCHANGED <<value, shared, got, status>>

Inner == loops[Len(loops)]

Visit ==
  /\ loops # <<>> /\ Inner # <<>>
  /\ got' = Head(Inner)
  /\ loops' = [loops EXCEPT ![Len(loops)] = Tail(Inner)]
  /\ UNCHANGED <<value, shared, status>>

(* The loop is over, or a Break leaves it.                                    *)
Leave ==
  /\ loops # <<>>
  /\ loops' = SubSeq(loops, 1, Len(loops) - 1)
  /\ UNCHANGED <<value, shared, got, status>>

Die == status' = "died" /\ UNCHANGED <<value, shared, loops, got>>

Next ==
  /\ status = "running"
  /\ \/ \E x \in Vars :
          \/ \E items \in Literals : SetToItems(x, items)
          \/ \E y \in Vars : SetToList(x, y)
          \/ \E v \in Values : AppendItem(x, v)
          \/ \E i \in Positions : \/ RemoveItem(x, i) \/ Item(x, i)
                            \/ \E v \in Values : ReplaceItem(x, i, v)
          \/ Enter(x)
     \/ Visit \/ Leave \/ Die

Spec == Init /\ [][Next]_vars
==============================================================================
