----------------------------- MODULE RuntimeLists -----------------------------
(* The boxed lists of plainspeak_runtime.c: heap objects with a length, a     *)
(* capacity and a malloc'd array, the references generated C variables hold,  *)
(* and the For each loops c_emitter.cpp prints over a copy of the list.       *)
EXTENDS Integers, Sequences

CONSTANTS
  Vars,         (* list variables of the program                             *)
  Numbers, Strings, (* the scalars a list may hold                           *)
  ListType,     (* the static item type sema gave each variable              *)
  Garbage,      (* what an array cell holds before it is written             *)
  Nothing,      (* no item read yet, no list set yet                         *)
  MinCapacity,  (* the smallest array malloc'd: 4 in the source              *)
  Laundered,    (* TRUE: an argument may pass through a legacy Procedure     *)
  MaxLiteral,   (* bound: items of a list literal                            *)
  MaxHeap,      (* bound: list objects ever allocated                        *)
  MaxLen,       (* bound: list length                                        *)
  MaxNest       (* bound: nested For each loops                              *)

Values == Numbers \cup Strings
Cells  == Values \cup {Garbage}
Types  == {"number", "string"}
Ref    == Nat
Null   == 0

ASSUME RuntimeListsAssumption ==
  /\ Numbers \cap Strings = {}
  /\ Garbage \notin Values /\ Nothing \notin Cells /\ Nothing \notin Seq(Cells)
  /\ ListType \in [Vars -> Types]
  /\ MinCapacity \in Nat \ {0}
  /\ Laundered \in BOOLEAN
  /\ MaxLiteral \in 0 .. MaxLen /\ MaxHeap \in Nat /\ MaxLen \in Nat /\ MaxNest \in Nat

VARIABLES
  heap,   (* the list objects, in order of allocation; none is ever freed    *)
  var,    (* the object each variable refers to, or Null                     *)
  loops,  (* running For each loops: [list, n, i, type], innermost last      *)
  got,    (* the item ps_list_get returned last                              *)
  status  (* "running", or "died" after exit(1)                              *)

vars == <<heap, var, loops, got, status>>

------------------------------------------------------------------------------
(* PsList objects.                                                            *)

(* An array is as long as its capacity says, and doubling keeps it within     *)
(* twice the longest list.                                                    *)
Capacities == MinCapacity .. MinCapacity + 2 * MaxLen
Objects == UNION {[items : [0 .. c - 1 -> Cells], length : {n \in 0 .. MaxLen : n <= c},
                   capacity : {c}] : c \in Capacities}

(* The items of a list, without the spare room behind them.                   *)
Contents(o) == [i \in 1 .. o.length |-> o.items[i - 1]]

(* ps_list_from: room for at least MinCapacity items, the given ones copied.  *)
ListFrom(s) ==
  LET capacity == IF Len(s) > MinCapacity THEN Len(s) ELSE MinCapacity
  IN  [items    |-> [k \in 0 .. capacity - 1 |-> IF k < Len(s) THEN s[k + 1] ELSE Garbage],
       length   |-> Len(s),
       capacity |-> capacity]

(* ps_list_copy.                                                              *)
CopyOf(o) == ListFrom(Contents(o))

(* A full list is given twice the capacity.                                   *)
WiderLate(o) ==   (* mutant: room is made one item late *)
  IF o.length <= o.capacity THEN o.capacity ELSE o.capacity * 2
Wider(o) ==
  IF o.length < o.capacity THEN o.capacity
  ELSE IF o.capacity = 0 THEN MinCapacity ELSE o.capacity * 2

(* realloc: the cells there were keep their contents.                         *)
Realloc(o, capacity) ==
  [k \in 0 .. capacity - 1 |-> IF k < o.capacity THEN o.items[k] ELSE Garbage]

(* ps_list_append, ps_list_set, ps_list_remove.                               *)
AppendedPastEnd(o, v) ==   (* mutant: the length is bumped before the store *)
  [items    |-> [Realloc(o, Wider(o)) EXCEPT ![o.length + 1] = v],
   length   |-> o.length + 1,
   capacity |-> Wider(o)]
Appended(o, v) ==
  [items    |-> [Realloc(o, Wider(o)) EXCEPT ![o.length] = v],
   length   |-> o.length + 1,
   capacity |-> Wider(o)]

Stored(o, k, v) ==
  [items |-> [o.items EXCEPT ![k] = v], length |-> o.length, capacity |-> o.capacity]

RemovedShort(o, k) ==   (* mutant: the last item of the tail is not moved *)
  [items    |-> [j \in 0 .. o.capacity - 1 |->
                   IF k <= j /\ j < o.length - 2 THEN o.items[j + 1] ELSE o.items[j]],
   length   |-> o.length - 1,
   capacity |-> o.capacity]
Removed(o, k) ==
  [items    |-> [j \in 0 .. o.capacity - 1 |->
                   IF k <= j /\ j < o.length - 1 THEN o.items[j + 1] ELSE o.items[j]],
   length   |-> o.length - 1,
   capacity |-> o.capacity]

(* list_index: a one-based position inside the list.                          *)
InRange(o, i) == 1 <= i /\ i <= o.length
Cell(i) == i - 1

------------------------------------------------------------------------------
(* Static types.  A legacy Procedure's parameters and result are typed        *)
(* number whatever they carry, so an item passed through one is any value.    *)

TypeOf(v)  == IF v \in Numbers THEN "number" ELSE "string"
Items(type) ==
  {v \in Values : TypeOf(v) = type \/ (Laundered /\ type = "number")}

Running == status = "running"
Has(x)  == Running /\ var[x] # Null
Obj(x)  == heap[var[x]]

Init ==
  /\ heap = <<>>
  /\ var = [x \in Vars |-> Null]
  /\ loops = <<>>
  /\ got = Nothing
  /\ status = "running"

(* `Set x to [items]': ps_list_from, or ps_list_from(NULL, 0).                *)
SetToItems(x, s) ==
  /\ Running /\ Len(heap) < MaxHeap
  /\ \A k \in 1 .. Len(s) : s[k] \in Items(ListType[x])
  /\ heap' = Append(heap, ListFrom(s))
  /\ var' = [var EXCEPT ![x] = Len(heap) + 1]
  /\ UNCHANGED <<loops, got, status>>

(* `Set x to y': the PsValue, and with it the pointer, is copied.             *)
SetToList(x, y) ==
  /\ Has(y) /\ ListType[x] = ListType[y]
  /\ var' = [var EXCEPT ![x] = var[y]]
  /\ UNCHANGED <<heap, loops, got, status>>

Mutate(x, o) ==
  /\ heap' = [heap EXCEPT ![var[x]] = o]
  /\ UNCHANGED <<var, loops, got, status>>

AppendUntyped(x, v) ==   (* mutant: Append takes any item *)
  Has(x) /\ Obj(x).length < MaxLen /\ Mutate(x, Appended(Obj(x), v))

AppendItem(x, v) ==
  /\ Has(x) /\ Obj(x).length < MaxLen
  /\ v \in Items(ListType[x])
  /\ Mutate(x, Appended(Obj(x), v))

ReplaceItem(x, i, v) ==
  /\ Has(x) /\ InRange(Obj(x), i)
  /\ v \in Items(ListType[x])
  /\ Mutate(x, Stored(Obj(x), Cell(i), v))

RemoveItem(x, i) ==
  /\ Has(x) /\ InRange(Obj(x), i)
  /\ Mutate(x, Removed(Obj(x), Cell(i)))

Item(x, i) ==
  /\ Has(x) /\ InRange(Obj(x), i)
  /\ got' = Obj(x).items[Cell(i)]
  /\ UNCHANGED <<heap, var, loops, status>>

(* A position outside 1..length, or a failed malloc or realloc, ends the      *)
(* process before anything is written.                                        *)
OutOfRange(x, i) ==
  /\ Has(x) /\ ~InRange(Obj(x), i)
  /\ status' = "died"
  /\ UNCHANGED <<heap, var, loops, got>>

(* as_list: a variable that was never Set is zero, not a list.                *)
NotAList(x) ==
  /\ Running /\ var[x] = Null
  /\ status' = "died"
  /\ UNCHANGED <<heap, var, loops, got>>

OutOfMemory ==
  /\ Running
  /\ status' = "died"
  /\ UNCHANGED <<heap, var, loops, got>>

------------------------------------------------------------------------------
(* For each: the loop runs over ps_list_copy of the list, up to the length    *)
(* the copy had at the start.                                                 *)

(* Mutant: the loop walks the list itself.                                    *)
BeginForEachInPlace(x) ==
  /\ Has(x) /\ Len(loops) < MaxNest
  /\ loops' = Append(loops, [list |-> var[x], n |-> Obj(x).length, i |-> 1,
                             type |-> ListType[x]])
  /\ UNCHANGED <<heap, var, got, status>>

BeginForEach(x) ==
  /\ Has(x) /\ Len(heap) < MaxHeap /\ Len(loops) < MaxNest
  /\ heap' = Append(heap, CopyOf(Obj(x)))
  /\ loops' = Append(loops, [list |-> Len(heap) + 1, n |-> Obj(x).length, i |-> 1,
                             type |-> ListType[x]])
  /\ UNCHANGED <<var, got, status>>

Loop == loops[Len(loops)]

(* ps_list_get checks the position here like anywhere else.                   *)
NextItem ==
  /\ Running /\ loops # <<>> /\ Loop.i <= Loop.n
  /\ IF InRange(heap[Loop.list], Loop.i)
       THEN /\ got' = heap[Loop.list].items[Cell(Loop.i)]
            /\ loops' = [loops EXCEPT ![Len(loops)].i = Loop.i + 1]
            /\ UNCHANGED status
       ELSE status' = "died" /\ UNCHANGED <<got, loops>>
  /\ UNCHANGED <<heap, var>>

(* The counter has passed n, or the body breaks out.                          *)
EndForEach ==
  /\ Running /\ loops # <<>>
  /\ loops' = SubSeq(loops, 1, Len(loops) - 1)
  /\ UNCHANGED <<heap, var, got, status>>

Literals  == UNION {[1 .. n -> Values] : n \in 0 .. MaxLiteral}
Positions == 0 .. MaxLen + 1

Next ==
  \/ \E x \in Vars :
       \/ \E s \in Literals : SetToItems(x, s)
       \/ \E y \in Vars : SetToList(x, y)
       \/ \E v \in Values : AppendItem(x, v)
       \/ \E i \in Positions :
            \/ RemoveItem(x, i) \/ Item(x, i) \/ OutOfRange(x, i)
            \/ \E v \in Values : ReplaceItem(x, i, v)
       \/ NotAList(x) \/ BeginForEach(x)
  \/ NextItem \/ EndForEach \/ OutOfMemory

Spec == Init /\ [][Next]_vars

------------------------------------------------------------------------------
(* Properties.                                                                *)

Loops == [list : Ref, n : Nat, i : Nat, type : Types]

(* Type correctness: references point into the heap, an array has exactly     *)
(* `capacity' cells and no list is longer than its array.                     *)
TypeOK ==
  /\ heap \in Seq(Objects)
  /\ var \in [Vars -> 0 .. Len(heap)]
  /\ loops \in Seq(Loops)
  /\ \A j \in 1 .. Len(loops) : loops[j].list \in 1 .. Len(heap)
  /\ got \in Cells \cup {Nothing}
  /\ status \in {"running", "died"}

(* No list ever shows a cell of its array that was not written: every cell    *)
(* below the length holds an item, across growth, removal and copying.        *)
Initialised ==
  /\ got # Garbage
  /\ \A k \in 1 .. Len(heap) : \A i \in 0 .. heap[k].length - 1 :
       heap[k].items[i] # Garbage

(* A For each loop walks a list nobody else can touch: no variable refers to  *)
(* it, no other loop walks it, it keeps the length it had and the counter     *)
(* stays inside it, so ps_list_get never ends the program there.              *)
SnapshotPrivate ==
  \A j \in 1 .. Len(loops) :
    /\ \A x \in Vars : var[x] # loops[j].list
    /\ \A k \in 1 .. Len(loops) : k # j => loops[k].list # loops[j].list
    /\ heap[loops[j].list].length = loops[j].n
    /\ loops[j].i \in 1 .. loops[j].n + 1

(* What sema's type of a list variable promises: the list it refers to, and   *)
(* the list a loop walks, hold items of the static type only, however         *)
(* variables of one type came to share it.                                    *)
OfType(o, type) == \A i \in 0 .. o.length - 1 : TypeOf(o.items[i]) = type
WellTyped ==
  /\ \A x \in Vars : var[x] # Null => OfType(Obj(x), ListType[x])
  /\ \A j \in 1 .. Len(loops) : OfType(heap[loops[j].list], loops[j].type)

(* docs/runtime.md: "Semantic analysis enforces homogeneous element types".   *)
Homogeneous ==
  \A k \in 1 .. Len(heap) : \E type \in Types : OfType(heap[k], type)

(* What a loop has left to visit.                                             *)
Rest(l) == [k \in 1 .. l.n - l.i + 1 |-> heap[l.list].items[Cell(l.i + k - 1)]]

(* What the heap stands for: the sequence each variable denotes, who shares   *)
(* one, and what each loop has left.                                          *)
Denoted == [x \in Vars |-> IF var[x] = Null THEN Nothing ELSE Contents(Obj(x))]
Sharing == {p \in Vars \X Vars : var[p[1]] # Null /\ var[p[1]] = var[p[2]]}
Left    == [j \in 1 .. Len(loops) |-> Rest(loops[j])]

(* The documented lists: the heap, its arrays and its copies implement        *)
(* sequences that variables share and loops visit as they were at the start.  *)
Abstract == INSTANCE ListSemantics WITH
  value <- Denoted, shared <- Sharing, loops <- Left

Implements == Abstract!Spec

(* Position by position: the statement about item i of x does to the          *)
(* documented sequence what that statement says, not merely what some         *)
(* statement about some position could have done.                             *)
ItemByItem ==
  [][\A x \in Vars : \A i \in Positions :
       /\ Item(x, i) => Abstract!Item(x, i)
       /\ RemoveItem(x, i) => Abstract!RemoveItem(x, i)
       /\ \A v \in Values : ReplaceItem(x, i, v) => Abstract!ReplaceItem(x, i, v)]_vars
===============================================================================
