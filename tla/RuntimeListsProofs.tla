-------------------------- MODULE RuntimeListsProofs --------------------------
(* Proofs that the lists of RuntimeLists stay well formed for any number of   *)
(* variables, items and running loops, and for any capacity the arrays start  *)
(* with: type correctness, no unwritten cell below a length, no loop walking  *)
(* a list somebody else can change, no item of a foreign type; and that the   *)
(* heap implements ListSemantics: every step of the runtime does to the       *)
(* denoted sequences what the documented statement does.                      *)
EXTENDS RuntimeLists, SequenceTheorems, TLAPS

USE RuntimeListsAssumption

------------------------------------------------------------------------------
(* List objects.                                                              *)

(* The fields of a list object.                                               *)
LEMMA ObjectFields ==
  ASSUME NEW o \in Objects
  PROVE  /\ o.capacity \in Capacities /\ o.capacity \in Nat
         /\ o.items \in [0 .. o.capacity - 1 -> Cells]
         /\ o.length \in 0 .. MaxLen /\ o.length \in Nat /\ o.length <= o.capacity
BY DEF Objects, Capacities

(* An object is made of an array and a length that fits it.                   *)
LEMMA ObjectMade ==
  ASSUME NEW c \in Capacities, NEW items \in [0 .. c - 1 -> Cells],
         NEW n \in 0 .. MaxLen, n <= c
  PROVE  [items |-> items, length |-> n, capacity |-> c] \in Objects
BY DEF Objects

(* The contents of a list are a sequence of its length.                       *)
LEMMA ContentsSeq ==
  ASSUME NEW o \in Objects
  PROVE  /\ Contents(o) \in Seq(Cells) /\ Len(Contents(o)) = o.length
         /\ \A i \in 0 .. o.length - 1 : Contents(o)[i + 1] = o.items[i]
<1>1. \A i \in 1 .. o.length : i - 1 \in 0 .. o.capacity - 1
  BY ObjectFields
<1>2. Contents(o) \in [1 .. o.length -> Cells]
  BY <1>1, ObjectFields DEF Contents
<1>3. o.length \in Nat
  BY ObjectFields
<1>4. Contents(o) \in Seq(Cells) /\ Len(Contents(o)) = o.length
  BY <1>2, <1>3, SeqDef, LenProperties
<1>5. \A i \in 0 .. o.length - 1 : Contents(o)[i + 1] = o.items[i]
  BY <1>3 DEF Contents
<1>6. QED
  BY <1>4, <1>5

(* What ps_list_from makes of a sequence of items.                            *)
LEMMA ListFromObject ==
  ASSUME NEW s \in Seq(Cells), Len(s) <= MaxLen
  PROVE  /\ ListFrom(s) \in Objects /\ ListFrom(s).length = Len(s)
         /\ \A i \in 0 .. Len(s) - 1 : ListFrom(s).items[i] = s[i + 1]
<1> DEFINE c == IF Len(s) > MinCapacity THEN Len(s) ELSE MinCapacity
           items == [k \in 0 .. c - 1 |-> IF k < Len(s) THEN s[k + 1] ELSE Garbage]
<1>1. Len(s) \in Nat /\ c \in Capacities /\ Len(s) <= c
  BY DEF Capacities
<1>2. items \in [0 .. c - 1 -> Cells]
  <2>1. \A k \in 0 .. c - 1 : k < Len(s) => s[k + 1] \in Cells
    <3>1. \A k \in 0 .. c - 1 : k < Len(s) => k + 1 \in 1 .. Len(s)
      BY <1>1 DEF Capacities
    <3>2. QED
      BY <3>1, ElementOfSeq
  <2>2. QED
    BY <2>1 DEF Cells
<1>3. ListFrom(s) = [items |-> items, length |-> Len(s), capacity |-> c]
  BY DEF ListFrom
<1>4. ListFrom(s) \in Objects
  <2> HIDE DEF c, items
  <2>1. QED
    BY <1>1, <1>2, <1>3, ObjectMade
<1>5. \A i \in 0 .. Len(s) - 1 : items[i] = s[i + 1]
  BY <1>1
<1>6. QED
  <2> HIDE DEF c, items
  <2>1. QED
    BY <1>3, <1>4, <1>5

(* ps_list_copy copies the items and nothing but the items.                   *)
LEMMA CopyObject ==
  ASSUME NEW o \in Objects
  PROVE  /\ CopyOf(o) \in Objects /\ CopyOf(o).length = o.length
         /\ \A i \in 0 .. o.length - 1 : CopyOf(o).items[i] = o.items[i]
<1>1. o.length <= MaxLen /\ o.length \in Nat
  BY ObjectFields
<1>2. QED
  BY <1>1, ContentsSeq, ListFromObject DEF CopyOf

(* ps_list_append keeps what the list held and adds one item at its end.      *)
LEMMA AppendedObject ==
  ASSUME NEW o \in Objects, NEW v \in Values, o.length < MaxLen
  PROVE  /\ Appended(o, v) \in Objects /\ Appended(o, v).length = o.length + 1
         /\ Appended(o, v).items[o.length] = v
         /\ \A i \in 0 .. o.length - 1 : Appended(o, v).items[i] = o.items[i]
<1> DEFINE n == o.length
           c == Wider(o)
           room == Realloc(o, c)
<1>1. /\ n \in 0 .. MaxLen /\ n <= o.capacity /\ n < MaxLen /\ o.capacity \in Capacities
      /\ o.capacity \in Nat /\ o.capacity # 0 /\ n \in Nat
      /\ o.items \in [0 .. o.capacity - 1 -> Cells]
  <2>1. o.capacity # 0 /\ o.capacity \in Nat
    BY ObjectFields DEF Capacities
  <2>2. QED
    BY <2>1, ObjectFields
<1>2. c \in Capacities /\ n + 1 <= c /\ n + 1 \in 0 .. MaxLen /\ n \in 0 .. c - 1
      /\ c \in Nat
  <2>1. CASE n < o.capacity
    <3>1. c = o.capacity
      BY <2>1 DEF Wider
    <3> HIDE DEF n, c, room
    <3>2. QED
      BY <1>1, <2>1, <3>1
  <2>2. CASE n = o.capacity
    <3>1. c = o.capacity * 2
      BY <1>1, <2>2 DEF Wider
    <3> HIDE DEF n, c, room
    <3>2. QED
      BY <1>1, <2>2, <3>1 DEF Capacities
  <2>3. QED
    BY <1>1, <2>1, <2>2
<1> HIDE DEF c
<1>3. room \in [0 .. c - 1 -> Cells] /\ v \in Cells
  <2>1. \A k \in 0 .. c - 1 : k < o.capacity => k \in 0 .. o.capacity - 1
    BY <1>1, <1>2
  <2>2. QED
    BY <1>1, <2>1 DEF Cells, Realloc
<1>4. \A i \in 0 .. n - 1 : room[i] = o.items[i] /\ i \in 0 .. c - 1 /\ i # n
  <2>1. \A i \in 0 .. n - 1 : i \in 0 .. c - 1 /\ i < o.capacity /\ i # n
    BY <1>1, <1>2
  <2>2. QED
    BY <2>1 DEF Realloc
<1> HIDE DEF room
<1>5. [room EXCEPT ![n] = v] \in [0 .. c - 1 -> Cells]
  BY <1>2, <1>3
<1>6. [room EXCEPT ![n] = v][n] = v
  BY <1>2, <1>3
<1>7. \A i \in 0 .. n - 1 : [room EXCEPT ![n] = v][i] = o.items[i]
  BY <1>3, <1>4
<1>8. Appended(o, v) = [items |-> [room EXCEPT ![n] = v], length |-> n + 1, capacity |-> c]
  BY DEF Appended, room, c
<1>9. Appended(o, v) \in Objects
  <2> DEFINE items == [room EXCEPT ![n] = v]
  <2> HIDE DEF items, n
  <2>1. [items |-> items, length |-> n + 1, capacity |-> c] \in Objects
    BY <1>2, <1>5, ObjectMade DEF items
  <2>2. QED
    BY <1>8, <2>1 DEF items
<1>10. QED
  BY <1>6, <1>7, <1>8, <1>9

(* ps_list_set changes one item.                                              *)
LEMMA StoredObject ==
  ASSUME NEW o \in Objects, NEW v \in Values, NEW k \in 0 .. o.length - 1
  PROVE  /\ Stored(o, k, v) \in Objects /\ Stored(o, k, v).length = o.length
         /\ \A i \in 0 .. o.length - 1 :
              Stored(o, k, v).items[i] = IF i = k THEN v ELSE o.items[i]
<1>2. Stored(o, k, v) =
        [items |-> [o.items EXCEPT ![k] = v], length |-> o.length, capacity |-> o.capacity]
  BY DEF Stored
<1>3. o.length \in 0 .. MaxLen /\ o.length <= o.capacity /\ o.capacity \in Capacities
      /\ o.capacity \in Nat /\ o.items \in [0 .. o.capacity - 1 -> Cells]
  BY ObjectFields
<1>4. [o.items EXCEPT ![k] = v] \in [0 .. o.capacity - 1 -> Cells]
  BY <1>3 DEF Cells
<1>5. \A i \in 0 .. o.length - 1 :
        [o.items EXCEPT ![k] = v][i] = IF i = k THEN v ELSE o.items[i]
  <2>1. \A i \in 0 .. o.length - 1 : i \in 0 .. o.capacity - 1
    BY <1>3
  <2>2. QED
    BY <2>1, <1>3
<1>6. Stored(o, k, v) \in Objects
  <2> DEFINE items == [o.items EXCEPT ![k] = v]
  <2> HIDE DEF items
  <2>1. items \in [0 .. o.capacity - 1 -> Cells] /\ o.length \in 0 .. MaxLen
    BY <1>3, <1>4 DEF items
  <2>2. [items |-> items, length |-> o.length, capacity |-> o.capacity] \in Objects
    BY <1>3, <2>1, ObjectMade
  <2>3. QED
    BY <1>2, <2>2 DEF items
<1>7. QED
  BY <1>2, <1>5, <1>6

(* ps_list_remove moves the tail down by one item.                            *)
LEMMA RemovedObject ==
  ASSUME NEW o \in Objects, NEW k \in 0 .. o.length - 1
  PROVE  /\ Removed(o, k) \in Objects /\ Removed(o, k).length = o.length - 1
         /\ \A i \in 0 .. o.length - 2 :
              Removed(o, k).items[i] = IF k <= i THEN o.items[i + 1] ELSE o.items[i]
<1> DEFINE moved == [j \in 0 .. o.capacity - 1 |->
                       IF k <= j /\ j < o.length - 1 THEN o.items[j + 1] ELSE o.items[j]]
<1>2. Removed(o, k) =
        [items |-> moved, length |-> o.length - 1, capacity |-> o.capacity]
  BY DEF Removed
<1>3. o.length \in 0 .. MaxLen /\ o.length <= o.capacity /\ o.capacity \in Capacities
      /\ o.capacity \in Nat /\ o.items \in [0 .. o.capacity - 1 -> Cells]
  BY ObjectFields
<1>4. moved \in [0 .. o.capacity - 1 -> Cells]
  <2>1. \A j \in 0 .. o.capacity - 1 : j < o.length - 1 => j + 1 \in 0 .. o.capacity - 1
    BY <1>3
  <2>2. QED
    BY <2>1, <1>3
<1>5. \A i \in 0 .. o.length - 2 :
        moved[i] = IF k <= i THEN o.items[i + 1] ELSE o.items[i]
  <2>1. \A i \in 0 .. o.length - 2 : i \in 0 .. o.capacity - 1 /\ i < o.length - 1
    BY <1>3
  <2>2. QED
    BY <2>1
<1>6. o.length - 1 \in 0 .. MaxLen /\ o.length - 1 <= o.capacity
  BY <1>3
<1>7. Removed(o, k) \in Objects
  <2> HIDE DEF moved
  <2>1. QED
    BY <1>2, <1>3, <1>4, <1>6, ObjectMade
<1>8. QED
  <2> HIDE DEF moved
  <2>1. QED
    BY <1>2, <1>3, <1>5, <1>7

------------------------------------------------------------------------------
(* Type correctness.                                                          *)

(* An item of any static type is a value.                                     *)
LEMMA ItemsAreValues ==
  ASSUME NEW type, NEW v \in Items(type)
  PROVE  v \in Values /\ v \in Cells /\ v # Garbage
BY DEF Items, Cells

(* The list a defined variable refers to is an object of the heap.            *)
LEMMA ObjType ==
  ASSUME TypeOK, NEW x \in Vars, var[x] # Null
  PROVE  var[x] \in 1 .. Len(heap) /\ Obj(x) \in Objects
<1>1. var[x] \in 1 .. Len(heap)
  BY DEF TypeOK, Null
<1>2. QED
  BY <1>1, ElementOfSeq DEF TypeOK, Obj

(* A new object leaves the old ones where they were.                          *)
LEMMA Allocated ==
  ASSUME heap \in Seq(Objects), NEW o \in Objects, heap' = Append(heap, o)
  PROVE  /\ heap' \in Seq(Objects) /\ Len(heap') = Len(heap) + 1 /\ Len(heap) \in Nat
         /\ heap'[Len(heap) + 1] = o
         /\ \A k \in 1 .. Len(heap) : heap'[k] = heap[k]
BY AppendProperties, LenProperties

(* A mutation replaces one object and keeps the others.                       *)
LEMMA Mutated ==
  ASSUME TypeOK, NEW x \in Vars, var[x] # Null, NEW o \in Objects, Mutate(x, o)
  PROVE  /\ heap' \in Seq(Objects) /\ Len(heap') = Len(heap)
         /\ heap'[var[x]] = o
         /\ \A k \in 1 .. Len(heap) : k # var[x] => heap'[k] = heap[k]
<1>1. var[x] \in 1 .. Len(heap) /\ heap \in Seq(Objects)
  BY ObjType DEF TypeOK
<1>2. heap' = [heap EXCEPT ![var[x]] = o]
  BY DEF Mutate
<1>3. QED
  BY <1>1, <1>2, ExceptSeq

(* The objects the mutating statements store are objects.                     *)
LEMMA Mutations ==
  ASSUME TypeOK, NEW x \in Vars, Has(x)
  PROVE  /\ Obj(x).length < MaxLen =>
              \A v \in Values : Appended(Obj(x), v) \in Objects
         /\ \A i \in Positions : InRange(Obj(x), i) =>
              /\ Cell(i) \in 0 .. Obj(x).length - 1
              /\ Removed(Obj(x), Cell(i)) \in Objects
              /\ \A v \in Values : Stored(Obj(x), Cell(i), v) \in Objects
<1>1. Obj(x) \in Objects
  BY ObjType DEF Has
<1>2. ASSUME NEW i \in Positions, InRange(Obj(x), i)
      PROVE  Cell(i) \in 0 .. Obj(x).length - 1
  BY <1>1, <1>2, ObjectFields DEF InRange, Cell, Positions
<1>3. QED
  BY <1>1, <1>2, AppendedObject, StoredObject, RemovedObject

(* What an item access reads is a cell.                                       *)
LEMMA ReadCell ==
  ASSUME NEW o \in Objects, NEW i \in Int, InRange(o, i)
  PROVE  o.items[Cell(i)] \in Cells /\ Cell(i) \in 0 .. o.length - 1
<1>1. Cell(i) \in 0 .. o.length - 1 /\ Cell(i) \in 0 .. o.capacity - 1
  BY ObjectFields DEF InRange, Cell
<1>2. QED
  BY <1>1, ObjectFields

(* The innermost loop is a loop over an object of the heap.                   *)
LEMMA LoopType ==
  ASSUME TypeOK, loops # <<>>
  PROVE  /\ Len(loops) \in Nat \ {0} /\ Len(loops) \in 1 .. Len(loops)
         /\ Loop \in Loops /\ Loop.list \in 1 .. Len(heap)
         /\ heap[Loop.list] \in Objects
<1>1. Len(loops) \in Nat \ {0} /\ Len(loops) \in 1 .. Len(loops)
  BY EmptySeq, LenProperties DEF TypeOK
<1>2. Loop \in Loops /\ Loop.list \in 1 .. Len(heap)
  BY <1>1, ElementOfSeq DEF TypeOK, Loop
<1>3. QED
  BY <1>1, <1>2, ElementOfSeq DEF TypeOK

(* A sequence without its last element.                                       *)
LEMMA AllButLast ==
  ASSUME NEW S, NEW q \in Seq(S), Len(q) \in Nat \ {0}
  PROVE  /\ SubSeq(q, 1, Len(q) - 1) \in Seq(S)
         /\ Len(SubSeq(q, 1, Len(q) - 1)) = Len(q) - 1
         /\ \A j \in 1 .. Len(q) - 1 : SubSeq(q, 1, Len(q) - 1)[j] = q[j]
<1> DEFINE n == Len(q) - 1
<1>1. n \in Int /\ 1 \in Int /\ \A j \in 1 .. n : q[j] \in S
  BY ElementOfSeq
<1>0. n \in Nat
  OBVIOUS
<1> HIDE DEF n
<1>2. /\ SubSeq(q, 1, n) \in Seq(S)
      /\ Len(SubSeq(q, 1, n)) = IF 1 <= n THEN n - 1 + 1 ELSE 0
      /\ \A j \in 1 .. n - 1 + 1 : SubSeq(q, 1, n)[j] = q[1 + j - 1]
  BY <1>1, SubSeqProperties
<1>3. \A j \in 1 .. n : SubSeq(q, 1, n)[j] = q[j]
  <2>1. \A j \in 1 .. n : j \in 1 .. n - 1 + 1 /\ 1 + j - 1 = j
    BY <1>1
  <2>2. QED
    BY <1>2, <2>1
<1>4. Len(SubSeq(q, 1, n)) = n
  BY <1>0, <1>2
<1>5. QED
  BY <1>2, <1>3, <1>4 DEF n

(* Typing: every step keeps the state well typed.                             *)
LEMMA TypeStep ==
  ASSUME TypeOK, [Next]_vars
  PROVE  TypeOK'
<1>0. heap \in Seq(Objects) /\ Len(heap) \in Nat /\ var \in [Vars -> 0 .. Len(heap)]
      /\ loops \in Seq(Loops) /\ got \in Cells \cup {Nothing}
      /\ status \in {"running", "died"}
      /\ \A j \in 1 .. Len(loops) : loops[j].list \in 1 .. Len(heap)
  BY LenProperties DEF TypeOK
<1>1. ASSUME NEW x \in Vars, NEW s \in Literals, SetToItems(x, s) PROVE TypeOK'
  <2>1. s \in Seq(Cells) /\ Len(s) <= MaxLen
    BY SeqDef, LenProperties DEF Literals, Cells
  <2>2. /\ heap' \in Seq(Objects) /\ Len(heap') = Len(heap) + 1
    BY <1>0, <1>1, <2>1, ListFromObject, Allocated DEF SetToItems
  <2>3. var' \in [Vars -> 0 .. Len(heap')]
    BY <1>0, <1>1, <2>2 DEF SetToItems
  <2>4. loops' = loops /\ got' = got /\ status' = status
    BY <1>1 DEF SetToItems
  <2>5. QED
    BY <1>0, <2>2, <2>3, <2>4 DEF TypeOK
<1>2. ASSUME NEW x \in Vars, NEW y \in Vars, SetToList(x, y) PROVE TypeOK'
  BY <1>0, <1>2 DEF SetToList, TypeOK
<1>3. ASSUME NEW x \in Vars, NEW o \in Objects, Has(x), Mutate(x, o) PROVE TypeOK'
  <2>1. heap' \in Seq(Objects) /\ Len(heap') = Len(heap)
    BY <1>3, Mutated DEF Has
  <2>2. var' = var /\ loops' = loops /\ got' = got /\ status' = status
    BY <1>3 DEF Mutate
  <2>3. QED
    BY <1>0, <2>1, <2>2 DEF TypeOK
<1>4. ASSUME NEW x \in Vars, NEW v \in Values, AppendItem(x, v) PROVE TypeOK'
  BY <1>3, <1>4, Mutations DEF AppendItem
<1>5. ASSUME NEW x \in Vars, NEW i \in Positions, NEW v \in Values, ReplaceItem(x, i, v)
      PROVE TypeOK'
  BY <1>3, <1>5, Mutations DEF ReplaceItem
<1>6. ASSUME NEW x \in Vars, NEW i \in Positions, RemoveItem(x, i) PROVE TypeOK'
  BY <1>3, <1>6, Mutations DEF RemoveItem
<1>7. ASSUME NEW x \in Vars, NEW i \in Positions, Item(x, i) PROVE TypeOK'
  <2>1. got' \in Cells
    BY <1>7, ObjType, ReadCell DEF Item, Has, Positions
  <2>2. QED
    BY <1>0, <1>7, <2>1 DEF Item, TypeOK
<1>8. ASSUME status' = "died", UNCHANGED <<heap, var, loops, got>> PROVE TypeOK'
  BY <1>0, <1>8 DEF TypeOK
<1>9. ASSUME NEW x \in Vars, BeginForEach(x) PROVE TypeOK'
  <2>1. Obj(x) \in Objects /\ ListType[x] \in Types
    BY <1>9, ObjType DEF BeginForEach, Has
  <2>2. heap' \in Seq(Objects) /\ Len(heap') = Len(heap) + 1
    BY <1>0, <1>9, <2>1, CopyObject, Allocated DEF BeginForEach
  <2> DEFINE l == [list |-> Len(heap) + 1, n |-> Obj(x).length, i |-> 1, type |-> ListType[x]]
  <2>3. l \in Loops
    BY <1>0, <2>1, ObjectFields DEF Loops, Ref
  <2>4. l.list \in 1 .. Len(heap')
    BY <1>0, <2>2
  <2>5. loops' = Append(loops, l)
    BY <1>9 DEF BeginForEach
  <2> HIDE DEF l
  <2>6. loops' \in Seq(Loops) /\ Len(loops') = Len(loops) + 1 /\ loops'[Len(loops) + 1] = l
        /\ \A j \in 1 .. Len(loops) : loops'[j] = loops[j]
    BY <1>0, <2>3, <2>5, AppendProperties
  <2>7. \A j \in 1 .. Len(loops') : loops'[j].list \in 1 .. Len(heap')
    <3>1. ASSUME NEW j \in 1 .. Len(loops') PROVE loops'[j].list \in 1 .. Len(heap')
      <4>1. Len(loops) \in Nat
        BY <1>0, LenProperties
      <4>2. CASE j = Len(loops) + 1
        BY <4>2, <2>4, <2>6
      <4>3. CASE j \in 1 .. Len(loops)
        <5>1. loops'[j] = loops[j] /\ loops[j].list \in 1 .. Len(heap)
          BY <1>0, <2>6, <4>3
        <5>2. QED
          BY <1>0, <2>2, <5>1
      <4>4. QED
        BY <2>6, <4>1, <4>2, <4>3
    <3>2. QED
      BY <3>1
  <2>8. var' \in [Vars -> 0 .. Len(heap')] /\ got' = got /\ status' = status
    BY <1>0, <1>9, <2>2 DEF BeginForEach
  <2>9. QED
    BY <1>0, <2>2, <2>6, <2>7, <2>8 DEF TypeOK
<1>10. CASE NextItem
  <2>1. CASE InRange(heap[Loop.list], Loop.i)
    <3> DEFINE l == [Loop EXCEPT !.i = Loop.i + 1]
    <3>1. Loop \in Loops /\ heap[Loop.list] \in Objects /\ Len(loops) \in 1 .. Len(loops)
      BY <1>10, LoopType DEF NextItem
    <3>2. l \in Loops /\ l.list = Loop.list /\ Loop.i \in Int
      BY <3>1 DEF Loops
    <3>3. got' \in Cells
      BY <1>10, <2>1, <3>1, <3>2, ReadCell DEF NextItem
    <3>4. loops' = [loops EXCEPT ![Len(loops)] = l]
      BY <1>10, <2>1 DEF NextItem, Loop
    <3> HIDE DEF l
    <3>5. /\ loops' \in Seq(Loops) /\ Len(loops') = Len(loops)
          /\ loops'[Len(loops)] = l
          /\ \A j \in 1 .. Len(loops) : j # Len(loops) => loops'[j] = loops[j]
      BY <1>0, <3>1, <3>2, <3>4, ExceptSeq
    <3>6. \A j \in 1 .. Len(loops') : loops'[j].list \in 1 .. Len(heap)
      BY <1>0, <3>2, <3>5 DEF Loop
    <3>7. heap' = heap /\ var' = var /\ status' = status
      BY <1>10, <2>1 DEF NextItem
    <3>8. QED
      BY <1>0, <3>3, <3>5, <3>6, <3>7 DEF TypeOK
  <2>2. CASE ~InRange(heap[Loop.list], Loop.i)
    BY <1>8, <1>10, <2>2 DEF NextItem
  <2>3. QED
    BY <2>1, <2>2
<1>11. CASE EndForEach
  <2>1. Len(loops) \in Nat \ {0}
    BY <1>11, LoopType DEF EndForEach
  <2>2. /\ loops' \in Seq(Loops) /\ Len(loops') = Len(loops) - 1
        /\ \A j \in 1 .. Len(loops') : loops'[j] = loops[j]
    BY <1>0, <1>11, <2>1, AllButLast DEF EndForEach
  <2>3. \A j \in 1 .. Len(loops') : loops'[j].list \in 1 .. Len(heap)
    BY <1>0, <2>1, <2>2
  <2>4. QED
    BY <1>0, <1>11, <2>2, <2>3 DEF EndForEach, TypeOK
<1>12. CASE UNCHANGED vars
  BY <1>0, <1>12 DEF TypeOK, vars
<1>13. QED
  <2>1. ASSUME NEW x \in Vars, NEW i \in Positions, OutOfRange(x, i) PROVE TypeOK'
    BY <1>8, <2>1 DEF OutOfRange
  <2>2. ASSUME NEW x \in Vars, NotAList(x) PROVE TypeOK'
    BY <1>8, <2>2 DEF NotAList
  <2>3. CASE OutOfMemory
    BY <1>8, <2>3 DEF OutOfMemory
  <2>4. QED
    BY <1>1, <1>2, <1>4, <1>5, <1>6, <1>7, <1>9, <1>10, <1>11, <1>12, <2>1, <2>2, <2>3
    DEF Next

(* The state stays well typed: references point into the heap, a list is      *)
(* never longer than its array, an array never more than twice the longest    *)
(* list.                                                                      *)
THEOREM TypeCorrect == Spec => []TypeOK
<1>1. Init => TypeOK
  <2>1. <<>> \in Seq(Objects) /\ <<>> \in Seq(Loops) /\ Len(<<>>) = 0
    BY EmptySeq
  <2>2. QED
    BY <2>1 DEF Init, TypeOK, Null
<1>2. TypeOK /\ [Next]_vars => TypeOK'
  BY TypeStep
<1>3. QED
  BY <1>1, <1>2, PTL DEF Spec

------------------------------------------------------------------------------
(* No unwritten cell below a length.                                          *)

Clean(o) == \A i \in 0 .. o.length - 1 : o.items[i] # Garbage

(* Every operation that makes or changes a list keeps it clean.               *)
LEMMA CleanOperations ==
  ASSUME NEW o \in Objects, Clean(o)
  PROVE  /\ Clean(CopyOf(o))
         /\ o.length < MaxLen => \A v \in Values : Clean(Appended(o, v))
         /\ \A k \in 0 .. o.length - 1 :
              Clean(Removed(o, k)) /\ \A v \in Values : Clean(Stored(o, k, v))
<1>1. o.length \in Nat /\ Garbage \notin Values
  BY ObjectFields
<1>2. Clean(CopyOf(o))
  BY CopyObject DEF Clean
<1>3. ASSUME o.length < MaxLen, NEW v \in Values PROVE Clean(Appended(o, v))
  <2>1. \A i \in 0 .. (o.length + 1) - 1 : i = o.length \/ i \in 0 .. o.length - 1
    BY <1>1
  <2>2. QED
    BY <1>1, <1>3, <2>1, AppendedObject DEF Clean
<1>4. ASSUME NEW k \in 0 .. o.length - 1 PROVE Clean(Removed(o, k))
  <2>1. \A i \in 0 .. (o.length - 1) - 1 :
          i \in 0 .. o.length - 2 /\ i \in 0 .. o.length - 1 /\ i + 1 \in 0 .. o.length - 1
    BY <1>1
  <2>2. QED
    BY <2>1, RemovedObject DEF Clean
<1>5. ASSUME NEW k \in 0 .. o.length - 1, NEW v \in Values PROVE Clean(Stored(o, k, v))
  BY <1>1, StoredObject DEF Clean
<1>6. QED
  BY <1>2, <1>3, <1>4, <1>5

(* A literal spells out values only.                                          *)
LEMMA CleanLiteral ==
  ASSUME NEW s \in Literals
  PROVE  s \in Seq(Cells) /\ Len(s) <= MaxLen /\ Clean(ListFrom(s))
<1>1. s \in Seq(Cells) /\ Len(s) <= MaxLen /\ Len(s) \in Nat /\ s \in [1 .. Len(s) -> Values]
  BY SeqDef, LenProperties DEF Literals, Cells
<1>2. \A i \in 0 .. Len(s) - 1 : s[i + 1] \in Values
  <2>1. \A i \in 0 .. Len(s) - 1 : i + 1 \in 1 .. Len(s)
    BY <1>1
  <2>2. QED
    BY <1>1, <2>1
<1>3. /\ ListFrom(s).length = Len(s)
      /\ \A i \in 0 .. Len(s) - 1 : ListFrom(s).items[i] = s[i + 1]
  BY <1>1, ListFromObject
<1>4. Garbage \notin Values
  OBVIOUS
<1>5. QED
  BY <1>1, <1>2, <1>3, <1>4 DEF Clean

(* Every step keeps the cells below each length written.                      *)
LEMMA InitialisedStep ==
  ASSUME TypeOK, Initialised, [Next]_vars
  PROVE  Initialised'
<1>0. heap \in Seq(Objects) /\ got # Garbage /\ \A k \in 1 .. Len(heap) : Clean(heap[k])
  BY DEF TypeOK, Initialised, Clean
<1>1. ASSUME got' # Garbage, \A k \in 1 .. Len(heap') : Clean(heap'[k]) PROVE Initialised'
  BY <1>1 DEF Initialised, Clean
<1>2. ASSUME NEW o \in Objects, Clean(o), heap' = Append(heap, o), got' = got
      PROVE  Initialised'
  <2>1. ASSUME NEW k \in 1 .. Len(heap') PROVE Clean(heap'[k])
    <3>1. k = Len(heap) + 1 \/ k \in 1 .. Len(heap)
      BY <1>0, <1>2, Allocated
    <3>2. QED
      BY <1>0, <1>2, <3>1, Allocated
  <2>2. QED
    BY <1>0, <1>1, <1>2, <2>1
<1>3. ASSUME NEW x \in Vars, NEW o \in Objects, Clean(o), Has(x), Mutate(x, o)
      PROVE  Initialised'
  <2>1. ASSUME NEW k \in 1 .. Len(heap') PROVE Clean(heap'[k])
    BY <1>0, <1>3, Mutated DEF Has
  <2>2. got' = got
    BY <1>3 DEF Mutate
  <2>3. QED
    BY <1>0, <1>1, <2>1, <2>2
<1>4. ASSUME heap' = heap, got' # Garbage PROVE Initialised'
  BY <1>0, <1>1, <1>4
<1>5. ASSUME NEW x \in Vars, Has(x) PROVE Obj(x) \in Objects /\ Clean(Obj(x))
  BY <1>0, <1>5, ObjType DEF Has, Obj
<1>6. ASSUME NEW x \in Vars, NEW s \in Literals, SetToItems(x, s) PROVE Initialised'
  <2>1. ListFrom(s) \in Objects /\ Clean(ListFrom(s))
    BY CleanLiteral, ListFromObject
  <2>2. heap' = Append(heap, ListFrom(s)) /\ got' = got
    BY <1>6 DEF SetToItems
  <2>3. QED
    BY <1>2, <2>1, <2>2
<1>7. ASSUME NEW x \in Vars, NEW v \in Values, AppendItem(x, v) PROVE Initialised'
  BY <1>3, <1>5, <1>7, CleanOperations, Mutations DEF AppendItem
<1>8. ASSUME NEW x \in Vars, NEW i \in Positions, NEW v \in Values, ReplaceItem(x, i, v)
      PROVE  Initialised'
  BY <1>3, <1>5, <1>8, CleanOperations, Mutations DEF ReplaceItem
<1>9. ASSUME NEW x \in Vars, NEW i \in Positions, RemoveItem(x, i) PROVE Initialised'
  BY <1>3, <1>5, <1>9, CleanOperations, Mutations DEF RemoveItem
<1>10. ASSUME NEW x \in Vars, NEW i \in Positions, Item(x, i) PROVE Initialised'
  <2>1. Cell(i) \in 0 .. Obj(x).length - 1
    BY <1>5, <1>10, ReadCell DEF Item, Positions
  <2>2. QED
    BY <1>4, <1>5, <1>10, <2>1 DEF Item, Clean
<1>11. ASSUME NEW x \in Vars, BeginForEach(x) PROVE Initialised'
  BY <1>2, <1>5, <1>11, CleanOperations, CopyObject DEF BeginForEach
<1>12. CASE NextItem
  <2>1. CASE InRange(heap[Loop.list], Loop.i)
    <3>1. heap[Loop.list] \in Objects /\ Clean(heap[Loop.list]) /\ Loop.i \in Int
      BY <1>0, <1>12, LoopType DEF NextItem, Loops
    <3>2. Cell(Loop.i) \in 0 .. heap[Loop.list].length - 1
      BY <2>1, <3>1, ReadCell
    <3>3. QED
      BY <1>4, <1>12, <2>1, <3>1, <3>2 DEF NextItem, Clean
  <2>2. QED
    BY <1>0, <1>4, <1>12, <2>1 DEF NextItem
<1>13. QED
  <2>1. ASSUME NEW x \in Vars, NEW i \in Positions, OutOfRange(x, i) PROVE Initialised'
    BY <1>0, <1>4, <2>1 DEF OutOfRange
  <2>2. ASSUME NEW x \in Vars, NotAList(x) PROVE Initialised'
    BY <1>0, <1>4, <2>2 DEF NotAList
  <2>3. CASE OutOfMemory \/ EndForEach \/ UNCHANGED vars
    BY <1>0, <1>4, <2>3 DEF OutOfMemory, EndForEach, vars
  <2>4. ASSUME NEW x \in Vars, NEW y \in Vars, SetToList(x, y) PROVE Initialised'
    BY <1>0, <1>4, <2>4 DEF SetToList
  <2>5. QED
    BY <1>6, <1>7, <1>8, <1>9, <1>10, <1>11, <1>12, <2>1, <2>2, <2>3, <2>4 DEF Next

(* No list ever shows a cell that was not written, whatever the statements    *)
(* appended, replaced, removed or copied.                                     *)
THEOREM NeverUninitialised == Spec => []Initialised
<1>1. Init => TypeOK /\ Initialised
  <2>1. <<>> \in Seq(Objects) /\ <<>> \in Seq(Loops) /\ Len(<<>>) = 0
    BY EmptySeq
  <2>2. QED
    BY <2>1 DEF Init, TypeOK, Initialised, Cells, Null
<1>2. TypeOK /\ Initialised /\ [Next]_vars => (TypeOK /\ Initialised)'
  BY TypeStep, InitialisedStep
<1>3. QED
  BY <1>1, <1>2, PTL DEF Spec

------------------------------------------------------------------------------
(* Loops walk lists of their own.                                             *)

(* What SnapshotPrivate says of one loop.                                     *)
Private(j) ==
  /\ \A x \in Vars : var[x] # loops[j].list
  /\ \A k \in 1 .. Len(loops) : k # j => loops[k].list # loops[j].list
  /\ heap[loops[j].list].length = loops[j].n
  /\ loops[j].i \in 1 .. loops[j].n + 1

(* Nothing but its own loop touches the list a For each walks.                *)
LEMMA SnapshotStep ==
  ASSUME TypeOK, SnapshotPrivate, [Next]_vars
  PROVE  SnapshotPrivate'
<1>0. /\ heap \in Seq(Objects) /\ Len(heap) \in Nat /\ var \in [Vars -> 0 .. Len(heap)]
      /\ loops \in Seq(Loops) /\ Len(loops) \in Nat
      /\ \A j \in 1 .. Len(loops) : loops[j].list \in 1 .. Len(heap)
      /\ \A j \in 1 .. Len(loops) : Private(j)
  BY LenProperties DEF TypeOK, SnapshotPrivate, Private
<1>1. ASSUME \A j \in 1 .. Len(loops') : Private(j)' PROVE SnapshotPrivate'
  BY <1>1 DEF SnapshotPrivate, Private
<1>2. ASSUME NEW x \in Vars, NEW s \in Literals, SetToItems(x, s) PROVE SnapshotPrivate'
  <2>1. ListFrom(s) \in Objects
    BY CleanLiteral, ListFromObject
  <2>2. \A k \in 1 .. Len(heap) : heap'[k] = heap[k]
    BY <1>0, <1>2, <2>1, Allocated DEF SetToItems
  <2>3. loops' = loops /\ var' = [var EXCEPT ![x] = Len(heap) + 1]
    BY <1>2 DEF SetToItems
  <2>4. ASSUME NEW j \in 1 .. Len(loops), NEW y \in Vars PROVE var'[y] # loops[j].list
    BY <1>0, <2>3 DEF Private
  <2>5. QED
    BY <1>0, <1>1, <2>2, <2>3, <2>4 DEF Private
<1>3. ASSUME NEW x \in Vars, NEW y \in Vars, SetToList(x, y) PROVE SnapshotPrivate'
  <2>1. loops' = loops /\ heap' = heap /\ var' = [var EXCEPT ![x] = var[y]]
    BY <1>3 DEF SetToList
  <2>2. ASSUME NEW j \in 1 .. Len(loops), NEW z \in Vars PROVE var'[z] # loops[j].list
    BY <1>0, <2>1 DEF Private
  <2>3. QED
    BY <1>0, <1>1, <2>1, <2>2 DEF Private
<1>4. ASSUME NEW x \in Vars, NEW o \in Objects, Has(x), Mutate(x, o) PROVE SnapshotPrivate'
  <2>1. loops' = loops /\ var' = var
    BY <1>4 DEF Mutate
  <2>2. ASSUME NEW j \in 1 .. Len(loops) PROVE heap'[loops[j].list] = heap[loops[j].list]
    BY <1>0, <1>4, Mutated DEF Has, Private
  <2>3. QED
    BY <1>0, <1>1, <2>1, <2>2 DEF Private
<1>5. ASSUME UNCHANGED <<heap, var, loops>> PROVE SnapshotPrivate'
  BY <1>0, <1>1, <1>5 DEF Private
<1>6. ASSUME NEW x \in Vars, BeginForEach(x) PROVE SnapshotPrivate'
  <2> DEFINE l == [list |-> Len(heap) + 1, n |-> Obj(x).length, i |-> 1, type |-> ListType[x]]
  <2>1. Obj(x) \in Objects /\ CopyOf(Obj(x)) \in Objects
        /\ CopyOf(Obj(x)).length = Obj(x).length /\ Obj(x).length \in Nat
    BY <1>6, ObjType, ObjectFields, CopyObject DEF BeginForEach, Has
  <2>2. l \in Loops /\ l.list = Len(heap) + 1 /\ l.n = Obj(x).length /\ l.i = 1
    BY <1>0, <2>1 DEF Loops, Ref
  <2>3. loops' = Append(loops, l) /\ heap' = Append(heap, CopyOf(Obj(x))) /\ var' = var
    BY <1>6 DEF BeginForEach
  <2> HIDE DEF l
  <2>4. /\ Len(loops') = Len(loops) + 1 /\ loops'[Len(loops) + 1] = l
        /\ \A j \in 1 .. Len(loops) : loops'[j] = loops[j]
    BY <1>0, <2>2, <2>3, AppendProperties
  <2>5. /\ heap'[Len(heap) + 1].length = l.n
        /\ \A k \in 1 .. Len(heap) : heap'[k] = heap[k]
    BY <1>0, <2>1, <2>2, <2>3, Allocated
  <2>6. ASSUME NEW j \in 1 .. Len(loops') PROVE j \in 1 .. Len(loops) \/ j = Len(loops) + 1
    BY <1>0, <2>4
  <2>7. ASSUME NEW j \in 1 .. Len(loops)
        PROVE  loops'[j].list # l.list /\ \A z \in Vars : var'[z] # l.list
    BY <1>0, <2>2, <2>3, <2>4
  <2>8. \A z \in Vars : var'[z] # l.list
    BY <1>0, <2>2, <2>3
  <2>9. ASSUME NEW j \in 1 .. Len(loops) PROVE Private(j)'
    <3>1. \A z \in Vars : var'[z] # loops'[j].list
      BY <1>0, <2>3, <2>4 DEF Private
    <3>2. \A k \in 1 .. Len(loops') : k # j => loops'[k].list # loops'[j].list
      BY <1>0, <2>4, <2>6, <2>7 DEF Private
    <3>3. heap'[loops'[j].list].length = loops'[j].n /\ loops'[j].i \in 1 .. loops'[j].n + 1
      <4>1. loops'[j] = loops[j] /\ loops[j].list \in 1 .. Len(heap) /\ Private(j)
        BY <1>0, <2>4
      <4>2. heap'[loops[j].list] = heap[loops[j].list]
        BY <2>5, <4>1
      <4>3. QED
        BY <4>1, <4>2 DEF Private
    <3>4. QED
      BY <3>1, <3>2, <3>3 DEF Private
  <2>10. ASSUME NEW j, j = Len(loops) + 1 PROVE Private(j)'
    <3>1. loops'[j] = l
      BY <2>4, <2>10
    <3>2. \A k \in 1 .. Len(loops') : k # j => loops'[k].list # loops'[j].list
      BY <2>6, <2>7, <2>10, <3>1
    <3>3. heap'[l.list].length = l.n /\ l.i \in 1 .. l.n + 1
      BY <2>1, <2>2, <2>5
    <3>4. QED
      BY <2>8, <3>1, <3>2, <3>3 DEF Private
  <2>11. QED
    BY <1>1, <2>6, <2>9, <2>10
<1>7. CASE NextItem
  <2>1. CASE InRange(heap[Loop.list], Loop.i)
    <3> DEFINE n == Len(loops)
               l == [Loop EXCEPT !.i = Loop.i + 1]
    <3>1. Loop \in Loops /\ n \in 1 .. Len(loops) /\ Loop = loops[n] /\ Loop.i <= Loop.n
      BY <1>7, LoopType DEF NextItem, Loop
    <3>2. l \in Loops /\ l.list = Loop.list /\ l.n = Loop.n /\ l.i = Loop.i + 1
      BY <3>1 DEF Loops
    <3>3. loops' = [loops EXCEPT ![n] = l]
      BY <1>7, <2>1 DEF NextItem, Loop
    <3>4. heap' = heap /\ var' = var
      BY <1>7 DEF NextItem
    <3> HIDE DEF n, l
    <3>5. /\ Len(loops') = Len(loops) /\ loops'[n] = l
          /\ \A j \in 1 .. Len(loops) : j # n => loops'[j] = loops[j]
      BY <1>0, <3>1, <3>2, <3>3, ExceptSeq
    <3>6. \A j \in 1 .. Len(loops) :
            loops'[j].list = loops[j].list /\ loops'[j].n = loops[j].n
      BY <3>1, <3>2, <3>5
    <3>7. \A j \in 1 .. Len(loops) : loops'[j].i \in 1 .. loops'[j].n + 1
      <4>1. Loop.i \in 1 .. Loop.n + 1 /\ Loop.n \in Nat
        BY <1>0, <3>1 DEF Private, Loops
      <4>2. l.i \in 1 .. l.n + 1
        BY <3>1, <3>2, <4>1
      <4>3. QED
        BY <1>0, <3>5, <4>2 DEF Private
    <3>8. ASSUME NEW j \in 1 .. Len(loops) PROVE Private(j)'
      <4>1. \A x \in Vars : var'[x] # loops'[j].list
        BY <1>0, <3>4, <3>6 DEF Private
      <4>2. \A k \in 1 .. Len(loops) : k # j => loops'[k].list # loops'[j].list
        BY <1>0, <3>6 DEF Private
      <4>3. heap'[loops'[j].list].length = loops'[j].n
        BY <1>0, <3>4, <3>6 DEF Private
      <4>4. QED
        BY <3>5, <3>7, <4>1, <4>2, <4>3 DEF Private
    <3>9. QED
      BY <1>1, <3>5, <3>8
  <2>2. QED
    BY <1>5, <1>7, <2>1 DEF NextItem
<1>8. CASE EndForEach
  <2>1. Len(loops) \in Nat \ {0}
    BY <1>8, LoopType DEF EndForEach
  <2>2. /\ Len(loops') = Len(loops) - 1 /\ \A j \in 1 .. Len(loops') : loops'[j] = loops[j]
    BY <1>0, <1>8, <2>1, AllButLast DEF EndForEach
  <2>3. heap' = heap /\ var' = var /\ \A j \in 1 .. Len(loops') : j \in 1 .. Len(loops)
    BY <1>8, <2>1, <2>2 DEF EndForEach
  <2>4. QED
    BY <1>0, <1>1, <2>2, <2>3 DEF Private
<1>9. QED
  <2>1. ASSUME NEW x \in Vars, NEW v \in Values, AppendItem(x, v) PROVE SnapshotPrivate'
    BY <1>4, <2>1, Mutations DEF AppendItem
  <2>2. ASSUME NEW x \in Vars, NEW i \in Positions, NEW v \in Values, ReplaceItem(x, i, v)
        PROVE  SnapshotPrivate'
    BY <1>4, <2>2, Mutations DEF ReplaceItem
  <2>3. ASSUME NEW x \in Vars, NEW i \in Positions, RemoveItem(x, i) PROVE SnapshotPrivate'
    BY <1>4, <2>3, Mutations DEF RemoveItem
  <2>4. ASSUME NEW x \in Vars, NEW i \in Positions, Item(x, i) \/ OutOfRange(x, i)
        PROVE  SnapshotPrivate'
    BY <1>5, <2>4 DEF Item, OutOfRange
  <2>5. ASSUME NEW x \in Vars, NotAList(x) PROVE SnapshotPrivate'
    BY <1>5, <2>5 DEF NotAList
  <2>6. CASE OutOfMemory \/ UNCHANGED vars
    BY <1>5, <2>6 DEF OutOfMemory, vars
  <2>7. QED
    BY <1>2, <1>3, <1>6, <1>7, <1>8, <2>1, <2>2, <2>3, <2>4, <2>5, <2>6 DEF Next

(* For each walks a private list, so Append, Replace and Remove on the list   *)
(* it was given, or on any alias, never change what is left to visit.         *)
THEOREM SnapshotsPrivate == Spec => []SnapshotPrivate
<1>1. Init => TypeOK /\ SnapshotPrivate
  <2>1. <<>> \in Seq(Objects) /\ <<>> \in Seq(Loops) /\ Len(<<>>) = 0
    BY EmptySeq
  <2>2. QED
    BY <2>1 DEF Init, TypeOK, SnapshotPrivate, Null
<1>2. TypeOK /\ SnapshotPrivate /\ [Next]_vars => (TypeOK /\ SnapshotPrivate)'
  BY TypeStep, SnapshotStep
<1>3. QED
  BY <1>1, <1>2, PTL DEF Spec

(* The bounds check inside a For each never ends the program.                 *)
THEOREM LoopsStayInRange == Spec => [][NextItem => status' = "running"]_vars
<1>1. TypeOK /\ SnapshotPrivate /\ [Next]_vars => [NextItem => status' = "running"]_vars
  <2>1. ASSUME TypeOK, SnapshotPrivate, NextItem PROVE status' = "running"
    <3>1. Loop \in Loops /\ Len(loops) \in 1 .. Len(loops) /\ Loop = loops[Len(loops)]
      BY <2>1, LoopType DEF NextItem, Loop
    <3>2. heap[Loop.list].length = Loop.n /\ Loop.i \in 1 .. Loop.n + 1 /\ Loop.i <= Loop.n
      BY <2>1, <3>1 DEF SnapshotPrivate, NextItem
    <3>3. InRange(heap[Loop.list], Loop.i)
      BY <3>1, <3>2 DEF InRange, Loops
    <3>4. QED
      BY <2>1, <3>3 DEF NextItem, Running
  <2>2. QED
    BY <2>1
<1>2. Spec => [][Next]_vars
  BY DEF Spec
<1>3. QED
  BY <1>1, <1>2, TypeCorrect, SnapshotsPrivate, PTL

------------------------------------------------------------------------------
(* Items keep the static type of the list, unless an item can be laundered.   *)

(* Variables that share a list have one static type.                          *)
SharersAgree ==
  \A x, y \in Vars : var[x] # Null /\ var[x] = var[y] => ListType[x] = ListType[y]

(* Without laundering the items of a static type are of that type.            *)
LEMMA ItemsTyped ==
  ASSUME ~Laundered, NEW type, NEW v \in Items(type)
  PROVE  v \in Values /\ TypeOf(v) = type
BY DEF Items

(* The list operations keep lists of one type.                                *)
LEMMA TypedOperations ==
  ASSUME NEW o \in Objects, NEW type, OfType(o, type)
  PROVE  /\ OfType(CopyOf(o), type)
         /\ o.length < MaxLen =>
              \A v \in Values : TypeOf(v) = type => OfType(Appended(o, v), type)
         /\ \A k \in 0 .. o.length - 1 :
              /\ OfType(Removed(o, k), type)
              /\ \A v \in Values : TypeOf(v) = type => OfType(Stored(o, k, v), type)
<1>1. o.length \in Nat
  BY ObjectFields
<1>2. OfType(CopyOf(o), type)
  BY CopyObject DEF OfType
<1>3. ASSUME o.length < MaxLen, NEW v \in Values, TypeOf(v) = type
      PROVE  OfType(Appended(o, v), type)
  <2>1. \A i \in 0 .. (o.length + 1) - 1 : i = o.length \/ i \in 0 .. o.length - 1
    BY <1>1
  <2>2. QED
    BY <1>3, <2>1, AppendedObject DEF OfType
<1>4. ASSUME NEW k \in 0 .. o.length - 1 PROVE OfType(Removed(o, k), type)
  <2>1. \A i \in 0 .. (o.length - 1) - 1 :
          i \in 0 .. o.length - 2 /\ i \in 0 .. o.length - 1 /\ i + 1 \in 0 .. o.length - 1
    BY <1>1
  <2>2. QED
    BY <2>1, RemovedObject DEF OfType
<1>5. ASSUME NEW k \in 0 .. o.length - 1, NEW v \in Values, TypeOf(v) = type
      PROVE  OfType(Stored(o, k, v), type)
  BY <1>5, StoredObject DEF OfType
<1>6. QED
  BY <1>2, <1>3, <1>4, <1>5

(* Every step keeps the items of the static type.                             *)
LEMMA WellTypedStep ==
  ASSUME ~Laundered, TypeOK, SnapshotPrivate, WellTyped, SharersAgree, [Next]_vars
  PROVE  (WellTyped /\ SharersAgree)'
<1>0. /\ heap \in Seq(Objects) /\ Len(heap) \in Nat /\ var \in [Vars -> 0 .. Len(heap)]
      /\ loops \in Seq(Loops) /\ Len(loops) \in Nat
      /\ \A j \in 1 .. Len(loops) : loops[j].list \in 1 .. Len(heap)
      /\ \A x \in Vars : var[x] # Null => OfType(heap[var[x]], ListType[x])
      /\ \A j \in 1 .. Len(loops) : OfType(heap[loops[j].list], loops[j].type)
  BY LenProperties DEF TypeOK, WellTyped, Obj
<1>1. ASSUME \A x \in Vars : var'[x] # Null => OfType(heap'[var'[x]], ListType[x]),
             \A j \in 1 .. Len(loops') : OfType(heap'[loops'[j].list], loops'[j].type)
      PROVE  WellTyped'
  BY <1>1 DEF WellTyped, Obj
<1>2. ASSUME NEW x \in Vars, NEW s \in Literals, SetToItems(x, s)
      PROVE  (WellTyped /\ SharersAgree)'
  <2> DEFINE o == ListFrom(s)
  <2>1. o \in Objects /\ OfType(o, ListType[x])
    <3>1. /\ s \in Seq(Cells) /\ Len(s) <= MaxLen /\ Len(s) \in Nat
          /\ \A k \in 1 .. Len(s) : TypeOf(s[k]) = ListType[x]
      BY <1>2, CleanLiteral, ItemsTyped, LenProperties DEF SetToItems
    <3>2. \A i \in 0 .. Len(s) - 1 : i + 1 \in 1 .. Len(s)
      BY <3>1
    <3>3. o \in Objects /\ o.length = Len(s)
          /\ \A i \in 0 .. Len(s) - 1 : o.items[i] = s[i + 1]
      BY <3>1, ListFromObject
    <3>4. QED
      BY <3>1, <3>2, <3>3 DEF OfType
  <2>2. heap' = Append(heap, o) /\ var' = [var EXCEPT ![x] = Len(heap) + 1] /\ loops' = loops
    BY <1>2 DEF SetToItems
  <2> HIDE DEF o
  <2>3. heap'[Len(heap) + 1] = o /\ \A k \in 1 .. Len(heap) : heap'[k] = heap[k]
    BY <1>0, <2>1, <2>2, Allocated
  <2>4. var'[x] = Len(heap) + 1 /\ \A y \in Vars : y # x => var'[y] = var[y]
    BY <1>0, <2>2
  <2>5. \A y \in Vars : var[y] # Null => var[y] \in 1 .. Len(heap)
    BY <1>0 DEF Null
  <2>6. ASSUME NEW y \in Vars, var'[y] # Null PROVE OfType(heap'[var'[y]], ListType[y])
    BY <1>0, <2>1, <2>3, <2>4, <2>5, <2>6
  <2>7. ASSUME NEW y \in Vars, NEW z \in Vars, var'[y] # Null, var'[y] = var'[z]
        PROVE  ListType[y] = ListType[z]
    <3>1. CASE y = x \/ z = x
      BY <1>0, <2>4, <2>7, <3>1
    <3>2. CASE y # x /\ z # x
      BY <2>4, <2>7, <3>2 DEF SharersAgree
    <3>3. QED
      BY <3>1, <3>2
  <2>8. QED
    BY <1>0, <1>1, <2>2, <2>3, <2>6, <2>7 DEF SharersAgree
<1>3. ASSUME NEW x \in Vars, NEW y \in Vars, SetToList(x, y)
      PROVE  (WellTyped /\ SharersAgree)'
  <2>1. /\ heap' = heap /\ loops' = loops /\ var[y] # Null /\ ListType[x] = ListType[y]
        /\ var'[x] = var[y] /\ \A z \in Vars : z # x => var'[z] = var[z]
    BY <1>0, <1>3 DEF SetToList, Has
  <2>2. ASSUME NEW z \in Vars, var'[z] # Null PROVE OfType(heap'[var'[z]], ListType[z])
    BY <1>0, <2>1, <2>2
  <2>3. ASSUME NEW w \in Vars, NEW z \in Vars, var'[w] # Null, var'[w] = var'[z]
        PROVE  ListType[w] = ListType[z]
    BY <2>1, <2>3 DEF SharersAgree
  <2>4. QED
    BY <1>0, <1>1, <2>1, <2>2, <2>3 DEF SharersAgree
<1>4. ASSUME NEW x \in Vars, NEW o \in Objects, OfType(o, ListType[x]), Has(x), Mutate(x, o)
      PROVE  (WellTyped /\ SharersAgree)'
  <2>1. loops' = loops /\ var' = var /\ var[x] # Null
    BY <1>4 DEF Mutate, Has
  <2>2. heap'[var[x]] = o /\ \A k \in 1 .. Len(heap) : k # var[x] => heap'[k] = heap[k]
    BY <1>4, <2>1, Mutated
  <2>3. ASSUME NEW y \in Vars, var[y] # Null PROVE OfType(heap'[var[y]], ListType[y])
    <3>1. var[y] \in 1 .. Len(heap)
      BY <1>0, <2>3 DEF Null
    <3>2. CASE var[y] = var[x]
      BY <1>4, <2>1, <2>2, <3>2 DEF SharersAgree
    <3>3. CASE var[y] # var[x]
      BY <1>0, <2>2, <2>3, <3>1, <3>3
    <3>4. QED
      BY <3>2, <3>3
  <2>4. ASSUME NEW j \in 1 .. Len(loops) PROVE heap'[loops[j].list] = heap[loops[j].list]
    BY <1>0, <1>4, <2>2 DEF SnapshotPrivate
  <2>5. QED
    BY <1>0, <1>1, <2>1, <2>3, <2>4 DEF SharersAgree
<1>5. ASSUME UNCHANGED <<heap, var, loops>> PROVE (WellTyped /\ SharersAgree)'
  BY <1>0, <1>1, <1>5 DEF SharersAgree
<1>6. ASSUME NEW x \in Vars, Has(x)
      PROVE  Obj(x) \in Objects /\ OfType(Obj(x), ListType[x])
  BY <1>0, <1>6, ObjType DEF Has, Obj
<1>7. ASSUME NEW x \in Vars, BeginForEach(x) PROVE (WellTyped /\ SharersAgree)'
  <2> DEFINE l == [list |-> Len(heap) + 1, n |-> Obj(x).length, i |-> 1, type |-> ListType[x]]
             o == CopyOf(Obj(x))
  <2>1. o \in Objects /\ OfType(o, ListType[x]) /\ Obj(x).length \in Nat
    BY <1>6, <1>7, ObjectFields, CopyObject, TypedOperations DEF BeginForEach
  <2>2. l \in Loops /\ l.list = Len(heap) + 1 /\ l.type = ListType[x]
    BY <1>0, <2>1 DEF Loops, Ref
  <2>3. loops' = Append(loops, l) /\ heap' = Append(heap, o) /\ var' = var
    BY <1>7 DEF BeginForEach
  <2> HIDE DEF l, o
  <2>4. /\ Len(loops') = Len(loops) + 1 /\ loops'[Len(loops) + 1] = l
        /\ \A j \in 1 .. Len(loops) : loops'[j] = loops[j]
    BY <1>0, <2>2, <2>3, AppendProperties
  <2>5. heap'[Len(heap) + 1] = o /\ \A k \in 1 .. Len(heap) : heap'[k] = heap[k]
    BY <1>0, <2>1, <2>3, Allocated
  <2>6. ASSUME NEW y \in Vars, var'[y] # Null PROVE OfType(heap'[var'[y]], ListType[y])
    <3>1. var[y] \in 1 .. Len(heap)
      BY <1>0, <2>3, <2>6 DEF Null
    <3>2. QED
      BY <1>0, <2>3, <2>5, <2>6, <3>1
  <2>7. ASSUME NEW j \in 1 .. Len(loops') PROVE OfType(heap'[loops'[j].list], loops'[j].type)
    <3>1. CASE j = Len(loops) + 1
      BY <2>1, <2>2, <2>4, <2>5, <3>1
    <3>2. CASE j \in 1 .. Len(loops)
      BY <1>0, <2>4, <2>5, <3>2
    <3>3. QED
      BY <1>0, <2>4, <3>1, <3>2
  <2>8. QED
    BY <1>1, <2>3, <2>6, <2>7 DEF SharersAgree
<1>8. CASE NextItem
  <2>1. CASE InRange(heap[Loop.list], Loop.i)
    <3> DEFINE n == Len(loops)
               l == [Loop EXCEPT !.i = Loop.i + 1]
    <3>1. Loop \in Loops /\ n \in 1 .. Len(loops) /\ Loop = loops[n]
      BY <1>8, LoopType DEF NextItem, Loop
    <3>2. l \in Loops /\ l.list = Loop.list /\ l.type = Loop.type
      BY <3>1 DEF Loops
    <3>3. loops' = [loops EXCEPT ![n] = l] /\ heap' = heap /\ var' = var
      BY <1>8, <2>1 DEF NextItem, Loop
    <3> HIDE DEF n, l
    <3>4. /\ Len(loops') = Len(loops)
          /\ \A j \in 1 .. Len(loops) :
               loops'[j].list = loops[j].list /\ loops'[j].type = loops[j].type
      BY <1>0, <3>1, <3>2, <3>3, ExceptSeq
    <3>5. QED
      BY <1>0, <1>1, <3>3, <3>4 DEF SharersAgree
  <2>2. QED
    BY <1>5, <1>8, <2>1 DEF NextItem
<1>9. CASE EndForEach
  <2>1. Len(loops) \in Nat \ {0}
    BY <1>9, LoopType DEF EndForEach
  <2>2. /\ Len(loops') = Len(loops) - 1 /\ \A j \in 1 .. Len(loops') : loops'[j] = loops[j]
    BY <1>0, <1>9, <2>1, AllButLast DEF EndForEach
  <2>3. heap' = heap /\ var' = var /\ \A j \in 1 .. Len(loops') : j \in 1 .. Len(loops)
    BY <1>9, <2>1, <2>2 DEF EndForEach
  <2>4. QED
    BY <1>0, <1>1, <2>2, <2>3 DEF SharersAgree
<1>10. QED
  <2>1. ASSUME NEW x \in Vars, NEW v \in Values, AppendItem(x, v)
        PROVE  (WellTyped /\ SharersAgree)'
    BY <1>4, <1>6, <2>1, Mutations, TypedOperations, ItemsTyped DEF AppendItem
  <2>2. ASSUME NEW x \in Vars, NEW i \in Positions, NEW v \in Values, ReplaceItem(x, i, v)
        PROVE  (WellTyped /\ SharersAgree)'
    BY <1>4, <1>6, <2>2, Mutations, TypedOperations, ItemsTyped DEF ReplaceItem
  <2>3. ASSUME NEW x \in Vars, NEW i \in Positions, RemoveItem(x, i)
        PROVE  (WellTyped /\ SharersAgree)'
    BY <1>4, <1>6, <2>3, Mutations, TypedOperations DEF RemoveItem
  <2>4. ASSUME NEW x \in Vars, NEW i \in Positions, Item(x, i) \/ OutOfRange(x, i)
        PROVE  (WellTyped /\ SharersAgree)'
    BY <1>5, <2>4 DEF Item, OutOfRange
  <2>5. ASSUME NEW x \in Vars, NotAList(x) PROVE (WellTyped /\ SharersAgree)'
    BY <1>5, <2>5 DEF NotAList
  <2>6. CASE OutOfMemory \/ UNCHANGED vars
    BY <1>5, <2>6 DEF OutOfMemory, vars
  <2>7. QED
    BY <1>2, <1>3, <1>7, <1>8, <1>9, <2>1, <2>2, <2>3, <2>4, <2>5, <2>6 DEF Next

(* When no item passes through a legacy Procedure, the lists that variables   *)
(* refer to and loops walk hold items of the static type sema gave them.      *)
THEOREM WellTypedUnlessLaundered ==
  ASSUME ~Laundered
  PROVE  Spec => []WellTyped
<1> DEFINE Inv == TypeOK /\ SnapshotPrivate /\ WellTyped /\ SharersAgree
<1>1. Init => Inv
  <2>1. <<>> \in Seq(Objects) /\ <<>> \in Seq(Loops) /\ Len(<<>>) = 0
    BY EmptySeq
  <2>2. QED
    BY <2>1 DEF Init, TypeOK, SnapshotPrivate, WellTyped, SharersAgree, Null
<1>2. Inv /\ [Next]_vars => Inv'
  BY TypeStep, SnapshotStep, WellTypedStep
<1>3. Inv => WellTyped
  OBVIOUS
<1>4. QED
  BY <1>1, <1>2, <1>3, PTL DEF Spec


------------------------------------------------------------------------------
(* The sequences that list objects stand for.                                 *)

(* Two sequences of one length and the same items are equal.                  *)
LEMMA ContentsAre ==
  ASSUME NEW o \in Objects, NEW s \in Seq(Cells), Len(s) = o.length,
         \A i \in 0 .. o.length - 1 : o.items[i] = s[i + 1]
  PROVE  Contents(o) = s
<1>1. Contents(o) \in Seq(Cells) /\ Len(Contents(o)) = Len(s) /\ o.length \in Nat
  BY ContentsSeq, ObjectFields
<1>2. ASSUME NEW j \in 1 .. o.length PROVE Contents(o)[j] = s[j]
  <2>1. j - 1 \in 0 .. o.length - 1 /\ (j - 1) + 1 = j
    BY <1>1
  <2>2. Contents(o)[(j - 1) + 1] = s[(j - 1) + 1]
    BY <2>1, ContentsSeq
  <2>3. QED
    BY <2>1, <2>2
<1>3. QED
  BY <1>1, <1>2, ContentsSeq, SeqEqual

(* ps_list_from denotes the items it was given, ps_list_copy the list copied. *)
LEMMA FromContents ==
  ASSUME NEW s \in Seq(Cells), Len(s) <= MaxLen
  PROVE  Contents(ListFrom(s)) = s
BY ListFromObject, ContentsAre

(* A copy denotes what the original does.                                     *)
LEMMA CopyContents ==
  ASSUME NEW o \in Objects
  PROVE  Contents(CopyOf(o)) = Contents(o)
<1>1. Len(Contents(o)) <= MaxLen
  BY ContentsSeq, ObjectFields
<1>2. QED
  BY <1>1, ContentsSeq, FromContents DEF CopyOf

(* ps_list_append denotes the sequence with the item appended.                *)
LEMMA AppendedContents ==
  ASSUME NEW o \in Objects, NEW v \in Values, o.length < MaxLen
  PROVE  Contents(Appended(o, v)) = Append(Contents(o), v)
<1> DEFINE s == Append(Contents(o), v)
<1>1. v \in Cells /\ o.length \in Nat
  BY ObjectFields DEF Cells
<1>2. /\ s \in Seq(Cells) /\ Len(s) = o.length + 1 /\ s[o.length + 1] = v
      /\ \A i \in 1 .. o.length : s[i] = Contents(o)[i]
  BY <1>1, ContentsSeq, AppendProperties
<1> HIDE DEF s
<1>3. \A i \in 0 .. o.length - 1 : i + 1 \in 1 .. o.length
  BY <1>1
<1>4. \A i \in 0 .. o.length - 1 : s[i + 1] = o.items[i]
  BY <1>2, <1>3, ContentsSeq
<1>5. \A i \in 0 .. (o.length + 1) - 1 : i = o.length \/ i \in 0 .. o.length - 1
  BY <1>1
<1>6. \A i \in 0 .. (o.length + 1) - 1 : Appended(o, v).items[i] = s[i + 1]
  <2>1. Appended(o, v).items[o.length] = s[o.length + 1]
    BY <1>2, AppendedObject
  <2>2. \A i \in 0 .. o.length - 1 : Appended(o, v).items[i] = s[i + 1]
    BY <1>4, AppendedObject
  <2>3. QED
    BY <1>5, <2>1, <2>2
<1>7. Appended(o, v) \in Objects /\ Appended(o, v).length = o.length + 1
  BY AppendedObject
<1>8. Contents(Appended(o, v)) = s
  BY <1>2, <1>6, <1>7, ContentsAre
<1>9. QED
  BY <1>8 DEF s

(* ps_list_set denotes the sequence with the one item changed.                *)
LEMMA StoredContents ==
  ASSUME NEW o \in Objects, NEW v \in Values, NEW i \in 1 .. o.length
  PROVE  Contents(Stored(o, i - 1, v)) = [Contents(o) EXCEPT ![i] = v]
<1> DEFINE s == [Contents(o) EXCEPT ![i] = v]
<1>1. v \in Cells /\ o.length \in Nat /\ i - 1 \in 0 .. o.length - 1
  BY ObjectFields DEF Cells
<1>2. /\ s \in Seq(Cells) /\ Len(s) = o.length
      /\ \A j \in 1 .. o.length : s[j] = IF j = i THEN v ELSE Contents(o)[j]
  BY <1>1, ContentsSeq, ExceptSeq
<1> HIDE DEF s
<1>3. \A k \in 0 .. o.length - 1 : k + 1 \in 1 .. o.length /\ (k + 1 = i <=> k = i - 1)
  BY <1>1
<1>4. \A k \in 0 .. o.length - 1 : s[k + 1] = IF k = i - 1 THEN v ELSE o.items[k]
  BY <1>2, <1>3, ContentsSeq
<1>5. /\ Stored(o, i - 1, v) \in Objects /\ Stored(o, i - 1, v).length = o.length
      /\ \A k \in 0 .. o.length - 1 : Stored(o, i - 1, v).items[k] = s[k + 1]
  BY <1>1, <1>4, StoredObject
<1>6. Contents(Stored(o, i - 1, v)) = s
  BY <1>2, <1>5, ContentsAre
<1>7. QED
  BY <1>6 DEF s

(* ps_list_remove denotes the sequence with the one item cut out.             *)
LEMMA RemovedContents ==
  ASSUME NEW o \in Objects, NEW i \in 1 .. o.length
  PROVE  Contents(Removed(o, i - 1)) =
           SubSeq(Contents(o), 1, i - 1) \o SubSeq(Contents(o), i + 1, Len(Contents(o)))
<1> DEFINE c == Contents(o)
           n == o.length
           front == SubSeq(c, 1, i - 1)
           back == SubSeq(c, i + 1, n)
<1>1. n \in Nat /\ i \in Nat /\ 1 <= i /\ i <= n /\ i - 1 \in 0 .. n - 1
  BY ObjectFields
<1>2. c \in Seq(Cells) /\ Len(c) = n /\ \A k \in 0 .. n - 1 : c[k + 1] = o.items[k]
  BY ContentsSeq
<1>3. \A k \in 1 .. n : c[k] \in Cells
  BY <1>2, ElementOfSeq
<1> HIDE DEF c, n
<1>4. /\ front \in Seq(Cells) /\ Len(front) = i - 1
      /\ \A k \in 1 .. i - 1 : front[k] = c[k]
  <2>1. 1 \in Int /\ i - 1 \in Int /\ \A k \in 1 .. i - 1 : c[k] \in Cells
    BY <1>1, <1>3
  <2>2. /\ front \in Seq(Cells) /\ Len(front) = IF 1 <= i - 1 THEN i - 1 - 1 + 1 ELSE 0
        /\ \A k \in 1 .. i - 1 - 1 + 1 : front[k] = c[1 + k - 1]
    BY <2>1, SubSeqProperties
  <2>3. \A k \in 1 .. i - 1 : k \in 1 .. i - 1 - 1 + 1 /\ 1 + k - 1 = k
    BY <1>1
  <2> HIDE DEF front
  <2>4. \A k \in 1 .. i - 1 : front[k] = c[k]
    BY <2>2, <2>3
  <2>5. QED
    BY <1>1, <2>2, <2>4
<1>5. /\ back \in Seq(Cells) /\ Len(back) = n - i
      /\ \A k \in 1 .. n - i : back[k] = c[i + k]
  <2>1. i + 1 \in Int /\ n \in Int /\ \A k \in i + 1 .. n : c[k] \in Cells
    BY <1>1, <1>3
  <2>2. /\ back \in Seq(Cells) /\ Len(back) = IF i + 1 <= n THEN n - (i + 1) + 1 ELSE 0
        /\ \A k \in 1 .. n - (i + 1) + 1 : back[k] = c[i + 1 + k - 1]
    BY <2>1, SubSeqProperties
  <2>3. \A k \in 1 .. n - i : k \in 1 .. n - (i + 1) + 1 /\ i + 1 + k - 1 = i + k
    BY <1>1
  <2> HIDE DEF back
  <2>4. \A k \in 1 .. n - i : back[k] = c[i + k]
    BY <2>2, <2>3
  <2>5. Len(back) = n - i
    BY <1>1, <2>2
  <2>6. QED
    BY <2>2, <2>4, <2>5
<1> HIDE DEF front, back
<1>6. /\ front \o back \in Seq(Cells) /\ Len(front \o back) = n - 1
      /\ \A k \in 1 .. n - 1 :
           (front \o back)[k] = IF k <= i - 1 THEN front[k] ELSE back[k - (i - 1)]
  <2>1. (i - 1) + (n - i) = n - 1
    BY <1>1
  <2>2. /\ front \o back \in Seq(Cells) /\ Len(front \o back) = Len(front) + Len(back)
        /\ \A k \in 1 .. Len(front) + Len(back) :
             (front \o back)[k] = IF k <= Len(front) THEN front[k] ELSE back[k - Len(front)]
    <3>1. front \in Seq(Cells) /\ back \in Seq(Cells)
      BY <1>4, <1>5
    <3>2. QED
      BY <3>1, ConcatProperties, Zenon
  <2>3. Len(front) = i - 1 /\ Len(front) + Len(back) = n - 1
    BY <1>4, <1>5, <2>1
  <2>4. QED
    BY <2>2, <2>3
<1>7. ASSUME NEW k \in 0 .. n - 2
      PROVE  (front \o back)[k + 1] = Removed(o, i - 1).items[k]
  <2>1. Removed(o, i - 1).items[k] = IF i - 1 <= k THEN o.items[k + 1] ELSE o.items[k]
    BY <1>1, RemovedObject DEF n
  <2>2. CASE k < i - 1
    <3>1. k + 1 \in 1 .. n - 1 /\ k + 1 <= i - 1 /\ k + 1 \in 1 .. i - 1 /\ k \in 0 .. n - 1
      BY <1>1, <2>2
    <3>2. QED
      BY <1>1, <1>2, <1>4, <1>6, <2>1, <2>2, <3>1
  <2>3. CASE i - 1 <= k
    <3>1. /\ k + 1 \in 1 .. n - 1 /\ ~(k + 1 <= i - 1) /\ k + 1 \in 0 .. n - 1
          /\ (k + 1) - (i - 1) \in 1 .. n - i /\ i + ((k + 1) - (i - 1)) = (k + 1) + 1
      BY <1>1, <2>3
    <3>2. QED
      BY <1>2, <1>5, <1>6, <2>1, <2>3, <3>1
  <2>4. k < i - 1 \/ i - 1 <= k
    BY <1>1
  <2>5. QED
    BY <2>2, <2>3, <2>4
<1>8. Removed(o, i - 1) \in Objects /\ Removed(o, i - 1).length = n - 1
  BY <1>1, RemovedObject DEF n
<1>9. Contents(Removed(o, i - 1)) = front \o back
  <2>1. (n - 1) - 1 = n - 2
    BY <1>1
  <2>2. QED
    BY <1>6, <1>7, <1>8, <2>1, ContentsAre
<1>10. QED
  BY <1>2, <1>9 DEF c, n, front, back

------------------------------------------------------------------------------
(* The refinement mapping.                                                    *)

(* A variable denotes a sequence as soon as it refers to a list, and the      *)
(* sharers of a list denote one sequence.                                     *)
LEMMA DenotedType ==
  ASSUME TypeOK, NEW x \in Vars
  PROVE  /\ Denoted[x] # Nothing <=> var[x] # Null
         /\ var[x] # Null => /\ Denoted[x] = Contents(Obj(x))
                             /\ Denoted[x] \in Seq(Cells)
                             /\ Len(Denoted[x]) = Obj(x).length
         /\ \A y \in Vars : <<x, y>> \in Sharing <=> var[x] # Null /\ var[x] = var[y]
<1>1. var[x] # Null => Contents(Obj(x)) \in Seq(Cells) /\ Len(Contents(Obj(x))) = Obj(x).length
  BY ObjType, ContentsSeq
<1>2. Denoted[x] = IF var[x] = Null THEN Nothing ELSE Contents(Obj(x))
  BY DEF Denoted
<1>3. \A y \in Vars : <<x, y>> \in Sharing <=> var[x] # Null /\ var[x] = var[y]
  BY DEF Sharing
<1>4. QED
  BY <1>1, <1>2, <1>3

(* While a list is not mutated, what refers to it denotes what it did.        *)
LEMMA DenotedKept ==
  ASSUME TypeOK, \A k \in 1 .. Len(heap) : heap'[k] = heap[k]
  PROVE  \A x \in Vars : var'[x] = var[x] => Denoted'[x] = Denoted[x]
<1>1. ASSUME NEW x \in Vars, var'[x] = var[x] PROVE Denoted'[x] = Denoted[x]
  <2>1. CASE var[x] = Null
    BY <1>1, <2>1 DEF Denoted
  <2>2. CASE var[x] # Null
    <3>1. heap'[var'[x]] = heap[var[x]]
      BY <1>1, <2>2, ObjType
    <3>2. Denoted[x] = Contents(heap[var[x]]) /\ Denoted'[x] = Contents(heap'[var'[x]])
      BY <1>1, <2>2 DEF Denoted, Obj
    <3>3. QED
      BY <3>1, <3>2
  <2>3. QED
    BY <2>1, <2>2
<1>2. QED
  BY <1>1

(* What a loop has left to visit depends on the loop and its list alone.      *)
LEMMA LeftKept ==
  ASSUME TypeOK, loops' = loops,
         \A j \in 1 .. Len(loops) : heap'[loops[j].list] = heap[loops[j].list]
  PROVE  Left' = Left
<1>1. \A j \in 1 .. Len(loops) : Rest(loops[j])' = Rest(loops[j])
  BY DEF Rest
<1>2. QED
  BY <1>1 DEF Left

(* An allocation changes neither what is denoted nor what is left to visit.   *)
LEMMA AllocationKeeps ==
  ASSUME TypeOK, NEW o \in Objects, heap' = Append(heap, o)
  PROVE  /\ \A x \in Vars : var'[x] = var[x] => Denoted'[x] = Denoted[x]
         /\ loops' = loops => Left' = Left
<1>1. \A k \in 1 .. Len(heap) : heap'[k] = heap[k]
  BY Allocated DEF TypeOK
<1>2. \A j \in 1 .. Len(loops) : heap'[loops[j].list] = heap[loops[j].list]
  BY <1>1 DEF TypeOK
<1>3. QED
  BY <1>1, <1>2, DenotedKept, LeftKept

(* A mutation is seen by every sharer of the list and by no loop.             *)
LEMMA MutationSeen ==
  ASSUME TypeOK, SnapshotPrivate, NEW x \in Vars, Has(x), NEW o \in Objects, Mutate(x, o)
  PROVE  Abstract!Update(x, Contents(o))
<1>1. var' = var /\ loops' = loops /\ got' = got /\ status' = status /\ var[x] # Null
  BY DEF Mutate, Has
<1>2. heap'[var[x]] = o /\ \A k \in 1 .. Len(heap) : k # var[x] => heap'[k] = heap[k]
  BY <1>1, Mutated
<1>3. ASSUME NEW y \in Vars
      PROVE  Denoted'[y] = IF <<x, y>> \in Sharing THEN Contents(o) ELSE Denoted[y]
  <2>1. Denoted'[y] = IF var[y] = Null THEN Nothing ELSE Contents(heap'[var[y]])
    BY <1>1 DEF Denoted, Obj
  <2>2. Denoted[y] = IF var[y] = Null THEN Nothing ELSE Contents(heap[var[y]])
    BY DEF Denoted, Obj
  <2>3. <<x, y>> \in Sharing <=> var[x] = var[y]
    BY <1>1, DenotedType
  <2>4. CASE var[x] = var[y]
    BY <1>1, <1>2, <2>1, <2>3, <2>4
  <2>5. CASE var[x] # var[y]
    <3>1. var[y] # Null => heap'[var[y]] = heap[var[y]]
      BY <1>2, <2>5, ObjType
    <3>2. QED
      BY <2>1, <2>2, <2>3, <2>5, <3>1
  <2>6. QED
    BY <2>4, <2>5
<1>4. Denoted' = [y \in Vars |-> IF <<x, y>> \in Sharing THEN Contents(o) ELSE Denoted[y]]
  BY <1>3 DEF Denoted
<1>5. \A j \in 1 .. Len(loops) : heap'[loops[j].list] = heap[loops[j].list]
  BY <1>2 DEF SnapshotPrivate, TypeOK
<1>6. Left' = Left
  BY <1>1, <1>5, LeftKept
<1>7. Sharing' = Sharing
  BY <1>1 DEF Sharing
<1>8. QED
  BY <1>1, <1>4, <1>6, <1>7 DEF Abstract!Update

------------------------------------------------------------------------------
(* Setting a variable.                                                        *)

(* Two sets of pairs with the same pairs are equal.                           *)
LEMMA PairsEqual ==
  ASSUME NEW S, NEW A, NEW B, A \subseteq S \X S, B \subseteq S \X S,
         \A y, z \in S : <<y, z>> \in A <=> <<y, z>> \in B
  PROVE  A = B
<1>1. \A p \in S \X S : p = <<p[1], p[2]>> /\ p[1] \in S /\ p[2] \in S
  OBVIOUS
<1>2. \A p \in S \X S : p \in A <=> p \in B
  BY <1>1
<1>3. QED
  BY <1>2

(* x joins those whose reference is r, and leaves everybody else.             *)
LEMMA Rejoined ==
  ASSUME TypeOK, NEW x \in Vars, NEW r, r # Null, var' = [var EXCEPT ![x] = r]
  PROVE  Abstract!Rejoin(x, {z \in Vars : z # x /\ var[z] = r})
<1> DEFINE S == {z \in Vars : z # x /\ var[z] = r}
           after == {p \in Sharing : p[1] # x /\ p[2] # x}
                      \cup {<<x, y>> : y \in S \cup {x}} \cup {<<y, x>> : y \in S}
<1>1. var'[x] = r /\ \A y \in Vars : y # x => var'[y] = var[y]
  BY DEF TypeOK
<1>2. Sharing' = {p \in Vars \X Vars : var'[p[1]] # Null /\ var'[p[1]] = var'[p[2]]}
  BY DEF Sharing
<1>3. \A y, z \in Vars : <<y, z>> \in Sharing' <=> var'[y] # Null /\ var'[y] = var'[z]
  BY <1>2
<1>4. \A y, z \in Vars : <<y, z>> \in Sharing <=> var[y] # Null /\ var[y] = var[z]
  BY DEF Sharing
<1>5. ASSUME NEW y \in Vars, NEW z \in Vars
      PROVE  <<y, z>> \in after <=> <<y, z>> \in Sharing'
  <2>1. <<y, z>> \in after <=> \/ <<y, z>> \in Sharing /\ y # x /\ z # x
                               \/ y = x /\ z \in S \cup {x}
                               \/ z = x /\ y \in S
    OBVIOUS
  <2>2. CASE y # x /\ z # x
    BY <1>1, <1>3, <1>4, <2>1, <2>2
  <2>3. CASE y = x
    BY <1>1, <1>3, <2>1, <2>3
  <2>4. CASE y # x /\ z = x
    BY <1>1, <1>3, <2>1, <2>4
  <2>5. QED
    BY <2>2, <2>3, <2>4
<1>6. Sharing' \subseteq Vars \X Vars /\ after \subseteq Vars \X Vars
  BY <1>2 DEF Sharing
<1>7. Sharing' = after
  <2> DEFINE now == Sharing'
  <2>1. /\ now \subseteq Vars \X Vars /\ after \subseteq Vars \X Vars
        /\ \A y, z \in Vars : <<y, z>> \in now <=> <<y, z>> \in after
    BY <1>5, <1>6
  <2> HIDE DEF now, after
  <2>2. now = after
    BY <2>1, PairsEqual
  <2>3. QED
    BY <2>2 DEF now
<1>8. QED
  BY <1>7 DEF Abstract!Rejoin

(* `Set x to [items]' gives x a list nobody shares.                           *)
LEMMA SetToItemsImplements ==
  ASSUME TypeOK, NEW x \in Vars, NEW s \in Literals, SetToItems(x, s)
  PROVE  Abstract!SetToItems(x, s)
<1>1. s \in Seq(Cells) /\ Len(s) <= MaxLen
  BY CleanLiteral
<1>2. ListFrom(s) \in Objects /\ heap' = Append(heap, ListFrom(s))
  BY <1>1, ListFromObject DEF SetToItems
<1>3. /\ heap \in Seq(Objects) /\ Len(heap) \in Nat /\ Len(heap) + 1 # Null
      /\ heap'[Len(heap) + 1] = ListFrom(s)
  BY <1>2, Allocated, LenProperties DEF TypeOK, Null
<1>4. /\ loops' = loops /\ got' = got /\ status' = status
      /\ var' = [var EXCEPT ![x] = Len(heap) + 1]
  BY DEF SetToItems
<1>5. var'[x] = Len(heap) + 1 /\ \A y \in Vars : y # x => var'[y] = var[y]
  BY <1>4 DEF TypeOK
<1>6. Denoted'[x] = s
  <2>1. Denoted'[x] = Contents(heap'[var'[x]])
    BY <1>3, <1>5 DEF Denoted, Obj
  <2>2. QED
    BY <1>1, <1>3, <1>5, <2>1, FromContents
<1>7. Left' = Left /\ \A y \in Vars : y # x => Denoted'[y] = Denoted[y]
  BY <1>2, <1>4, <1>5, AllocationKeeps
<1>8. Denoted' = [Denoted EXCEPT ![x] = s]
  BY <1>6, <1>7 DEF Denoted
<1>9. Abstract!Rejoin(x, {})
  <2>1. {z \in Vars : z # x /\ var[z] = Len(heap) + 1} = {}
    BY <1>3 DEF TypeOK
  <2>2. QED
    BY <1>3, <1>4, <2>1, Rejoined
<1>10. QED
  BY <1>4, <1>7, <1>8, <1>9 DEF Abstract!SetToItems

(* `Set x to y' makes x one more sharer of the list of y.                     *)
LEMMA SetToListImplements ==
  ASSUME TypeOK, NEW x \in Vars, NEW y \in Vars, SetToList(x, y)
  PROVE  Abstract!SetToList(x, y)
<1>1. /\ var[y] # Null /\ var' = [var EXCEPT ![x] = var[y]]
      /\ heap' = heap /\ loops' = loops /\ got' = got /\ status' = status
  BY DEF SetToList, Has
<1>2. var'[x] = var[y] /\ \A z \in Vars : z # x => var'[z] = var[z]
  BY <1>1 DEF TypeOK
<1>3. Abstract!Defined(y)
  BY <1>1, DenotedType DEF Abstract!Defined
<1>4. Left' = Left
  BY <1>1, LeftKept
<1>5. CASE x = y
  <2>1. var' = var
    BY <1>1, <1>5 DEF TypeOK
  <2>2. Denoted' = Denoted /\ Sharing' = Sharing
    BY <1>1, <2>1 DEF Denoted, Sharing, Obj
  <2>3. QED
    BY <1>1, <1>3, <1>4, <1>5, <2>2 DEF Abstract!SetToList
<1>6. CASE x # y
  <2>1. Denoted'[x] = Denoted[y]
    BY <1>1, <1>2 DEF Denoted, Obj
  <2>2. \A z \in Vars : z # x => Denoted'[z] = Denoted[z]
    BY <1>1, <1>2, DenotedKept
  <2>3. Denoted' = [Denoted EXCEPT ![x] = Denoted[y]]
    BY <2>1, <2>2 DEF Denoted
  <2>4. {z \in Vars : z # x /\ var[z] = var[y]} = {z \in Vars : z # x /\ <<y, z>> \in Sharing}
    BY <1>1, DenotedType
  <2>5. Abstract!Rejoin(x, {z \in Vars : z # x /\ <<y, z>> \in Sharing})
    BY <1>1, <2>4, Rejoined
  <2>6. QED
    BY <1>1, <1>3, <1>4, <1>6, <2>3, <2>5 DEF Abstract!SetToList
<1>7. QED
  BY <1>5, <1>6

------------------------------------------------------------------------------
(* Mutating and reading a list, by position.                                  *)

(* A position inside a list is a position of the sequence it denotes.         *)
LEMMA PositionDenoted ==
  ASSUME TypeOK, NEW x \in Vars, NEW i \in Positions, Has(x), InRange(Obj(x), i)
  PROVE  /\ Obj(x) \in Objects /\ i \in 1 .. Obj(x).length /\ Cell(i) = i - 1
         /\ Denoted[x] = Contents(Obj(x)) /\ Abstract!Position(x, i)
         /\ Denoted[x][i] = Obj(x).items[Cell(i)]
<1>1. Obj(x) \in Objects /\ Obj(x).length \in Nat /\ var[x] # Null
  BY ObjType, ObjectFields DEF Has
<1>2. i \in 1 .. Obj(x).length /\ Cell(i) = i - 1 /\ i - 1 \in 0 .. Obj(x).length - 1
  BY <1>1 DEF InRange, Positions, Cell
<1>3. /\ Denoted[x] # Nothing /\ Denoted[x] = Contents(Obj(x))
      /\ Denoted[x] \in Seq(Cells) /\ Len(Denoted[x]) = Obj(x).length
  BY <1>1, DenotedType
<1>4. DOMAIN Denoted[x] = 1 .. Obj(x).length
  BY <1>3, LenProperties
<1>5. (i - 1) + 1 = i
  BY <1>2
<1>6. Denoted[x][i] = Obj(x).items[i - 1]
  BY <1>1, <1>2, <1>3, <1>5, ContentsSeq
<1>7. QED
  BY <1>1, <1>2, <1>3, <1>4, <1>6 DEF Abstract!Position, Abstract!Defined

(* Append appends to the sequence of every variable that shares the list.     *)
LEMMA AppendItemImplements ==
  ASSUME TypeOK, SnapshotPrivate, NEW x \in Vars, NEW v \in Values, AppendItem(x, v)
  PROVE  Abstract!AppendItem(x, v)
<1>1. Has(x) /\ Obj(x).length < MaxLen /\ Mutate(x, Appended(Obj(x), v)) /\ var[x] # Null
  BY DEF AppendItem, Has
<1>2. Obj(x) \in Objects /\ Denoted[x] = Contents(Obj(x)) /\ Denoted[x] # Nothing
  BY <1>1, ObjType, DenotedType
<1>3. Abstract!Update(x, Contents(Appended(Obj(x), v)))
  BY <1>1, <1>2, AppendedObject, MutationSeen
<1>4. Contents(Appended(Obj(x), v)) = Append(Denoted[x], v)
  BY <1>1, <1>2, AppendedContents
<1>5. QED
  BY <1>2, <1>3, <1>4 DEF Abstract!AppendItem, Abstract!Defined

(* Replace overwrites one position of that sequence.                          *)
LEMMA ReplaceItemImplements ==
  ASSUME TypeOK, SnapshotPrivate,
         NEW x \in Vars, NEW i \in Positions, NEW v \in Values, ReplaceItem(x, i, v)
  PROVE  Abstract!ReplaceItem(x, i, v)
<1>1. Has(x) /\ InRange(Obj(x), i) /\ Mutate(x, Stored(Obj(x), Cell(i), v))
  BY DEF ReplaceItem
<1>2. /\ Obj(x) \in Objects /\ i \in 1 .. Obj(x).length /\ Cell(i) = i - 1
      /\ Denoted[x] = Contents(Obj(x)) /\ Abstract!Position(x, i)
  BY <1>1, PositionDenoted
<1>3. Abstract!Update(x, Contents(Stored(Obj(x), i - 1, v)))
  BY <1>1, <1>2, Mutations, MutationSeen
<1>4. Contents(Stored(Obj(x), i - 1, v)) = [Denoted[x] EXCEPT ![i] = v]
  BY <1>2, StoredContents
<1>5. QED
  BY <1>2, <1>3, <1>4 DEF Abstract!ReplaceItem

(* Remove closes the gap in that sequence.                                    *)
LEMMA RemoveItemImplements ==
  ASSUME TypeOK, SnapshotPrivate, NEW x \in Vars, NEW i \in Positions, RemoveItem(x, i)
  PROVE  Abstract!RemoveItem(x, i)
<1>1. Has(x) /\ InRange(Obj(x), i) /\ Mutate(x, Removed(Obj(x), Cell(i)))
  BY DEF RemoveItem
<1>2. /\ Obj(x) \in Objects /\ i \in 1 .. Obj(x).length /\ Cell(i) = i - 1
      /\ Denoted[x] = Contents(Obj(x)) /\ Abstract!Position(x, i)
  BY <1>1, PositionDenoted
<1>3. Abstract!Update(x, Contents(Removed(Obj(x), i - 1)))
  BY <1>1, <1>2, Mutations, MutationSeen
<1>4. Contents(Removed(Obj(x), i - 1)) =
        SubSeq(Denoted[x], 1, i - 1) \o SubSeq(Denoted[x], i + 1, Len(Denoted[x]))
  BY <1>2, RemovedContents
<1>5. QED
  BY <1>2, <1>3, <1>4 DEF Abstract!RemoveItem

(* A step that leaves the heap alone changes nothing that is denoted.         *)
LEMMA NothingDenotedChanges ==
  ASSUME UNCHANGED <<heap, var>>
  PROVE  Denoted' = Denoted /\ Sharing' = Sharing /\ (loops' = loops => Left' = Left)
BY DEF Denoted, Sharing, Left, Rest, Obj

(* Reading an item yields the one at that position.                           *)
LEMMA ItemImplements ==
  ASSUME TypeOK, NEW x \in Vars, NEW i \in Positions, Item(x, i)
  PROVE  Abstract!Item(x, i)
<1>1. /\ Has(x) /\ InRange(Obj(x), i) /\ got' = Obj(x).items[Cell(i)]
      /\ UNCHANGED <<heap, var, loops, status>>
  BY DEF Item
<1>2. Abstract!Position(x, i) /\ got' = Denoted[x][i]
  BY <1>1, PositionDenoted
<1>3. Denoted' = Denoted /\ Sharing' = Sharing /\ Left' = Left /\ status' = status
  BY <1>1, NothingDenotedChanges
<1>4. QED
  BY <1>2, <1>3 DEF Abstract!Item

(* A program that ends ends with everything as it was.                        *)
LEMMA DieImplements ==
  ASSUME status' = "died", UNCHANGED <<heap, var, loops, got>>
  PROVE  Abstract!Die
BY NothingDenotedChanges DEF Abstract!Die

------------------------------------------------------------------------------
(* For each.                                                                  *)

(* What a loop whose counter is i has left of the list o.                     *)
LeftOf(o, i) == [k \in 1 .. o.length - i + 1 |-> o.items[Cell(i + k - 1)]]

(* A loop starts with the whole list and takes one item after the other.      *)
LEMMA LeftOfList ==
  ASSUME NEW o \in Objects, NEW i \in 1 .. o.length + 1
  PROVE  /\ LeftOf(o, i) \in Seq(Cells) /\ Len(LeftOf(o, i)) = o.length - i + 1
         /\ LeftOf(o, 1) = Contents(o)
         /\ i <= o.length => /\ LeftOf(o, i) # <<>>
                             /\ Head(LeftOf(o, i)) = o.items[Cell(i)]
                             /\ Tail(LeftOf(o, i)) = LeftOf(o, i + 1)
<1>1. o.length \in Nat /\ o.items \in [0 .. o.capacity - 1 -> Cells]
      /\ o.capacity \in Nat /\ o.length <= o.capacity
  BY ObjectFields
<1>2. ASSUME NEW j \in 1 .. o.length + 1
      PROVE  LeftOf(o, j) \in Seq(Cells) /\ Len(LeftOf(o, j)) = o.length - j + 1
  <2>1. o.length - j + 1 \in Nat
    BY <1>1
  <2>2. \A k \in 1 .. o.length - j + 1 : Cell(j + k - 1) \in 0 .. o.capacity - 1
    BY <1>1 DEF Cell
  <2>3. LeftOf(o, j) \in [1 .. o.length - j + 1 -> Cells]
    BY <1>1, <2>2 DEF LeftOf
  <2>4. QED
    BY <2>1, <2>3, SeqDef, LenProperties
<1>3. LeftOf(o, 1) = Contents(o)
  <2>1. o.length - 1 + 1 = o.length /\ \A k \in 1 .. o.length : Cell(1 + k - 1) = k - 1
    BY <1>1 DEF Cell
  <2>2. QED
    BY <2>1 DEF LeftOf, Contents
<1>4. ASSUME i <= o.length
      PROVE  /\ LeftOf(o, i) # <<>> /\ Head(LeftOf(o, i)) = o.items[Cell(i)]
             /\ Tail(LeftOf(o, i)) = LeftOf(o, i + 1)
  <2> DEFINE q == LeftOf(o, i)
             r == LeftOf(o, i + 1)
             n == o.length - i
  <2>1. n \in Nat /\ n + 1 = o.length - i + 1 /\ i + 1 \in 1 .. o.length + 1
        /\ n = o.length - (i + 1) + 1 /\ 1 \in 1 .. n + 1 /\ i + 1 - 1 = i
    BY <1>1, <1>4
  <2>2. q \in Seq(Cells) /\ Len(q) = n + 1 /\ r \in Seq(Cells) /\ Len(r) = n
    BY <1>2, <2>1
  <2>3. q[1] = o.items[Cell(i)]
    BY <2>1 DEF LeftOf
  <2>4. ASSUME NEW k \in 1 .. n PROVE q[k + 1] = r[k]
    <3>1. k + 1 \in 1 .. o.length - i + 1 /\ k \in 1 .. o.length - (i + 1) + 1
          /\ i + (k + 1) - 1 = (i + 1) + k - 1
      BY <1>1, <2>1
    <3>2. QED
      BY <3>1 DEF LeftOf
  <2> HIDE DEF q, r, n
  <2>5. q # <<>>
    BY <2>1, <2>2, EmptySeq
  <2>6. Head(q) = q[1]
    BY <2>2, <2>5
  <2>7. Tail(q) \in Seq(Cells) /\ Len(Tail(q)) = n
        /\ \A k \in 1 .. n : Tail(q)[k] = q[k + 1]
    BY <2>1, <2>2, <2>5, HeadTailProperties
  <2>8. Tail(q) = r
    BY <2>2, <2>4, <2>7, SeqEqual
  <2>9. QED
    BY <2>3, <2>5, <2>6, <2>8 DEF q, r
<1>5. QED
  BY <1>2, <1>3, <1>4

(* What the running loops have left is a sequence per loop.                   *)
LEMMA LeftType ==
  ASSUME TypeOK, SnapshotPrivate
  PROVE  /\ Left \in Seq(Seq(Cells)) /\ Len(Left) = Len(loops)
         /\ \A j \in 1 .. Len(loops) :
              /\ Left[j] = Rest(loops[j]) /\ heap[loops[j].list] \in Objects
              /\ loops[j].i \in 1 .. heap[loops[j].list].length + 1
              /\ Rest(loops[j]) = LeftOf(heap[loops[j].list], loops[j].i)
<1>1. Len(loops) \in Nat
  BY LenProperties DEF TypeOK
<1>2. ASSUME NEW j \in 1 .. Len(loops)
      PROVE  /\ heap[loops[j].list] \in Objects
             /\ loops[j].i \in 1 .. heap[loops[j].list].length + 1
             /\ Rest(loops[j]) = LeftOf(heap[loops[j].list], loops[j].i)
             /\ Rest(loops[j]) \in Seq(Cells)
  <2>1. heap[loops[j].list] \in Objects
    BY ElementOfSeq DEF TypeOK
  <2>2. /\ heap[loops[j].list].length = loops[j].n
        /\ loops[j].i \in 1 .. heap[loops[j].list].length + 1
    BY DEF SnapshotPrivate
  <2>3. Rest(loops[j]) = LeftOf(heap[loops[j].list], loops[j].i)
    BY <2>2 DEF Rest, LeftOf
  <2>4. QED
    BY <2>1, <2>2, <2>3, LeftOfList
<1>3. Left \in [1 .. Len(loops) -> Seq(Cells)]
  BY <1>2 DEF Left
<1>4. Left \in Seq(Seq(Cells)) /\ Len(Left) = Len(loops)
  BY <1>1, <1>3, SeqDef, LenProperties
<1>5. QED
  BY <1>2, <1>4 DEF Left

(* The loop copies the list it is given and walks the copy from the start.    *)
LEMMA BeginForEachImplements ==
  ASSUME TypeOK, SnapshotPrivate, NEW x \in Vars, BeginForEach(x)
  PROVE  Abstract!Enter(x)
<1> DEFINE o == CopyOf(Obj(x))
           l == [list |-> Len(heap) + 1, n |-> Obj(x).length, i |-> 1, type |-> ListType[x]]
<1>1. /\ var[x] # Null /\ heap' = Append(heap, o) /\ loops' = Append(loops, l)
      /\ var' = var /\ got' = got /\ status' = status
  BY DEF BeginForEach, Has
<1>2. /\ Obj(x) \in Objects /\ Denoted[x] = Contents(Obj(x)) /\ Denoted[x] # Nothing
      /\ Denoted[x] \in Seq(Cells) /\ Obj(x).length \in Nat
  BY <1>1, ObjType, DenotedType, ObjectFields
<1>3. o \in Objects /\ o.length = Obj(x).length /\ Contents(o) = Denoted[x]
  BY <1>2, CopyObject, CopyContents
<1>4. l \in Loops /\ l.list = Len(heap) + 1 /\ l.n = o.length /\ l.i = 1
  BY <1>2, <1>3, LenProperties DEF Loops, Ref, TypeOK
<1> HIDE DEF o, l
<1>5. /\ \A y \in Vars : var'[y] = var[y] => Denoted'[y] = Denoted[y]
      /\ heap'[Len(heap) + 1] = o /\ \A k \in 1 .. Len(heap) : heap'[k] = heap[k]
  BY <1>1, <1>3, Allocated, AllocationKeeps DEF TypeOK
<1>6. Denoted' = Denoted /\ Sharing' = Sharing
  BY <1>1, <1>5 DEF Denoted, Sharing
<1>7. /\ Len(loops') = Len(loops) + 1 /\ loops'[Len(loops) + 1] = l /\ Len(loops) \in Nat
      /\ \A j \in 1 .. Len(loops) : loops'[j] = loops[j]
  BY <1>1, <1>4, AppendProperties, LenProperties DEF TypeOK
<1>8. Left' = Append(Left, Denoted[x])
  <2> DEFINE q == Append(Left, Denoted[x])
             over(obj, m) == [k \in 1 .. m.n - m.i + 1 |-> obj.items[Cell(m.i + k - 1)]]
  <2>0. \A j \in 1 .. Len(loops') : Left'[j] = over(heap'[loops'[j].list], loops'[j])
    BY DEF Left, Rest
  <2>1. Left \in Seq(Seq(Cells)) /\ Len(Left) = Len(loops)
        /\ \A j \in 1 .. Len(loops) : Left[j] = Rest(loops[j])
    BY LeftType
  <2>2. /\ q \in Seq(Seq(Cells)) /\ Len(q) = Len(loops) + 1
        /\ q[Len(loops) + 1] = Denoted[x] /\ \A j \in 1 .. Len(loops) : q[j] = Left[j]
    BY <1>2, <2>1, AppendProperties
  <2> HIDE DEF q
  <2>3. ASSUME NEW j \in 1 .. Len(loops) PROVE Left'[j] = q[j]
    <3>1. loops'[j] = loops[j] /\ heap'[loops[j].list] = heap[loops[j].list]
      BY <1>5, <1>7 DEF TypeOK
    <3>2. Left'[j] = over(heap'[loops'[j].list], loops'[j])
      <4>1. j \in 1 .. Len(loops')
        BY <1>7
      <4> HIDE DEF over
      <4>2. QED
        BY <2>0, <4>1
    <3>3. q[j] = over(heap[loops[j].list], loops[j])
      BY <2>1, <2>2 DEF Rest
    <3> HIDE DEF over
    <3>4. QED
      BY <3>1, <3>2, <3>3
  <2>4. Left'[Len(loops) + 1] = q[Len(loops) + 1]
    <3>1. Left'[Len(loops) + 1] = over(heap'[loops'[Len(loops) + 1].list], loops'[Len(loops) + 1])
      <4>1. Len(loops) + 1 \in 1 .. Len(loops')
        BY <1>7
      <4> HIDE DEF over
      <4>2. QED
        BY <2>0, <4>1
    <3>2. heap'[loops'[Len(loops) + 1].list] = o /\ loops'[Len(loops) + 1] = l
      BY <1>4, <1>5, <1>7
    <3>3. over(o, l) = LeftOf(o, 1)
      BY <1>4 DEF LeftOf
    <3> HIDE DEF over
    <3>4. Left'[Len(loops) + 1] = LeftOf(o, 1)
      BY <3>1, <3>2, <3>3
    <3>5. QED
      BY <1>2, <1>3, <2>2, <3>4, LeftOfList, ObjectFields
  <2>5. Left' = [j \in 1 .. Len(loops) + 1 |-> Left'[j]]
    BY <1>7 DEF Left
  <2>6. q = [j \in 1 .. Len(loops) + 1 |-> q[j]]
    BY <2>2, LenProperties
  <2>7. \A j \in 1 .. Len(loops) + 1 : j \in 1 .. Len(loops) \/ j = Len(loops) + 1
    BY <1>7
  <2>8. QED
    BY <2>3, <2>4, <2>5, <2>6, <2>7 DEF q
<1>9. QED
  BY <1>1, <1>2, <1>6, <1>8 DEF Abstract!Enter, Abstract!Defined

(* ps_list_get(list, i) is the next item of what the loop has left.           *)
LEMMA NextItemImplements ==
  ASSUME TypeOK, SnapshotPrivate, NextItem
  PROVE  Abstract!Visit \/ Abstract!Die
<1> DEFINE m == Len(loops)
           o == heap[Loop.list]
           l == [Loop EXCEPT !.i = Loop.i + 1]
<1>1. /\ Running /\ loops # <<>> /\ Loop.i <= Loop.n
      /\ heap' = heap /\ var' = var
  BY DEF NextItem
<1>2. /\ m \in 1 .. Len(loops) /\ m \in Nat /\ m # 0 /\ Loop \in Loops /\ Loop = loops[m]
      /\ o \in Objects
  BY <1>1, LoopType DEF Loop
<1>3. /\ o.length = Loop.n /\ Loop.i \in 1 .. o.length + 1
      /\ Left[m] = LeftOf(o, Loop.i) /\ Loop.i <= o.length
  BY <1>1, <1>2, LeftType DEF SnapshotPrivate
<1>4. InRange(o, Loop.i)
  BY <1>2, <1>3, ObjectFields DEF InRange
<1>5. /\ got' = o.items[Cell(Loop.i)] /\ status' = status
      /\ loops' = [loops EXCEPT ![m] = l]
  BY <1>4 DEF NextItem, Loop
<1>6. l \in Loops /\ l.list = Loop.list /\ l.n = Loop.n /\ l.i = Loop.i + 1
  BY <1>2 DEF Loops
<1>7. /\ LeftOf(o, Loop.i) # <<>> /\ Head(LeftOf(o, Loop.i)) = o.items[Cell(Loop.i)]
      /\ Tail(LeftOf(o, Loop.i)) = LeftOf(o, Loop.i + 1)
  BY <1>2, <1>3, LeftOfList
<1>8. /\ Left \in Seq(Seq(Cells)) /\ Len(Left) = m
      /\ \A j \in 1 .. m : Left[j] = Rest(loops[j])
  BY LeftType
<1> HIDE DEF m, o, l
<1>9. /\ Len(loops') = m /\ loops'[m] = l
      /\ \A j \in 1 .. m : j # m => loops'[j] = loops[j]
  BY <1>2, <1>5, <1>6, ExceptSeq DEF TypeOK, m
<1>10. Left' = [Left EXCEPT ![m] = LeftOf(o, Loop.i + 1)]
  <2>1. \A j \in 1 .. m : j # m => Left'[j] = Left[j]
    BY <1>1, <1>8, <1>9 DEF Left, Rest
  <2>2. Left'[m] = LeftOf(o, Loop.i + 1)
    <3>1. Left'[m] = [k \in 1 .. l.n - l.i + 1 |-> heap[l.list].items[Cell(l.i + k - 1)]]
      BY <1>1, <1>2, <1>9 DEF Left, Rest
    <3>2. QED
      BY <1>3, <1>6, <3>1 DEF LeftOf, o
  <2>3. Left' = [j \in 1 .. m |-> Left'[j]]
    BY <1>9 DEF Left
  <2>4. [Left EXCEPT ![m] = LeftOf(o, Loop.i + 1)] =
          [j \in 1 .. m |-> IF j = m THEN LeftOf(o, Loop.i + 1) ELSE Left[j]]
    BY <1>8, LenProperties
  <2>5. QED
    BY <2>1, <2>2, <2>3, <2>4
<1>11. Denoted' = Denoted /\ Sharing' = Sharing
  BY <1>1, NothingDenotedChanges
<1>12. Abstract!Inner = LeftOf(o, Loop.i)
  BY <1>3, <1>8 DEF Abstract!Inner
<1>13. Left # <<>>
  BY <1>2, <1>8, EmptySeq
<1>14. QED
  BY <1>5, <1>7, <1>8, <1>10, <1>11, <1>12, <1>13 DEF Abstract!Visit

(* The end of a For each drops what its loop had left.                        *)
LEMMA EndForEachImplements ==
  ASSUME TypeOK, SnapshotPrivate, EndForEach
  PROVE  Abstract!Leave
<1>1. /\ loops # <<>> /\ loops' = SubSeq(loops, 1, Len(loops) - 1)
      /\ UNCHANGED <<heap, var, got, status>>
  BY DEF EndForEach
<1>2. Len(loops) \in Nat \ {0}
  BY <1>1, LoopType
<1>3. Len(loops') = Len(loops) - 1 /\ \A j \in 1 .. Len(loops) - 1 : loops'[j] = loops[j]
  BY <1>1, <1>2, AllButLast DEF TypeOK
<1>4. /\ Left \in Seq(Seq(Cells)) /\ Len(Left) = Len(loops)
      /\ \A j \in 1 .. Len(loops) : Left[j] = Rest(loops[j])
  BY LeftType
<1>5. Left # <<>>
  BY <1>2, <1>4, EmptySeq
<1>6. Left' = SubSeq(Left, 1, Len(Left) - 1)
  <2> DEFINE q == SubSeq(Left, 1, Len(Left) - 1)
  <2>1. /\ q \in Seq(Seq(Cells)) /\ Len(q) = Len(loops) - 1
        /\ \A j \in 1 .. Len(loops) - 1 : q[j] = Left[j]
    BY <1>2, <1>4, AllButLast
  <2> HIDE DEF q
  <2>2. \A j \in 1 .. Len(loops) - 1 : j \in 1 .. Len(loops)
    BY <1>2
  <2>3. \A j \in 1 .. Len(loops) - 1 : Left'[j] = q[j]
    BY <1>1, <1>3, <1>4, <2>1, <2>2 DEF Left, Rest
  <2>4. Left' = [j \in 1 .. Len(loops) - 1 |-> Left'[j]]
    BY <1>3 DEF Left
  <2>5. q = [j \in 1 .. Len(loops) - 1 |-> q[j]]
    BY <2>1, LenProperties
  <2>6. QED
    BY <2>3, <2>4, <2>5 DEF q
<1>7. Denoted' = Denoted /\ Sharing' = Sharing
  BY <1>1, NothingDenotedChanges
<1>8. QED
  BY <1>1, <1>5, <1>6, <1>7 DEF Abstract!Leave

------------------------------------------------------------------------------
(* Refinement.                                                                *)

(* Every step of the runtime is the documented step, or changes nothing that  *)
(* is documented.                                                             *)
LEMMA StepImplements ==
  ASSUME TypeOK, SnapshotPrivate, [Next]_vars
  PROVE  [Abstract!Next]_Abstract!vars
<1>1. ASSUME NEW x \in Vars, NEW s \in Literals, SetToItems(x, s) PROVE Abstract!Next
  BY <1>1, SetToItemsImplements DEF SetToItems, Running, Abstract!Next
<1>2. ASSUME NEW x \in Vars, NEW y \in Vars, SetToList(x, y) PROVE Abstract!Next
  BY <1>2, SetToListImplements DEF SetToList, Has, Running, Abstract!Next
<1>3. ASSUME NEW x \in Vars, NEW v \in Values, AppendItem(x, v) PROVE Abstract!Next
  BY <1>3, AppendItemImplements DEF AppendItem, Has, Running, Abstract!Next
<1>4. ASSUME NEW x \in Vars, NEW i \in Positions, RemoveItem(x, i) PROVE Abstract!Next
  BY <1>4, RemoveItemImplements DEF RemoveItem, Has, Running, Abstract!Next
<1>5. ASSUME NEW x \in Vars, NEW i \in Positions, Item(x, i) PROVE Abstract!Next
  BY <1>5, ItemImplements DEF Item, Has, Running, Abstract!Next
<1>6. ASSUME NEW x \in Vars, NEW i \in Positions, NEW v \in Values, ReplaceItem(x, i, v)
      PROVE  Abstract!Next
  BY <1>6, ReplaceItemImplements DEF ReplaceItem, Has, Running, Abstract!Next
<1>7. ASSUME NEW x \in Vars, BeginForEach(x) PROVE Abstract!Next
  BY <1>7, BeginForEachImplements DEF BeginForEach, Has, Running, Abstract!Next
<1>8. ASSUME Running, status' = "died", UNCHANGED <<heap, var, loops, got>>
      PROVE  Abstract!Next
  BY <1>8, DieImplements DEF Running, Abstract!Next
<1>9. ASSUME NEW x \in Vars, NEW i \in Positions, OutOfRange(x, i) \/ NotAList(x)
      PROVE  Abstract!Next
  BY <1>8, <1>9 DEF OutOfRange, NotAList, Has
<1>10. CASE NextItem
  BY <1>10, NextItemImplements DEF NextItem, Running, Abstract!Next
<1>11. CASE EndForEach
  BY <1>11, EndForEachImplements DEF EndForEach, Running, Abstract!Next
<1>12. CASE OutOfMemory
  BY <1>8, <1>12 DEF OutOfMemory
<1>13. CASE UNCHANGED vars
  BY <1>13, NothingDenotedChanges DEF vars, Abstract!vars
<1>14. 0 \in Positions
  BY DEF Positions
<1>15. QED
  BY <1>1, <1>2, <1>3, <1>4, <1>5, <1>6, <1>7, <1>9, <1>10, <1>11, <1>12, <1>13, <1>14
     DEF Next

(* The heap of list objects, with its spare room, its shared references and   *)
(* the copies For each makes, implements the documented lists: a variable     *)
(* denotes a sequence, sharers see each other's changes, nobody else does,    *)
(* and a loop visits the sequence there was when it began.                    *)
THEOREM ListsImplementSequences == Spec => Implements
<1>1. Init => Abstract!Init
  <2>1. ASSUME Init PROVE Denoted = [x \in Vars |-> Nothing] /\ Sharing = {} /\ Left = <<>>
    <3>1. Denoted = [x \in Vars |-> Nothing] /\ Sharing = {}
      BY <2>1 DEF Init, Denoted, Sharing
    <3>2. Left = [j \in 1 .. 0 |-> Rest(loops[j])]
      BY <2>1, EmptySeq DEF Init, Left
    <3>3. Left \in Seq(Nat) /\ Len(Left) = 0
      <4>1. Left \in [1 .. 0 -> Nat]
        BY <3>2
      <4>2. QED
        BY <4>1, SeqDef, LenProperties
    <3>4. QED
      BY <3>1, <3>3, EmptySeq
  <2>2. QED
    BY <2>1 DEF Init, Abstract!Init
<1>2. TypeOK /\ SnapshotPrivate /\ [Next]_vars => [Abstract!Next]_Abstract!vars
  BY StepImplements
<1>3. QED
  BY <1>1, <1>2, TypeCorrect, SnapshotsPrivate, PTL DEF Spec, Implements, Abstract!Spec

(* What a statement about item i does to the heap is what the documented      *)
(* statement does to item i of the sequence: ps_list_get, ps_list_set and     *)
(* ps_list_remove never miss their position by one.                           *)
THEOREM PositionsAgree == Spec => ItemByItem
<1> DEFINE Same ==
      \A x \in Vars : \A i \in Positions :
        /\ Item(x, i) => Abstract!Item(x, i)
        /\ RemoveItem(x, i) => Abstract!RemoveItem(x, i)
        /\ \A v \in Values : ReplaceItem(x, i, v) => Abstract!ReplaceItem(x, i, v)
<1>1. TypeOK /\ SnapshotPrivate /\ [Next]_vars => [Same]_vars
  BY ItemImplements, RemoveItemImplements, ReplaceItemImplements
<1>2. Spec => [][Same]_vars
  <2> HIDE DEF Same
  <2>1. QED
    BY <1>1, TypeCorrect, SnapshotsPrivate, PTL DEF Spec
<1>3. QED
  BY <1>2 DEF ItemByItem
===============================================================================
