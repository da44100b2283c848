--------------------------- MODULE ReturnPathProofs ---------------------------
(* Proofs about ReturnPath, for every set of forms, labels and every bound.    *)
EXTENDS ReturnPath, FiniteSetTheorems, WellFoundedInduction, TLAPS

------------------------------------------------------------------------------
(* Stacks: the three ways an action changes `frames'.                         *)

(* The innermost element of a non-empty stack.                                *)
LEMMA TopIn ==
  ASSUME NEW F, NEW s \in Seq(F), Len(s) >= 1
  PROVE  s[Len(s)] \in F
OBVIOUS

(* Replacing the innermost element.                                           *)
LEMMA ReplaceIn ==
  ASSUME NEW F, NEW s \in Seq(F), Len(s) >= 1, NEW f \in F
  PROVE  /\ [s EXCEPT ![Len(s)] = f] \in Seq(F)
         /\ Len([s EXCEPT ![Len(s)] = f]) = Len(s)
OBVIOUS

(* A stack of one.                                                            *)
LEMMA SingletonIn ==
  ASSUME NEW F, NEW f \in F
  PROVE  <<f>> \in Seq(F) /\ Len(<<f>>) >= 1
OBVIOUS

(* Adding one.                                                                *)
LEMMA PushIn ==
  ASSUME NEW F, NEW s \in Seq(F), NEW f \in F
  PROVE  Append(s, f) \in Seq(F) /\ Len(Append(s, f)) >= 1
OBVIOUS

(* Dropping one and replacing the one below.                                  *)
LEMMA PopIn ==
  ASSUME NEW F, NEW s \in Seq(F), Len(s) > 1, NEW f \in F
  PROVE  LET n == Len(s) - 1
             t == [SubSeq(s, 1, n) EXCEPT ![n] = f]
         IN  s[n] \in F /\ SubSeq(s, 1, n)[n] = s[n] /\ t \in Seq(F) /\ Len(t) >= 1
<1> DEFINE n == Len(s) - 1
           u == SubSeq(s, 1, n)
<1>1. u \in Seq(F) /\ Len(u) = n /\ n >= 1 /\ u[n] = s[n] /\ s[n] \in F
  OBVIOUS
<1>2. QED
  BY <1>1, ReplaceIn

(* A statement in front of a block keeps the block a frame.                   *)
LEMMA InFrontType ==
  ASSUME NEW f \in Frames, NEW n \in Int
  PROVE  InFront(f, n) \in Frames
BY DEF InFront, Frames, Views, Points, First

(* Points are points.                                                         *)
LEMMA PointType ==
  ASSUME NEW n \in Int
  PROVE  First(n) \in Points /\ Again(n) \in Points
BY DEF First, Again, Points

(* The node of a point.                                                       *)
LEMMA PointNode ==
  ASSUME NEW n
  PROVE  First(n)[1] = n /\ Again(n)[1] = n
BY DEF First, Again

(* Where a loop body goes back to.                                            *)
LEMMA BackType ==
  ASSUME NEW kind, NEW head \in Int
  PROVE  /\ BackNode(kind, head) \in Int /\ BackPoint(kind, head) \in Points
         /\ BackPoint(kind, head)[1] = BackNode(kind, head)
<1>1. BackNode(kind, head) \in Int
  BY DEF BackNode
<1>2. CASE kind \in Counted
  <2>1. kind # "dowhile"
    BY <1>2 DEF Counted
  <2>2. QED
    BY <1>2, <2>1, PointType, PointNode DEF BackPoint, BackNode
<1>3. CASE kind \notin Counted
  BY <1>1, <1>3, PointType, PointNode DEF BackPoint
<1>4. QED
  BY <1>1, <1>2, <1>3

(* The fields of a frame.                                                     *)
LEMMA FrameFields ==
  ASSUME NEW f \in Frames
  PROVE  /\ f.head \in Int /\ f.broke \in BOOLEAN /\ f.default \in BOOLEAN
         /\ f.live \in BOOLEAN /\ f.test \in Tests
         /\ f.g \in Views(Int) /\ f.c \in Views(Points)
         /\ f.g.out \in Int /\ f.g.succ \in Int /\ f.g.brk \in Int /\ f.g.cn \in Int
         /\ f.c.out \in Points /\ f.c.succ \in Points /\ f.c.brk \in Points
         /\ f.c.cn \in Points
BY DEF Frames, Views

(* A freshly opened block is a frame.                                         *)
LEMMA FrameType ==
  ASSUME NEW kind \in {"body", "then", "else", "compiled", "clause"} \cup LoopKinds,
         NEW test \in Tests, NEW head \in Int, NEW live \in BOOLEAN,
         NEW default \in BOOLEAN, NEW g \in Views(Int), NEW c \in Views(Points)
  PROVE  Frame(kind, test, head, live, default, g, c) \in Frames
BY DEF Frame, Frames

(* Marking a block keeps it a frame.                                           *)
LEMMA MarkType ==
  ASSUME NEW f \in Frames, NEW b
  PROVE  Mark(f, b) \in Frames
BY DEF Mark, Frames

(* Popping the stack onto a frame.                                            *)
LEMMA PopType ==
  ASSUME frames \in Seq(Frames), Len(frames) > 1, NEW f \in Frames
  PROVE  Pop(f) \in Seq(Frames) /\ Len(Pop(f)) >= 1
BY PopIn DEF Pop

(* Closing a block puts the statement in front of the block below.            *)
LEMMA PoppedType ==
  ASSUME frames \in Seq(Frames), Len(frames) > 1, NEW n \in Int, NEW b
  PROVE  Popped(n, b) \in Seq(Frames) /\ Len(Popped(n, b)) >= 1
<1>1. Below \in Frames
  BY PopIn, TopIn DEF Below
<1>2. QED
  BY <1>1, InFrontType, MarkType, PopType DEF Popped

(* Replacing the innermost block.                                             *)
LEMMA ReplaceTopType ==
  ASSUME TypeOK, NEW f \in Frames
  PROVE  ReplaceTop(f) \in Seq(Frames) /\ Len(ReplaceTop(f)) >= 1
BY ReplaceIn DEF ReplaceTop, TypeOK

(* What TypeOK says of the innermost block.                                   *)
LEMMA TopType ==
  ASSUME TypeOK
  PROVE  /\ Top \in Frames
         /\ next \in Int /\ First(next) \in Points /\ Again(next) \in Points
         /\ First(Top.head) \in Points /\ Again(Top.head) \in Points
BY TopIn, PointType, FrameFields DEF TypeOK, Top

(* Adding typed edges.                                                        *)
LEMMA AddEdgesType ==
  ASSUME TypeOK, NEW g \in SUBSET (Int \X Int), NEW c \in SUBSET (Points \X Points),
         AddEdges(g, c)
  PROVE  succs' \subseteq Int \X Int /\ cEdges' \subseteq Points \X Points
BY DEF AddEdges, IfLive, TypeOK

------------------------------------------------------------------------------
(* Type correctness.                                                          *)

(* The statements without a body.                                             *)
LEMMA OneNodeType ==
  ASSUME TypeOK,
         Complete \/ CallNoReturn \/ Return \/ Break \/ Continue
           \/ (\E l \in Labels : Goto(l) \/ Label(l))
  PROVE  TypeOK'
<1>1. /\ Top \in Frames /\ next \in Int /\ next + 1 \in Nat /\ stmts + 1 \in Nat
      /\ First(next) \in Points
      /\ Top.g.succ \in Int /\ Top.g.brk \in Int /\ Top.g.cn \in Int
      /\ Top.c.succ \in Points /\ Top.c.brk \in Points /\ Top.c.cn \in Points
  BY TopType, FrameFields DEF TypeOK
<1>2. /\ ReplaceTop(InFront(Top, next)) \in Seq(Frames)
      /\ Len(ReplaceTop(InFront(Top, next))) >= 1
      /\ ReplaceTop(Mark(InFront(Top, next), TRUE)) \in Seq(Frames)
      /\ Len(ReplaceTop(Mark(InFront(Top, next), TRUE))) >= 1
  BY <1>1, InFrontType, MarkType, ReplaceTopType
<1>3. CASE Complete
  <2>1. succs' \subseteq Int \X Int /\ cEdges' \subseteq Points \X Points
    BY <1>1, <1>3, AddEdgesType, {<<next, Top.g.succ>>} \in SUBSET (Int \X Int),
       {<<First(next), Top.c.succ>>} \in SUBSET (Points \X Points) DEF Complete
  <2>2. QED
    BY <1>1, <1>2, <1>3, <2>1 DEF Complete, OneNode, TypeOK
<1>4. CASE CallNoReturn
  <2>1. succs' \subseteq Int \X Int /\ cEdges' \subseteq Points \X Points
    BY <1>1, <1>4, AddEdgesType, {<<next, Top.g.succ>>} \in SUBSET (Int \X Int)
       DEF CallNoReturn
  <2>2. QED
    BY <1>1, <1>2, <1>4, <2>1 DEF CallNoReturn, OneNode, TypeOK
<1>5. CASE Return
  BY <1>1, <1>2, <1>5 DEF Return, OneNode, IfLive, TypeOK
<1>6. CASE Break
  <2>1. JumpEdge(Top.g.brk) \in SUBSET (Int \X Int)
    BY <1>1 DEF JumpEdge
  <2>2. succs' \subseteq Int \X Int /\ cEdges' \subseteq Points \X Points
    BY <1>1, <1>6, <2>1, AddEdgesType,
       {<<First(next), Top.c.brk>>} \in SUBSET (Points \X Points) DEF Break
  <2>3. QED
    BY <1>1, <1>2, <1>6, <2>2 DEF Break, OneNode, TypeOK
<1>7. CASE Continue
  <2>1. JumpEdge(Top.g.cn) \in SUBSET (Int \X Int)
    BY <1>1 DEF JumpEdge
  <2>2. succs' \subseteq Int \X Int /\ cEdges' \subseteq Points \X Points
    BY <1>1, <1>7, <2>1, AddEdgesType,
       {<<First(next), Top.c.cn>>} \in SUBSET (Points \X Points) DEF Continue
  <2>3. QED
    BY <1>1, <1>2, <1>7, <2>2 DEF Continue, OneNode, TypeOK
<1>8. ASSUME NEW l \in Labels, Goto(l)
      PROVE  TypeOK'
  BY <1>1, <1>2, <1>8 DEF Goto, OneNode, IfLive, TypeOK
<1>9. ASSUME NEW l \in Labels, Label(l)
      PROVE  TypeOK'
  <2>1. succs' \subseteq Int \X Int /\ cEdges' \subseteq Points \X Points
    BY <1>1, <1>9, AddEdgesType, {<<next, Top.g.succ>>} \in SUBSET (Int \X Int),
       {<<First(next), Top.c.succ>>} \in SUBSET (Points \X Points) DEF Label
  <2>2. QED
    BY <1>1, <1>2, <1>9, <2>1 DEF Label, OneNode, TypeOK
<1>10. QED
  BY <1>3, <1>4, <1>5, <1>6, <1>7, <1>8, <1>9

(* Opening a block.                                                           *)
LEMMA OpenType ==
  ASSUME TypeOK, NEW form, NEW nodes \in Nat, NEW f \in Frames, Open(form, nodes, f)
  PROVE  TypeOK'
BY PushIn DEF Open, TypeOK

(* The view a nested block starts with.                                       *)
LEMMA InheritType ==
  ASSUME NEW S, NEW v \in Views(S)
  PROVE  /\ Inherit(v) \in Views(S)
         /\ [Inherit(v) EXCEPT !.brk = v.succ] \in Views(S)
BY DEF Inherit, Views

(* Blocks opened.                                                             *)
LEMMA OpensType ==
  ASSUME TypeOK,
         \/ \E test \in Tests : OpenIf(test)
         \/ \E test \in Tests, kind \in LoopKinds : OpenLoop(kind, test)
         \/ \E b \in BOOLEAN : OpenCompileIf(b) \/ OpenSwitch(b)
  PROVE  TypeOK'
<1>1. /\ Top.live \in BOOLEAN /\ next \in Int /\ NoNode \in Int /\ next + 1 \in Int
      /\ Inherit(Top.g) \in Views(Int) /\ Inherit(Top.c) \in Views(Points)
      /\ [Inherit(Top.g) EXCEPT !.brk = Top.g.succ] \in Views(Int)
      /\ [Inherit(Top.c) EXCEPT !.brk = Top.c.succ] \in Views(Points)
      /\ Top.g.succ \in Int /\ Top.g.cn \in Int /\ Top.c.succ \in Points
  BY TopType, FrameFields, InheritType DEF NoNode
<1>2. ASSUME NEW test \in Tests, OpenIf(test) PROVE TypeOK'
  <2>1. Frame("then", test, next, Top.live, FALSE, Inherit(Top.g), Inherit(Top.c))
          \in Frames
    BY <1>1, FrameType
  <2>2. QED
    BY <1>2, <2>1, OpenType DEF OpenIf
<1>3. ASSUME NEW test \in Tests, NEW kind \in LoopKinds, OpenLoop(kind, test)
      PROVE  TypeOK'
  <2> DEFINE back == BackNode(kind, next)
             point == BackPoint(kind, next)
             g == View(Top.g.succ, back, Top.g.succ,
                       IF kind = "repeat" THEN Top.g.cn ELSE back)
             c == View(Top.c.succ, point, Top.c.succ, point)
  <2>1. back \in Int /\ point \in Points
    BY <1>1, PointType DEF BackNode, BackPoint
  <2>2. g \in Views(Int) /\ c \in Views(Points)
    BY <1>1, <2>1 DEF View, Views
  <2>3. Frame(kind, test, next, Top.live, FALSE, g, c) \in Frames
    BY <1>1, <2>2, FrameType
  <2>4. Open(<<kind, test>> \in Headers, IF kind = "dowhile" THEN 2 ELSE 1,
             Frame(kind, test, next, Top.live, FALSE, g, c))
    BY <1>3 DEF OpenLoop
  <2>5. (IF kind = "dowhile" THEN 2 ELSE 1) \in Nat
    OBVIOUS
  <2> HIDE DEF g, c
  <2>6. QED
    BY <2>3, <2>4, <2>5, OpenType
<1>4. ASSUME NEW b \in BOOLEAN, OpenCompileIf(b) PROVE TypeOK'
  <2>1. Frame("compiled", "runtime", NoNode, b, FALSE, Inherit(Top.g), Inherit(Top.c))
          \in Frames
    BY <1>1, FrameType DEF Tests
  <2>2. QED
    BY <1>4, <2>1, OpenType DEF OpenCompileIf
<1>5. ASSUME NEW b \in BOOLEAN, OpenSwitch(b) PROVE TypeOK'
  <2>1. Frame("clause", "runtime", next, Top.live, b,
              [Inherit(Top.g) EXCEPT !.brk = Top.g.succ],
              [Inherit(Top.c) EXCEPT !.brk = Top.c.succ]) \in Frames
    BY <1>1, FrameType DEF Tests
  <2>2. QED
    BY <1>5, <2>1, OpenType DEF OpenSwitch
<1>6. QED
  BY <1>2, <1>3, <1>4, <1>5

(* Closing a block and putting node n in front of the one below.              *)
LEMMA CloseType ==
  ASSUME TypeOK, NEW kinds, NEW n \in Int, NEW b, Close(kinds, n, b),
         NEW g \in SUBSET (Int \X Int), NEW c \in SUBSET (Points \X Points),
         AddEdges(g, c)
  PROVE  TypeOK'
<1>1. succs' \subseteq Int \X Int /\ cEdges' \subseteq Points \X Points
  BY AddEdgesType
<1>2. frames' \in Seq(Frames) /\ Len(frames') >= 1
  BY PoppedType DEF Close, TypeOK
<1>3. QED
  BY <1>1, <1>2 DEF Close, TypeOK

(* Blocks closed, and the clauses and Else blocks in between.                 *)
LEMMA ClosesType ==
  ASSUME TypeOK,
         \/ BeginElse \/ CloseIf \/ CloseElse \/ CloseLoop \/ CloseCompileIf \/ CloseSwitch
         \/ \E b \in BOOLEAN : PreviousClause(b)
  PROVE  TypeOK'
<1> DEFINE f == Top
           back == BackNode(f.kind, f.head)
<1>1. /\ f \in Frames /\ f.head \in Int /\ back \in Int
      /\ f.g.succ \in Int /\ f.g.out \in Int
      /\ f.c.succ \in Points /\ f.c.out \in Points
      /\ First(f.head) \in Points /\ Again(f.head) \in Points /\ First(back) \in Points
  BY TopType, FrameFields, PointType DEF BackNode
<1>2. /\ ThenEdge(f) \in SUBSET (Points \X Points)
      /\ ElseEdge(f, f.c.out) \in SUBSET (Points \X Points)
      /\ ElseEdge(f, f.c.succ) \in SUBSET (Points \X Points)
  BY <1>1 DEF ThenEdge, ElseEdge
<1>3. LoopEdges(f) \in SUBSET (Int \X Int) /\ CLoopEdges(f) \in SUBSET (Points \X Points)
  BY <1>1 DEF LoopEdges, CLoopEdges
<1>4. CASE BeginElse
  <2>1. {<<f.head, f.g.succ>>} \in SUBSET (Int \X Int)
    BY <1>1
  <2>2. succs' \subseteq Int \X Int /\ cEdges' \subseteq Points \X Points
    BY <1>2, <1>4, <2>1, AddEdgesType DEF BeginElse
  <2>3. [f EXCEPT !.kind = "else", !.g.succ = f.g.out, !.c.succ = f.c.out] \in Frames
    BY <1>1 DEF Frames, Views
  <2>4. frames' \in Seq(Frames) /\ Len(frames') >= 1
    BY <1>4, <2>3, ReplaceTopType DEF BeginElse
  <2>5. QED
    BY <1>4, <2>2, <2>4 DEF BeginElse, TypeOK
<1>5. CASE CloseIf
  BY <1>1, <1>2, <1>5, CloseType,
     {<<f.head, f.g.succ>>, <<f.head, f.g.out>>} \in SUBSET (Int \X Int),
     ThenEdge(f) \cup ElseEdge(f, f.c.out) \in SUBSET (Points \X Points) DEF CloseIf
<1>6. CASE CloseElse
  BY <1>1, <1>2, <1>6, CloseType, {<<f.head, f.g.succ>>} \in SUBSET (Int \X Int)
     DEF CloseElse
<1>7. CASE CloseLoop
  BY <1>1, <1>3, <1>7, CloseType DEF CloseLoop
<1>8. CASE CloseCompileIf
  <2>1. Below \in Frames
    BY <1>8, PopIn DEF CloseCompileIf, TypeOK, Below
  <2>2. [Below EXCEPT !.g.succ = f.g.succ, !.c.succ = f.c.succ] \in Frames
    BY <1>1, <2>1 DEF Frames, Views
  <2>3. frames' \in Seq(Frames) /\ Len(frames') >= 1
    BY <1>8, <2>2, MarkType, PopType DEF CloseCompileIf, TypeOK
  <2>4. QED
    BY <1>8, <2>3 DEF CloseCompileIf, TypeOK
<1>9. CASE CloseSwitch
  <2> DEFINE g == {<<f.head, f.g.succ>>}
                    \cup (IF f.default THEN {} ELSE {<<f.head, f.g.out>>})
             c == {<<First(f.head), f.c.succ>>}
                    \cup (IF f.default THEN {} ELSE {<<First(f.head), f.c.out>>})
  <2>1. g \in SUBSET (Int \X Int) /\ c \in SUBSET (Points \X Points)
    BY <1>1
  <2>2. Close({"clause"}, f.head, FALSE) /\ AddEdges(g, c)
    BY <1>9 DEF CloseSwitch
  <2> HIDE DEF g, c
  <2>3. QED
    BY <1>1, <2>1, <2>2, CloseType
<1>10. ASSUME NEW b \in BOOLEAN, PreviousClause(b) PROVE TypeOK'
  <2>1. /\ {<<f.head, f.g.succ>>} \in SUBSET (Int \X Int)
        /\ {<<First(f.head), f.c.succ>>} \in SUBSET (Points \X Points)
    BY <1>1
  <2>2. succs' \subseteq Int \X Int /\ cEdges' \subseteq Points \X Points
    BY <1>10, <2>1, AddEdgesType DEF PreviousClause, ClauseEdges
  <2>3. [f EXCEPT !.g.brk = f.g.succ] \in Frames
    BY <1>1 DEF Frames, Views
  <2>4. [[f EXCEPT !.g.brk = f.g.succ] EXCEPT !.default = TRUE] \in Frames
    BY <2>3 DEF Frames
  <2>5. frames' \in Seq(Frames) /\ Len(frames') >= 1
    BY <1>10, <2>3, <2>4, ReplaceTopType DEF PreviousClause
  <2>6. QED
    BY <1>10, <2>2, <2>5 DEF PreviousClause, TypeOK
<1>11. QED
  BY <1>4, <1>5, <1>6, <1>7, <1>8, <1>9, <1>10

(* The analysis and the compiled function.                                    *)
LEMMA LaterType ==
  ASSUME TypeOK, Analyse \/ Run
  PROVE  TypeOK'
<1>1. Top.g.succ \in Int /\ Top.c.succ \in Points
  BY TopType, FrameFields
<1>2. CASE Resolve
  <2>1. {<<j[1], labelNodes[j[2]]>> : j \in {k \in pending : labelNodes[k[2]] # NoNode}}
          \subseteq Int \X Int
    BY DEF TypeOK
  <2>2. {<<First(j[1]), First(cLabels[j[2]])>> : j \in cGotos} \subseteq Points \X Points
    BY PointType DEF TypeOK
  <2>3. QED
    BY <1>1, <1>2, <2>1, <2>2 DEF Resolve, TypeOK
<1>3. ASSUME NEW n \in work, Sweep(n) PROVE TypeOK'
  BY <1>3 DEF Sweep, TypeOK, buildVars
<1>4. CASE Judge
  BY <1>4 DEF Judge, TypeOK, buildVars
<1>5. CASE Run
  BY <1>5 DEF Run, Execute, TypeOK, buildVars
<1>6. QED
  BY <1>2, <1>3, <1>4, <1>5 DEF Analyse

(* The analysis starts well typed.                                            *)
LEMMA InitType ==
  ASSUME Init
  PROVE  TypeOK
<1> DEFINE g == View(kFuncEnd, kFuncEnd, NoNode, NoNode)
           c == View(First(kFuncEnd), First(kFuncEnd), First(NoNode), First(NoNode))
<1>1. kFuncEnd \in Int /\ NoNode \in Int
  BY DEF kFuncEnd, NoNode
<1>2. g \in Views(Int) /\ c \in Views(Points)
  BY <1>1, PointType DEF View, Views
<1>3. Frame("body", "runtime", kFuncEnd, TRUE, FALSE, g, c) \in Frames
  BY <1>1, <1>2, FrameType DEF Tests
<1>4. frames = <<Frame("body", "runtime", kFuncEnd, TRUE, FALSE, g, c)>>
  BY DEF Init
<1> HIDE DEF g, c
<1>5. frames \in Seq(Frames) /\ Len(frames) >= 1
  BY <1>3, <1>4, SingletonIn
<1>6. QED
  BY <1>1, <1>5, PointType DEF Init, TypeOK

(* Every node and point the analysis handles is one it created, and the stack *)
(* of blocks always holds the procedure body.                                 *)
THEOREM TypeCorrect == Spec => []TypeOK
<1>1. Init => TypeOK
  BY InitType
<1>2. TypeOK /\ [Next]_vars => TypeOK'
  <2> SUFFICES ASSUME TypeOK, [Next]_vars PROVE TypeOK'
    OBVIOUS
  <2>1. CASE Build
    BY <2>1, OneNodeType, OpensType, ClosesType DEF Build
  <2>2. CASE Analyse \/ Run
    BY <2>2, LaterType
  <2>3. CASE UNCHANGED vars
    BY <2>3 DEF vars, buildVars, TypeOK
  <2>4. QED
    BY <2>1, <2>2, <2>3 DEF Next
<1>3. QED
  BY <1>1, <1>2, PTL DEF Spec

------------------------------------------------------------------------------
(* Soundness.                                                                 *)

(* The forms on which checker and C agree: no unselected Compile if, Break    *)
(* and Continue where their targets coincide, no counted loop whose count the *)
(* checker knows to be positive.                                              *)
SafeForms ==
  /\ "compileIfNone" \notin Statements
  /\ "breakInClause" \notin Quirks /\ "continueInRepeat" \notin Quirks
  /\ <<"repeat", "always">> \notin Headers /\ <<"for", "always">> \notin Headers

(* A block both sides see, entered and left at the same nodes.                *)
AgreeingFrames ==
  {f \in Frames : /\ f.live = TRUE
                  /\ f.c.out[1] = f.g.out /\ f.c.succ[1] = f.g.succ
                  /\ f.kind \in {"repeat", "for"} => f.test # "always"}

(* Every C edge is, node for node, an edge of the checker.                    *)
Embedded(c, g) == \A e \in c : <<e[1][1], e[2][1]>> \in g

(* The sweep's loop invariant: what a swept node leads to has been seen.      *)
Swept == \A e \in succs : e[1] \in seen => e[1] \in work \/ e[2] \in seen

(* The inductive invariant.                                                   *)
IInv ==
  /\ TypeOK
  /\ frames \in Seq(AgreeingFrames)
  /\ Embedded(cEdges, succs)
  /\ cGotos \subseteq pending /\ cLabels = labelNodes
  /\ phase # "build" => pc[1] \in seen /\ Swept
  /\ phase # "judged" => verdict = "none"
  /\ phase = "judged" => work = {}
  /\ verdict = "accepted" =>
       kFuncEnd \notin seen /\ (proc = "noreturn" => returns = {})

(* The invariant gives the property: pc is a seen node, the end is not.       *)
LEMMA IInvSound ==
  ASSUME IInv
  PROVE  Sound
<1> SUFFICES ASSUME verdict = "accepted"
             PROVE  pc # First(kFuncEnd) /\ (proc = "noreturn" => pc[1] \notin returns)
  BY DEF Sound
<1>1. phase = "judged" /\ pc[1] \in seen
  BY DEF IInv
<1>2. kFuncEnd \notin seen /\ (proc = "noreturn" => returns = {})
  BY DEF IInv
<1>3. First(kFuncEnd)[1] = kFuncEnd
  BY DEF First
<1>4. QED
  BY <1>1, <1>2, <1>3

(* What the invariant says of the innermost block.                            *)
LEMMA AgreeTop ==
  ASSUME IInv
  PROVE  /\ TypeOK /\ Top \in AgreeingFrames /\ Top \in Frames
         /\ Top.live = TRUE /\ Top.c.out[1] = Top.g.out /\ Top.c.succ[1] = Top.g.succ
         /\ next \in Int /\ First(next)[1] = next /\ First(Top.head)[1] = Top.head
         /\ Again(Top.head)[1] = Top.head
<1>1. TypeOK /\ Top \in AgreeingFrames
  BY TopIn DEF IInv, TypeOK, Top
<1>2. QED
  BY <1>1 DEF AgreeingFrames, First, Again, TypeOK

(* A statement in front of an agreeing block, and a mark on it.               *)
LEMMA AgreeInFront ==
  ASSUME NEW f \in AgreeingFrames, NEW n \in Int, NEW b
  PROVE  /\ InFront(f, n) \in AgreeingFrames
         /\ Mark(f, b) \in AgreeingFrames
         /\ Mark(InFront(f, n), b) \in AgreeingFrames
<1>1. InFront(f, n) \in AgreeingFrames
  <2>1. InFront(f, n) \in Frames
    BY InFrontType DEF AgreeingFrames
  <2>2. /\ InFront(f, n).live = TRUE
        /\ InFront(f, n).c.out = f.c.out /\ InFront(f, n).g.out = f.g.out
        /\ InFront(f, n).c.succ = First(n) /\ InFront(f, n).g.succ = n
        /\ InFront(f, n).kind = f.kind /\ InFront(f, n).test = f.test
    BY DEF AgreeingFrames, InFront, Frames, Views
  <2>3. QED
    BY <2>1, <2>2 DEF AgreeingFrames, First
<1>2. ASSUME NEW h \in AgreeingFrames
      PROVE  Mark(h, b) \in AgreeingFrames
  BY MarkType DEF AgreeingFrames, Mark, Frames
<1>3. QED
  BY <1>1, <1>2

(* Edges added to both sides keep the embedding.                              *)
LEMMA AddEmbedded ==
  ASSUME Embedded(cEdges, succs), NEW g, NEW c, AddEdges(g, c), Embedded(c, g)
  PROVE  Embedded(cEdges', succs')
BY DEF AddEdges, IfLive, Embedded

(* While the body is built, a step preserves the invariant if it preserves    *)
(* types, agreement of the blocks, the embedding and the jump tables.         *)
LEMMA BuildStep ==
  ASSUME IInv, Building, TypeOK', phase' = phase, verdict' = verdict,
         frames' \in Seq(AgreeingFrames), Embedded(cEdges', succs'),
         cGotos' \subseteq pending', cLabels' = labelNodes'
  PROVE  IInv'
BY DEF IInv, Building

(* Steps that put a one-node statement in front of the block.                 *)
LEMMA OneNodeSafe ==
  ASSUME IInv, SafeForms,
         Complete \/ CallNoReturn \/ Return \/ Break \/ Continue
           \/ (\E l \in Labels : Goto(l) \/ Label(l))
  PROVE  IInv'
<1> DEFINE f == Top
<1>1. /\ f \in AgreeingFrames /\ f.c.succ[1] = f.g.succ /\ f.live = TRUE /\ TypeOK
      /\ next \in Int /\ First(next)[1] = next
  BY AgreeTop
<1>2. TypeOK'
  BY <1>1, OneNodeType
<1>3. /\ ReplaceTop(InFront(f, next)) \in Seq(AgreeingFrames)
      /\ ReplaceTop(Mark(InFront(f, next), TRUE)) \in Seq(AgreeingFrames)
  BY <1>1, AgreeInFront, ReplaceIn DEF ReplaceTop, IInv, TypeOK
<1>4. Embedded(cEdges, succs) /\ Embedded({}, {<<next, f.g.succ>>})
      /\ Embedded({<<First(next), f.c.succ>>}, {<<next, f.g.succ>>})
  BY <1>1 DEF Embedded, IInv
<1>5. CASE Complete
  <2>1. Embedded(cEdges', succs')
    BY <1>4, <1>5, AddEmbedded DEF Complete
  <2>2. QED
    BY <1>2, <1>3, <1>5, <2>1, BuildStep DEF Complete, OneNode, Room, IInv
<1>6. CASE CallNoReturn
  <2>1. Embedded(cEdges', succs')
    BY <1>4, <1>6, AddEmbedded DEF CallNoReturn
  <2>2. QED
    BY <1>2, <1>3, <1>6, <2>1, BuildStep DEF CallNoReturn, OneNode, Room, IInv
<1>7. CASE Return
  BY <1>2, <1>3, <1>4, <1>7, BuildStep DEF Return, OneNode, Room, IInv
<1>8. CASE Break
  <2>1. f.c.brk[1] = f.g.brk /\ f.g.brk # NoNode
    BY <1>1, <1>8 DEF Break, Agree, SafeForms
  <2>2. Embedded({<<First(next), f.c.brk>>}, JumpEdge(f.g.brk))
    BY <1>1, <2>1 DEF Embedded, JumpEdge
  <2>3. Embedded(cEdges', succs')
    BY <1>4, <1>8, <2>2, AddEmbedded DEF Break
  <2>4. QED
    BY <1>2, <1>3, <1>8, <2>3, BuildStep DEF Break, OneNode, Room, IInv
<1>9. CASE Continue
  <2>1. f.c.cn[1] = f.g.cn /\ f.g.cn # NoNode
    BY <1>1, <1>9 DEF Continue, Agree, SafeForms
  <2>2. Embedded({<<First(next), f.c.cn>>}, JumpEdge(f.g.cn))
    BY <1>1, <2>1 DEF Embedded, JumpEdge
  <2>3. Embedded(cEdges', succs')
    BY <1>4, <1>9, <2>2, AddEmbedded DEF Continue
  <2>4. QED
    BY <1>2, <1>3, <1>9, <2>3, BuildStep DEF Continue, OneNode, Room, IInv
<1>10. ASSUME NEW l \in Labels, Goto(l) PROVE IInv'
  <2>1. cGotos' \subseteq pending'
    BY <1>10 DEF Goto, IInv, IfLive
  <2>2. QED
    BY <1>2, <1>3, <1>4, <1>10, <2>1, BuildStep DEF Goto, OneNode, Room, IInv
<1>11. ASSUME NEW l \in Labels, Label(l) PROVE IInv'
  <2>1. Embedded(cEdges', succs')
    BY <1>4, <1>11, AddEmbedded DEF Label
  <2>2. cLabels' = labelNodes'
    BY <1>1, <1>11 DEF Label, IInv
  <2>3. QED
    BY <1>2, <1>3, <1>11, <2>1, <2>2, BuildStep DEF Label, OneNode, Room, IInv
<1>12. QED
  BY <1>5, <1>6, <1>7, <1>8, <1>9, <1>10, <1>11

(* Steps that open a block: it is entered and left where the checker says.    *)
LEMMA OpenSafe ==
  ASSUME IInv, NEW form, NEW nodes \in Nat, NEW f \in AgreeingFrames,
         Open(form, nodes, f)
  PROVE  IInv'
<1>1. f \in Frames /\ TypeOK
  BY DEF AgreeingFrames, IInv
<1>2. TypeOK'
  BY <1>1, OpenType
<1>3. frames' \in Seq(AgreeingFrames)
  BY PushIn DEF Open, IInv
<1>4. QED
  BY <1>2, <1>3, BuildStep DEF Open, Room, IInv

(* Opening the block of a statement with a body.                              *)
LEMMA OpensSafe ==
  ASSUME IInv, SafeForms,
         \/ \E test \in Tests : OpenIf(test)
         \/ \E test \in Tests, kind \in LoopKinds : OpenLoop(kind, test)
         \/ \E b \in BOOLEAN : OpenCompileIf(b) \/ OpenSwitch(b)
  PROVE  IInv'
<1> DEFINE g == Inherit(Top.g)
           c == Inherit(Top.c)
           gs == [Inherit(Top.g) EXCEPT !.brk = Top.g.succ]
           cs == [Inherit(Top.c) EXCEPT !.brk = Top.c.succ]
<1>0. NoNode \in Int
  BY DEF NoNode
<1>1. /\ Top \in Frames /\ Top.live = TRUE /\ Top.c.succ[1] = Top.g.succ /\ TypeOK
      /\ next \in Int /\ NoNode \in Int
  BY <1>0, AgreeTop
<1>2. /\ g \in Views(Int) /\ c \in Views(Points)
      /\ gs \in Views(Int) /\ cs \in Views(Points)
      /\ Top.g \in Views(Int) /\ Top.c \in Views(Points)
      /\ Top.g.succ \in Int /\ Top.g.cn \in Int /\ Top.c.succ \in Points
  BY <1>1, FrameFields, InheritType
<1>3. /\ c.out[1] = g.out /\ c.succ[1] = g.succ
      /\ cs.out[1] = gs.out /\ cs.succ[1] = gs.succ
  <2>1. /\ g.out = Top.g.succ /\ g.succ = Top.g.succ
        /\ gs.out = Top.g.succ /\ gs.succ = Top.g.succ
    BY <1>2 DEF Inherit, Views
  <2>2. /\ c.out = Top.c.succ /\ c.succ = Top.c.succ
        /\ cs.out = Top.c.succ /\ cs.succ = Top.c.succ
    BY <1>2 DEF Inherit, Views
  <2> HIDE DEF g, c, gs, cs
  <2>3. QED
    BY <1>1, <2>1, <2>2
<1>4. ASSUME NEW kind \in {"then", "compiled", "clause"} \cup LoopKinds, NEW test \in Tests,
             NEW head \in Int, NEW default \in BOOLEAN,
             NEW u \in Views(Int), NEW v \in Views(Points),
             v.out[1] = u.out, v.succ[1] = u.succ,
             kind \in {"repeat", "for"} => test # "always"
      PROVE  Frame(kind, test, head, TRUE, default, u, v) \in AgreeingFrames
  <2>1. Frame(kind, test, head, TRUE, default, u, v) \in Frames
    BY <1>4, FrameType
  <2>2. QED
    BY <1>4, <2>1 DEF AgreeingFrames, Frame
<1> HIDE DEF g, c, gs, cs
<1>5. ASSUME NEW test \in Tests, OpenIf(test) PROVE IInv'
  <2>1. Frame("then", test, next, TRUE, FALSE, g, c) \in AgreeingFrames
    BY <1>1, <1>2, <1>3, <1>4
  <2>2. QED
    BY <1>1, <1>5, <2>1, OpenSafe DEF OpenIf, g, c
<1>6. ASSUME NEW test \in Tests, NEW kind \in LoopKinds, OpenLoop(kind, test)
      PROVE  IInv'
  <2> DEFINE back == BackNode(kind, next)
             point == BackPoint(kind, next)
             u == View(Top.g.succ, back, Top.g.succ,
                       IF kind = "repeat" THEN Top.g.cn ELSE back)
             v == View(Top.c.succ, point, Top.c.succ, point)
  <2>1. back \in Int /\ point \in Points /\ point[1] = back
    BY <1>1, BackType
  <2>2. /\ u \in Views(Int) /\ v \in Views(Points)
        /\ v.out[1] = u.out /\ v.succ[1] = u.succ
    <3>1. u \in Views(Int) /\ v \in Views(Points)
      BY <1>2, <2>1 DEF View, Views
    <3>2. /\ u.out = Top.g.succ /\ u.succ = back
          /\ v.out = Top.c.succ /\ v.succ = point
      BY DEF View
    <3> HIDE DEF u, v, back, point
    <3>3. QED
      BY <1>1, <2>1, <3>1, <3>2
  <2>3. Open(<<kind, test>> \in Headers, IF kind = "dowhile" THEN 2 ELSE 1,
             Frame(kind, test, next, TRUE, FALSE, u, v))
    BY <1>1, <1>6 DEF OpenLoop
  <2>4. <<kind, test>> \in Headers
    BY <1>6 DEF OpenLoop, Open
  <2>5. kind \in {"repeat", "for"} => test # "always"
    BY <2>4 DEF SafeForms
  <2>6. (IF kind = "dowhile" THEN 2 ELSE 1) \in Nat
    OBVIOUS
  <2> HIDE DEF u, v
  <2>7. Frame(kind, test, next, TRUE, FALSE, u, v) \in AgreeingFrames
    BY <1>1, <1>4, <2>2, <2>5
  <2>8. QED
    BY <2>3, <2>6, <2>7, OpenSafe
<1>7. ASSUME NEW b \in BOOLEAN, OpenCompileIf(b) PROVE IInv'
  <2>1. b = TRUE
    BY <1>7 DEF OpenCompileIf, Open, SafeForms
  <2>2. Frame("compiled", "runtime", NoNode, TRUE, FALSE, g, c) \in AgreeingFrames
    BY <1>1, <1>2, <1>3, <1>4 DEF Tests
  <2>3. QED
    BY <1>7, <2>1, <2>2, OpenSafe DEF OpenCompileIf, g, c
<1>8. ASSUME NEW b \in BOOLEAN, OpenSwitch(b) PROVE IInv'
  <2>1. Frame("clause", "runtime", next, TRUE, b, gs, cs) \in AgreeingFrames
    BY <1>1, <1>2, <1>3, <1>4 DEF Tests
  <2>2. QED
    BY <1>1, <1>8, <2>1, OpenSafe DEF OpenSwitch, gs, cs
<1>9. QED
  BY <1>5, <1>6, <1>7, <1>8

(* Steps that close a block, or go on to the next part of the same statement. *)
LEMMA CloseSafe ==
  ASSUME IInv, NEW kinds, NEW n \in Int, NEW b, Close(kinds, n, b),
         NEW g, NEW c, AddEdges(g, c), Embedded(c, g), TypeOK'
  PROVE  IInv'
<1>1. Below \in AgreeingFrames
  BY PopIn DEF Close, IInv, Below
<1>2. frames' \in Seq(AgreeingFrames)
  BY <1>1, AgreeInFront, PopIn DEF Close, IInv, Popped, Pop
<1>3. Embedded(cEdges', succs')
  BY AddEmbedded DEF IInv
<1>4. QED
  BY <1>2, <1>3, BuildStep DEF Close, IInv

(* A C edge between points whose nodes the checker links.                     *)
LEMMA EdgeEmbedded ==
  ASSUME NEW p, NEW q, NEW g, <<p[1], q[1]>> \in g
  PROVE  Embedded({<<p, q>>}, g) /\ Embedded({}, g)
BY DEF Embedded

(* Two embedded sets of C edges are embedded together.                        *)
LEMMA UnionEmbedded ==
  ASSUME NEW c, NEW d, NEW g, Embedded(c, g), Embedded(d, g)
  PROVE  Embedded(c \cup d, g)
BY DEF Embedded

(* The edges of a closed loop.                                                *)
LEMMA LoopEmbedded ==
  ASSUME NEW f \in AgreeingFrames, f.kind \in LoopKinds
  PROVE  Embedded(CLoopEdges(f), LoopEdges(f))
<1> DEFINE head == First(f.head)
           again == Again(f.head)
           back == BackNode(f.kind, f.head)
           cond == First(back)
           g == LoopEdges(f)
           tested(from, to) ==
             (IF f.test = "never"  THEN {} ELSE {<<from, to>>})
               \cup (IF f.test = "always" THEN {} ELSE {<<from, f.c.out>>})
<1>1. /\ head[1] = f.head /\ again[1] = f.head /\ cond[1] = back
      /\ f.c.out[1] = f.g.out /\ f.c.succ[1] = f.g.succ
  BY PointNode DEF AgreeingFrames
<1>2. <<f.head, f.g.succ>> \in g
  BY DEF LoopEdges
<1>3. f.test # "always" => <<back, f.g.out>> \in g
  BY DEF LoopEdges, Exits
<1>4. f.kind \in Counted => <<back, f.g.out>> \in g
  BY DEF LoopEdges, Exits, Counted, AgreeingFrames
<1>5. f.kind = "dowhile" => <<back, f.head>> \in g
  BY DEF LoopEdges
<1>6. f.kind # "dowhile" => back = f.head
  BY DEF BackNode
<1>7. ASSUME NEW from, NEW to, from[1] = back, <<from[1], to[1]>> \in g
      PROVE  Embedded(tested(from, to), g)
  <2>1. Embedded(IF f.test = "never" THEN {} ELSE {<<from, to>>}, g)
    BY <1>7, EdgeEmbedded
  <2>2. Embedded(IF f.test = "always" THEN {} ELSE {<<from, f.c.out>>}, g)
    BY <1>1, <1>3, <1>7 DEF Embedded
  <2>3. QED
    BY <2>1, <2>2, UnionEmbedded
<1> HIDE DEF g
<1>8. CASE f.kind = "dowhile"
  <2>1. Embedded({<<head, f.c.succ>>}, g) /\ Embedded(tested(cond, head), g)
    BY <1>1, <1>2, <1>5, <1>7, <1>8, EdgeEmbedded
  <2>2. CLoopEdges(f) = {<<head, f.c.succ>>} \cup tested(cond, head)
    BY <1>8 DEF CLoopEdges
  <2>3. QED
    BY <2>1, <2>2, UnionEmbedded DEF g
<1>9. CASE f.kind \in Counted
  <2>1. f.kind # "dowhile"
    BY <1>9 DEF Counted
  <2>2. Embedded(tested(head, f.c.succ), g)
    BY <1>1, <1>2, <1>6, <1>7, <2>1
  <2>3. Embedded({<<again, f.c.succ>>}, g) /\ Embedded({<<again, f.c.out>>}, g)
    BY <1>1, <1>2, <1>4, <1>6, <1>9, <2>1, EdgeEmbedded
  <2>4. CLoopEdges(f) = tested(head, f.c.succ)
                          \cup ({<<again, f.c.succ>>} \cup {<<again, f.c.out>>})
    BY <1>9, <2>1 DEF CLoopEdges
  <2>5. Embedded({<<again, f.c.succ>>} \cup {<<again, f.c.out>>}, g)
    BY <2>3, UnionEmbedded
  <2> HIDE DEF tested
  <2>6. Embedded(tested(head, f.c.succ)
                   \cup ({<<again, f.c.succ>>} \cup {<<again, f.c.out>>}), g)
    BY <2>2, <2>5, UnionEmbedded
  <2>7. QED
    BY <2>4, <2>6 DEF g
<1>10. CASE f.kind # "dowhile" /\ f.kind \notin Counted
  <2>1. Embedded(tested(head, f.c.succ), g)
    BY <1>1, <1>2, <1>6, <1>7, <1>10
  <2>2. CLoopEdges(f) = tested(head, f.c.succ)
    BY <1>10 DEF CLoopEdges
  <2>3. QED
    BY <2>1, <2>2 DEF g
<1>11. QED
  BY <1>8, <1>9, <1>10

(* Closing a block adds to C only edges the checker has, and hands the block  *)
(* below agreeing continuations.                                              *)
LEMMA ClosesSafe ==
  ASSUME IInv, SafeForms,
         \/ BeginElse \/ CloseIf \/ CloseElse \/ CloseLoop \/ CloseCompileIf \/ CloseSwitch
         \/ \E b \in BOOLEAN : PreviousClause(b)
  PROVE  IInv'
<1> DEFINE f == Top
<1>1. /\ f \in AgreeingFrames /\ f \in Frames /\ f.live = TRUE
      /\ f.c.out[1] = f.g.out /\ f.c.succ[1] = f.g.succ /\ TypeOK
  BY AgreeTop
<1>2. /\ f.head \in Int /\ First(f.head)[1] = f.head /\ f.g.succ \in Int /\ f.g.out \in Int
      /\ f.c.succ \in Points /\ f.c.out \in Points
  BY <1>1, FrameFields, PointNode
<1>3. TypeOK'
  BY <1>1, ClosesType
<1>4. ASSUME NEW g, <<f.head, f.g.succ>> \in g
      PROVE  /\ Embedded(ThenEdge(f), g) /\ Embedded(ElseEdge(f, f.c.succ), g)
             /\ Embedded({<<First(f.head), f.c.succ>>}, g)
  <2>1. Embedded({<<First(f.head), f.c.succ>>}, g) /\ Embedded({}, g)
    BY <1>1, <1>2, <1>4, EdgeEmbedded
  <2>2. QED
    BY <2>1 DEF ThenEdge, ElseEdge
<1>5. ASSUME NEW g, <<f.head, f.g.out>> \in g
      PROVE  /\ Embedded(ElseEdge(f, f.c.out), g)
             /\ Embedded({<<First(f.head), f.c.out>>}, g)
  <2>1. Embedded({<<First(f.head), f.c.out>>}, g) /\ Embedded({}, g)
    BY <1>1, <1>2, <1>5, EdgeEmbedded
  <2>2. QED
    BY <2>1 DEF ElseEdge
<1>6. CASE BeginElse
  <2>1. Embedded(cEdges', succs')
    BY <1>4, <1>6, AddEmbedded DEF BeginElse, IInv
  <2> DEFINE h == [f EXCEPT !.kind = "else", !.g.succ = f.g.out, !.c.succ = f.c.out]
  <2>2. h \in Frames
    BY <1>1, <1>2 DEF Frames, Views
  <2>3. /\ h.live = f.live /\ h.kind = "else"
        /\ h.g.out = f.g.out /\ h.g.succ = f.g.out
        /\ h.c.out = f.c.out /\ h.c.succ = f.c.out
    BY <1>1 DEF Frames, Views
  <2> HIDE DEF h
  <2>4. h \in AgreeingFrames
    BY <1>1, <2>2, <2>3 DEF AgreeingFrames
  <2>5. frames' \in Seq(AgreeingFrames)
    BY <1>6, <2>4, ReplaceIn DEF BeginElse, ReplaceTop, IInv, TypeOK, h
  <2>6. QED
    BY <1>3, <1>6, <2>1, <2>5, BuildStep DEF BeginElse, IInv
<1>7. CASE CloseIf
  <2> DEFINE g == {<<f.head, f.g.succ>>, <<f.head, f.g.out>>}
  <2>1. Embedded(ThenEdge(f), g) /\ Embedded(ElseEdge(f, f.c.out), g)
    BY <1>4, <1>5
  <2>2. Embedded(ThenEdge(f) \cup ElseEdge(f, f.c.out), g)
    BY <2>1, UnionEmbedded
  <2>3. QED
    BY <1>2, <1>3, <1>7, <2>2, CloseSafe DEF CloseIf
<1>8. CASE CloseElse
  BY <1>2, <1>3, <1>4, <1>8, CloseSafe DEF CloseElse
<1>9. CASE CloseLoop
  <2>1. f.kind \in LoopKinds
    BY <1>9 DEF CloseLoop, Close
  <2>2. QED
    BY <1>1, <1>2, <1>3, <1>9, <2>1, LoopEmbedded, CloseSafe DEF CloseLoop
<1>10. CASE CloseCompileIf
  <2> DEFINE h == [Below EXCEPT !.g.succ = f.g.succ, !.c.succ = f.c.succ]
  <2>1. Below \in AgreeingFrames
    BY <1>10, PopIn DEF CloseCompileIf, IInv, Below
  <2>2. h \in Frames
    BY <1>2, <2>1 DEF AgreeingFrames, Frames, Views
  <2>3. /\ h.live = Below.live /\ h.kind = Below.kind /\ h.test = Below.test
        /\ h.g.out = Below.g.out /\ h.g.succ = f.g.succ
        /\ h.c.out = Below.c.out /\ h.c.succ = f.c.succ
    BY <2>1 DEF AgreeingFrames, Frames, Views
  <2> HIDE DEF h
  <2>4. h \in AgreeingFrames
    BY <1>1, <2>1, <2>2, <2>3 DEF AgreeingFrames
  <2>5. Mark(h, f.live /\ f.broke) \in AgreeingFrames
    BY <2>4, AgreeInFront, 0 \in Int
  <2>6. frames' \in Seq(AgreeingFrames)
    BY <1>10, <2>5, PopIn DEF CloseCompileIf, Pop, IInv, h
  <2>7. QED
    BY <1>3, <1>10, <2>6, BuildStep DEF CloseCompileIf, IInv
<1>11. CASE CloseSwitch
  <2> DEFINE g == {<<f.head, f.g.succ>>}
                    \cup (IF f.default THEN {} ELSE {<<f.head, f.g.out>>})
             c == {<<First(f.head), f.c.succ>>}
                    \cup (IF f.default THEN {} ELSE {<<First(f.head), f.c.out>>})
  <2>1. Embedded({<<First(f.head), f.c.succ>>}, g)
    BY <1>4
  <2>2. Embedded(IF f.default THEN {} ELSE {<<First(f.head), f.c.out>>}, g)
    BY <1>5 DEF Embedded
  <2>3. Embedded(c, g)
    BY <2>1, <2>2, UnionEmbedded
  <2>4. Close({"clause"}, f.head, FALSE) /\ AddEdges(g, c)
    BY <1>11 DEF CloseSwitch
  <2> HIDE DEF g, c
  <2>5. QED
    BY <1>2, <1>3, <2>3, <2>4, CloseSafe
<1>12. ASSUME NEW b \in BOOLEAN, PreviousClause(b) PROVE IInv'
  <2>1. Embedded(cEdges', succs')
    BY <1>4, <1>12, AddEmbedded DEF PreviousClause, ClauseEdges, IInv
  <2> DEFINE h == [f EXCEPT !.g.brk = f.g.succ]
             k == [h EXCEPT !.default = TRUE]
  <2>2. h \in AgreeingFrames
    <3>1. h \in Frames
      BY <1>1, <1>2 DEF Frames, Views
    <3>2. /\ h.live = f.live /\ h.kind = f.kind /\ h.test = f.test /\ h.c = f.c
          /\ h.g.out = f.g.out /\ h.g.succ = f.g.succ
      BY <1>1 DEF Frames, Views
    <3> HIDE DEF h
    <3>3. QED
      BY <1>1, <3>1, <3>2 DEF AgreeingFrames
  <2>3. k \in AgreeingFrames
    <3> HIDE DEF h
    <3>1. k \in Frames
      BY <2>2 DEF AgreeingFrames, Frames
    <3>2. k.live = h.live /\ k.kind = h.kind /\ k.test = h.test /\ k.c = h.c /\ k.g = h.g
      BY <2>2 DEF AgreeingFrames, Frames
    <3> HIDE DEF k
    <3>3. QED
      BY <2>2, <3>1, <3>2 DEF AgreeingFrames
  <2>4. frames' \in Seq(AgreeingFrames)
    BY <1>12, <2>2, <2>3, ReplaceIn DEF PreviousClause, ReplaceTop, IInv, TypeOK
  <2>5. QED
    BY <1>3, <1>12, <2>1, <2>4, BuildStep DEF PreviousClause, Room, IInv
<1>13. QED
  BY <1>6, <1>7, <1>8, <1>9, <1>10, <1>11, <1>12

(* Resolving the jumps, sweeping, judging, and running the function.          *)
LEMMA LaterSafe ==
  ASSUME IInv, Analyse \/ Run
  PROVE  IInv'
<1>1. TypeOK /\ TypeOK'
  BY LaterType DEF IInv
<1>2. CASE Resolve
  <2> DEFINE g == {<<j[1], labelNodes[j[2]]>> :
                     j \in {k \in pending : labelNodes[k[2]] # NoNode}}
             c == {<<First(j[1]), First(cLabels[j[2]])>> : j \in cGotos}
  <2>1. Embedded(c, g)
    <3> SUFFICES ASSUME NEW j \in cGotos
                 PROVE  <<First(j[1])[1], First(cLabels[j[2]])[1]>> \in g
      BY DEF Embedded
    <3>1. j \in pending /\ labelNodes[j[2]] # NoNode /\ cLabels = labelNodes
      BY <1>2 DEF Resolve, IInv
    <3>2. QED
      BY <3>1, PointNode
  <2>2. succs' = succs \cup g /\ cEdges' = cEdges \cup c
    BY <1>2 DEF Resolve
  <2> HIDE DEF g, c
  <2>3. Embedded(cEdges', succs')
    BY <2>1, <2>2 DEF Embedded, IInv
  <2>4. pc' = Top.c.succ /\ seen' = {Top.g.succ} /\ work' = {Top.g.succ}
    BY <1>2 DEF Resolve
  <2>5. pc'[1] \in seen'
    BY <2>4, AgreeTop
  <2>6. Swept'
    BY <2>4 DEF Swept
  <2>7. verdict' = "none" /\ phase' = "sweep"
    BY <1>2 DEF Resolve, IInv, Building
  <2>8. frames' = frames /\ cGotos' = cGotos /\ pending' = pending
        /\ cLabels' = cLabels /\ labelNodes' = labelNodes
    BY <1>2 DEF Resolve
  <2>9. QED
    BY <1>1, <2>3, <2>5, <2>6, <2>7, <2>8 DEF IInv
<1>3. ASSUME NEW n \in work, Sweep(n) PROVE IInv'
  <2>1. Swept'
    <3> SUFFICES ASSUME NEW e \in succs, e[1] \in seen', e[1] \notin work'
                 PROVE  e[2] \in seen'
      BY <1>3 DEF Swept, Sweep, buildVars
    <3>1. phase # "build" /\ Swept
      BY <1>3 DEF Sweep, IInv
    <3>2. CASE e[1] = n
      BY <1>3, <3>2 DEF Sweep
    <3>3. CASE e[1] # n /\ e[1] \in seen
      BY <1>3, <3>1, <3>3 DEF Sweep, Swept
    <3>4. CASE e[1] # n /\ e[1] \notin seen
      BY <1>3, <3>4 DEF Sweep
    <3>5. QED
      BY <3>2, <3>3, <3>4
  <2>2. pc' = pc /\ seen \subseteq seen' /\ phase' = "sweep" /\ phase = "sweep"
    BY <1>3 DEF Sweep
  <2>3. pc'[1] \in seen'
    BY <2>2 DEF IInv
  <2>4. verdict' = "none" /\ UNCHANGED buildVars /\ proc' = proc
    BY <1>3, <2>2 DEF Sweep, IInv
  <2>5. QED
    BY <1>1, <2>1, <2>2, <2>3, <2>4 DEF IInv, buildVars, Embedded
<1>4. CASE Judge
  <2>1. /\ UNCHANGED <<proc, seen, work, pc, frames, succs, cEdges, pending, labelNodes,
                       cGotos, cLabels, returns>>
        /\ phase = "sweep" /\ phase' = "judged" /\ work = {}
    BY <1>4 DEF Judge, buildVars
  <2>2. verdict' = "accepted" =>
          kFuncEnd \notin seen' /\ (proc' = "noreturn" => returns' = {})
    BY <1>4, <2>1 DEF Judge
  <2>3. Swept' /\ pc'[1] \in seen'
    BY <2>1 DEF IInv, Swept
  <2>4. QED
    BY <1>1, <2>1, <2>2, <2>3 DEF IInv, Embedded
<1>5. CASE Run
  <2>1. PICK to : /\ phase = "judged" /\ verdict = "accepted" /\ <<pc, to>> \in cEdges
                  /\ pc' = to
                  /\ UNCHANGED <<proc, phase, buildVars, seen, work, verdict, entry>>
    BY <1>5 DEF Run, Execute
  <2>2. <<pc[1], to[1]>> \in succs
    BY <2>1 DEF IInv, Embedded
  <2>3. to[1] \in seen
    BY <2>1, <2>2 DEF IInv, Swept
  <2>4. Swept' /\ pc'[1] \in seen'
    BY <2>1, <2>3 DEF IInv, Swept, buildVars
  <2>5. QED
    BY <1>1, <2>1, <2>4 DEF IInv, buildVars, Embedded
<1>6. QED
  BY <1>2, <1>3, <1>4, <1>5 DEF Analyse

(* The invariant is inductive for the safe forms.                             *)
LEMMA SafeInductive ==
  ASSUME SafeForms
  PROVE  (Init => IInv) /\ (IInv /\ [Next]_vars => IInv')
<1>1. Init => IInv
  <2> SUFFICES ASSUME Init PROVE IInv
    OBVIOUS
  <2>1. TypeOK
    BY InitType
  <2>2. frames \in Seq(AgreeingFrames)
    <3> DEFINE g == View(kFuncEnd, kFuncEnd, NoNode, NoNode)
               c == View(First(kFuncEnd), First(kFuncEnd), First(NoNode), First(NoNode))
               f == Frame("body", "runtime", kFuncEnd, TRUE, FALSE, g, c)
    <3>1. frames = <<f>>
      BY DEF Init
    <3>2. f.live = TRUE /\ f.kind = "body" /\ f.g = g /\ f.c = c
      BY DEF Frame
    <3>3. g.out = kFuncEnd /\ g.succ = kFuncEnd
          /\ c.out = First(kFuncEnd) /\ c.succ = First(kFuncEnd)
      BY DEF View
    <3> HIDE DEF f, g, c
    <3>4. f \in Frames
      BY <2>1, <3>1, TopIn DEF TypeOK
    <3>5. f \in AgreeingFrames
      BY <3>2, <3>3, <3>4, PointNode DEF AgreeingFrames
    <3>6. QED
      BY <3>1, <3>5, SingletonIn
  <2>3. QED
    BY <2>1, <2>2 DEF Init, IInv, Embedded
<1>2. IInv /\ [Next]_vars => IInv'
  <2> SUFFICES ASSUME IInv, [Next]_vars PROVE IInv'
    OBVIOUS
  <2>1. CASE Build
    BY <2>1, OneNodeSafe, OpensSafe, ClosesSafe DEF Build
  <2>2. CASE Analyse \/ Run
    BY <2>2, LaterSafe
  <2>3. CASE UNCHANGED vars
    BY <2>3 DEF vars, buildVars, IInv, TypeOK, Embedded, Swept
  <2>4. QED
    BY <2>1, <2>2, <2>3 DEF Next
<1>3. QED
  BY <1>1, <1>2

(* For every body built from the safe forms, of whatever size and with        *)
(* whatever labels: if the checker accepts the procedure, the emitted C       *)
(* function never runs off its end, and a no-return procedure never returns.  *)
THEOREM SoundForSafeForms ==
  ASSUME SafeForms
  PROVE  Spec => []Sound
<1>1. (Init => IInv) /\ (IInv /\ [Next]_vars => IInv')
  BY SafeInductive
<1>2. IInv => Sound
  BY IInvSound
<1>3. QED
  BY <1>1, <1>2, PTL DEF Spec

------------------------------------------------------------------------------
(* The other direction: the definite-return analysis rejects no procedure     *)
(* without a reason.  On the forms whose every checker edge is a way the C    *)
(* function can go, a rejected procedure does reach its end.  First the forms *)
(* and the invariant.                                                         *)

(* No call that never comes back, no branch the emitter leaves out, no        *)
(* condition known to fail or count known to the checker, Break and Continue  *)
(* where their targets coincide.                                              *)
PreciseForms ==
  /\ {"noreturnCall", "compileIfNone"} \cap Statements = {}
  /\ \A h \in Headers : h[2] = "runtime" \/ h \in {<<"while", "always">>, <<"dowhile", "always">>}
  /\ {"breakInClause", "continueInRepeat", "breakInAlways"} \cap Quirks = {}

(* D is the set of heads of counted loops, which C passes in two ways: a      *)
(* point is one the function can be at, a node outside D has one point.       *)
At(D, p) == p \in Points /\ (p[2] = "again" => p[1] \in D)

(* A block under construction, when m is the next node: what it continues at  *)
(* are such points, its own node is in D just when it is a counted loop, and  *)
(* its test goes the ways the checker has edges for.                          *)
OneWay(D, m, n) == n \in 1 .. m - 1 /\ n \notin D
Placed(D, m, kind, head) ==
  /\ kind \in Counted => head \in D
  /\ kind \in {"then", "else", "while", "dowhile", "clause"} => OneWay(D, m, head)
  /\ kind = "dowhile" => OneWay(D, m, head + 1)
Known(kind, test) == test = "runtime" \/ (test = "always" /\ kind \in {"while", "dowhile"})
Match(D, g, c) ==
  /\ c.out[1] = g.out /\ c.succ[1] = g.succ
  /\ At(D, c.out) /\ At(D, c.succ) /\ At(D, c.brk) /\ At(D, c.cn)
PreciseFrames(D, m) ==
  {f \in AgreeingFrames :
     /\ At(D, f.c.out) /\ At(D, f.c.succ) /\ At(D, f.c.brk) /\ At(D, f.c.cn)
     /\ Placed(D, m, f.kind, f.head) /\ Known(f.kind, f.test)}

(* The heads of open counted loops differ, and nothing leaves one yet.        *)
Apart(s, edges) ==
  \A i \in 1 .. Len(s) : s[i].kind \in Counted =>
    /\ \A e \in edges : e[1] # s[i].head
    /\ \A k \in 1 .. Len(s) : k # i /\ s[k].kind \in Counted => s[k].head # s[i].head

(* Wherever the checker goes from a node, C goes from every point of it.      *)
Goes(edges, p, n) == \E q \in Points : <<p, q>> \in edges /\ q[1] = n
Followed(D, g, c) ==
  \A e \in g : Goes(c, First(e[1]), e[2]) /\ (e[1] \in D => Goes(c, Again(e[1]), e[2]))

(* Where the sweep has been, C can be.                                        *)
SweptReached(D) ==
  phase = "sweep" \/ verdict = "rejected" =>
    \A n \in seen \cup work : \E p \in CReach(pc) : p[1] = n /\ At(D, p)

PInv(D) ==
  /\ next >= 1 /\ D \subseteq 1 .. next - 1
  /\ frames \in Seq(PreciseFrames(D, next))
  /\ Apart(frames, succs)
  /\ \A e \in succs : e[1] < next
  /\ \A e \in cEdges : At(D, e[2])
  /\ Followed(D, succs, cEdges)
  /\ pending \subseteq cGotos
  /\ \A j \in pending : OneWay(D, next, j[1])
  /\ IsFiniteSet(cEdges) /\ IsFiniteSet(cGotos)
  /\ SweptReached(D)
  /\ verdict = "rejected" => kFuncEnd \in seen \/ (proc = "noreturn" /\ returns # {})

------------------------------------------------------------------------------
(* The points reached from one point.                                         *)

(* A set of numbers that is not empty has a least one.                        *)
LEMMA Least ==
  ASSUME NEW S \in SUBSET Nat, S # {}
  PROVE  \E m \in S : \A n \in S : m <= n
<1> DEFINE R == {ss \in Nat \X Nat : ss[1] < ss[2]}
<1>1. R = OpToRel(<, Nat)
  BY Zenon DEF OpToRel
<1>2. \A m, n \in Nat : m <= n \/ <<n, m>> \in R
  OBVIOUS
<1> HIDE DEF R
<1>3. IsWellFoundedOn(R, Nat)
  BY <1>1, NatLessThanWellFounded, Zenon
<1>4. PICK m \in S : \A n \in S : ~(<<n, m>> \in R)
  BY <1>3, WFMin, Zenon
<1>5. \A n \in S : m <= n
  BY <1>2, <1>4, Zenon
<1>6. QED
  BY <1>5, Zenon

(* A set of numbers with 0, and with n + 1 whenever it has n, has them all.   *)
LEMMA Induction ==
  ASSUME NEW S \in SUBSET Nat, 0 \in S, \A n \in S : n + 1 \in S
  PROVE  \A n \in Nat : n \in S
<1> SUFFICES ASSUME NEW k \in Nat, k \notin S PROVE FALSE
  OBVIOUS
<1>1. PICK m \in Nat \ S : \A n \in Nat \ S : m <= n
  <2>1. Nat \ S \in SUBSET Nat /\ Nat \ S # {}
    OBVIOUS
  <2>2. QED
    BY <2>1, Least
<1>2. m # 0 /\ m - 1 \in Nat /\ ~(m <= m - 1)
  BY <1>1
<1>3. m - 1 \in S
  BY <1>1, <1>2
<1>4. (m - 1) + 1 = m
  BY <1>2
<1>5. QED
  BY <1>1, <1>3, <1>4

(* The layers of the walk from a point: f[i] is what i rounds of Grow reach.  *)
Layers(edges, from, n, f) ==
  f = [i \in 0 .. n |-> IF i = 0 THEN {from} ELSE Grow(edges, f[i - 1])]

(* There are layers up to any number.                                         *)
LEMMA LayersExist ==
  ASSUME NEW edges, NEW from
  PROVE  \A n \in Nat : \E f : Layers(edges, from, n, f)
<1> DEFINE S == {n \in Nat : \E f : Layers(edges, from, n, f)}
<1>1. 0 \in S
  <2> DEFINE f == [i \in 0 .. 0 |-> {from}]
  <2>1. Layers(edges, from, 0, f)
    BY \A i \in 0 .. 0 : i = 0 DEF Layers
  <2>2. QED
    BY <2>1
<1>2. ASSUME NEW n \in S PROVE n + 1 \in S
  <2>1. n \in Nat /\ n + 1 \in Nat
    OBVIOUS
  <2>2. PICK g : Layers(edges, from, n, g)
    OBVIOUS
  <2> DEFINE f == [i \in 0 .. n + 1 |-> IF i = n + 1 THEN Grow(edges, g[n]) ELSE g[i]]
  <2>3. \A i \in 0 .. n : f[i] = g[i] /\ i # n + 1
    BY <2>1
  <2>4. \A i \in 0 .. n : g[i] = IF i = 0 THEN {from} ELSE Grow(edges, g[i - 1])
    BY <2>2 DEF Layers
  <2>5. f[n + 1] = Grow(edges, f[n])
    BY <2>1, <2>3
  <2>6. \A i \in 1 .. n : f[i - 1] = g[i - 1]
    <3>1. \A i \in 1 .. n : i - 1 \in 0 .. n
      BY <2>1
    <3>2. QED
      BY <2>3, <3>1
  <2>7. \A i \in 0 .. n + 1 : f[i] = IF i = 0 THEN {from} ELSE Grow(edges, f[i - 1])
    <3>1. ASSUME NEW i \in 0 .. n + 1
          PROVE  f[i] = IF i = 0 THEN {from} ELSE Grow(edges, f[i - 1])
      <4>1. CASE i = n + 1
        <5>1. i # 0 /\ i - 1 = n
          BY <2>1, <4>1
        <5>2. QED
          BY <2>5, <4>1, <5>1
      <4>2. CASE i = 0
        BY <2>1, <2>3, <2>4, <4>2
      <4>3. CASE i \in 1 .. n
        <5>1. i \in 0 .. n /\ i # 0
          BY <2>1, <4>3
        <5>2. QED
          BY <2>3, <2>4, <2>6, <4>3, <5>1
      <4>4. QED
        BY <2>1, <4>1, <4>2, <4>3
    <3>2. QED
      BY <3>1
  <2>8. f = [i \in 0 .. n + 1 |-> f[i]]
    OBVIOUS
  <2> HIDE DEF f
  <2>9. Layers(edges, from, n + 1, f)
    BY <2>7, <2>8 DEF Layers
  <2>10. QED
    BY <2>1, <2>9
<1>3. S \in SUBSET Nat
  OBVIOUS
<1> HIDE DEF S
<1>4. \A n \in Nat : n \in S
  BY <1>1, <1>2, <1>3, Induction
<1>5. QED
  BY <1>4 DEF S

(* Reach is the last layer.                                                   *)
LEMMA ReachLayers ==
  ASSUME NEW edges, IsFiniteSet(edges), NEW from
  PROVE  \E f : /\ Reach(edges, from) = f[Cardinality(edges)] /\ f[0] = {from}
                /\ \A i \in 0 .. Cardinality(edges) - 1 : f[i + 1] = Grow(edges, f[i])
<1> DEFINE N == Cardinality(edges)
           f == CHOOSE g : Layers(edges, from, N, g)
<1>1. N \in Nat
  BY FS_CardinalityType
<1>2. Layers(edges, from, N, f)
  BY <1>1, LayersExist
<1>3. Reach(edges, from) = f[N]
  BY DEF Reach, Layers
<1> HIDE DEF f, N
<1>4. \A i \in 0 .. N : f[i] = IF i = 0 THEN {from} ELSE Grow(edges, f[i - 1])
  BY <1>2 DEF Layers
<1>5. f[0] = {from}
  BY <1>1, <1>4
<1>6. \A i \in 0 .. N - 1 : f[i + 1] = Grow(edges, f[i])
  <2>1. \A i \in 0 .. N - 1 : i + 1 \in 0 .. N /\ i + 1 # 0 /\ (i + 1) - 1 = i
    BY <1>1
  <2>2. QED
    BY <1>4, <2>1
<1>7. QED
  BY <1>3, <1>5, <1>6 DEF N

(* A larger finite set has more elements.                                     *)
LEMMA StrictlyMore ==
  ASSUME NEW S, IsFiniteSet(S), NEW T, T \subseteq S, NEW x \in S, x \notin T
  PROVE  Cardinality(T) \in Nat /\ Cardinality(S) >= Cardinality(T) + 1
<1>1. T \in SUBSET S /\ T # S
  OBVIOUS
<1>2. IsFiniteSet(T) /\ Cardinality(T) <= Cardinality(S) /\ Cardinality(T) # Cardinality(S)
  BY <1>1, FS_Subset
<1>3. Cardinality(T) \in Nat /\ Cardinality(S) \in Nat
  BY <1>2, FS_CardinalityType
<1>4. QED
  BY <1>2, <1>3

(* Reach holds the point it starts from and what any of its points leads to:  *)
(* a layer that is not closed uses an edge no layer before it used, and there *)
(* are as many layers as edges.                                               *)
LEMMA ReachClosed ==
  ASSUME NEW edges, IsFiniteSet(edges), NEW from
  PROVE  /\ from \in Reach(edges, from)
         /\ \A e \in edges : e[1] \in Reach(edges, from) => e[2] \in Reach(edges, from)
<1> DEFINE N == Cardinality(edges)
<1>1. N \in Nat
  BY FS_CardinalityType
<1>2. PICK f : /\ Reach(edges, from) = f[N] /\ f[0] = {from}
               /\ \A i \in 0 .. N - 1 : f[i + 1] = Grow(edges, f[i])
  BY ReachLayers
<1> DEFINE Used(i) == {e \in edges : e[1] \in f[i]}
           Closed(i) == \A e \in edges : e[1] \in f[i] => e[2] \in f[i]
           S == {i \in Nat : i <= N => /\ from \in f[i]
                                       /\ Closed(i) \/ Cardinality(Used(i)) >= i + 1}
<1>3. ASSUME NEW i \in Nat
      PROVE  IsFiniteSet(Used(i)) /\ Cardinality(Used(i)) \in Nat /\ Cardinality(Used(i)) <= N
  <2>1. Used(i) \in SUBSET edges
    OBVIOUS
  <2> HIDE DEF Used
  <2>2. QED
    BY <2>1, FS_Subset, FS_CardinalityType
<1>4. 0 \in S
  <2>1. ASSUME ~Closed(0) PROVE Cardinality(Used(0)) >= 1
    <3>1. PICK e \in edges : e \in Used(0)
      BY <2>1
    <3>2. Cardinality({}) + 1 = 1
      BY FS_EmptySet
    <3> HIDE DEF Used
    <3>3. QED
      BY <1>3, <3>1, <3>2, StrictlyMore
  <2>2. QED
    BY <1>2, <2>1
<1>5. ASSUME NEW i \in S PROVE i + 1 \in S
  <2>1. CASE i + 1 <= N
    <3>1. i \in Nat /\ i <= N /\ i \in 0 .. N - 1 /\ f[i + 1] = Grow(edges, f[i])
      BY <1>1, <1>2, <2>1
    <3>2. f[i] \subseteq f[i + 1] /\ \A e \in edges : e[1] \in f[i] => e[2] \in f[i + 1]
      BY <3>1 DEF Grow
    <3>3. from \in f[i + 1]
      BY <3>1, <3>2
    <3>4. CASE Closed(i)
      <4>1. f[i + 1] = f[i]
        BY <3>1, <3>4 DEF Grow
      <4>2. Closed(i + 1)
        BY <3>4, <4>1
      <4>3. QED
        BY <3>1, <3>3, <4>2
    <3>5. CASE ~Closed(i) /\ ~Closed(i + 1)
      <4>1. Cardinality(Used(i)) >= i + 1
        BY <3>1, <3>5
      <4>2. PICK e \in edges : e[1] \in f[i + 1] /\ e[2] \notin f[i + 1]
        BY <3>5
      <4>3. e \in Used(i + 1) /\ e \notin Used(i) /\ Used(i) \subseteq Used(i + 1)
        BY <3>2, <4>2
      <4>4. Cardinality(Used(i + 1)) >= Cardinality(Used(i)) + 1
        <5>1. IsFiniteSet(Used(i + 1))
          BY <1>3, <3>1
        <5> HIDE DEF Used
        <5>2. QED
          BY <4>3, <5>1, StrictlyMore
      <4>5. Cardinality(Used(i)) \in Nat /\ Cardinality(Used(i + 1)) \in Nat
        <5>1. i + 1 \in Nat
          BY <3>1
        <5> HIDE DEF Used
        <5>2. QED
          BY <1>3, <3>1, <5>1
      <4> HIDE DEF Used, Closed
      <4>6. Cardinality(Used(i + 1)) >= (i + 1) + 1
        BY <3>1, <4>1, <4>4, <4>5
      <4>7. QED
        BY <3>1, <3>3, <4>6
    <3>6. CASE Closed(i + 1)
      BY <3>1, <3>3, <3>6
    <3>7. QED
      BY <3>4, <3>5, <3>6
  <2>2. CASE ~(i + 1 <= N)
    BY <2>2
  <2>3. QED
    BY <2>1, <2>2
<1>6. N \in S
  <2>1. S \in SUBSET Nat
    OBVIOUS
  <2> HIDE DEF S
  <2>2. QED
    BY <1>1, <1>4, <1>5, <2>1, Induction
<1>7. from \in f[N] /\ Closed(N)
  BY <1>1, <1>3, <1>6
<1>8. QED
  BY <1>2, <1>7

------------------------------------------------------------------------------
(* Stacks.                                                                    *)

(* The innermost block, replaced by one with the same node.                   *)
LEMMA ApartReplaced ==
  ASSUME NEW F, NEW s \in Seq(F), Len(s) >= 1, NEW edges, Apart(s, edges), NEW f,
         f.kind \in Counted => s[Len(s)].kind \in Counted /\ f.head = s[Len(s)].head
  PROVE  Apart([s EXCEPT ![Len(s)] = f], edges)
<1> DEFINE n == Len(s)
           t == [s EXCEPT ![n] = f]
<1>1. n \in Nat /\ n \in 1 .. n
  OBVIOUS
<1>2. Len(t) = n /\ t[n] = f /\ \A i \in 1 .. n : i # n => t[i] = s[i]
  OBVIOUS
<1>3. \A i \in 1 .. n : t[i].kind \in Counted => s[i].kind \in Counted /\ t[i].head = s[i].head
  BY <1>2
<1> HIDE DEF t
<1>4. Apart(t, edges)
  BY <1>1, <1>2, <1>3 DEF Apart
<1>5. QED
  BY <1>4 DEF t

(* The innermost block popped, and the one below replaced in the same way:     *)
(* what is left has no counted loop with the node of the block that went.     *)
LEMMA ApartPopped ==
  ASSUME NEW F, NEW s \in Seq(F), Len(s) > 1, NEW edges, Apart(s, edges), NEW f,
         LET g == s[Len(s) - 1]
         IN  f.kind \in Counted => g.kind \in Counted /\ f.head = g.head
  PROVE  LET t == [SubSeq(s, 1, Len(s) - 1) EXCEPT ![Len(s) - 1] = f]
         IN  /\ Apart(t, edges)
             /\ s[Len(s)].kind \in Counted =>
                  \A i \in 1 .. Len(t) : t[i].kind \in Counted => t[i].head # s[Len(s)].head
<1> DEFINE n == Len(s) - 1
           u == SubSeq(s, 1, n)
           t == [u EXCEPT ![n] = f]
<1>1. /\ n \in Nat /\ n >= 1 /\ u \in Seq(F) /\ Len(u) = n /\ n \in 1 .. n
      /\ Len(s) \in 1 .. Len(s) /\ \A i \in 1 .. n : i # Len(s)
  OBVIOUS
<1>2. \A i \in 1 .. n : u[i] = s[i] /\ i \in 1 .. Len(s)
  OBVIOUS
<1>3. Len(t) = n /\ t[n] = f /\ \A i \in 1 .. n : i # n => t[i] = u[i]
  <2> HIDE DEF n, u
  <2>1. QED
    BY <1>1
<1> HIDE DEF u
<1>4. Apart(u, edges)
  BY <1>1, <1>2 DEF Apart
<1>5. f.kind \in Counted => u[n].kind \in Counted /\ f.head = u[n].head
  BY <1>1, <1>2
<1>6. Apart([u EXCEPT ![n] = f], edges)
  <2> HIDE DEF n
  <2>1. QED
    BY <1>1, <1>4, <1>5, ApartReplaced
<1> HIDE DEF t
<1>7. \A i \in 1 .. n :
        t[i].kind \in Counted => s[i].kind \in Counted /\ t[i].head = s[i].head
  BY <1>1, <1>2, <1>3, <1>5
<1>8. ASSUME s[Len(s)].kind \in Counted
      PROVE  \A i \in 1 .. Len(t) : t[i].kind \in Counted => t[i].head # s[Len(s)].head
  <2>1. \A i \in 1 .. n : s[i].kind \in Counted => s[i].head # s[Len(s)].head
    <3> HIDE DEF n
    <3>1. QED
      BY <1>1, <1>2, <1>8 DEF Apart
  <2>2. QED
    BY <1>3, <1>7, <2>1
<1>9. Apart(t, edges)
  BY <1>6 DEF t
<1>10. QED
  BY <1>8, <1>9 DEF t, u

(* A block pushed whose node is new.                                          *)
LEMMA ApartPushed ==
  ASSUME NEW F, NEW s \in Seq(F), NEW edges, Apart(s, edges), NEW f \in F,
         f.kind \in Counted =>
           /\ \A e \in edges : e[1] # f.head
           /\ \A i \in 1 .. Len(s) : s[i].kind \in Counted => s[i].head # f.head
  PROVE  Apart(Append(s, f), edges)
<1> DEFINE n == Len(s)
           t == Append(s, f)
<1>1. n \in Nat /\ Len(t) = n + 1 /\ t[n + 1] = f /\ \A i \in 1 .. n : t[i] = s[i]
  OBVIOUS
<1>2. \A i \in 1 .. n + 1 : i = n + 1 \/ i \in 1 .. n
  BY <1>1
<1> HIDE DEF t, n
<1>3. Apart(t, edges)
  <2> SUFFICES ASSUME NEW i \in 1 .. n + 1, t[i].kind \in Counted
               PROVE  /\ \A e \in edges : e[1] # t[i].head
                      /\ \A k \in 1 .. n + 1 :
                           k # i /\ t[k].kind \in Counted => t[k].head # t[i].head
    BY <1>1 DEF Apart
  <2>1. CASE i = n + 1
    BY <1>1, <1>2, <2>1 DEF n
  <2>2. CASE i \in 1 .. n
    <3>1. /\ \A e \in edges : e[1] # t[i].head
          /\ \A k \in 1 .. n : k # i /\ t[k].kind \in Counted => t[k].head # t[i].head
      BY <1>1, <2>2 DEF Apart, n
    <3>2. t[n + 1].kind \in Counted => t[n + 1].head # t[i].head
      BY <1>1, <2>2 DEF n
    <3>3. QED
      BY <1>2, <3>1, <3>2
  <2>3. QED
    BY <1>2, <2>1, <2>2
<1>4. QED
  BY <1>3 DEF t

(* Edges added that leave no open counted loop.                               *)
LEMMA ApartMore ==
  ASSUME NEW s, NEW edges, NEW more, Apart(s, edges),
         \A i \in 1 .. Len(s) : s[i].kind \in Counted => \A e \in more : e[1] # s[i].head
  PROVE  Apart(s, edges \cup more)
BY DEF Apart

(* What a step that puts node n in front of a block, marks it or changes its  *)
(* continuation leaves as it was.                                             *)
LEMMA PreciseInFront ==
  ASSUME NEW D, NEW m, NEW f \in PreciseFrames(D, m), NEW n \in Int, NEW b
  PROVE  LET h == Mark(InFront(f, n), b)
         IN  h \in PreciseFrames(D, m) /\ h.kind = f.kind /\ h.head = f.head
<1> DEFINE i == InFront(f, n)
           h == Mark(i, b)
<1>1. f \in AgreeingFrames /\ f \in Frames
  BY DEF PreciseFrames, AgreeingFrames
<1>2. i \in Frames /\ h \in AgreeingFrames
  BY <1>1, InFrontType, AgreeInFront
<1>3. /\ i.kind = f.kind /\ i.head = f.head /\ i.test = f.test
      /\ i.c.out = f.c.out /\ i.c.brk = f.c.brk /\ i.c.cn = f.c.cn
      /\ i.c.succ = First(n)
  BY <1>1 DEF InFront, Frames, Views, AgreeingFrames
<1> HIDE DEF i
<1>4. h.kind = i.kind /\ h.head = i.head /\ h.test = i.test /\ h.c = i.c
  BY <1>2 DEF Mark, Frames
<1> HIDE DEF h
<1>5. At(D, First(n))
  BY PointType DEF At, First
<1>6. h \in PreciseFrames(D, m) /\ h.kind = f.kind /\ h.head = f.head
  BY <1>2, <1>3, <1>4, <1>5 DEF PreciseFrames
<1>7. QED
  BY <1>6 DEF h, i

(* A block stays what it is when nodes are handed out.                        *)
LEMMA PreciseLater ==
  ASSUME NEW D, NEW m \in Nat, NEW n \in Nat, n > m
  PROVE  /\ PreciseFrames(D, m) \subseteq PreciseFrames(D, n)
         /\ PreciseFrames(D, m) \subseteq PreciseFrames(D \cup {m}, n)
<1>1. \A k : OneWay(D, m, k) => OneWay(D, n, k) /\ OneWay(D \cup {m}, n, k)
  BY DEF OneWay
<1>2. \A p : At(D, p) => At(D \cup {m}, p)
  BY DEF At
<1>3. QED
  BY <1>1, <1>2 DEF PreciseFrames, Placed

------------------------------------------------------------------------------
(* Edges.                                                                     *)

(* One C edge that goes from p to node n, among others.                       *)
LEMMA GoesBy ==
  ASSUME NEW c, NEW p, NEW q \in Points, <<p, q>> \in c, NEW n, q[1] = n
  PROVE  Goes(c, p, n)
BY DEF Goes

(* C may do more.                                                             *)
LEMMA FollowedMore ==
  ASSUME NEW D, NEW g, NEW c, NEW h, NEW d, Followed(D, g, c), Followed(D, h, d)
  PROVE  Followed(D, g \cup h, c \cup d)
<1>1. \A p, n : Goes(c, p, n) \/ Goes(d, p, n) => Goes(c \cup d, p, n)
  BY DEF Goes
<1>2. QED
  BY <1>1 DEF Followed

(* A small set of edges is finite.                                            *)
LEMMA FewEdges ==
  ASSUME NEW a, NEW b, NEW c, NEW d
  PROVE  /\ IsFiniteSet({}) /\ IsFiniteSet({a}) /\ IsFiniteSet({a, b})
         /\ IsFiniteSet({a, b, c}) /\ IsFiniteSet({a, b, c, d})
<1>1. IsFiniteSet({}) /\ IsFiniteSet({a}) /\ IsFiniteSet({b}) /\ IsFiniteSet({c})
      /\ IsFiniteSet({d})
  BY FS_EmptySet, FS_Singleton
<1>2. {a, b} = {a} \cup {b} /\ IsFiniteSet({a} \cup {b})
  BY <1>1, FS_Union
<1>3. {a, b, c} = {a, b} \cup {c} /\ IsFiniteSet({a, b} \cup {c})
  BY <1>1, <1>2, FS_Union
<1>4. {a, b, c, d} = {a, b, c} \cup {d} /\ IsFiniteSet({a, b, c} \cup {d})
  BY <1>1, <1>3, FS_Union
<1>5. QED
  BY <1>1, <1>2, <1>3, <1>4

(* What a step adds to the two graphs: edges that leave nodes already handed  *)
(* out, and C edges that follow them.                                         *)
Adds(D, m, g, c) ==
  /\ \A e \in g : e[1] < m
  /\ \A e \in c : At(D, e[2])
  /\ Followed(D, g, c)
  /\ IsFiniteSet(c)

(* Such edges added to the graphs.                                            *)
LEMMA EdgesPrecise ==
  ASSUME IInv, NEW D, PInv(D), NEW m \in Nat, m >= next, NEW g, NEW c,
         AddEdges(g, c), Adds(D, m, g, c)
  PROVE  /\ succs' = succs \cup g /\ cEdges' = cEdges \cup c
         /\ Adds(D, m, succs', cEdges')
<1>1. succs' = succs \cup g /\ cEdges' = cEdges \cup c
  BY AgreeTop DEF AddEdges, IfLive
<1>2. \A e \in succs : e[1] < m
  <2>1. \A e \in succs : e[1] \in Int /\ e[1] < next
    BY DEF PInv, IInv, TypeOK
  <2>2. next \in Nat
    BY DEF IInv, TypeOK
  <2>3. QED
    BY <2>1, <2>2
<1>3. IsFiniteSet(cEdges \cup c)
  BY FS_Union DEF PInv, Adds
<1>4. QED
  BY <1>1, <1>2, <1>3, FollowedMore DEF PInv, Adds

(* What the invariant says of the innermost block.                            *)
LEMMA PreciseTop ==
  ASSUME IInv, NEW D, PInv(D)
  PROVE  /\ Top \in PreciseFrames(D, next) /\ Len(frames) >= 1 /\ next \in Nat
         /\ Top.g.succ \in Int /\ Top.g.out \in Int /\ Top.g.brk \in Int /\ Top.g.cn \in Int
         /\ Top.head \in Int
         /\ frames \in Seq(PreciseFrames(D, next))
         /\ \A i \in 1 .. Len(frames) : frames[i].kind \in Counted => frames[i].head \in D
         /\ next >= 1 /\ D \subseteq 1 .. next - 1
<1>1. Len(frames) >= 1 /\ next \in Nat /\ frames \in Seq(PreciseFrames(D, next))
      /\ next >= 1 /\ D \subseteq 1 .. next - 1
  BY DEF IInv, TypeOK, PInv
<1>2. Top \in PreciseFrames(D, next)
  BY <1>1, TopIn DEF Top
<1>3. \A i \in 1 .. Len(frames) : frames[i].kind \in Counted => frames[i].head \in D
  <2>1. \A i \in 1 .. Len(frames) : frames[i] \in PreciseFrames(D, next)
    BY <1>1
  <2>2. QED
    BY <2>1 DEF PreciseFrames, Placed
<1>4. QED
  BY <1>1, <1>2, <1>3, AgreeTop, FrameFields

(* While the body is built nothing has been swept or judged.                  *)
LEMMA BuildPrecise ==
  ASSUME IInv', Building, phase' = phase, NEW E,
         next' >= 1, E \subseteq 1 .. next' - 1,
         frames' \in Seq(PreciseFrames(E, next')),
         Apart(frames', succs'),
         Adds(E, next', succs', cEdges'),
         pending' \subseteq cGotos',
         \A j \in pending' : OneWay(E, next', j[1]),
         IsFiniteSet(cGotos')
  PROVE  PInv(E)'
<1>1. phase' # "sweep" /\ verdict' # "rejected"
  BY DEF IInv, Building
<1>2. SweptReached(E)'
  BY <1>1 DEF SweptReached
<1>3. QED
  BY <1>1, <1>2 DEF PInv, Adds

(* Edges that leave node n, and C edges that follow them.                     *)
Leaves(D, n, g, c) ==
  /\ \A e \in g : e[1] = n
  /\ \A e \in c : At(D, e[2])
  /\ Followed(D, g, c)
  /\ IsFiniteSet(c)

(* A statement of one node in front of the innermost block, with edges that   *)
(* leave the new node.                                                        *)
LEMMA StatementPrecise ==
  ASSUME IInv, IInv', NEW D, PInv(D), Building, phase' = phase, next' = next + 1,
         NEW b, frames' = ReplaceTop(Mark(InFront(Top, next), b)),
         NEW g, NEW c, AddEdges(g, c), Leaves(D, next, g, c),
         pending' \subseteq cGotos', \A j \in pending' : j \in pending \/ j[1] = next,
         IsFiniteSet(cGotos')
  PROVE  PInv(D)'
<1> DEFINE h == Mark(InFront(Top, next), b)
<1>1. /\ Top \in PreciseFrames(D, next) /\ Len(frames) >= 1 /\ next \in Nat
      /\ frames \in Seq(PreciseFrames(D, next))
      /\ next >= 1 /\ D \subseteq 1 .. next - 1
  BY PreciseTop
<1>2. next + 1 \in Nat /\ next \in Int /\ next + 1 > next /\ next < next + 1
      /\ next + 1 >= next /\ next \notin D
  BY <1>1
<1>3. h \in PreciseFrames(D, next) /\ h.kind = Top.kind /\ h.head = Top.head
  BY <1>1, <1>2, PreciseInFront
<1> HIDE DEF h
<1>4. frames' = [frames EXCEPT ![Len(frames)] = h]
  BY DEF ReplaceTop, h
<1>5. frames' \in Seq(PreciseFrames(D, next)) /\ Len(frames') = Len(frames)
  BY <1>1, <1>3, <1>4, ReplaceIn
<1>6. Apart(frames', succs)
  <2>1. Apart(frames, succs)
    BY DEF PInv
  <2>2. h.kind \in Counted
          => frames[Len(frames)].kind \in Counted /\ h.head = frames[Len(frames)].head
    BY <1>3 DEF Top
  <2>3. Apart([frames EXCEPT ![Len(frames)] = h], succs)
    BY <1>1, <2>1, <2>2, ApartReplaced
  <2>4. QED
    BY <1>4, <2>3
<1>7. Adds(D, next + 1, g, c)
  BY <1>2 DEF Adds, Leaves
<1>8. succs' = succs \cup g /\ Adds(D, next', succs', cEdges')
  BY <1>1, <1>2, <1>7, EdgesPrecise
<1>9. \A i \in 1 .. Len(frames') : frames'[i].kind \in Counted => frames'[i].head \in D
  <2>1. \A i \in 1 .. Len(frames') : frames'[i] \in PreciseFrames(D, next)
    BY <1>5
  <2>2. QED
    BY <2>1 DEF PreciseFrames, Placed
<1>10. Apart(frames', succs')
  <2>1. \A i \in 1 .. Len(frames') :
          frames'[i].kind \in Counted => \A e \in g : e[1] # frames'[i].head
    BY <1>2, <1>9 DEF Leaves
  <2>2. QED
    BY <1>6, <1>8, <2>1, ApartMore
<1>11. frames' \in Seq(PreciseFrames(D, next'))
  <2>1. PreciseFrames(D, next) \subseteq PreciseFrames(D, next + 1)
    BY <1>1, <1>2, PreciseLater
  <2>2. QED
    BY <1>5, <2>1
<1>12. \A j \in pending' : OneWay(D, next', j[1])
  <2>1. next \in 1 .. (next + 1) - 1
    BY <1>1
  <2>2. \A j \in pending : j[1] \in 1 .. next - 1 /\ j[1] \notin D
    BY DEF PInv, OneWay
  <2>3. \A k \in 1 .. next - 1 : k \in 1 .. (next + 1) - 1
    BY <1>1
  <2>4. QED
    BY <1>2, <2>1, <2>2, <2>3 DEF OneWay
<1>13. next' >= 1 /\ D \subseteq 1 .. next' - 1
  BY <1>1
<1>14. QED
  BY <1>8, <1>10, <1>11, <1>12, <1>13, BuildPrecise

(* One edge from the new node, followed by one C edge, or none.               *)
LEMMA NewEdge ==
  ASSUME IInv, NEW D, PInv(D), NEW n \in Int, NEW q \in Points, At(D, q), q[1] = n
  PROVE  /\ Leaves(D, next, {<<next, n>>}, {<<First(next), q>>})
         /\ Leaves(D, next, {}, {})
<1>1. next \notin D
  BY PreciseTop
<1>2. Goes({<<First(next), q>>}, First(next), n)
  BY GoesBy
<1>3. IsFiniteSet({<<First(next), q>>}) /\ IsFiniteSet({})
  BY FewEdges
<1>4. Followed(D, {<<next, n>>}, {<<First(next), q>>}) /\ Followed(D, {}, {})
  BY <1>1, <1>2 DEF Followed
<1>5. QED
  BY <1>3, <1>4 DEF Leaves

(* The statements without a body.                                             *)
LEMMA OneNodePrecise ==
  ASSUME IInv, IInv', PreciseForms, NEW D, PInv(D),
         Complete \/ CallNoReturn \/ Return \/ Break \/ Continue
           \/ (\E l \in Labels : Goto(l) \/ Label(l))
  PROVE  PInv(D)'
<1> DEFINE f == Top
           h == InFront(f, next)
<1>1. /\ f.c.succ[1] = f.g.succ /\ f.live = TRUE
      /\ f.g.succ \in Int /\ f.g.brk \in Int /\ f.g.cn \in Int
      /\ f.c.succ \in Points /\ f.c.brk \in Points /\ f.c.cn \in Points
      /\ At(D, f.c.succ) /\ At(D, f.c.brk) /\ At(D, f.c.cn)
  <2>1. f \in PreciseFrames(D, next)
    BY PreciseTop
  <2>2. f \in Frames /\ f.live = TRUE /\ f.c.succ[1] = f.g.succ
    BY AgreeTop
  <2>3. QED
    BY <2>1, <2>2, FrameFields DEF PreciseFrames
<1>2. h = Mark(h, FALSE)
  BY DEF Mark
<1>3. /\ pending \subseteq cGotos /\ IsFiniteSet(cGotos)
  BY DEF PInv
<1>4. /\ Leaves(D, next, {<<next, f.g.succ>>}, {<<First(next), f.c.succ>>})
      /\ Leaves(D, next, {}, {})
  BY <1>1, NewEdge
<1>5. ASSUME Building, phase' = phase, next' = next + 1, UNCHANGED <<pending, cGotos>>,
             NEW b, frames' = ReplaceTop(Mark(h, b)),
             NEW g, NEW c, AddEdges(g, c), Leaves(D, next, g, c)
      PROVE  PInv(D)'
  <2>1. pending' \subseteq cGotos' /\ \A j \in pending' : j \in pending \/ j[1] = next
    BY <1>3, <1>5
  <2>2. IsFiniteSet(cGotos')
    BY <1>3, <1>5
  <2>3. QED
    BY <1>5, <2>1, <2>2, StatementPrecise
<1> HIDE DEF h
<1>6. CASE Complete
  BY <1>2, <1>4, <1>5, <1>6 DEF Complete, OneNode, Room, h
<1>7. CASE CallNoReturn
  BY <1>7 DEF CallNoReturn, OneNode, PreciseForms
<1>8. CASE Return
  <2>1. AddEdges({}, {})
    BY <1>8 DEF Return, AddEdges, IfLive
  <2>2. QED
    BY <1>2, <1>4, <1>5, <1>8, <2>1 DEF Return, OneNode, Room, h
<1>9. CASE Break
  <2>1. f.c.brk[1] = f.g.brk /\ JumpEdge(f.g.brk) = {<<next, f.g.brk>>}
    BY <1>1, <1>9 DEF Break, Agree, PreciseForms, JumpEdge
  <2>2. Leaves(D, next, JumpEdge(f.g.brk), {<<First(next), f.c.brk>>})
    BY <1>1, <2>1, NewEdge
  <2>3. QED
    BY <1>5, <1>9, <2>2 DEF Break, OneNode, Room, h
<1>10. CASE Continue
  <2>1. f.c.cn[1] = f.g.cn /\ JumpEdge(f.g.cn) = {<<next, f.g.cn>>}
    BY <1>1, <1>10 DEF Continue, Agree, PreciseForms, JumpEdge
  <2>2. Leaves(D, next, JumpEdge(f.g.cn), {<<First(next), f.c.cn>>})
    BY <1>1, <2>1, NewEdge
  <2>3. QED
    BY <1>2, <1>5, <1>10, <2>2 DEF Continue, OneNode, Room, h
<1>11. ASSUME NEW l \in Labels, Goto(l) PROVE PInv(D)'
  <2>1. AddEdges({}, {})
    BY <1>11 DEF Goto, AddEdges, IfLive
  <2>2. /\ pending' = pending \cup {<<next, l>>} /\ cGotos' = cGotos \cup {<<next, l>>}
    BY <1>1, <1>11 DEF Goto, IfLive
  <2>3. pending' \subseteq cGotos' /\ \A j \in pending' : j \in pending \/ j[1] = next
    BY <1>3, <2>2
  <2>4. IsFiniteSet(cGotos')
    BY <1>3, <2>2, FewEdges, FS_Union
  <2>5. /\ Building /\ phase' = phase /\ next' = next + 1
        /\ frames' = ReplaceTop(Mark(InFront(Top, next), FALSE))
    BY <1>2, <1>11 DEF Goto, OneNode, Room, h
  <2>6. QED
    BY <1>4, <2>1, <2>3, <2>4, <2>5, StatementPrecise
<1>12. ASSUME NEW l \in Labels, Label(l) PROVE PInv(D)'
  BY <1>2, <1>4, <1>5, <1>12 DEF Label, OneNode, Room, h
<1>13. QED
  BY <1>6, <1>7, <1>8, <1>9, <1>10, <1>11, <1>12

------------------------------------------------------------------------------
(* Blocks.                                                                    *)

(* A block opened: a counted loop has the new node, which joins D.            *)
LEMMA OpenPrecise ==
  ASSUME IInv, IInv', NEW D, PInv(D), NEW form, NEW nodes \in Nat, NEW f,
         Open(form, nodes, f), NEW E,
         E = D \/ (E = D \cup {next} /\ nodes >= 1),
         f \in PreciseFrames(E, next + nodes), f.kind \in Counted => f.head = next
  PROVE  PInv(E)'
<1>1. /\ Len(frames) >= 1 /\ next \in Nat /\ frames \in Seq(PreciseFrames(D, next))
      /\ next >= 1 /\ D \subseteq 1 .. next - 1
      /\ \A i \in 1 .. Len(frames) : frames[i].kind \in Counted => frames[i].head \in D
  BY PreciseTop
<1>2. next' = next + nodes /\ next' \in Nat /\ next' >= next /\ next' >= 1
  BY <1>1 DEF Open
<1>3. \A k \in 1 .. next - 1 : k \in 1 .. next' - 1 /\ k # next
  BY <1>1, <1>2
<1>4. E \subseteq 1 .. next' - 1 /\ D \subseteq E
  <2>1. nodes >= 1 => next \in 1 .. next' - 1
    BY <1>1, <1>2
  <2>2. QED
    BY <1>1, <1>3, <2>1
<1>5. PreciseFrames(D, next) \subseteq PreciseFrames(E, next')
  <2>1. CASE next' = next
    BY <1>1, <1>2, <2>1
  <2>2. CASE next' # next
    <3>1. next' > next
      BY <1>1, <1>2, <2>2
    <3>2. QED
      BY <1>1, <1>2, <3>1, PreciseLater
  <2>3. QED
    BY <2>1, <2>2
<1>6. /\ frames' = Append(frames, f) /\ succs' = succs /\ cEdges' = cEdges
      /\ pending' = pending /\ cGotos' = cGotos /\ phase' = phase /\ Building
  BY DEF Open, Room
<1>7. frames' \in Seq(PreciseFrames(E, next')) /\ frames \in Seq(PreciseFrames(E, next'))
  BY <1>1, <1>2, <1>5, <1>6, PushIn
<1>8. \A e \in succs : e[1] # next /\ e[1] < next'
  <2>1. \A e \in succs : e[1] \in Int /\ e[1] < next
    BY DEF PInv, IInv, TypeOK
  <2>2. QED
    BY <1>1, <1>2, <2>1
<1>9. Apart(frames', succs')
  <2>1. f.kind \in Counted =>
          /\ \A e \in succs : e[1] # f.head
          /\ \A i \in 1 .. Len(frames) : frames[i].kind \in Counted => frames[i].head # f.head
    BY <1>1, <1>3, <1>8
  <2>2. Apart(frames, succs) /\ f \in PreciseFrames(E, next')
    BY <1>2 DEF PInv
  <2>3. Apart(Append(frames, f), succs)
    BY <1>7, <2>1, <2>2, ApartPushed
  <2>4. QED
    BY <1>6, <2>3
<1>10. Adds(E, next', succs', cEdges')
  <2>1. \A e \in cEdges : At(E, e[2])
    BY <1>4 DEF PInv, At
  <2>2. Followed(E, succs, cEdges)
    BY <1>4, <1>8 DEF PInv, Followed
  <2>3. QED
    BY <1>6, <1>8, <2>1, <2>2 DEF PInv, Adds
<1>11. pending' \subseteq cGotos' /\ IsFiniteSet(cGotos')
  BY <1>6 DEF PInv
<1>12. \A j \in pending' : OneWay(E, next', j[1])
  <2>1. \A j \in pending : j[1] \in 1 .. next - 1 /\ j[1] \notin D
    BY DEF PInv, OneWay
  <2>2. QED
    BY <1>3, <1>6, <2>1 DEF OneWay
<1>13. QED
  BY <1>2, <1>4, <1>6, <1>7, <1>9, <1>10, <1>11, <1>12, BuildPrecise

(* The kinds of block a statement opens.                                      *)
Opened == {"then", "compiled", "clause"} \cup LoopKinds

(* A fresh block among the precise ones.                                      *)
LEMMA PreciseFrame ==
  ASSUME NEW D, NEW m, NEW kind \in Opened,
         NEW test \in Tests, NEW head \in Int, NEW default \in BOOLEAN,
         NEW g \in Views(Int), NEW c \in Views(Points),
         Match(D, g, c), Placed(D, m, kind, head), Known(kind, test)
  PROVE  Frame(kind, test, head, TRUE, default, g, c) \in PreciseFrames(D, m)
<1> DEFINE f == Frame(kind, test, head, TRUE, default, g, c)
<1>1. f \in Frames
  BY FrameType DEF Opened
<1>2. /\ f.kind = kind /\ f.test = test /\ f.head = head /\ f.live = TRUE
      /\ f.g = g /\ f.c = c
  BY DEF Frame
<1> HIDE DEF f
<1>3. f \in AgreeingFrames
  <2>1. kind \in {"repeat", "for"} => test # "always"
    BY DEF Known
  <2>2. QED
    BY <1>1, <1>2, <2>1 DEF AgreeingFrames, Match
<1>4. f \in PreciseFrames(D, m)
  BY <1>2, <1>3 DEF PreciseFrames, Match
<1>5. QED
  BY <1>4 DEF f

(* The point a loop body goes back to.                                        *)
LEMMA BackAt ==
  ASSUME NEW E, NEW kind, NEW head \in Int, kind \in Counted => head \in E
  PROVE  At(E, BackPoint(kind, head))
<1>1. BackPoint(kind, head) \in Points
  BY BackType
<1>2. CASE kind \in Counted
  BY <1>1, <1>2 DEF At, BackPoint, Again
<1>3. CASE kind \notin Counted
  BY <1>1, <1>3 DEF At, BackPoint, First
<1>4. QED
  BY <1>2, <1>3

(* Opening the block of a statement with a body.                              *)
LEMMA OpensPrecise ==
  ASSUME IInv, IInv', PreciseForms, NEW D, PInv(D),
         \/ \E test \in Tests : OpenIf(test)
         \/ \E test \in Tests, kind \in LoopKinds : OpenLoop(kind, test)
         \/ \E b \in BOOLEAN : OpenCompileIf(b) \/ OpenSwitch(b)
  PROVE  \E E : PInv(E)'
<1> DEFINE g == Inherit(Top.g)
           c == Inherit(Top.c)
           gs == [Inherit(Top.g) EXCEPT !.brk = Top.g.succ]
           cs == [Inherit(Top.c) EXCEPT !.brk = Top.c.succ]
<1>1. /\ next \in Nat /\ next >= 1 /\ D \subseteq 1 .. next - 1
      /\ Top \in PreciseFrames(D, next)
      /\ Top.g.succ \in Int /\ Top.g.cn \in Int
      /\ Top.live = TRUE /\ Top.c.succ[1] = Top.g.succ /\ TypeOK /\ Top \in Frames
  BY PreciseTop, AgreeTop
<1>2. /\ At(D, Top.c.succ) /\ At(D, Top.c.brk) /\ At(D, Top.c.cn)
  BY <1>1 DEF PreciseFrames
<1>3. /\ g \in Views(Int) /\ c \in Views(Points)
      /\ gs \in Views(Int) /\ cs \in Views(Points)
      /\ Top.g \in Views(Int) /\ Top.c \in Views(Points) /\ Top.c.succ \in Points
  BY <1>1, FrameFields, InheritType
<1>4. Match(D, g, c) /\ Match(D, gs, cs)
  <2>1. /\ g.out = Top.g.succ /\ g.succ = Top.g.succ
        /\ gs.out = Top.g.succ /\ gs.succ = Top.g.succ
    BY <1>3 DEF Inherit, Views
  <2>2. /\ c.out = Top.c.succ /\ c.succ = Top.c.succ /\ c.brk = Top.c.brk /\ c.cn = Top.c.cn
        /\ cs.out = Top.c.succ /\ cs.succ = Top.c.succ /\ cs.brk = Top.c.succ
        /\ cs.cn = Top.c.cn
    BY <1>3 DEF Inherit, Views
  <2> HIDE DEF g, c, gs, cs
  <2>3. QED
    BY <1>1, <1>2, <2>1, <2>2 DEF Match
<1>5. /\ next \in Int /\ next + 1 \in Int /\ NoNode \in Int
      /\ OneWay(D, next + 1, next) /\ OneWay(D, next + 2, next) /\ OneWay(D, next + 2, next + 1)
  BY <1>1 DEF OneWay, NoNode
<1> HIDE DEF g, c, gs, cs
<1>0. ASSUME NEW kind \in {"then", "compiled", "clause"}, NEW head \in Int, NEW m,
             kind # "compiled" => OneWay(D, m, head), NEW default \in BOOLEAN,
             NEW u \in Views(Int), NEW v \in Views(Points), Match(D, u, v)
      PROVE  /\ Frame(kind, "runtime", head, TRUE, default, u, v) \in PreciseFrames(D, m)
             /\ Frame(kind, "runtime", head, TRUE, default, u, v).kind \notin Counted
  <2>1. kind \notin Counted /\ "runtime" \in Tests /\ Known(kind, "runtime")
    BY <1>0 DEF Counted, Tests, Known
  <2>2. Placed(D, m, kind, head)
    BY <1>0, <2>1 DEF Placed
  <2>3. "runtime" \in Tests /\ kind \in Opened
    BY <1>0, <2>1 DEF Opened
  <2> DEFINE f == Frame(kind, "runtime", head, TRUE, default, u, v)
  <2>4. f.kind = kind
    BY DEF Frame
  <2> HIDE DEF f
  <2>5. f \in PreciseFrames(D, m)
    BY <1>0, <2>1, <2>2, <2>3, PreciseFrame DEF f
  <2>6. QED
    BY <2>1, <2>4, <2>5 DEF f
<1>6. ASSUME NEW test \in Tests, OpenIf(test) PROVE \E E : PInv(E)'
  <2> DEFINE f == Frame("then", test, next, TRUE, FALSE, g, c)
  <2>1. test = "runtime"
    BY <1>6 DEF OpenIf, Open, PreciseForms
  <2>2. f \in PreciseFrames(D, next + 1) /\ f.kind \notin Counted
    BY <1>3, <1>4, <1>5, <1>0, <2>1
  <2>3. Open(<<"if", test>> \in Headers, 1, f)
    BY <1>1, <1>6 DEF OpenIf, g, c
  <2> HIDE DEF f
  <2>4. PInv(D)'
    BY <2>2, <2>3, OpenPrecise
  <2>5. QED
    BY <2>4
<1>7. ASSUME NEW test \in Tests, NEW kind \in LoopKinds, OpenLoop(kind, test)
      PROVE  \E E : PInv(E)'
  <2> DEFINE back == BackNode(kind, next)
             point == BackPoint(kind, next)
             u == View(Top.g.succ, back, Top.g.succ,
                       IF kind = "repeat" THEN Top.g.cn ELSE back)
             v == View(Top.c.succ, point, Top.c.succ, point)
             nodes == IF kind = "dowhile" THEN 2 ELSE 1
             f == Frame(kind, test, next, TRUE, FALSE, u, v)
  <2>0. PICK E : E = IF kind \in Counted THEN D \cup {next} ELSE D
    OBVIOUS
  <2>1. back \in Int /\ point \in Points /\ point[1] = back
    BY <1>5, BackType
  <2>2. /\ u \in Views(Int) /\ v \in Views(Points)
        /\ u.out = Top.g.succ /\ u.succ = back
        /\ v.out = Top.c.succ /\ v.succ = point /\ v.brk = Top.c.succ /\ v.cn = point
    <3>1. u \in Views(Int) /\ v \in Views(Points)
      BY <1>1, <1>3, <2>1 DEF View, Views
    <3>2. QED
      BY <3>1 DEF View
  <2>3. Open(<<kind, test>> \in Headers, nodes, f) /\ <<kind, test>> \in Headers
    BY <1>1, <1>7 DEF OpenLoop, Open
  <2>4. Known(kind, test)
    BY <2>3 DEF PreciseForms, Known
  <2>5. /\ nodes \in Nat /\ nodes >= 1
        /\ kind = "dowhile" => nodes = 2
        /\ kind # "dowhile" => nodes = 1
    OBVIOUS
  <2>6. At(E, Top.c.succ) /\ At(E, point)
    <3>1. At(E, Top.c.succ)
      BY <1>2, <2>0 DEF At
    <3>2. At(E, point)
      BY <1>5, <2>0, BackAt
    <3>3. QED
      BY <3>1, <3>2
  <2>7. Placed(E, next + nodes, kind, next) /\ (E = D \/ (E = D \cup {next} /\ nodes >= 1))
    BY <1>5, <2>0, <2>5 DEF Counted, Placed
  <2> HIDE DEF u, v, back, point, nodes
  <2>8. f \in PreciseFrames(E, next + nodes) /\ f.kind = kind /\ f.head = next
    <3>1. Match(E, u, v)
      BY <1>1, <2>1, <2>2, <2>6 DEF Match
    <3>2. kind \in Opened /\ FALSE \in BOOLEAN
      BY DEF Opened
    <3>3. f.kind = kind /\ f.head = next
      BY DEF Frame
    <3> HIDE DEF f
    <3>4. f \in PreciseFrames(E, next + nodes)
      BY <1>5, <2>2, <2>4, <2>7, <3>1, <3>2, PreciseFrame DEF f
    <3>5. QED
      BY <3>3, <3>4
  <2> HIDE DEF f
  <2>9. PInv(E)'
    <3>1. \E form : Open(form, nodes, f)
      BY <2>3
    <3>2. f.kind \in Counted => f.head = next
      BY <2>8
    <3>3. nodes \in Nat /\ (E = D \/ (E = D \cup {next} /\ nodes >= 1))
      BY <2>5, <2>7
    <3>4. f \in PreciseFrames(E, next + nodes)
      BY <2>8
    <3>5. QED
      BY <3>1, <3>2, <3>3, <3>4, OpenPrecise
  <2>10. QED
    BY <2>9
<1>8. ASSUME NEW b \in BOOLEAN, OpenCompileIf(b) PROVE \E E : PInv(E)'
  <2> DEFINE f == Frame("compiled", "runtime", NoNode, TRUE, FALSE, g, c)
  <2>1. b = TRUE
    BY <1>8 DEF OpenCompileIf, Open, PreciseForms
  <2>2. f \in PreciseFrames(D, next) /\ f.kind \notin Counted
    BY <1>3, <1>4, <1>5, <1>0
  <2>3. \E form : Open(form, 0, f)
    BY <1>8, <2>1 DEF OpenCompileIf, g, c
  <2> HIDE DEF f
  <2>4. f \in PreciseFrames(D, next + 0) /\ 0 \in Nat
    BY <1>1, <2>2
  <2>5. PInv(D)'
    BY <2>2, <2>3, <2>4, OpenPrecise
  <2>6. QED
    BY <2>5
<1>9. ASSUME NEW b \in BOOLEAN, OpenSwitch(b) PROVE \E E : PInv(E)'
  <2> DEFINE f == Frame("clause", "runtime", next, TRUE, b, gs, cs)
  <2>1. f \in PreciseFrames(D, next + 1) /\ f.kind \notin Counted
    BY <1>3, <1>4, <1>5, <1>0
  <2>2. \E form : Open(form, 1, f)
    BY <1>1, <1>9 DEF OpenSwitch, gs, cs
  <2> HIDE DEF f
  <2>3. PInv(D)'
    BY <2>1, <2>2, OpenPrecise
  <2>4. QED
    BY <2>3
<1>10. QED
  BY <1>6, <1>7, <1>8, <1>9

(* The edges added when block f is done: they leave a node C passes in one    *)
(* way, or the counted loop that f is the body of.                            *)
Ends(D, m, f, g, c) ==
  /\ \A e \in g : OneWay(D, m, e[1]) \/ (f.kind \in Counted /\ e[1] = f.head)
  /\ \A e \in c : At(D, e[2])
  /\ Followed(D, g, c)
  /\ IsFiniteSet(c)

(* A step that hands out no node and puts no new counted loop on the stack.   *)
LEMMA EndPrecise ==
  ASSUME IInv, IInv', NEW D, PInv(D), Building, phase' = phase,
         UNCHANGED <<next, pending, cGotos>>,
         frames' \in Seq(PreciseFrames(D, next)), Apart(frames', succs),
         Top.kind \in Counted =>
           \A i \in 1 .. Len(frames') :
             frames'[i].kind \in Counted => frames'[i].head # Top.head,
         NEW g, NEW c, AddEdges(g, c), Ends(D, next, Top, g, c)
  PROVE  PInv(D)'
<1>1. /\ next \in Nat /\ next >= 1 /\ D \subseteq 1 .. next - 1
      /\ Top \in PreciseFrames(D, next)
  BY PreciseTop
<1>2. \A e \in g : e[1] < next
  <2>1. Top.kind \in Counted => Top.head \in 1 .. next - 1
    BY <1>1 DEF PreciseFrames, Placed
  <2>2. \A k \in 1 .. next - 1 : k < next
    BY <1>1
  <2>3. QED
    BY <2>1, <2>2 DEF Ends, OneWay
<1>3. succs' = succs \cup g /\ Adds(D, next, succs', cEdges')
  <2>1. Adds(D, next, g, c)
    BY <1>2 DEF Ends, Adds
  <2>2. next >= next
    BY <1>1
  <2>3. QED
    BY <1>1, <2>1, <2>2, EdgesPrecise
<1>4. \A i \in 1 .. Len(frames') : frames'[i].kind \in Counted => frames'[i].head \in D
  <2>1. \A i \in 1 .. Len(frames') : frames'[i] \in PreciseFrames(D, next)
    OBVIOUS
  <2>2. QED
    BY <2>1 DEF PreciseFrames, Placed
<1>5. \A i \in 1 .. Len(frames') :
        frames'[i].kind \in Counted => \A e \in g : e[1] # frames'[i].head
  BY <1>4 DEF Ends, OneWay
<1>6. Apart(frames', succs')
  BY <1>3, <1>5, ApartMore
<1>7. /\ pending' \subseteq cGotos' /\ IsFiniteSet(cGotos')
      /\ \A j \in pending' : OneWay(D, next', j[1])
  BY DEF PInv
<1>8. next' >= 1 /\ D \subseteq 1 .. next' - 1 /\ frames' \in Seq(PreciseFrames(D, next'))
      /\ Adds(D, next', succs', cEdges')
  BY <1>1, <1>3
<1>9. QED
  BY <1>6, <1>7, <1>8, BuildPrecise

(* The next part of the same statement, or the next clause.                   *)
LEMMA GoOnPrecise ==
  ASSUME IInv, IInv', NEW D, PInv(D), Building, phase' = phase,
         UNCHANGED <<next, pending, cGotos>>, Top.kind \notin Counted,
         NEW f \in PreciseFrames(D, next), f.kind \notin Counted, frames' = ReplaceTop(f),
         NEW g, NEW c, AddEdges(g, c), Ends(D, next, Top, g, c)
  PROVE  PInv(D)'
<1>1. Len(frames) >= 1 /\ frames \in Seq(PreciseFrames(D, next)) /\ Apart(frames, succs)
  BY PreciseTop DEF PInv
<1>2. frames' = [frames EXCEPT ![Len(frames)] = f]
  BY DEF ReplaceTop
<1>3. frames' \in Seq(PreciseFrames(D, next))
  BY <1>1, <1>2, ReplaceIn
<1>4. Apart([frames EXCEPT ![Len(frames)] = f], succs)
  BY <1>1, ApartReplaced
<1>5. QED
  BY <1>2, <1>3, <1>4, EndPrecise

(* The stack popped onto a block that is what the one below was.              *)
LEMMA PopPrecise ==
  ASSUME IInv, IInv', NEW D, PInv(D), Building, phase' = phase, Len(frames) > 1,
         UNCHANGED <<next, pending, cGotos>>,
         NEW f \in PreciseFrames(D, next), f.kind = Below.kind, f.head = Below.head,
         frames' = Pop(f),
         NEW g, NEW c, AddEdges(g, c), Ends(D, next, Top, g, c)
  PROVE  PInv(D)'
<1>1. frames \in Seq(PreciseFrames(D, next)) /\ Apart(frames, succs)
  BY PreciseTop DEF PInv
<1>2. frames' = [SubSeq(frames, 1, Len(frames) - 1) EXCEPT ![Len(frames) - 1] = f]
  BY DEF Pop
<1>3. frames' \in Seq(PreciseFrames(D, next))
  BY <1>1, <1>2, PopIn
<1>4. f.kind \in Counted => frames[Len(frames) - 1].kind \in Counted
                            /\ f.head = frames[Len(frames) - 1].head
  BY DEF Below
<1>5. LET t == [SubSeq(frames, 1, Len(frames) - 1) EXCEPT ![Len(frames) - 1] = f]
      IN  /\ Apart(t, succs)
          /\ frames[Len(frames)].kind \in Counted =>
               \A i \in 1 .. Len(t) :
                 t[i].kind \in Counted => t[i].head # frames[Len(frames)].head
  BY <1>1, <1>4, ApartPopped
<1>6. /\ Apart(frames', succs)
      /\ Top.kind \in Counted =>
           \A i \in 1 .. Len(frames') :
             frames'[i].kind \in Counted => frames'[i].head # Top.head
  BY <1>2, <1>5 DEF Top
<1>7. QED
  BY <1>3, <1>6, EndPrecise

(* A block closed, its statement put in front of the one below.               *)
LEMMA ClosePrecise ==
  ASSUME IInv, IInv', NEW D, PInv(D), NEW kinds, NEW n \in Int, NEW b, Close(kinds, n, b),
         NEW g, NEW c, AddEdges(g, c), Ends(D, next, Top, g, c)
  PROVE  PInv(D)'
<1> DEFINE f == Mark(InFront(Below, n), b)
<1>1. Building /\ phase' = phase /\ Len(frames) > 1 /\ UNCHANGED <<next, pending, cGotos>>
  BY DEF Close
<1>2. Below \in PreciseFrames(D, next)
  BY <1>1, PreciseTop, PopIn DEF Below
<1>3. f \in PreciseFrames(D, next) /\ f.kind = Below.kind /\ f.head = Below.head
  BY <1>2, PreciseInFront
<1>4. frames' = Pop(f)
  BY DEF Close, Popped
<1> HIDE DEF f
<1>5. QED
  BY <1>1, <1>3, <1>4, PopPrecise

(* One edge from a node C passes in one way.                                  *)
LEMMA EndsOne ==
  ASSUME NEW D, NEW m, NEW f, NEW n, OneWay(D, m, n),
         NEW q \in Points, At(D, q), NEW k, q[1] = k
  PROVE  Ends(D, m, f, {<<n, k>>}, {<<First(n), q>>})
<1>1. Goes({<<First(n), q>>}, First(n), k)
  BY GoesBy
<1>2. IsFiniteSet({<<First(n), q>>})
  BY FewEdges
<1>3. n \notin D
  BY DEF OneWay
<1>4. Followed(D, {<<n, k>>}, {<<First(n), q>>})
  BY <1>1, <1>3 DEF Followed
<1>5. QED
  BY <1>2, <1>4 DEF Ends

(* No edge.                                                                   *)
LEMMA EndsNone ==
  ASSUME NEW D, NEW m, NEW f
  PROVE  Ends(D, m, f, {}, {})
BY FewEdges DEF Ends, Followed

(* One edge from the head of a counted loop, which C passes in two ways.      *)
LEMMA EndsBoth ==
  ASSUME NEW D, NEW m, NEW f, f.kind \in Counted,
         NEW q \in Points, At(D, q), NEW k, q[1] = k
  PROVE  Ends(D, m, f, {<<f.head, k>>}, {<<First(f.head), q>>, <<Again(f.head), q>>})
<1> DEFINE c == {<<First(f.head), q>>, <<Again(f.head), q>>}
<1>1. Goes(c, First(f.head), k) /\ Goes(c, Again(f.head), k)
  BY GoesBy
<1>2. IsFiniteSet(c)
  BY FewEdges
<1>3. Followed(D, {<<f.head, k>>}, c)
  <2> HIDE DEF c
  <2>1. QED
    BY <1>1 DEF Followed
<1>4. \A e \in c : At(D, e[2])
  OBVIOUS
<1> HIDE DEF c
<1>5. Ends(D, m, f, {<<f.head, k>>}, c)
  BY <1>2, <1>3, <1>4 DEF Ends
<1>6. QED
  BY <1>5 DEF c

(* Two such sets of edges together.                                           *)
LEMMA EndsUnion ==
  ASSUME NEW D, NEW m, NEW f, NEW g, NEW c, NEW h, NEW d,
         Ends(D, m, f, g, c), Ends(D, m, f, h, d)
  PROVE  Ends(D, m, f, g \cup h, c \cup d)
<1>1. IsFiniteSet(c \cup d) /\ Followed(D, g \cup h, c \cup d)
  BY FS_Union, FollowedMore DEF Ends
<1>2. QED
  BY <1>1 DEF Ends

(* What a block knows of its surroundings.                                    *)
LEMMA FrameEnds ==
  ASSUME NEW D, NEW m, NEW f \in PreciseFrames(D, m)
  PROVE  /\ f.c.out \in Points /\ At(D, f.c.out) /\ f.c.out[1] = f.g.out
         /\ f.c.succ \in Points /\ At(D, f.c.succ) /\ f.c.succ[1] = f.g.succ
         /\ f.head \in Int /\ Known(f.kind, f.test) /\ Placed(D, m, f.kind, f.head)
         /\ f.g.succ \in Int /\ f.g.out \in Int /\ f \in AgreeingFrames /\ f \in Frames
<1>1. f \in Frames /\ f \in AgreeingFrames
  BY DEF PreciseFrames, AgreeingFrames
<1>2. QED
  BY <1>1, FrameFields DEF PreciseFrames, AgreeingFrames

(* The edges of a closed loop: a test known to hold has no way past the loop  *)
(* on either side.                                                            *)
LEMMA LoopEnds ==
  ASSUME NEW D, NEW m, NEW f \in PreciseFrames(D, m), f.kind \in LoopKinds,
         f.test = "always" => ~f.broke
  PROVE  Ends(D, m, f, LoopEdges(f), CLoopEdges(f))
<1> DEFINE h == f.head
           out == f.c.out
           succ == f.c.succ
<1>1. /\ out \in Points /\ At(D, out) /\ out[1] = f.g.out
      /\ succ \in Points /\ At(D, succ) /\ succ[1] = f.g.succ
      /\ h \in Int /\ Known(f.kind, f.test) /\ Placed(D, m, f.kind, h)
  BY FrameEnds
<1>2. CASE f.kind \in Counted
  <2>1. f.test = "runtime" /\ f.kind # "dowhile" /\ f.kind \notin {"while", "dowhile"}
    BY <1>1, <1>2 DEF Counted, Known
  <2>2. /\ Ends(D, m, f, {<<h, f.g.succ>>}, {<<First(h), succ>>, <<Again(h), succ>>})
        /\ Ends(D, m, f, {<<h, f.g.out>>}, {<<First(h), out>>, <<Again(h), out>>})
    BY <1>1, <1>2, EndsBoth
  <2>3. LoopEdges(f) = {<<h, f.g.succ>>} \cup {<<h, f.g.out>>}
    <3>1. Exits(f) /\ BackNode(f.kind, h) = h
      BY <2>1 DEF Exits, BackNode
    <3>2. QED
      BY <2>1, <3>1 DEF LoopEdges
  <2>4. CLoopEdges(f) = {<<First(h), succ>>, <<Again(h), succ>>}
                          \cup {<<First(h), out>>, <<Again(h), out>>}
    BY <1>2, <2>1 DEF CLoopEdges
  <2>5. QED
    BY <2>2, <2>3, <2>4, EndsUnion
<1>3. CASE f.kind = "while"
  <2>1. OneWay(D, m, h) /\ f.kind \notin Counted /\ f.kind # "dowhile"
    BY <1>1, <1>3 DEF Placed, Counted
  <2>2. /\ Ends(D, m, f, {<<h, f.g.succ>>}, {<<First(h), succ>>})
        /\ Ends(D, m, f, {<<h, f.g.out>>}, {<<First(h), out>>})
    BY <1>1, <2>1, EndsOne
  <2>3. CASE f.test = "always"
    <3>1. LoopEdges(f) = {<<h, f.g.succ>>}
      BY <1>3, <2>3 DEF LoopEdges, Exits
    <3>2. CLoopEdges(f) = {<<First(h), succ>>}
      BY <2>1, <2>3 DEF CLoopEdges
    <3>3. QED
      BY <2>2, <3>1, <3>2
  <2>4. CASE f.test = "runtime"
    <3>1. LoopEdges(f) = {<<h, f.g.succ>>} \cup {<<h, f.g.out>>}
      BY <1>3, <2>4 DEF LoopEdges, Exits, BackNode
    <3>2. CLoopEdges(f) = {<<First(h), succ>>} \cup {<<First(h), out>>}
      BY <1>3, <2>1, <2>4 DEF CLoopEdges, BackNode
    <3>3. QED
      BY <2>2, <3>1, <3>2, EndsUnion
  <2>5. QED
    BY <1>1, <2>3, <2>4 DEF Known
<1>4. CASE f.kind = "dowhile"
  <2> DEFINE k == h + 1
  <2>1. OneWay(D, m, h) /\ OneWay(D, m, k) /\ BackNode(f.kind, h) = k
    BY <1>1, <1>4 DEF Placed, BackNode
  <2>2. First(h) \in Points /\ At(D, First(h)) /\ First(h)[1] = h
    BY <1>1, PointType DEF At, First
  <2> HIDE DEF k
  <2>3. /\ Ends(D, m, f, {<<h, f.g.succ>>}, {<<First(h), succ>>})
        /\ Ends(D, m, f, {<<k, h>>}, {<<First(k), First(h)>>})
        /\ Ends(D, m, f, {<<k, f.g.out>>}, {<<First(k), out>>})
    BY <1>1, <2>1, <2>2, EndsOne
  <2>4. Ends(D, m, f, {<<h, f.g.succ>>} \cup {<<k, h>>},
                      {<<First(h), succ>>} \cup {<<First(k), First(h)>>})
    BY <2>3, EndsUnion
  <2>5. CASE f.test = "always"
    <3>1. LoopEdges(f) = {<<h, f.g.succ>>} \cup {<<k, h>>}
      BY <1>4, <2>1, <2>5 DEF LoopEdges, Exits
    <3>2. CLoopEdges(f) = {<<First(h), succ>>} \cup {<<First(k), First(h)>>}
      BY <1>4, <2>1, <2>5 DEF CLoopEdges
    <3>3. QED
      BY <2>4, <3>1, <3>2
  <2>6. CASE f.test = "runtime"
    <3>1. LoopEdges(f) = ({<<h, f.g.succ>>} \cup {<<k, h>>}) \cup {<<k, f.g.out>>}
      BY <1>4, <2>1, <2>6 DEF LoopEdges, Exits
    <3>2. CLoopEdges(f) = ({<<First(h), succ>>} \cup {<<First(k), First(h)>>})
                            \cup {<<First(k), out>>}
      BY <1>4, <2>1, <2>6 DEF CLoopEdges
    <3>3. QED
      BY <2>3, <2>4, <3>1, <3>2, EndsUnion
  <2>7. QED
    BY <1>1, <2>5, <2>6 DEF Known
<1>5. QED
  BY <1>2, <1>3, <1>4 DEF LoopKinds, Kinds, Counted

(* Blocks closed, and the clauses and Else blocks in between.                 *)
LEMMA ClosesPrecise ==
  ASSUME IInv, IInv', PreciseForms, NEW D, PInv(D),
         \/ BeginElse \/ CloseIf \/ CloseElse \/ CloseLoop \/ CloseCompileIf \/ CloseSwitch
         \/ \E b \in BOOLEAN : PreviousClause(b)
  PROVE  PInv(D)'
<1> DEFINE f == Top
           n == f.head
           in == {<<First(n), f.c.succ>>}
           past == {<<First(n), f.c.out>>}
<1>1. /\ f \in PreciseFrames(D, next) /\ Len(frames) >= 1 /\ next \in Nat
      /\ frames \in Seq(PreciseFrames(D, next))
  BY PreciseTop
<1>2. /\ f.c.out \in Points /\ At(D, f.c.out) /\ f.c.out[1] = f.g.out
      /\ f.c.succ \in Points /\ At(D, f.c.succ) /\ f.c.succ[1] = f.g.succ
      /\ n \in Int /\ Known(f.kind, f.test) /\ Placed(D, next, f.kind, n)
      /\ f.g.succ \in Int /\ f.g.out \in Int /\ f \in AgreeingFrames /\ f \in Frames
  BY <1>1, FrameEnds
<1>3. ASSUME f.kind \in {"then", "else", "clause"}
      PROVE  /\ f.kind \notin Counted /\ OneWay(D, next, n) /\ f.test = "runtime"
             /\ Ends(D, next, f, {<<n, f.g.succ>>}, in)
             /\ Ends(D, next, f, {<<n, f.g.out>>}, past)
             /\ Ends(D, next, f, {<<n, f.g.succ>>} \cup {<<n, f.g.out>>}, in \cup past)
             /\ ThenEdge(f) = in /\ ElseEdge(f, f.c.out) = past /\ ElseEdge(f, f.c.succ) = in
  <2>1. f.kind \notin Counted /\ OneWay(D, next, n) /\ f.test = "runtime"
    BY <1>2, <1>3 DEF Counted, Placed, Known
  <2>2. /\ Ends(D, next, f, {<<n, f.g.succ>>}, in)
        /\ Ends(D, next, f, {<<n, f.g.out>>}, past)
    BY <1>2, <2>1, EndsOne
  <2>3. Ends(D, next, f, {<<n, f.g.succ>>} \cup {<<n, f.g.out>>}, in \cup past)
    BY <2>2, EndsUnion
  <2>4. ThenEdge(f) = in /\ ElseEdge(f, f.c.out) = past /\ ElseEdge(f, f.c.succ) = in
    BY <2>1 DEF ThenEdge, ElseEdge
  <2> HIDE DEF f, n, in, past
  <2>5. QED
    BY <2>1, <2>2, <2>3, <2>4
<1>4. CASE BeginElse
  <2> DEFINE h == [f EXCEPT !.kind = "else", !.g.succ = f.g.out, !.c.succ = f.c.out]
  <2>1. /\ f.kind = "then" /\ Building /\ phase' = phase /\ UNCHANGED <<next, pending, cGotos>>
        /\ frames' = ReplaceTop(h) /\ AddEdges({<<n, f.g.succ>>}, ThenEdge(f))
    BY <1>4 DEF BeginElse
  <2>2. h \in Frames
    BY <1>2 DEF Frames, Views
  <2>3. /\ h.live = f.live /\ h.kind = "else" /\ h.head = n /\ h.test = f.test
        /\ h.g.out = f.g.out /\ h.g.succ = f.g.out
        /\ h.c.out = f.c.out /\ h.c.succ = f.c.out /\ h.c.brk = f.c.brk /\ h.c.cn = f.c.cn
    BY <1>2 DEF Frames, Views
  <2> HIDE DEF h
  <2>4. h \in AgreeingFrames
    BY <1>2, <2>2, <2>3 DEF AgreeingFrames
  <2>5. Placed(D, next, "else", n) /\ Known("else", f.test)
    BY <1>3, <2>1 DEF Placed, Known, Counted
  <2>6. h \in PreciseFrames(D, next)
    BY <1>1, <2>3, <2>4, <2>5 DEF PreciseFrames
  <2>7. h.kind \notin Counted
    BY <2>3 DEF Counted
  <2>8. f.kind \notin Counted /\ AddEdges({<<n, f.g.succ>>}, in)
        /\ Ends(D, next, Top, {<<n, f.g.succ>>}, in)
    BY <1>3, <2>1
  <2> HIDE DEF f, n, in
  <2>9. Top.kind \notin Counted
    BY <2>8 DEF f
  <2>10. QED
    BY <2>1, <2>6, <2>7, <2>8, <2>9, GoOnPrecise
<1>5. CASE CloseIf
  <2>1. Close({"then"}, n, f.broke) /\ f.kind = "then"
    BY <1>5 DEF CloseIf, Close
  <2>2. {<<n, f.g.succ>>, <<n, f.g.out>>} = {<<n, f.g.succ>>} \cup {<<n, f.g.out>>}
    OBVIOUS
  <2>3. AddEdges({<<n, f.g.succ>>} \cup {<<n, f.g.out>>}, in \cup past)
    BY <1>3, <1>5, <2>1, <2>2 DEF CloseIf
  <2>4. Ends(D, next, Top, {<<n, f.g.succ>>} \cup {<<n, f.g.out>>}, in \cup past)
    BY <1>3, <2>1
  <2> HIDE DEF in, past
  <2>5. QED
    BY <1>2, <2>1, <2>3, <2>4, ClosePrecise
<1>6. CASE CloseElse
  <2>1. Close({"else"}, n, f.broke) /\ f.kind = "else"
    BY <1>6 DEF CloseElse, Close
  <2>2. AddEdges({<<n, f.g.succ>>}, in)
    BY <1>3, <1>6, <2>1 DEF CloseElse
  <2>3. Ends(D, next, Top, {<<n, f.g.succ>>}, in)
    BY <1>3, <2>1
  <2> HIDE DEF in, past
  <2>4. QED
    BY <1>2, <2>1, <2>2, <2>3, ClosePrecise
<1>7. CASE CloseLoop
  <2>1. /\ Close(LoopKinds, n, FALSE) /\ f.kind \in LoopKinds
        /\ AddEdges(LoopEdges(f), CLoopEdges(f))
    BY <1>7 DEF CloseLoop, Close
  <2>2. f.test = "always" => ~f.broke
    BY <1>2, <1>7 DEF CloseLoop, PreciseForms, Known
  <2>3. Ends(D, next, f, LoopEdges(f), CLoopEdges(f))
    BY <1>1, <2>1, <2>2, LoopEnds
  <2>4. QED
    BY <1>2, <2>1, <2>3, ClosePrecise
<1>8. CASE CloseCompileIf
  <2> DEFINE h == [Below EXCEPT !.g.succ = f.g.succ, !.c.succ = f.c.succ]
             k == Mark(h, f.live /\ f.broke)
  <2>1. /\ Building /\ phase' = phase /\ Len(frames) > 1
        /\ UNCHANGED <<next, pending, cGotos>> /\ frames' = Pop(k)
        /\ succs' = succs /\ cEdges' = cEdges
    BY <1>8 DEF CloseCompileIf
  <2>2. Below \in PreciseFrames(D, next)
    BY <1>1, <2>1, PopIn DEF Below
  <2>3. Below \in Frames /\ Below \in AgreeingFrames
    BY <2>2 DEF PreciseFrames, AgreeingFrames
  <2>4. h \in Frames
    BY <1>2, <2>3 DEF Frames, Views
  <2>5. /\ h.live = Below.live /\ h.kind = Below.kind /\ h.test = Below.test
        /\ h.head = Below.head
        /\ h.g.out = Below.g.out /\ h.g.succ = f.g.succ
        /\ h.c.out = Below.c.out /\ h.c.succ = f.c.succ
        /\ h.c.brk = Below.c.brk /\ h.c.cn = Below.c.cn
    BY <2>3 DEF Frames, Views
  <2> HIDE DEF h
  <2>6. h \in AgreeingFrames
    BY <1>2, <2>3, <2>4, <2>5 DEF AgreeingFrames
  <2>7. k \in AgreeingFrames
    BY <2>6, AgreeInFront, 0 \in Int
  <2>8. k.kind = h.kind /\ k.test = h.test /\ k.head = h.head /\ k.c = h.c
    BY <2>4 DEF Mark, Frames
  <2> HIDE DEF k
  <2>9. k \in PreciseFrames(D, next) /\ k.kind = Below.kind /\ k.head = Below.head
    BY <1>2, <2>2, <2>5, <2>7, <2>8 DEF PreciseFrames
  <2>10. AddEdges({}, {}) /\ Ends(D, next, Top, {}, {})
    BY <2>1, EndsNone DEF AddEdges, IfLive
  <2>11. QED
    BY <2>1, <2>9, <2>10, PopPrecise
<1>9. CASE CloseSwitch
  <2> DEFINE g == {<<n, f.g.succ>>} \cup (IF f.default THEN {} ELSE {<<n, f.g.out>>})
             c == in \cup (IF f.default THEN {} ELSE past)
  <2>1. Close({"clause"}, n, FALSE) /\ f.kind = "clause" /\ AddEdges(g, c)
    BY <1>9 DEF CloseSwitch, Close
  <2>2. Ends(D, next, f, g, c)
    <3>1. CASE f.default
      <4>1. g = {<<n, f.g.succ>>} /\ c = in
        BY <3>1
      <4>2. Ends(D, next, f, {<<n, f.g.succ>>}, in)
        BY <1>3, <2>1
      <4> HIDE DEF g, c
      <4>3. QED
        BY <4>1, <4>2
    <3>2. CASE ~f.default
      <4>1. g = {<<n, f.g.succ>>} \cup {<<n, f.g.out>>} /\ c = in \cup past
        BY <3>2
      <4>2. Ends(D, next, f, {<<n, f.g.succ>>} \cup {<<n, f.g.out>>}, in \cup past)
        BY <1>3, <2>1
      <4> HIDE DEF g, c
      <4>3. QED
        BY <4>1, <4>2
    <3>3. QED
      BY <3>1, <3>2
  <2> HIDE DEF g, c
  <2>3. QED
    BY <1>2, <2>1, <2>2, ClosePrecise
<1>10. ASSUME NEW b \in BOOLEAN, PreviousClause(b) PROVE PInv(D)'
  <2> DEFINE h == [f EXCEPT !.g.brk = f.g.succ]
             k == IF b THEN [h EXCEPT !.default = TRUE] ELSE h
  <2>1. /\ f.kind = "clause" /\ Building /\ phase' = phase
        /\ UNCHANGED <<next, pending, cGotos>>
        /\ frames' = ReplaceTop(k) /\ AddEdges({<<n, f.g.succ>>}, in)
    BY <1>10 DEF PreviousClause, Room, ClauseEdges
  <2>2. h \in Frames
    BY <1>2 DEF Frames, Views
  <2>3. /\ h.live = f.live /\ h.kind = f.kind /\ h.test = f.test /\ h.c = f.c
        /\ h.head = f.head /\ h.g.out = f.g.out /\ h.g.succ = f.g.succ
    BY <1>2 DEF Frames, Views
  <2> HIDE DEF h
  <2>4. /\ k \in Frames /\ k.live = h.live /\ k.kind = h.kind /\ k.test = h.test
        /\ k.c = h.c /\ k.g = h.g /\ k.head = h.head
    BY <2>2 DEF Frames
  <2> HIDE DEF k
  <2>5. k \in AgreeingFrames
    BY <1>2, <2>3, <2>4 DEF AgreeingFrames
  <2>6. k \in PreciseFrames(D, next)
    BY <1>1, <2>3, <2>4, <2>5 DEF PreciseFrames
  <2>7. k.kind \notin Counted /\ Top.kind \notin Counted
        /\ Ends(D, next, Top, {<<n, f.g.succ>>}, in)
    BY <1>3, <2>1, <2>3, <2>4
  <2> HIDE DEF f, n, in
  <2>8. QED
    BY <2>1, <2>6, <2>7, GoOnPrecise
<1>11. QED
  BY <1>4, <1>5, <1>6, <1>7, <1>8, <1>9, <1>10

------------------------------------------------------------------------------
(* The analysis and the compiled function.                                    *)

(* The edges of the jumps: a pending Go to is one of the C function.          *)
LEMMA ResolvePrecise ==
  ASSUME IInv, IInv', NEW D, PInv(D), Resolve
  PROVE  PInv(D)'
<1> DEFINE g == {<<j[1], labelNodes[j[2]]>> :
                   j \in {k \in pending : labelNodes[k[2]] # NoNode}}
           jump(j) == <<First(j[1]), First(cLabels[j[2]])>>
           c == {jump(j) : j \in cGotos}
<1>1. /\ succs' = succs \cup g /\ cEdges' = cEdges \cup c
      /\ UNCHANGED <<frames, next, pending, cGotos>>
      /\ pc' = Top.c.succ /\ seen' = {Top.g.succ} /\ work' = {Top.g.succ}
      /\ verdict' = verdict /\ phase = "build"
  BY DEF Resolve, Building
<1>2. /\ next \in Nat /\ next >= 1 /\ D \subseteq 1 .. next - 1
      /\ Top \in PreciseFrames(D, next) /\ frames \in Seq(PreciseFrames(D, next))
      /\ \A i \in 1 .. Len(frames) : frames[i].kind \in Counted => frames[i].head \in D
  BY PreciseTop
<1>3. /\ pending \subseteq cGotos /\ \A j \in pending : OneWay(D, next, j[1])
      /\ Apart(frames, succs) /\ Followed(D, succs, cEdges)
      /\ \A e \in succs : e[1] < next
      /\ \A e \in cEdges : At(D, e[2])
      /\ IsFiniteSet(cEdges) /\ IsFiniteSet(cGotos)
  BY DEF PInv
<1>4. cLabels = labelNodes /\ \A j \in cGotos : cLabels[j[2]] \in Int
  BY DEF IInv, TypeOK
<1>5. \A e \in g : OneWay(D, next, e[1])
  BY <1>3
<1>6. \A e \in g : e[1] < next
  <2>1. \A k \in 1 .. next - 1 : k < next
    BY <1>2
  <2>2. QED
    BY <1>5, <2>1 DEF OneWay
<1>7. Followed(D, g, c)
  <2> SUFFICES ASSUME NEW e \in g
               PROVE  Goes(c, First(e[1]), e[2])
    BY <1>5 DEF Followed, OneWay
  <2>1. PICK j \in pending : e = <<j[1], labelNodes[j[2]]>>
    OBVIOUS
  <2>2. j \in cGotos /\ jump(j) \in c /\ First(cLabels[j[2]]) \in Points
    BY <1>3, <1>4, PointType
  <2>3. jump(j) = <<First(e[1]), First(cLabels[j[2]])>> /\ First(cLabels[j[2]])[1] = e[2]
    BY <1>4, <2>1, PointNode
  <2> HIDE DEF g, c, jump
  <2>4. QED
    BY <2>2, <2>3, GoesBy
<1>8. \A e \in c : At(D, e[2])
  <2>1. \A k \in Int : At(D, First(k))
    BY PointType DEF At, First
  <2>2. QED
    BY <1>4, <2>1
<1>9. IsFiniteSet(c)
  <2>1. [j \in cGotos |-> jump(j)] \in Surjection(cGotos, c)
    BY DEF Surjection
  <2> HIDE DEF c, jump
  <2>2. QED
    BY <1>3, <2>1, FS_Surjection
<1> HIDE DEF g, c
<1>10. Apart(frames', succs')
  <2>1. \A i \in 1 .. Len(frames) :
          frames[i].kind \in Counted => \A e \in g : e[1] # frames[i].head
    BY <1>2, <1>5 DEF OneWay
  <2>2. QED
    BY <1>1, <1>3, <2>1, ApartMore
<1>11. Followed(D, succs', cEdges') /\ IsFiniteSet(cEdges')
  BY <1>1, <1>3, <1>7, <1>9, FollowedMore, FS_Union
<1>12. SweptReached(D)'
  <2>1. Top.c.succ[1] = Top.g.succ /\ At(D, Top.c.succ)
    BY <1>2, FrameEnds
  <2>2. pc' \in Reach(cEdges', pc')
    BY <1>11, ReachClosed
  <2>3. pc' \in CReach(pc)'
    BY <2>2 DEF CReach
  <2>4. seen' \cup work' = {Top.g.succ}
    BY <1>1
  <2>5. \A n \in seen' \cup work' : pc'[1] = n /\ At(D, pc')
    BY <1>1, <2>1, <2>4
  <2>6. QED
    BY <2>3, <2>5 DEF SweptReached
<1>13. verdict' # "rejected"
  BY <1>1 DEF IInv
<1>14. /\ \A e \in succs' : e[1] < next'
       /\ \A e \in cEdges' : At(D, e[2])
       /\ \A j \in pending' : OneWay(D, next', j[1])
  BY <1>1, <1>3, <1>6, <1>8
<1>15. QED
  BY <1>1, <1>2, <1>3, <1>10, <1>11, <1>12, <1>13, <1>14 DEF PInv

(* A step that leaves the graphs alone.                                       *)
LEMMA RestPrecise ==
  ASSUME NEW D, PInv(D), UNCHANGED buildVars, SweptReached(D)',
         verdict' = "rejected"
           => kFuncEnd \in seen' \/ (proc' = "noreturn" /\ returns' # {})
  PROVE  PInv(D)'
BY DEF PInv, buildVars

(* One pass of the sweep: C can follow each edge the checker takes.           *)
LEMMA SweepPrecise ==
  ASSUME IInv, IInv', NEW D, PInv(D), NEW n \in work, Sweep(n)
  PROVE  PInv(D)'
<1>1. /\ phase = "sweep" /\ pc' = pc /\ cEdges' = cEdges /\ verdict' = verdict
      /\ seen' \cup work' \subseteq
           seen \cup work \cup {e[2] : e \in {d \in succs : d[1] = n}}
      /\ UNCHANGED buildVars
  BY DEF Sweep, buildVars
<1>2. verdict' # "rejected"
  BY <1>1 DEF IInv
<1>3. ASSUME NEW k \in seen' \cup work'
      PROVE  \E p \in CReach(pc) : p[1] = k /\ At(D, p)
  <2>1. \A m \in seen \cup work : \E p \in CReach(pc) : p[1] = m /\ At(D, p)
    BY <1>1 DEF PInv, SweptReached
  <2>2. CASE k \in seen \cup work
    BY <2>1, <2>2
  <2>3. CASE k \notin seen \cup work
    <3>1. PICK e \in succs : e[1] = n /\ e[2] = k
      BY <1>1, <2>3
    <3>2. PICK p \in CReach(pc) : p[1] = n /\ At(D, p)
      BY <2>1
    <3>3. Goes(cEdges, p, k)
      <4>1. p = First(n) \/ (p = Again(n) /\ n \in D)
        BY <3>2 DEF At, Points, First, Again
      <4>2. Goes(cEdges, First(n), k) /\ (n \in D => Goes(cEdges, Again(n), k))
        BY <3>1 DEF PInv, Followed
      <4>3. QED
        BY <4>1, <4>2
    <3>4. PICK q \in Points : <<p, q>> \in cEdges /\ q[1] = k
      BY <3>3 DEF Goes
    <3>5. \A e1 \in cEdges : e1[1] \in CReach(pc) => e1[2] \in CReach(pc)
      BY ReachClosed DEF PInv, CReach
    <3>6. q \in CReach(pc)
      BY <3>2, <3>4, <3>5
    <3>7. At(D, q)
      BY <3>4 DEF PInv
    <3>8. QED
      BY <3>4, <3>6, <3>7
  <2>4. QED
    BY <2>2, <2>3
<1>4. CReach(pc)' = CReach(pc)
  BY <1>1 DEF CReach
<1>5. SweptReached(D)'
  BY <1>3, <1>4 DEF SweptReached
<1>6. QED
  BY <1>1, <1>2, <1>5, RestPrecise

(* Resolving, sweeping, judging, and running the function.                    *)
LEMMA LaterPrecise ==
  ASSUME IInv, IInv', NEW D, PInv(D), Analyse \/ Run
  PROVE  PInv(D)'
<1>1. CASE Resolve
  BY <1>1, ResolvePrecise
<1>2. CASE \E n \in work : Sweep(n)
  BY <1>2, SweepPrecise
<1>3. CASE Judge
  <2>1. /\ phase = "sweep" /\ UNCHANGED buildVars
        /\ UNCHANGED <<seen, work, pc, proc, cEdges, returns>>
        /\ verdict' = "rejected" => kFuncEnd \in seen \/ (proc = "noreturn" /\ returns # {})
    BY <1>3 DEF Judge, buildVars
  <2>2. \A m \in seen \cup work : \E p \in CReach(pc) : p[1] = m /\ At(D, p)
    BY <2>1 DEF PInv, SweptReached
  <2>3. CReach(pc)' = CReach(pc)
    BY <2>1 DEF CReach
  <2>4. SweptReached(D)'
    BY <2>1, <2>2, <2>3 DEF SweptReached
  <2>5. QED
    BY <2>1, <2>4, RestPrecise
<1>4. CASE Run
  <2>1. /\ phase' = "judged" /\ verdict' = "accepted" /\ UNCHANGED buildVars
    BY <1>4 DEF Run, Execute
  <2>2. SweptReached(D)'
    BY <2>1 DEF SweptReached
  <2>3. QED
    BY <2>1, <2>2, RestPrecise
<1>5. QED
  BY <1>1, <1>2, <1>3, <1>4 DEF Analyse

(* A rejected procedure has a swept end, and the end has one point.           *)
LEMMA PInvPrecise ==
  ASSUME NEW D, PInv(D)
  PROVE  Precise
<1> SUFFICES ASSUME verdict = "rejected", proc = "noreturn" => returns = {}
             PROVE  First(kFuncEnd) \in CReach(pc)
  BY DEF Precise
<1>1. kFuncEnd \in seen /\ kFuncEnd \notin D
  BY DEF PInv, kFuncEnd
<1>2. PICK p \in CReach(pc) : p[1] = kFuncEnd /\ At(D, p)
  BY <1>1 DEF PInv, SweptReached
<1>3. p = First(kFuncEnd)
  BY <1>1, <1>2 DEF At, Points, First
<1>4. QED
  BY <1>2, <1>3

(* For every body built from these forms, of whatever size and with whatever  *)
(* labels: the checker rejects a procedure for its end only when the emitted  *)
(* C function can reach that end.                                             *)
THEOREM PreciseForPreciseForms ==
  ASSUME PreciseForms
  PROVE  Spec => []Precise
<1> DEFINE Inv == IInv /\ \E D : PInv(D)
<1>1. SafeForms
  BY DEF PreciseForms, SafeForms
<1>2. Init => Inv
  <2> SUFFICES ASSUME Init PROVE IInv /\ PInv({})
    OBVIOUS
  <2>1. IInv
    BY <1>1, SafeInductive
  <2> DEFINE u == View(kFuncEnd, kFuncEnd, NoNode, NoNode)
             v == View(First(kFuncEnd), First(kFuncEnd), First(NoNode), First(NoNode))
             f == Frame("body", "runtime", kFuncEnd, TRUE, FALSE, u, v)
  <2>2. frames = <<f>>
    BY DEF Init
  <2>3. f.kind = "body" /\ f.test = "runtime" /\ f.c = v /\ f.head = kFuncEnd
    BY DEF Frame
  <2>4. At({}, First(kFuncEnd)) /\ At({}, First(NoNode))
    BY PointType DEF At, First, kFuncEnd, NoNode
  <2>5. v.out = First(kFuncEnd) /\ v.succ = First(kFuncEnd)
        /\ v.brk = First(NoNode) /\ v.cn = First(NoNode)
    BY DEF View
  <2> HIDE DEF f, u, v
  <2>6. f \in AgreeingFrames
    BY <2>1, <2>2, TopIn DEF IInv
  <2>7. Placed({}, 1, "body", kFuncEnd) /\ Known("body", "runtime") /\ "body" \notin Counted
    BY DEF Placed, Known, Counted
  <2>8. f \in PreciseFrames({}, 1)
    BY <2>3, <2>4, <2>5, <2>6, <2>7 DEF PreciseFrames
  <2>9. frames \in Seq(PreciseFrames({}, 1))
    BY <2>2, <2>8, SingletonIn
  <2>10. /\ next = 1 /\ succs = {} /\ cEdges = {} /\ pending = {} /\ cGotos = {}
         /\ verdict = "none" /\ phase = "build"
    BY DEF Init
  <2>11. Apart(frames, succs)
    BY <2>2, <2>3, <2>7 DEF Apart
  <2>12. IsFiniteSet({}) /\ Followed({}, {}, {}) /\ {} \subseteq 1 .. 1 - 1 /\ 1 >= 1
    BY FS_EmptySet DEF Followed
  <2>13. SweptReached({})
    BY <2>10 DEF SweptReached
  <2>14. PInv({})
    BY <2>9, <2>10, <2>11, <2>12, <2>13 DEF PInv
  <2>15. QED
    BY <2>1, <2>14
<1>3. Inv /\ [Next]_vars => Inv'
  <2> SUFFICES ASSUME Inv, [Next]_vars PROVE IInv' /\ \E E : PInv(E)'
    OBVIOUS
  <2>1. IInv /\ IInv'
    BY <1>1, SafeInductive
  <2>2. PICK D : PInv(D)
    OBVIOUS
  <2>3. CASE Build
    BY <2>1, <2>2, <2>3, OneNodePrecise, OpensPrecise, ClosesPrecise DEF Build
  <2>4. CASE Analyse \/ Run
    BY <2>1, <2>2, <2>4, LaterPrecise
  <2>5. CASE UNCHANGED vars
    <3>1. UNCHANGED buildVars /\ UNCHANGED <<phase, verdict, seen, work, pc, proc, cEdges, returns>>
      BY <2>5 DEF vars, buildVars
    <3>2. SweptReached(D)'
      BY <2>2, <3>1 DEF PInv, SweptReached, CReach
    <3>3. PInv(D)'
      BY <2>2, <3>1, <3>2, RestPrecise DEF PInv
    <3>4. QED
      BY <2>1, <3>3
  <2>6. QED
    BY <2>1, <2>3, <2>4, <2>5 DEF Next
<1>4. Inv => Precise
  BY PInvPrecise
<1>5. QED
  BY <1>2, <1>3, <1>4, PTL DEF Spec
================================================================================
