------------------------------ MODULE ReturnPath ------------------------------
(***************************************************************************)
(* The definite-return analysis of sema.cpp (class ReturnPathChecker) next  *)
(* to the control flow of the C function c_emitter.cpp prints for the same  *)
(* body.                                                                    *)
(*                                                                         *)
(* buildBlock walks a body from its last statement to its first, so the     *)
(* actions below do too: each adds one statement in front of the block on   *)
(* top of the stack `frames', and the procedure body is whatever sequence   *)
(* of actions was taken.  Every action adds the edges the checker records   *)
(* (succs, over node numbers) and the edges the C text has (cEdges, over    *)
(* program points).  Then the checker resolves its jumps, sweeps its graph, *)
(* judges, and an accepted function runs through its C graph.               *)
(***************************************************************************)
EXTENDS Integers, Sequences, FiniteSets

CONSTANTS
  Statements,  (* unconditional statement forms a body may use               *)
  Headers,     (* pairs <<construct, what is known of its condition>>        *)
  Quirks,      (* placements of Break and Continue a body may use            *)
  Labels,      (* label names                                                *)
  MaxStmts     (* bound on the statements of a body, clauses included        *)

Kinds    == {"if", "repeat", "while", "dowhile", "for", "foreach"}
Tests    == {"runtime", "always", "never"}

ASSUME ReturnPathAssumption ==
  /\ Headers \subseteq Kinds \X Tests
  /\ MaxStmts \in Nat

VARIABLES
  proc,      (* "typed" (non-void) or "noreturn"                             *)
  phase,     (* "build", "sweep", "judged"                                   *)
  frames,    (* the blocks under construction, innermost last                *)
  next,      (* the number newNode() returns next                            *)
  succs,     (* successors_: the checker's edges                             *)
  cEdges,    (* the edges of the emitted C function                          *)
  pending,   (* pendingGotos_                                                *)
  labelNodes,(* labelNodes_                                                  *)
  cGotos,    (* the gotos the emitter prints                                 *)
  cLabels,   (* the labels the emitter prints                                *)
  returns,   (* nodes of the return statements the emitter prints            *)
  stmts,     (* statements so far                                            *)
  seen, work,(* sweepFrom's locals                                           *)
  verdict,   (* "none", "accepted", "rejected"                               *)
  entry,     (* the checker's entry node                                     *)
  pc         (* where the compiled function is                               *)

buildVars == <<frames, next, succs, cEdges, pending, labelNodes, cGotos,
               cLabels, returns, stmts>>
vars == <<proc, phase, buildVars, seen, work, verdict, entry, pc>>

------------------------------------------------------------------------------
(* Nodes, points and views.                                                   *)

kFuncEnd == 0
NoNode   == -1

(* A C program point: a node, and for the head of a counted loop whether the  *)
(* loop is about to start or about to test again after a pass.                *)
First(n) == <<n, "first">>
Again(n) == <<n, "again">>

(* What a block knows of its surroundings, as nodes for the checker and as    *)
(* points for C: where the whole statement continues, the block's first       *)
(* statement so far, and the innermost Break and Continue targets.            *)
View(out, succ, brk, cn) == [out |-> out, succ |-> succ, brk |-> brk, cn |-> cn]

Frame(kind, test, head, live, default, g, c) ==
  [kind |-> kind, test |-> test, head |-> head, live |-> live,
   default |-> default, broke |-> FALSE, g |-> g, c |-> c]

Top  == frames[Len(frames)]
ReplaceTop(f) == [frames EXCEPT ![Len(frames)] = f]

(* The block f once statement node n stands in front of it; an unselected     *)
(* Compile if branch is invisible to the emitter.                             *)
InFront(f, n) == [f EXCEPT !.g.succ = n, !.c.succ = IF f.live THEN First(n) ELSE @]

(* A Break at the level of the block, as bodyHasLevelBreak will find it.      *)
Mark(f, broke) == IF broke THEN [f EXCEPT !.broke = TRUE] ELSE f

(* The stack once the innermost block is closed: its statement, node n, goes  *)
(* in front of the block below.                                               *)
Below  == frames[Len(frames) - 1]
PopTwice(f) == SubSeq(frames, 1, Len(frames) - 2)   (* mutant *)
Pop(f) == [SubSeq(frames, 1, Len(frames) - 1) EXCEPT ![Len(frames) - 1] = f]
Popped(n, broke) == Pop(Mark(InFront(Below, n), broke))

Building == phase = "build"
Room     == Building /\ stmts < MaxStmts
IfLive(S) == IF Top.live THEN S ELSE {}

AddEdges(g, c) ==
  /\ succs'  = succs \cup g
  /\ cEdges' = cEdges \cup IfLive(c)

Init ==
  /\ proc \in {"typed", "noreturn"}
  /\ phase = "build"
  /\ frames = <<Frame("body", "runtime", kFuncEnd, TRUE, FALSE,
                      View(kFuncEnd, kFuncEnd, NoNode, NoNode),
                      View(First(kFuncEnd), First(kFuncEnd), First(NoNode), First(NoNode)))>>
  /\ next = 1
  /\ succs = {} /\ cEdges = {}
  /\ pending = {} /\ labelNodes = [l \in Labels |-> NoNode]
  /\ cGotos = {} /\ cLabels = [l \in Labels |-> NoNode]
  /\ returns = {}
  /\ stmts = 0
  /\ seen = {} /\ work = {}
  /\ verdict = "none"
  /\ entry = NoNode
  /\ pc = First(NoNode)

------------------------------------------------------------------------------
(* Statements without a body: one node each.                                  *)

OneNode(form) ==
  /\ Room /\ form \in Statements
  /\ next' = next + 1
  /\ stmts' = stmts + 1
  /\ UNCHANGED <<proc, phase, seen, work, verdict, entry, pc>>

(* Any statement that completes normally.                                     *)
Complete ==
  /\ OneNode("plain")
  /\ frames' = ReplaceTop(InFront(Top, next))
  /\ AddEdges({<<next, Top.g.succ>>}, {<<First(next), Top.c.succ>>})
  /\ UNCHANGED <<pending, labelNodes, cGotos, cLabels, returns>>

(* A Call of a procedure declared `with no return': the checker treats it as  *)
(* any other call, the C function never comes back from it.                   *)
CallNoReturn ==
  /\ OneNode("noreturnCall")
  /\ frames' = ReplaceTop(InFront(Top, next))
  /\ AddEdges({<<next, Top.g.succ>>}, {})
  /\ UNCHANGED <<pending, labelNodes, cGotos, cLabels, returns>>

Return ==
  /\ OneNode("return")
  /\ frames' = ReplaceTop(InFront(Top, next))
  /\ returns' = returns \cup IfLive({next})
  /\ UNCHANGED <<succs, cEdges, pending, labelNodes, cGotos, cLabels>>

Goto(l) ==
  /\ OneNode("goto")
  /\ frames' = ReplaceTop(InFront(Top, next))
  /\ pending' = pending \cup {<<next, l>>}
  /\ cGotos' = cGotos \cup IfLive({<<next, l>>})
  /\ UNCHANGED <<succs, cEdges, labelNodes, cLabels, returns>>

(* Sema rejects a second live label of one name; an unselected Compile if     *)
(* branch is never checked, and its labels land in the same table.            *)
Label(l) ==
  /\ OneNode("label")
  /\ Top.live => cLabels[l] = NoNode
  /\ frames' = ReplaceTop(InFront(Top, next))
  /\ labelNodes' = [labelNodes EXCEPT ![l] = next]
  /\ cLabels' = IF Top.live THEN [cLabels EXCEPT ![l] = next] ELSE cLabels
  /\ AddEdges({<<next, Top.g.succ>>}, {<<First(next), Top.c.succ>>})
  /\ UNCHANGED <<pending, cGotos, returns>>

(* The checker's target is the node of the C target.                          *)
Agree(node, point) == point[1] = node

NoJumpEdge(target) == {}   (* mutant: the jump is not recorded *)
JumpEdge(target) == IF target = NoNode THEN {} ELSE {<<next, target>>}

(* Break: breakStack_.back() for the checker, the innermost C loop or switch  *)
(* for the program.  Sema allows it only inside one.                          *)
Break ==
  /\ OneNode("break")
  /\ Top.live => Top.c.brk[1] # NoNode
  /\ Agree(Top.g.brk, Top.c.brk) \/ "breakInClause" \in Quirks
  /\ frames' = ReplaceTop(Mark(InFront(Top, next), TRUE))
  /\ AddEdges(JumpEdge(Top.g.brk), {<<First(next), Top.c.brk>>})
  /\ UNCHANGED <<pending, labelNodes, cGotos, cLabels, returns>>

Continue ==
  /\ OneNode("continue")
  /\ Top.live => Top.c.cn[1] # NoNode
  /\ Agree(Top.g.cn, Top.c.cn) \/ "continueInRepeat" \in Quirks
  /\ frames' = ReplaceTop(InFront(Top, next))
  /\ AddEdges(JumpEdge(Top.g.cn), {<<First(next), Top.c.cn>>})
  /\ UNCHANGED <<pending, labelNodes, cGotos, cLabels, returns>>

------------------------------------------------------------------------------
(* Statements with a body: the code before the recursive buildBlock opens a   *)
(* block, the code after it closes the block and puts the statement in front  *)
(* of the enclosing one.                                                      *)

Open(form, nodes, f) ==
  /\ Room /\ form
  /\ next' = next + nodes
  /\ stmts' = stmts + 1
  /\ frames' = Append(frames, f)
  /\ UNCHANGED <<proc, phase, succs, cEdges, pending, labelNodes, cGotos, cLabels,
                 returns, seen, work, verdict, entry, pc>>

Close(kinds, n, broke) ==
  /\ Building
  /\ Len(frames) > 1 /\ Top.kind \in kinds
  /\ frames' = Popped(n, broke)
  /\ UNCHANGED <<proc, phase, next, pending, labelNodes, cGotos, cLabels, returns,
                 stmts, seen, work, verdict, entry, pc>>

(* The same surroundings, for a block that starts at the continuation.        *)
Inherit(v) == [v EXCEPT !.out = v.succ]

OpenIf(test) ==
  Open(<<"if", test>> \in Headers, 1,
       Frame("then", test, next, Top.live, FALSE, Inherit(Top.g), Inherit(Top.c)))

(* C tests the condition; a known one leaves a single way.                    *)
ThenEdge(f) == IF f.test = "never"  THEN {} ELSE {<<First(f.head), f.c.succ>>}
ElseEdge(f, to) == IF f.test = "always" THEN {} ELSE {<<First(f.head), to>>}

(* The Then block is built: an Else block follows ...                         *)
BeginElse ==
  /\ Building /\ Len(frames) > 1 /\ Top.kind = "then"
  /\ AddEdges({<<Top.head, Top.g.succ>>}, ThenEdge(Top))
  /\ frames' = ReplaceTop([Top EXCEPT !.kind = "else",
                                      !.g.succ = Top.g.out, !.c.succ = Top.c.out])
  /\ UNCHANGED <<proc, phase, next, pending, labelNodes, cGotos, cLabels, returns,
                 stmts, seen, work, verdict, entry, pc>>

(* ... or none does.                                                          *)
CloseIf ==
  /\ Close({"then"}, Top.head, Top.broke)
  /\ AddEdges({<<Top.head, Top.g.succ>>, <<Top.head, Top.g.out>>},
              ThenEdge(Top) \cup ElseEdge(Top, Top.c.out))

CloseElse ==
  /\ Close({"else"}, Top.head, Top.broke)
  /\ AddEdges({<<Top.head, Top.g.succ>>}, ElseEdge(Top, Top.c.succ))

(* Compile if: the selected branch is built in place of the statement.        *)
(* When no branch is selected the checker builds the Then branch all the      *)
(* same and the emitter prints nothing.                                       *)
OpenCompileIf(selected) ==
  Open(/\ (IF selected THEN "compileIf" ELSE "compileIfNone") \in Statements
       /\ selected => Top.live,
       0, Frame("compiled", "runtime", NoNode, selected, FALSE,
                Inherit(Top.g), Inherit(Top.c)))

CloseCompileIf ==
  /\ Building /\ Len(frames) > 1 /\ Top.kind = "compiled"
  /\ frames' = Pop(Mark([Below EXCEPT !.g.succ = Top.g.succ, !.c.succ = Top.c.succ],
                        Top.live /\ Top.broke))
  /\ UNCHANGED <<proc, phase, next, succs, cEdges, pending, labelNodes, cGotos,
                 cLabels, returns, stmts, seen, work, verdict, entry, pc>>

(* Loops.  DoWhile has a node for its condition after the head.  Repeat       *)
(* pushes no Continue target.                                                 *)
LoopKinds == Kinds \ {"if"}
Counted   == {"repeat", "for", "foreach"}
BackNode(kind, head) == IF kind = "dowhile" THEN head + 1 ELSE head
BackPoint(kind, head) ==
  IF kind \in Counted THEN Again(head) ELSE First(BackNode(kind, head))

OpenLoop(kind, test) ==
  LET back == BackNode(kind, next)
      point == BackPoint(kind, next)
  IN  /\ kind \in LoopKinds
      /\ Open(<<kind, test>> \in Headers, IF kind = "dowhile" THEN 2 ELSE 1,
              Frame(kind, test, next, Top.live, FALSE,
                    View(Top.g.succ, back, Top.g.succ,
                         IF kind = "repeat" THEN Top.g.cn ELSE back),
                    View(Top.c.succ, point, Top.c.succ, point)))

(* The edges each branch of buildStmt adds after the loop body is built.      *)
ExitsAnyLoop(f) == TRUE   (* mutant: no loop is known to be endless *)
Exits(f) == CASE f.kind \in {"while", "dowhile"} -> ~(f.test = "always" /\ ~f.broke)
              [] f.kind \in {"repeat", "for"}    -> f.test # "always"
              [] OTHER                           -> TRUE

LoopEdges(f) ==
  LET back == BackNode(f.kind, f.head)
  IN  {<<f.head, f.g.succ>>}
        \cup (IF f.kind = "dowhile" THEN {<<back, f.head>>} ELSE {})
        \cup (IF Exits(f) THEN {<<back, f.g.out>>} ELSE {})

(* The C loop: while and do test the condition on every pass; a counted loop  *)
(* with a known count decides the first test, later ones can go either way.   *)
CLoopEdges(f) ==
  LET head == First(f.head)
      cond == First(BackNode(f.kind, f.head))
      tested(from, to) ==
        (IF f.test = "never"  THEN {} ELSE {<<from, to>>})
          \cup (IF f.test = "always" THEN {} ELSE {<<from, f.c.out>>})
  IN  IF f.kind = "dowhile"
        THEN {<<head, f.c.succ>>} \cup tested(cond, head)
      ELSE IF f.kind \in Counted
        THEN tested(head, f.c.succ)
               \cup {<<Again(f.head), f.c.succ>>, <<Again(f.head), f.c.out>>}
      ELSE tested(head, f.c.succ)

CloseLoop ==
  /\ Top.test = "always" /\ Top.broke /\ Top.kind \in {"while", "dowhile"}
       => "breakInAlways" \in Quirks
  /\ Close(LoopKinds, Top.head, FALSE)
  /\ AddEdges(LoopEdges(Top), CLoopEdges(Top))

(* Switch: buildSwitch takes the clauses last to first; `fall' is the entry   *)
(* of the clause after this one, and the Break target while the clause is     *)
(* built.  C breaks to the end of the switch.                                 *)
OpenSwitch(default) ==
  Open("switch" \in Statements, 1,
       Frame("clause", "runtime", next, Top.live, default,
             [Inherit(Top.g) EXCEPT !.brk = Top.g.succ],
             [Inherit(Top.c) EXCEPT !.brk = Top.c.succ]))

ClauseEdges == AddEdges({<<Top.head, Top.g.succ>>} , {<<First(Top.head), Top.c.succ>>})

PreviousClause(default) ==
  /\ Room /\ Len(frames) > 1 /\ Top.kind = "clause"
  /\ ~(default /\ Top.default)
  /\ ClauseEdges
  /\ LET clause == [Top EXCEPT !.g.brk = Top.g.succ]
     IN  frames' = ReplaceTop(IF default THEN [clause EXCEPT !.default = TRUE]
                                         ELSE clause)
  /\ stmts' = stmts + 1
  /\ UNCHANGED <<proc, phase, next, pending, labelNodes, cGotos, cLabels, returns,
                 seen, work, verdict, entry, pc>>

(* Mutant: the way past a Switch without Default is forgotten.                *)
CloseSwitchDefaulted ==
  /\ Close({"clause"}, Top.head, FALSE)
  /\ AddEdges({<<Top.head, Top.g.succ>>},
              {<<First(Top.head), Top.c.succ>>}
                \cup (IF Top.default THEN {} ELSE {<<First(Top.head), Top.c.out>>}))

CloseSwitch ==
  /\ Close({"clause"}, Top.head, FALSE)
  /\ AddEdges({<<Top.head, Top.g.succ>>}
                \cup (IF Top.default THEN {} ELSE {<<Top.head, Top.g.out>>}),
              {<<First(Top.head), Top.c.succ>>}
                \cup (IF Top.default THEN {} ELSE {<<First(Top.head), Top.c.out>>}))

------------------------------------------------------------------------------
(* endIsReachable: the body is built, jumps are resolved, the graph is swept. *)

(* validateLabels: every live Go to has a live Label; resolveGotos skips a    *)
(* name that was never built.                                                 *)
Resolve ==
  /\ Building /\ Len(frames) = 1
  /\ \A j \in cGotos : cLabels[j[2]] # NoNode
  /\ phase' = "sweep"
  /\ succs' = succs \cup {<<j[1], labelNodes[j[2]]>> :
                            j \in {k \in pending : labelNodes[k[2]] # NoNode}}
  /\ cEdges' = cEdges \cup {<<First(j[1]), First(cLabels[j[2]])>> : j \in cGotos}
  /\ entry' = Top.g.succ
  /\ pc' = Top.c.succ
  /\ seen' = {Top.g.succ} /\ work' = {Top.g.succ}
  /\ UNCHANGED <<proc, frames, next, pending, labelNodes, cGotos, cLabels, returns,
                 stmts, verdict>>

(* Mutant: a node is pushed again each time it is reached.                    *)
SweepAgain(current) ==
  LET reached == {e[2] : e \in {d \in succs : d[1] = current}}
  IN  /\ phase = "sweep"
      /\ seen' = seen \cup reached
      /\ work' = (work \ {current}) \cup reached
      /\ UNCHANGED <<proc, phase, buildVars, verdict, entry, pc>>

(* One pass of sweepFrom's loop.                                              *)
Sweep(current) ==
  LET reached == {e[2] : e \in {d \in succs : d[1] = current}}
  IN  /\ phase = "sweep"
      /\ seen' = seen \cup reached
      /\ work' = (work \ {current}) \cup (reached \ seen)
      /\ UNCHANGED <<proc, phase, buildVars, verdict, entry, pc>>

(* The E0018 checks of a typed and of a no-return Procedure.                  *)
Judge ==
  /\ phase = "sweep" /\ work = {}
  /\ phase' = "judged"
  /\ verdict' = IF kFuncEnd \in seen \/ (proc = "noreturn" /\ returns # {})
                  THEN "rejected" ELSE "accepted"
  /\ UNCHANGED <<proc, buildVars, seen, work, entry, pc>>

(* One step of the compiled function; a return or the end has no successor.   *)
Execute(to) ==
  /\ phase = "judged" /\ verdict = "accepted"
  /\ <<pc, to>> \in cEdges
  /\ pc' = to
  /\ UNCHANGED <<proc, phase, buildVars, seen, work, verdict, entry>>

Build ==
  \/ Complete \/ CallNoReturn \/ Return \/ Break \/ Continue
  \/ \E l \in Labels : Goto(l) \/ Label(l)
  \/ \E test \in Tests : OpenIf(test) \/ \E kind \in LoopKinds : OpenLoop(kind, test)
  \/ BeginElse \/ CloseIf \/ CloseElse \/ CloseLoop
  \/ \E b \in BOOLEAN : OpenCompileIf(b) \/ OpenSwitch(b) \/ PreviousClause(b)
  \/ CloseCompileIf \/ CloseSwitch

Analyse == Resolve \/ (\E n \in work : Sweep(n)) \/ Judge
Run     == \E e \in cEdges : Execute(e[2])

Next == Build \/ Analyse \/ Run

Spec == Init /\ [][Next]_vars

(* The analysis is a loop with nothing to wait for.                           *)
FairSpec == Spec /\ WF_vars(Analyse)

------------------------------------------------------------------------------
(* Properties.                                                                *)

Points == (Int \X {"first", "again"})

Views(S) == [out : S, succ : S, brk : S, cn : S]

Frames == [kind : {"body", "then", "else", "compiled", "clause"} \cup LoopKinds,
           test : Tests, head : Int, live : BOOLEAN, default : BOOLEAN,
           broke : BOOLEAN, g : Views(Int), c : Views(Points)]

(* Type correctness: nodes are numbers newNode() has handed out, the stack    *)
(* never loses the procedure body.                                            *)
TypeOK ==
  /\ proc \in {"typed", "noreturn"}
  /\ phase \in {"build", "sweep", "judged"}
  /\ verdict \in {"none", "accepted", "rejected"}
  /\ next \in Nat /\ stmts \in Nat
  /\ frames \in Seq(Frames)
  /\ Len(frames) >= 1
  /\ succs \subseteq Int \X Int
  /\ cEdges \subseteq Points \X Points
  /\ pending \subseteq Int \X Labels
  /\ cGotos \subseteq Int \X Labels
  /\ labelNodes \in [Labels -> Int]
  /\ cLabels \in [Labels -> Int]
  /\ returns \subseteq Int
  /\ seen \subseteq Int /\ work \subseteq Int
  /\ entry \in Int
  /\ pc \in Points

(* What the emitter relies on (c_emitter.cpp, "Sema guarantees the end is     *)
(* unreachable, so this guard is dead"): an accepted typed procedure never    *)
(* runs off its end, and an accepted no-return procedure never leaves.        *)
Sound ==
  verdict = "accepted" =>
    /\ pc # First(kFuncEnd)
    /\ proc = "noreturn" => pc[1] \notin returns

(* The points the C function can reach.                                       *)
Grow(edges, S) == S \cup {e[2] : e \in {d \in edges : d[1] \in S}}
Reach(edges, from) ==
  LET reach[i \in 0 .. Cardinality(edges)] ==
        IF i = 0 THEN {from} ELSE Grow(edges, reach[i - 1])
  IN  reach[Cardinality(edges)]
CReach(from) == Reach(cEdges, from)

(* What sema.cpp says of the class: "it only reports the function end         *)
(* reachable when a real control-flow path exists, so it never rejects a      *)
(* procedure that always returns".                                            *)
Precise ==
  phase = "judged" /\ verdict = "rejected" /\ (proc = "noreturn" => returns = {})
    => First(kFuncEnd) \in CReach(pc)

(* The sweep over a graph with cycles, loops closed by Go to included, comes  *)
(* to a verdict.                                                              *)
Decides == phase = "sweep" ~> phase = "judged"

==============================================================================
