------------------------------- MODULE Bindings -------------------------------
(***************************************************************************)
(* Which object a name denotes, decided twice: by sema's scopes while       *)
(* checkStmt walks the program, and by the C declarations the emitter       *)
(* prints, where every boxed variable a function sets is hoisted to the     *)
(* head of the function (collectVars) or, for the main program, to file     *)
(* scope.  The walk is the behaviour; after each step the C declarations    *)
(* printed for the statements so far stand next to the scopes.              *)
(* A Compile if has no scope of its own: its selected statements are        *)
(* statements of the block around it.                                       *)
(***************************************************************************)
EXTENDS Integers, Sequences

CONSTANTS
  Names,     (* names the program uses                                       *)
  Imported,  (* those of them that are imported C objects                    *)
  Quirks,    (* the forms a run admits on which sema and C disagree          *)
  MaxDepth   (* bound on nested scopes                                       *)

ASSUME BindingsAssumption == Imported \subseteq Names /\ MaxDepth \in Nat

VARIABLES
  scopes,   (* scopes_, with the C declarations of the block it opens        *)
  proc,     (* "main", or the Procedure walked: "typed" or "legacy"          *)
  files,    (* native objects the emitter declares at file scope             *)
  globals,  (* collectVars of the main program: PsValue at file scope        *)
  locals    (* collectVars of the procedure: PsValue at the head of it       *)

vars == <<scopes, proc, files, globals, locals>>

------------------------------------------------------------------------------
(* Where an object lives: in a C block of a scope, or where a kind of         *)
(* declaration is printed.                                                    *)
Block(depth) == <<"block", depth>>
At(place)    == <<place, 0>>
None         == At("none")

Top    == scopes[Len(scopes)]
Inner  == Len(scopes) > 1
Floor  == IF proc = "main" THEN 1 ELSE 2   (* the scope of the function's body *)

(* findVar: the innermost scope that binds n.                                 *)
Binders(n) == {i \in 1 .. Len(scopes) : scopes[i].bind[n] # None}
Visible(n) == Binders(n) # {}
Innermost(S) == CHOOSE i \in S : \A j \in S : j <= i
Symbol(n)  == scopes[Innermost(Binders(n))]
Home(n)    == Symbol(n).bind[n]
Native(n)  == n \in Symbol(n).native

(* What the C text makes of n: an imported object is recognised by its name,  *)
(* anything else by the declarations in force, innermost first.               *)
Declarers(n) == {i \in Floor .. Len(scopes) : n \in scopes[i].c}
Params == IF proc = "main" THEN {}
          ELSE {n \in Names : scopes[2].bind[n] = At("param")}
Denoted(n) ==
  IF n \in Imported /\ Native(n) THEN At("imported")
  ELSE IF Declarers(n) # {} THEN Block(Innermost(Declarers(n)))
  ELSE IF n \in locals  THEN At("local")
  ELSE IF n \in Params  THEN At("param")
  ELSE IF n \in files   THEN At("file")
  ELSE IF n \in globals THEN At("global")
  ELSE None

Init ==
  /\ scopes = <<[bind   |-> [n \in Names |-> IF n \in Imported THEN At("imported") ELSE None],
                 native |-> Imported, c |-> {}]>>
  /\ proc = "main"
  /\ files = {} /\ globals = {} /\ locals = {}

------------------------------------------------------------------------------
(* declareVar in the current scope: E0006 for a name bound there.             *)
Unbound(n) == Top.bind[n] = None
Bound(scope, n, home, native) ==
  [scope EXCEPT !.bind[n] = home, !.native = IF native THEN @ \cup {n} ELSE @]
Bind(scope) == scopes' = [scopes EXCEPT ![Len(scopes)] = scope]

(* Mutant: the body of a Procedure is not searched.                           *)
HoistMain(n) == globals' = globals \cup {n} /\ UNCHANGED locals

(* collectVars: the function that sets a boxed variable declares it.          *)
Hoisted == IF proc = "main" THEN At("global") ELSE At("local")
Hoist(n) ==
  IF proc = "main" THEN globals' = globals \cup {n} /\ UNCHANGED locals
                   ELSE locals' = locals \cup {n} /\ UNCHANGED globals

(* Mutant: only the current scope is searched.                                *)
CreateLocally(n) ==
  /\ Unbound(n)
  /\ Bind(Bound(Top, n, Hoisted, FALSE))
  /\ Hoist(n)
  /\ UNCHANGED <<proc, files>>

(* Set of a name that is not visible.                                         *)
Create(n) ==
  /\ ~Visible(n)
  /\ Bind(Bound(Top, n, Hoisted, FALSE))
  /\ Hoist(n)
  /\ UNCHANGED <<proc, files>>

(* Mutant: a native object is collected like a boxed one.                     *)
AssignAny(n) ==
  /\ Visible(n)
  /\ Home(n) = Hoisted \/ Native(n)
  /\ Hoist(n)
  /\ UNCHANGED <<scopes, proc, files>>

(* Set, Add, Subtract, Append, Replace and Remove of a visible boxed name:    *)
(* collectVars hoists it whatever scope bound it.  A native one is mutated    *)
(* where it is.                                                               *)
Assign(n) ==
  /\ Visible(n) /\ ~Native(n)
  /\ \/ Home(n) = Hoisted
     \/ Home(n) = At("global") /\ "setGlobal" \in Quirks
     \/ Home(n) = At("param") /\ "setParam" \in Quirks
     \/ Home(n)[1] = "block" /\ "setItem" \in Quirks
  /\ Hoist(n)
  /\ UNCHANGED <<scopes, proc, files>>

(* Read and Read float declare in the current scope, visible name or not.     *)
Read(n) ==
  /\ Unbound(n)
  /\ Visible(n) => "readShadow" \in Quirks
  /\ Bind(Bound(Top, n, Hoisted, FALSE))
  /\ Hoist(n)
  /\ UNCHANGED <<proc, files>>

(* The C name space a Declare of the current scope enters already holds n.    *)
Taken(n) == \/ proc = "main" /\ ~Inner /\ n \in globals
            \/ proc # "main" /\ Len(scopes) = 2 /\ n \in locals

(* Native names shadow an imported one in sema only.                          *)
Importable(n) == n \in Imported => "shadowImported" \in Quirks

(* Declare: at file scope when it is a direct top-level statement, else where *)
(* it stands.                                                                 *)
Declare(n) ==
  /\ Unbound(n) /\ Importable(n)
  /\ ~Taken(n) \/ "declareHoisted" \in Quirks
  /\ IF Inner
       THEN /\ Bind([Bound(Top, n, Block(Len(scopes)), TRUE) EXCEPT !.c = @ \cup {n}])
            /\ UNCHANGED files
       ELSE /\ Bind(Bound(Top, n, At("file"), TRUE))
            /\ files' = files \cup {n}
  /\ UNCHANGED <<proc, globals, locals>>

(* A top-level Declare inside a selected Compile if is in sema's global scope *)
(* but is printed inside main, out of reach of every procedure.               *)
DeclareSelected(n) ==
  /\ proc = "main" /\ ~Inner /\ Unbound(n)
  /\ Bind([Bound(Top, n, Block(1), TRUE) EXCEPT !.c = @ \cup {n}])
  /\ UNCHANGED <<proc, files, globals, locals>>

------------------------------------------------------------------------------
(* enterScope and leaveScope.                                                 *)

Empty == [bind |-> [n \in Names |-> None], native |-> {}, c |-> {}]

Enter(scope) ==
  /\ Len(scopes) < MaxDepth
  /\ scopes' = Append(scopes, scope)

(* The body of an If, a Repeat, a While, a Do or a Switch.                    *)
OpenBlock == Enter(Empty) /\ UNCHANGED <<proc, files, globals, locals>>

(* For and For each bind their variable in the scope of the body and declare  *)
(* it in the C loop: a native long, a PsValue.                                *)
OpenLoop(n, native) ==
  /\ native => Importable(n)
  /\ Enter([Bound(Empty, n, Block(Len(scopes) + 1), native) EXCEPT !.c = {n}])
  /\ UNCHANGED <<proc, files, globals, locals>>

CloseBlock ==
  /\ Len(scopes) > Floor
  /\ scopes' = SubSeq(scopes, 1, Len(scopes) - 1)
  /\ UNCHANGED <<proc, files, globals, locals>>

(* A Procedure among the top-level statements.  The parameters of a typed one *)
(* are native.                                                                *)
BeginProcedure(kind, params) ==
  /\ proc = "main" /\ ~Inner
  /\ scopes[1].c = {} \/ "compileIf" \in Quirks
  /\ kind = "typed" => \A n \in params : Importable(n)
  /\ Enter([bind   |-> [n \in Names |-> IF n \in params THEN At("param") ELSE None],
            native |-> IF kind = "typed" THEN params ELSE {},
            c      |-> {}])
  /\ proc' = kind
  /\ UNCHANGED <<files, globals, locals>>

(* Mutant: one set of collected names for all procedures.                     *)
EndProcedureKeeps ==
  /\ proc # "main" /\ Len(scopes) = 2
  /\ scopes' = SubSeq(scopes, 1, 1)
  /\ proc' = "main"
  /\ UNCHANGED <<files, globals, locals>>

EndProcedure ==
  /\ proc # "main" /\ Len(scopes) = 2
  /\ scopes' = SubSeq(scopes, 1, 1)
  /\ proc' = "main"
  /\ locals' = {}
  /\ UNCHANGED <<files, globals>>

Next ==
  \/ \E n \in Names :
       \/ Create(n) \/ Assign(n) \/ Read(n) \/ Declare(n) \/ DeclareSelected(n)
       \/ \E native \in BOOLEAN : OpenLoop(n, native)
  \/ \E kind \in {"typed", "legacy"} : \E params \in SUBSET Names :
       BeginProcedure(kind, params)
  \/ OpenBlock \/ CloseBlock \/ EndProcedure

Spec == Init /\ [][Next]_vars

------------------------------------------------------------------------------
(* Properties.                                                                *)

Homes  == {"none", "imported", "file", "global", "local", "param", "block"} \X Nat
Scopes == [bind : [Names -> Homes], native : SUBSET Names, c : SUBSET Names]

(* Type correctness: the walk never leaves the scope of the function it is    *)
(* in, and a name that is native or has a C block is bound.                   *)
TypeOK ==
  /\ scopes \in Seq(Scopes)
  /\ Len(scopes) >= Floor
  /\ proc \in {"main", "typed", "legacy"}
  /\ files \subseteq Names /\ globals \subseteq Names /\ locals \subseteq Names
  /\ proc = "main" => locals = {}
  /\ \A i \in 1 .. Len(scopes) : \A n \in scopes[i].native \cup scopes[i].c :
       scopes[i].bind[n] # None

(* Every name the program may use next denotes in C the object sema bound it  *)
(* to; for Set, docs/grammar.md: "If that name already denotes a variable,    *)
(* Set assigns a new value to it instead".                                    *)
Denotes == \A n \in Names : Visible(n) => Denoted(n) = Home(n)

(* Two variables of one name that are alive at once, the inner shadowing the  *)
(* outer, do not share storage.                                               *)
Separate ==
  \A n \in Names : \A i, j \in Binders(n) :
    i # j => scopes[i].bind[n] # scopes[j].bind[n]

(* The C declarations compile: no C scope is given one name twice.  When it   *)
(* is, cli/main.cpp tells the user "this is a plainspeak bug, not a mistake   *)
(* in your program".                                                          *)
DeclaredOnce ==
  /\ files \cap globals = {}
  /\ proc # "main" =>
       /\ locals \cap Params = {}
       /\ scopes[2].c \cap (locals \cup Params) = {}
===============================================================================
