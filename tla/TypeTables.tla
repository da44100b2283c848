------------------------------ MODULE TypeTables ------------------------------
(***************************************************************************)
(* The tags and aliases of a program: the tables sema keeps of them, when it *)
(* takes a type for complete, and the order in which the emitter prints the   *)
(* definitions, next to C's own rules about complete types.                   *)
(*                                                                          *)
(* A type is what it is a pointer to or an array of, the outermost first, and *)
(* its base, a kind and the name of a tag or an alias.  A declaration has a   *)
(* kind, a name and its types: the fields of an aggregate, the result and the *)
(* parameters of a procedure.                                                  *)
(***************************************************************************)
EXTENDS Naturals, Sequences

CONSTANTS Shelves          (* sets of declarations to write a program of          *)
CONSTANTS MaxDeclarations  (* the longest program                                 *)

VARIABLES
  shelf,           (* the declarations of this program                            *)
  program,
  step,            (* the statement sema checks next; 0 while writing             *)
  tags,            (* structureTable_, unionTable_ and enumerationTable_          *)
  refused,         (* a diagnostic was reported                                   *)
  printed          (* the declarations that have recorded fields or values        *)

typeVars == <<shelf, program, step, tags, refused, printed>>

Aggregates == {"structure", "union"}
Tagged     == Aggregates \cup {"enumeration"}
TypesOf(d) == {d.types[k] : k \in DOMAIN d.types}
Identifiers ==
  LET declarations == UNION Shelves IN
  {d.name : d \in declarations} \cup {t.base[2] : t \in UNION {TypesOf(d) : d \in declarations}}
Type ==
  [wraps : Seq({"pointer", "array"}), base : (Tagged \cup {"alias", "void", "integer"}) \X Identifiers]
Declaration ==
  [is : Tagged \cup {"alias", "declare", "size", "procedure"}, name : Identifiers,
   types : Seq(Type), flexible : BOOLEAN]

(* Only the definition of a tag may go without types; an enumeration has none.  *)
ASSUME ShelvesAssumption ==
  \A d \in UNION Shelves :
    /\ d \in Declaration
    /\ d.is \notin Tagged => d.types # <<>>
    /\ d.is = "enumeration" => d.types = <<>>

Unknown == [is |-> "none", complete |-> FALSE, flexible |-> FALSE]

IsDeclared(kind, name) == \E k \in DOMAIN program : program[k].is = kind /\ program[k].name = name
Twice(kind) ==
  \E j, k \in DOMAIN program : j < k /\ program[j].is = kind /\ program[k].is = kind
                               /\ program[j].name = program[k].name
(* The first definition of a name is the one its table keeps.                  *)
AliasOf(name) ==
  LET Defines(k) == program[k].is = "alias" /\ program[k].name = name IN
  program[CHOOSE k \in DOMAIN program : Defines(k) /\ \A j \in 1 .. k - 1 : ~ Defines(j)].types[1]

(* validateAlias: the names whose chain of aliases of aliases ends.            *)
IsAlias(t) == t.wraps = <<>> /\ t.base[1] = "alias"
Ending ==
  LET Within[n \in 0 .. Len(program)] ==
        IF n = 0 THEN {}
        ELSE {d.name : d \in {program[k] : k \in {j \in DOMAIN program :
                 /\ program[j].is = "alias"
                 /\ LET t == AliasOf(program[j].name) IN IsAlias(t) => t.base[2] \in Within[n - 1]}}}
  IN Within[Len(program)]
ValidAliases == \A k \in DOMAIN program : program[k].is = "alias" => program[k].name \in Ending

(* resolveTypeSpec, one alias and all of them; it follows a circular one for    *)
(* ever, and takes an unknown one for void.                                     *)
Unfolded(t) ==
  IF t.base[1] # "alias" THEN t
  ELSE IF IsDeclared("alias", t.base[2])
  THEN LET a == AliasOf(t.base[2]) IN [wraps |-> t.wraps \o a.wraps, base |-> a.base]
  ELSE [wraps |-> t.wraps, base |-> <<"void", t.base[2]>>]
Resolved(t) ==
  LET After[n \in 0 .. Len(program) + 1] == IF n = 0 THEN t ELSE Unfolded(After[n - 1])
  IN After[Len(program) + 1]
Endless(t) == Resolved(t).base[1] = "alias"
IsVoid(t)  == t.wraps = <<>> /\ t.base[1] = "void"
IsArray(t) == t.wraps # <<>> /\ t.wraps[1] = "array"
Decayed(t) == IF IsArray(t) THEN [t EXCEPT !.wraps = [@ EXCEPT ![1] = "pointer"]] ELSE t

(* containsFlexibleArray and isCompleteObjectType, which look through arrays to  *)
(* the base or to the first pointer.                                             *)
Pointing(t) == \E i \in DOMAIN t.wraps : t.wraps[i] = "pointer"
IsFlexible(t) ==
  /\ ~ Pointing(t) /\ t.base[1] \in Aggregates
  /\ LET tag == tags[t.base[2]] IN tag.is = t.base[1] /\ tag.complete /\ tag.flexible
Completed(base) ==
  /\ base[1] # "void"
  /\ base[1] \in Tagged => tags[base[2]].is = base[1] /\ tags[base[2]].complete
(* Mutant: what a pointer points to must be complete too.                      *)
IsCompletePointee(t) == Completed(t.base) /\ (t.wraps # <<>> => ~ IsFlexible(t))
IsComplete(t) == Pointing(t) \/ (Completed(t.base) /\ (t.wraps # <<>> => ~ IsFlexible(t)))

------------------------------------------------------------------------------
TInit ==
  /\ shelf \in Shelves /\ program = <<>> /\ step = 0
  /\ tags = [n \in Identifiers |-> Unknown] /\ refused = FALSE /\ printed = {}

Write(d) ==
  /\ step = 0 /\ Len(program) < MaxDeclarations
  /\ program' = Append(program, d)
  /\ UNCHANGED <<shelf, step, tags, refused, printed>>

(* The types that are resolved before any body is checked.                     *)
Signatures == UNION {TypesOf(program[k]) : k \in {j \in DOMAIN program : program[j].is = "procedure"}}

(* The passes before the bodies are checked.  Structures are registered before *)
(* unions and enumerations, wherever they stand.                               *)
FirstKind(n) ==
  IF IsDeclared("structure", n) THEN "structure"
  ELSE IF IsDeclared("union", n) THEN "union"
  ELSE IF IsDeclared("enumeration", n) THEN "enumeration" ELSE "none"
BadSignature(d) ==
  \/ IsArray(Resolved(d.types[1]))
  \/ \E k \in 2 .. Len(d.types) : IsVoid(Resolved(d.types[k]))
Register ==
  /\ step = 0 /\ program # <<>>
  /\ ~ \E t \in Signatures : Endless(t)
  /\ step' = 1
  /\ tags' = [n \in Identifiers |-> [Unknown EXCEPT !.is = FirstKind(n)]]
  /\ refused' =
       \/ ~ ValidAliases
       \/ \E kind \in Tagged \cup {"alias", "procedure"} : Twice(kind)
       \/ \E k \in DOMAIN program :
            \/ program[k].is \in Tagged /\ FirstKind(program[k].name) # program[k].is
            \/ program[k].is = "procedure" /\ BadSignature(program[k])
  /\ UNCHANGED <<shelf, program, printed>>

(* The fields of a structure or union, the last of which may be flexible.      *)
FieldChecked(d, k) ==
  LET t == Resolved(d.types[k]) IN
  IF d.flexible /\ k = Len(d.types)
  THEN d.is = "structure" /\ k > 1 /\ IsComplete(t) /\ ~ IsFlexible(t)
  ELSE /\ IsComplete(t)
       /\ d.is = "structure" => ~ IsFlexible(t)
FieldsChecked(d) ==
  /\ d.is \in Aggregates => d.types # <<>>
  /\ \A k \in DOMAIN d.types : FieldChecked(d, k)

(* Mutant: a union does not hand on that a member is flexible.                 *)
HandsOnStructure(d) == d.is = "structure" /\ d.flexible
HandsOn(d) ==
  \/ d.is = "structure" /\ d.flexible
  \/ d.is = "union" /\ \E k \in DOMAIN d.types : IsFlexible(Resolved(d.types[k]))

Current == program[step]
Resolvable(d) == ~ \E t \in TypesOf(d) : Endless(t)
Checking(kinds) ==
  /\ step \in 1 .. Len(program) /\ Current.is \in kinds
  /\ step' = step + 1
  /\ UNCHANGED <<shelf, program>>

(* A definition whose tag is another kind's, or complete already, is passed     *)
(* over: Register has refused the program.  One that is not resolvable ends sema *)
(* in endless recursion.                                                         *)
CheckDefinition ==
  /\ Checking(Tagged) /\ Resolvable(Current)
  /\ IF tags[Current.name].is # Current.is \/ tags[Current.name].complete
     THEN UNCHANGED <<tags, refused, printed>>
     ELSE IF FieldsChecked(Current)
     THEN /\ tags' = [tags EXCEPT ![Current.name] =
                        [is |-> Current.is, complete |-> TRUE, flexible |-> HandsOn(Current)]]
          /\ printed' = printed \cup {step}
          /\ UNCHANGED refused
     ELSE refused' = TRUE /\ UNCHANGED <<tags, printed>>

(* Declare, and Size of type.                                                   *)
UseChecked(d) ==
  /\ IsComplete(Resolved(d.types[1]))
  /\ d.is = "declare" => ~ Twice("declare")
CheckUse ==
  /\ Checking({"declare", "size"}) /\ Resolvable(Current)
  /\ refused' = (refused \/ ~ UseChecked(Current))
  /\ UNCHANGED <<tags, printed>>

CheckOther ==
  /\ Checking({"alias", "procedure"})
  /\ UNCHANGED <<tags, refused, printed>>

TNext ==
  \/ \E d \in shelf : Write(d)
  \/ Register
  \/ CheckDefinition
  \/ CheckUse
  \/ CheckOther

TSpec == TInit /\ [][TNext]_typeVars

Checked == step > Len(program) /\ program # <<>>

------------------------------------------------------------------------------
(* A C text is a function from places, pairs of a page and a line, to           *)
(* declarations.  emitProgram prints enumerations, aggregates, objects,         *)
(* prototypes, procedures, and the rest in main.                                *)
Pages == << {"enumeration"}, {"structure", "union"}, {"declare"}, {"procedure"}, {"procedure"}, {"size"} >>
PrototypePage == 4
Expanded(d) ==
  [d EXCEPT !.types = [k \in DOMAIN d.types |->
     IF d.is = "procedure" THEN Decayed(Resolved(d.types[k])) ELSE Resolved(d.types[k])]]
PrintedAt(p) ==
  /\ program[p[2]].is \in Pages[p[1]]
  /\ program[p[2]].is \in Tagged => p[2] \in printed
Emitted ==
  [p \in {q \in (1 .. Len(Pages)) \X (1 .. Len(program)) : PrintedAt(q)} |->
     IF p[1] = PrototypePage THEN [Expanded(program[p[2]]) EXCEPT !.is = "prototype"]
     ELSE Expanded(program[p[2]])]

------------------------------------------------------------------------------
(* C on a text: the declaration at a place is judged by those before it.         *)
Before(p, q) == p[1] < q[1] \/ (p[1] = q[1] /\ p[2] < q[2])
DefinedBefore(text, p, g) ==
  \E q \in DOMAIN text : Before(q, p) /\ text[q].is = g[1] /\ text[q].name = g[2]

(* The least set of aggregates that has the structures with a flexible member    *)
(* and every union with a member in the set.                                     *)
AggregatesOf(text) ==
  {<<text[p].is, text[p].name>> : p \in {q \in DOMAIN text : text[q].is \in Aggregates}}
HoldFlexible(text, d, F) ==
  \/ d.is = "structure" /\ d.flexible
  \/ d.is = "union" /\ \E t \in TypesOf(d) : ~ Pointing(t) /\ t.base \in F
ClosedUnder(text, F) ==
  \A p \in DOMAIN text : HoldFlexible(text, text[p], F) => <<text[p].is, text[p].name>> \in F
HoldsFlexible(text, t) ==
  /\ ~ Pointing(t) /\ t.base \in AggregatesOf(text)
  /\ \A F \in SUBSET AggregatesOf(text) : ClosedUnder(text, F) => t.base \in F

HasSize(text, p, t) ==
  \/ Pointing(t)
  \/ /\ t.base[1] # "void"
     /\ t.base[1] \in Tagged => DefinedBefore(text, p, t.base)
     /\ t.wraps # <<>> => ~ HoldsFlexible(text, t)
(* The elements of an array have a size wherever the array is written.          *)
Formed(text, p, t) ==
  t.wraps # <<>> /\ t.wraps[Len(t.wraps)] = "array" =>
    HasSize(text, p, [wraps |-> <<"array">>, base |-> t.base])
NamedTags(d)  == {t.base : t \in {u \in TypesOf(d) : u.base[1] \in Tagged}}
MentionsOf(d) == NamedTags(d) \cup (IF d.is \in Tagged THEN {<<d.is, d.name>>} ELSE {})
(* A tag first named among parameters belongs to that prototype alone.           *)
Visible(text, p) ==
  UNION {MentionsOf(text[q]) : q \in {r \in DOMAIN text : Before(r, p) /\ text[r].is # "prototype"}}
    \cup {text[p].types[1].base}

Member(text, p, j) ==
  LET d == text[p]  t == d.types[j] IN
  /\ Formed(text, p, t) /\ HasSize(text, p, t)
  /\ d.is = "structure" => ~ HoldsFlexible(text, t)
  /\ d.flexible /\ j = Len(d.types) => d.is = "structure" /\ j > 1 /\ ~ HoldsFlexible(text, t)
WellFormed(text, p) ==
  LET d == text[p] IN
  CASE d.is \in Aggregates -> d.types # <<>> /\ \A j \in DOMAIN d.types : Member(text, p, j)
    [] d.is \in {"declare", "size"} -> Formed(text, p, d.types[1]) /\ HasSize(text, p, d.types[1])
    [] d.is = "prototype" ->
         NamedTags(d) \subseteq Visible(text, p) /\ \A t \in TypesOf(d) : Formed(text, p, t)
    [] d.is = "procedure" ->
         /\ \A j \in 2 .. Len(d.types) : HasSize(text, p, d.types[j])
         /\ IsVoid(d.types[1]) \/ HasSize(text, p, d.types[1])
    [] OTHER -> TRUE
(* The three kinds of tag share a namespace, and nothing is defined twice.       *)
OneMeaning(text) ==
  /\ \A p, q \in DOMAIN text : \A f \in MentionsOf(text[p]), g \in MentionsOf(text[q]) :
       f[2] = g[2] => f[1] = g[1]
  /\ \A p, q \in DOMAIN text :
       p # q /\ text[p].is = text[q].is => text[p].name # text[q].name \/ text[p].is = "size"
Compiles(text) == OneMeaning(text) /\ \A p \in DOMAIN text : WellFormed(text, p)

(* What sema does not look at: the element of an array behind a pointer, a tag   *)
(* that is named as two kinds or only in a signature.                            *)
HidesArray(t) == \E i, j \in DOMAIN t.wraps : i < j /\ t.wraps[i] = "pointer" /\ t.wraps[j] = "array"
NamedAs(g) ==
  \E k \in DOMAIN program : program[k].is # "alias" /\ g \in MentionsOf(Expanded(program[k]))
Overlooks(d) ==
  LET e == Expanded(d) IN
  \/ \E t \in TypesOf(e) : HidesArray(t)
  \/ \E g \in NamedTags(e) : \E kind \in Tagged \ {g[1]} : NamedAs(<<kind, g[2]>>)
  \/ d.is = "procedure" /\ \E g \in NamedTags(e) : tags[g[2]].is # g[1]

(* An accepted program's definitions come, in the order they are printed, before *)
(* every use that needs them, though sema took the source's order: the C text     *)
(* compiles (isCompleteObjectType, checkStmt, emitProgram).                        *)
DefinedBeforeUse ==
  /\ Checked /\ ~ refused
  /\ \A k \in DOMAIN program : program[k].is # "alias" => ~ Overlooks(program[k])
  => Compiles(Emitted)

(* A program is refused only if C would not have it in the source's order either, *)
(* or an alias in it stands for no type.                                           *)
Source ==
  [p \in {1} \X {k \in DOMAIN program : program[k].is # "alias"} |->
     [program[p[2]] EXCEPT !.types = [j \in DOMAIN program[p[2]].types |-> Resolved(program[p[2]].types[j])]]]
RefusedForCause ==
  Checked /\ refused =>
    \/ Twice("alias") \/ ~ ValidAliases
    \/ ~ Compiles(Source)
    \/ \E p \in DOMAIN Source : Source[p].is = "procedure"
         /\ (IsArray(Source[p].types[1]) \/ \E k \in 2 .. Len(Source[p].types) : IsVoid(Source[p].types[k]))
==============================================================================
