# A verification development for PlainSpeak

PlainSpeak is a compiler, in C++20, from an English-like prose language to C11.
A source file is tokenized (`src/src/lexer`), parsed into an AST (`src/src/parser`,
`src/src/ast`), checked and annotated (`src/src/sema/sema.cpp`), printed as C
(`src/src/codegen/c_emitter.cpp`) and handed to a C compiler by `src/src/cli/main.cpp`,
together with a small runtime (`src/runtime/plainspeak_runtime.c`) for boxed values
and lists. Nothing in it runs concurrently, except invocations of the command on one
file system. What is hard is the *agreement* of parts: the checks sema makes are the only ground on which the emitter prints C
that is taken to be well defined, and the runtime keeps mutable, shared,
growing lists under a language of paragraphs.

## Inventory

| Component | State | Operations | What makes it correct |
|---|---|---|---|
| Tokenizer, alias table | position, line | `tokenize` | tokens and their lines do not depend on layout; a comment is a comment only where a sentence starts |
| Parser | token position | one `parse…` per statement and expression | operators group by the documented precedence; a block ends at its own closing words |
| AST and its printer | none | `printExpr`, `printStmt` | what it writes is read back as the same tree |
| Definite-return analysis (`ReturnPathChecker`) | successor lists, pending gotos, label table, break and continue stacks | `buildBlock`, `buildStmt`, `buildSwitch`, `resolveGotos`, `sweepFrom` | its graph has every edge the C function has (sound) and no verdict without a real path (precise) |
| Statement checks (`checkStmt`) | scopes, loop and break depth, labels, variadic flags, current procedure | one branch per statement | what is accepted is legal C; the context of a procedure is restored |
| Types and type tables | tag tables, aliases, procedure signatures | `resolveTypeSpec`, registration passes of `analyze` | a by-value use sees a complete type |
| Constants and conversions | none | `integerConstantValue`, `checkedAdd/Sub/Mul`, `usualArithmeticConversion` | a folded value is the C value, or none |
| Unsequenced effects | none | `expressionEffects`, `findUnsequencedConflict` | an expression with unsequenced accesses is reported, no other is |
| Emitter | loop counter, collected variables | `emitStmt`, `emitProcedure`, `emitProgram` | each statement's C does what the statement says |
| Mangling | none | `mangleName` | no C identifier collides with a keyword or a runtime name |
| Runtime lists | heap of `PsList` | `ps_list_from`, `_copy`, `_append`, `_get`, `_set`, `_remove` | a list is the sequence the documentation describes |
| Runtime scalars | none | `ps_add`, `ps_print`, … | arithmetic on boxed values |
| Driver | files | options, phases, `cc` | a refused program touches no file; success means one's own executable |

Components meet in three ways. Sema annotates the AST (resolved types, selected
`Compile if` branches) and the emitter reads the annotations without checking
them again. The emitter prints calls of the runtime, whose only defence is a
bounds check and a type tag. Sema's own passes share tables: registration looks
at the top-level statements before the walk checks any of them.

Hard behaviours: paths through nested loops, switches and jumps; facts decided
about a procedure body that is walked last statement first; references shared
between list variables while a loop enumerates one of them; arrays that move when
they grow; name resolution done twice, in sema and in C; a grammar written down twice, in
the parser and in the printer; constants evaluated twice, by sema and by the C compiler;
files shared between invocations. `PROJECT.json` lists the
hazards at their lines.

## What is modelled

### The analysis and the function it judges: `ReturnPath`

`ReturnPath.tla` puts `ReturnPathChecker` (`sema.cpp:489-693`) next to the C text
of `emitStmt` and `emitProcedure`. A behaviour has three phases.

*Build.* `buildBlock` takes the statements of a body from the last to the first.
The actions do the same: each adds one statement in front of the innermost block
on the stack `frames`, so every body is some sequence of actions. `Complete`,
`CallNoReturn`, `Return`, `Goto`, `Label`, `Break`, `Continue` are statements
without a body. `OpenIf`, `OpenCompileIf`, `OpenLoop`, `OpenSwitch` are what
`buildStmt` does before it recurses, `BeginElse`, `PreviousClause` and the `Close…`
actions what it does after. Each action adds the checker's edges to `succs` (over
the numbers `newNode` returns) and the C edges to `cEdges`. A C point is a node and,
for counted loops, whether the loop is about to start or about to test again:
`for (i = 0; i < 2; i++)` is certain to enter but also certain to end.
A frame carries both *views* of its surroundings: continuation, block entry, Break
and Continue target. `labelNodes` is shared by live and unselected `Compile if`
branches, as in the code; `cLabels` is what C sees. Guards of `Label`, `Break`,
`Continue` and `Resolve` are sema's checks that a body must pass to be compiled.

*Sweep.* `Resolve` is `resolveGotos` with the start of `sweepFrom`; `Sweep` is one
iteration of its loop (any order: the code's stack is one of them); `Judge` is the
E0018 test of `checkStmt` for typed and for no-return procedures.

*Run.* If the body was accepted the compiled function walks its C edges.

Conditions are data: a test is `runtime` (either way), `always` or `never`, which is all
`isConstTruthyExpr` and `integerConstantValue` tell the checker. The constants
`Statements`, `Headers` and `Quirks` choose the forms of a run; `Quirks` admits a
Break or Continue whose target in the checker is not the one in C.

Properties: `TypeOK`; `Sound`, that an accepted typed function never runs off
its end and an accepted no-return procedure never leaves; `Precise`, that a
rejected function can reach its end; `Decides`, that the sweep comes to a verdict.

### Lists: `RuntimeLists` implements `ListSemantics`

`RuntimeLists.tla` has the heap of `PsList` objects with arrays of `capacity` cells,
`length` of them meaningful and the rest `Garbage`; variables refer to objects and
`Set x to y` copies the reference. `SetToItems`, `SetToList`, `AppendItem`,
`ReplaceItem`, `RemoveItem`, `Item` are the statements and expressions, each guarded by
what sema checks (the static item type, `Items`) and performing the whole runtime
call (growth included). `BeginForEach`, `NextItem` and `EndForEach` are the loop the
emitter prints: `ps_list_copy`, the length read once, `ps_list_get` on each pass.
`OutOfRange`, `NotAList` and `OutOfMemory` are the exits through `die`. An object is
never freed, as in the runtime.

`ListSemantics.tla` has no heap: a variable denotes a sequence, sharers see each
other's updates, a loop has the rest of a sequence left to visit. The refinement
mapping reads a list's items below its length, and of a running loop the part of
its copy from the counter on.

Properties: `TypeOK`; `Initialised`, no unwritten cell below a length is ever
shown; `SnapshotPrivate`, nothing but a loop touches the list it walks;
`WellTyped`, lists keep to the item type sema gave their variable;
`Implements`, the refinement; `ItemByItem`, that a step changes a list at one
position and keeps the rest in order; and `Homogeneous`, the documentation's claim.

### Names: `Bindings`

`Bindings.tla` resolves every name twice. `scopes` is `scopes_` of `sema.cpp`: for
each open scope the symbols `declareVar` put there, written as the *home* sema
gives the name: an imported object, a file-scope object, a `PsValue` hoisted to file
scope (`global`) or to the head of a procedure (`local`), a parameter, or an object
of the C block of scope `i`. `files`, `globals`, `locals` and the field `c` of a scope are
the declarations `emitProgram`, `emitProcedure` (through `collectVars`) and `emitStmt`
have printed for the statements so far. A behaviour is one walk of `checkStmt` over
some program: `Create` and `Assign` are the two roles of Set (the second also stands for
Add, Subtract, Append, Replace and Remove), `Read` is Read and Read float, `Declare` a native
declaration, `DeclareSelected` one directly in a top-level `Compile if`, `OpenLoop` the two
loops with a variable of their own, `OpenBlock` every other scope,
`BeginProcedure` and `EndProcedure` the walk of a procedure body. A block of another
function cannot be entered, so the scopes of a procedure are all scopes but the global one.

Properties: `TypeOK`; `Denotes`, that the identifier printed for a visible name refers
to the home sema gave it; `Separate`, that a variable and the one it shadows have storage of
their own; `DeclaredOnce`, that no C scope declares a name twice.

Sema and the emitter do not agree on every program. The constant `Quirks` names the
forms on which they differ, each of which the compiler shows on a program of a few lines:

| Quirk | Form | What happens |
|---|---|---|
| `setGlobal` | Set in a Procedure of a variable of the main program | updates a fresh local; the variable keeps its value |
| `setParam` | Set of a parameter of a legacy Procedure | `collectVars` (`c_emitter.cpp:807`) hoists it too; C: redeclared |
| `setItem` | Set of the variable of a For each | hoisted besides the loop's own: C reads an uninitialised local elsewhere in a procedure |
| `readShadow` | Read in a block of a name visible outside it | one C variable, two sema variables of two types |
| `declareHoisted` | Set in a block, then Declare of the name around it | C: conflicting declarations |
| `shadowImported` | a native declaration with the name of an imported C object | the C object is written |
| `compileIf` | a Declare in a selected top-level `Compile if`, used in a Procedure | C: undeclared |

### From characters to trees and back: `Tokenizer`, `Phrases`, `Sentences`, `Trees`, `Printing`, `Texts`, `FrontEnd`

The front end is functional, so it is modelled as operators, and its state is the text, with what the parser made of it (`reading`).
`Tokenizer` writes a source text character by character from an alphabet (its characters, and a
length). `Texts` writes one phrase by phrase from a *book* (what the texts
are about, how they open, their phrases, a length) and stops where the parser can no longer be
satisfied: a behaviour is a text, and every text of the book that is the beginning of
a program is reached. `FrontEnd` puts the two side by side, in one behaviour only one of them moves.

* `Tokenizer` is `tokenize` over classes of characters, one turn of its loop (`Scan`) after
  another: blanks and newlines, the statement
  boundary that tells a comment from a parenthesis, nested parentheses in comments, escapes,
  decimal, exponent and hexadecimal numbers with the full stop that may end a sentence. Each class
  has a few members and a letter one case: `x` and `e` are also `X` and `E`, which the code takes
  alike, and the spelling kept beside the lowered word is left out. Positions are characters of the whole text,
  and where a word, a comment or a number ends is said of positions, not found by a loop, so that
  the module can be reasoned about.
* `Phrases` and `Sentences` are the parser. Most `parse…` functions expect one thing after
  another; they are rows of a table (the words that select the form, those consumed,
  the parts that follow), in the order of the code's tests. What is not of that form has an
  operator of its own: the levels of operators (`Level`, `Operands`, `Compared`), the aggregate
  blocks, calls, generic selection, qualifiers, field lists, signatures, blocks. `Part` and `SPart` read
  one part of a row, and are the only way from one parse function to another. Every operator returns
  a tree and a position, or the position of the first error.
* `Trees` is `ast.h`: which children a node of each kind has.
* `Printing` is `ast_printer.cpp`: the words for each node. The word of a literal is what it is worth, and
  `Spoken` is what is written for it.

Both were compared with the compiler itself on some 265,000 generated texts, by verdict,
position of the error and printed tree; they agreed on all but those in which the tokenizer
takes a parenthesis for a comment, which `Phrases` leaves to `Tokenizer`, and those with the message
of a deprecated declaration, which is read and not kept (written like any string, it has the same trouble with
backslashes and quotes).

Properties: `TreesConform`; `RoundTrip`, that what is printed for a tree, literals converted
as the code converts them, is parsed as the same tree outside `Lossy`, whose disjuncts are lines of the table below; `Precedence`, that
expressions group as the table in `grammar.md` says; `Blocks`, that the
parser accepts a text of sentences exactly when a stack of open blocks does, and never
reads past the first sentence that stack refuses; `LayoutFree`, `CommentsDropped`.

What `--print-ast` does not write back:

| In `Lossy` | Form | What happens |
|---|---|---|
| `NoWords` | limits, offsets, atomics, calls through pointers, assertions, imports: forms without a case in the printer | `<unknown …>` |
| `NoWords` | the comma operator | printed without `evaluate` |
| `OtherName` | real part, imaginary part, atomic load | spelled unlike the parser's words |
| `LeftOpen` | a Choose, or a type with an expression as bound, at the right end of a left operand | no parentheses: it takes the operator |
| `DropsFlag` | variadic function types; alignment, linkage, storage, `constexpr` of a Declare | not printed |
| `NoNesting` | a nested block in a compound value | null pointer dereferenced |
| `NoTakes` | a Procedure with variadic parameters only | loses `takes` |
| `OtherValue` | a decimal without a fraction, `2.0` | `%.17g` writes `2`, read back as a whole number |
| `OtherValue` | a string or warning with a backslash, `"a\\b"` | written as it is: the backslash escapes what follows when it is read back |
| `OtherValue` | a string or warning with a quote, `"a\"b"` | written as it is: the string ends there, and the last quote opens one that is not closed |
| `BoundAgain` | an array bound in parentheses, `(1)` | read back as a fixed length |

### What sema decides on its own: `LongArithmetic`, `Expressions`, `TypeTables`, `Contexts`

`Expressions` writes an expression operand first, as a stack, so that every tree of a *kit*
of nodes up to a size is reached. The functions modelled recur over trees; an operand on the stack
is a record of what each of them returns for it, and `Node` computes the record of an operator from
those of its operands, `c[k]`, as the function computes its result from the calls on the children.
An object has three names: the `target`
sema calls it, which is one for all elements of an array, the `object` it is in C, and the variables `via` which it is reached.
There are four meanings: `Folded` is `integerConstantValue`, over the checked operations of
`LongArithmetic`; `Raw` is the value of the text `emitRawExpr` prints, by C's rules for `long` literals
and `int` truths;
`Reported` is E0034, computed from `Effects` and `FindsConflict`; and `Unsequenced` is C's rule on the
accesses of the whole tree, `Accesses`, at the node where the paths to two of them part. C has that rule for each of the two
texts an expression is printed as: in raw text `and` and `or` are sequenced, in boxed text (`UnsequencedBoxed`) they are the arguments
of a call. Properties: `FoldIsC`; `SequencingFound`, both directions of E0034, with the forms the code
misses or takes for a conflict named.

`ShortCircuit` runs these two texts. A value of the program's objects is a *store*; the
meaning of an expression is a function from stores to sets of outcomes: a value, the store afterwards, what was read and
written. The operands of `&&` and `||` come one after the other, the second only if the first does not decide (`Shortened`);
those of any other operator, and the arguments of `ps_and` and `ps_or`, are both evaluated, in an order C leaves open, and have
no outcome where one writes what the other reads or writes (`BothOf`). Increments change the store, divisions and
overflows have no outcome. `RawJoin` is `emitRawExpr`; `BoxedJoin` is `emitBoxedExpr`, which boxes the operands of
`and` and `or` only, and everything else as a whole. Conditions of If and While are printed raw, so these keep their short circuit;
what Say, Set and the lists take is boxed, and does not.
`BoxedIsRaw` says that this cannot be seen, in values or in the objects, outside *risky* expressions: an `and` or `or` whose right
operand writes, may be undefined, or reads what the left one writes. `KeepsShortCircuit`
is the documentation's claim, without the exception.

In `TypeTables` a type is what it is a pointer to or an array of, outermost first, and its base, so what
recurs in the code over a type is a quantifier over its `wraps`. Aliases are unfolded once more than there are
declarations; a type whose base is an alias even then is one `resolveTypeSpec` never returns from. The module
writes a program of declarations in any order, then `Register` is the first passes
of `analyze` (aliases, tags by kind, signatures), `CheckDefinition`, `CheckUse`, `CheckOther` one
statement of the walk each. `Emitted` is the text of `emitProgram`, a function from places, its pages and
their lines, to declarations, and `Source` the text in the source's order. The other half of the module is C on
such a text: `Compiles`. Which aggregates have a flexible member is for C the least set with the structures
that have one and every union with a member in the set (`HoldsFlexible`). `DefinedBeforeUse` says that what sema accepted
compiles in the emitter's order, `RefusedForCause` that what it refused does not compile in the
source's order, or has a bad alias. Some 5,000 of the programs were written out as PlainSpeak, and given to the compiler and to
gcc: the model's verdicts were theirs in every case.

`Contexts` says the words of a program one by one: blocks, jumps, labels, the five statements on
variadic arguments, and Procedures anywhere, as `checkStmt` would walk them. `context` is the members of
`Sema`; `own` records per C function what was said in it and what C would call wrong. `Check` is the first
diagnostic. `JumpsLand` compares verdicts; `CursorsAreOwn` compares the members with the function's
own cursors between any two words. A moved-from `std::unordered_map` is taken to be empty, as
it is in the standard libraries.

### Invocations: `Driver`

`Driver` is `main.cpp` for a set of invocations on one file system: `Options`, `ReadSource`, `Parse`,
`Analyze`, `WriteC`, `Cc`, each with its exits. `verdict` says what the phases make of a source;
`generated` and `executable` say which source a file is made of. Writing may fail unnoticed, because the stream
is never checked; `cc` may fail, and remove its output or not. Two invocations interleave at these steps.
`RefusedWritesNothing` and `SuccessIsOwn`.

`Semantics` puts the five side by side: in a behaviour one `part` moves while the others
rest.

What these parts leave out, or do differently from what a reader would expect; each was seen on the
compiler:

| Where | Form | What happens |
|---|---|---|
| `Narrow` | arithmetic on truth values only: `true shifted left by 40`, or the least `int`, made of truths, divided by minus one | folded as `long`, computed by C as `int` |
| `risky` | `Say 0 and (1 divided by x).`, `Say 0 and Increment after x.` | `ps_and` has both operands evaluated: it divides by zero, or increments `x`, where the documentation (`c-compatibility.md:86`) promises short circuit |
| `Overlooked` | a member, element or dereference that is read, the pointer or index on the way to one that is changed, a conversion, two arguments of one call | E0034 is missed; a conflict of arguments also silences the operator around the call |
| `SequencingFound` | `(Increment after x) and (Increment after x)` where a value is boxed | the arguments of `ps_and` conflict in C; E0034 takes them for sequenced |
| `TakenForOne` | increments of two elements of one array in one expression (`sema.cpp:316`) | E0034, though they are different objects and `c-compatibility.md:86` speaks of "the same native object" |
| `Endless` | `Define a as pointer to a.`, then a use of `a` | `resolveTypeSpec` never returns |
| `Overlooks` | a pointer to an array of an incomplete or flexible structure | accepted, C refuses it |
| `Overlooks` | a structure never defined in a signature | accepted, belongs to the prototype alone in C |
| `Overlooks` | a tag named behind a pointer as another kind than it has | accepted, C refuses it |
| `Overlooks` | a tag that is never defined, named behind pointers as two kinds | accepted, C refuses it |
| `Resolved` | an alias that does not exist, behind a pointer or as a result | silently `void` |
| `Abandons` | Finish while copies are open | forgets them without ending them |
| `Contexts` | Start without Finish; cursors along paths | never checked; state follows the source order |
| `procTable_` | a Procedure inside a block | its body is checked only if a top-level Procedure has its name, and never emitted |
| `WriteC` | a `.gen.c` that cannot be written | `cc` compiles the one of an earlier run, exit status 0 (a write that stops half-way leaves part of a file: not modelled) |
| `Alone` | two invocations with one output | one may get the other's program, exit status 0 |

## Runs

| Run | Expect | What it asks |
|---|---|---|
| `ReturnPathSound` | pass | `TypeOK`, `Sound`, `Decides` on all bodies of up to 3 statements from the forms on which checker and C agree: every loop but a counted one known to run, If, Switch, selected `Compile if`, jumps, calls that do not return |
| `ReturnPathPrecise` | pass | `Precise` on all bodies of up to 4 statements whose conditions are unknown or endless, without a Break in an endless loop |
| `ReturnPathSwitchBreak` | violation of `Sound` | a Break in a clause that is not the last (`sema.cpp:550`) |
| `ReturnPathCounted` | violation of `Sound` | a counted loop known to run (`sema.cpp:626`, `:668`) |
| `ReturnPathDeadBreak` | violation of `Precise` | an unreachable Break in an endless loop (`sema.cpp:636`) |
| `RuntimeLists` | pass | `TypeOK`, `Initialised`, `SnapshotPrivate`, `WellTyped`, `Implements`, `ItemByItem` |
| `RuntimeListsLaundered` | violation of `Homogeneous` | a string passed through a legacy Procedure (`sema.cpp:1072`) |
| `BindingsAgree` | pass | `TypeOK`, `Denotes`, `Separate`, `DeclaredOnce` on all programs over three names, one imported, up to four scopes deep, without a quirk |
| `FrontEnd` | pass | `LayoutFree`, `CommentsDropped`, `TreesConform`, `RoundTrip`, `Precedence`, `Blocks` on all texts of 33 books and 4 alphabets |
| `Semantics` | pass | `FoldIsC`, `BoxedIsRaw`, `SequencingFound`, `DefinedBeforeUse`, `RefusedForCause`, `JumpsLand`, `CursorsAreOwn`, `SuccessIsOwn`, `RefusedWritesNothing` |
| `ShortCircuitKept` | violation of `KeepsShortCircuit` | `and` and `or` as calls of the runtime (`c_emitter.cpp:780`) |
| `BindingsGlobal` | violation of `Denotes` | Set of a global in a Procedure (`c_emitter.cpp:807`) |

Bounds. A clause counts as a statement, so three statements hold an If around a Break inside
a loop, a Switch of two clauses with a jump, a Go to into a loop; the four of the
precision run hold two nested constructs with two exits. One label is enough to
close a cycle and to jump into a block; a second name only repeats it. The theorem
below lifts the bound for soundness. In `RuntimeLists` the smallest capacity is 1
instead of the source's 4 (`MinCapacity`), so that lists of two items already
grow; two variables share, three objects hold a list, another list and a snapshot,
`MaxNest` 2 gives a loop in a loop. Symmetry exchanges the two variables of one type
and the two numbers, which nothing distinguishes. `MaxLen`, `MaxHeap`, `MaxNest`,
`MaxLiteral` and `MaxStmts` are guards of the model, not of the code. In these runs deadlock
is not checked: a compiled function returns and a program dies, both legitimately.
`BindingsAgree` explores its whole state space: a program of any length over three names,
with `MaxDepth` 4 scopes, that is a loop in a block of a procedure. It checks
deadlock: a program may always go on. Names do not interact, so the third one
is there to be imported.

A book of `FrontEnd` is a corner of the grammar: some ten phrases and the length at which
its forms nest once inside each other, for example three levels of operators with a
prefix and a pair of parentheses. A phrase holds the words that are always said together, so a
text of six phrases may have twenty words. The books together use every row of the tables.
An alphabet has the characters of one hazard: comments in parentheses and sentence ends, numbers, strings, and what
may stand between them; five or six characters hold a comment in a comment before a sentence, a signed exponent,
a string with an escape. Longer texts are a matter of the theorems.
A text that ends deadlocks nothing: writing just stops, and deadlock is not checked.

A literal of each fate stands in the book of literals: a decimal with and one without a fraction, a string with a
backslash, one with a quote.

In `Semantics`, `long` has 4 bits and `int` 3, which has all sign and boundary cases of the
checked operations and lets truths overflow; the kits have up to six nodes, three operators with
their operands, so a conflict can lie under a call, a choice and an operator. The last kit has two elements of an array, one of
them also by a variable index, and a pointer to one of the variables.
Two cells and `MaxTerms` 5 give an `and` in an `and`, each operand reading, changing or dividing by either object, in every one of the
256 stores. `MaxDeclarations` 4 holds a use, a
union, a structure and a flexible member, or two aliases and their use, in every order. Six or seven words
hold a Procedure between a Go to and its Label, or inside a loop or another Procedure between Start and Next.
Two invocations on two outputs and two sources, with any file left by an earlier run, show
every interleaving there is: three add none, because files are touched in two steps only.

Fairness: `FairSpec` assumes weak fairness of `Analyse` only. It is one sequential
loop in the compiler that waits for nothing.

The two other forms left out of the passing runs are disagreements too, and the
safe forms of the theorem exclude them for the same reason: an unselected
`Compile if` without a selected branch has its Then branch built into the graph
(`sema.cpp:616`) although nothing is emitted, and a Continue in a Repeat
(`sema.cpp:619-627`) has the enclosing loop's target or none.

## Proofs

Eight modules are checked by TLAPS, for all values of the constants their assumptions allow:

| Module | About | Assumptions |
|---|---|---|
| `ReturnPathProofs` | `ReturnPath` | `ReturnPathAssumption` |
| `RuntimeListsProofs` | `RuntimeLists`, `ListSemantics` | `RuntimeListsAssumption` |
| `BindingsProofs` | `Bindings` | `BindingsAssumption` |
| `DriverProofs` | `Driver` | `RequestsAssumption` |
| `ContextsProofs` | `Contexts` | `VocabulariesAssumption` |
| `ExpressionsProofs` | `Expressions`, `ShortCircuit`, `LongArithmetic` | `LongAssumption`, `PowersAssumption`, `KitsAssumption` |
| `TypeTablesProofs` | `TypeTables` | `ShelvesAssumption` |
| `TokenizerProofs` | `Tokenizer` | `AlphabetsAssumption` |

`PowersAssumption` says that the powers of two up to the width of `long` are positive and double, and that
the first is one: the provers know no powers. `RuntimeListsAssumption` says that `Nothing`, which stands for no
item and no list, is no cell and no sequence of cells. `AlphabetsAssumption` says that what stands for the end of
the text is no character. `ShelvesAssumption` says what the parser does of a declaration: it has
a type, unless it defines a tag, and an enumeration has none.

* `TypeCorrect` (the first three modules): `Spec => []TypeOK`; inductive as it stands in the
  first two.
* `SoundForSafeForms`: `Spec => []Sound` for bodies of any size under `SafeForms` (no
  quirk, no counted loop known to run, no unselected `Compile if`). `Sound` speaks of the
  running function; the invariant `IInv` has to speak of its construction. It says that the two views
  of every frame agree (`AgreeingFrames`), that the node of every C edge's ends are linked in the
  checker's graph (`Embedded`), that the tables of labels and gotos are
  the same, that during the sweep every edge leaves a seen node for a seen node or one with work
  left (`Swept`), and that the function counter is at a seen node. Acceptance says
  `kFuncEnd` is not seen.
* `NeverUninitialised`, `SnapshotsPrivate`, `LoopsStayInRange`: `Initialised` and
  `SnapshotPrivate` as invariants with `TypeOK`, and from the latter the action property that
  the bounds check inside a For each never ends the program.
* `WellTypedUnlessLaundered`: `WellTyped` when no item goes through a legacy
  Procedure. Inductive only with `SharersAgree`: variables that share an object
  have one static type, so an Append through one of them suits all.
* `NamesAgree`, `StorageSeparate`, `NoRedeclaration`: `Denotes`, `Separate` and
  `DeclaredOnce` for any names and any depth, from `Quirks = {}`. None of them is
  inductive. The invariant `IInv` says what each home promises about the
  C declarations (`Placed`), what each hoisted declaration promises about the outer
  scopes (`Declared`), and that a boxed variable is created only where no variable of its name is
  visible (`Alone`), which is why hoisting it out of its block captures nothing.
  `Innermost` is a `CHOOSE`; that it exists rests on the well-foundedness
  of the naturals (`Least`, `Greatest`).
* `DriverWritesNothing`, `DriverSuccess`: for any number of invocations, sources and outputs, from
  one invariant, `DInv`. It says that whoever is past `Analyze` has a readable, accepted program (`Passed`,
  `Accepted`), and that whoever wrote, unfailed and alone, has its own source in `generated`, and in
  `executable` once it is over with success (`OwnFiles`): alone is judged with the files others have *opened*, so it can
  be lost but never regained.
* `ContextsCursors`, `ContextsJumps`: `CursorsAreOwn` and `JumpsLand` for programs of any length, from `CInv`.
  It says that the context, and the one saved in each open Procedure, agrees with what was said in the
  function it belongs to (`Agreement`); that the callers of the open Procedures come each before the
  function it calls (`CallsNested`), so nothing said in a function touches a saved context; and that sema's depths
  count the blocks around a word inside its own function (`Counted`): the depths are given by a
  function on the open blocks, one more at each that counts and 0 in a Procedure.
  Accepted functions that are finished have all their labels (`Accepted`), and `Restored` is what keeps it.
* `PreciseForPreciseForms`: `Spec => []Precise` for bodies of any size under `PreciseForms`, the forms of
  the run `ReturnPathPrecise`: conditions are unknown or endless, jumps land where checker and C agree. The
  other direction of soundness, and harder: a rejected body must have a *path* in C, of any length. C passes the
  head of a counted loop twice, starting and again; `D` is the set of these heads, and `PInv` says that every edge
  the checker has between two nodes is followed by a C edge from *every* point of the first to some point of
  the second (`Followed`), that a block's exits are points C can be at (`PreciseFrames`), and
  that whatever the sweep has seen is reached (`SweptReached`). What `Precise` reaches is computed
  by a recursive function in as many rounds as there are edges; that it is closed under a further
  edge (`ReachClosed`) is shown by counting: a round that adds nothing is the last, and the others add a target
  each.
* `ListsImplementSequences` and `PositionsAgree`: `Implements` and `ItemByItem`. Every step on the heap maps to the
  statement of `ListSemantics` on the sequences the objects denote (`Contents`), or to none: allocation, sharing and the growth of an
  array denote nothing. What carries it is `SnapshotPrivate`: an Append through a variable changes the
  lists of its sharers and no loop's.
* `SumsFolded`, `ProductsFolded`, `QuotientsFolded`: for every width of `long`, the checked operations and the
  divisions of the folder give C's result, and refuse exactly where C has none. A comparison with a
  quotient is one with a product (`QuotientBounds`), in each of the four cases of signs.
* `OperatorsFolded`: the same of every operator that evaluates both operands, in `long` or `int`.
  Bits are a `CHOOSE` of the number with a given pattern; that there is one for every pattern is
  shown by the least width for which there is not (`AllBits`).
* `FoldingIsC`, `ConflictsFound`: `FoldIsC` and `SequencingFound` for expressions of
  any size over any kit. Both relate meanings of a whole expression, and neither is inductive: `EInv`
  says of *every* operand on the stack that its values are longs, that folded and raw value agree where no
  part is narrow (`Agrees`), and what the effects sema collected have to
  do with the accesses C sees (`Sees`): outside overlooked forms they are the same objects by sema's names,
  everywhere they are no more. The proof found `Narrow` too small: a quotient or remainder of truths
  can overflow `int` though its value as `long` does not show it. The kit of negations and divisions
  of truths in `Semantics` now reaches this.
* `BoxingIsRaw`: `BoxedIsRaw` for expressions of any size over any objects and every store. It says nothing of operands, so
  it is not inductive. The invariant `SInv` says of every operand on the stack (`Printed`) that each of its two texts accesses no more than it is said to and
  changes nothing if it writes nothing (`Inside`), that one which neither writes nor may be undefined has an
  outcome in every store, and that the two show the same unless it is risky. So the operand that
  `ps_and` evaluates too much has an outcome (`JoinHappens`) and changes no object, and the outcomes of the call are those of
  `&&` (`JoinSeen`), because `ps_and` only looks at the truth of its arguments.
* `RefusalsHaveCause`, `AcceptedCompiles`: `RefusedForCause` and `DefinedBeforeUse` for programs of any length, with types of any
  depth. Both are about the end of the walk; `TInv` is what holds on the way. The tables and the definitions
  printed so far say the same of a tag (`Settled`, `Based`), a definition that passed its checks would pass them still,
  although the tables have grown (`CheckedStays`), and what it contains by value was printed before it (`Grounded`). So
  the source's order of aggregates is one C can take, and enumerations, printed first, need nothing. Sema's flexible is C's
  in both directions by the least set: `FlexibleInText` puts every tag the tables call flexible into any closed set, by
  induction on the order of printing; `FlexibleInTables` gives the closed set that has no other. Until the first diagnostic
  every definition so far is printed and every use complete (`Accepted`), and the first one has a cause (`DirtyCause`, `RefusedDefinition`,
  `RefusedUse`). The proof found `Overlooks` too small: a tag never defined but named as two kinds was missing.
  The shelves of `Semantics` now reach it.
* `LayoutDoesNotMatter`, `CommentsDoNotMatter`: `LayoutFree` and `CommentsDropped` for source texts of any length over any
  characters. `Reading` is the invariant of a turn of the loop: the line is one more than the newlines behind the position, the tokens so far fit one
  after another (`Fits`: the text of each is one that is read back whole, a comment stands where a
  sentence starts and an opening parenthesis does not, no token starts on a line before the last one ended). What `tokenize` returns is
  then `Readable`. The other half is `Rescanned`, that any readable tokens, written out, are read as themselves: after each
  of them the loop stands at the gap before the next one, on its line. That half knows nothing of where the tokens came from, so
  both theorems use it; for the second, leaving out the comments keeps tokens readable
  (`UncommentedReadable`). This needs that an opening parenthesis never follows a comment, which is what
  `atStatementBoundary` is for. `FrontEnd` only puts `Tokenizer` beside `Texts`, and neither touches the other's text.

Only model-checked, and why:

* `Decides`: liveness under fairness.
* `TreesConform`, `RoundTrip`, `Precedence`, `Blocks` of `FrontEnd`: parser and printer are RECURSIVE operators over trees
  of any depth, without which these modules cannot be read next to the code; their properties are inductions over
  data, which the provers cannot do. The tokenizer is a loop over positions: there a least counterexample does instead of an induction.

## Not modelled, and the plan

`PROJECT.json` says of each component what is missing. Not modelled, and why:

* `ps_print` and the conversions of the runtime, the spelling of C types and initializers in
  the emitter, mangling: functions of one value or one tree, without state, covered by the
  repository's golden tests.
* Expression typing (`inferExpr`) apart from what the modules above take from it: some sixty
  forms with one rule each. Qualifiers, bit-fields, `typeof`, variable-length arrays and imported C types
  belong to it.
* The overflow of `ps_add`, of the counter of a For up to `LONG_MAX`, and the reads a Go to
  makes uninitialised: the code has no check whose correctness could be asked, see the hazards.

Next:

1. `Blocks` apart from the trees: which sentences open and close a block is a function of the stack of open ones.
2. More of expression typing (`inferExpr`), the least covered part of sema.
