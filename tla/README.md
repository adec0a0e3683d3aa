# UltraCPP: a TLA+ model of the compiler

UltraCPP is a small systems language. Its production compiler is a C99 program
(`src-c/`), ported from a Rust reference implementation (`src/`); it turns a
`.uc` file into LLVM IR and, with `--build`, drives `llc` and `gcc` to an
executable. This directory models the parts of the C compiler where order,
recursion, shared state or failure make the code hard to test, checks them with
TLC and proves some of the results with TLAPS. Paths below are relative to the
repository; `main.c`, `parser.c` and `codegen.c` are in `src-c/src/`.

## The system

| Component | State | Operations | Interacts with |
|---|---|---|---|
| Include preprocessor, `main.c` | `IncludeSet seen`, one output buffer per active call | `preprocess_includes`, `expand_includes`, `includeset_*`, `strbuf_append` | runs before the lexer on the text of each translation unit |
| Lexer and tokens, `lexer.c`, `token.c` | position in the buffer | `uc_lexer_next` and its scanners | feeds the parser two tokens ahead |
| Conditional compilation, `parser.c` | macro table, token window, recursion, `p->declarations` | `parse_top_level_at_directive`, `parse_top_level_pound_directive`, `skip_pp_branch`, `skip_pp_branch_pound` | called by, and calls back, `parse_top_level` |
| Declarations, statements, expressions, `parser.c` | token window, error | the `parse_*` functions | builds the AST |
| AST, `ast.c` | none | constructors, destructors, printer | |
| Statement code generation, `codegen.c` | output text, `label_counter`, `loop_scopes` | `gen_func`, `gen_stmt`, `mk_label`, loop scope stack | calls `gen_expr` for every expression |
| Expression code generation, `codegen.c` | `last_expr_type`, `local_vars`, temporaries | `gen_expr` and the intrinsics | emits into the output of its caller |
| Symbols and linking, `codegen.c`, `main.c` | `local_funcs`, `imported_modules`, `declared_externals`, `skip_builtins` | `scan_imports`, `mangle_name`, `gen_toplevel`, `uc_codegen_generate`, `path_dirname`, `path_join` | decides which files are compiled together and which names meet in the link step |
| Build driver, `main.c` | files in `/tmp`, exit code | `run_build` | external `llc` and `gcc`, other compiler processes |
| Command line and dumps, `main.c` | none | `main`, `run_emit_ll`, `run_dump_*` | |
| Rust front end, semantic analysis, generator, `src/` | scopes, symbol tables | resolver, checker, generator | the reference of the C port |
| Standard library, `lib/*.uc` | | allocation, strings, system calls | compiled as imported units |
| Test harnesses, `tools/`, `scripts/`, `test/` | | compare compiler outputs | |

The compiler is one sequential process; what is concurrent is several
`--build` processes on one machine. What is hard in it:

* mutual recursion over one shared state (the seen set; the token window and
  the vector of declarations; the label counter and the loop scopes), where
  the order of "before the child", "the child" and "after the child" matters;
* error paths that leave such state half updated;
* agreement between two pieces of code about who consumes a token, closes a
  block or removes a file;
* one field that every expression may leave its type in and the next consumer
  reads, whoever wrote it;
* names that must agree between units compiled one after the other, with
  different rules for the main one;
* intermediate files under fixed names, shared by processes.

What makes each component correct:

* includes: the recursion is bounded, no file that should be there is missing,
  nothing is there twice, order is kept, the result is substitution;
* conditional compilation: exactly the declarations of live branches are kept,
  in order; every stream gets a verdict, and the right one;
* statements: basic blocks are well formed, every jump has its target, and the
  code does what the statements say;
* expressions: a temporary is defined once and before its uses, types are those
  of the operands, and the code computes what the source says;
* symbols: a call reaches the function its source means, and well-behaved
  programs link;
* lexer and expression parser: tokens are the longest lexemes, lose no text and
  have their positions and values; trees are the grammar's. The reference here
  is the language specification, and every departure of the compiler from it is
  named in the modules;
* builds: what is linked was made from the sources of this build, the exit code
  is true, intermediate files go.

## Modules

| Module | Models | Status |
|---|---|---|
| `IncludeExpansion` | the include preprocessor | checked, proofs in `IncludeExpansionProofs` |
| `ConditionalBlocks` | abstract: conditional compilation as one scan | refined by the next |
| `ConditionalCompilation` | the recursive directive parser | checked, proofs in `ConditionalCompilationProofs` |
| `StatementCodegen` | `gen_func` and `gen_stmt` | checked, proofs in `StatementCodegenProofs` |
| `StatementExecution` | the emitted code run against its source (composes with `StatementCodegen`) | checked, proofs in `StatementCodegenProofs` |
| `ExpressionCodegen` | `gen_expr`, the intrinsics, the statements that use a value | checked, proofs in `ExpressionCodegenProofs` |
| `ExpressionExecution` | llc's rules, the emitted code run against the meaning of its source | checked (composes with `ExpressionCodegen`) |
| `ImportPaths` | `path_dirname`, `path_join`, module names | checked through the next, proofs in `SymbolLinkingProofs` |
| `SymbolLinking` | the names all units of a build give their symbols, and the link | checked, proofs in `SymbolLinkingProofs` |
| `BuildPipeline` | concurrent `run_build` processes | checked, proofs in `BuildPipelineProofs` |
| `Lexing` | the lexer | checked, proofs in `LexingProofs` |
| `ExpressionGrammar` | abstract: the trees the reference grammar derives | reference of the next |
| `ExpressionParsing` | the expression parser | checked |
| `SetInduction` | | lemmas: induction and recursion in first-order form, used by the proofs |
| `MC*` | the instances TLC checks | |

### IncludeExpansion

`expand_includes` calls itself; the model keeps its C call stack as the
sequence `stack` of frames (file scanned, next line, output buffer, whether the
buffer was ever appended to) and takes a step per line: `CopyLine`, `DropLine`
(malformed or unsupported `#include`), `SkipSeen`, `SkipUnreadable`,
`EnterFile`, and the returns `ReturnToCaller` and `ReturnToCompiler`. A line of
output is identified by the line of source it copies. `touched` is the C test
`if (!out)`: a call whose buffer was never allocated returns its input
unchanged (`RawCopy`). A path stands for a spelling that `path_join` returns,
so the same file under two spellings is two paths, as it is for the code.

### ConditionalBlocks and ConditionalCompilation

`ConditionalBlocks` says what conditional compilation means: one left-to-right
scan over the token stream with a stack of open conditionals.
`ConditionalCompilation` is the parser: the stack of active calls of the two
directive functions, each in the mode "active" (parsing a branch), "skip" (in a
skip function, with its depth counter) or "tail" (the loop over the rest of an
@-chain). One step is one iteration of one of the loops in the code. `Reject`
is the unwinding after `err_here`, with all declarations freed. For the
#-family the parser is shown to implement the scan (`PoundRefinesBlocks`): a
frame is an open conditional and a skip at depth d is d of them. For the
@-family that is not so (see "Divergences"), and `AcceptedIsRight` says what
does hold: whatever well-nested stream is accepted is compiled right.

### StatementCodegen and StatementExecution

A function body is the sequence of its statement kinds in prefix order.
`todo` is the C stack of `gen_stmt`: what each active call has still to do, each
with the statement it is about.
`GenIf`, `GenWhile`, `GenFor` emit what comes before a child, `GenAfterThen`,
`GenAfterElse`, `GenAfterWhile`, `GenAfterFor` what comes after it;
`GenFailure` is `gen_expr` failing. `scopes` is `g->loop_scopes` and `nlabels`
the label counter. Expressions, declarations, `free` and asm blocks are one
opaque instruction each.

`StatementExecution` runs the finished code with a program counter, beside the
source statements under their usual meaning, and compares the two at every
point where something can be observed: an expression, a condition (which comes
out either way), a return, the end.

### ExpressionCodegen and ExpressionExecution

A statement with one expression is a sequence of nodes in prefix order; `stack`
is the C call stack of `gen_expr`. A call without operands is one step, a call
with operands one step when it begins and one when its operands are there (a
conditional expression also one between them, where it emits its branches).
`lastType` is `g->last_expr_type`: it starts as any type an earlier statement
may have left, and an action that the code lets pass without setting it leaves
it alone. An instruction is a record of its opcode, operands with the types
*written* in the text, and the temporary it defines.

`ExpressionExecution` first lets `llc` judge: an operand not defined on some way
to its use, or defined with another type than written, a bitcast between sizes,
a phi that does not name the predecessors of its block. Accepted code is run
over symbolic values (terms), so two results are equal only when they were
computed alike, and compared with the meaning of the source: variables, and the
log of calls, returns and tests with the memory at that moment. The source's own
typing follows the specification of the language. `AcceptedComputesMeaning`
excludes two kinds of statements by name (`KnownGap`), listed under "Also seen".

### ImportPaths and SymbolLinking

A path is whether it is absolute, and its segments. `path_join` pops a segment
of the text for "..", as the code does, whatever the segment is. A file is
`[imports, included, decls]`: the `#import` lines of its text, those that an
`#include` brings, and its top-level declarations; a function body is the set of
its calls. The model compiles the imported units and then the main one,
declaration by declaration: `GenFunc`, `GenFuncDecl`, `GenExtern`, `GenGlobal`
and `SkipDecl` are the cases of `gen_toplevel`, `FinishUnit` puts the header
before the text and hands it to `llc`, `LinkUnits` is `gcc`. `Meaning` says,
from the source alone, which definitions a call may mean. `MaxImports` is the
size of the arrays of `run_build`: what is imported beyond it is not compiled
(`import_n`). `llc` and `gcc` are external: the model has their rules on names
and the one on initialisers (`InitialisersFit`: the generator initialises every
global with an integer, which only integer types take); bodies of functions are
taken as accepted here, `ExpressionExecution` says when they are.

### Lexing

One step is one call of `uc_lexer_next`; a text is a sequence of characters.
Tokens carry the place of their first and last character, reported line and
column, and value. The scanners' loops are recursive functions over the turns of
the loop; the properties compare them with definitions that have no loop in
them: a maximal lexeme of a class (`LongestToken`), the position by counting
newlines (`PositionsRight`), a value by powers of the base (`ValuesRight`).
`ReferenceLexeme` is the lexical grammar of the specification, production by
production. `OwnLexeme` is what the lexer reads beyond it (a `$` in a word, an 8
or 9 after a leading zero, `0X` and `0B`, a prefix without digits, exponents,
empty and escaped character literals, unknown directives, those with an `@`), and
`Missed` what it does not read: a number that starts with its point. Values are
those of the specification, but for octal literals, which `OctalValues` is about.
Between two tokens there are only blanks and comments (`NothingLost`), unless a
comment is never closed: then the text from it up to the last character but one
is gone (`LeftOpen`), and that character may still be a token.

### ExpressionGrammar and ExpressionParsing

`ExpressionGrammar` gives the set of trees that derive tokens i to j, with no
parser in it: splits are anywhere. It is the grammar of the specification's
section 12 when the constant `Departures` is empty; each element of `Departures`
puts what the compiler does in place of what the specification says:

| Departure | The compiler | The specification |
|---|---|---|
| outer conditionals | `a = b ? c : d` is `(a = b) ? c : d` | `a = (b ? c : d)` (12.1, 12.3; table 4.1 alone agrees with the compiler) |
| any target | anything of the binary ladder may stand left of `=` | an lvalue |
| name targets | only a name may stand left of `+=` | an lvalue |
| type names | `int(a)`, `cast(int, a)` are calls of functions `int`, `cast` | casts |
| keyword names | `mod`, `sizeof` alone are variables | keywords |
| plain sizes | `sizeof` takes an expression | a type |
| single allocations | `alloc(T)` only | `alloc(T, n)` too |
| plain types | primitive names, `void`, pointers | structures, references, arrays too |
| prefix stars | `*int` is a type | `int*` |
| starless casts | except that `(*int)a` is no cast | |
| paths | `a::b` is `sys::b`, anywhere | a qualified callee |
| full statements | no empty statement | `;` is one |

The run `parsing` has all twelve; each is needed, with any of them taken out it is
violated. With none (`MCExpressionParsing_Reference.cfg`) TLC shows the statements
in which the compiler falls short of the specification, see "Divergences".
`free` and asm blocks as expressions, function types and `const` are left out of
both sides; `mod` and `sizeof` stand for `unmod`, `is_null` and `alignof`, `move`
for `clone`, which the parser treats alike.

`ExpressionParsing` has an operator for each
`parse_*` function of the expression ladder (the ten binary levels share one),
and a state machine that parses statement after statement. The desugaring of
`a += b`, casts, `sizeof(T)`, `alloc(T)`, module paths and keywords used as
names are included, and the test that tells a declaration from an expression.

### BuildPipeline

One process per build; every operation on a file both processes could have is a
step: opening (which truncates), writing, reading by `llc` and `gcc`, removing.
A removed file that is still open keeps its writer and loses its name, as in
POSIX. File contents record which unit they were compiled from and for which
role (main or import); a file two builds wrote at once, or one made from an
incomplete file, is damaged. `llc` and `gcc` are external: they may succeed or
fail at any time.

## What the runs show

| Run | Instance | Shows |
|---|---|---|
| `includes` | every content of a file of up to 3 lines and two more of up to 2 and 1, the latter possibly unreadable (322,250 states) | `CyclesCut`: mutual inclusion does not recurse for ever; `MarkedNotLost`, `Complete`: nothing reachable is lost; `InlinedOnceInOrder`, `Verbatim`: order and substitution; `Terminates` |
| `pound` | every stream of up to 6 tokens of the #-family | `PoundRefinesBlocks` |
| `at` | every stream of up to 6 tokens of the @-family and up to 4 of both | `AcceptedIsRight`, `DeclarationsInOrder`, `Terminates` |
| `statements` | every body of up to 5 control-flow statements, up to 3 of any kind, failing ones included | labels unique and defined, no fall-through into a block, loop scopes match the loops; `CodeFollowsSource`, `CodeReachesEvent` |
| `builds` | 12 scenarios of two builds: equal stems, a main unit named like an import's file, `--keep`, too many and unresolvable imports (88,441 states) | `LinkInputsOwn`, `OwnOutcome`, `TempsRemoved`, `AllReturn` |
| `expressions` | some 23,000 statements: every expression of up to 3 nodes over 22 forms, conditional expressions with conditional branches, every other form over operands of every type; each after three stale types (489,000 states) | `DefinedOnce`; `AcceptedComputesMeaning`: code llc accepts does what the source says; `CoreCompiles`: the core of the language is accepted whatever was generated before |
| `symbols` | some 48,000 programs of a main file, an imported one and perhaps a second, over few colliding names, some with an import more than is allowed or one that an `#include` brought, and 11,000 layouts of paths and directories (420,338 states) | `CallsReachMeaning`: no call reaches another function than its source means; `ModularProgramsLink`: no name and no initialiser keeps a program within the limits of the scheme from being built; `ImportsFound` |
| `lexing` | some 61,000 texts over alphabets chosen for one scanner each (314,081 states) | `NothingLost`, `PositionsRight`, `LongestToken`, `ValuesRight`, `RawFits` |
| `parsing` | some 142,000 token sequences over competing tokens, and chains of up to five operators (275,797 states) | `TreesRight`: an accepted statement has exactly one derivation in the specification's grammar with the twelve departures, and the tree is that; `RejectedIsWrong`: what is rejected has none |

The bounds are large enough for the cases that matter: three files suffice for
self, mutual and diamond inclusion and for a file included back into the
compiled one; six tokens hold two nested chains with alternatives; five
statements hold a loop in a loop with `break` in an `if`; two builds are what a
race needs, and a third import exceeds the limit, which the instance sets to 2
instead of 64. An expression of three nodes already has a producer, a consumer
and a stale type between them; a type error needs no more. Two imported units
are the least that can clash with each other, with the main unit and with the
runtime at once, and one that imports another; three imports exceed the limit,
which this instance also sets to 2. Two operators decide precedence
and associativity; the longer chains are for `?:` and assignment. The `lexing`
runs use 8-bit literals and buffers of 4 or 32 bytes in place of 64 bits
and 32 bytes, so that their limits are reached. Every run
disables the deadlock check: the functions, builds and inputs come to their end.

## Divergences

Runs that are violated compare the code with what the repository says of it:

* `value_fits`: `scan_string` grows the value buffer of a string literal only
  after an escape; the 33rd plain character is written behind its end
  (`lexer.c:373`), while the grammar of string literals has no limit;
* `deref_initialises`: `T v = *p;` leaves `v` without a value: the dereference
  does not record its type, the declaration finds `i8*`, drops the store and the
  error with it (`codegen.c:1058`, `codegen.c:1873`);
* `sole_provider`: the main unit emits its stub of `uc_abs` even when an
  imported unit exports `uc_abs`, as `lib/math.uc` does: the link fails.

Three more configurations hold what the compiler does otherwise than the language
specification says. They are meant to be violated as well (with `tlc -continue`,
for every input in them):

* `MCExpressionParsing_Reference.cfg`, `TreesRight` and `RejectedIsWrong` without
  departures: `a = b ? a : b` is parsed as `(a = b) ? a : b` (`parser.c:2205`;
  12.1 and 12.3 at lines 3024 and 3195 of the specification); `int(b)` is a call,
  not the cast that line 637 calls equivalent to `(int)b` (`parser.c:2628`);
  `a[b] += 1` is rejected (`parser.c:2037`; line 571), and so are `sizeof(int*)`
  (`parser.c:2622`; line 3124), `alloc(int, b)` (`parser.c:2547`; line 1585),
  `alloc(Point)` (`parser.c:265`; line 908) and the empty statement
  (`parser.c:1844`; line 2969);
* `MCLexing_Reference.cfg`: `.1` is read as `.` and `1` (`NumbersWhole`;
  `lexer.c:650`; line 195); `011` is 11 (`OctalValues`; `lexer.c:575`; line 189);
  the tokens of `&=`, `|=`, `^=`, `<<=` and `>>=` have the kinds of `&`, `|`, `^`,
  `<<` and `>>` (`OperatorsKept`; `lexer.c:706` and below, which says "KNOWN BUG";
  line 149);
* `MCSymbolLinking_Exports.cfg`, `ExportsCalled`: a function that an imported unit
  does not export can be called through the module, since all its functions get
  bare names (`codegen.c:2512`), although it is private to it (line 1967); an
  `#import` that came with an `#include` declares the functions of a module that
  is not compiled (`main.c:801`), and a call through it reaches whichever other
  module has a function of that name (lines 1870 and 1959).

Also seen while modelling, and visible in the modules, which follow the code:

* includes: the compiled file is not in the seen set, so a file that includes it
  back inlines it again (`main.c:601`); mutual inclusion is cut silently
  (`main.c:485`) while the specification (9.7) wants an error; a file that
  contributes no line is passed on raw, `#include` lines included, although the
  comment at `main.c:667` says the parser never sees one (`RawCopy`);
* directives: a false `@ifdef` without `@else` is rejected and a surplus `@end`
  accepted, because `skip_pp_branch` consumes the `@end` the chain tail waits
  for (`parser.c:701`, `parser.c:797`); the macros of foreign platforms are
  defined, with value 0, and only definedness is tested (`parser.c:144`);
  `@if defined(NAME)` is a syntax error although the comment at `parser.c:608`
  lists it; `lib/sys/raw.uc` closes its `@ifdef` with `@endif`, which the lexer
  does not know;
* statements: a void function whose body is not empty and does not end in
  `return` has no terminator (`codegen.c:812`); errors of `gen_expr` are dropped
  by `gen_stmt`, so that `uc_codegen_generate` never reports one
  (`uc_codegen.h:37`);
* expressions: `sizeof` gives 0 and `alloc` 4 bytes for unsigned and
  pointer-wide integers, and an assignment stores an `i1` into the `i32` of a `bool`
  (`KnownGap`); a phi of nested conditional expressions names the wrong blocks
  and llc rejects it; `&&` and `||` evaluate both sides; a parameter cannot be
  assigned to;
* imports: `path_join` loses the root when ".." pops an absolute base to it, and
  pops the text "." or ".." of a base as if it were a directory; imports beyond
  the limit are cut off with a message, and the build goes on without them
  (`main.c:806`); the imports of an included or an imported file are not compiled;
* builds: two builds at once whose units have the same stem overwrite each other's
  files in `/tmp`, and a main unit called `imp0_x` those of its import `x`
  (`main.c:841`; excluded by `NoClash`);
* expressions, parsing: `(*int)b` is rejected although the comment at
  `parser.c:2234` says it must be a cast: `looks_like_type_start_peek` never takes
  a star for a type (`parser.c:1597`);
* symbols: a global variable or constant of a pointer or float type is initialised
  with an integer all the same and rejected by llc (`codegen.c:686`, `709`); an
  imported unit that uses `alloc`, `abs_int` or `move` is rejected by llc, since
  only the main unit declares what they call; `extern malloc` in an imported
  unit is dropped for the same reason; a `malloc` defined by an imported unit
  replaces the C library's; `mod` and `unmod` call symbols that nothing defines.

## Fairness

Liveness is claimed of sequential loops (`FairSpec`, `ExecFairSpec`: a process
that can take a step takes one) and of several processes, each of which keeps
running (`BuildPipeline!FairSpec`: weak fairness per build, which includes that
the `llc` or `gcc` it waits for in `system()` returns). Nothing is assumed of
the order in which processes run or of which outcome a tool has.

## What is proved

The proofs are for all values of the constants: any set of paths and any file
systems, token streams, texts and function bodies of any length, as many units as
the arrays of the compiler hold, whatever their size, and any number of builds.
Each safety property is a part of an inductive invariant or
follows from one.

| Theorem | Module | States, of every behaviour |
|---|---|---|
| `CyclesAreCut`, `RecursionBounded` | `IncludeExpansionProofs` | nested calls scan distinct marked paths, so their number is bounded |
| `MarksLoseNothing`, `NothingLeftOut`, `LinesOnceInOrder` | `IncludeExpansionProofs` | a marked file is in the output; so is every reachable one; every line once and in order |
| `IncludesAreVerbatim` | `IncludeExpansionProofs` | where no file is reached twice, the buffer is the plain textual substitution of every `#include` |
| `DeclarationsOrdered`, `AcceptedRight` | `ConditionalCompilationProofs` | source order is kept; an accepted well-nested stream is compiled right |
| `PoundRefines` | `ConditionalCompilationProofs` | over the #-family the parser implements `ConditionalBlocks` |
| `LabelsUnique`, `BlocksClosed`, `JumpsHaveTargets`, `ScopesAreLoops` | `StatementCodegenProofs` | basic blocks are well formed; the loop scopes are those of the loops being generated |
| `CodeIsLaidOut` | `StatementCodegenProofs` | at any time the code emitted so far and the calls still active lay out the whole body, in its order |
| `CodeDoesWhatSourceSays` | `StatementCodegenProofs` | the code of any body, of any length and nesting, performs what its source says, event by event |
| `TempsDefinedOnce` | `ExpressionCodegenProofs` | no temporary of a function is defined twice |
| `BuiltProgramsCallWhatTheyMean`, `ModularProgramsBuild`, `ImportsAreFound` | `SymbolLinkingProofs` | linked programs call what they mean; no name and no initialiser keeps a program within the limits from being built; imports open the file they name |
| `LinksOwnUnits`, `ExitCodeTellsTruth`, `NothingLeftBehind` | `BuildPipelineProofs` | a build without name clashes links its own code, its exit code is true, its files are removed |
| `RawNeverOverflows`, `LosesNothing`, `PositionsCorrect`, `LongestLexemes`, `ValuesCorrect` | `LexingProofs` | tokens have their place, position, extent and value, and nothing is lost |
| `TypeCorrect` | each of the seven | the type invariant |

### Induction

The provers cannot instantiate a theorem that takes an operator, so the induction
theorems of the library are out of their reach. `SetInduction` gets by without:
`LeastElement` (a set of natural numbers has a least element) gives
`SetInduct`, where the predicate is a set of numbers, and `Run`,
where the step of a recursion is a function. With them, what the recursive
functions of the models compute can be proved: a loop is shown to exist as a
sequence of turns, and its invariant by induction on the turns.

### Includes

Typing and `CyclesCut` are inductive together, because a call is entered only
for an unmarked path; `RecursionBounded` counts: the paths of the nested calls
are distinct members of a finite set. `MarkedNotLost` needs a strengthening:
every line a call has passed is in its buffer (`ScannedCopied`), a buffer that
was not touched is empty (`UntouchedEmpty`), and the stack is never empty before
the end. A returning call hands its buffer, or the raw text when it never
touched it, to its caller, so what was copied stays copied.

`InlinedOnceInOrder` adds that each buffer is in order and holds only lines of
marked files (or of the compiled one, `Buffers`), and that the buffers of
different active calls hold lines of different files (`Apart`), since a file is
marked for good when it is entered; splicing a callee's buffer behind a caller's
then repeats and reorders nothing. For `Complete`, `Reachable` is used as the
least set with the compiled file that is closed under inclusion: whatever is
marked is in it, and when the outermost call returns, the marked files together
with the compiled one are closed, because every include line of a finished file
was marked or unreadable when it was scanned (`MarkedClosed`).

`Substitution` is what the specification says of `#include`, a recursion over
the depth of the inclusions without any set of marked files; `MaxDepth` levels
are enough, because the calls are never nested deeper. For `Verbatim` the
invariant (`TreeInv`) says that each active call has in its buffer exactly the
text of the lines it has passed (`Substitutes`), where a call with a callee has
passed all but the line it waits at, and that every marked file is included by a
line already passed (`Fresh`). In a tree there is only one such line, so no file
the scanner meets is marked yet and cycle protection never drops one. A call that
returns has copied something, so it returns the text of its file, which is what
its caller's line stands for.

### Conditional compilation

The depth of a skip stays positive because the function stops at depth 1, and
declarations are in order because every kept position is behind the current one.
For `PoundRefines` the parser's frames are mapped to open conditionals, a
skipping frame at depth d to d of them, and each action is shown to be a step of
the scan or to change nothing it can see. It supposes that the streams have no
token of the @-family (`PoundOnly`, the constants of the run `pound`); with one,
the refinement is false, which is the divergence listed above.

`AcceptedRight` supposes nothing. Its invariant runs the scan beside the parser
up to the current token and says that either the parser's stack agrees with the
conditionals open there (`Matches`), or a call waits for an `@end` that a skip
has already consumed, and the stream can no longer be accepted (`Doomed`): the
calls waiting for an `@end` are more than the scan has open, and no step reduces
that surplus before the end of the stream. So a stream is accepted only from
agreement.

### Statements

The code is read as a concatenation of pieces (`Piece`: which labels a piece
defines and jumps to, each label after a terminator), and a pending call of
`gen_stmt` as a promise (`Pending`: the labels it will define). The invariant
says that a label is defined or promised at most once, comes from the counter,
and, while no expression has failed, that whatever the code, a pending call or a
loop scope refers to is defined or promised. A step exchanges the promises of
the first pending call for labels and for promises of new calls (`Exchange`,
`Links`); `SoundStep` and `LinkedStep` show once that any such exchange keeps
the invariant, and each action is shown to be one. When the function is finished
nothing is promised, so every target is defined. `ScopesMatchLoops` is inductive
with typing: a loop pushes its scope together with the pending call that pops it.

`CodeDoesWhatSourceSays` compares two machines, so it needs an invariant of the
finished code first and one of both machines at work then. The first is found
while the code is still being generated (`LaidOut`): a statement at i has a
span of the code from a position to another, which is laid out as its kind
demands (its condition, the branches, the labels and the spans of its children
in between, `Layout`); a child that a pending call has yet to generate
has its promise, and a position that is not there yet is named by the height of
the call that will reach it (`Lev`). A step of the generator turns one
such promise into instructions and promises for its children. Loop scopes enter
here: a `break` or `continue` was given the labels of the innermost loop around
it, which is what `ScopesMatchLoops` says of the scopes at that moment.

The second concerns what the program counter cannot see, labels and branches
(`CodeFollowsSource` compares at positions where something is observable). Two
positions are the same if no set of positions that is kept by every move over a
label or a branch holds one of them and not the other (`Same`); every position
has at most one observable one that is the same as it (`Leads`, `Still`). The
invariant (`Runs`) gives each thing the source has still to do the span it has in
the code, one behind the other, with the same position between them, and to each
loop among them the positions to go on at after a `break` and a `continue`
(`Around`). Each step of the source keeps that up to sameness, and each step of
the code starts from an observable position, so the two are always at the same
event (`InStep`).

### Expressions

A call takes the number of its temporary before its operands are generated and
defines it after them, so "defined once" is not inductive: between the two, all
operands' instructions come in. The invariant adds that every frame below the
top waits for exactly one operand and has its place in the statement
(`StackOK`), that instructions define only numbers the counter has given out
(`ResultsIn`), and that a number taken by a waiting call is defined by no
instruction yet and by no other waiting call (`Reserved`). A step hands the
reservations of the frames it leaves to the instructions it emits (`StepTo`,
`Step`); each action is shown to be such a step.

### Symbols and imports

The units never see each other while they are compiled; what holds between them
follows from what each is alone. The invariant says of every object (`ObjectOK`)
and of the unit in work (`UnitOK`), in terms of its source, which symbols it
introduces and uses: a definition comes from a declaration of the file or is one
of the runtime's, which only the main unit has; every function is there under
its symbol, no two of a name; a call uses the symbol of its callee, and one
through a module has that symbol declared. In a program that links, a symbol the
linker sees has one provider (`OneProvider`); then each kind of call is followed
to what it reaches (`IdentReaches`, `FieldReaches`, `BuiltinReaches`).

`ModularProgramsBuild` is the other direction: that names and initialisers never
make the build fail. It supposes what the model does: that bodies are accepted and
the tools run. `Modular` are the limits: every import that is compiled has its
file, unmangled names are unique and not the runtime's, globals and constants are
integers, and what is called is in a unit that is compiled, not in one whose
import was cut off at `MaxImports` or came with an `#include`. `ModularInv` says
that a unit introduces exactly what its source and header say (`Introduced`,
`Header`), so that distinct names of a unit have distinct symbols; the bare names
of two units are disjoint by the hypothesis, the mangled ones by the module name;
and every use has a provider. Hence no step of the build fails.

`ImportsAreFound` needs no invariant beyond the one above: it is about
`path_join` as a function. One segment at a time (`OneJoin`), the joined path is
where a walk through the directories leads; from a relative directory given by
names until the walk climbs above it, where the import is refused, from an
absolute one until ".." reaches the root, where the code loses it. The
exceptions are the ones the property names.

### Builds

The invariant `IInv` says how far each build has come (`Progress`), that a build
none of whose names another one or itself uses twice finds in each of its files
what it put there (`OwnFiles`), and that every file in `/tmp` whose maker has
been there is still to be removed by somebody (`Claimed`). `LinksOwnUnits` and
`ExitCodeTellsTruth` follow from the second; its hypothesis is in the properties
themselves, and the run `builds` holds scenarios with and without a clash.
`NothingLeftBehind` needs the third, since a build may recreate a file that
another one with the same stem has already removed.

### Lexer

The invariant says of every token that its kind, place, position and value are
those of the longest lexeme at its place (`TokensRight`), that the text between
it and the token before is skippable or left open (`Gap`), and that the next
token starts behind it (`AtGap`, `Placed`). That one call of `uc_lexer_next`
keeps it is shown scanner by scanner. The skip loop: the places where its turns
start are the cuts of a text of blanks and comments, and the first turn that
passes no such piece is at a comment that is not closed. A string literal: after
each turn the text read is a prefix of the units of the literal (`Reads`,
`Collected`), an escape is known from the backslashes before it, and there is
room for the next write of the raw lexeme (`Room`); the buffer of the value has
no such invariant, which is the divergence `value_fits`. Numbers: the value is that
of the digits, or has saturated, or agrees with it in the low bits
(`ValuesCorrect` leaves octal literals out, as its property does). That the
result is the longest lexeme uses that its first character decides which class
it belongs to.

### Assumptions

The theorems rest on the named assumptions of the modules: the set of paths is
finite and the compiled file readable (`IncludeAssumption`); streams, texts,
programs, files and jobs are of the stated shape (`InputsAssumption`,
`TextsAssumption`, the two `ProgramsAssumption`, `MapsAssumption`,
`FilesAssumption`, `BuildsAssumption`); a buffer starts with at least 4 bytes
and there is a largest literal (`SizesAssumption`); "no path" is not a path
(`NoPathAssumption`); the limit on imports is a natural number
(`MaxImportsAssumption`). `DeparturesAssumption`, in the modules without proofs,
says that the departures are among the twelve. These are what the inputs of the compiler are; TLC
evaluates them in every run.

### Only model-checked

* Everything under fairness: that each loop terminates, that builds return, that
  running code reaches its next event. The prover has no rule for liveness or
  ENABLED.
* `TreesRight`, `RejectedIsWrong`: their definitions use recursive operators, in
  modules the prover's SMT solver cannot enter.
* `AcceptedComputesMeaning`, `CoreCompiles`: as for statements, a proof needs an
  invariant relating all code of a function with its source, here over the
  values and types of 22 forms of expressions; it has not been done.

## Not modelled

* Out-of-memory paths, the text of diagnostics, the sizes of file-name buffers
  in `run_build`, the value of a float literal.
* Declarations and statements in the parser: recursive descent that looks at the
  current token and one more, without state beyond it; `GenStmt`'s statements
  and `SymbolLinking`'s declarations are what it delivers.
* The AST module, the dump modes, option parsing and the shell harnesses:
  constructors, printing and straight-line I/O.
* What a system call emits after one of its arguments failed: the call forgets
  the error and the instruction names a temporary that is not there.
* The Rust implementation: the C port repeats its front end and its generator;
  its resolver and checker have no counterpart in the compiler that builds
  programs. The standard library: small functions over system calls.

## Order of work

The modules were written in this order, each checked before the next: includes,
conditional compilation, statements, builds, expressions, lexer, expression
parser, symbols. What would come next:

1. the expression grammar as recursive functions, and proofs;
2. `AcceptedComputesMeaning` along the lines of `CodeDoesWhatSourceSays`;
3. the parser's declarations, once the desugaring of `export` and `extern`
   blocks matters to a property;
4. the scopes of the Rust resolver and checker, if the C port adopts them.
