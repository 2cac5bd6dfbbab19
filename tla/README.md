# Verification of the alcy compiler

alcy is a batch compiler in C++20: one thread, a linear pipeline, no shared
mutable state between stages.  What makes it hard is not concurrency but order:
recursions over graphs the user writes (modules that import from each other,
packages that depend on each other, types that contain each other), state that
is read while the recursion that fills it is still running, and error paths
that skip one item of many and go on.  This directory holds TLA+ models of
those parts, the TLC configurations that check them and TLAPS proofs about them.

    tlc -workers 2 -config MCImportResolve.cfg MCImportResolve.tla
    tlapm ImportResolve_proofs.tla

`PROJECT.json` names, for every definition that models code, the lines it
models; for every run, what it checks; for every property, a plausible bug in
the code that violates it.

## Inventory

| part | state | operations | hard behaviour | correct when |
|---|---|---|---|---|
| **import resolution** `analyzer/resolve.cc` | per module: locals by namespace, imports, `exports_state` 0/1/2; the C++ call stack | `resolve_exports`, `resolve_use`, `add_import`, lookups | mutual recursion over a cyclic graph; imports read while incomplete; the order of modules and of uses | it ends; imports point at items, not at imports; one meaning per name and namespace; nothing dropped silently |
| **module tree** `analyzer/resolve.cc` | modules, parents, directories, worklist, each file's module | `build_tree`, `build_children`, `add_module`, `collect_locals` | files that declare each other; one file behind two modules; duplicates and missing files in mid-loop | a tree with unique child names; finite; exactly the unreached files warned about |
| **desugar** `parser/desugar.cc` | scope stack of bindings, counter of fresh names | one visitor per AST node, `declare_named`, `visit_or` | order of initialiser and pattern; or-pattern alternatives sharing marks | each use is renamed to the binding a lexical scoping gives it |
| **type registry** `analyzer/types.cc`, `ir/storage_builder.h` | nominals by module, type entries, instances, blessed types | `register_nominals`, `intern_nominal`, `resolve_type`, `types_equal`, `has_value_cycle` | two-phase construction; instances made during resolution; cycles; slots that copy entries | one entry per type, equality an equivalence, no recursion into a value cycle |
| **patterns and match** `analyzer/types.cc` | locals of the innermost scope, covered variants | `bind_pattern`, `check_exhaustive` | nested and or-patterns | an accepted match has an arm for every value |
| **expressions** `analyzer/types.cc` | `scopes`, `loop_depth`, `in_fn`, `fn_ret`, the type tables | `check_bodies`, `check_fn`, `check_stmt`, `check_place`, `check_expr` and its cases, `unify` | an expectation handed down and met again; error and never types that fit everything; state pushed and popped by hand through every early return | an accepted body never misuses a value |
| **IR verifier** `ir/verifier.cc` | none | `verify_storage` | partial checks that later stages rely on | a verified module cannot make an emitter read what is not there |
| **LLVM emitter** `codegen_llvm/` | maps from IR indexes to LLVM values | one case per opcode | forward references between blocks | each IR value emitted before it is read |
| **package resolution** `pkg/resolve.cc` | visited path, the packages resolved | `resolve_into`, `parse_manifest` | cyclic and shared dependencies, failure in mid-walk | a cycle is an error, a diamond is not; every dependency of a result is in it |
| **driver, pipeline, sources** `app`, `pipeline`, `source` | source table, diagnostic bag, exit code | `run_build`, `run_check`, `discover_sources`, `load` | which stage runs after which failure | the exit code tells whether there were errors |
| **lexer** `lexer/` | position, kind of the last significant token, tokens, diagnostics | `tokenize`, `skip_trivia`, one function per kind of token, `peek_next_kind` | two scanners that must agree where a line ends a statement; nested comments; lookaheads past the end | every byte in one token or between two; a separator exactly where the grammar inserts one |
| **parser** `parser/parser.cc` | token position, `allow_struct_lit_`, `banked_gt_`, diagnostics | one function per rule, `scan_lead`, `synchronize` | state of the parser seen by everything nested in what set it; recovery from the middle of a construct | a program is read as it was written; nothing accepted is dropped; every step consumes |
| **paths** `path` | none | `from_native`, `join` | a directory has many spellings, compared as text | a cycle is found in any spelling |
| **diag, base, debug** | append-only bag; none | `push`, `label`, `render` | none to speak of | not modelled |

The parts meet as a pipeline: the driver loads the manifest and the sources,
`resolve_modules` lexes, parses and desugars every file, builds the tree and
resolves the imports; `check_package` types the tree; the IR, its verifier and
its emitter are not yet called by the driver (`alcy build` only discovers files).  A stage
hands its result to the next by value; diagnostics go to one bag throughout.

## Modules and the code

| stage | modules | promises | small instance |
|---|---|---|---|
| text to items | Tokens, Lexer, Parser, Frontend | LexerChecks, Grammar, Lexer_proofs | SmallFiles, MCFrontend |
| shadowing | Desugar | DesugarScoping | MCDesugar |
| module tree | ModuleGraph, ModuleTree | ModuleTree_proofs | MCModuleTree |
| imports | ModuleGraph, ImportResolve | ImportFixpoint, ImportResolve_proofs | MCImportResolve |
| types | StorageTypes, TypeTable | TypeTableChecks, TypeTable_proofs | MCTypeTable |
| bodies | Trees, ValueNames, Bodies | BodyRuns, Bodies_proofs | SmallBodies, MCBodies |
| back end | StorageTypes, IrStorage, IrVerifier, LlvmEmitter | BackendChecks, Backend_proofs | SmallStorages, MCBackend |
| driver | Workspace, Driver | DriverChecks, Driver_proofs | MCDriver |

**Tokens** has the kinds of tokens and the tables over them.  **Lexer** is
`lexer/lexer.cc`: one action per branch of `tokenize` and of `skip_trivia`, on the
code's `pos_`, `last_significant_`, tokens and bag.  A text is a sequence of units, a
byte or a longer word of letters each, so that keywords need not be spelled; bytes
above ASCII are the lead of a sequence of two, three or four, or a tail.
`PeekNextKind` is `peek_next_kind`, the scanner that runs ahead of the first one at
the end of a line.  **LexerChecks** says what the tokens of a text are without saying
in which order they are found.

| action | code |
|---|---|
| `SkipBlank`, `EndLine`, `SkipLineComment`, `SkipBlockComment` | the branches of `skip_trivia` |
| `LexDocComment` to `LexSymbol`, `Finish` | the branches of `tokenize`, each with the function it calls |
| `MakeParser` | the constructor of `Parser` |
| `SkipSeparator`, `TakeItem` with `AddItem` or `Recover` | the three ways through the loop of `Parser::parse` |

**Parser** is `parser/parser.cc`.  Its state is a cursor: the position, the two fields
that rules set and nested rules read (`allow_struct_lit_`, `banked_gt_`), the
diagnostics, and whether a function has returned null on the way.  Each parse
function is an operator from a cursor to the cursor it leaves and a tree;
`Parse(rule, s)` is the one through which rules that contain each other call each
other.  A null result passes through every caller unchanged until a loop calls
`synchronize`, as in the code, where each caller returns at once.  Trees have a kind,
words and parts.  **Frontend** is the loop of `Parser::parse`, an item a step, and
the properties; **Grammar** is the way back, how `docs/spec/grammar.md` writes a tree,
with parentheses only where its levels ask for them.  These modules are recursive,
and stay with TLC.

**ModuleGraph** is the interface between the two halves of `resolve.cc`: the
module graph as a value, with the lookups both use (`find_child_module`,
`collect_locals`, the head of a path).  Names are an arbitrary constant set,
spans and bodies are left out because no lookup reads them.

**ImportFixpoint** says what import resolution promises without saying how: a
module may at any time bind what one of its uses denotes given what the other
modules have bound.  Its reachable states are the stages of the least fixpoint
of the re-export relation.

**ImportResolve** is the code.  The C++ stack of `resolve_exports` and
`resolve_use` activations is the variable `stack`; a frame holds the module, the
pass (public uses, then private), the use and how far its path is followed.

| action | code |
|---|---|
| `StartModule` | an iteration of the last loop of `run` |
| `EnterDone`, `EnterCycle`, `EnterFresh` | the three cases at the head of `resolve_exports` |
| `PrivatePass`, `Return` | the end of its first and of its second loop |
| `BeginUse` | `resolve_use` up to the head of the path, with its four early returns |
| `WalkSegment` | one round of the loop over the middle segments |
| `UseLocal` | members found among the target's own items, added by `add_import` |
| `Descend` | the recursive call, unless the target is the module itself |
| `UseReexport` | the second lookup after it, and the last error |

`module_imports` is a set here.  The code's lookups take the first match of a
vector; `ImportsUnambiguous` shows that there is only one.

**ModuleTree** is `build_tree` and `build_children`: a package is its files
(directory and stem) and, for each block of items, the `mod` items in source
order.  `find_file_by_path` is the choice of a file of that directory and stem.
`Graph` is the module graph it leaves; `ModuleTree_proofs` shows that it
satisfies `IsModuleGraph`, which is what ImportResolve assumes of its input: the
two machines compose.

**Desugar** is `parser/desugar.cc`, the pass that gives each shadowed binding a
spelling of its own so that later stages may look names up by spelling.  The tree
of a file is a value; the recursion of the visitors is the sequence `todo` of
nodes and scope ends ahead, `scopes` and `counter` are the code's, and `spelled`
records every occurrence of a name as rewritten.  `UsePath` is the Path case of
`visit_expr`; `DeclareKeyword`, `DeclareAgain`, `Declare` are the three cases of
`declare_named`; `VisitOr` to `OrMerge` are the stages of `visit_or`; `Visit`
stands for the visitors that only go on to their children, with the order and the
scopes of each kind in `Parts`.  **DesugarScoping** defines lexical scoping on
the tree with environments, without scope stack or marks, and the properties.
It is recursive, so it stays out of the modules with proofs.

**Driver** is one run of `alcy`: `driver_main.cc` from the parsed command line to
the exit code, with `resolve_package`, `discover_sources` and
`SourceManager::load` on the way.  Its constant is a set of workspaces, what the
program finds at the paths it can reach.  `stage` is the place in `run_build` or
`run_check`, `stack` the activations of `resolve_into`.

| action | code |
|---|---|
| `BuildPackage`, `BuildDirectory` | the manifest branch and the other one of `run_build` |
| `CheckManifest`, `CheckFile` | the start of `check_package`; single-file mode |
| `ReportCycle`, `ReportManifest`, `ResolveInto` | entering `resolve_into`: seen, unreadable or bad, good |
| `Return` | its end, and the rest of the caller's loop round |
| `Discover`, `LoadSource`, `Discovered` | `discover_sources`, one package at a time |
| `CheckBin` | the search for the bin target among the files |
| `ResolveModules`, `CheckPackage`, `FinishCheck` | the analyzer's two passes and the questions asked after each |

What the analyzer reports is a free choice here; its inside is ImportResolve and
ModuleTree, and `AnalysisInput` is what they assume of the driver.
**Workspace** makes a workspace out of a file tree: `normalize_canonical` and
`join` of `path.cc`, and which files `walk_sources` collects.  The file system
itself (`Follow`, `is_directory`) is external.  **DriverChecks** states what a
build owes to the tree rather than to the spellings: `PlaceOf` is where a path
leads, `Needed` the least set of places that holds the target's and, with each
package, all its dependencies'.  Its assumption `WorkspacesShowTrees` says that the
workspaces of Driver are views of their trees: at each directory, in whatever
spelling, the manifest of its place, the dependencies that `join` makes of those
written there and the files of a walk.

**StorageTypes** is the part of `StorageBuilder` the analyzer fills: a value `b`
of tables, and for each factory the builder it leaves and the index it returns.
Lists are runs of consecutive entries, built by appending copies, as the code's
`SeqBuilder` and `ref_type` do.  **TypeTable** is the walk of `types.cc` over
every type position.  `resolve_type` and `intern_nominal` call each other; a call
in progress is a frame of `stack`, with the expressions it has left (`parts`) and
the indexes it has (`done`).

| action | code |
|---|---|
| `InternItem`, `PassItem`, `StartSignature`, `NextItem`, `NextModule` | the loops of `process_module` (pass `Items`) and of `check_bodies` (pass `Bodies`) |
| `ResolvePrimitive`, `ResolveNever`, `ResolveSelf`, `ResolveFailed` | the cases of `resolve_type` that call nothing |
| `ResolveNominal`, `EnterNominal` | the head of `intern_nominal`: started before, or reserved now |
| `EnterParts` | the recursive calls for a tuple, a reference, an instance |
| `FinishTuple`, `FinishReference`, `FinishBlessedFound`, `FinishBlessedNew` | their ends |
| `FinishStruct`, `EndPayload`, `AddVariant`, `FinishEnum` | the two loops of `intern_nominal` |
| `FinishSignature` | the end of a signature; for a static, `contains_mut_ref` |
| `ValidateCycles` | `validate_cycles` with `has_value_cycle` |

Of the bodies only the types they write are walked; the rest of `check_bodies` is
in Bodies.  `types_equal` is the operator `TypesEqual` of StorageTypes.  Names in the tables, which messages read,
and arrays, which no type expression spells, are left out.  **TypeTableChecks**
gives an expression and a table entry each a meaning, recursively, and states
that they agree.

**Trees** has the syntax trees as records: what nodes there are of each kind, over the
patterns (`Patterns`) and the expressions (`Exprs`) of a program, sets that hold the parts
of what they hold.  **ValueNames** is what bodies are looked
up in: the value namespace, constructors, methods and fields, and, for
`check_exhaustive`, which patterns cover which values.  Its constant `Env` is what
the passes before leave of a module, the type tables included.  **Bodies** is
`check_bodies`: the recursion of the checker is the sequence `todo` of tasks, the
types it returns are the stack `vals`, the answers of `bind_pattern` the stack
`verdicts`.  A task with an expectation (`exp`, 0 for the null pointer) stands for
a call of `check_expr`; a case with operands is an action that puts the operands
in front and one that combines their types.

| action | code |
|---|---|
| `StartFunction`, `StepParam`, `StepMain`, `StartInitialiser`, `StepEndItem` | `check_fn`, `check_main`, the cases of `check_bodies` |
| `StepBlock`, `CheckDecl` to `StepDiscard`, `PlacePath` to `PlaceOther` | `check_block`, `check_stmt`, `check_place` |
| `CheckLiteral` to `CheckIndex` | the cases of `check_expr` and what they call |
| `CallOther` to `CallBlessed`, `MethodOfError` to `CallMethod` | the branches of `check_call` and of `check_method_call` |
| `CheckField`, `CheckQuestion`, `CheckStruct`, `StructUnknown` | `check_field`, `check_question`, `check_struct_expr` |
| `BindCond` to `CheckReturn` | `check_cond`, `check_if`, `check_match`, loops and jumps |
| `BindWildcard` to `StepIrrefutable` | the cases of `bind_pattern` and the use of its answer |
| `StepYield`, `StepUnify`, `StepMeet`, `StepJoin` | the calls of `unify` |

A literal is a kind, a value and a suffix, and a diagnostic its code.  A path is one
name or two; prefixes of modules, which lead to the same tables of another module,
are left out.  **BodyRuns** says what checking promises: it runs the same programs
with a recursive evaluator, which knows values and no types, and compares what
happens with what was diagnosed.  **SmallBodies** is the package and the families
of programs.

**IrStorage** is `ir::Storage` as a value: the type tables of StorageTypes with
functions, blocks, block parameters, instructions, operands, registers and
immutables, and what the builder's factories append.  `IsStorage` says what types
the tables have: any index may stand in any place.  **IrVerifier** is
`verify_storage`, an operator that yields the first error in the order of the code;
it is defined on every storage only because earlier checks guard what later ones
read, so that a check in the wrong place is an error of TLC.  The bit vector
`defined` of the code is the set of what stands before (`DefinedBefore`).  **LlvmEmitter** is
`LlvmIrEmitter::emit()` of a debug build on what the verifier accepts.  Its state
is the table `values_` from IR indexes to LLVM values, the instructions created and
the edges of the phi nodes; an LLVM value is named by the IR entry it was emitted
for, so that a lookup of the wrong entry shows.

| action | code |
|---|---|
| `Verify` | `verify_storage` |
| `SetupImmutable`, `SetupExternal` | the first two loops of `emit` |
| `NextFunction`, `CreateFunction` | its loop over functions; `create_function` |
| `DeclareBlock`, `CreatePhi` | the two loops of `emit_function` ahead of the code |
| `EmitNoop`, `EmitCompute`, `EmitMemory`, `EmitControl` | the groups of opcodes in `emit_instruction` |
| `NextLoop`, `FinishFunction`, `Finish` | the ends of the loops, with LLVM's verifier |

A failed DCHECK, an `UNREACHABLE()`, an entry never written and a type that contains
itself all end in the outcome `stopped`.  **BackendChecks** says from the IR alone
which storages can be emitted and what the result stands for, by definitions of
registers, dominance and edges.  What a branch gives the parameters of its target is
taken from `docs/ir.md:68`, operand by operand, and not from the index the emitter
uses (`LoweredEdge`).  The functions share one `values_`, and a
register that another function defines may hold what that one left: to find
something (`Resolvable`) is not to find something LLVM takes (`Usable`), which is a
constant or a value of this function.

## Runs

`MCImportResolve` (640 131 states) runs the resolver on three families of
graphs: *Mutual*, two sibling modules with up to two uses each of the other,
public or private, renamed or not (every cycle, false cycle and chain of that
size); *Paths*, chains and stars of three modules with every kind of head and
middle segment, right and wrong; *Spaces*, one name in several namespaces, three
uses in one module.  Two uses per module are enough for one to be re-exported
while the other waits, three modules for a re-export of a re-export, and three
namespaces are what the code has.

`MCModuleTree` (804 740 states) builds the tree of every package with a root
and any of five files that share names and directories, up to two `mod` items in
the root and in an inline body, and bodies nested twice: files that declare each
other, `a.al` against `a/mod.al`, duplicates, missing files, one file behind two
modules.

`MCDesugar` (166 450 states) walks every pattern of two levels over two names
(tuples, or-patterns of two and three alternatives, duplicates, wildcards), in a
match between parameters and uses of both names, and every pair of a family of
nested statements that declare, use and shadow one name through blocks, `if`,
`if` with a pattern, `else` and `while`.  Two levels are what it takes for an
or-pattern to meet the marks of another; scopes three deep for a spelling to
depend on more than the scope next to it.

`MCDriver` (74 268 states) runs every command on trees of three packages: `a` and
`b` side by side, `n` nested in `a`.  *Graphs* is every choice of manifest for each
(missing, bad, up to two dependencies on any of them, itself included, spelled
with `.`, `..`, a trailing slash), built from `.` and from an absolute path: two
dependencies make diamonds, three packages cycles of every length that a third
path can enter.  *Disks* and *Bare* vary which files exist and open and what the
bin path says.  Dependencies that climb above the top of the file system are left
out: from a relative target each round would spell them with one more `..`, and
the cycle ends as an unreadable manifest when the path is too long.  There are no
symbolic links, and a directory exists if something is below it.

`MCTypeTable` (231 824 states) types 3200 packages in three families.
*Nominals*: `A` and `B`, struct or enum, each naming the other (or itself) directly,
through `&`, `&mut`, a tuple, `Option`, `Result`, in either order, before or after a
function that uses both.  *Signatures*: 17 types as parameter, result, static and
constant of a package with an impl block, on both pointer widths.  *Paths*: every head
(`package`, `self`, `super`, a child, `Self`), imports right and wrong, duplicates,
reserved names, wrong arities.  Two nominals make cycles of length one and two, and
one entered from outside; the search treats longer ones alike.  In
`EqualityExact` the half that equality never confuses two types is for all entries;
the half that it recognises the same type excludes nominals in tuples and tuples in
instances, where the code does not (see *Findings*).

`MCBodies` (924 838 states) checks 41 235 programs over a package with two structs
(one in the other), two enums, two Results, an Option, references, a tuple and `!`.
The families: every expression one operator deep over 26 atoms and the important
ones two deep, against every kind of result; every match of up to three arms on
bool, two enums and a Result, and of two on four other types, with patterns that
fit and do not;
patterns in declarations and parameters; conditions, branches, loops and jumps in
each other; assignments to places; pairs of items, one after a faulty one; forms of
`main`.  `AcceptedRuns` runs each accepted program with every value that functions,
statics and parameters can have and loops of up to two rounds (`Rounds`): what goes
wrong in a program of this size does so in the first round or after the second has
seen what the first assigned.  Two levels are what it takes for an expectation to
pass through one operator into another.  The evaluator excuses three constructs
the checker is known to misjudge: calls of associated functions, assignments to
places not in structs all the way, and functions of type `!` that return.
`FlatMatchesExact` is for patterns that decide by literal or variant alone; on
others the code only promises a bounded analysis.

`MCBackend` (53 173 states) takes nine programs (straight code, a diamond, a loop, a
switch, calls, memory, aggregates, moves of moves, two functions that share a
block) as the builder makes them, and every storage that differs from one of them in
one entry, and in two for the entries of the flow: 4953 in all.  Of them 2685 are
rejected, 1571 stop the emitter and 697 are emitted.  The changed entries keep to their LLVM type, since LLVM's own type rules
are not modelled.  One change is what a wrong index is; two let a branch and its
target change together.  `LoweredFaithfully` says what phi nodes get only for
the block whose parameters come first in the table: the others get something else,
as the run `branch_arguments` shows with the same storages.

`MCFrontend` (1 173 933 states, 79 802 texts) has three kinds of files.  Raw texts:
families of up to five units each that bring together the units of one part of
the lexer (line ends with comments, numbers, symbols, quotes, escapes, broken UTF-8),
with every order of them.  Written files: all types and patterns of two levels, all
expressions with every operator inside every other and inside the postfix,
block-like and range forms, every pair of statement forms and of item forms, with
line ends and with `;` between statements.  Broken files: up to four tokens in every
order where an item, a statement, a literal, a match arm or a type is
expected; and up to three tokens, balanced, in every header of an item, in front of
a good item.  Two levels show every precedence; three tokens are the furthest that
one rule of the parser looks.  The tokens, diagnostics and trees of these texts were
compared with those of the compiled lexer and parser, and are the same.

`LinesSeparate` claims nothing inside brackets, where the lexer inserts separators and
`grammar.md:14-19` has none, nor of a line that starts with a range.
`RestIsParsedPast` is `RestIsParsed` for files without an error at a closer or at the
end; the run `hidden_rest` shows why.  `ReadAsWritten` leaves out what *Findings* says
the parser reads otherwise.

All eight check deadlock: the only state without a successor but itself is the
last one.  Four runs look for and find a violation of what a comment or a document
promises: `MCQuestions`, `MCBranchArguments`, `MCHiddenRest` and
`MCNestedArguments`; see *Findings*.

**Fairness.**  The compiler is one thread that runs to its end, so the
specifications with a liveness property (`Termination` of imports, tree, driver and
types) assume `WF_vars(Next)`: the program does not stop in the middle.  Nothing else
is assumed; a step that repeated forever would violate `Termination`.  The front
end needs no fairness: `StepsConsume` is an action property, each step of
the parser moves on.

## What is proved

For every set of names and every module graph or package, not only the checked
ones, with the assumptions `PackageNameAssumption`, `FamiliesAssumption` and
`PackagesAssumption` (the input is a module graph, a package):

* `TypeCorrect`: no index is ever taken from `kNoModule`.
* `GroundedCorrect`, `UnambiguousCorrect`: imports point at declared items, and
  each name means one thing.  Both are inductive with the type invariant; the
  step lemma `ImportsChange` says that a step adds to one module's imports only.
* `ActiveOnceCorrect`, `ReadsCompleteCorrect`, `DoneIsFinalCorrect`: the
  recursion (no module is being resolved twice at once, a read of exports that is not
  reported as a cycle sees all of them, and what is done does not change).
  `ActiveOnce` is not enough by itself: `CallChain` adds that each frame below the top
  waits for the module of the frame above it, and `TargetDone` that a frame past its
  call finds the target done.
* `RefinementCorrect`: `Spec => RefinesFixpoint`.  Each step is a stutter or a
  `Bind` of the top frame's module; `FramesOnPath` keeps, for each frame, that
  the module reached is the one its path prefix names.
* `EveryUseAccountedCorrect`, `ErrorFreeCompleteCorrect`: at the end no use is lost.
  Both are about the end of a run, so the invariant behind them (`UsesSettled`) says
  what is settled in the middle: in a module that is done, every use; in a frame, the
  uses its two passes are behind.  A use is settled when it has a diagnostic, or an
  import of its name and, once the module its path names is done, all that the path
  denotes there.  That survives other modules' steps because what is done
  is final unless a cycle was reported (`DoneKept`), and a report is a diagnostic.
* `TreeTypeCorrect`, `YieldsModuleGraphCorrect`: the tree.  `BuiltOnce` (a module
  is in the worklist, being built or behind it, once) and `TreeShape` (children
  of one module have labels among the names seen) make unique child names
  inductive.  `EveryModAccountedCorrect` follows from `AllAccounted` (the items behind
  the position of the module being built, and all items of built modules),
  `UnreachableWarnedCorrect` from `MarkedReached` (a file is marked when a module
  has it, and not otherwise) and `WarnedAtEnd`.  `NoFileRecursionCorrect` rests on
  `DirsNested` (an inline module has its parent's directory, any other the one its own
  file spells, one name longer than its parent's); ancestors are a recursive function,
  so the proof first shows that it is defined.  It needs `NameAssumption`: the stem `mod` is not a name,
  being a keyword of the lexer.
* The driver (`Driver_proofs`, from `WorkspacesAssumption`: paths lead to
  directories and files of the workspace): `TypeCorrect` and
  `VisitedIsPathCorrect` by one invariant, because a dependency index stays in
  range after a return only if the caller was at a dependency;
  `ResolvedIsClosedCorrect` by `FrameClosed` (an activation holds its own package,
  what its earlier dependencies need, and nothing else) and `MergedClosed` (a
  return keeps that); `ExitTellsErrorsCorrect`; `AnalysisInputCorrect`.
* Packages in a file tree (the second half of `Driver_proofs`, from
  `WorkspacesShowTrees`, `PartAssumption` and `CwdAssumption`: any tree, any depth, any
  spelling, any graph).  `NormalizeKeepsPlace`: a canonical path leads where the parts it
  was written with lead, because a `..` that cancels a name follows that name, and one
  that is kept has no name before it; from it, `join` leads where the dependency leads
  from its package (`JoinPlace`).  `PackagesShareNoFileCorrect`: a file below two
  packages at different places would put each of them on the way from the other to the
  file (`NestedApart`), so each place would be longer than the other.
  `ResolvesExactlyCorrect` rests on two invariants.  `FoundInv`: what an activation has put
  together is needed, and what it has finished is on no cycle of places; a package met
  again on the path closes a cycle (`PathNeeded`: what is below it on the path is needed
  by it), and a package of which no dependency is on a cycle is on none (`CycleGoesOn`).
  `CountedInv`: every package of a result but the first stands for one dependency of
  another one, and every dependency that has been followed has exactly one that stands for
  it; a merge shifts the callee's behind the caller's (`MergedCounted`).  The two sets are
  then equally large at each place, by a bijection (`AsManyAsUses`).
* The type registry (`TypeTable_proofs`, from `TypeExprAssumption` and
  `FamiliesAssumption`): `IndicesInBounds`, `NominalsInternedOnce` and
  `TablesOnlyGrow`, by one invariant, `IInv`.  The first half of the module has one lemma
  per factory of the builder: from valid tables it makes valid tables that keep every
  earlier entry, and returns the index of an entry, a new one when it reserves a nominal.
  `IInv` then says of nominals, instances, calls in progress and signatures that their
  indexes fit the tables, and a part a step does not touch is carried over by the
  tables' growth alone.  Three things had to be added to what is claimed.  The two
  reference types that exist from the start have no pointee, so a list may name any
  entry but a copy of these (`Idx`).  An enum's variants are appended one by one
  between other steps, so its call holds a run within the table (`FrameFits`).  And a
  nominal that is complete has no call left (`StackOnce`), or its contents would be
  filled a second time.
* The bodies (`Bodies_proofs`, from `FamiliesAssumption` and `PatternsAssumption`: the
  programs are trees of nodes, each with the parts its kind has): `ItemsStartClean`.
  It speaks of the moments between two items only, so the proof has to follow the checker
  through everything in between, by counting.  A level says how many scopes and
  loops are open, how many types and answers wait to be used, and whether a function is
  open.  `Step` says by how much one task changes the level and what it needs there: a
  `Pop` takes a scope, a `Combine` the types of its operands, an `Irrefutable` an answer.
  The invariant, `Counts` (`CountsCorrect`), is that the tasks of `todo` lead from the
  level of the state to zero.  An action keeps it by replacing its task with tasks that
  lead from the new level to where the old task led; `Net` and `Uses` say that of the
  lists of tasks the cases of `check_expr` put in front, among them the mapped and
  flattened ones of arguments, arms and struct fields, and the error paths that drop
  what they no longer need.  Nothing is assumed of types or of names: the count holds
  whatever the tables say and whatever was diagnosed.

* The back end (`Backend_proofs`, from `StoragesAssumption`: the tables have their
  types): `EmitterReadsInsideCorrect`, `LoweredFaithfullyCorrect` and
  `PhisCoverEdgesCorrect`, for storages of every size.  First, what `verify_storage`
  accepts has the facts of `Verified`: ranges within the tables, blocks with one
  terminator at their end, registers defined once, operands that exist in the shape of
  their opcode, types and parts of types that exist (`VerifiedIfOk`).  With what the
  loops have left (`Work`) that is `ReadsInside`: the entries that `emit` and `type()`
  read next exist, although neither checks an index.  It leaves out what nothing
  verifies: the signatures of external functions, pointees, and the arguments of a
  branch that has too few of them or whose target is not the block with the first
  parameters.  Next, what a register stands for.  `Meaning` is a recursion
  along Moves and casts, with no order that a storage would have to respect, so nothing
  can be shown of it by unfolding alone: `StandsFor` is the least set of pairs of
  register and symbol closed under copying, each register has at most one
  symbol in it (`StandsOne`), and where it has one `Meaning` yields that
  (`MeaningIs`).  The invariant is then about `values_`: each entry is null or
  `Held`, what its index stands for, as some function up to the current one gave
  it.  An emitted instruction only copies such entries, so its arguments are held too;
  and when LLVM accepts the function, a value that belongs to a function belongs to
  this one (`AcceptedArguments`), which makes it what the operand means here.  That
  the tables may be stale until then is why the invariant is weaker than the property.
  For the phi nodes, `PhisCreated` keeps what the second loop wrote until the branches
  are emitted, since no instruction defines a parameter's register, and `EdgesFit` has
  one edge for each branch and parameter, since a block has one branch.  The invariant
  has these edges as the emitter takes them (`TakenEdge`); that they are the
  positions of `docs/ir.md:68` holds where the two agree, for the block whose
  parameters come first (`TakenInPosition`).

* The lexer (`Lexer_proofs`): `TokensTileCorrect`, of every text of any units.  The
  theorem is about `Start` and `Lex`, not `Frontend`'s `Spec`: that one's steps on these
  variables are steps of `Lex`, but it reaches the parser's RECURSIVE operators.
  Each scanner is a function of a position that asks for later positions only, so it is
  solved from the text's end backwards (`Backward`): it has a value everywhere, and what
  holds where it stops holds where it started.  The invariant says that the tokens are
  in order, that from each token to the next, and from the last to `pos_`, there is
  trivia only (`TiledAt`, `GapAt`), and that the diagnostics are as many as the error
  tokens and each has its own (`ReportedAt`).  `BodiesScanned` and `CommentPassed` show
  that a counter of open comments, which is what the code has, stops at the end of a
  comment as `CommentEnds` nests them.  A literal that ends in a backslash is the one
  that passes the end of the text, by one; after it the lexer is done.
  `LongestMatchCorrect` is about the tokens one by one.  Of literals it needs that the scan
  only looks at positions behind an even number of backslashes (`Quoted`): an escape
  takes two units, or ends in a brace.  `LettersAssumption` has the units of letters
  apart from the others, and the marks of bases among them.
  `LinesSeparateCorrect` relates the two scanners, `peek_next_kind` at the end of a line
  and the lexer that comes after it.  Its invariant (`LinesAt`) holds until there is a
  diagnostic and has three parts: what was seen from the end of a token is what is seen
  from the next one on, line ends and doc comments apart (`SeesAt`, `SeesOn`); each
  token tells what was seen at its start (`Tells`: a range is seen as a dot, anything
  that does not continue a line as an identifier); and from each token to the next, and
  from the last to `pos_`, there is one `;` or none as the property says
  (`SeparatedAt`, `SeparatedOn`).  That a skipped comment ends no line needs one reading
  of trivia: `OneCommentEnd`, the converse of `CommentPassed`, and `TriviaMeets`, trivia
  from the same position up to two others is trivia from the first of them to the second.
  The invariant says of every line end what the lexer does (`SeparatesAsRead`), inside
  brackets and before ranges, too; the property keeps of it what the grammar promises.

The type invariants of the tree and of the driver, `VisitedIsPath`, `ResolvedIsClosed`
and `ActiveOnce` are proved and no longer checked by a run.

`NatInduction` has induction over the naturals for all of these, stated of sets of
numbers: the library's theorems take the induction hypothesis as an operator, which the
provers cannot instantiate, but a set of the numbers that have the property does as
well, by well-foundedness.

Model-checked only:

* what compares with a RECURSIVE operator, which the provers cannot reason about: what
  Desugar is compared with, `TypesAsDeclared`, `EqualityExact` and `DiagnosedExactly`
  (recursive meanings of types), `AcceptedRuns` and `FlatMatchesExact` (a recursive
  evaluator), everything about the parser (its rules are RECURSIVE operators, and so
  are the trees);
* the back end's `EmittedExactly`: `Dominates` has to be shown to be what the rounds
  of `ReachedAvoiding`, a fold, arrive at, and nothing is known of a fold after as many
  rounds as there are blocks without counting the blocks it has found;
* the liveness properties, which are out of the prover's reach.

## Findings

Imports and modules (no run):

* A private use can look into a module whose public pass is under way and gets a
  false "dependency cycle in re-exports"; `ErrorFreeComplete` speaks of runs without
  errors, where this does not happen.
* A `self::` re-export sees only the uses above it and may bind one of two
  meanings without a diagnostic: `ErrorFreeComplete` excepts it.
* `pub` on items is parsed and never read: a use imports private items of any module.
* The test "Resolve reports re-export cycles" does not reach the cycle branch,
  and the dash in a package's name is not normalised.
* `alcy build` accepts a manifest without bin targets, `alcy check` refuses a
  directory without manifest; `docs/spec/modules.md:29-32` says the opposite of
  each (the guards of `BuildPackage` and `CheckFile`).

Names, types and bodies:

* A later alternative of an or-pattern may repeat a name (`x | (x, x)` is accepted),
  and an or-pattern nested in one is refused though it binds the same names
  (`x | (x | x)`); `ReportsIllScoped` shows that these two shapes are the only ones
  judged wrongly.
* A comment in `unify` says that equality is structural, but the type `(A, i32)`
  written in two signatures makes two types that `types_equal` tells apart, because
  slots are copies and nominals are compared by index (no run; `EqualityExact` holds
  with these types left out and fails with them).
* `let x: Self` in an impl body is refused: `check_let` resolves with no `self`
  (`types.cc:2981`), where `docs/spec/grammar.md:54` says that `Self` denotes the
  implementing type inside impl blocks (`SignatureParts` gives the body no Self; no
  run).
* A unit variant's bare name counts as a wildcard, so that `match v { Yes => 1 }` is
  accepted whatever other variants there are (no run).
* `QuestionsInFunctions` fails: `fn_ret` stays that of the last function, and `?` in
  an initialiser after it is compared with it.
* Read off `Bodies`, no run: a variant pattern with an irrefutable part passes for
  irrefutable in a declaration (`StepVerdict`); or-patterns that bind names are
  refused even if they bind the same (`BindOr`); the first parameter of an associated
  function cannot be passed (`Skipped`); a match over a Result or Option needs a
  wildcard even if both variants have arms (`NonExhaustive`); a function of type `!`
  may return any value (`Unified`); a place in a reference or tuple is an error that
  nobody reports (`PlaceOuter`), like an unknown variant in a pattern
  (`BindUnknownVariant`); a struct in a field slot is a copy without nominal, so that
  `q.p.x` is an unknown field (`FieldSlot`).
* A body's signature is resolved a second time by `check_fn`, and what is wrong in it
  is diagnosed twice; `diags` is a set and does not count.

The back end (but for the first read off `LlvmEmitter` and `IrVerifier`, without a run):

* `BranchArgumentsInPosition` fails: the argument of a block parameter is taken at its
  index in the table of all parameters (`ArgumentOf`), where `docs/ir.md:68` says
  positionally.  Only the block whose parameters come first in the table gets what its
  branches pass; in `Joins` of SmallStorages, a verified program that LLVM accepts, a
  phi node of the other block gets an operand of the instruction that follows.
* The verifier runs after everything was read, and after LLVM's, where `docs/ir.md:54-55`
  says ahead of it; the model asks it first, as the document has it, and so shows
  what a caller can rely on.
* A switch case of a float type verifies and stops the emitter; so do unsigned types,
  the types of external functions and pointees outside the table; two functions may
  share blocks, which are then emitted into both.

The front end (each seen in the compiled program, too):

* `ArgumentListsClose` fails: after an inner list took one half of a `>>`, the outer
  one goes on behind a comma: `x as (A<A<i32>>, i32)` is read as `A<A<i32>, i32>`.
* `RestIsParsed` fails: `synchronize` takes a closer it starts at, and in
  `mod x{fn};fn f(){}` with it the module's own brace.
* Read off the model, no run: `if` and `while` with `:=` cannot be statements, because
  the scan for `:=` takes them for declarations; the initialiser of such a condition
  takes the body for a struct literal; a struct literal in parentheses is refused in
  a condition; struct patterns cannot be declared; `-1` as a pattern is kept as `1`;
  a leftover half of `>>` before another `>` drops the item without a diagnostic, and
  one in a variant's type closes a later list; `use a::;` and `A<>` are accepted; line
  ends insert separators inside brackets; a line that starts with `..` continues the
  one before; `..` never takes an endpoint; constants take any expression; `()` is no
  expression.

## Plan

1. ImportResolve with ImportFixpoint: done, proved.
2. ModuleTree, composed with 1: done, proved.
3. Desugar against a reference scoping, with the or-pattern rules: done, checked.
4. The type registry: interning, generic instances, equality, value cycles: done,
   checked; `IndicesInBounds`, `NominalsInternedOnce` and `TablesOnlyGrow` proved.
5. Bodies, with patterns and matches, against a reference evaluator: done, checked;
   `ItemsStartClean` proved.
6. The verifier and the emitter, against what the IR means: done, checked;
   `ReadsInside`, `LoweredFaithfully` and `PhisCoverEdges` proved, `EmittedExactly` not.
7. Package resolution, sources, pipeline and driver as one machine: done, proved.
8. Lexer, parser and recovery, against the grammar: done, checked; `TokensTile`,
   `LongestMatch` and `LinesSeparate` proved.

## Not modelled

* Diagnostics (`diag`): the bag is append-only and each model keeps what it needs of
  it, a code and a place; that labels are added by index after it has grown, the wording,
  the spans of nodes and the text rendering are left out.
* Command line, `alcy new`, logging, assertions and the file system: I/O and formatting.
* The arena of the syntax tree, and lifetimes in general: a value of TLA+ has none.
* The wrap of 32-bit indexes and sizes, which would take texts and tables of 2^32
  entries.
* Of the emitter: release builds, which go on where a debug build stops; which LLVM
  instruction an opcode becomes; LLVM's type rules and constant folding; values of
  immutables.
* Of the IR: the setters that nothing calls, names, flags and calling conventions; the
  lockfile of `pkg`, which only tests call.
* Of the parser: how the spelling of a literal becomes a value.
