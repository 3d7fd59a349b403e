# A TLA+ verification of C++Py-Tree

This directory holds TLA+ models of the program `tree` (C++Py-Tree), the TLC
configurations that check them on small instances, and theorems about them
checked by TLAPS.  Paths below are relative to the repository; line numbers are
in `PROJECT.json` ("map").

`tree` is one sequential process.  It parses *tree expressions*, such as
`P(.x=Q() .y=A())`, into an AST, and gives the AST to an extension function
loaded with `dlopen`: a printer, or an *AST type library* (`abc`, `cxxpy`) that
type checks the expression against its class definitions and builds a typed AST
from it.  There are no threads, messages or files written.  What is hard in this
code is not concurrency: it is memory handed out by bump allocators with
rollback, calls of several steps that fail half way, a hand-made stack whose
arguments are popped by destructors that run, or do not run, when exceptions are
thrown, unchecked casts that rely on an earlier check, caches and counters taken at
one moment and used at another, positions kept up piece by piece, file descriptors
that are closed by destructors, and a command line that is parsed again, and
rewritten in place, for each input.

## 1. Inventory

| Component | State | Operations | What must be right |
|---|---|---|---|
| **Pool allocator** (`src/grammar/ast-base.*`, `PoolAllocator`) | a block of bytes, `ptr`, the table `ptrs[0..nptrs-1]` | `allocate`, `rollback`, `find`, iteration, destructor | objects inside the pool, aligned, disjoint; table sorted; only the newest is given back |
| **AST factories** (`BaseAST`, `ast-base-impl.hpp`, `tree/ast.*`, `tree/abc/ast.*`) | two pools (nodes; strings and arrays), `root`, `n_treenodes` | `new_<class>`, `alloc_arg`, `new_list`, `root_node`, destruction | references to live, older nodes of the same AST; a failing call leaves no half-made node; leaks bounded |
| **Lexer** (`tree/parser.cpp`, `grammar/parser-base.*`) | `input_ptr`, `pos`, `tok`, `prev_tok`, `arg_ctxt` | `next_token`, `skip_spaces`, `scan_literal`, `verror` | the tokens are the text; positions exact; every error can be shown; no pointer leaves the input |
| **Parser** (`tree/parser.cpp`) | the call stack, `ast` | `parse_<symbol>` | accepts exactly the grammar; the AST says what the input says |
| **Evaluator** (`tree/eval.*`) | the object stack, `TypeCheck::narg_error`, the cache of `find` | `visit` of each node class, `check_node_args`, `check_list_args`, `pop_args`, `find` | accepts exactly the well-typed trees; stack balanced; the class found is the one named |
| **Makers** (`tree/eval-impl.hpp`, `tree/abc/abc.cpp`, `tree/cxxpy/cxxpy.cpp`) | the typed AST | `new_node<class>`, `new_list<class>`, `cptr_cast` | unchecked casts are right; the typed AST is the tree |
| **Extension loader, main** (`include/sys.hpp`, `sys.cpp`, `tree/tree.cpp`) | `handle`, `mod_func` (static), the options | `run_ext_func`, `load`, `unload`, the loop over inputs | loaded once; an error stops everything |
| **Options** (`options.*`, `tree/opts.*`, and in `tree/tree.cpp`, `tree/printer.cpp`) | static objects, `argv`, `ext_argv` | `parse`, once for `tree` and once per input for the extension | parsing again changes nothing |
| **Buffers and files** (`sys.*`) | `file_t::desc`, `mem_t`, the descriptors of the process | `file_t`, `read_regular`, `read_stdin`, `~file_t` | no overrun; the whole input or an error; size limits; descriptors closed |
| **Printers** (`tree/printer.cpp`, `tree/*/printer.cpp`, `ast-base-printer.hpp`) | `indent_level` | `print`, `dump`, `pretty_print`, `terse_print` | what is printed parses to the same tree |
| **Type library `cxxpy`** (`tree/cxxpy/*`) | five tables of its classes | makers, `cptr_cast`, printer | the tables agree |
| `std-ext`, generated visitors, demangling | none of their own | | pure functions |

Interactions.  `main` makes a `Parser` for each input; the parser calls
`new_<class>` on a `TreeAST::AST` and sets its root; the AST goes to the loaded
extension; a type library makes an `Evaluator` over a `TypeMaker` or a
`NodeMaker`; a `NodeMaker` calls `new_<class>` and `new_list` on its own AST.
All of it is by plain calls; errors are exceptions caught in `main`.

The hazards, each at its line with the properties that cover it, are listed in
`PROJECT.json` ("hazards").

## 2. Plan

In order of importance; "done" is what is in this directory now.

| # | Modules | What | State |
|---|---|---|---|
| 1 | `PoolTable`, `PoolAllocator`, `ObjectArena` | the allocator with its table, and the arena it promises to be; proved | done |
| 2 | `NodeClasses`, `BaseAST`, `TreeStore` | AST factories over two allocators, and the store they promise to be; proved | done |
| 3 | `Evaluator`, `EvaluatorTyping`, `EvaluatorAst`, `AbcLibrary`, `CxxpyLibrary` | the stack evaluator and the makers, a typing without a stack, and what the AST is to be, for both libraries; `Evaluator` proved, and that it decides the typing | done |
| 4 | `Parser`, `ParserGrammar` | the parser over lexemes, and the documented grammar; `Parser` proved, that it decides the grammar, and that its AST says the input | done |
| 5 | `Options`, `Program`, `ProgramAsked` | inputs, extensions loaded once, options parsed again for every input, exit codes, and the obvious reading of a command line; proved for the lines that are read the same way each time | done |
| 6 | `Lexer`, `LexerTokens` | characters to lexemes, comments, literals, positions and the assertions of `verror`, and what tokens of a text are, said without a scan; proved | done |
| 7 | `InputFiles` | files, devices and the standard input read into a buffer, one input after the other; proved | done |
| 8 | `SourcePrinter`, `LibraryPrinter` | source printing, read back by 6; what a library prints of its AST, read back by 3 | done |
| 9 | `ClassTable` | the cache and the bisection of `BasicMaker::find`; proved | done |
| 10 | `TreeProgram` | 6 to 4 to 3 composed over characters | to do |

Abstract specifications: `ObjectArena` (a stack of disjoint runs of bytes),
`TreeStore` (a growing store of nodes that refer to older nodes; implemented by
`BaseAST`, used by `Evaluator`), and four references that are not
state machines: the tokens of a text in `LexerTokens`, the grammar in
`ParserGrammar`, the typing in `EvaluatorTyping` and the reading of a command
line in `ProgramAsked`.

Theorems, in order: the safety of the allocator, its refinement of the arena and
its `find`; the reading of input files; the lexer's pointers, positions and
errors, and that its tokens are the text; the lookup of classes; the AST's heap,
strings and arrays, the count of tree nodes and the refinement of `TreeStore`; the parser's stacks and the tree it
makes, its language and what its AST says; the evaluator's stack, its use of the store, its casts and its outcome; that
the program does what its command line asks for (all done).

## 3. Modules and code

A definition that ends in `_slip` is the definition after it with one plausible
mistake.  No action uses it.  With it in place of the right one, a run finds a
property violated: `PROJECT.json` ("mutants") says which, so every property is
known to be able to fail.

### `PoolAllocator`: `AST::PoolAllocator`

`ptr` and `ptrs` are the members of the same names (`nptrs` is the length of
`ptrs`).  `made` is auxiliary: size and alignment of each object, which the code
does not keep.  `raised` is the exception of the last call.  `cursor` is the
loop variable of the destructor.  `Allocate` and `AllocateThrows` are the two
ways through `allocate`, with the checks in the code's order and `size_t`
arithmetic modulo `SizeMax + 1`; `Rollback` and `RollbackThrows` those of
`rollback`; `Destroy` and `DestroyNext` are the destructor, a step per object.
`find` is the operator `FindIndex`, linear below `LinearLimit` (10 in the code)
and by the bisections of `std::equal_range` from there on, a function of the
ranges of the table whose body is `Turn`.  `PoolTable` has what concerns the table
alone, so that theorems about it serve every pool.

### `BaseAST`: the factories

Two instances of `PoolAllocator`, `NodeAlloc` and `RawAlloc`.  `heap` is what the
constructed nodes contain, `arrays` what `new_list` has made.  A call
`new_<class>(...)` is several steps, as in C++: `Call` chooses the arguments;
one step per `alloc_arg`, in any order, because C++ leaves the order of
evaluation of arguments open; the allocation of the node; its constructor.  Each
can throw, and what was done before stays done, except the node's memory when the
constructor throws.  `Strangers` are addresses that belong to no node of the AST.
`Reachable` is the least set of nodes closed under references.  `ASTAssumption` asks
what C++ sees to: pools that are not at address 0 and whose size is a `size_t`,
a pointer size that is a power of two up to 16, finitely many classes.
`NodeClasses` has the class tables of `tree/ast.hpp`, `AbcLibrary` those of
`tree/abc/ast.hpp`.

### `Evaluator`: `Obj::Evaluator`, `TypeCheck`, `TypeMaker`, `NodeMaker`

The C++ recursion over the tree is the sequence `todo`; the object stack is
`stack`, its top first; `store` is the typed AST, with the addresses abstracted
to places; `narg_error` is the flag that decides whether arguments are popped.
One action per kind of visit, and one for each maker's call, which takes in the
checks, the pop done by the destructor of `auto_t` and the result pushed.  `mode`
chooses the maker, `strict` the cast rule.  `TreesAssumption` says what the classes
of `tree/ast.hpp` have a tree expression be, whatever its depth (`Trees` holds the
`TreeNode`s within those it holds); `LibraryAssumption` what any library's tables
are.  `SizeAfter` are the sizes that the stack will have after each of the items of
`todo`.

The classes of a library are written three times in the code, and so here:
`Types`, the type definitions by which the evaluator checks arguments; `Makers`,
the casts that `new_node<class>` makes of what it finds on the stack, by place;
and `AstClasses`, the C++ classes with their constructors.  `AbcLibrary` and
`CxxpyLibrary` have these tables.  `EvaluatorTyping` defines what a well-typed
tree is from the C++ classes alone, without a stack: `CallIsRight` is what the compiler
would ask of one constructor call, and `Typing` the trees of which that holds all the
way down; and it asks that each cast of a maker be one that C++ would allow.
`EvaluatorAst` says what the AST is to be.  Three assumptions of `EvaluatorTyping` say
what a library has to get right for that, by itself, without any evaluator:
`HierarchyAssumption`, no class is its own base; `TypesAgree`, the definition of a class
has the fields and the bases of the C++ class; `MakersAgree`, its maker takes each
argument for what it is, cast to a class that every value of the field has.  Nothing in
the code enforces the last two.  TLC evaluates all three on `abc` and on `cxxpy` and finds
them true; a definition, a maker and a class that disagree would be found out there.

### `Parser`: `Parser::Parser`, over `BaseParser`

`todo` is the call stack of the `parse_<symbol>` functions, `vals` their local
variables, `tok`, `prev` and `arg_ctxt` the members.  `Body` gives the calls of
the functions without a choice; `NodeArgs`, `ArgValue` and `TurnLoop` are the
choices by lookahead and the loops; `NeedToken` is `need_token`, with the call of
`next_token` inside; `NewNode` is a `new_<class>`.  The input is chosen lexeme by
lexeme as it is read, so every input up to `MaxLexemes` is covered and none is
carried around.  The lexeme `list` is the one whose token depends on the parser's
state.  `bad` stands for characters that make no token.

### `Options`, `Program`: `main`, the options, the extensions

`argv` is the one array that all parse and rewrite; `cmd` is what it was at
first.  Its elements are options (with their argument), `--`, texts that are
paths, and null pointers.  `main` and `lib` are the options objects of the
program and of the extension it calls, both static in the code, so that a new
call starts from what the last one left.  `Parsed` and `ParsedArgs` are
`options_t::parse`: what it leaves in the object and what in the array, where
`dirname` cuts `argv[0]`, `getopt_long` moves options to the front and `parse`
puts the name of the extension in the place of the `--`.  `ParseEnds` tells
whether it returns, throws, ends the program, or reads a null pointer.  The loop over
`getopt_long` is the function `Turns`, and what `getopt_long` selects the function
`Select`, both of how far they have come, so that they can be proved about.  `Words`
is all that paths and options can be made of.

`mainFunc` and `nodeFunc` are the functions loaded by the two instances of
`run_ext_func`, static too.  `ParseMain`, `NextInput` and `Run` are `main`, its
loop and the call; `LibParse` is the first line of every extension; `PrinterAct`,
`TypelibAct` and `RunNested` are the entry points of the tree printer, of a type
library and of a library's printer; `UserFunc` any other extension, which may
fail.  `runs` is auxiliary: what was done, in order.  `ProgramAsked` computes
what should be done from `cmd` alone, and says which lines are *plain*
(`IsPlain`): without a second `--`, or with one input, or with a type library that is
not asked to call an extension.  Two assumptions say what lines and functions are:
`LinesAssumption`, `argv[0]` is a path, no argument is null, and what `-F` names is not
the function of a library's printer, which has another type; `ModulesAssumption`, a
function by the name of one of the tree printer's is that function, or the one of the
same name of a library.

### `Lexer`, `LexerTokens`: characters to tokens

Pointers are offsets into `input`, and `Limit` is `input_end`.  Characters are
known by their kind (`Blanks`, `Marks`, `Uppers` and so on): the code asks nothing
more of them.  `SkipSpaces` is `skip_spaces`, the actions from `EndToken` to
`OpenLiteral` are the branches of `next_token`, `Escape`, `CloseLiteral` and
`LiteralError` the turns and ends of `scan_literal`, `Verror` is `verror` with
the option `--verbose`, over the lines of `build_ln_ptrs`, its assertions
included.  `debug` is a debug build that was asked to dump tokens: it moves
`input_ptr` beyond the newline that the constructor has taken off the end, and
asserts that a lexeme fits its column.  The parser is anyone who asks for tokens
and refuses one of the last two (`AskToken`, `RefuseToken`); which it refuses is in
`Parser`.  `toks` keeps all tokens given, where the code keeps two.  `LexerTokens`
says what a token of a text is, and what a text may have between tokens, by
conditions on stretches of the text.

### `InputFiles`: `file_t`, `mem_t`, and the constructor of `BaseParser`

`mem` is the buffer with all of its capacity, `d` how much of it is input; a byte
is known by its place in the file or stream.  `open` is the process's table of
descriptors, which `Open` (the constructor of `file_t`) and `Close` (its destructor)
change: `-` is descriptor 0, and a file that is opened when 0 is free gets 0.
`Stat` and `ReadRegular` are `read_regular`, `ReadChunk` and `KeepChunk` a turn of
the loop of `read_stdin`.  `ChangeFile` is another process that writes to the file
between `fstat` and `read`; a `read` gives any number of bytes up to what was
asked, or fails.  `main` goes on to the next input after each.

### `SourcePrinter`, `LibraryPrinter`: what is printed, read again

`PrintNode` and the operators before it are the visits of class `SourcePrinter`,
with `level` for `indent_level`; the text they give becomes the input of `Lexer`,
whose tokens are compared with the lexemes of the tree: `ReadsBack` for what can be
read again, `PrettySaysInput` for what the documentation promises of all input.  The
literals are those that the parser can make (`LiteralStrs`).  `LibraryPrinter` prints the AST that
the evaluator has built, by the tables `AbcPrints` and `CxxpyPrints` of the two
libraries' printers, as a tree expression, which the typing of `EvaluatorTyping`
must accept and find to say the same AST.

### `ClassTable`: `BasicMaker::find`

`cache` is the static variable, `first` and `len` the range that
`std::equal_range` has still to search; `Before` is `strcmp` on strings as
sequences of characters.  `AbcNewFuncs` and `CxxpyNewFuncs` are the tables; both
makers of a library have the same names in the same order.

## 4. Runs

| Run | Question | Bounds, and why they are enough |
|---|---|---|
| `pool_mixed` | are objects in the pool, apart, aligned; does `find` agree with the table; is it an arena? | 4 objects, 20 bytes from an address aligned to 4 and not to 8; requests of 0, 1, 3, 4, 8 bytes, larger than the pool, and at `SizeMax`, with alignments 1 to 8: every exit of `allocate` is taken, each check at its boundary, and padding of every size. `LinearLimit` is 10 in the code and 2 here, so that `find` compares 0 and 1 objects one by one and bisects 2 to 4, in tables that rollbacks have shortened |
| `ast` | are references, table and raw blocks right, and leaks bounded; does `num_treenode` cover the tree; is the AST a store that only grows? | five classes of the tree AST and four of `abc`, one of them with a node, a list and a string together, whose constructor may throw; up to 4 nodes that nearly fill their pool, 3 raw blocks of which few fit, one shared array, one failing call, one address of no node. `Spec` lets an AST mix the classes it is given; the constraint `OfOneLibrary` keeps each behaviour to one library, as every AST of the program is |
| `eval_abc` | are outcome and stack right, and is the typed AST used as it is meant to be? | all trees of `MCEvaluator`: right ones, and every error the evaluator tells apart in each position, nesting of three levels; both makers, both cast rules; an AST that can run out of memory |
| `eval_bool` | does the type check decide the type constraints? | as `eval_abc`; expected to be violated (section 7) |
| `eval_cxxpy` | do the tables of `cxxpy`, its printer's included, agree, and are its trees evaluated right? | for each of its classes, the simplest right tree, and in each place of it a value of every class, as a node and as a list, and every kind of literal; the maker that builds the AST, under both cast rules |
| `parser` | language, error position, tree, termination | every input of up to 22 lexemes with one lexeme of each type (and an index that is too large): lists with an element, nested nodes and up to four arguments; 14 nodes, so that some inputs exhaust the AST |
| `program` | is what was asked done, for each input, and told by the exit code? | about 27,000 command lines: up to three arguments of the program (inputs that are good, wrong, ill typed under strict casts; each kind of extension, one that does not exist, help, unknown options), up to two of its extension, and a second `--` with one input; two inputs are enough for the extension's options to be parsed a second time, with the directory of `argv[0]` cut by the first |
| `program_nested` | does an extension read its own options only? | two inputs and a second `--`; expected to be violated (section 7) |
| `lexer` | are the tokens the text, at their places; can what is refused be shown; is what was printed read back, where its literals can stand between apostrophes? | every text of up to 4 characters over eleven characters, at least one of each kind, so every branch of `next_token` and `scan_literal` is taken before, after and inside every other; every text of 5 over the six that make lines, comments and literals, so that errors are in, before and behind several lines; and the output of the source printer for trees of every form, nested two levels, with every literal that the parser can make of up to three of the characters that matter (both quotes, backslash, `#`, NUL, `)`), pretty and terse, with and without dots.  `list` is a word of two letters; the dump has room for 2 |
| `printer_quotes` | is pretty output the input, but for whitespace? | one literal of up to three characters, both quotes among them; expected to be violated (section 7) |
| `input_files` | buffer, wholeness, refusal, descriptors, termination | 2 inputs out of a regular file, an endless device, a missing file and `-`, with and without a standard input; the sizes 10485760, 4096 and 1024 of the code scaled to 8, 4 and 2, and files and streams of 0 to 10 bytes: below, at and above the limit, with and without the last increment; each `read` gives any part or fails |
| `class_table` | is the class found the one named, and only what is no class refused? | the tables of both libraries, and names before, between and behind theirs; any sequence of lookups |

Some invariants are conjunctions of named parts, each with its own comment in the
module:

| Invariant | Parts |
|---|---|
| `BaseAST!HeapIsRight` | `TypeOK`, `KidsAreOlder` (references are to live, older nodes), `TableIsHeap` (the table lists the constructed nodes and no other) |
| `BaseAST!BlocksAccounted` | `BlocksOwned` (one owner, large enough), `LeakBounded` (what failed calls can lose) |
| `Evaluator!StackIsSound` | `TypeOK`, `NoStackError`, `StackBalanced`, `ValuesMatchTypes` |
| `Parser!StateIsSound` | `TypeOK`, with `arg_ctxt` reset however the parse ends, `StopsAtEnd` |
| `InputFiles!DescriptorsRight` | `NamedAreRegular`, `AbortsWithoutStdin`, `DescriptorsClosed` |
| `ClassTable!FindDecides` | `FoundIsNamed`, `UnknownIsUnknown` |

The counters that are capped are named constants: `MaxFailures`, `MaxArrays`,
`MaxList` (`BaseAST`), `MaxNodes`, `MaxBlocks` (`Evaluator`), `MaxLexemes`,
`MaxNodes` (`Parser`).  The memory limits among them are limits of the code too,
with its values larger.

Deadlock is not checked: every run ends by design, with an AST destroyed or an
outcome reached.  That it does end is `Terminates`, where loops depend on what is
read: in `parser`, `lexer` and `input_files`.  The evaluator and the program loop
over a finite tree and a finite list of inputs.

Fairness.  `Parser`, `Lexer` and `SourcePrinter` assume `WF_vars(Next)`, nothing
more: the program is one thread, no step waits for anything, so while a step is
possible one is taken.  `InputFiles` assumes it of the program's own steps and not
of the other processes; a `read` of the standard input may wait, and is taken to
return at some time.  No fairness is assumed elsewhere.

## 5. Proofs

Eight modules hold theorems; each extends the modules it is about.  A theorem holds
for every value of the constants that the module's assumptions allow, and every
passing run checks the assumptions of its module for its own values.  No theorem
uses a bound of a run: the constants that cap a counter may have any value.

**The allocator.**  `PoolAllocatorProofs` shows, for every pool size and address,
capacity, width of `size_t` and set of requests that `PoolAssumption` allows (a pool
not at address 0, not larger than `SizeMax`; alignments that are powers of two up to
16): `TypeOK`, `WithinPool`, `ObjectsDisjoint`, `ObjectsAligned` and `FreeAbovePtr`
are invariants, `find` tells exactly the live objects (`FindAgreesWithTable`), and
the allocator implements `ObjectArena` (`Refinement`): an `allocate` creates a run
of bytes that meets no other, a `rollback` takes the newest run away, and nothing
else changes any, so a client of the pool needs to know no more than the arena.

The argument.  What users care about speaks of objects; that the *next* object
is clear of the others follows from where `ptr` is, which those properties do
not mention.  The inductive invariant `IInv` therefore adds `FreeAbovePtr`: all
objects end at or below `ptr`, and `ptr` is in the pool.  `PoolTableProofs` has the
same as a fact about tables, `Sound`, with what one more object and one less do to
it (`GrowIsSound`, `ShrinkIsSound`), so that it can be used of the two pools of an
AST.  `allocate`: the padding is at least 1, lands on an aligned address
(`PaddingAligns`, one case per alignment), and a request that passes the checks ends
inside of the pool because no sum in them has wrapped (`FitsIsSafe`).  `rollback`:
`ptr` moves down to the start of the newest object, and by disjointness the older
ones end there at the latest, so the padding it leaves in use is lost space and
nothing worse.

`find`, in tables of any length and for any `LinearLimit`: the bisection is a
recursive function.  That it exists (`BoundExists`) and that it splits the table
between the addresses below and those not below the one looked for (`TurnSplits`,
`BisectSplits`) are shown for the least length of a range for which they fail: no such
length can exist, as a turn goes on with a shorter range.  That needs the table to be
sorted, which `ObjectsDisjoint` and the sizes, all above 0, say.

**The AST.**  `BaseASTProofs` shows of every AST class, whatever its node classes,
pools, arguments and failing calls: `HeapIsRight` (`HeapStaysRight`), the refinement
of `TreeStore` (`StoreRefinement`), `CountCoversRoot` (`RootIsCovered`) and
`BlocksAccounted` (`BlocksAreAccounted`).  `IInv` has four parts.  `Pools`: both tables
are `Sound`, and the strings go before the nodes that use them.  `Nodes`: the constructed
nodes are the first so many of the table, `NMade`, which is all of it, or all but the
one under construction, or in the destructor those not yet destroyed; and each refers
only to nodes earlier in the table.  That is stronger than `KidsAreOlder` in that it
speaks of places in the table, so it outlives a `rollback`, which takes the last place
away.  `CurrentCall`: what the arguments evaluated so far have given refers to nodes
that are there; it is needed because the node that will hold those references is made
some steps later.  `Marks`: arrays are in the raw pool and hold nodes.

The refinement maps the table to the sequence of what its nodes are, with references
as places (`View`); an allocation or a rollback without a constructor leaves it as it
is, a constructor appends to it, the destructor shortens it.  `CountCoversRoot` needs `RootCounted`: the
count was taken of a prefix of the table that has the root in it; whatever the root
reaches is earlier, hence in the prefix, whatever was added since.  `BlocksAccounted`
needs `Accounted`, which counts the references of the call in progress as well as
those of the nodes: a block just copied is nobody's until the node is made, and is
lost if that fails, so what a failing call adds to the lost blocks is what its
arguments had been given, at most one for each parameter (`ThrowLoses`).

**The parser.**  `ParserProofs` shows `StateIsSound` (`ParserIsSound`) and `AstIsTree`
(`ParsedIsTree`) for inputs of any length and nesting; `LexemeAssumption` only says that
a lexeme is of one type.  Neither property says why a `new_<class>` finds the values
it takes: those were left by calls that have returned.  The part `Fits` of
`IInv` says that from the values there are now to none at the end there is a chain of
states, one between each two items of `todo`, in which each item finds the values it
uses (`Takes`); a state is the number of values and what was done last, which is what a
`parse_<symbol>` can rely on when it looks at `prev_tok`.  The body of each function is
shown to be such a chain (`TreeBody` to `ListAfterBody`), a call puts the body's chain
in the place of its own (`BodyTakes`), and a loop's turn that of the turn.  The other parts:
`Looked`, the lookahead is the last lexeme read, so at the end nothing is read;
`WillLeave`, whoever set `arg_ctxt` is still on the call stack, or gone by an
exception, that resets it; `Placed`, each node but the root is in one place of all
variables and nodes, and the root in none.

It also shows `AcceptsGrammar` (`AcceptsOnlyGrammar`) and `ErrorsAreExact`
(`RefusesExactly`): for inputs of any length the parser accepts only sentences of the
documented grammar, and reports a syntax error at the first lexeme no sentence goes on
with.  The grammar is data (`ParserGrammar`), and what may follow a sequence of lexemes
is a set of forms, got from one lexeme to the next (`Follow`, a recursive function that
`RestOfNext` unfolds, by an induction with a set of numbers in the place of a property,
`UpTo`).  The invariant is `Agrees`: there is a chain, as above, in which each item of
`todo` takes from the front of a form the symbols it is going to read (`Reads`,
`Covers`), down to nothing after the last; and the form at the front is right
(`Right`): among the forms that may follow what was read *before* the lookahead, those
that the lookahead can begin are those that the form expands to.  This is what one token of
lookahead must be enough for: a call only unfolds the form (`BodyReads`), and
a choice or a turn of a loop drops alternatives that begin with something else
(`Narrowed`, `ClosedForm`: after the arguments of a node its parenthesis follows, which
begins no argument).  So when the lookahead is none of the types the parser looks for, no
form is left, and the input begins no sentence.  The form also says where in the name of
an argument the parser is (`Places`): whether the lookahead was read with `arg_ctxt` set is not
what `arg_ctxt` says now, since `parse_node_arg` resets it between reading the name and
taking it, and the type of the word `list` depends on it (`TypesFit`).

Last, it shows `AstSaysInput` (`ParsedSaysInput`): the AST of whatever is accepted says
all of the input, in its order, and nothing else.  The property speaks of the parsed tree
only; while the parser runs, what was read is in several places, and the invariant `SInv`
says how they make it up (`SaysRead`).  It takes everything read before the lookahead
(`ReadBefore`) to be what a *form* says, followed by the text that is still in `prev_tok`
or by the root (`Apart`).  A form is a sequence of slots, one for each value in the
functions' variables, and between them the signs and the word `list` that
`need_token` has consumed and no value stands for (`Says`).  Each item of `todo` turns
the form into another one (`Turns`): a token adds a slot at its end, a
`new_<class>` or a loop puts one value in the place of the slots at the end that are what
the grammar's rule for that class has (`MadeFrom`), in the order in which the
constructor gets its arguments.  From the form there is now to
`AllSaidNow` there is a chain through `todo`, as in the other two invariants, so a call
that read its parts in another order, or took a text after the next token was read, would
break it.  A node says what its parts say, through the nodes they are (`Spelled`): since
parts are older than their node (`Older`), there is one way to do so (`ToldOnce`), and a
new node does not change what the others say.  This needs `GInv` too: that a lexeme
accepted as a sign is that sign follows from the types the lookahead can have there.

**The evaluator.**  `EvaluatorProofs` shows `StackIsSound` (`EvaluatorIsSound`) and
`UsesStore` (`EvaluatorUsesStore`) for every library and every tree of any depth, for
both makers and both cast rules.  `StackBalanced` alone is not inductive: it does not
say that a visit to come, when it turns into visits and a maker's call, still adds up,
nor that the object that is given a name has none yet and that the last object is a
node.  `Fits` says it by chains of states, as in the parser: here the size of the stack
and whether a node, or an object without a name, is on top; what each part of a tree
turns into is such a chain (`ToTreeNode` to `ToElemsAndList`).  `Typed` says of each object
that its nodes are in the store and are of the class of its type; for a list, of a class
derived from it.  A maker's check establishes that for what it takes (`CheckNodeArgs`,
`CheckListArgs`, `NodeCast`), and the flag `narg_error` is down whenever a check is
entered (`Typed`), so that the arguments are popped if and only if the check has found
them (`PoppedObjects`).  Two functions are recursive.  That `SizeAfter` has the
numbers of the chain is shown for the least item at which it would not
(`SizesAreThose`).  The function by which `IsA` follows the bases of a class exists, as
the least set of classes that lead to the one asked for (`IsAUnfolds`), whatever the
table of bases.

`CastsAreSafe` (`MakersCastSafely`) is shown for every library of which
`HierarchyAssumption`, `TypesAgree` and `MakersAgree` hold.  What is to be shown is that
agreement one argument at a time is enough: an object that a check has let through is
still at the place the maker takes it from, and the nodes of a list, which may be
declared of one class, hold nodes of a second that derives from it, and go to a
parameter of a third, have the class they are cast to.  For this bases are transitive
(`IsATransitive`: else there is a class of least depth for which they are not, which is
where a hierarchy with a cycle would fail).

`OutcomeIsTyping` (`EvaluatorDecides`) is shown for the same libraries and every set of
trees.  The outcome is foretold at every step (`Foretold`): let each item of `todo`, in
its order, do what it is to do to an *outline* of the stack, which is what the checks
see of the objects (`Leaves`); then what is left is the root, and no check on the way finds
anything wrong (`Right`) if and only if the tree is well typed.  That is true of the
first item (`InitForetells`).  When a part of a tree turns into its own parts, they come
to the same outline, and are right together when it is (`RootRuns` to `NodeListRuns`):
here the typing, which speaks of trees, meets the stack, with the arguments counted
from its top (`NodeIs`, `ListIs`).  When a maker is called, its checks find in the stack
what `Right` says of its outline, and its object takes the place of its arguments there
(`NodeChecked`, `ListChecked`, `OutlinePopped`); so an error, once thrown, was foretold, and at
the end the one object left is the root's.  The typing is a recursive function over
trees, and no induction over trees is used: it exists as the least set of trees that
contains each call that is right when its arguments are in the set
(`TypingUnfolds`, by `MoreIsRight`), and one unfolding of it per step is all that is
asked.

**Input files.**  `InputFilesProofs` shows all safety properties of `InputFiles`, `TypeOK` and the
parts of `DescriptorsRight` included, for every
limit that is a multiple of the increment, every chunk no larger than the
increment, and any files, streams and number of inputs.  Its `IInv` has four parts.
`Descriptors`: as long as nobody has closed the standard input, it is descriptor 0
and no file has that number.  `Buffer`: by the state of the loop, what of the buffer
is filled and that the bytes read last are the next of the stream; that the capacity
is a multiple of the increment, so that the limit, which is one too, is not
overstepped when the buffer grows.  `Types` and `Errors`: what each error implies of
the sizes.

**The lexer.**  `LexerProofs` shows `TypeOK`, `StaysInInput`, `PositionsExact` and `ErrorsAreShown` of
`Lexer` for every text and alphabet.  Its `IInv` adds to `PositionsExact` where `ptr` and `scan`
are in each phase, that tokens are in the text and not broken by a newline, and that
an error is at a place of the text.  `AdvanceIsExact` and `RightIsExact` say that a
position moved over a stretch of text is the position of its end; `LineShowsPlace`
that the line that `verror` finds by its number begins behind the last newline
before the place.  Least and greatest members of sets of numbers exist by
well-foundedness (`WFMin`), which needs no induction over an operator.

It also shows `ReadsText` (`TextIsRead`) and `RefusesRightly` (`RefusalsAreRight`) of
`LexerTokens`.  `Progress` says how the scan stands to the declarative reading: `ptr` is at
the end of the last token (`Gap`) until spaces are skipped, behind that there are only
spaces, or spaces and a comment up to its newline (`Skipped`), and in a literal
everything from the quote to `scan` belongs to it and `scan` is not escaped
(`ScannedTo`).  A character is escaped when the number of backslashes before it is odd;
nothing is counted in the proof, as it is so if and only if the one before is a
backslash that is not escaped itself (`EscapedNext`).

**The class table.**  `EvaluatorProofs` also shows, for the makers' lookups, `FoundIsNamed` for every table, and `UnknownIsUnknown`, so
`FindDecides`, for every table that is sorted: the invariant `Narrowed` says that all entries before
`first` come before the name, and all from `first + len` on after it.

**The program.**  `ProgramProofs` shows `TypeOK` (`ProgramTyped`) for all command lines,
and `ActsAsAsked` (`ProgramActsAsAsked`) and `ZeroMeansAll` (`ProgramZeroMeansAll`) for
all sets of lines that are plain, whatever their length, options, inputs and functions.
For the same lines `OptionsAreOwn` holds (`ProgramOptionsAreOwn`), so the lines
that are not plain, where `program_nested` finds it violated, are all where it can fail.

The hard part is that one array is parsed again and again and each parse rewrites it.
First, one call of `parse`, whatever the array and the object are before it.
Only the options before the first `--` count (`ThoseIs`, `OwnArgs` as `RegionIs` has it); what
the loop over them leaves is told by the last option of each kind (`LastOptIs`,
`ParseOptsRight`: else there is a least number of turns after which it is wrong), so two
parts of the array with the same last options (`SameOptions`) set an object alike
(`SetAsAsked`), provided the object began with the defaults or with what the first call
left.  Then what a call leaves of the array: `getopt_long` permutes one part of it, and the
parts behind stay in their places (`ParsedArgsAre`, `Rewrites`), with the same last
options (`PermutedSame`).

Then the program.  `TInv` says where the parts of `argv` are (`MainOf`, `ArgvOf`,
`StateOf`), that what is loaded is what the line names (`Function`, `FuncOf`), and that what an
object keeps of an extension's command line lies in its own part.  It holds for all lines, and
`TypeOK` follows.  `IInv` adds `DoneOf`: how much of what was asked is done (`RunsUpTo`), and
that the extension's object is new and its part of the line as it was given (`Fresh`), or
has been parsed and says what that part asks for (`Settled`).  The first call
makes `Settled` of `Fresh` (`FirstCall`), and a later one keeps it, when there is no second
`--` (`LaterCall`).  With a second `--` and a second input a plain line has a library that calls
no extension; then a null pointer stands where the `--` was, and the later call does not
return (`NullCall`, `NotTwice`).  With this each kind of extension adds to `runs` the entry that
`InputAsked` has for the input (`AskedOf`, `PrinterIs`).

## 6. Only model-checked

* Liveness (`Terminates`): TLAPS does not do fairness and `ENABLED`.
* The agreement with references that are recursive over trees or texts:
  `AstIsTree` (`EvaluatorAst`), `ReadsBack` and `LayoutFollowsLevels`
  (`SourcePrinter`), `PrintsItself` (`LibraryPrinter`).  What they compute for every
  tree would be an induction over trees, and they hold `RECURSIVE` operators, which the
  prover does not take.

## 7. Findings

* `eval_bool` (`TypeCheckDecides`).  The documentation says that the type check
  verifies the constraints of the type definitions.  The evaluator takes any
  string for a parameter of type `bool` when it only checks types, and rejects it
  when it builds the AST: `tree -F abc/abc.so "S('y')" -- -c` succeeds and `-A`
  fails.
* `program_nested` (`OptionsAreOwn`).  A type library parses its options for each
  input, and the first time it does, it overwrites the `--` in front of its
  extension's options with the extension's name (`options.cpp:367`).  The second
  time those options are taken for the library's: `tree -F abc/abc.so "A()"
  "B(.a=A())" -- -o -- -c` prints the first AST and only type checks the second
  input.  When the library has no extension the name is a null pointer, and the
  second parse compares a string with it: `... -- -c -- -x` is killed.  A program
  built from these sources behaves in just this way.  With one input, or without
  a second `--`, everything is as asked (`program`, and `ProgramProofs` for all such
  lines).
* `printer_quotes` (`PrettySaysInput`).  The documentation says that pretty output is
  identical with the input but for indenting whitespace (`doc/c++py-tree.txt:708-711`).
  The source printer puts each literal between apostrophes as it is
  (`printer.cpp:717`), whatever quotes it had: `tree -P` prints `D("it's")` as
  `D('it's')`, which `tree` refuses.  `ReadsBack` says what does hold: with literals
  that can stand between apostrophes, and without dots for indentation (`-i`), the
  output, pretty or terse, is read as the same tree.

What the models say of the code at four other places, where a reader may expect
something else; the properties are stated as the code has it:

* A debug build that dumps tokens asserts that a lexeme has at most 18 characters
  (`parser.cpp:298`); one that is longer ends in the phase `aborted` of `Lexer`.
* After `-` was read descriptor 0 is free, the next file gets it, and `file_t::read`
  takes it for the standard input: `tree -f - /dev/zero` reads ten megabytes and
  calls them too large, where `tree -f /dev/zero` is refused as not regular.  For the
  same reason `tree -f - -` is aborted.  So the parts of `DescriptorsRight` say what
  holds as long as the standard input is there, and that it takes its loss to abort.
* `read_stdin` compares the capacity of its buffer, which grows by 4096, with the
  limit: a stream is refused from less than one increment below the limit on, a file
  only above it (`RefusedAreLarge`).
* The name of a library's extension without a directory is looked for in the directory of
  the library as the command line names it, which is `.` when the library itself was named
  without one and found beside the program (`TypelibAsked`): not where the library was found.

## 8. Not modelled, and why

* *The composition of lexer, parser and evaluator over characters*: planned
  (section 2).  `Parser` takes lexemes, in all orders that `Lexer` can give them.
* *`buf_t`*, which holds one lexeme, and the loader's path buffer.
* *Widths of positions in the debug dump*: `skip_spaces` and `dump` also assert that
  the digits of a line and a column fit, which is so up to some thousands of lines.
* *`Printer` and `Dumper`* (`-p`, `-u`): formats that nothing reads.
* *Options that are abbreviated, combined or lack their argument*, and the debug
  build: `getopt_long` decides these before the code sees an option.
* *Print formats, help texts, demangled names*: wording and layout.
* *`std-ext`, visitors*: no state; pure functions and generated dispatch.
* *Out of memory in `malloc` itself*: the program ends at once.
