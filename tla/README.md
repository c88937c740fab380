# psychec, modelled and proved in TLA+

psychec is a C front end: it lexes and parses C text that may be incomplete
(headers missing, types undeclared), resolves the ambiguities that such a text
leaves in the grammar, and binds its declarations. This directory holds TLA+
modules translated from its source, TLC runs that check them on bounded
instances, and TLAPS proofs of what holds for every instance.

Every pass that the program makes over a text is modelled: the lexer with its
tables of words (`Lexer.cpp`, `Keywords.cpp`), the parser (every routine of
`src/C/parser/Parser*.cpp` that runs for a translation unit), the reparser
(`src/C/reparser`), the dumper with the control-flow graph that is made from
what it writes (`SyntaxDumper.h`, `SyntaxNamePrinter.cpp`), and the binder with
the compilation that runs it (`src/C/binder`, `src/C/compilation`). Line numbers refer
to the files under `src/`; the exact lines that each definition stands for are
in `PROJECT.json` under `map`.

## The system

| Component | State | Operations | Correct when |
| --- | --- | --- | --- |
| **SyntaxTree** (`C/SyntaxTree.cpp`) | text, tokens, diagnostics, line starts and directives, root | `parseText`, `buildFor`: lex, parse, maybe reparse | the reparser runs exactly on texts that need and permit it; positions are those of the text |
| **Lexer** (`C/parser/Lexer.cpp`, `LexedTokens`, `LineDirective`) | cursor over the text, token vector | `lex`, `yylex` | tokens end with end-of-file; positions follow `#line` and expansions |
| **Parser** (`C/parser/Parser*.cpp`) | `curTkIdx_`, `backtracker_`, reporter (`IDsForDelay_`, `delayedDiags_`, `retainedAmbiguityDiags_`), depth counters, the C++ call stack | one routine per production, `match`, `skipTo`, `ignore*`, Backtracker, DiagnosticsReporterDelayer, DepthControl | it returns on every text; speculation leaves no trace; what it had to recover from is reported; ambiguities are retained once; jumps are diagnosed exactly |
| **Reparser** (`C/reparser`) | name catalog (levels), pending ambiguities | catalog names, then visit the tree and replace ambiguous nodes | each ambiguous node is replaced according to the catalog or counted as pending |
| **Syntax nodes, dumper, unparser** (`C/syntax`, `C/parser/Unparser.cpp`) | the tree; the level | `makeNode`, visitor dispatch, one visit per class, `firstToken`, `terminal` | every token is handed over, once and in order; what is written is read back |
| **Lexemes** (`C/syntax`, `common/text`) | interned spellings | `findOrInsert` | one lexeme per spelling |
| **Control-flow printer** (`C/syntax/SyntaxNamePrinter.cpp`) | stacks of ifs, loops and breaks | build a graph over a dump of the tree, follow a path of it | edges are those of the program |
| **Memory pool** (`C/infra`) | blocks, cursor in a block | `allocate`, `reset` | allocations do not overlap |
| **Compilation, SemanticModel** (`C/compilation`) | tree -> model, dirty flags | `addSyntaxTree`, `semanticModel` | a model is that of its tree |
| **Binder, scopes, symbols** (`C/binder`, `C/symbols`) | stacks of types, scopes, function types | visitors that push and pop | stacks are balanced; each symbol gets its own type and scope |
| **Data types** (`data-types`) | `VersionedMap`: a map with revisions | none runs: no file includes the header | - |
| **Driver, plug-ins, tools** (`cnippet`, `C/plugin-api`, `tools`, `utility`) | options | command line, preprocessor as a child process | - |

The flow is a sequence on one thread: `SyntaxTree::buildFor` runs the lexer to
its end, then the parser to its end, and then, only if the parser retained an
ambiguity, the options ask for it and there is no diagnostic, the reparser,
which makes two passes over the tree (catalog, then disambiguate). A
`Compilation` builds a `SemanticModel` per tree on demand, which runs the
binder. Independently of both, the dumper walks a tree; the unparser writes
what it hands over, and the name printer prints it and makes the control-flow
graph. There is no concurrency, and nothing is persisted. What makes the code
hard is sequence: state that is saved, restored, stacked and silenced along
call chains that are dozens of routines deep and that a false return unwinds.
`PROJECT.json` lists those hazards under `hazards`, each at its line with the
properties that cover it or the reason why none does.

## The parser's modules

| Module | Models |
| --- | --- |
| `ParserMachine` | the machine under the routines: token cursor, call stack, Backtracker chain, diagnostics reporter, `match`, `skipTo`, the `ignore*` loops |
| `ParserStatements`, `ParserExpressions`, `ParserDeclarations` | the routines, an action each (`Parser_Common.cpp` is with the declarations) |
| `ParserTypes` | the types of the variables, with the list of all routines |
| `Parser` | `Next`, `Spec` and the properties |
| `Speculation` | the abstract specification: what the Backtrackers of any parser promise |
| `MCParser` | instances: sets of texts for TLC |
| `MCStatements` | a reference for jumps, labels and ambiguities, built bottom-up |
| `ParserSteps`, `ParserProofs` | the proofs |

### How a recursive-descent parser becomes a state machine

`todo` is the C++ call stack seen as the work that is left. Its head is the
routine that runs; what follows is what its callers have yet to do. An entry is
a record: `do`, the routine (or, for a routine with work after a call,
the point at which it goes on, as in `IfStatement_AtElse`); `a`, its argument;
`acc`, node kinds gathered so far. A step of a routine does one of three things:

- `Expand`/`Continue`: it consumes some tokens and replaces itself by the calls
  of its body. `Match(";")` in such a list is the call of `match`.
- `Return`: it returns true, leaving the kind of its node in `node`.
- `ReturnFalse`/`Fail`: it returns false. `mode` becomes `"fail"` and the work of
  the callers is dropped until an entry is met that the code has there to
  handle a failure: a Backtracker, a `skipTo`, a list's loop that ignores
  the rest of a declaration or statement, a result that the caller ignores
  (`OrProceed`), or the end of the scope of a `DiagnosticsReporterDelayer`,
  whose destructor runs on either return.

`if (!p()) return false;` therefore costs nothing in the model: it is what
every entry without a handler does. `Backtracker` objects are entries too,
at the place where their scope ends; `backtracker` is the chain that starts at
`Parser::backtracker_`. An entry's `level`, its height in the stack when it was
constructed, is a history variable that lets `BacktrackersMatchCallStack` say
which scope an element of the chain belongs to. The chain holds exactly the
fields of the source: the token to go back to.

`mode` also ends: `"done"` (`parse` returned), `"thrown"` (DepthControl),
`"null"` (a null node is dereferenced), `"overrun"` (`peek` past the
last token: undefined, so nothing is said of what follows).

### What is abstracted

- **Tokens** are kinds. What an identifier or constant spells does not change
  what the parser does. Keywords and operators that lead to the same case of a
  `switch` are represented by one of them.
- **Nodes** are the kinds that the parser itself reads later (for example: is the
  declarator a function; can this type name be an expression). The tree is not kept, and
  with it the regrouping of operands by precedence; the precedence climbing
  itself, which decides what is parsed, is.
- **Diagnostics** are an identifier and a token index. Wording is left out.
  `diags` is a set: a diagnostic that is repeated at the same token counts once.
- **Assertions**: `PSY_ASSERT_W_MSG` reports on standard output and executes its
  second argument. Those that the code's own callers can break are modelled.
- **History variables** have no counterpart in the code: `omitted` (diagnostics that a
  Backtracker silenced and whose nodes are still part of the tree),
  `ambiguities`, `recovered` and the same fields in `backtracker`. No guard reads them.

## The parser's runs

All runs use the GNU extensions that change the grammar and a C99 dialect.
Checking for deadlock is off in all of them: the parser ends.

| Run | Asks | Expectation |
| --- | --- | --- |
| `parsing` | on a program for each way through each routine, and on nested statements and expressions built bottom-up: types, the Backtracker chain, marks, delays, refinement of `Speculation`; are jumps diagnosed exactly, is each ambiguity retained exactly once | pass |
| `soups` | on every short token string over five alphabets: does the parser return, is any recovery accepted without a diagnostic | pass |
| `static_member` | a struct with a storage class among its members: does the parser return | violation |
| `conditional` | a conditional expression without its colon: is it diagnosed | violation |

**Texts and bounds.** `parsing` has a text (`Corpus`) for every disjunct of every action,
well-formed and ill-formed; TLC's coverage shows that all of them fire. It sets
`MAX_DEPTH_OF_EXPRS` to 4 so that the throw is reached with five operators
instead of a thousand. `soups` has all strings of up to three or four tokens
after a fixed prefix, over alphabets chosen so that attempts begin, fail, skip
and resume: about eleven thousand texts and 390 thousand states. Four tokens are
enough for one complete attempt, its failure, and what comes after it; a fifth
token did not reach another kind of step, but see *Limits*. The function bodies of `parsing`
(`FunctionTexts`), for which alone the diagnostics are foretold, nest up to
three levels, which is one more than a jump needs to meet a loop through a
switch or a switch through a loop, and puts an ambiguous operand in each place
where an attempt may be around it. The other parameters are as in the code.

**Properties.**

- `BacktrackersMatchCallStack`: the chain of Backtrackers is that of the scopes
  the program is in, innermost last. A failure can only meet its own.
- `MarksAreBehind`: giving up an attempt never moves the cursor forward, nor
  behind the start of an attempt around it.
- `SpeculationIsSound`: the parser implements `Speculation` (under a refinement
  mapping: the marks are the Backtrackers' tokens): silence while an attempt may
  be given up, the cursor restored when it is, no report withdrawn.
- `NoDelayOutlivesItsList`: a diagnostic is delayed only inside a parameter list.
- `RecoveriesAreReported`: a text that the parser had to recover from is not
  accepted silently.
- `ParseReturns`: the parser returns a translation unit, whatever the text.
- `JumpsAreDiagnosedExactly`, `AmbiguitiesAreRetainedOnce`: against a reference
  that computes both bottom-up, while the parser finds them top-down.

Each has a mutant in its model module: the routine with a plausible bug in it, with
which TLC finds the property violated.

**Fairness.** `WF_vars(Next)`: one thread runs the parser and always takes its next step.
No action is given fairness of its own, so liveness rests only on the loops making progress.

**What the violations show.** `static_member`: `struct x { static int x; };` never returns.
`conditional`: `NoErrorOmitted` says that a syntax error in the tree is reported although a
Backtracker was live when it was met, as the comment at `Parser.h:76-80` intends. `x ? y z 1;` is
tried as an expression under a Backtracker and accepted without a diagnostic: what is missing is
met there, so that its diagnostic is dropped, and the result of `match(ColonToken)` is ignored
(`Parser_Expressions.cpp:1630`). No other text known has such an error; the soups have none.

**Stated without a run.** Two properties of `Parser` fail on texts known here, and say so in
a hazard: `AssertsHold` (the second operand of an asm statement is assumed, not checked)
and `DepthIsBounded` (the depth of statements is not bounded, as `DepthControl` counts in a
copy).
The corpus also has two texts on which the parser does not return
but uses what is not there: `int x[] = { , };` (a null list, `Parser_Declarations.cpp:2344`) and
an initializer `{ ?` that is never closed (the skip past it, `:2317-2318`, consumes the
end-of-file token; `Parser_Statements.cpp:626` does the same for a file that ends in the header of a `for`). All but the initializer were reproduced
on the library built from the source.

**Validation.** The model was compared with the library itself on more than twenty
thousand random texts (tokens, diagnostics with their positions, retained
ambiguities, whether it returns): no difference remained.

**Limits of the passing runs.** They hold on the texts listed, and three of
them do not hold on all texts:
`ParseReturns` is violated by the texts named above, and by
statement expressions and the members of a struct, which the soups leave out;
`RecoveriesAreReported` is violated by longer texts: `int x() { x x(x( }` and
`int x x; {` are accepted in silence. An ambiguous `sizeof` is retained twice when the attempt
around it is given up (`x (*y)[sizeof(z)], w = {0};`); the shapes of `MCStatements` have it in kept attempts only.

## The reparser's modules

| Module | Models |
| --- | --- |
| `SyntaxWalk` | trees as tables of nodes, and the walk of a visitor over one (`SyntaxNode.cpp`, `SyntaxVisitor`) |
| `NameCatalog` | the names that are types and the names that are not, by levels |
| `NameCataloger` | the first walk, an action per handler |
| `Disambiguator` | the second walk: the handlers as a table, the three `visitMaybeAmbiguous` routines as actions, and `SyntaxCorrelationDisambiguator`'s answers |
| `Reparser` | `buildFor` after the parser, with its options; `Next`, `Spec` and the properties |
| `Disambiguation` | the abstract specification |
| `MCReparser` | trees for TLC, and a reference for what each place should hold |
| `ReparserProofs` | the proofs |

**State.** `tree` is a table of nodes: kind, the name it spells if it spells
one, children by index, 0 for a child that is not there. It is a table and not a
term because the two readings of an ambiguous node share nodes (`Parser_Expressions.cpp:1168-1230`
takes the operand of the cast for the right operand of the binary expression) and because the disambiguator writes
to it: `node_P = ...` overwrites the place in the parent. A call of a
visitor is therefore a place (`of`, `at`), and `todo` is the stack of such
calls; its head is the next. A handler that returns `Action::Skip` has named its calls, `visitChildren`
makes them for one that returns `Visit`. Nodes whose class declares no
children (`CastExpressionSyntax`, `ConditionalExpressionSyntax`, the asm nodes) end a walk
that does not handle them. `stage` says how far `buildFor` is; it is `"undefined"` once a null
pointer was used.

**Abstraction.** Tokens and the kinds that no handler tells apart are left out.
The trees are those that the parser makes: their parents and children are
listed, not generated by the parser's model, which keeps no tree. That ambiguous nodes have two readings
whose name is a typedef name, which the code asserts, is `TreesAssumption`
and `ChildrenAssumption`; TLC evaluates both on the trees of each run.
The containers whose end is compared with that of another
(`NameCatalog.cpp:90`) are unordered sets whose ends are equal in the library the program is built
with.

| Run | Asks | Expectation |
| --- | --- | --- |
| `reparsing` | any ambiguity in any place, with each kind of evidence before or after it, any treatment, complete or not: types, refinement of `Disambiguation`; is the tree built; is what a handler looks for resolved as the text says, and counted if not | pass |

**Trees and bounds.** `MCReparser` puts trees together bottom-up. An ambiguous
statement (`x * y;`, `x(y);`) is nested in every statement twice over; an
ambiguous expression (`(x) - e`, `sizeof(x)`, one in the other) is put in every
place of every kind of expression, and these in every place of
every kind of statement and in initializers, alignments, array bounds, designators and assertions. The
rest of the file says of the name that it is a type, a variable, both or neither, before or after. Two
levels are enough to see a handler give a child to the wrong
routine, as a handler sees one level; two names, since what is decided of one
never depends on a third. There are also trees of what is known to be mistreated: evidence for
readings as an expression that are answered but not listed, absent optional children, roots other than a translation unit, and the places that no handler searches:
arguments and indices, the initializer of a `for`, declarations inside functions. They are there for the properties that
hold of every tree; the others say in their premises which trees they speak of. 830,380 states.

**Properties.**

- `DisambiguatedAsTheTextSays`, of the trees with none of this (`Resolvable`): when `disambiguate` has returned, every place that
  held an ambiguity holds the reading that the whole text calls for, and every
  other place what it held. The reference follows every child of every node, and knows nothing
  of handlers or levels.
- `PendingIsWhatIsLeft`, of the same trees: `pendingAmbigs_`, which `disambiguate` returns, is the
  number of ambiguities that remain.
- `CompleteUnitsAreBuilt`: the tree is built (`ReparseReturns`), if it is a translation unit and has every child in its place,
  whatever is ambiguous in it. Fairness is `WF_vars(Next)`, for the
  same reason as in the parser.
- `DisambiguationIsSound`: the reparser implements `Disambiguation`: it learns,
  then it decides; no node is replaced before the catalog is complete or against what it
  says, and only ambiguous nodes are.

**What is mistreated.** No run is kept for these; the hazards name them. With `int x;` in the file, `(x) - 1` stays
ambiguous, as the answer `KeepBinaryExpression` is not among those that line 60 lists; `sizeof(x)`
likewise, and neither is counted as pending. An `if` without
`else` in a file with an ambiguity is dereferenced through its null `else`.
The fifth treatment does not fit its two bits (`OnlyNonePreserves` states it). In `y((x) - 1)` nothing looks at the argument, and an
expression or a statement parsed on its own has no level in the catalog, so that asking
it goes through a null pointer. All of them were reproduced on the built library.

## The lexer's modules

| Module | Models |
| --- | --- |
| `Keywords` | `classify` and `classifyOperator`: what a word is, and the options that make it so |
| `Scanning`, `Lexemes` | how far a comment, word, number, literal or punctuator reaches, and its kind |
| `Lexer` | `lex` and `yylex_core`: an action for each place of `lex` that waits for a token |
| `TextPositions` | `SyntaxTree::computePosition` over line starts, line directives and expansions |
| `Unparsing` | the unparser, and the lexer again on what it wrote; `Init`, `Next`, `Spec`; a reference for positions, and the properties that are proved |
| `MCLexer` | texts, and a reference for directives and marks |
| `ScanningProofs`, `LexerProofs` | the proofs: what a token reaches, then what `lex` does with it |

**State.** `at` is the place of `yychar_`; 0 is the newline that the lexer
pretends to have read before the text. While `lexing`, `yylex_core` consumes
blanks, joined lines and dropped comments one by one, then a token, which `pc`
takes up: the statement of `lex` that asked for it. A directive is therefore
several steps, and what it leaves (`directives`, `expansions`, `skip`) is read
by the tokens that follow. A text is a sequence of characters, where a word may
be one unit, since the decision tree of `classify` compares whole words.

| Run | Asks | Expectation |
| --- | --- | --- |
| `lexing` | on all short texts over five alphabets and a corpus of directives, marks and words: is every character in one token, is the position that of the text, are braces matched, does it end, and is the written text read as the same tokens | pass |

**Texts and bounds.** All strings of up to three characters, one or two more
where a hazard needs them: directives after joined lines and digraphs (4),
braces (5), raw strings (a prefix and 5), punctuators (two of all of them, three of
those that combine), and the letters and signs of numbers and literals. Three characters are the longest punctuator,
and a suffix or an escape with what is on either side of it. The corpus has what takes more: line
directives, marks of expansions with and without data, and every word
of the tables. The options are the defaults, with comments kept, and for a
reserved word every combination of those that decide what it is, or what the name of its
kind is (`Combinations`), with the others on and with the others off, in every dialect. 183,059 states.

**Properties.**

- `TypeOK`, `TokensInOrder` (both proved too): nothing is read past the end of the text, the
  tokens of the tree share no character and are in its order, and the last one is the end of the file.
- `NothingIsLost`: outside of directives every character that is no blank is in
  one token; a directive is a logical line, as the standard joins them.
- `PositionsInTheText` (proved too): a token's position is the line and column counted in the text from
  the line directive in force.
- `BracesMatch` (proved too): an opening brace's match balances it.
- `ExpandedWithinMarks`: tokens outside the marks of an expansion are never taken for expanded.
- `WrittenIsReadBack`: what the unparser writes has the same tokens, under the same options: it writes the name of the kind,
  so that an alias has to be reserved together with its name.
- `LexReturns`, under `WF(Next)`: the one thread that runs the lexer goes on; the loops are left.

`NothingIsLost`, `WrittenIsReadBack` and `LexReturns` name in their premises
what the lexer does not get right: `??` and an unknown character stop it (kind 0);
a hash behind a joined line is no directive; a prefixed literal's lexeme is one
character too long, a raw one's is wrong; an alias may be reserved where its name is not (`Unnamed`: `__inline` and
`__inline__` without C99, `__alignof`, `__alignof__` and `__alignas` without C11, `__attribute` without the alternate keywords),
and is then written as what is read as an identifier; a mark whose data are neither `~` nor a
number is read forever (`Lexer.cpp:150-180`). `PositionsInTheText` leaves out tokens
at column 0: `searchForLineno` finds the line before theirs, which
`PositionsWithinLines` states and no run checks. `NamesAreRead` fails at
`__builtin_tgmath`, unreachable in `Keywords.cpp:1348`. The model of the lexer was compared with the
compiled sources.

## The dumper's and the graph's modules

| Module | Models |
| --- | --- |
| `NodeShapes` | what each class of node has, and what it declares as its children |
| `Dumper` | the visits of `SyntaxDumper`, one per class, with the default walk; `firstToken`, `lastToken` |
| `Listing` | the list that a walk hands over, node by node, and what is true of it in any walk |
| `FlowGraph` | `SyntaxNamePrinter::getCFG` over any list that a walk hands over, one action per kind of entry and one per loop that ends; `printCFG` as a path |
| `ControlFlow` | the dumper over a file, then `getCFG` |
| `MCDumper`, `MCControlFlow` | trees; the manual's account of jumps as a recursive reading of the tree |
| `ControlFlowProofs` | the proofs |

**State.** Here a tree is a term with its parts by name, and a place in it a
path, so that the order of the text is the order of paths. `todo` are the calls of the walk;
`written` and `dump` are what it hands over. `flow` is what `getCFG` keeps: the
graph and the five stacks from which it guesses what is inside of what; `stmtNode` is
the statement at hand while the loops that it ends are taken off, one a step.
`getCFG` does not see the tree: `IsListedAt` says of the list all that it may rely on (what is in a
node follows it without a gap, at a deeper level; loops and functions have tokens),
and `ReadsAListing`, that `ControlFlow` implements `FlowGraph`'s specification, checks
that the dumper's list is of that kind.

| Run | Asks | Expectation |
| --- | --- | --- |
| `dumping` | every class, with every choice of its optional parts and every class in each part: is the text handed over whole and in order, at the right levels | pass |
| `flow` | ifs and loops in ifs and loops with jumps at every place: do the stacks fit, is the graph that of the text, does printing end; does the dumper hand over a list as `FlowGraph` has it | pass |
| `jumps` | one function: does a continue go to its loop | violation |

**Bounds.** A visit sees a node and its parts, so trees of two levels (2578 of
them) show every part that a visit forgets or swaps. The graph needs three: a jump in a
statement in a statement, and what stands behind each, in blocks and without;
two functions, since the stacks are never cleared between them (284,537 states).

**Properties.** `WrittenInOrder`, `OnlyExtensionsAreLost`, `LevelsFollowTheTree`,
`FirstTokenIsFirst`; `StacksFit` (a loop has its row of breaks; proved too),
`GraphOfTheText` (the graph's edges are the manual's, on the programs that the
premise `IsPlain` describes), `CallsAreMarked`, `UndefinedOutsideOnly` (no vector is read behind its end
but for a break outside loops or a statement outside functions; proved too), `PrintingEnds` (proved too), `ReadsAListing`.

`PrintingEnds` leaves out the files in which a break or continue is what ends a loop
(`JumpEndsLoop`): the loop is still on the stack when the jump is added, so that a break
there becomes its own successor, and printing never ends. `GraphOfTheText` holds only of plain programs, and its
premise is as wide as the code allows: such a jump belongs to the wrong loop; one if is taken off
per statement; a return at the end of a loop's body gets a successor; the last
statement is never marked with its call. `jumps` is the case that the manual
speaks of. `LastTokenIsLast` (`SyntaxNode.h:80`) fails, as `lastToken` asks its last
child for the first token (`SyntaxNode.cpp:54-59`); no run is kept. The graph was compared with that of the compiled
code on 2980 functions.

## The binder's modules

| Module | Models |
| --- | --- |
| `BoundTrees` | files as tables of nodes, symbols, types, scopes, and the table of specifiers |
| `Binder` | each handler, and each step behind a visit, as an action on the binder's stacks; `StacksAreBalanced` |
| `Compilation` | `addSyntaxTree`, `semanticModel` (which runs the binder), the destructor; `Spec` and `ModelsOfLinkedTrees`, `ModelsStay` |
| `MCBinder` | files put together bottom-up, and C11 6.7 as a recursion over declarators |
| `BinderProofs`, `CompilationProofs` | the proofs: what each step of the binder does to tables and stacks, then the theorems |

**State.** `tySyms`, `syms`, `scopes`, `pendingFunTySyms` are the binder's
stacks; `todo` what is left of the visit; `symDEFs` and `symUSEs` the symbols and
types of the assembly, which all trees share. Handlers that swap the stack of
types for one of their own while they visit hold the other in `swapped`.
`outcome` is `"undefined"` once the top of an empty stack or a null pointer was used.

| Run | Asks | Expectation |
| --- | --- | --- |
| `binding` | compilations of one or two files, calls in any order: are the stacks balanced and restored, symbols, types, scopes and diagnostics those of the text, is a declarator's symbol found, do models stay | pass |
| `parentheses` | `int *(x);`: does its declarator lead to a symbol | violation |
| `leftovers` | `int *f(); int z;`: are two data types reported only where two are written | violation |

**Files and bounds.** Every kind of declaration, declarators that derive
once and twice (more in parameters), every known list of specifiers, and every pair of declarations
from a selection, since what one leaves on a stack meets the next; two files and any
order of calls for the compilation (5866 initial states, 250,535 states).
`StacksAreBalanced` (proved too) is stated of every file: `closeScope`, `popSym` and the others never take off
what was not pushed for them, a body reopens the scope of a parameter list that is not open, and at the end the outermost
scope is alone on its stack. `StacksAreRestored`, `SymbolsAsWritten`,
`ConstraintsAreReported` and `DeclaratorsAreFound` compare with the reading of
the language on the files that `Plain` describes; it leaves out what is not bound as it is read:

- a declarator that makes two types leaves one on the stack, which is combined
  with the next declaration's (`leftovers`);
- a body shares the stack with the type that its function returns (`void f(void) { int x; }` gives `x` the
  type `void` and then pops an empty stack);
- members of a struct inside a parameter list become parameters;
- of lists of more than one keyword, some are unknown (`unsigned char` is an unsigned int).

`DeclaratorsAreFound` leaves out, beyond these, the declarators with another in parentheses inside them
(`Hides`). `EveryDeclaratorIsFound` does not, and `parentheses` shows that it fails: `strippedDeclaratorOrSelf` takes off outer
parentheses, `innermostDeclaratorOrSelf` goes through pointers and suffixes, and neither is called
again, so that `declaredSymbol` finds nothing for `int *(x);` or `int (*f)(int);` and meets its own assertion
(`SemanticModel.cpp:208-216`).

The other files are in the run for the parts of the properties that are stated of all of them, and for
`ModelsOfLinkedTrees` and `ModelsStay`. Both hold although `semanticModel` before
`addSyntaxTree` makes the later addition return early, and no symbol is ever removed
(`Compilation.cpp:110-111`). Checking for deadlock is off, as the program ends when the compilation is destroyed or
its behaviour is undefined. Symbols, types and diagnostics of
the model were compared with the compiled binder's on all 5851 files of the run whose behaviour is defined: no difference.

## The proofs

### The parser

For every set of texts that ends in end-of-file, every set of extensions, either dialect and
every bound (`ProgramsAssumption`, `ConfigurationAssumption` in
`ParserMachine`), TLAPS proves:

| Theorem (`ParserProofs`) | States |
| --- | --- |
| `Invariance` | `Spec => []IInv` |
| `TypesAreRight` | `Spec => []TypeOK` |
| `ChainMatchesCallStack` | `Spec => []BacktrackersMatchCallStack` |
| `MarksStayBehindTheCursor` | `Spec => []MarksAreBehind` |
| `DelaysEndWithTheirLists` | `Spec => []NoDelayOutlivesItsList` |
| `ParserImplementsSpeculation` | `Spec => SpeculationIsSound` |

**The inductive invariant.** `IInv` is `TypeOK`, `MarksAreBehind` and
`Consistent(todo, backtracker, IDsForDelay)`. `BacktrackersMatchCallStack` alone is not
inductive: a routine that discards a Backtracker early removes the entry under
it without looking at it, which is right only if that entry *is* the
Backtracker's. `Guards`, a part of `Consistent`, says so: an entry that discards
stands directly above a Backtracker. The other parts are: each Backtracker entry has its element in
the chain (`HasChain`), each element its entry (`IsLive`), levels
increase (`IsNested`), and each delayed identifier has its delayer.

**The argument.** The parser has some two hundred actions, but few kinds of
step: routines that replace themselves by plain work, those that begin an attempt, keep
or give one up, begin or end a delay, unwind, or end the program.
`ParserSteps` defines the kinds, proves which kind each helper of
`ParserMachine` makes, and puts every routine into its
kind, one lemma each; `ParserProofs` proves once per kind that `IInv` is kept, and maps each
kind to a step or a stutter of `Speculation`.

### The reparser

For every set of trees in which ambiguous nodes have their two readings and nodes have the children that
their handlers name (`TreesAssumption`, `ChildrenAssumption`), every set of names,
treatments and completeness:

| Theorem (`ReparserProofs`) | States |
| --- | --- |
| `ReparserInvariance` | `Spec => []IInv` |
| `ReparserTypes` | `Spec => []TypeOK` |
| `ReparserImplementsDisambiguation` | `Spec => DisambiguationIsSound` |

`TypeOK` says that the calls left to make are to places of the tree, which is
not inductive while the tree is written to: `SameShape` adds that it keeps kinds, names and arities,
`Untouched` that nothing is written before the catalog is complete (so that the
cataloger may rely on what the parser made), and `OneLevel` that only the root opens a level
(so that what the innermost level knows is what is known at all: the refinement
mapping takes the union of the levels). `OverwrittenTree` is the lemma that carries the
rest: replacing a child that is ambiguous by any node of a tree gives a tree again, with the same calls on it. The
refinement then follows action by action: catalog steps learn or stutter, the
end of the first walk stops learning, `Keep` decides, and everything else stutters.

### The lexer

For every set of texts and options (`Inputs`, of which `InputsAssumption` says that a text is a
sequence of units, a character or a word each, and that a unit is of at least one character):

| Theorem | States |
| --- | --- |
| `TokenInText` (`ScanningProofs`) | `TokenAt(i)` ends behind `i` and within the text |
| `PlacesInvariance` (`LexerProofs`) | `Spec => []PInv` |
| `LexerTypes` | `Spec => []TypeOK` |
| `TokensAreInOrder` | `Spec => []TokensInOrder` |
| `LexerInvariance` | `Spec => []IInv` |
| `BracesAreMatched` | `Spec => []BracesMatch` |
| `PositionsAreInTheText` | `Spec => []PositionsInTheText` |

**What a token reaches.** The scanning routines are loops. Most of them stop at
the first character of some kind, which the model says with the least place of a
set (`First`), so that no induction is needed: the set has the end of the text in it, where no
character is, and has a least element since it is a set of numbers. Those that pass over
an escape or a prefix step by step (`Until`) are recursive functions on the places up to
the end; `ScanIsDefined`, `ScanIsUnique` and `RecursionIsDefined` prove, by the least place at
which it might go wrong, that such a function exists, and `UntilStays` and `RecursionStays` that it never
leads behind the end. On these rest one lemma per kind of literal, number, word, comment and
punctuator, and `TokenInText` for the switch of `yylex_core`.

**The order of the tokens.** `TokensInOrder` speaks of the tokens that were added. `PInv` adds what is
true of the one on its way there: `tk` begins behind every token of the tree
and ends at `at`; only a token of the kind 0 may be empty; `lex` stops at one; and
the index into what a mark gave is within it. `TypeOK` is a part of it.

**The braces.** `BracesMatch` speaks of the end of a reading. `IInv` says what holds on the way:
every opening brace is matched or on the stack, and from the one at place *k* of
the stack there are as many openings left as there are places from *k* to
the top (`StaysOpen`). `CountOfLast` is the lemma about counting; the proof then has one lemma per
case of `MatchBraces`. Nothing is used of the routines that scan a token but
that a token has a kind, so this theorem holds however they cut the text.

**The positions.** `computePosition` searches the starts of the lines, and then the line directives,
for the last one before an offset. `PositionsInTheText` counts newlines instead. Three facts relate the two: offsets
grow along the text and so tell its places (`OffsetGrows`, `OffsetsTellPlaces`; here a unit must not be empty),
line *n* starts behind the *n*th newline (`LineHasNewline`, `StartsOfLines`), and the starts are in order, so that
`lower_bound` finds the line of every place that does not begin one (`LineIsFound`). The directives are searched from the
first one on, which finds the right one only if they are in order. That is the inductive part, `DInv`: each directive
lies at a place that was read, their offsets do not decrease, and none of them is behind the hash that is being read (`HashOK`), which
is where the next one will lie.

### The compilation

For every set of programs in which tree 0 is none (0 is the null pointer) and a file is a tree
that the parser makes (`ProgramsAssumption`). `IsTree` says of one what the handlers rely on: a parameter
and a type declaration have a first child, an array's or function's declarator has its inner one and its suffix, and
the declarator of a definition has a suffix under its pointers and parentheses
(`parseFunctionDefinition_AtOpenBrace` takes no other):

| Theorem (`CompilationProofs`) | States |
| --- | --- |
| `CompilationInvariance` | `Spec => []IInv` |
| `ModelsAreOfLinkedTrees` | `Spec => []ModelsOfLinkedTrees` |
| `ModelsAreKept` | `Spec => ModelsStay` |
| `BinderStacksAreBalanced` | `Spec => []StacksAreBalanced` |

`ModelsStay` alone is not inductive: the binder writes through the top of its
stacks, which might be a symbol of another tree. `IInv` adds that the stacks,
those swapped out among them, hold only symbols and types of the tree that is being
bound (`StacksAreOwn`), that tables are tables (`TablesAreTables`) and that the model's
entries are symbols declared there (`DeclaredHere`). Each handler is then shown to
make the tables *grow*: to add to them, or to write only to what is of its tree.
It holds of the steps that pop too few types as of the others, and up to the first
use of an empty stack, after which nothing is done.

**The balance of the stacks.** `StacksAreBalanced` speaks of the pop that is next; what makes it right was
pushed by another handler, dozens of calls ago, and nothing in the stacks says for whom. The invariant
(`Balanced`) therefore reads the calls that are left as a word: before and after each of them there is a *standing*, which
says of what kinds the open scopes are, whether the stashed scope is still closed, how many pending function types
and swapped stacks will be popped, and how many symbols of struct, union or enum declarations, which have no type of their own,
are on the stack. `Leads` says what one call does to a standing, `Fits` that a list of calls leads from one standing to another,
`Stands` that the stacks are as a standing says. `Balanced` is then: the calls that
are left fit from a standing that the stacks have to the end, where one scope is left. `FitsBoth` and `FitsOne` let a
list be split and put together, so that there is one lemma per handler, that the calls it makes fit in its place
(`SuffixFits`, `DefinitionFits`, `TypeDeclarationFits`, ...), and one per pop, that the stacks
follow (`CloseBalances`, `PopSymBalances`, ...). Two facts carry the rest. Symbols are popped by `popSym` and by `typeSymAtTopAndPopIt`,
which are not paired; but the latter pops only symbols that have a type, so those
that hold others (`Holders`) stay under whatever was pushed above them (`Held`). And a definition reopens a scope that some
declarator below it has stashed, which needs the induction along pointers and parentheses that `IsSuffixed` states as a set.
The stack of types is not in it, as it is not balanced (`leftovers`).

### The control-flow graph

For every list that a walk can hand over (nothing is assumed of a constant: there are none):

| Theorem (`ControlFlowProofs`) | States |
| --- | --- |
| `FlowInvariance` | `FlowSpec => []IInv` |
| `StacksAlwaysFit` | `FlowSpec => []StacksFit` |
| `OnlyOutsideIsUndefined` | `FlowSpec => []UndefinedOutsideOnly` |
| `LinksInvariance` | `FlowSpec => []LInv` |
| `PrintingAlwaysEnds` | `FlowSpec => []PrintingEnds` |

`Fits` collects what each stack holds, and one lemma for each step of a statement
(`MarkedFits`, `SequentialFits`, ... `PushLoopFits`) says that the step keeps it; most of them only
link or mark nodes, which `NodesReplaced` deals with once.
`UndefinedOutsideOnly` speaks of the list, which `getCFG` has half read, and of the stack of loops,
which is not cleared between functions and from which a loop is taken as soon as a
statement is no deeper. `LoopsKnown` relates them: a loop whose nodes are
still read (`IsOpen`) is on the stack at its level. `LeaveLoop` keeps
it since the loop it takes off is no less deep than the statement, and a loop around the statement is.
A break that finds no loop on the stack is therefore in none; likewise
`FunctionsKnown` for a statement that finds no function. `Begun` and `Turn` are
what the steps in between need.

That printing ends is a second invariant, `LInv`, on top of `IInv`. Each step of a statement only makes
jumps to the new node from nodes before it (`Ties`), but for `Continue` and `EndLoop`, which
make jumps back; these go to a loop (`BackTo`) whose false jump is not set yet, or is set to
the new node. So `Links` holds: every jump is forward, or back to a condition whose false jump, the
one that `printCFG` follows, is further on than the node that jumps. `Far` counts a condition as
what stands just before its false jump; it grows with every node that is printed (`PrintedIsFurther`),
no node is printed twice, and after as many steps as there are nodes the path is at
its end (`FS_PigeonHole`). `Links` fails where the statement that ends a loop has a jump already,
its own. Such a statement is a break or continue no deeper than a loop which is still on the stack;
`LoopsInForce` says what a loop on the stack means in the list (only deeper statements were met since), so that
`JumpEndsLoop`, which speaks of the list alone, is true there.

### Limits

**Only model-checked.** Liveness (`ParseReturns`, `CompleteUnitsAreBuilt`, `LexReturns`) is temporal under fairness.
The properties that speak of the text as a whole compare with recursive functions
over texts or trees, which calls for induction over data, or do not hold
of every text: `RecoveriesAreReported`,
`JumpsAreDiagnosedExactly`, `AmbiguitiesAreRetainedOnce`,
`DisambiguatedAsTheTextSays`, `PendingIsWhatIsLeft`, the lexer's `NothingIsLost`, `WrittenIsReadBack` and
`ExpandedWithinMarks`, those of the dumper (whose trees are recursive terms) with
`ReadsAListing`, the graph's `GraphOfTheText` and `CallsAreMarked`, and of the binder
`StacksAreRestored` (the stack of types, on plain files), `SymbolsAsWritten`, `ConstraintsAreReported` and `DeclaratorsAreFound`.

## Plan

Done, in this order: the parser and its proofs; the reparser and its proofs; the
lexer with positions and unparser; the dumper and the control-flow graph; the
binder and the compilation, with the proof that models are kept; the proofs about the lexer's
braces, types, order of tokens and positions; about the stacks of the control-flow graph and the end of its printing; and about those of the binder.

Left:

1. `MemoryPool` and `TextElementTable`: non-overlap and uniqueness.
2. The parser with its extensions off and for other categories than a translation unit; the regrouping of
   operands by precedence against a reference.
3. The control-flow graph as one of `do` and `switch`, which the code does not treat so far.
4. Proofs: that a delayed identifier is in the parser's diagnostics only if it was reported outside a list.

## Not modelled

The memory pool and the table of spellings (planned); wording of diagnostics, text, locations (values without
behaviour); the driver and its child process (input and
output); the plug-in interface and the standard library index (a table); the type checker and shapes
(skeletons); `VersionedMap` and `Substitution` (no file of the program uses them); `formalism` and `specification` (a separate Haskell
prototype and its notes); and the vendored command-line library.
