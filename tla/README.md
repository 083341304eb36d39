# YALLL compiler: TLA+ development

YALLL (`src/`) is a compiler front end in C++: an ANTLR grammar (`antlr/YALLL.g4`),
the ANTLR runtime it is built with (`antlr/cpp_runtime_4_13_2`), a visitor that walks the
syntax tree once (`src/compiler/visitor_impl.cpp`), and the classes it uses to resolve
types, keep scopes and emit LLVM IR. This directory holds TLA+ models of the compiler and
of the runtime's core, the TLC configurations that check them on small instances, and
TLAPS proofs about the type resolver, the operations, the scope and the compilation, the
streams, the lexer, the cache of merges and the driver.
`PROJECT.json` maps each definition to its lines.

## The system

The compiler:

| Part | State | Operations | Hard part | What makes it correct |
|---|---|---|---|---|
| types (`typesafety/typesafety.*`, `compatibilitymatrix.h`, `typesizes.h`) | constants | compatibility, size, strictness | compatibility is neither transitive nor symmetric; VOID has no size | the tables agree with each other |
| type resolver (`typesafety/typeresolver.*`) | the vector of proposals and the values they point to | `try_resolve`, `try_resolve_to_type` | order of operands, null `attached_value`, failure half way | success leaves a common type, failure touches nothing |
| operations (`operation/*`) | a tree of operators over values | gather proposals, resolve, generate | a failure in a subtree must reach the root | resolved means generatable |
| values (`value/*`) | text, type, LLVM value | conversion on demand | text parsed wider than its type, empty text | the literal's value survives |
| functions (`function/*`) | parameters, return value, noerr | signature, return | hidden first parameter, error pointer | call and definition agree |
| scope (`scoping/*`) | stack of frames, pointer to the active function | push, pop, add, find, activate | frames never popped, dangling pointer, unsigned wrap | each name means its innermost live declaration |
| visitor (`compiler/visitor_impl.*`) | scope, the builder's insertion point | one method per construct | all of the above nested in each other | code goes to the function it was written in |
| driver (`main.cpp`) | options, two C strings | one run | pointers that are never initialised, errors nobody reads | the module is written where it was asked for |
| imports, logger | one LLVM context, one builder, one logger | - | every part moves the same insertion point | - |

The runtime (below `antlr/cpp_runtime_4_13_2`):

| Part | State | Operations | Hard part | What makes it correct |
|---|---|---|---|---|
| character streams, UTF-8 | a text or a window of one, marks | load, consume, LA, seek, mark, release | windows that move, failed loads, malformed bytes | a cursor over a sequence, whatever is buffered |
| token streams | tokens fetched so far, or a window | the same, and lists of tokens | lazy fetching, hidden channels, looking back | the same |
| interval sets | a list of intervals | set operations | boundaries, EOF as -1 | they are sets |
| prediction contexts | graphs of call stacks, two caches | merge, share, evict | wildcards at the root, sharing by equality | a merge is a union |
| network (ATN) | states and transitions | read, verify, what may follow, bypass | rules that call each other | what the grammar says |
| parser prediction | DFAs shared by all parsers | `adaptivePredict` | threads between locks, SLL then LL, precedence | the least alternative that can succeed |
| lexer | DFAs shared by all lexers, modes | `nextToken` | longest match, predicates, actions in mid-token, EOF | longest token, first rule, nothing lost |
| parser | contexts, state, precedences | match, enter, recurse, recover | left recursion, errors, EOF | sentences are accepted, the tree holds the text |
| rewriter | a program of edits | insert, replace, delete, text | edits that overlap | the edits one by one |
| trees, XPath, tree patterns | a tree | walk, search, split, match | iteration instead of recursion, escapes | what a tree says of itself |

The driver makes a character stream of a file, the lexer reads it, the parser asks the
token stream, the prediction and its error strategy, and builds the tree the visitor
walks. The visitor asks the scope for names, builds a tree of operations, has it
resolved (each terminal hands the resolver a proposal with a pointer to its value, and
the resolver writes the type back through it), has it generated, and stores the LLVM
value in the scope.

In the compiler everything runs on one thread: what makes it hard is the order of calls.
A program is an arbitrary sequence of visits, each of which leaves something behind -
frames, the active function, the insertion point, values already generated - that the next
one trusts. The constructs of the program are therefore the actions of the model. The
runtime is built to be shared: parsers and lexers of one grammar use one network and one
set of DFAs under two locks, which are released while a set is computed. There the steps
between two locks are the actions.

## Modules

### The compiler

- `YalllTypes` - the types, the matrix, the sizes. The matrix (15 rows of 15) is
  given by the five families whose rows it repeats; TBD's row is the exception. Its second
  part is the vector of proposals as the operations produce it: a proposal has an attached
  value exactly when it is not fixed, and automatic types come from literals. Its third is
  `Resolution`, the type `try_resolve` settles on as a function of the vector, with its ways
  out; what `Compiler` and `Operations` call.
- `TypeResolver` - `try_resolve` and `try_resolve_to_type`, one action per loop
  iteration, with every way out: true, false, a null dereference, an exception.
- `ResolverContract` - what a call promises, as one step without loops.
- `ResolutionProofs`, `TypeResolverProofs` - the theorems about these three: of `Resolution`
  and of the loops.
- `Operations` - one tree of operators, from the statement it stands in: each node's
  `gather_and_resolve_proposals`, `resolve_with_type_info`, the second resolution of a
  return that does not fit, and each node's `generate_value`. The tree is the sequence of
  its nodes in the order both traversals leave them, children first. `types` are the types
  in the values of the terminals, which resolving writes; `handed` the vectors the nodes
  return; `made` the type and the LLVM type of the values generated. `failed` and
  `ill_typed` record what the code notices nowhere: the nodes whose resolution was refused
  and those whose instruction has operands LLVM does not allow. `OperationsProofs` has its theorems.
- `Literals` - a terminal of an operation with the text of a literal, resolved and
  generated several times: `to_llvm` and the copies it is called on.
- `Scope` - the methods of `scoping::Scope` as operators on a scope.
- `Compiler` (extends `Scope` and `YalllTypes`) - the visitor. `scope` is `cur_scope`,
  `calls` the visit methods on the C++ stack, `fns` the functions of the LLVM module,
  `ip` the builder's insertion point (a function, a block in no function, or nothing),
  `status` whether the compiler still runs and how it died. There is one action per
  construct that can be visited, and one for each visit method that does something
  after its children (`BlockEnd`, `FunctionEnd`, `EntryEnd`, `ClassEnd`, `IfEnd`, `ProgramEnd`).
- `CompilerProofs` - what each method of a scope does to a well-formed scope, and the
  theorems about compilations.
- `Driver` - `main`: which argument is taken for what, the load, the end of the
  compilation, the write. Its theorem is in `LibraryProofs`.
- `MCParser` has the parser rules of `YALLL.g4` as trees, beside the small grammars of its run.

### The runtime

- `IntStream` - the abstract stream. `BufferedTokenStream` (with `CommonTokenStream`),
  `UnbufferedTokenStream`, `UnbufferedCharStream` and `ANTLRInputStream` are the streams
  of these names, each with an `INSTANCE IntStream WITH` that says what of it is cursor,
  symbols and marks. `BufferedStreamProofs` has the theorems about the first two,
  `StreamProofs` those about the others.
- `Utf8` - decoding by the table of leading bytes, encoding by ranges, strict or lenient.
- `IntervalSet` - the list, with `add`, `And`, `subtract`, `complement`, `remove` and the
  queries; `LibraryProofs` has its theorem.
- `PredictionContext` - contexts as lists of entries, `merge` with its cases and cache,
  `toStrings`; `PredictionMerges` merges two in a row as a set of configurations does;
  `PredictionContextCache` has them as objects with an identity; `PredictionContextMergeCache`
  is the map with links from the latest used to the oldest, and `LibraryProofs` has its theorem.
- `SemanticContext` - predicates, `And`, `Or`, `evaluate`, `evalPrecedence`.
- `ATN` - the network after deserialization and `LL1Analyzer`; `ATNDeserializer` reads it
  from the tool's integers and adds the bypass alternatives. It ends with how the tool lays out
  a grammar as a network.
- `ATNSimulation` - `closure_`, `computeReachSet`, `computeStartState`, the conflicts of
  `PredictionMode`, predicates, and a prediction from an empty DFA (`Predicted`).
  `ParserATNSimulator` is the same by several parsers with one DFA: `run` is where each of
  them is between two locks.
- `Lexer` - the same for lexers (`LexerATNSimulator` is its first part), then `nextToken`,
  actions and modes. The recursion of `closure` is a stack of the configurations it is still to
  be called for (`Visit`), depth first as in the code; `IsLexerNet` says what a lexer's network
  is made of. `LexerProofs` has its theorem.
- `Parser` - `Parser` and the rule contexts as operators on a record, then the two error
  strategies; `ParserInterpreter` the parser that walks the network, one action per kind of state.
- These are compared with the network walked with whole stacks and in all ways at once (the
  last part of `ATNSimulation`), and with `Derivation`, a parser that walks it, reads and reports.
- `TokenStreamRewriter` - the program of operations, `rollback`, `getText` with its reduction.
- `Trees` - trees as sequences of nodes: searches, spans, the walker and the printer step
  by step, XPath's `split` and its elements.
- `ParseTreePatternMatcher` - `split` of a pattern's text and `matchImpl`.

### The modules that TLC runs

`MCTypeResolver`, `MCOperations` and `MCCompiler` give values to the constants. `MCLibrary`
runs fourteen independent modules side by side: `kind` is the one in use, and the variables
of the others stay 0. `MCPrediction`, `MCLexer` and `MCParser` hold small grammars, laid out
as networks the way the tool does it, together with the strings of each,
read off the same trees; an `ASSUME` has every network pass the code's own `verifyATN`.

Operators named `X_Something` next to an `X` are mutants of it: the same code with a
plausible slip. They are used nowhere; putting one in place of `X` breaks the
property it is listed with in `PROJECT.json`.

### Abstractions

- What an operation is in `Compiler`: a literal, a name, a call without arguments or one
  with `onerr`. That is all of an operation the scope sees; trees are in `Operations`. The
  resolver is used through its closed forms, `FitsHint` with a type and `Resolution` without
  one. Of an LLVM value `Compiler` keeps where it is computed: nowhere, a constant, a function.
- In `Operations` a name stands for a variable that has been given a value. LLVM is taken to
  be built without its assertions, so an ill-typed instruction is made and recorded; an
  operand without any value ends the compiler.
- `Literals` scales the widths: 2, 3, 4 and 5 bits stand for 8, 16, 32 and 64, so that every
  number up to the widest limit and beyond is tried.
- Undefined behaviour: a read through a dangling `active_function` ends the behaviour
  (`status = "undefined"`), since nothing can be said of what follows; `moveAfter` on blocks
  in no function is both of its outcomes; `arg_file` and `arg_out_path` that no option set
  are null, wild, or some text.
- A character or token in a stream is its index; its text plays no part there. The
  unbuffered character stream's inputs do not hold U+FFFF, which it takes for the end.
- In a closure, the busy set holds configurations as they were when they were added, though
  the code shares them with the set that later merges change.
- Token types above `maxTokenType`, which the DFA keeps no edges for, do not occur in
  predictions; they do in a network with bypass alternatives, where every prediction is made
  from an empty DFA anyway. So are the predictions of `ParserInterpreter` and those of the
  grammars of `MCParser`: that a DFA changes none of them is what `DFAIsTimeless` says.
- The interpreter's predicates are all true and its actions do nothing, as in the code.
- In the grammar of `MCParser` the token `BASE_T` stands for the base types but `i32`, and
  `COMPARE_SYM` for the comparisons. XPathLexer's network is the one the code carries, read by
  `ATNDeserializer`, over nine characters that tell its sets apart.

## Runs

| Run | Question | Bounds | Distinct states |
|---|---|---|---|
| `resolver` (`MCTypeResolver.cfg`) | Does every call implement the contract, leave values alone on failure, and end? | vectors of up to 3 proposals over 12 types, 6 of them also fixed; 7 hints and none | 131,860 |
| `operations` (`MCOperations.cfg`) | Do resolved trees generate well-typed code, and is resolving again harmless? | trees of up to 3 terminals and 2 operators over 10 terminals, 3 operators and 3 functions, and small ones with calls without arguments and with names and calls that have no type; 5 hints (with `void` and `tbd`), in a return or not | 2,101,378 |
| `compiler` (`MCCompiler.cfg`) | Do scope, insertion point and functions stay in step over whole programs? | 5 constructs and 3 functions, over two languages: numbers that are shadowed, functions with parameters; Booleans with branches, loops, calls of main and of functions whose types have no values | 741,000 |
| `library` (`MCLibrary.cfg`) | Do the data structures of the runtime, the literals and the driver do what they promise? | see below | 231,674 |
| `prediction` (`MCPrediction.cfg`) | Do parsers that share a DFA predict what the grammar says? | 2 parsers, 6 networks, 3 modes, 2 predictions each | 25,773 |
| `lexing` (`MCLexer.cfg`) | Do lexers that share their DFAs make the tokens the grammar says? | 2 lexers, 8 grammars, 2 to 4 texts each, 1 reset | 164,164 |
| `parsing` (`MCParser.cfg`) | Does a parser accept what it should, recover from the rest, and build the tree? | 10 grammars, all texts of up to 4 tokens of 3 types (chosen programs of YALLL's grammar), 2 strategies, 2 parses by one parser | 68,822 |

The bounds in `library`: token streams over the texts of up to three tokens and two channels,
looking up to 2 and seeking up to 3, with up to 2 marks; character streams of up to 3
characters; intervals over -2..3; two contexts of depth 2 over 2 return states, merged twice;
cached contexts of up to 5 objects in 2 configurations; merge caches of sizes 0, 1 and 3 with 4
keys; literals up to twice resolved and generated; rewriters over 3 tokens (EOF is one) with up
to 4 operations; all trees of up to 4 nodes with 2 rules, 2 tokens and error nodes, paths of
up to 4 symbols; patterns of up to 5 nodes against trees of up to 3, pattern texts of up to 4
symbols; byte sequences of up to 4 bytes at the edges of what UTF-8 tells apart and pairs of 14
code points; command lines of up to 4 arguments, with option values that are options.

Why the bounds are enough.

- The resolver's loops compare one value with the first one or with the biggest so far: three
  values hold a first, one that stops the scan and one that comes after. In the proofs the
  length is unbounded.
- In a tree a refusal, a retyping or an empty vector reaches the node above and from there the
  root: two operators, each as the child of the other on either side, and a chain of three
  operands hold that. Calls without arguments are the only operands that hand up a fixed
  proposal of any type; two of them and a literal are what the second pass may differ on. In
  the proofs the size of the trees is unbounded.
- In the compiler a property is broken by a function, something in it, another function and a
  use; 5 constructs hold these with one to spare, and 3 functions hold main, one before and
  one nested.
- A stream's window moves, grows by a mark, and is dropped: two marks and a seek beyond the
  window hold every relation between cursor, window and mark. An interval operation looks at
  two neighbouring intervals; three of them fit into -2..3 with gaps.
- Contexts of depth 2 with 2 return states have every shape the merge tells apart (same
  parents, same return states, arrays of both, $ among the entries); the second merge reads
  the cache that the first has filled.
- A DFA's error needs one prediction that leaves something behind and one that finds it: two
  parsers with two predictions each, over grammars in which stack, precedence or predicate
  change the answer.
- Lexer and parser grammars are one for each mechanism: modes, `more`, predicates, lazy loops, EOF
  in a rule and a predicate behind it, custom actions, recursion; and optional rules, loops,
  alternatives with a common prefix, left recursion with both associativities, sets and wildcards,
  ambiguity, bypass alternatives, overrides. Four tokens hold two errors with a token between.

`MaxVisits` bounds the calls that make one closure of a lexer. 20 is more than any closure of
`lexing` takes: with 16 one is cut short, and `MatchesLongest` is violated. In the proofs it is
any number.

`CHECK_DEADLOCK FALSE` is said in every run: a call that returned, a compilation that
ended, a finished parse and the texts at their end do stop.

### What the passing runs show

The compiler:

- `FailureTouchesNothing`: a resolution that fails, or dies, has not changed a value.
- `ImplementsContract`: with a hint the resolver accepts exactly the vectors whose
  values all fit it. Without one it accepts every vector with a common type, and
  nothing else unless a literal meets a type narrower than 32 bits; and it dies only
  where the contract says so.
- `Terminates`: every call ends (see Fairness).
- `ComputesResolution`: the loops compute the closed forms the callers are modelled with.
- `GeneratesWell`: a tree that resolved generates instructions whose operands fit, and a
  value of the type that was asked for, unless one of these strains occurs: a resolution
  was refused and nobody above learnt of it; names or results of different LLVM types that
  the matrix calls compatible (an `i8` resolved to `i32` stays 8 bits wide); arguments, which
  are resolved to the type of the result, where the parameters have another type or number or
  the result has no LLVM type; an arithmetic root whose statement asks for a type LLVM does not
  have; a literal compared with a value narrower than 32 bits. Dropping any one of these from the
  property makes TLC find a tree that needs it: each is a real behaviour of the code.
- `SecondPassAgrees`: the second resolution of a return, over values the first has retyped,
  changes nothing at any node, unless a literal is compared with a narrow value (the first pass
  meets an untyped literal, the second a number of 32 bits) or the results of calls of two widths
  are compared (a literal in front of them takes the type of the first call; the second pass,
  which finds no literal, takes the wider).
- `LiteralsStand`: however often it is resolved and generated, a literal that was last resolved to
  a number type becomes a constant of that type, with its number if that fits; only one that does
  not fit, or a variable nothing was assigned to, stops the compiler. (A literal that no operand
  gives a type stays `intauto` and becomes no constant.)
- `FramesAccounted`: root + one leaked frame per function + one per open block, in every
  program; so `pop` never takes the root, which `scope.cpp:20` only logs.
- `LocalsConfined`, `FunctionsStayVisible`: unless a function is nested in a block, no
  local of a finished block is left, and functions are found for as long as they are needed.
- `CompilesIntoItsFunction`: the active function and the insertion point are those of
  the body being compiled, and a finished main has its return, with nesting and open branches
  as the exceptions.
- `ImmutableOnce`: no immutable variable or parameter is given a second value, and no
  declaration changes, as long as its frame lives.
- `OperandsStayHome`: an instruction's value is used only in its own function, unless one was
  put where it outlives its function (a variable declared outside of any block, or main's
  result), a function is nested, or a branch is being compiled.
- `WritesWhereTold`: with both options, a program that returns has written the module of the
  source that was meant where it was meant to go, or left the disk as it was; one that dies
  has touched nothing.

The runtime's data structures (run `library`):

- `StreamsAreIntStream`: four streams are cursors over a sequence. The exceptions are named:
  `SoughtTooFar` (an unfiltered buffered stream seeks beyond what it fetched, and looking back
  then reads what is not there), `SoughtShort` (a forward seek over the end of a window stops one
  short), `LookedBackWrongly` (LA(-1) or LT(-1) of what the window dropped), `LookedTooFarBack`
  (further back than one, an unbuffered stream answers with the symbol before the one asked for,
  or throws), `BeyondEnd` (the
  unbuffered character stream passes its end), `FailedToLoad` and `Stranded` (a load that throws
  leaves the position of the text before), `Reloaded` (a load starts anew).
- `KeepsWhatIsAsked`: lists of tokens are complete however lazily they were fetched, and
  everything from the first mark on can be returned to.
- `ActsAsSet`: the operations are those of sets and keep the list sorted and its
  intervals disjoint (whether neighbours are joined is left open, see below), and the queries
  tell what is in the set, `get` and `size` by listing it in order; but for `Forgotten`: `subtract`
  may lose neighbours of EOF, for it keeps a remainder only if that starts above -1, which is where
  an interval starts that was not set.
- `MergeIsUnion`: a merge has the stacks of both and no more, whichever is first; equal sets of
  stacks are equal graphs. While one cache holds merges with and without a root wildcard
  (`mixed`), the first claim is not made. `toStrings` writes every stack of a context that
  branches in one place and has no $ beside another entry.
- `SharesEquals`, `KeepsLatest`: equal contexts of kept sets are one object, and nothing shared
  is changed; the merge cache is a list of the latest merges, read from either end.
- `TextIsAsEdited`: what the rewriter makes at once is what its operations make one by one, but
  for `Cut` (a range entered in the middle of a replacement shows it raw), `Skipped` (an
  insertion swallowed by a later deletion) and `Withdrawn` (programs that were rolled back); and
  it leaves open, as the header is of two minds or differs from the code, whether a replacement
  wipes out what was inserted before it and whether a range ends with what was inserted behind it.
- `WalksInOrder`, `FindsAsDeclared`: walker and printer, which do without recursion, tell what
  it would; searches, spans and the smallest enclosing context are what the parents and leaves
  say (not with `EmptyAtStart`, a context without a stop).
- `SplitsAsWritten`, `SelectsByPath`: a path is split as its grammar says (except `Adjacent`
  words, which it should refuse, and `StringFirst`, which it should not), and each element selects
  the nodes its words say (except `Unheard`, a `!` after `//`). `SplitsTheText`: a pattern is
  refused unless its tags follow one another (nothing is said of `Nested` ones), and comes in as
  many chunks as it has tags and texts. What the chunks say is lost in the code, so nothing is
  said of it.
- `MatchIsInstance`: a tree matches iff it is the pattern with something fitting at each tag; else
  the first mismatch is returned; labels hold what is in their places.
- `SpellsUnicode`: exactly the shortest forms of scalar values are decoded and encoded; strict
  calls refuse just what lenient ones replace.

Prediction, lexing and parsing:

- `PredictsLeast`: whatever was predicted before and whatever the other parser stores in between,
  the prediction is the least alternative from which the rest can be parsed with the parser's
  stack (modes LL and LL_EXACT; SLL does not promise it). `DFAIsTimeless`: all that the DFA
  holds is what a fresh parser would compute. `EndsAtEOF`: no prediction looks further than one
  EOF. `ExpectsWhatFits`: the expected tokens are those some way goes on with.
- `MatchesLongest`: each match is the longest, by the first rule of that length; what no rule
  matches is dropped up to the first character that no rule goes on with. A match in which a
  predicate stands behind EOF is `Broken` off by an exception, there and nowhere else (grammar
  `Asked`). `TilesTheText`: nothing is lost or lexed twice, but for what such a match had read,
  which is the end of the text; and lines and columns are right, unless an action has
  `Displaced` the input. `TokensAreAsTold`: tokens, modes and custom actions follow from the
  commands of the rules matched (where an action in a token of varying length runs, `Wanders`,
  is left open).
- `AcceptsSentences`: parsed without an error are the sentences and nothing else (until a wildcard
  has taken EOF, `WildAtEOF`). `TreeHoldsTheText`: under each context are the tokens of its span,
  in order, after every recovery. `Derives`: the parser's steps are those of the abstract
  `Derivation`: it walks the network, and leaves it only where it reports an error or has read
  nothing since. It makes no two reports where it stands, and a report names the token it stands
  at or, where lookahead went further in vain, one ahead: so two reports may name one token (`s :
  x 'b' 'c' ; x : 'b' 'c' | 'b' 'd' ;` on `b e` names e twice). `ExpectationsAgree`:
  `isExpectedToken` and `getExpectedTokens` say the same. `MakesProgress`: no token sees more
  contexts than the network has states.

The exceptions to these properties are real behaviours of the code. Each is written as a
condition on the state so that what lies outside it is checked.

### Where the code and what is written about it part

Each of these runs has one property, taken from a comment, and ends in a counterexample.

| Run | Says | Does |
|---|---|---|
| `same_real_type` | `typeresolver.h:32`: `try_resolve` leaves one real type in all values | an 8 or 16 bit value and a literal resolve to the literal's type |
| `entry_has_exit` | `visitor_impl.cpp:154`: main gets an error exit | not if a function is nested in main |
| `names_are_reported` | `visitor_impl.cpp:231`: an undeclared variable is reported | the search's index wraps and `at()` throws |
| `input_is_restored` | `LexerActionExecutor.h:86`: the input's position is restored | the finalizer has a copy of its flag and never seeks |
| `wildcard_needs_token` | `Parser.h:86`: a mismatch throws | EOF is the largest `size_t`, and a wildcard takes it |

What else was met while modelling, and is in the models as the code does it:

- Compiler: `noerr` is dropped (`visitor_impl.cpp:285`; `errorhandling.md:40`); a branch moves
  blocks that may be in no function (`:373`); a return of the wrong type falls through to the
  one outside of functions (`:184`); unary `!` and `-` have no visit method, so the default one
  answers with the last child's result, the operand; the prefixes `iserr`, `reterr` are not
  read; an operation with `onerr` that is used as a value ends in a `bad_any_cast`.
- Values: a copy keeps the text and not the null value or the line, so that messages quote a
  line that was never set.
- Driver: options without values, and missing ones, leave pointers uninitialised; the exit
  code is 0 whatever happened.
- Runtime: `PredictionContext.cpp:217` looks merges up without their wildcard flag;
  `combineCommonParents` has no effect; `toStrings` misses or repeats stacks of a context that
  branches twice, and follows a null parent behind $; `getAllContextNodes` does the same for
  EMPTY; the deserializer keeps null pointers for states of type 0, to ignore them
  (`ATNDeserializer.cpp:282`), and reads through them (`:389`); a range that starts with EOF
  matches nothing; `addTransition` drops a second edge to the same target (`ATNState.cpp:37`); a
  text asked for twice reads through the operations that the first time has deleted
  (`TokenStreamRewriter.cpp:318`), and an insertion that has joined a replacement is read after
  its deletion (`:391`); `replaceString` with an empty pattern does not end; XPath drops
  characters that are no token, and takes two words in a row; `isAncestorOf` denies that the root
  is an ancestor; a pattern's chunks are kept by value as their base class, so that compiling a
  pattern reads text that is gone, and tags that touch are refused for the empty text between
  them.

No comment, document or test says otherwise of most of these; they are listed so that a
reader of the models finds them on purpose. Where one does, the property about it has an exception
that names the case, or leaves it open:

| Says | Does | In the models |
|---|---|---|
| `IntStream.h:88-89`: LA(-k) is the k-th symbol back, if a mark keeps it | `UnbufferedTokenStream.cpp:49`, `UnbufferedCharStream.cpp:89`: the one before that, or an exception, for k > 1 | `LookedTooFarBack` |
| `IntervalSet.h:67-69`: 6..7 added to {1..5, 10..20} stays an interval of its own | neighbours are joined | `InOrder` allows both; `IsNormal` is the code's |
| `XPathLexer.g4:15-19`, `XPath.h:48`: a STRING is a word of a path | at the start of a path it is refused | `StringFirst` |
| `XPath.h:40-41`: `!` inverts after `/` and `//` | behind `//` a name does not hear it | `Unheard` |
| `TokenStreamRewriter.h:101-103`: `rollback` takes operations back | it takes nothing back (`TokenStreamRewriter.cpp:114`) | `Withdrawn` |
| `TokenStreamRewriter.h:151-152`: a text includes what `insertAfter` put behind its stop token | only if that is the last token | `trails` of `Expected` |
| `TokenStreamRewriter.h:265-268`: of an insertion and a replacement at one index the replacement stays | the insertion stays before it, as the header's own table has it (`:240`) | `wipes` of `Expected` |
| `ParseTreePatternMatcher.cpp:350`: backslashes are stripped from the chunks of text | a vector of `Chunk` has no text to strip | `Sliced`; `SplitsTheText` counts chunks |
| `LexerATNSimulator.h:149-156`: a predicate is asked behind the matched character, and input and simulator are restored | `LexerATNSimulator.cpp:480`: behind EOF `consume` throws, out of `nextToken`, before the predicate is asked | `BreakOff`, `Broken` |

### Fairness

`Terminates` is checked under `WF_vars(Next)`: one thread runs the call and nothing else; a
step that can be taken is taken. For predictions, lexers and parsers the fairness would be the
same, but what must eventually happen is checked as a bound on the steps (`EndsAtEOF`,
`MakesProgress`), which is stronger and needs no fairness: a prediction that looks no further
than the end, in networks that are finite, ends, and so does a parser that begins finitely
many contexts at each token.

## Proofs

Everything below holds for all values of the constants that satisfy the named assumptions:
vectors, trees and programs of every length. Each assumption says what the code's inputs are,
and TLC evaluates it on the run of the module; those of the streams, of the sets and of the
driver are hypotheses of their theorems, and the values that `MCLibrary` gives satisfy them.

### The resolver (`ResolutionProofs`, `TypeResolverProofs`)

From `InputsAssumption` (well-formed vectors: automatic types come from literals, which are not
fixed) and `HintsAssumption` (hints are declared types).

- `TypeCorrect`: `Spec => []TypeOK`
- `FailuresAreClean`: `Spec => []FailureTouchesNothing`
- `ImplementsItsContract`: `Spec => ImplementsContract`
- `LoopsComputeResolution`: `Spec => []ComputesResolution`
- `ResolutionIsSound`, `ResolutionAgain`: what the type that a vector settles on is to its
  values, and that it is stable (see below).

None of the first three is inductive. The invariant `IInv` adds what the loops know: `EntryInv`
(before the scan and during the hinted loop nothing is decided, and the values passed fit the
hint), `ScanInv` (the values passed are loose and not fixed), `SettleInv` (the biggest type is
the first strict or fixed one, or that of the first value), `CheckInv` (the biggest type is the
type of a value passed or the default, and is compatible with all of them unless a literal meets
a narrow type). `Init` establishes `IInv`, every action preserves it (one lemma for each way an
action ends: `Return`, `ReturnCast`, `Goto`), and it implies the two invariants. The refinement
maps `result` to the contract's `verdict`: a step that ends the call is a step of the contract,
by `CheckInv` at `CheckEnd` and by the entry clause at `HintEnd`; every other step is a stutter.
The lemmas about the matrix (`StrictIsABridge`, `NothingTakesTBD`, `VoidIsAlone`) say why
comparing each value with the biggest one is enough: compatibility is not transitive, but it is
through a strict type.

`Resolution` is a recursive function over the turns of the second loop. The library's induction
cannot be used (see below), so its facts are found as a least counterexample: that the function
exists at all (`TurnsAre`), and that a property of its turns that holds at the first and passes
from one to the next holds at the last. `LoopsComputeResolution` then carries `biggest_type =
Turns(values)[k - 1]` through the loop. `ResolutionIsSound`: if no literal meets a narrow type,
the type is strict, not void, compatible with every value, and one of theirs unless all are
untyped literals. `ResolutionAgain`: if moreover all fixed values have one type, resolving the
vector again after its values took the type gives the same type; the widest value is the one
that decides (`ResolutionIsWidest`, `WiderWins`).

### Operations (`OperationsProofs`)

From `TreesAssumption` (children come before their node, each node but the root is an operand
once, terminals have no operands, the types are those a literal or a declaration can have) and
`HintsAssumption`.

- `OperationsGenerateWell`: `Spec => []GeneratesWell`
- `SecondPassComesAgain`: `Spec => SecondPassAgrees`

The argument turns on what a node answers for. `Hands(t)[n]` are the nodes whose proposals n
hands up (arithmetic those of its operands, any other node its own), `Reaching(t, a)` what
reaches a node that resolves. `ResolvedOnce`: every proposal is resolved by one node only - so a
node that retypes values never disturbs what another has settled, in whatever order the nodes
are visited. `IInv` has eight parts, and each is needed for the next:

- `Typed`, `Ordered`: the types of the variables; which phase goes with which answer.
- `AllTold`: the vector a visited node handed up is about the nodes it answers for and no others
  (`SpeaksFor`). Without it nothing relates a vector to the tree.
- `UpToDate`: a proposal that still waits for its resolution has the type its value has now.
- `Awaiting`: what was not resolved is as it was written, or, in a second pass, as the first left it.
- `AllSettled`, `StatementSettled`: what was resolved has the type it was resolved to, and what
  resolving cannot change (names and results) has the LLVM type of that, where the node is
  `Straight`.
- `GeneratedWell`: what was generated has the type its operands were resolved to.

The five actions that gather are cases of one lemma, `GatherStep`; the two that resolve the
statement end in `GenerateStarts`; those that generate are cases of `MakeStep`. A tree without
the strains that `GeneratesWell` names is straight at every node (`CleanIsStraight`), and then
every operand agrees with its node, which is shown from the root downwards (`OperandsAgree`).

For the second pass the invariant is extended by `ComesAgain` and `Untouched`. `Heard(a)` is what
a node is handed, with the types its terminals were written with; `ComesAgain` says that a node
that was visited hands up what it would for the first time (again as written) and that the types
its values have now are its answer to `Heard(a)`. A step of the first pass establishes this for
its node, since what it is handed is as it was written (`Untouched`). A step of the second finds
its values retyped, and `FitsAgain` (with `ResolutionAgain` for comparisons) says that its answer
is the same; so it writes what is there. `Heard` depends on its operands' vectors through a fold
over sequences, which `WrittenFlat` opens. The condition that no comparison is `Doubtful` is kept
per node: nodes visited before one that may differ are still claimed.

Both properties were at first true only of the small trees that TLC saw. The proof of
`GeneratesWell` did not close for a call whose result type LLVM does not have, and for
arithmetic under a hint of that kind; that of `SecondPassAgrees` did not for a comparison of two
calls. Each failure was a real tree, which TLC confirmed once the run had it; the properties now
name the strains and the run has the trees.

### The scope and the compilation (`CompilerProofs`)

From `LanguagesAssumption` (what declarations, operations and signatures can be) and
`BoundsAssumption`; the bounds `MaxItems` and `MaxFunctions` are any numbers.

- `InvariantHolds`: `Spec => []IInv`
- `FramesAreAccounted`, `LocalsAreConfined`, `FunctionsAreVisible`, `CompilesWhereItIs`: `Spec =>
  []P` for `FramesAccounted`, `LocalsConfined`, `FunctionsStayVisible`, `CompilesIntoItsFunction`
- `ImmutableIsOnce`: `Spec => ImmutableOnce`
- `OperandsAreHomes`: `Spec => OperandsStayHome`

`IInv` has twelve parts. `Typed`; `CallsNest` (the program is visited first, a class and the
entry point directly in it) and `NextBlocks` (only a branch holds a block to go on in) are the
shape of the C++ stack, which `FramesAccounted` counts. `FunctionsKeepFrames` (a function of the
top level keeps the frame it leaked, and with it its name) is what `FunctionsStayVisible` needs;
`FunctionsInOrder` and `LastIsActive` (without nesting frames and functions are in one order and
the last is the active one) are what make lookup find the function that was meant. `LocalsAbove`
(locals lie above the functions' frames) gives `LocalsConfined` when the blocks are gone.
`InsertsAtHome` and `EntryReturns` give `CompilesIntoItsFunction`: that main has a return when it
is finished is not inductive unless it is said that an entry point without one is the last
function and still being visited. `LastingIsConstant` and `ValuesAreHome` (what outlives its
function is a constant, so every value at hand belongs to the last function) give
`OperandsStayHome`.

The actions are reduced to nine moves first (`MovesAre`): a step leaves everything alone
(`Stays`), `Declares`, `Assigns`, `Returns`, `Opens` a block, `Begins` a function, `Ends` a block,
`Leaves` a visit or `EntersClass`. Each move is shown to keep the invariant by the lemmas
about the methods it calls, with no reference to the action it came from. `ImmutableOnce` is
proved of the moves in the same way (`StepsStand`).

`OperandsStayHome` was first stated with the exceptions TLC had asked for, a global or main's last
result. The proof of it failed, and with `MaxItems = 7` TLC finds why: the value may have left the
global by the time it is used, copied on to another variable and replaced there. Whether a value
was ever put where it outlives its function is now a note of the model.

### The streams (`StreamProofs`)

From `TextsAreTexts` (a byte order mark is part of the text it is stripped from), respectively
from lengths that are naturals; `Reach` is any number and `MaxMarks` is not needed.

- `InputIsIntStream`, `TokensAreIntStream`, `CharsAreIntStream`: `Spec => ImplementsIntStream`
- `TokensKeepMarkedRegion`: `Spec => []MarkedRegionIsKept`

They are three of the four parts of `StreamsAreIntStream` and one of the two of
`KeepsWhatIsAsked`. The invariants say where the window is (`TokensWindow`, `CharsWindow`): the
cursor is in it, a window of tokens ends no later than EOF, one of characters may, and the last
symbol consumed is the one before the cursor unless the cursor is the first of the window; and
that the window begins no later than the outermost mark (`TokensMarks`, `CharsMarks`), the only
index marks can have a claim on. A seek is treated once (`TokensSeek`, `CharsSeek`): it keeps
where the window begins and ends at what is sought, short of it, or not at all. The step lemmas
then compare each call with the contract's, whose cursor counts from 1 and whose marks are those
of the stream, shifted (`ShiftedIs`) and, for characters, cut off at EOF (`ClippedIs`). The
exceptions turn up as the cases in which that comparison fails: a look back by one from the start
of a window that no mark holds, a look back by more, which counts from one symbol further back, a
seek over the end of the window, a cursor beyond the end.

### The buffered streams (`BufferedStreamProofs`)

From `SourcesAreChannels`: sources hand out tokens on channels that are integers, as do the
filters. Nothing is said of how many tokens there are or how far calls reach.

- `BufferedIsIntStream`: `Spec => ImplementsIntStream`
- `BufferedListsAreComplete`: `Spec => []ListsAreComplete`

With the theorems of `StreamProofs` these are all four parts of `StreamsAreIntStream` and both of
`KeepsWhatIsAsked`. The invariant is `BufferedInv`: the source ends in one EOF on the default
channel, EOF was fetched exactly when all of the source was (`Coherent`), and behind setup a
token is there and `p` of a filtering stream is an index it stops at (`Ready`). The last is what
`LT` relies on ("we know tokens[p] is a good one"), and without it the loops of `LT` and `LB`
would count from the wrong token.

The contract's symbols are those indices in order: a recursive function over the source, with
the facts about it in `BufferedSymbols` (each stop is listed once, in order, EOF last).
`NextSymbol` and `PreviousSymbol` say that what `nextTokenOnChannel` and `previousTokenOnChannel`
find is the neighbour in that list, whatever they fetch on the way; `CommonAheadIs` and
`CommonBackIs` carry this through the loops, step by step. A stream that does not filter
stops at every index (`EverySymbol`). `BackOfIs` is where the exception comes from: a `p` beyond
the first token that was not fetched, or beyond EOF, counts back from outside the list (`TooFar`).

### The lexer (`LexerProofs`)

- `LexingTilesTheText`: `Spec /\ NoRuleIsEmpty => []TilesTheText`, for any number of lexers,
  resets and new inputs, texts of every length, and networks of every size.

A match that is `Broken` off is one of the matches; that it ends at the end of the text, so that
no text behind it is skipped, is part of `TilesTheText` and of what is proved. It is shown from
`GrammarsAreLexers`, what `ATNDeserializer` makes of a lexer grammar: the kinds of edges there
are, targets and modes that exist, texts that are sequences of characters. The hypothesis
`NoRuleIsEmpty` is about the network only, which no step changes (`EmptinessIsOfTheNetwork`): at
the start of no mode an alternative is already at its end. It is needed. A rule that matches
nothing makes the lexer match an empty token, at the same place, again and again; the tool warns
of such rules, and no grammar of `lexing` has one.

What matched text is depends on what the DFA says is accepted, and the DFA is filled by other
lexers at other places. So the invariant, `LexerInv`, is about the DFAs as well as the lexers:

- the network is one of a lexer (`NetOK`), the texts are sequences of characters;
- `AreDFAs`: every state of a DFA is a list of configurations, and its start accepts nothing.
  This is what makes a match that ends before the first character impossible, whoever added the state;
- every lexer is `Fine`. It has the types of `States`; it `Remembers`: the last state it
  noted as accepting does accept; and unless an action has `Displaced` its input it is `Sound`:
  its matches follow one another from the start of the text to its position, line and column are
  those of that position, and in mid-match (`Matching`) the accepted position lies behind the
  start of the token or at the end of the text.

`TilesTheText` alone is not inductive: it says nothing of a lexer in the middle of a match, of
what it will go back to when no edge is left, nor of what another lexer may find in the DFA.

Each action is a lemma. Below them, `ClosureIs`, `ReachIs` and their like say that closures and
reach sets stay among the configurations of the network, whatever their length. `Closure`,
`FlattenSeq` and the folds are recursive functions: that they exist (`FoldsExist`, `StepsExist`)
and that what holds at the first step and is handed on holds at the last are lemmas of their own,
the latter by a least counterexample as for `Resolution`.

`MatchesLongest` and `TokensAreAsTold` are not proved. They compare the network with the rules it
was made from, which the module takes as given side by side; that the tool lays out the one
as the other is outside of it.

### The merge cache, the interval sets and the driver (`LibraryProofs`)

- `MergesAreLatest`: `Spec => KeepsLatest`, for any keys and values and sizes that are naturals,
  provided that a null pointer is no key.
- `IntervalsActAsSets`: `Spec => [](NormalForm /\ ActsAsSet)`, for elements that are any set of
  integers and lists of every length.
- `DriverWrites`: `Spec => []WritesWhereTold`, for command lines of every length, provided that a
  null pointer is none of their strings.

The invariant of the cache, `MergeInv`: its entries are one list, linked both ways, that ends
where `head` and `tail` say, and the list is no longer than `maxSize`. The second half is why a
put drops one entry at most: before `compact` the list is longer by one at most, so its loop is
over after a turn, and the entry it is to preserve, which is in front of others then, is not the
last (`CompactDrops`, `CompactKeeps`). `MovedIsUsed`, `PushedIsFirst` and `RemovedIsLast` compare
what `moveToFront`, `pushToFront` and `remove` do to the links of an entry and its neighbours with
what happens to the list, each from what setting one link does (`PrevIsSet`, `NextIsSet`).

The invariant of the interval sets is that both lists are normal (`IsNormal`): sorted, with a gap
between any two; the theorem promises no gap, since the header does not (`NormalForm`). From it
follows what each operation does to such lists (`AddedIs`, `RemovedIs`, `AllAddedIs`, `AndIs`,
`SubtractedIs`, `ComplementIs`, and `HoldsIs`, `EqualsIs`, `CountedIs`, `GetsAll` of the queries).
The loops of `And` and `subtract` are recursive functions of the turns taken: they exist
(`TurnsExist`), and what each turn keeps holds after the last (`TurnsKeep`). `And` keeps that all
it has yet to find lies ahead of both its indices, and that the rest is found (`MeetInv`).
`subtract` keeps that what is behind either index meets nothing more that is to be taken away
(`CutInv`), and that an interval ahead which starts below 0 is still one of the original list: so
what it loses is no more than `Forgotten` says.

The invariant of the driver adds what the pointers are between `main` and the write
(`OptionIsMeant`: `get_cmd_option` finds what stands behind the first option of its kind) and that
the text loaded is the one that was on the disk when the program started.

### What stays with TLC, and why

- `Terminates`: liveness is out of the prover's reach.
- The modules built from `RECURSIVE` operators (`ATNSimulation`, `ATNDeserializer`, `Parser`,
  `ParserInterpreter`, `PredictionContext` with `PredictionMerges` and `PredictionContextCache`,
  `SemanticContext`, `TokenStreamRewriter`, `Trees`, `ParseTreePatternMatcher`, `Utf8`, and with
  them `MCLibrary`): closures, merges and walks are inductions over data. The library's induction
  theorems take an operator as a parameter, which the installed provers cannot instantiate, and
  the prover has no SMT backend where a `RECURSIVE` operator is declared. So `PredictsLeast`,
  `DFAIsTimeless`, `AcceptsSentences`, `Derives`, `MakesProgress` and the properties of the data
  structures are checked and not proved.
- `MatchesLongest`, `TokensAreAsTold`: see the lexer's section.
- `Literals` is scaled to small widths, so a proof would be about the scale.

## Not modelled

- The null literal in trees: making it asks LLVM for a null value of its void type.
- `no_active_function`, which nobody calls, and `llvm_cast`, which nobody reaches; interfaces,
  whose members are function declarations without a body, these declarations, `break` and
  `continue`: nothing is done for them. (The members of a class are compiled as those of the
  program.)
- What the emitted program does when run: `elut_ptr`, values at run time, the LLVM signature.
- The lexer rules of `YALLL.g4`: only their tokens. Token texts that decide nothing.
- Logger, import singletons, build files, unused headers.
- Of the runtime: profiling, tracing and diagnostic listeners, DOT and string printers, hash
  functions, vocabularies, the reader of `.interp` files, `LexerInterpreter`, and code
  that only forwards. Generated parsers: they do what the interpreter does, compiled.
- Compiling a tree pattern, which is undefined behaviour for every text with a tag.

## Plan

1. Done: types, proposals, resolver, contract and proofs; scope and visitor; operations;
   literals; driver.
2. Done: the runtime's streams, sets, contexts, network, prediction, lexer, parser, error
   strategies, rewriter, trees, paths and patterns.
3. Done: the proofs of the resolver, of operations, of scopes and of compilations: every
   invariant and action property of the runs `resolver`, `operations` and `compiler` is a theorem,
   and of their properties only `Terminates` is not.
4. Done: the proofs of the refinements of all streams and of what they keep and list, of
   `WritesWhereTold`, of `TilesTheText` of lexers, of `KeepsLatest` of the merge cache and of
   `ActsAsSet` of the interval sets. For this, `ATN`, `Lexer`, `IntervalSet` and the merge cache
   had to do without recursive operators. Left: the
   parser's modules, which would have to go the same way.
5. Left: the lexer rules of `YALLL.g4` as a grammar of `MCLexer`, and larger contexts.
