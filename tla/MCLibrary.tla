------------------------------ MODULE MCLibrary ------------------------------
(* The data structures of the runtime, and the literals and the driver of the *)
(* compiler, side by side: `kind' is the one in use, and the variables it     *)
(* does not have stay 0.                                                      *)
EXTENDS Integers, Sequences

VARIABLES kind,
          source, channel, size, p, fetchedEOF, needSetup, answer,
          EOFIndex, End, index, last, lastBufferStart, marked,
          set, other,
          x, y, wildcard, merges, mixed,
          terminal, value, died, uses,
          program, history, text, status,
          tree, task, walker, work, element, elements, path, parts,
          pattern, outcome,
          given, calling, read, made, refused,
          heap, contexts, data,
          maxSize, cache, got,
          argv, arg_file, arg_out_path, step, loaded, disk, was

MaxLook  == 2
Reach    == 3
MaxMarks == 2
Channels == {0, 1}
Sources  == {<<>>, <<0>>, <<1>>, <<0, 1>>, <<1, 0>>, <<1, 0, 1>>, <<0, 1, 0>>, <<1, 1, 0>>}
Lengths  == {0, 1, 3}
Texts    == [length : 1..3, bom : {0, 1}, wellFormed : BOOLEAN]

Buffered   == INSTANCE BufferedTokenStream
Unbuffered == INSTANCE UnbufferedTokenStream
Chars      == INSTANCE UnbufferedCharStream WITH Lengths <- {0, 2}, Reach <- 2
Input      == INSTANCE ANTLRInputStream
Intervals  == INSTANCE IntervalSet WITH Elements <- -2..3
Contexts   == INSTANCE PredictionMerges WITH ReturnStates <- {1, 2}, MaxDepth <- 2, MaxMerges <- 2
Written    == INSTANCE Literals WITH MaxUses <- 2
\* Trees of up to four nodes, each numbered in pre-order, with two rules and two
\* tokens; the root is of the first rule.
RECURSIVE Up(_, _)
Up(parents, n) == IF n = 1 THEN {1} ELSE {n} \cup Up(parents, parents[n])
Shapes(n) == {parents \in [1..n -> 0..n - 1] : /\ parents[1] = 0
                                              /\ \A i \in 2..n : parents[i] # 0 /\ parents[i] \in Up(parents, i - 1)}
Labels   == {<<"rule", 1, 0>>, <<"rule", 2, 0>>, <<"terminal", 1, 1>>, <<"terminal", 2, 2>>, <<"error", 1, 3>>}
Grown(parents, labels) ==
    [i \in DOMAIN parents |-> [kind |-> labels[i][1], type |-> labels[i][2], text |-> labels[i][3], parent |-> parents[i],
                               children |-> SelectSeq([j \in DOMAIN parents |-> j], LAMBDA j : parents[j] = i)]]
TreesOf(n) ==
    UNION {{Grown(parents, labels) : labels \in {l \in [1..n -> Labels] :
               l[1] = <<"rule", 1, 0>> /\ \A i \in 2..n : l[parents[i]][1] = "rule"}} : parents \in Shapes(n)}
Forest     == UNION {TreesOf(n) : n \in 1..4}
PathTokens == [kind : {"ROOT", "ANYWHERE", "BANG", "WILDCARD"}, type : {0}] \cup [kind : {"RULE_REF", "TOKEN_REF"}, type : {0, 1}]
              \cup [kind : {"STRING"}, type : {1}]
Paths      == UNION {[1..n -> PathTokens] : n \in 0..4}
Parsed     == INSTANCE Trees WITH RuleTypes <- {1}, TokenTypes <- {1}, MaxElements <- 2
\* Patterns are trees of the same, their root with up to two children or one below
\* the other, with tags for the first token and the second rule.
PatternNode(l, parent, children) ==
    [kind |-> l[1], type |-> l[2], text |-> l[3], label |-> l[4], parent |-> parent, children |-> children]
Top      == <<"rule", 1, 0, <<>>>>
Lower    == <<"rule", 2, 0, <<>>>>
Tagged   == <<"ruleTag", 2, 0, <<"x">>>>
Others   == {<<"terminal", 1, 1, <<>>>>, <<"terminal", 2, 2, <<>>>>, <<"tokenTag", 1, 0, <<"x">>>>, Lower}
\* What stands for l under the node p, behind n nodes.
Part(l, n, up) ==
    IF l = Tagged THEN <<PatternNode(Lower, up, <<n + 2>>), PatternNode(l, n + 1, <<>>)>> ELSE <<PatternNode(l, up, <<>>)>>
PairOf(l, m) == <<PatternNode(Top, 0, <<2, 2 + Len(Part(l, 1, 1))>>)>> \o Part(l, 1, 1) \o Part(m, 1 + Len(Part(l, 1, 1)), 1)
Patterns ==
    {<<PatternNode(Top, 0, <<2>>)>> \o Part(l, 1, 1) : l \in Others \cup {Tagged}}
    \cup {PairOf(l, m) : l \in Others \cup {Tagged}, m \in Others \cup {Tagged}}
    \cup {<<PatternNode(Top, 0, <<2>>), PatternNode(Lower, 1, <<3>>)>> \o Part(l, 2, 2) : l \in Others}
\* Every text of a few characters, and what some pieces of patterns make.
Pieces     == {<<"<", "x", ">">>, <<"<", "x", ":", "x", ">">>, <<"<", "x", ":", ">">>, <<"\\", "<">>, <<"x">>}
Characters == UNION {[1..n -> {"<", ">", "\\", ":", "x"}] : n \in 0..4}
Joined     == {a \o b \o c \o d : a \in Pieces, b \in Pieces, c \in Pieces, d \in Pieces \cup {<<>>}}
Matcher    == INSTANCE ParseTreePatternMatcher WITH Forest <- UNION {TreesOf(n) : n \in 1..3},
                                                    Texts <- Characters \cup Joined
\* Bytes at the edges of what UTF-8 tells apart.
Leads    == {0, 127, 128, 191, 193, 194, 223, 224, 225, 237, 239, 240, 241, 244, 245}
Seconds  == {127, 128, 143, 144, 159, 160, 191, 194}
Lasts    == {127, 128, 191}
Encoded  == {<<>>} \cup [1..1 -> Leads] \cup Leads \X Seconds \cup Leads \X Seconds \X Lasts
            \cup {s \in Leads \X Seconds \X Lasts \X Lasts : s[1] \in {194, 224, 237, 239, 240, 241, 244}}
Points   == {0, 127, 128, 2047, 2048, 55295, 55296, 57343, 57344, 65533, 65535, 65536, 1114111, 1114112}
Coder      == INSTANCE Utf8 WITH CodePoints <- UNION {[1..n -> Points] : n \in 0..2}
Shared     == INSTANCE PredictionContextCache WITH ReturnStates <- {1, 2}, Configs <- 2, MaxContexts <- 5
Merged     == INSTANCE PredictionContextMergeCache WITH Keys <- {"k", "l", "m", "n"}, Values <- {1, 2}, MaxSizes <- {0, 1, 3}
Main       == INSTANCE Driver WITH Arguments <- {"-f", "-o", "x", "y"}, MaxArgs <- 4,
                                   Sources <- {"x", "../programs/floats.y"}, Writable <- {"x", "../output.ll", "-f", "junk"}
Rewriter   == INSTANCE TokenStreamRewriter WITH Size <- 3, MaxOps <- 4

Common   == <<size, p, answer>>
Fetching == <<source, channel, fetchedEOF, needSetup>>
Windows  == <<index, last, lastBufferStart, marked>>
Ends     == <<EOFIndex, End>>
Sets     == <<set, other>>
Merges   == <<x, y, wildcard, merges, mixed>>
Edits    == <<terminal, value, died, uses, program, history, text, status>>
Streams  == <<Common, Fetching, Windows, Ends>>
Rest     == <<Streams, Sets, Merges>>
Walks    == <<task, walker, work, element, elements, path, parts>>
Matches  == <<pattern, outcome>>
TreeVars == <<tree, Walks, Matches>>
Coding   == <<given, calling, read, made, refused>>
Sharing  == <<heap, contexts, data>>
Caching  == <<maxSize, cache, got>>
Driving  == <<argv, arg_file, arg_out_path, step, loaded, disk, was>>
Added    == <<Coding, Sharing, Caching, Driving>>
vars     == <<kind, Rest, Edits, TreeVars, Added>>

ZeroCommon   == size = 0 /\ p = 0 /\ answer = 0
ZeroFetching == source = 0 /\ channel = 0 /\ fetchedEOF = 0 /\ needSetup = 0
ZeroWindows  == index = 0 /\ last = 0 /\ lastBufferStart = 0 /\ marked = 0
ZeroStreams  == ZeroCommon /\ ZeroFetching /\ ZeroWindows /\ EOFIndex = 0 /\ End = 0
ZeroSets     == set = 0 /\ other = 0
ZeroMerges   == x = 0 /\ y = 0 /\ wildcard = 0 /\ merges = 0 /\ mixed = 0
ZeroLiterals == terminal = 0 /\ value = 0 /\ died = 0 /\ uses = 0
ZeroProgram  == program = 0 /\ history = 0 /\ text = 0 /\ status = 0
ZeroWalks    == task = 0 /\ walker = 0 /\ work = 0 /\ element = 0 /\ elements = 0 /\ path = 0 /\ parts = 0
ZeroMatches  == pattern = 0 /\ outcome = 0
ZeroTrees    == tree = 0 /\ ZeroWalks /\ ZeroMatches
ZeroData     == ZeroSets /\ ZeroMerges /\ ZeroLiterals
ZeroCoding   == given = 0 /\ calling = 0 /\ read = 0 /\ made = 0 /\ refused = 0
ZeroSharing  == heap = 0 /\ contexts = 0 /\ data = 0
ZeroCaching  == maxSize = 0 /\ cache = 0 /\ got = 0
ZeroDriving  == argv = 0 /\ arg_file = 0 /\ arg_out_path = 0 /\ step = 0 /\ loaded = 0 /\ disk = 0 /\ was = 0
ZeroAdded    == ZeroCoding /\ ZeroSharing /\ ZeroCaching /\ ZeroDriving
Init ==
    \/ /\ ZeroStreams /\ ZeroData /\ ZeroProgram /\ ZeroTrees
       /\ \/ kind = "utf8" /\ Coder!Init /\ ZeroSharing /\ ZeroCaching /\ ZeroDriving
          \/ kind = "shared" /\ Shared!Init /\ ZeroCoding /\ ZeroCaching /\ ZeroDriving
          \/ kind = "merged" /\ Merged!Init /\ ZeroCoding /\ ZeroSharing /\ ZeroDriving
          \/ kind = "driver" /\ Main!Init /\ ZeroCoding /\ ZeroSharing /\ ZeroCaching
    \/ /\ ZeroAdded /\ ZeroData /\ ZeroProgram /\ ZeroTrees
       /\ \/ kind = "buffered" /\ Buffered!Init /\ ZeroWindows /\ EOFIndex = 0 /\ End = 0
          \/ kind = "unbuffered" /\ Unbuffered!Init /\ ZeroFetching /\ End = 0
          \/ kind = "chars" /\ Chars!Init /\ ZeroFetching /\ EOFIndex = 0
          \/ kind = "input" /\ Input!Init /\ ZeroFetching /\ ZeroWindows /\ EOFIndex = 0 /\ End = 0
    \/ /\ ZeroAdded /\ ZeroStreams
       /\ \/ kind = "intervals" /\ Intervals!Init /\ ZeroMerges /\ ZeroLiterals /\ ZeroProgram /\ ZeroTrees
          \/ kind = "contexts" /\ Contexts!Init /\ ZeroSets /\ ZeroLiterals /\ ZeroProgram /\ ZeroTrees
          \/ kind = "literals" /\ Written!Init /\ ZeroSets /\ ZeroMerges /\ ZeroProgram /\ ZeroTrees
          \/ kind = "rewriter" /\ Rewriter!Init /\ ZeroData /\ ZeroTrees
          \/ kind = "trees" /\ Parsed!Init /\ ZeroData /\ ZeroProgram /\ ZeroMatches
          \/ kind = "matcher" /\ Matcher!Init /\ ZeroData /\ program = 0 /\ history = 0 /\ status = 0 /\ ZeroWalks

Next ==
    \/ kind = "buffered" /\ Buffered!Next /\ UNCHANGED <<kind, Ends, Windows, Sets, Merges, Edits, TreeVars, Added>>
    \/ kind = "unbuffered" /\ Unbuffered!Next /\ UNCHANGED <<kind, Fetching, End, Sets, Merges, Edits, TreeVars, Added>>
    \/ kind = "chars" /\ Chars!Next /\ UNCHANGED <<kind, Fetching, EOFIndex, Sets, Merges, Edits, TreeVars, Added>>
    \/ kind = "input" /\ Input!Next /\ UNCHANGED <<kind, Fetching, Windows, Ends, Sets, Merges, Edits, TreeVars, Added>>
    \/ kind = "intervals" /\ Intervals!Next /\ UNCHANGED <<kind, Streams, Merges, Edits, TreeVars, Added>>
    \/ kind = "contexts" /\ Contexts!Next /\ UNCHANGED <<kind, Streams, Sets, Edits, TreeVars, Added>>
    \/ kind = "literals" /\ Written!Next /\ UNCHANGED <<kind, Rest, program, history, text, status, TreeVars, Added>>
    \/ kind = "rewriter" /\ Rewriter!Next /\ UNCHANGED <<kind, Rest, terminal, value, died, uses, TreeVars, Added>>
    \/ kind = "trees" /\ Parsed!Next /\ UNCHANGED <<kind, Rest, Edits, Matches, Added>>
    \/ kind = "matcher" /\ Matcher!Next /\ UNCHANGED <<kind, Rest, terminal, value, died, uses, program, history, status, Walks, Added>>
    \/ kind = "utf8" /\ Coder!Next /\ UNCHANGED <<kind, Rest, Edits, TreeVars, Sharing, Caching, Driving>>
    \/ kind = "shared" /\ Shared!Next /\ UNCHANGED <<kind, Rest, Edits, TreeVars, Coding, Caching, Driving>>
    \/ kind = "merged" /\ Merged!Next /\ UNCHANGED <<kind, Rest, Edits, TreeVars, Coding, Sharing, Driving>>
    \/ kind = "driver" /\ Main!Next /\ UNCHANGED <<kind, Rest, Edits, TreeVars, Coding, Sharing, Caching>>

Spec == Init /\ [][Next]_vars

\* BufferedTokenStream and CommonTokenStream, UnbufferedTokenStream and
\* UnbufferedCharStream, whatever window they hold, and ANTLRInputStream are what
\* IntStream promises.
StreamsAreIntStream ==
    /\ CASE kind = "buffered"   -> Buffered!Contract!Init
         [] kind = "unbuffered" -> Unbuffered!Contract!Init
         [] kind = "chars"      -> Chars!Contract!Init
         [] kind = "input"      -> Input!Contract!Init
         [] OTHER               -> TRUE
    /\ [][kind = "buffered" => Buffered!ContractStep]_<<kind, Buffered!View>>
    /\ [][kind = "unbuffered" => Unbuffered!ContractStep]_<<kind, Unbuffered!View>>
    /\ [][kind = "chars" => Chars!ContractStep]_<<kind, Chars!View>>
    /\ [][kind = "input" => Input!ContractStep]_<<kind, Input!vars>>
\* Laziness cannot be seen in the lists of tokens that BufferedTokenStream returns,
\* and UnbufferedTokenStream can return to everything since the first mark held.
KeepsWhatIsAsked ==
    /\ kind = "buffered" => Buffered!ListsAreComplete
    /\ kind = "unbuffered" => Unbuffered!MarkedRegionIsKept
\* The operations on intervals are those on sets, but for what EOF's neighbours
\* lose, equality included, and leave them sorted and disjoint, as the searches assume.
ActsAsSet == kind = "intervals" => Intervals!NormalForm /\ Intervals!ActsAsSet
\* Merging keeps the stacks of both contexts, in one form for each set of stacks, and
\* a context that branches once is written as its stacks.
MergeIsUnion == kind = "contexts" => Contexts!MergeIsUnion /\ Contexts!WritesItsStacks
\* A literal becomes a constant of the type it was resolved to, of its number.
LiteralsStand == kind = "literals" => Written!LiteralsStand
\* What the rewriter carries out together is what its operations do one by one, but
\* for a rollback, which does nothing.
TextIsAsEdited == [][kind = "rewriter" => Rewriter!TextIsAsEditedStep]_<<kind, Rewriter!vars>>
\* Listeners and the printer hear of a tree what the recursion they stand for tells.
WalksInOrder == kind = "trees" => Parsed!WalksInOrder
\* What is found in a tree is what its parents, spans and leaves say.
FindsAsDeclared == kind = "trees" => Parsed!FindsAsDeclared
\* A path is split into what its grammar says, and nothing else is accepted; a pattern
\* whose tags follow one another comes in as many chunks as it has tags and texts, and
\* no other is accepted.
SplitsAsWritten ==
    /\ kind = "trees" => Parsed!SplitsAsWritten
    /\ kind = "matcher" => Matcher!SplitsTheText
\* An element of a path finds the nodes it names under those found before.
SelectsByPath == [][kind = "trees" => Parsed!SelectsByPathStep]_<<kind, Parsed!vars>>
\* A tree matches a pattern that it is an instance of, and labels have what is in
\* their tags' places.
MatchIsInstance == kind = "matcher" => Matcher!MatchIsInstance
\* What is decoded and encoded is UTF-8.
SpellsUnicode == kind = "utf8" => Coder!SpellsUnicode
\* Equal contexts of the sets a DFA keeps are one object.
SharesEquals == [][kind = "shared" => Shared!SharesEqualsStep]_<<kind, Shared!vars>>
\* The merge cache is a list of the merges last used.
KeepsLatest == [][kind = "merged" => Merged!KeepsLatestStep]_<<kind, Merged!vars>>
\* The module is written where the options say, and nothing else is.
WritesWhereTold == kind = "driver" => Main!WritesWhereTold
=============================================================================
