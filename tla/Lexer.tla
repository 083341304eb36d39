-------------------------------- MODULE Lexer --------------------------------
(***************************************************************************)
(* antlr4::Lexer with its LexerATNSimulator: nextToken matches at the      *)
(* input's position, runs the actions of the rule that matched, and goes   *)
(* on until there is a token.  Lexers of one grammar run at the same time  *)
(* and share the DFAs of its modes: what one does while it holds no lock   *)
(* is one step.                                                            *)
(***************************************************************************)
EXTENDS ATN, FiniteSets

CONSTANTS Grammars,   \* [net, rules, texts]; the rules are those of the grammar the net was made of:
                      \* [mode, strings, demand, commands], in the order of the grammar
          Lexers,
          MaxVisits,  \* bound of the calls that make one closure
          MaxResets   \* bound of reset and setInputStream

\* What ATNDeserializer makes of a lexer grammar: edges of the kinds that it has, and
\* actions with the modes they name.
LexerEdges(net) == [kind : {"epsilon", "atom", "rule", "predicate", "action"}, target : DOMAIN net.states,
                    label : SUBSET Int, follow : Int, n : Int, dep : BOOLEAN]
ActionKinds     == {"skip", "more", "type", "channel", "mode", "pushMode", "popMode", "custom"}
IsLexerNet(net) ==
    /\ \A s \in DOMAIN net.states : LET trans == net.states[s].trans IN
          /\ trans \in Seq(LexerEdges(net)) /\ net.states[s].rule \in Nat \cup {-1}
          /\ \A i \in DOMAIN trans : /\ trans[i].kind = "rule" => trans[i].follow \in DOMAIN net.states
                                     /\ trans[i].kind = "action" => trans[i].n \in DOMAIN net.lexerActions
    /\ \A n \in DOMAIN net.lexerActions : LET a == net.lexerActions[n] IN
          /\ a = [kind |-> a.kind, arg |-> a.arg, offset |-> -1] /\ a.kind \in ActionKinds
          /\ a.kind \in {"mode", "pushMode"} => a.arg \in DOMAIN net.modes
    /\ net.modes \in Seq(DOMAIN net.states) /\ net.modes # <<>>
ASSUME GrammarsAreLexers == /\ MaxVisits \in Nat
                            /\ \A g \in Grammars : IsLexerNet(g.net) /\ g.texts \subseteq Seq(Nat)

VARIABLES rules,   \* those of the grammar that was chosen, and its texts
          texts,
          dfa,     \* per mode: [s0, edges]; a state is its list of configurations
          lexer,
          resets
vars == <<atn, rules, texts, dfa, lexer, resets>>

-----------------------------------------------------------------------------
(* LexerATNSimulator: the configurations a lexer reaches from a set of them  *)
(* over a character, and what it accepts there.  No configuration of a lexer *)
(* has a context merged from two: a context is the stack of the states to    *)
(* return to.  Predicates are evaluated on the way, so a set only remembers  *)
(* that one was met.  A lexer's network also has the start states of its     *)
(* modes, the decisions that are not greedy, the rules' token types and the  *)
(* lexer actions.                                                            *)

MAX_DFA_EDGE == 127   \* characters above, and EOF, have no edges

-----------------------------------------------------------------------------
(* LexerActionExecutor: the actions to run on acceptance.  Custom actions    *)
(* run where they stand in the token.                                        *)

Unplaced == -1
LexerAction(kind, arg) == [kind |-> kind, arg |-> arg, offset |-> Unplaced]

\* Those at the end of what was matched so far get their offset before more is.
FixOffset(actions, offset) ==
    [n \in DOMAIN actions |-> IF actions[n].kind = "custom" /\ actions[n].offset = Unplaced
                              THEN [actions[n] EXCEPT !.offset = offset] ELSE actions[n]]

-----------------------------------------------------------------------------
(* Closures.  `how' says what column a predicate sees and whether EOF was    *)
(* matched; in what was `found', `accepted' is whether the alternative has   *)
(* reached its end.                                                          *)

LexerConfig(s, alt) == [state |-> s, alt |-> alt, ctx |-> <<>>, actions |-> <<>>, nonGreedy |-> FALSE]
Moved(c, s)         == [c EXCEPT !.state = s, !.nonGreedy = @ \/ s \in atn.nonGreedy]
AddConfig(list, c)  == IF \E n \in DOMAIN list : list[n] = c THEN list ELSE Append(list, c)

\* The column the recognizer is in is all that predicates ask for here.
sempred(t, column) == column = t.n

\* The configurations an edge without a character leads to: one, or none.
EpsilonTargets(c, t, how) ==
    CASE t.kind = "rule"      -> <<[Moved(c, t.target) EXCEPT !.ctx = <<t.follow>> \o @]>>
      [] t.kind = "predicate" -> IF sempred(t, how.column) THEN <<Moved(c, t.target)>> ELSE <<>>
      [] t.kind = "action"    -> <<[Moved(c, t.target) EXCEPT !.actions =
                                        IF c.ctx = <<>> THEN Append(@, atn.lexerActions[t.n]) ELSE @]>>
      [] t.kind = "epsilon"   -> <<Moved(c, t.target)>>
      [] t.kind = "atom"      -> IF how.eof /\ EOF \in t.label THEN <<Moved(c, t.target)>> ELSE <<>>

\* Depth first: `todo' has the configurations that closure is still to be called for.
Visit(z, how) ==
    LET c     == Head(z.todo)
        found == z.found
        seen  == IF EpsilonOnly(c.state) \/ (found.accepted /\ c.nonGreedy) THEN found
                 ELSE [found EXCEPT !.configs = AddConfig(@, c)]
        targets == FlattenSeq([i \in DOMAIN Trans(c.state) |-> EpsilonTargets(c, Trans(c.state)[i], how)])
    IN  IF z.todo = <<>> THEN z
        ELSE IF ~RuleStop(c.state)
        THEN [todo  |-> targets \o Tail(z.todo),
              found |-> [seen EXCEPT !.sem = @ \/ \E i \in DOMAIN Trans(c.state) : Trans(c.state)[i].kind = "predicate"]]
        ELSE IF c.ctx = <<>>
        THEN [todo  |-> Tail(z.todo), found |-> [found EXCEPT !.configs = AddConfig(@, c), !.accepted = TRUE]]
        ELSE [z EXCEPT !.todo = <<[Moved(c, Head(c.ctx)) EXCEPT !.ctx = Tail(@)]>> \o Tail(@)]
Closure(found, c, how) ==
    LET after[n \in 0..MaxVisits] ==
            IF n = 0 THEN [todo |-> <<c>>, found |-> found] ELSE Visit(after[n - 1], how)
    IN  after[MaxVisits].found

Nothing == [configs |-> <<>>, sem |-> FALSE, accepted |-> FALSE]

\* The rules of a mode are its alternatives; no two configurations of different ones
\* are the same.
StartSet(m, column) ==
    LET heads == Trans(atn.modes[m])
        sets  == [i \in DOMAIN heads |->
                     Closure(Nothing, LexerConfig(heads[i].target, i), [column |-> column, eof |-> FALSE])]
    IN  [configs |-> FlattenSeq([i \in DOMAIN sets |-> sets[i].configs]), sem |-> \E i \in DOMAIN sets : sets[i].sem]

\* Once an alternative has reached its end, what is left of it and went through a
\* decision that is not greedy is not followed.
Reach(configs, t, offset, how) ==
    LET Over(f, c) ==
            LET ways == {i \in DOMAIN Trans(c.state) : Matches(Trans(c.state)[i], t)}
                d    == [Moved(c, Trans(c.state)[Min(ways)].target) EXCEPT !.actions = FixOffset(@, offset)]
                g    == Closure([f.set EXCEPT !.accepted = c.alt = f.skipAlt], d, how)
            IN  IF (c.alt = f.skipAlt /\ c.nonGreedy) \/ ways = {} THEN f
                ELSE [set |-> g, skipAlt |-> IF g.accepted THEN c.alt ELSE f.skipAlt]
    IN  FoldLeft(Over, [set |-> Nothing, skipAlt |-> 0], configs).set

\* addDFAState: what a set accepts is what the first configuration at an end says.
Ends(configs)     == {n \in DOMAIN configs : RuleStop(configs[n].state)}
Accepts(configs)  == Ends(configs) # {}
Executor(configs) == configs[Min(Ends(configs))].actions
RuleAccepted(configs) == RuleOf(configs[Min(Ends(configs))].state)

-----------------------------------------------------------------------------
(* The lexer itself.                                                         *)

INVALID_TYPE == "invalid"
SKIP  == "skip"
MORE  == "more"
NoState  == <<>>
NoAccept == [s |-> NoState, index |-> 0, line |-> 0, column |-> 0]

Newline == 10
LA(l)   == IF l.index < Len(l.text) THEN l.text[l.index + 1] ELSE EOF

-----------------------------------------------------------------------------
(* A lexer.  `start', `startLine', `startColumn' are those of the token,     *)
(* `from' is where the match began; `threw' is an exception that leaves      *)
(* nextToken.  What it has `matched', `emitted', dropped and `ran' is kept   *)
(* for the properties.                                                       *)

Created(text) ==
    [text |-> text, index |-> 0, line |-> 1, column |-> 0, mode |-> 1, modeStack |-> <<>>, hitEOF |-> FALSE,
     type |-> INVALID_TYPE, channel |-> 0, start |-> 0, startLine |-> 0, startColumn |-> 0,
     pc |-> "idle", from |-> 0, s |-> NoState, prevAccept |-> NoAccept, threw |-> FALSE,
     matched |-> <<>>, emitted |-> <<>>, ran |-> <<>>]

Consume(l) == [l EXCEPT !.index = @ + 1,
                        !.line = IF LA(l) = Newline THEN @ + 1 ELSE @,
                        !.column = IF LA(l) = Newline THEN 0 ELSE @ + 1]

Capture(l, s) ==
    IF ~Accepts(s) THEN l
    ELSE [l EXCEPT !.prevAccept = [s |-> s, index |-> l.index, line |-> l.line, column |-> l.column]]

Token(l, type, channel, start, line, column) ==
    [type |-> type, channel |-> channel, start |-> start, stop |-> l.index - 1, line |-> line, column |-> column]

\* The text of a token is that of its characters, where the input has them all.
getText(l, t) == IF t.start < Len(l.text) /\ t.stop < Len(l.text) THEN SubSeq(l.text, t.start + 1, t.stop + 1) ELSE <<EOF>>

\* Lexer::action is the grammar's own code.  The one that XPathLexer has, for rule ID,
\* sets the type by the first letter.
IDAction == <<4, 0>>
Capitals == 65..90
action(which, first, type) ==
    IF which # IDAction THEN type ELSE IF first \in Capitals THEN "TOKEN_REF" ELSE "RULE_REF"

Execute(l, a) ==
    IF l.threw THEN l
    ELSE CASE a.kind = "skip"    -> [l EXCEPT !.type = SKIP]
           [] a.kind = "more"    -> [l EXCEPT !.type = MORE]
           [] a.kind = "type"    -> [l EXCEPT !.type = a.arg]
           [] a.kind = "channel" -> [l EXCEPT !.channel = a.arg]
           [] a.kind = "mode"    -> [l EXCEPT !.mode = a.arg]
           [] a.kind = "pushMode" -> [l EXCEPT !.modeStack = Append(@, l.mode), !.mode = a.arg]
           [] a.kind = "popMode" -> IF l.modeStack = <<>> THEN [l EXCEPT !.threw = TRUE]
                                    ELSE [l EXCEPT !.mode = Last(l.modeStack), !.modeStack = Front(@)]
           [] a.kind = "custom"  ->
                LET at == IF a.offset = Unplaced THEN l.prevAccept.index ELSE l.from + a.offset IN
                [l EXCEPT !.index = at, !.type = action(a.arg, l.text[l.start + 1], @), !.ran = Append(@, [action |-> a.arg, match |-> Len(l.matched), at |-> at])]

\* LexerActionExecutor::execute.  The position is not restored: the finalizer took
\* its copy of requiresSeek before any action was run.
ExecuteAll(l, actions) == FoldLeft(Execute, l, actions)

\* The head of nextToken's loop.
Begin(l) ==
    IF l.hitEOF
    THEN [l EXCEPT !.pc = "idle", !.emitted = Append(@, Token(l, "EOF", 0, l.index, l.line, l.column))]
    ELSE [l EXCEPT !.pc = "match", !.channel = 0, !.type = INVALID_TYPE,
                   !.start = l.index, !.startLine = l.line, !.startColumn = l.column]

\* After match.
Decide(l, ttype) ==
    LET m == [l EXCEPT !.hitEOF = @ \/ LA(l) = EOF, !.type = IF @ = INVALID_TYPE THEN ttype ELSE @] IN
    IF m.threw THEN [l EXCEPT !.pc = "idle"]
    ELSE IF m.type = SKIP THEN Begin(m)
    ELSE IF m.type = MORE THEN [m EXCEPT !.pc = "match", !.type = INVALID_TYPE]
    ELSE [m EXCEPT !.pc = "idle",
                   !.emitted = Append(@, Token(m, m.type, m.channel, m.start, m.startLine, m.startColumn))]

\* A match is by a rule, by none, of the end of the input, or broken off.
NoMatch == -1
AtEnd   == 0
Broken  == -2
Match(l, rule, to) == [rule |-> rule, mode |-> l.mode, from |-> l.from, to |-> to]

Accept_WhereItIs(l) ==
    LET p == l.prevAccept
        m == [l EXCEPT !.index = p.index, !.matched = Append(@, Match(l, RuleAccepted(p.s), p.index))]
    IN  Decide(ExecuteAll(m, Executor(p.s)), atn.tokenTypes[RuleAccepted(p.s)])
Accept(l) ==
    LET p == l.prevAccept
        m == [l EXCEPT !.index = p.index, !.line = p.line, !.column = p.column,
                       !.matched = Append(@, Match(l, RuleAccepted(p.s), p.index))]
    IN  Decide(ExecuteAll(m, Executor(p.s)), atn.tokenTypes[RuleAccepted(p.s)])

\* recover skips a character.
Recover(l) ==
    LET m == IF LA(l) = EOF THEN l ELSE Consume(l) IN
    Decide([m EXCEPT !.matched = Append(@, Match(l, NoMatch, m.index))], SKIP)

FailOrAccept(l) ==
    IF l.prevAccept # NoAccept THEN Accept(l)
    ELSE IF LA(l) = EOF /\ l.index = l.from THEN Decide([l EXCEPT !.matched = Append(@, Match(l, AtEnd, l.index))], "EOF")
    ELSE Recover(l)

\* One round of execATN's loop, once the target is known.
Advance(l, target) ==
    IF target = NoState THEN FailOrAccept(l)
    ELSE IF LA(l) # EOF THEN Capture([Consume(l) EXCEPT !.s = target], target)
    ELSE IF Accepts(target) THEN FailOrAccept(Capture([l EXCEPT !.s = target], target))
    ELSE [l EXCEPT !.s = target]

\* evaluatePredicate consumes the character before it asks.  Where that is the end of
\* the input, consume throws, and nothing before nextToken's caller catches that.
BreakOff(l) == Decide([[l EXCEPT !.threw = TRUE] EXCEPT !.matched = Append(@, Match(l, Broken, l.index))], SKIP)

-----------------------------------------------------------------------------
(* Actions *)

Become(q, l) == lexer' = [lexer EXCEPT ![q] = l]

\* A LexerInterpreter makes the DFAs, empty, with itself.
NoDFAs(net) == [m \in DOMAIN net.modes |-> [s0 |-> NoState, edges |-> <<>>]]

Init == /\ \E g \in Grammars : /\ atn = g.net /\ rules = g.rules /\ texts = g.texts
        /\ dfa = NoDFAs(atn)
        /\ lexer \in [Lexers -> {Created(text) : text \in texts}]
        /\ resets = 0

\* One EOF, or one match broken off there, is not the last a lexer can be asked for.
NextToken(q) ==
    /\ lexer[q].pc = "idle"
    /\ Cardinality({n \in DOMAIN lexer[q].emitted : lexer[q].emitted[n].type = "EOF"}) < 2
    /\ Cardinality({n \in DOMAIN lexer[q].matched : lexer[q].matched[n].rule = Broken}) < 2
    /\ Become(q, Begin([lexer[q] EXCEPT !.threw = FALSE]))
    /\ UNCHANGED <<atn, rules, texts, dfa, resets>>

\* match; execATN up to its loop.
Run(l, s) == Capture([l EXCEPT !.pc = "exec", !.s = s], s)
StartMatch(q) ==
    LET l  == lexer[q]
        m  == [l EXCEPT !.from = l.index, !.prevAccept = NoAccept]
        s0 == dfa[l.mode].s0
    IN  /\ l.pc = "match"
        /\ Become(q, IF s0 = NoState THEN [m EXCEPT !.pc = "start"] ELSE Run(m, s0))
        /\ UNCHANGED <<atn, rules, texts, dfa, resets>>

\* matchATN.
AddStart_Always(q) ==
    LET l   == lexer[q]
        set == StartSet(l.mode, l.column)
    IN  /\ l.pc = "start"
        /\ dfa' = [dfa EXCEPT ![l.mode].s0 = set.configs]
        /\ Become(q, Run(l, set.configs))
        /\ UNCHANGED <<atn, rules, texts, resets>>
AddStart(q) ==
    LET l   == lexer[q]
        set == StartSet(l.mode, l.column)
    IN  /\ l.pc = "start"
        /\ dfa' = IF set.sem THEN dfa ELSE [dfa EXCEPT ![l.mode].s0 = set.configs]
        /\ Become(q, Run(l, set.configs))
        /\ UNCHANGED <<atn, rules, texts, resets>>

\* getExistingTargetState.
FollowEdge(q) ==
    LET l  == lexer[q]
        at == <<l.s, LA(l)>>
    IN  /\ l.pc = "exec"
        /\ Become(q, IF at \in DOMAIN dfa[l.mode].edges THEN Advance(l, dfa[l.mode].edges[at])
                     ELSE [l EXCEPT !.pc = "compute"])
        /\ UNCHANGED <<atn, rules, texts, dfa, resets>>

\* Only edges that hold whatever the predicates say are kept.
WithEdge(edges, at, s) == [e \in {at} \cup DOMAIN edges |-> IF e = at THEN s ELSE edges[e]]
AddDFAEdge(mode, from, t, to) ==
    dfa' = IF to.sem \/ t = EOF \/ t > MAX_DFA_EDGE THEN dfa
           ELSE [dfa EXCEPT ![mode].edges = WithEdge(@, <<from, t>>, to.configs)]

\* computeTargetState.  A predicate sees the column behind the character, and there is
\* none behind the end of the input.  An edge another lexer has added meanwhile is
\* replaced.
AddEdge(q) ==
    LET l   == lexer[q]
        t   == LA(l)
        how == [column |-> IF t = EOF THEN l.column ELSE Consume(l).column, eof |-> t = EOF]
        set == Reach(l.s, t, l.index - l.from, how)
    IN  /\ l.pc = "compute"
        /\ AddDFAEdge(l.mode, l.s, t, set)
        /\ Become(q, IF t = EOF /\ set.sem THEN BreakOff(l) ELSE Advance([l EXCEPT !.pc = "exec"], set.configs))
        /\ UNCHANGED <<atn, rules, texts, resets>>

Fresh_KeepsMode(l) == [Created(l.text) EXCEPT !.mode = l.mode]
Fresh(l) == Created(l.text)
Reset(q) ==
    /\ lexer[q].pc = "idle" /\ lexer[q] # Created(lexer[q].text) /\ resets < MaxResets
    /\ resets' = resets + 1
    /\ Become(q, Fresh(lexer[q]))
    /\ UNCHANGED <<atn, rules, texts, dfa>>

SetInputStream(q) ==
    /\ lexer[q].pc = "idle" /\ resets < MaxResets
    /\ resets' = resets + 1
    /\ \E text \in texts : Become(q, Fresh([lexer[q] EXCEPT !.text = text]))
    /\ UNCHANGED <<atn, rules, texts, dfa>>

Next == \E q \in Lexers :
            NextToken(q) \/ StartMatch(q) \/ AddStart(q) \/ FollowEdge(q) \/ AddEdge(q) \/ Reset(q) \/ SetInputStream(q)

Spec == Init /\ [][Next]_vars

-----------------------------------------------------------------------------
(* What lexing is, said of the grammar's rules: each has the strings it      *)
(* matches, EOF counting as a character, and the column it may demand after  *)
(* a number of characters.                                                   *)

ColumnAt(text, i) == i - Max({0} \cup {n \in 1..i : text[n] = Newline})
LineAt(text, i)   == 1 + Cardinality({n \in 1..i : text[n] = Newline})

Allowed(text, from, rule, n) ==
    rule.demand = <<>> \/ n < rule.demand.after
                       \/ ColumnAt(text, from + rule.demand.after) = rule.demand.column
Ahead(text, from) == SubSeq(text, from + 1, Len(text)) \o <<EOF>>
Fits(text, m, k, n) == /\ rules[k].mode = m.mode /\ SubSeq(Ahead(text, m.from), 1, n) \in rules[k].strings
                       /\ Allowed(text, m.from, rules[k], n)
Lengths(text, m)   == 1..(Len(text) - m.from + 1)
MayGoOn(text, m, n) ==
    \E k \in DOMAIN rules : /\ rules[k].mode = m.mode /\ Allowed(text, m.from, rules[k], n)
                             /\ \E w \in rules[k].strings : IsPrefix(SubSeq(text, m.from + 1, m.from + n), w)

\* A rule asks for a column behind the end of the input that it goes on over.
Overreaches(text, m) ==
    \E k \in DOMAIN rules : /\ rules[k].mode = m.mode /\ rules[k].demand # <<>>
                            /\ \E w \in rules[k].strings : SubSeq(w, 1, rules[k].demand.after) = Ahead(text, m.from)

\* Every match is the longest any rule of the mode has, and by the first rule that
\* has it, whatever was lexed before and by whom; where no rule matches, what is
\* dropped ends with the first character that no rule could go on with.  A match is
\* broken off where a rule overreaches, whether or not one has matched before, and
\* nowhere else.
MatchesLongest == \A q \in Lexers : LET text == lexer[q].text IN
    \A i \in DOMAIN lexer[q].matched :
        LET m    == lexer[q].matched[i]
            fit  == {kn \in (DOMAIN rules) \X Lengths(text, m) : Fits(text, m, kn[1], kn[2])}
            long == Max({kn[2] : kn \in fit})
            seen == Max({0} \cup {n \in 1..(Len(text) - m.from) : MayGoOn(text, m, n)})
        IN  IF Overreaches(text, m) THEN m.rule = Broken /\ m.to = Len(text)
            ELSE IF fit # {} THEN /\ m.to = Min({m.from + long, Len(text)})
                                  /\ m.rule = Min({kn[1] : kn \in {o \in fit : o[2] = long}})
            ELSE IF m.from = Len(text) THEN m.rule = AtEnd
            ELSE m.rule = NoMatch /\ m.to = Min({m.from + seen + 1, Len(text)})

\* A custom action was the last to run of its match, and not at the end of it.
Displaced(l) == \E n \in DOMAIN l.ran :
    /\ l.ran[n].at # l.matched[l.ran[n].match].to
    /\ n = Len(l.ran) \/ l.ran[n + 1].match # l.ran[n].match

\* The input is back where the match ended when the actions have run.
InputIsRestored == \A q \in Lexers : ~Displaced(lexer[q])

\* Nothing of the text is lost or lexed twice, lines and columns are those of the
\* text, and so is a token's text, whole matches of it, unless an action has displaced
\* the input.  What a match had read that is broken off is lost, which only happens at
\* the end of the text.
TilesTheText == \A q \in Lexers : LET l == lexer[q] IN
    Displaced(l) \/
    /\ \A i \in DOMAIN l.matched : /\ l.matched[i].from = IF i = 1 THEN 0 ELSE l.matched[i - 1].to
                                  /\ l.matched[i].rule = Broken => l.matched[i].to = Len(l.text)
    /\ l.line = LineAt(l.text, l.index) /\ l.column = ColumnAt(l.text, l.index)
    /\ \A i \in DOMAIN l.emitted : LET t == l.emitted[i] IN
          /\ t.line = LineAt(l.text, t.start) /\ t.column = ColumnAt(l.text, t.start)
          /\ IF t.start = Len(l.text) THEN getText(l, t) = <<EOF>>
             ELSE \E m \in Range(l.matched) : m.to > t.start /\ getText(l, t) = SubSeq(l.text, t.start + 1, m.to)

\* What the commands of the rules matched amount to, one match after the other.
\* `open' is a token that is to be continued.
Obeyed(z, c) ==
    IF z.threw THEN z
    ELSE CASE c.kind = "type"     -> [z EXCEPT !.type = c.arg]
           [] c.kind = "channel"  -> [z EXCEPT !.channel = c.arg]
           [] c.kind = "mode"     -> [z EXCEPT !.mode = c.arg]
           [] c.kind = "pushMode" -> [z EXCEPT !.mode = c.arg, !.pushed = <<z.mode>> \o @]
           [] c.kind = "popMode"  -> IF z.pushed = <<>> THEN [z EXCEPT !.threw = TRUE]
                                     ELSE [z EXCEPT !.mode = Head(z.pushed), !.pushed = Tail(@)]
           [] c.kind = "custom"   -> [z EXCEPT !.ran = Append(@, c)]
           [] c.kind = "case"     -> [z EXCEPT !.type = IF z.text[z.start + 1] \in c.arg THEN "TOKEN_REF" ELSE "RULE_REF"]
           [] OTHER               -> [z EXCEPT !.type = c.kind]
Heard(z, m) ==
    LET fresh == IF z.open THEN z ELSE [z EXCEPT !.start = m.from, !.channel = 0]
        named == [fresh EXCEPT !.threw = m.rule = Broken, !.inMode = @ /\ z.mode = m.mode,
                               !.type = CASE m.rule = NoMatch -> SKIP [] m.rule = AtEnd -> "EOF"
                                          [] m.rule = Broken -> INVALID_TYPE [] OTHER -> rules[m.rule].name]
        done  == FoldLeft(Obeyed, named, IF m.rule \in DOMAIN rules THEN rules[m.rule].commands ELSE <<>>)
    IN  [done EXCEPT !.open = ~done.threw /\ done.type = MORE,
                     !.tokens = IF done.threw \/ done.type \in {SKIP, MORE} THEN @
                                ELSE Append(@, [type |-> done.type, channel |-> done.channel, start |-> done.start, stop |-> m.to - 1])]
Told(l) ==
    FoldLeft(Heard, [text |-> l.text, mode |-> 1, pushed |-> <<>>, type |-> SKIP, channel |-> 0, start |-> 0, threw |-> FALSE, open |-> FALSE,
                     inMode |-> TRUE, ran |-> <<>>, tokens |-> <<>>], l.matched)

\* A custom action inside of a token whose length before it is not always the same.
Wanders(m, c) == c.before > 0 /\ Cardinality({Len(w) : w \in rules[m.rule].strings}) > 1

\* The mode, the modes pushed and the tokens follow from the commands of the rules
\* matched, each run once and in order, a mode popped of none ending its rule; so
\* do the custom actions, each where it stands, unless where it stands may differ
\* from token to token.
TokensAreAsTold == \A q \in Lexers :
    LET l    == lexer[q]
        told == Told(l)
        Plain(t) == [type |-> t.type, channel |-> t.channel, start |-> t.start, stop |-> IF Displaced(l) THEN 0 ELSE t.stop]
        past == SubSeq(l.emitted, Len(told.tokens) + 1, Len(l.emitted))
    IN  /\ told.inMode /\ told.mode = l.mode /\ told.pushed = Reverse(l.modeStack)
        /\ Len(l.emitted) >= Len(told.tokens)
        /\ \A i \in DOMAIN told.tokens : Plain(l.emitted[i]) = Plain(told.tokens[i])
        /\ \A i \in DOMAIN past : past[i].type = "EOF" /\ past[i].start = Len(l.text)
        /\ Len(l.ran) = Len(told.ran)
        /\ \A i \in DOMAIN l.ran : LET m == l.matched[l.ran[i].match] IN
              /\ l.ran[i].action = told.ran[i].arg
              /\ Wanders(m, told.ran[i]) \/ l.ran[i].at = m.to - told.ran[i].before
=============================================================================
