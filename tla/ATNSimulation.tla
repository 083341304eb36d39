---------------------------- MODULE ATNSimulation ----------------------------
(***************************************************************************)
(* What antlr4::atn::ParserATNSimulator computes: configurations and their *)
(* sets, closures, reach sets, conflicts, and a prediction from beginning  *)
(* to end.  A call is what adaptivePredict is called with:                 *)
(* [decision, stack, precedence, holds, input], where `stack' is the       *)
(* states to return to, the innermost first, and `holds' the predicates    *)
(* that are true.                                                          *)
(*                                                                         *)
(* What the busy set holds is taken as it was when it was added, though    *)
(* later merges change the configurations in it.                           *)
(***************************************************************************)
EXTENDS ATN, PredictionContext, SemanticContext

LOCAL INSTANCE FiniteSets
LOCAL INSTANCE FiniteSetsExt
LOCAL INSTANCE SequencesExt

INVALID_ALT_NUMBER == 0

-----------------------------------------------------------------------------
(* ATNConfig and ATNConfigSet *)

Config(s, alt, ctx) ==
    [state |-> s, alt |-> alt, ctx |-> ctx, sem |-> NONE, outer |-> 0, suppressed |-> FALSE]
\* What equality of configurations looks at.
Plain(c)  == [c EXCEPT !.outer = 0]
Plains(l) == [n \in DOMAIN l |-> Plain(l[n])]

\* A set while it is filled, with the merge cache and the busy set of the closure.
Empty(cache) == [configs |-> <<>>, sem |-> FALSE, dips |-> FALSE, busy |-> {}, cache |-> cache]

SameConfig(c, d) == c.state = d.state /\ c.alt = d.alt /\ c.sem = d.sem

\* A configuration of the same state, alternative and predicates takes the context
\* of the new one in.
Add(set, c, full) ==
    LET same == {n \in DOMAIN set.configs : SameConfig(set.configs[n], c)}
        n    == Min(same)
        old  == set.configs[n]
        m    == Merge(old.ctx, c.ctx, ~full, set.cache)
        next == [set EXCEPT !.sem = @ \/ c.sem # NONE, !.dips = @ \/ c.outer > 0]
    IN  IF same = {} THEN [next EXCEPT !.configs = Append(@, c)]
        ELSE [next EXCEPT !.cache = m.cache,
                          !.configs[n] = [old EXCEPT !.ctx = m.ctx, !.outer = Max({@, c.outer}),
                                                     !.suppressed = @ \/ c.suppressed]]
AddAll(set, cs, full) == FoldLeft(LAMBDA s, c : Add(s, c, full), set, cs)

-----------------------------------------------------------------------------
(* PredictionModeClass *)

Alts(cs)    == {cs[n].alt : n \in DOMAIN cs}
AllStop(cs) == \A n \in DOMAIN cs : RuleStop(cs[n].state)
AnyStop(cs) == \E n \in DOMAIN cs : RuleStop(cs[n].state)

\* The alternatives that share a state and a context.
AltSubsets(cs) ==
    {{cs[m].alt : m \in {k \in DOMAIN cs : cs[k].state = cs[n].state /\ cs[k].ctx = cs[n].ctx}} : n \in DOMAIN cs}
StateWithOneAlt(cs) ==
    \E n \in DOMAIN cs : \A m \in DOMAIN cs : cs[m].state = cs[n].state => cs[m].alt = cs[n].alt

UniqueAlt(cs) == IF Cardinality(Alts(cs)) = 1 THEN cs[1].alt ELSE INVALID_ALT_NUMBER

SLLConflict_Never(m, set) == FALSE
\* Predicates are put aside unless the mode is SLL.
SLLConflict(m, set) ==
    LET cs == IF m = "SLL" \/ ~set.sem THEN set.configs
              ELSE AddAll(Empty(NoCache), [n \in DOMAIN set.configs |-> [set.configs[n] EXCEPT !.sem = NONE]],
                          TRUE).configs
    IN  \/ AllStop(set.configs)
        \/ (\E alts \in AltSubsets(cs) : Cardinality(alts) > 1) /\ ~StateWithOneAlt(cs)

SingleViableAlt(subsets) ==
    LET least == {Min(alts) : alts \in subsets} IN
    IF Cardinality(least) = 1 THEN Min(least) ELSE INVALID_ALT_NUMBER

-----------------------------------------------------------------------------
(* Closure.  `how' is [call, collect, full, depth, eof]: of which prediction, *)
(* whether predicates count, whether with the stack, how far out of the      *)
(* rule, and whether EOF may be passed without a token.                      *)

IsPrecedenceDfa(call) == atn.states[call.decision].precedence

\* A left-recursive rule called by itself need not ask whether to go on.
CanDropLoopEntry(c) ==
    LET p    == c.state
        end  == CHOOSE s \in DOMAIN atn.states : Is(s, "BLOCK_END") /\ atn.states[s].rule = RuleOf(p)
                    /\ \E i \in DOMAIN Trans(s) : LET b == Trans(s)[i].target IN
                          Is(b, "STAR_LOOP_BACK") /\ Trans(b)[1].target = p
        Back(r) == LET target == Trans(r)[1].target IN
                   /\ RuleOf(r) = RuleOf(p) /\ Len(Trans(r)) = 1 /\ IsEpsilon(Trans(r)[1])
                   /\ \/ Is(r, "BLOCK_END") /\ target = p
                      \/ r = end
                      \/ target = end
                      \/ /\ Is(target, "BLOCK_END") /\ Len(Trans(target)) = 1
                         /\ IsEpsilon(Trans(target)[1]) /\ Trans(target)[1].target = p
    IN  /\ atn.states[p].precedence
        /\ ~HasEmptyPath(c.ctx)
        /\ \A n \in DOMAIN c.ctx : Back(c.ctx[n].ret)

\* The configurations a transition leads to without a token, none or one.
Passed(c, t, how, counts, pred) ==
    LET next == [c EXCEPT !.state = t.target] IN
    IF ~(how.collect /\ counts) THEN {next}
    ELSE IF how.full THEN IF Eval(pred, how.call) THEN {next} ELSE {}
    ELSE {[next EXCEPT !.sem = And(c.sem, pred)]}

EpsilonTarget(c, t, how) ==
    CASE t.kind = "rule" -> {[c EXCEPT !.state = t.target, !.ctx = SingletonContext(c.ctx, t.follow)]}
      [] t.kind = "precedence" -> Passed(c, t, how, how.depth = 0, Precedence(t.n))
      [] t.kind = "predicate"  -> Passed(c, t, how, ~t.dep \/ how.depth = 0, Predicate(t.n, t.dep))
      [] t.kind \in {"epsilon", "action"} -> {[c EXCEPT !.state = t.target]}
      [] t.kind = "atom" -> IF how.eof /\ Matches(t, EOF) THEN {[c EXCEPT !.state = t.target]} ELSE {}

\* What is still to be followed, the next first: a configuration that is entered,
\* one to go on from along all its edges, or along its i-th edge.
Enter(c, how)   == [op |-> "enter", c |-> c, how |-> how, i |-> 0]
Along(c, how)   == [op |-> "along", c |-> c, how |-> how, i |-> 0]
Take(c, how, i) == [op |-> "edge", c |-> c, how |-> how, i |-> i]

\* One of each configuration that left the rule, or passed EOF, is followed.
Outside(d, t, how) ==
    [d EXCEPT !.outer = @ + 1, !.suppressed = @ \/ (IsPrecedenceDfa(how.call) /\ t.n = RuleOf(how.call.decision))]
Deeper(t, how)  == IF t.kind = "rule" /\ how.depth >= 0 THEN [how EXCEPT !.depth = @ + 1] ELSE how
Noted(set, d)   == [set EXCEPT !.busy = @ \cup {Plain(d)}]
Met(set, d)     == Plain(d) \in set.busy
Work(set, todo) == [set |-> set, todo |-> todo]

\* Over an edge, to one configuration or none.
Over(set, rest, c, t, targets, how) ==
    LET d   == CHOOSE x \in targets : TRUE
        out == Outside(d, t, how)
    IN  CASE targets = {} \/ ((RuleStop(c.state) \/ ~IsEpsilon(t)) /\ Met(set, d)) -> Work(set, rest)
          [] targets # {} /\ RuleStop(c.state) /\ ~Met(set, d) ->
                Work([Noted(set, out) EXCEPT !.dips = TRUE], <<Enter(out, [how EXCEPT !.depth = @ - 1])>> \o rest)
          [] targets # {} /\ ~RuleStop(c.state) /\ ~IsEpsilon(t) /\ ~Met(set, d) ->
                Work(Noted(set, d), <<Enter(d, how)>> \o rest)
          [] OTHER -> Work(set, <<Enter(d, Deeper(t, how))>> \o rest)
OverEdge(set, rest, c, i, t, how) ==
    Over(set, rest, c, t, IF i = 1 /\ CanDropLoopEntry(c) THEN {} ELSE EpsilonTarget(c, t, how), how)

\* closure_: at the end of a rule, with no stack to return to, the edges lead to
\* all its callers.
AlongEdges(set, rest, c, how) ==
    Work(IF EpsilonOnly(c.state) THEN set ELSE Add(set, c, how.full),
         [i \in DOMAIN Trans(c.state) |-> Take(c, [how EXCEPT !.collect = @ /\ Trans(c.state)[i].kind # "action"], i)]
             \o rest)

\* closureCheckingStopState.
Pop(c, e, how) ==
    CASE e.ret = EMPTY_RETURN_STATE /\ how.full  -> Enter([c EXCEPT !.ctx = EMPTY], how)
      [] e.ret = EMPTY_RETURN_STATE /\ ~how.full -> Along(c, how)
      [] OTHER -> Enter([c EXCEPT !.state = e.ret, !.ctx = e.parent], [how EXCEPT !.depth = @ - 1])
Entered(set, rest, c, how) ==
    CASE RuleStop(c.state) /\ c.ctx # EMPTY -> Work(set, [n \in DOMAIN c.ctx |-> Pop(c, c.ctx[n], how)] \o rest)
      [] RuleStop(c.state) /\ c.ctx = EMPTY /\ how.full -> Work(Add(set, c, TRUE), rest)
      [] OTHER -> AlongEdges(set, rest, c, how)

Followed(set, x, rest) ==
    CASE x.op = "enter" -> Entered(set, rest, x.c, x.how)
      [] x.op = "along" -> AlongEdges(set, rest, x.c, x.how)
      [] OTHER          -> OverEdge(set, rest, x.c, x.i, Trans(x.c.state)[x.i], x.how)

\* Up to 2^n of what is to be followed, by halves; and all of it.
RECURSIVE Through(_, _)
Through(w, n) ==
    IF w.todo = <<>> THEN w
    ELSE IF n = 0 THEN Followed(w.set, Head(w.todo), Tail(w.todo))
    ELSE Through(Through(w, n - 1), n - 1)
RECURSIVE AllThrough(_)
AllThrough(w) == IF w.todo = <<>> THEN w.set ELSE AllThrough(Through(w, 10))
Closure(set, c, how) == AllThrough(Work(set, <<Enter(c, how)>>))

How(call, collect, full, eof) == [call |-> call, collect |-> collect, full |-> full, depth |-> 0, eof |-> eof]

ComputeStart_WithStack(call, full, cache) ==
    LET ctx == FromRuleContext(Reverse(call.stack)) IN
    FoldLeft(LAMBDA s, i : Closure([s EXCEPT !.busy = {}], Config(Trans(call.decision)[i].target, i, ctx),
                                   How(call, TRUE, full, FALSE)),
             Empty(cache), [i \in DOMAIN Trans(call.decision) |-> i])
ComputeStart(call, full, cache) ==
    LET ctx == IF full THEN FromRuleContext(Reverse(call.stack)) ELSE EMPTY IN
    FoldLeft(LAMBDA s, i : Closure([s EXCEPT !.busy = {}], Config(Trans(call.decision)[i].target, i, ctx),
                                   How(call, TRUE, full, FALSE)),
             Empty(cache), [i \in DOMAIN Trans(call.decision) |-> i])

-----------------------------------------------------------------------------
(* computeReachSet *)

Stopped(cs, t, full) == SelectSeq(cs, LAMBDA c : RuleStop(c.state) /\ (full \/ t = EOF))

\* Over the token, from every configuration that is not at the end of a rule.
Moved(cs, t, full, cache) ==
    LET Moves(c) == LET ts == SelectSeq(Trans(c.state), LAMBDA e : Matches(e, t)) IN
                    [i \in DOMAIN ts |-> [c EXCEPT !.state = ts[i].target]]
        going    == SelectSeq(cs, LAMBDA c : ~RuleStop(c.state))
    IN  AddAll(Empty(cache), FlattenSeq([n \in DOMAIN going |-> Moves(going[n])]), full)

\* No token follows EOF: what has not reached the end of a rule is dropped.
Ended(closed, t, full) ==
    IF t # EOF \/ AllStop(closed.configs) THEN closed
    ELSE AddAll(Empty(closed.cache), SelectSeq(closed.configs, LAMBDA c : RuleStop(c.state)), full)

Rejoined(ended, stopped, full) ==
    IF stopped # <<>> /\ (~full \/ ~AnyStop(ended.configs)) THEN AddAll(ended, stopped, full) ELSE ended

\* One alternative that is left needs no closure.
ReachFrom(moved, call, stopped, t, full) ==
    IF stopped = <<>> /\ t # EOF /\ UniqueAlt(moved.configs) # INVALID_ALT_NUMBER THEN moved
    ELSE Rejoined(Ended(FoldLeft(LAMBDA s, c : Closure(s, c, How(call, FALSE, full, t = EOF)),
                                 Empty(moved.cache), moved.configs), t, full),
                  stopped, full)
Reach(call, cs, t, full, cache) ==
    ReachFrom(Moved(cs, t, full, cache), call, Stopped(cs, t, full), t, full)

-----------------------------------------------------------------------------
(* DFA states *)

State(set) == [configs |-> set.configs, sem |-> set.sem, dips |-> set.dips, unique |-> INVALID_ALT_NUMBER,
               conflicting |-> {}, accept |-> FALSE, full |-> FALSE, prediction |-> INVALID_ALT_NUMBER,
               preds |-> <<>>]
ERROR == [State(Empty(NoCache)) EXCEPT !.prediction = -1]

SameState(d, e) == /\ Plains(d.configs) = Plains(e.configs) /\ d.sem = e.sem /\ d.dips = e.dips
                   /\ d.unique = e.unique /\ d.conflicting = e.conflicting

\* getPredsForAmbigAlts: an alternative needs a predicate if each of its
\* configurations does.
AltPred(alts, cs, alt) ==
    LET of == SelectSeq(cs, LAMBDA c : c.alt = alt /\ alt \in alts) IN
    IF of = <<>> THEN NONE ELSE FoldLeft(LAMBDA p, c : Or(p, c.sem), NullContext, of)

Predicated(call, d) ==
    LET alts  == IF d.unique # INVALID_ALT_NUMBER THEN {d.unique} ELSE d.conflicting
        nalts == Len(Trans(call.decision))
        all   == [i \in 1..nalts |-> [alt |-> i, pred |-> AltPred(alts, d.configs, i)]]
        none  == \A i \in 1..nalts : all[i].pred = NONE
    IN  IF none THEN [d EXCEPT !.prediction = Min(alts)]
        ELSE [d EXCEPT !.preds = SelectSeq(all, LAMBDA e : e.alt \in alts), !.prediction = INVALID_ALT_NUMBER]

\* computeTargetState, before the state is added.
Concluded(m, set, unique, conflict) ==
    IF unique # INVALID_ALT_NUMBER
    THEN [State(set) EXCEPT !.accept = TRUE, !.unique = unique, !.prediction = unique]
    ELSE IF SLLConflict(m, set)
    THEN [State(set) EXCEPT !.accept = TRUE, !.full = TRUE, !.conflicting = conflict, !.prediction = Min(conflict)]
    ELSE State(set)
WithPredicates(call, e) == IF e.accept /\ e.sem THEN Predicated(call, e) ELSE e
TargetOf(call, m, set) ==
    [state |-> IF set.configs = <<>> THEN ERROR
               ELSE WithPredicates(call, Concluded(m, set, UniqueAlt(set.configs), UNION AltSubsets(set.configs))),
     cache |-> set.cache]
Target(call, m, d, t, cache) == TargetOf(call, m, Reach(call, d.configs, t, FALSE, cache))

\* addDFAState: one that is there already is used instead.
Interned(states, d) ==
    LET same == {e \in states : SameState(d, e)} IN
    IF d = ERROR \/ same = {} THEN d ELSE CHOOSE e \in same : TRUE

\* applyPrecedenceFilter.  Of alternative 1 the last context in a state counts.
Filtered(call, set) ==
    LET cs == set.configs
        Kept(c)   == c.alt = 1 /\ EvalPrecedence(c.sem, call) # NullContext
        one  == SelectSeq(cs, Kept)
        At1(c)    == {n \in DOMAIN one : one[n].state = c.state}
        inAlt1(c) == At1(c) # {} /\ one[Max(At1(c))].ctx = c.ctx
        rest == SelectSeq(cs, LAMBDA c : c.alt # 1 /\ (c.suppressed \/ ~inAlt1(c)))
    IN  AddAll(Empty(set.cache),
               [n \in DOMAIN one |-> [one[n] EXCEPT !.sem = EvalPrecedence(@, call)]] \o rest, FALSE)

\* The configurations a prediction starts with.
StartSet(call, set) == IF IsPrecedenceDfa(call) THEN Filtered(call, set) ELSE set

-----------------------------------------------------------------------------
(* Errors *)

\* The least alternative that has left the rule of the decision.
Finished(cs) ==
    LET left == {n \in DOMAIN cs : cs[n].outer > 0 \/ (RuleStop(cs[n].state) /\ HasEmptyPath(cs[n].ctx))} IN
    IF left = {} THEN INVALID_ALT_NUMBER ELSE Min({cs[n].alt : n \in left})

\* getSynValidOrSemInvalidAltThatFinishedDecisionEntryRule.
Rescue(call, cs) ==
    LET valid   == SelectSeq(cs, LAMBDA c : Eval(c.sem, call))
        invalid == SelectSeq(cs, LAMBDA c : ~Eval(c.sem, call))
    IN  IF Finished(valid) # INVALID_ALT_NUMBER THEN Finished(valid) ELSE Finished(invalid)

-----------------------------------------------------------------------------
(* adaptivePredict *)

NoViableAlt    == INVALID_ALT_NUMBER
\* An alternative, or none: then with the token that the error names, token i of the input.
Done(call, a, i) == [phase |-> "done", call |-> call, alt |-> a,
                     at |-> IF a = NoViableAlt THEN Min({i, Len(call.input) + 1}) ELSE 0]
At(call, i)    == IF i <= Len(call.input) THEN call.input[i] ELSE EOF

SLL(call, d, i, cache) == [phase |-> "sll", call |-> call, d |-> d, i |-> i, cache |-> cache]
LL(call, cs, i, cache) == [phase |-> "ll", call |-> call, configs |-> cs, i |-> i, cache |-> cache]

\* What is left of a prediction when the DFA has answered d after token i.  The
\* error is noted where lookahead stopped, but for one whose predicates all fail: by
\* then the input is back at its start.
Judged(m, call, from, d, i, cache) ==
    LET alts  == {d.preds[n].alt : n \in {k \in DOMAIN d.preds : Eval(d.preds[k].pred, call)}}
        Restarted(start) == LL(call, start.configs, 1, start.cache)
    IN  IF d = ERROR THEN Done(call, Rescue(call, from.configs), i)
        ELSE IF d.full /\ m # "SLL"
        THEN IF Cardinality(alts) = 1 THEN Done(call, Min(alts), i) ELSE Restarted(ComputeStart(call, TRUE, cache))
        ELSE IF ~d.accept THEN SLL(call, d, i + 1, cache)
        ELSE IF d.preds = <<>> THEN Done(call, d.prediction, i)
        ELSE Done(call, IF alts = {} THEN NoViableAlt ELSE Min(alts), 1)

\* execATNWithFullContext, one token.
Resolved(m, r, set, subsets) ==
    LET viable == SingleViableAlt(subsets)
        exact  == Cardinality(subsets) = 1 /\ \A alts \in subsets : Cardinality(alts) > 1
    IN  IF set.configs = <<>> THEN Done(r.call, Rescue(r.call, r.configs), r.i)
        ELSE IF UniqueAlt(set.configs) # INVALID_ALT_NUMBER THEN Done(r.call, UniqueAlt(set.configs), r.i)
        ELSE IF m = "LL" /\ viable # INVALID_ALT_NUMBER THEN Done(r.call, viable, r.i)
        ELSE IF m # "LL" /\ exact THEN Done(r.call, viable, r.i)
        ELSE LL(r.call, set.configs, r.i + 1, set.cache)
ResolvedBy(m, r, set) == Resolved(m, r, set, AltSubsets(set.configs))
WithFullContext(m, r) == ResolvedBy(m, r, Reach(r.call, r.configs, At(r.call, r.i), TRUE, r.cache))

\* A prediction that finds its DFA empty, from beginning to end.
RECURSIVE Settled(_, _)
Settled(m, r) ==
    LET After(target) == Judged(m, r.call, r.d, target.state, r.i, target.cache) IN
    IF r.phase = "done" THEN r
    ELSE Settled(m, IF r.phase = "ll" THEN WithFullContext(m, r)
                    ELSE After(Target(r.call, m, r.d, At(r.call, r.i), r.cache)))
Begun(call, kept) == SLL(call, State(kept), 1, kept.cache)
Predicted(m, call) == Settled(m, Begun(call, StartSet(call, ComputeStart(call, FALSE, NoCache))))

-----------------------------------------------------------------------------
(* What predictions and parses are for: the network is walked with the        *)
(* parser's whole stack and every way at once.  An item is where one of       *)
(* them is.                                                                  *)

\* `left' is whether no token was read and no action passed yet, `depth' as in how.
Item(s, stack) == [state |-> s, stack |-> stack, left |-> TRUE, depth |-> 0]

Steps(call, it, eof) ==
    IF RuleStop(it.state)
    THEN IF it.stack = <<>> THEN {}
         ELSE {[it EXCEPT !.state = Head(it.stack), !.stack = Tail(@), !.depth = @ - 1]}
    ELSE {LET t == Trans(it.state)[i]
              next == [it EXCEPT !.state = t.target, !.left = @ /\ t.kind # "action"]
          IN  IF t.kind # "rule" THEN next
              ELSE [next EXCEPT !.stack = <<t.follow>> \o @, !.depth = IF @ >= 0 THEN @ + 1 ELSE @] :
          i \in {j \in DOMAIN Trans(it.state) :
                 LET t == Trans(it.state)[j] IN
                 CASE t.kind = "atom" -> eof /\ Matches(t, EOF)
                   [] t.kind = "precedence" -> ~it.left \/ it.depth # 0 \/ t.n >= call.precedence
                   [] t.kind = "predicate" -> ~it.left \/ (t.dep /\ it.depth # 0) \/ t.n \in call.holds
                   [] OTHER -> TRUE}}

RECURSIVE Ways(_, _, _, _)
Ways(call, new, old, eof) ==
    LET more == UNION {Steps(call, it, eof) : it \in new} \ (new \cup old) IN
    IF more = {} THEN new \cup old ELSE Ways(call, more, new \cup old, eof)

AfterToken(call, items, t) ==
    {[state |-> Trans(it.state)[1].target, stack |-> it.stack, left |-> FALSE, depth |-> it.depth] :
        it \in {i \in Ways(call, items, {}, FALSE) : Trans(i.state) # <<>> /\ Matches(Trans(i.state)[1], t)}}

\* The alternatives from which the rest of the input is a sentence.
Viable(call) ==
    {alt \in DOMAIN Trans(call.decision) :
        LET first == {Item(Trans(call.decision)[alt].target, call.stack)}
            last  == FoldLeft(LAMBDA items, t : AfterToken(call, items, t), first, call.input)
        IN  \E it \in Ways(call, last, {}, TRUE) : RuleStop(it.state) /\ it.stack = <<>>}
=============================================================================
