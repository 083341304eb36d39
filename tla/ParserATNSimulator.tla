-------------------------- MODULE ParserATNSimulator --------------------------
(***************************************************************************)
(* antlr4::atn::ParserATNSimulator: which alternative of a decision a      *)
(* parser takes.  adaptivePredict simulates the network on the tokens      *)
(* ahead without the parser's stack (SLL) and remembers what it computes   *)
(* in a DFA that all parsers of the grammar share; if that ends in a       *)
(* conflict it simulates again with the stack (LL).                        *)
(*                                                                         *)
(* Parsers run at the same time: what one does while it holds no lock of   *)
(* the DFA is one step.                                                    *)
(***************************************************************************)
EXTENDS ATNSimulation

LOCAL INSTANCE FiniteSets
LOCAL INSTANCE FiniteSetsExt
LOCAL INSTANCE SequencesExt

CONSTANTS Nets,           \* grammars: [net, calls]
          Modes,          \* prediction modes, some of SLL, LL, LL_EXACT_AMBIG_DETECTION
          Parsers,
          MaxPredictions  \* bound of the predictions made

VARIABLES calls,   \* those of the grammar that was chosen
          mode,    \* of each parser
          dfa,     \* per decision: [start, states, edges]
          run,     \* what each parser does
          made     \* how many predictions were begun
vars == <<atn, calls, mode, dfa, run, made>>

-----------------------------------------------------------------------------
Idle == [phase |-> "idle"]

Key_Shared(call) == 0
Key(call) == IF IsPrecedenceDfa(call) THEN call.precedence ELSE 0

Become(q, r) == run' = [run EXCEPT ![q] = r]

NoDFA == [start |-> <<>>, states |-> {}, edges |-> <<>>]

Init == /\ \E n \in Nets : atn = n.net /\ calls = n.calls
        /\ mode \in [Parsers -> Modes]
        /\ dfa = [s \in Range(atn.decisions) |-> NoDFA]
        /\ run = [q \in Parsers |-> Idle]
        /\ made = 0

\* Looks for the start state.
AdaptivePredict(q, call) ==
    LET d == dfa[call.decision] IN
    /\ run[q].phase \in {"idle", "done"} /\ made < MaxPredictions
    /\ made' = made + 1
    /\ Become(q, IF Key(call) \in DOMAIN d.start THEN SLL(call, d.start[Key(call)], 1, NoCache)
                 ELSE [phase |-> "start", call |-> call])
    /\ UNCHANGED <<atn, calls, mode, dfa>>

\* Computes it and adds it.
StartWith(q, call, kept, d) ==
    /\ dfa' = [dfa EXCEPT ![call.decision].states = @ \cup {d},
                          ![call.decision].start = (Key(call) :> d) @@ @]
    /\ Become(q, SLL(call, d, 1, kept.cache))
AddStart(q) ==
    LET call == run[q].call IN
    /\ run[q].phase = "start"
    /\ \E kept \in {StartSet(call, ComputeStart(call, FALSE, NoCache))} :
           StartWith(q, call, kept, Interned(dfa[call.decision].states, State(kept)))
    /\ UNCHANGED <<atn, calls, mode, made>>

\* The targets, one or none, of the edge that is there.
getExistingTargetState(decision, previous, t) ==
    LET edges == dfa[decision].edges IN {edges[at] : at \in {<<previous, t>>} \cap DOMAIN edges}

\* execATN, along an edge that is there.
FollowEdge(q) ==
    LET r     == run[q]
        there == getExistingTargetState(r.call.decision, r.d, At(r.call, r.i))
    IN  /\ r.phase = "sll"
        /\ IF there = {} THEN Become(q, [r EXCEPT !.phase = "edge"])
           ELSE \E d \in there : Become(q, Judged(mode[q], r.call, r.d, d, r.i, r.cache))
        /\ UNCHANGED <<atn, calls, mode, dfa, made>>

\* Computes the edge's target and adds both.
AddEdge(q) ==
    LET r == run[q]
        t == At(r.call, r.i)
    IN  /\ r.phase = "edge"
        /\ \E target \in {Target(r.call, mode[q], r.d, t, r.cache)} :
           \E d \in {Interned(dfa[r.call.decision].states, target.state)} :
               /\ dfa' = [dfa EXCEPT ![r.call.decision].states = IF d = ERROR THEN @ ELSE @ \cup {d},
                                     ![r.call.decision].edges = (<<r.d, t>> :> d) @@ @]
               /\ Become(q, Judged(mode[q], r.call, r.d, d, r.i, target.cache))
        /\ UNCHANGED <<atn, calls, mode, made>>

\* execATNWithFullContext, one token.
FullContext(q) ==
    /\ run[q].phase = "ll"
    /\ Become(q, WithFullContext(mode[q], run[q]))
    /\ UNCHANGED <<atn, calls, mode, dfa, made>>

Step(q) == AddStart(q) \/ FollowEdge(q) \/ AddEdge(q) \/ FullContext(q)
Next == \E q \in Parsers : Step(q) \/ \E call \in calls : AdaptivePredict(q, call)

Spec == Init /\ [][Next]_vars

-----------------------------------------------------------------------------
(* Properties.                                                             *)

\* Of the alternatives from which the input can be parsed, with the rules the
\* parser is in, a prediction is the least: whatever was predicted before with
\* other stacks and precedences, and whatever other parsers add to the DFA
\* meanwhile.
PredictsLeast == \A q \in Parsers :
    run[q].phase = "done" /\ mode[q] # "SLL" =>
        LET viable == Viable(run[q].call) IN viable # {} => run[q].alt = Min(viable)

\* What the DFA holds is what a fresh parser would compute: no prediction leaves a
\* trace of its stack or its predicates there.
DFAIsTimeless == \A call \in calls :
    LET d == dfa[call.decision] IN
    /\ Key(call) \in DOMAIN d.start =>
          SameState(d.start[Key(call)], State(StartSet(call, ComputeStart(call, FALSE, NoCache))))
    /\ \A e \in DOMAIN d.edges : \E m \in Modes :
          SameState(d.edges[e], Target(call, m, e[1], e[2], NoCache).state)

\* Every prediction ends at the latest when it has looked at the end of the input
\* once: what is left then is a conflict or an answer.
EndsAtEOF == \A q \in Parsers :
    run[q].phase \in {"sll", "edge", "ll"} => run[q].i <= Len(run[q].call.input) + 1

\* The tokens an error message and the recovery expect in a state are those with
\* which some way goes on from there, through the end of rules and optional parts,
\* and no other.  (Predicates are seen through.)
ExpectsWhatFits == made = 0 =>
    \A call \in calls : \A s \in {n \in DOMAIN atn.states : RuleOf(n) = RuleOf(call.decision)} :
        LET ways == Ways(call, {[Item(s, call.stack) EXCEPT !.left = FALSE]}, {}, FALSE)
        IN  ExpectedTokens(s, call.stack) =
                UNION {IF RuleStop(it.state) /\ it.stack = <<>> THEN {EOF}
                       ELSE UNION {Trans(it.state)[i].label : i \in DOMAIN Trans(it.state)} : it \in ways}
=============================================================================
