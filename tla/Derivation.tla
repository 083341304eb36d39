------------------------------ MODULE Derivation ------------------------------
(***************************************************************************)
(* What a parser promises while it parses: it walks the network with a     *)
(* stack of the states to return to and reads what the edges say.  It      *)
(* leaves the network only where it reports an error, or has reported one  *)
(* and read nothing that fits since.  It reports no two errors where it    *)
(* stands; two that it reports in a row may name one token, when the first *)
(* was noticed by looking ahead.                                           *)
(***************************************************************************)
EXTENDS ATN

LOCAL INSTANCE SequencesExt

VARIABLES text,    \* the tokens
          at,      \* where in the network
          stack,   \* the states to return to, the innermost first
          pos,     \* the next token
          errors,  \* where errors were reported, and of which tokens
          healed   \* whether a token was read since
vars == <<atn, text, at, stack, pos, errors, healed>>

Next1 == IF pos <= Len(text) THEN text[pos] ELSE EOF

StartState(r) == CHOOSE s \in DOMAIN atn.states : Is(s, "RULE_START") /\ RuleOf(s) = r

Begun(r) == at = StartState(r) /\ stack = <<>> /\ pos = 1 /\ errors = <<>> /\ healed
Init(r)  == text \in Seq(Int) /\ Begun(r)

Calm == UNCHANGED <<atn, text, errors>>

\* Along an edge that reads nothing.
Follow == \E i \in DOMAIN Trans(at) : LET t == Trans(at)[i] IN
    /\ ~RuleStop(at) /\ t.kind \notin {"rule", "atom"}
    /\ at' = t.target
    /\ Calm /\ UNCHANGED <<stack, pos, healed>>

Call == \E i \in DOMAIN Trans(at) : LET t == Trans(at)[i] IN
    /\ t.kind = "rule"
    /\ at' = t.target /\ stack' = <<t.follow>> \o stack
    /\ Calm /\ UNCHANGED <<pos, healed>>

Return ==
    /\ RuleStop(at) /\ stack # <<>>
    /\ at' = Head(stack) /\ stack' = Tail(stack)
    /\ Calm /\ UNCHANGED <<pos, healed>>

\* EOF can be read any number of times.
Read == \E i \in DOMAIN Trans(at) : LET t == Trans(at)[i] IN
    /\ Matches(t, Next1)
    /\ at' = t.target /\ pos' = (IF Next1 = EOF THEN pos ELSE pos + 1) /\ healed' = TRUE
    /\ Calm /\ UNCHANGED stack

\* Tokens are dropped, a missing one is made up, or the rule is given up.  One
\* token may be dropped without use: the next is an error as well.
ErrorsAt(n) == [at : {n}, token : n..(Len(text) + 1)]
Repair ==
    /\ \/ ~healed /\ UNCHANGED errors
       \/ /\ \/ \E e \in ErrorsAt(pos) : errors' = Append(errors, e)
             \/ \E e \in ErrorsAt(pos + 1) : errors' = errors \o <<[at |-> pos, token |-> pos], e>>
          /\ healed /\ (errors = <<>> \/ Last(errors).at < pos)
    /\ healed' \in BOOLEAN
    /\ pos' \in pos..(Len(text) + 1)
    /\ ~RuleStop(at)
    /\ at' \in {at} \cup {Trans(at)[i].target : i \in DOMAIN Trans(at)} \cup {StopState(RuleOf(at))}
    /\ UNCHANGED <<atn, text, stack>>

Again(r) == UNCHANGED <<atn, text>> /\ Begun(r)'

Next(r) == Follow \/ Call \/ Return \/ Read \/ Repair \/ Again(r)
=============================================================================
