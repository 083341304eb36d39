-------------------------- MODULE PredictionContext --------------------------
(***************************************************************************)
(* antlr4::atn::PredictionContext: the call stacks of a parser that is     *)
(* simulated, all of them in one graph.  A context is a list of entries    *)
(* sorted by return state, each with the context below it; one entry is    *)
(* the code's SingletonPredictionContext, more are an                      *)
(* ArrayPredictionContext.  The end of a stack, $, is the entry with       *)
(* EMPTY_RETURN_STATE, which sorts last and has no parent.                 *)
(***************************************************************************)
EXTENDS Integers, Sequences, TLC

LOCAL INSTANCE FiniteSetsExt
LOCAL INSTANCE SequencesExt

EMPTY_RETURN_STATE == 1000
Null  == <<>>

SingletonContext(parent, r) == <<[ret |-> r, parent |-> parent]>>
EMPTY == SingletonContext(Null, EMPTY_RETURN_STATE)

ContextIsEmpty(c) == c[1].ret = EMPTY_RETURN_STATE
HasEmptyPath(c)   == Last(c).ret = EMPTY_RETURN_STATE

\* fromRuleContext: `calls' are the follow states of the rules being parsed, the
\* outermost first.
FromRuleContext(calls) == FoldLeft(SingletonContext, EMPTY, calls)

Returns(c)   == {c[n].ret : n \in DOMAIN c}
Parent(c, r) == c[CHOOSE n \in DOMAIN c : c[n].ret = r].parent

\* PredictionContextMergeCache: what was merged before, in either order.  Its key
\* does not tell whether the root was a wildcard.
NoCache == <<>>
Known_ByFirst(cache, a, b) == {k \in DOMAIN cache : k[1] = a}
Known(cache, a, b) == {k \in {<<a, b>>, <<b, a>>} : k \in DOMAIN cache}

-----------------------------------------------------------------------------
(* merge, mergeSingletons, mergeRoot and mergeArrays.  An operator answers the *)
(* merged context and the cache after it.                                    *)

Unmerged(a, cache) == [ctx |-> a, cache |-> cache]

RECURSIVE Merge(_, _, _, _)

\* The entries of both by return state, those of the same state with their parents
\* merged.
Joined(a, b, rootIsWildcard, cache) ==
    FoldLeft(LAMBDA m, r :
                 LET Take(c) == [m EXCEPT !.ctx = @ \o SingletonContext(Parent(c, r), r)]
                     both    == Merge(Parent(a, r), Parent(b, r), rootIsWildcard, m.cache)
                 IN  IF r \notin Returns(b) THEN Take(a)
                     ELSE IF r \notin Returns(a) \/ Parent(a, r) = Parent(b, r) THEN Take(b)
                     ELSE [ctx |-> m.ctx \o SingletonContext(both.ctx, r), cache |-> both.cache],
             [ctx |-> <<>>, cache |-> cache],
             SetToSortSeq(Returns(a) \cup Returns(b), <))

Merge(a, b, rootIsWildcard, cache) ==
    LET known    == Known(cache, a, b)
        root     == rootIsWildcard /\ EMPTY \in {a, b}
        singles  == Len(a) = 1 /\ Len(b) = 1
        joined   == Joined(a, b, rootIsWildcard, cache)
        Put(m)   == [m EXCEPT !.cache = (<<a, b>> :> m.ctx) @@ @]
    IN  IF a = b THEN Unmerged(a, cache)
        ELSE IF root /\ ~singles THEN Unmerged(EMPTY, cache)
        ELSE IF known # {} THEN Unmerged(cache[CHOOSE k \in known : TRUE], cache)
        ELSE IF root THEN Put(Unmerged(EMPTY, cache))
        ELSE IF singles /\ joined.ctx \in {a, b} THEN joined
        ELSE Put(joined)

Union(a, b, rootIsWildcard) == Merge(a, b, rootIsWildcard, NoCache).ctx

-----------------------------------------------------------------------------
(* The stacks a graph stands for.                                          *)

RECURSIVE Stacks(_)
Stacks(c) == UNION {IF c[n].ret = EMPTY_RETURN_STATE THEN {<<>>}
                    ELSE {<<c[n].ret>> \o s : s \in Stacks(c[n].parent)} : n \in DOMAIN c}

-----------------------------------------------------------------------------
(* toStrings: the stacks, numbered by which entry is taken at each context,  *)
(* with as many bits for one as its entries need, the first in the lowest.   *)

\* A pattern that a context has no entry for is passed over, and the numbers end at
\* the one that takes the last entry everywhere.  Behind a $ beside other entries
\* there is a null pointer, which is followed.
Bits(size) == CHOOSE b \in 1..size : size <= 2^b /\ \A k \in 1..(b - 1) : size > 2^k

RECURSIVE Numbered(_, _)
Numbered(c, perm) ==
    IF c = Null THEN [stack |-> <<>>, goes |-> "down", last |-> TRUE]
    ELSE IF ContextIsEmpty(c) THEN [stack |-> <<>>, goes |-> "through", last |-> TRUE]
    ELSE LET index == 1 + (perm % 2^Bits(Len(c)))
             below == Numbered(c[index].parent, perm \div 2^Bits(Len(c)))
         IN  IF index > Len(c) THEN [stack |-> <<>>, goes |-> "nowhere", last |-> FALSE]
             ELSE [below EXCEPT !.stack = <<c[index].ret>> \o @, !.last = @ /\ index = Len(c)]

RECURSIVE ToStrings(_, _)
ToStrings(c, perm) ==
    LET n == Numbered(c, perm) IN
    IF n.goes = "down" THEN <<>>
    ELSE (IF n.goes = "through" THEN <<n.stack>> ELSE <<>>)
         \o (IF n.goes = "through" /\ n.last THEN <<>> ELSE ToStrings(c, perm + 1))
=============================================================================
