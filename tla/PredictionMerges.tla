--------------------------- MODULE PredictionMerges ---------------------------
(***************************************************************************)
(* Two contexts, merged as the configurations of one set are: by a         *)
(* simulation that treats the root as a wildcard and, if it finds a        *)
(* conflict, by one that does not.                                         *)
(***************************************************************************)
EXTENDS PredictionContext

LOCAL INSTANCE FiniteSets
LOCAL INSTANCE FiniteSetsExt
LOCAL INSTANCE SequencesExt

CONSTANTS ReturnStates,
          MaxDepth,   \* bound of the calls on a stack
          MaxMerges   \* bound of the cached merges after which no more are made

VARIABLES x, y,      \* contexts
          wildcard,  \* how the merges are made, and
          merges,    \* the merge cache, and
          mixed      \* whether some in it were made the other way (history)
vars == <<x, y, wildcard, merges, mixed>>

RECURSIVE Depth(_)
Depth(c) == IF c = Null THEN 0 ELSE 1 + Max({Depth(c[n].parent) : n \in DOMAIN c})

Init == x = EMPTY /\ y = EMPTY /\ wildcard \in BOOLEAN /\ merges = NoCache /\ mixed = FALSE

Call(r)   == /\ Depth(x) <= MaxDepth
             /\ x' = SingletonContext(x, r) /\ UNCHANGED <<y, wildcard, merges, mixed>>
Swap      == x' = y /\ y' = x /\ UNCHANGED <<wildcard, merges, mixed>>
MergeBoth == LET m == Merge(x, y, wildcard, merges) IN
             Cardinality(DOMAIN merges) < MaxMerges /\ x' = m.ctx /\ merges' = m.cache /\ UNCHANGED <<y, wildcard, mixed>>
\* The simulation with the stack begins with the merges of the one without.
FailOver  == /\ wildcard /\ wildcard' = FALSE /\ mixed' = (merges # NoCache)
             /\ x' = EMPTY /\ y' = EMPTY /\ UNCHANGED merges
\* adaptivePredict clears the cache when it leaves.
ClearCache == /\ x' = EMPTY /\ y' = EMPTY /\ wildcard' \in BOOLEAN
              /\ merges' = NoCache /\ mixed' = FALSE

Next == (\E r \in ReturnStates : Call(r)) \/ Swap \/ MergeBoth \/ FailOver \/ ClearCache

Spec == Init /\ [][Next]_vars

-----------------------------------------------------------------------------
(* Properties.                                                             *)

\* With a wildcard at the root a stack stands for all that are longer.
Absorbed(stacks, rootIsWildcard) ==
    {s \in stacks : ~rootIsWildcard \/ ~ \E t \in stacks : IsStrictPrefix(t, s)}

\* A merged graph holds the stacks of both and no other, whatever parts of it were
\* merged before in the same way; and equal sets of stacks are equal graphs, which
\* conflicts are told by.
MergeIsUnion ==
    /\ ~mixed => Stacks(Merge(x, y, wildcard, merges).ctx) = Absorbed(Stacks(x) \cup Stacks(y), wildcard)
    /\ Union(x, y, wildcard) = Union(y, x, wildcard)
    /\ Stacks(x) = Stacks(y) <=> x = y

RECURSIVE Contexts(_)
Contexts(c) == IF c = Null THEN {} ELSE {c} \cup UNION {Contexts(c[n].parent) : n \in DOMAIN c}

\* A context is written as stacks it stands for, unless a $ stands beside another
\* entry; and as each of them, once, if it branches in one place only.
WritesItsStacks ==
    LET branches == {c \in Contexts(x) : Len(c) > 1}
        written  == ToStrings(x, 0)
    IN  (\A c \in branches : ~HasEmptyPath(c)) =>
            /\ ToSet(written) \subseteq Stacks(x)
            /\ Cardinality(branches) <= 1 =>
                  ToSet(written) = Stacks(x) /\ Len(written) = Cardinality(Stacks(x))
=============================================================================
