------------------------ MODULE PredictionContextCache ------------------------
(***************************************************************************)
(* The contexts of a set of configurations as objects, and the cache of    *)
(* all parsers through which equal ones become one object when the set is  *)
(* kept in a DFA.  An object is known by its number, EMPTY is 1, null 0.   *)
(***************************************************************************)
EXTENDS Integers, Sequences, TLC

LOCAL INSTANCE FiniteSetsExt

CONSTANTS ReturnStates,
          Configs,     \* the configurations of the set are 1..Configs
          MaxContexts  \* bound of the objects after which none is pushed, and one merged at most

EMPTY == 1
EMPTY_RETURN_STATE == 1000

VARIABLES heap,     \* of every object [returnStates, parents]
          contexts, \* of the configurations
          data      \* of the cache
vars == <<heap, contexts, data>>

IsSingleton(c) == Len(heap[c].returnStates) = 1
IsEmpty(h, c)  == h[c].returnStates[1] = EMPTY_RETURN_STATE

\* What == compares: the return states and, where they are other objects, the parents.
Equal_ByAddress(h, c, d) == c = d
RECURSIVE Equal(_, _, _)
Equal(h, c, d) ==
    \/ c = d
    \/ /\ 0 \notin {c, d}
       /\ h[c].returnStates = h[d].returnStates
       /\ \A i \in DOMAIN h[c].parents : Equal(h, h[c].parents[i], h[d].parents[i])

-----------------------------------------------------------------------------
(* getCachedContext, on m = [heap, data, visited, result].                   *)

Visit(m, c, result) == [m EXCEPT !.visited = (c :> result) @@ @, !.result = result]
Put(m, c) == [m EXCEPT !.data = IF \E d \in @ : Equal(m.heap, c, d) THEN @ ELSE @ \cup {c}]

RECURSIVE getCachedContextImpl(_, _), CachedParents(_, _)

\* The parents found for those of a context, and m after it.
CachedParents(parents, m) ==
    IF parents = <<>> THEN [found |-> <<>>, m |-> m]
    ELSE LET first == getCachedContextImpl(Head(parents), m)
             rest  == CachedParents(Tail(parents), first)
         IN  [found |-> <<first.result>> \o rest.found, m |-> rest.m]

\* What is in the cache is taken, and what is not is put there: itself, if its
\* parents are those in the cache, or a copy that has them.
getCachedContextImpl(c, m) ==
    LET cached  == {d \in m.data : Equal(m.heap, c, d)}
        above   == CachedParents(m.heap[c].parents, m)
        updated == Len(above.m.heap) + 1
        copied  == [above.m EXCEPT !.heap = Append(@, [m.heap[c] EXCEPT !.parents = above.found])]
    IN  IF IsEmpty(m.heap, c) THEN [m EXCEPT !.result = c]
        ELSE IF c \in DOMAIN m.visited THEN [m EXCEPT !.result = m.visited[c]]
        ELSE IF cached # {} THEN Visit(m, c, CHOOSE d \in cached : TRUE)
        ELSE IF above.found = m.heap[c].parents THEN Visit(Put(above.m, c), c, c)
        ELSE Visit(Visit(Put(copied, updated), updated, updated), c, updated)

RECURSIVE Optimized(_, _, _)
Optimized(i, m, results) ==
    IF i > Configs THEN [m EXCEPT !.result = results]
    ELSE LET n == getCachedContextImpl(contexts[i], [m EXCEPT !.visited = <<>>])
         IN  Optimized(i + 1, n, Append(results, n.result))

-----------------------------------------------------------------------------

Init == /\ heap = <<[returnStates |-> <<EMPTY_RETURN_STATE>>, parents |-> <<0>>]>>
        /\ contexts = [i \in 1..Configs |-> EMPTY]
        /\ data = {}

Make(i, returnStates, parents) ==
    /\ heap' = Append(heap, [returnStates |-> returnStates, parents |-> parents])
    /\ contexts' = [contexts EXCEPT ![i] = Len(heap')]
    /\ UNCHANGED data

\* A closure goes through a rule transition,
Push(i, r) == Len(heap) < MaxContexts /\ Make(i, <<r>>, <<contexts[i]>>)

\* or through the end of a rule to one of those that called it.
Pop(i) == /\ ~IsEmpty(heap, contexts[i])
          /\ \E j \in DOMAIN heap[contexts[i]].parents : contexts' = [contexts EXCEPT ![i] = heap[contexts[i]].parents[j]]
          /\ UNCHANGED <<heap, data>>

\* Contexts of one state are merged: mergeSingletons, of different return states.
\* Equal parents become the one of the first context, whichever that is.
Merge(i, j) ==
    LET a == heap[contexts[i]]
        b == heap[contexts[j]]
        p == a.parents[1]
        q == b.parents[1]
    IN  /\ Len(heap) <= MaxContexts
        /\ IsSingleton(contexts[i]) /\ IsSingleton(contexts[j])
        /\ a.returnStates[1] < b.returnStates[1] /\ ~IsEmpty(heap, contexts[j])
        /\ \E parents \in IF Equal(heap, p, q) THEN {<<p, p>>, <<q, q>>} ELSE {<<p, q>>} :
              Make(i, a.returnStates \o b.returnStates, parents)

\* addDFAState has the set's contexts replaced before it keeps the set.
optimizeConfigs ==
    LET m == Optimized(1, [heap |-> heap, data |-> data, visited |-> <<>>, result |-> 0], <<>>) IN
    heap' = m.heap /\ data' = m.data /\ contexts' = m.result

Next ==
    \/ \E i \in 1..Configs : Pop(i) \/ (\E r \in ReturnStates : Push(i, r)) \/ \E j \in 1..Configs : Merge(i, j)
    \/ optimizeConfigs

Spec == Init /\ [][Next]_vars

-----------------------------------------------------------------------------
(* Properties.                                                             *)

RECURSIVE Stacks(_, _)
Stacks(h, c) == IF IsEmpty(h, c) THEN {<<>>}
                ELSE UNION {{<<h[c].returnStates[i]>> \o s : s \in Stacks(h, h[c].parents[i])} : i \in DOMAIN h[c].parents}

\* Whatever was shared or built twice before, of equal graphs the cache has one,
\* whose parents are in the cache too; no object that others may hold is changed;
\* and an optimized set stands for the same stacks, all of it in the cache: equal
\* contexts in it are one object.
SharesEqualsStep ==
    LET Cached(c) == c = EMPTY \/ c \in data' IN
    /\ \A c \in data' : \A d \in data' : Stacks(heap', c) = Stacks(heap', d) => c = d
    /\ \A c \in data' : \A i \in DOMAIN heap'[c].parents : Cached(heap'[c].parents[i])
    /\ data \subseteq data' /\ SubSeq(heap', 1, Len(heap)) = heap
    /\ optimizeConfigs => \A i \in 1..Configs : /\ Cached(contexts'[i])
                                              /\ Stacks(heap', contexts'[i]) = Stacks(heap, contexts[i])
SharesEquals == [][SharesEqualsStep]_vars
=============================================================================
