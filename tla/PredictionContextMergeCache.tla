---------------------- MODULE PredictionContextMergeCache ----------------------
(***************************************************************************)
(* The cache of the merges of one prediction: a map whose entries are also *)
(* linked from the latest used to the one to be dropped.                   *)
(***************************************************************************)
EXTENDS Integers, SequencesExt

CONSTANTS Keys,     \* pairs of contexts that differ
          Values,   \* merged contexts
          MaxSizes  \* of the options, 0 to disable the cache

NoEntry == "none"

VARIABLES maxSize,
          cache,    \* of each entry, by its key, value, prev and next; head, tail and size
          got       \* the last answer: [call, key, value]
vars == <<maxSize, cache, got>>

Empty == [value |-> <<>>, prev |-> <<>>, next |-> <<>>, head |-> NoEntry, tail |-> NoEntry, size |-> 0]

Entries(c) == DOMAIN c.value

SetPrev(c, k, to) == IF k = NoEntry THEN c ELSE [c EXCEPT !.prev[k] = to]
SetNext(c, k, to) == IF k = NoEntry THEN c ELSE [c EXCEPT !.next[k] = to]

\* k's neighbours have each other.
Unlinked(c, k) == SetPrev(SetNext(c, c.prev[k], c.next[k]), c.next[k], c.prev[k])

AtFront(c, k) == [SetPrev(SetNext(SetPrev(c, k, NoEntry), k, c.head), c.head, k) EXCEPT !.head = k]

moveToFront_ForgetsTail(c, k) == IF c.prev[k] = NoEntry THEN c ELSE AtFront(Unlinked(c, k), k)
moveToFront(c, k) ==
    IF c.prev[k] = NoEntry THEN c
    ELSE AtFront([Unlinked(c, k) EXCEPT !.tail = IF c.next[k] = NoEntry THEN c.prev[k] ELSE @], k)

\* A key without an entry gets one, in front.
pushToFront(c, k, v) ==
    LET With(field, to) == [j \in Entries(c) \cup {k} |-> IF j = k THEN to ELSE field[j]] IN
    AtFront([value |-> With(c.value, v), prev |-> With(c.prev, NoEntry), next |-> With(c.next, NoEntry),
             head |-> c.head, tail |-> IF c.head = NoEntry THEN k ELSE c.tail, size |-> c.size + 1], k)

remove(c, k) ==
    LET Without(field) == [j \in Entries(c) \ {k} |-> field[j]]
        unlinked       == Unlinked(c, k)
    IN  [value |-> Without(c.value), prev |-> Without(unlinked.prev), next |-> Without(unlinked.next),
         head |-> IF c.prev[k] = NoEntry THEN c.next[k] ELSE c.head,
         tail |-> IF c.next[k] = NoEntry THEN c.prev[k] ELSE c.tail,
         size |-> c.size - 1]

\* One turn of the loop of compact, which walks from the tail to the head.
Turn(c, k, preserve) ==
    [cache |-> IF k = preserve THEN c ELSE remove(c, k), entry |-> c.prev[k]]
Done(s) == s.entry = NoEntry \/ s.cache.size <= maxSize
compact(c, preserve) ==
    LET turns[n \in 0..c.size] ==
            IF n = 0 THEN [cache |-> c, entry |-> c.tail]
            ELSE LET s == turns[n - 1] IN IF Done(s) THEN s ELSE Turn(s.cache, s.entry, preserve)
    IN  turns[c.size].cache

Init == maxSize \in MaxSizes /\ cache = Empty /\ got = [call |-> "clear", key |-> NoEntry, value |-> NoEntry]

Answer(call, k, v) == got' = [call |-> call, key |-> k, value |-> v] /\ UNCHANGED maxSize

Put(k, v) ==
    /\ Answer("put", k, v)
    /\ cache' = IF maxSize = 0 THEN cache
                ELSE compact(IF k \in Entries(cache) THEN moveToFront([cache EXCEPT !.value[k] = v], k)
                             ELSE pushToFront(cache, k, v), k)

\* Looking a merge up counts as using it.
Get(k) ==
    IF k \in Entries(cache)
    THEN Answer("get", k, cache.value[k]) /\ cache' = moveToFront(cache, k)
    ELSE Answer("get", k, NoEntry) /\ UNCHANGED cache

Clear == Answer("clear", NoEntry, NoEntry) /\ cache' = Empty

Next == (\E k \in Keys : Get(k) \/ \E v \in Values : Put(k, v)) \/ Clear

Spec == Init /\ [][Next]_vars

-----------------------------------------------------------------------------
(* Properties.                                                             *)

\* The keys from the latest used to the least recent, as the entries are linked,
\* read from either end.
IsListOf(l, c) ==
    LET At(i) == IF i \in DOMAIN l THEN l[i] ELSE NoEntry IN
    /\ Entries(c) = Range(l) /\ IsInjective(l) /\ c.size = Len(l)
    /\ c.head = At(1) /\ c.tail = At(Len(l))
    /\ \A i \in DOMAIN l : c.prev[l[i]] = At(i - 1) /\ c.next[l[i]] = At(i + 1)

\* l with its i-th key, or one that it does not have, in front.
Used(l, i) == [j \in DOMAIN l |-> IF j = 1 THEN l[i] ELSE IF j <= i THEN l[j - 1] ELSE l[j]]
Latest(l, k) == IF k \in Range(l) THEN Used(l, CHOOSE i \in DOMAIN l : l[i] = k) ELSE <<k>> \o l

\* The map and its links stay one list, read from either end, of the merges last
\* used; a put drops no other than the least recent, and a lookup finds what was
\* last put.
KeepsLatestStep ==
    \E l \in [1..cache.size -> Entries(cache)] :
        LET k      == got'.key
            latest == Latest(l, k)
            after  == CASE got'.call = "clear" -> <<>>
                        [] got'.call = "get"   -> IF k \in Range(l) THEN latest ELSE l
                        [] got'.call = "put"   -> SubSeq(latest, 1, IF Len(latest) <= maxSize THEN Len(latest) ELSE maxSize)
        IN  /\ IsListOf(l, cache) /\ IsListOf(after, cache')
            /\ \A j \in Range(after) : cache'.value[j] = IF got'.call = "put" /\ j = k THEN got'.value ELSE cache.value[j]
            /\ got'.call = "get" => got'.value = IF k \in Range(l) THEN cache.value[k] ELSE NoEntry
KeepsLatest == [][KeepsLatestStep]_vars
=============================================================================
