----------------------------- MODULE IntervalSet -----------------------------
(***************************************************************************)
(* antlr4::misc::IntervalSet: a set of token types or characters as a list *)
(* of intervals.  EOF is -1 and the error recovery's EPSILON is -2.        *)
(***************************************************************************)
EXTENDS Integers, SequencesExt

CONSTANT Elements  \* the range the elements are of

INVALID_TYPE == 0

VARIABLES set, other  \* two sets clients hold, as lists of [a, b]
vars == <<set, other>>

-----------------------------------------------------------------------------
(* Interval *)

Interval(a, b) == [a |-> a, b |-> b]
StartsBeforeDisjoint_Touching(r, s) == r.a < s.a /\ r.b <= s.a
StartsBeforeDisjoint(r, s)   == r.a < s.a /\ r.b < s.a
StartsAfterDisjoint(r, s)    == r.a > s.b
StartsAfterNonDisjoint(r, s) == r.a > s.a /\ r.a <= s.b
Disjoint(r, s)               == StartsBeforeDisjoint(r, s) \/ StartsAfterDisjoint(r, s)
Adjacent(r, s)               == r.a = s.b + 1 \/ r.b = s.a - 1
ProperlyContains(r, s)       == s.a >= r.a /\ s.b <= r.b
Union2(r, s)                 == Interval(Min({r.a, s.a}), Max({r.b, s.b}))
Intersection(r, s)           == Interval(Max({r.a, s.a}), Min({r.b, s.b}))
Touching_Overlaps(r, s)      == ~Disjoint(r, s)
Touching(r, s)               == Adjacent(r, s) \/ ~Disjoint(r, s)

-----------------------------------------------------------------------------
(* IntervalSet.  A loop that looks for an interval is where it stops; one   *)
(* that takes turns is a recursive function of how many it has taken.       *)

\* list with others in place of its intervals i to j.
Spliced(list, i, j, others) == SubSeq(list, 1, i - 1) \o others \o SubSeq(list, j + 1, Len(list))

\* Swallow the intervals behind i that the one just enlarged reaches.  Each is
\* compared with `bigger', the union made first, and joined to it alone.
Merged(list, i, bigger) ==
    LET reached == {j \in i + 1..Len(list) : \A k \in i + 1..j : Touching(bigger, list[k])}
        last    == Max(reached)
    IN  IF reached = {} THEN Spliced(list, i, i, <<bigger>>)
        ELSE Spliced(list, i, last, <<Union2(bigger, list[last])>>)

Insert(list, new) ==
    LET i == SelectInSeq(list, LAMBDA r : new = r \/ Touching(new, r) \/ StartsBeforeDisjoint(new, r))
    IN  IF i = 0 THEN Append(list, new)
        ELSE IF new = list[i] THEN list
        ELSE IF Touching(new, list[i]) THEN Merged(list, i, Union2(new, list[i]))
        ELSE Spliced(list, i, i - 1, <<new>>)

Added(list, i) == IF i.b < i.a THEN list ELSE Insert(list, i)
AddedAll(list, ls) ==
    LET with[n \in 0..Len(ls)] == IF n = 0 THEN list ELSE Added(with[n - 1], ls[n])
    IN  with[Len(ls)]
Or(mine, theirs)   == AddedAll(AddedAll(<<>>, mine), theirs)
Equals(mine, theirs) == /\ Len(mine) = Len(theirs)
                        /\ \A n \in DOMAIN mine : mine[n] = theirs[n]

\* A turn of subtract, at the i-th interval of its result and the j-th of right.  What
\* is left before or after the one taken away is an interval only if it starts
\* above -1, the value of one that was not set.
Cut(s, right) ==
    LET l == s.result[s.i]
        r == right[s.j]
        before == r.a > l.a /\ l.a > -1
        after  == r.b < l.b /\ r.b + 1 > -1
        Before == Interval(l.a, r.a - 1)
        After  == Interval(r.b + 1, l.b)
        Instead(others) == Spliced(s.result, s.i, s.i, others)
    IN  IF r.b < l.a THEN [s EXCEPT !.j = @ + 1]
        ELSE IF r.a > l.b THEN [s EXCEPT !.i = @ + 1]
        ELSE IF before /\ after THEN [result |-> Instead(<<Before, After>>), i |-> s.i + 1, j |-> s.j + 1]
        ELSE IF before THEN [s EXCEPT !.result = Instead(<<Before>>), !.i = @ + 1]
        ELSE IF after THEN [s EXCEPT !.result = Instead(<<After>>), !.j = @ + 1]
        ELSE [s EXCEPT !.result = Instead(<<>>)]
Subtracted(left, right) ==
    LET turns == Len(left) + Len(right)
        cut[n \in 0..turns] ==
            IF n = 0 THEN [result |-> left, i |-> 1, j |-> 1]
            ELSE LET s == cut[n - 1] IN IF s.i > Len(s.result) \/ s.j > Len(right) THEN s ELSE Cut(s, right)
    IN  cut[turns].result

Complement(list, min, max) == Subtracted(<<Interval(min, max)>>, list)

\* A turn of And, at the i-th interval of mine and the j-th of theirs.
Meet(s, mine, theirs) ==
    LET m == mine[s.i]
        t == theirs[s.j]
        both == Added(s.found, Intersection(m, t))
        mineEndsLast == \/ ProperlyContains(m, t)
                        \/ (~ProperlyContains(t, m) /\ StartsAfterNonDisjoint(m, t))
    IN  IF StartsBeforeDisjoint(m, t) THEN [s EXCEPT !.i = @ + 1]
        ELSE IF StartsBeforeDisjoint(t, m) THEN [s EXCEPT !.j = @ + 1]
        ELSE IF mineEndsLast THEN [s EXCEPT !.found = both, !.j = @ + 1]
        ELSE [s EXCEPT !.found = both, !.i = @ + 1]
And(mine, theirs) ==
    LET turns == Len(mine) + Len(theirs)
        met[n \in 0..turns] ==
            IF n = 0 THEN [found |-> <<>>, i |-> 1, j |-> 1]
            ELSE LET s == met[n - 1] IN IF s.i > Len(mine) \/ s.j > Len(theirs) THEN s ELSE Meet(s, mine, theirs)
    IN  met[turns].found

Removed(list, el) ==
    LET i == SelectInSeq(list, LAMBDA r : el < r.a \/ el <= r.b)
        r == list[i]
        Instead(others) == Spliced(list, i, i, others)
    IN  IF i = 0 THEN list
        ELSE IF el < r.a THEN list
        ELSE IF r.a = r.b THEN Instead(<<>>)
        ELSE IF el = r.a THEN Instead(<<Interval(el + 1, r.b)>>)
        ELSE IF el = r.b THEN Instead(<<Interval(r.a, el - 1)>>)
        ELSE Added(Instead(<<Interval(r.a, el - 1)>>), Interval(el + 1, r.b))

\* std::binary_search of a sorted list: whether el is before the first interval that
\* is not before el.
Search(list, el) ==
    LET i == SelectInSeq(list, LAMBDA r : ~(r.b < el)) IN i # 0 /\ ~(el < list[i].a)
Holds(list, el) ==
    list # <<>> /\ el >= Head(list).a /\ el <= Last(list).b /\ Search(list, el)

MinElement(list)    == IF list = <<>> THEN INVALID_TYPE ELSE Head(list).a
MaxElement(list)    == IF list = <<>> THEN INVALID_TYPE ELSE Last(list).b
SingleElement(list) == IF Len(list) = 1 /\ Head(list).a = Head(list).b THEN Head(list).a ELSE INVALID_TYPE

\* How many elements the first n intervals have.
Counted(list) ==
    LET count[n \in 0..Len(list)] == IF n = 0 THEN 0 ELSE count[n - 1] + list[n].b - list[n].a + 1
    IN  count
Size(list) == Counted(list)[Len(list)]
GetAt(list, i) ==
    LET passed == {n \in DOMAIN list : i < Counted(list)[n]}
    IN  IF passed = {} THEN -1 ELSE list[Min(passed)].a + i - Counted(list)[Min(passed) - 1]

-----------------------------------------------------------------------------
(* Clients *)

Init == set = <<>> /\ other = <<>>

Add(a, b)     == set' = Added(set, Interval(a, b)) /\ UNCHANGED other
RemoveElement(el)    == set' = Removed(set, el) /\ UNCHANGED other
AddAll        == set' = AddedAll(set, other) /\ UNCHANGED other
Subtract      == set' = Subtracted(set, other) /\ UNCHANGED other
Intersect     == set' = And(set, other) /\ UNCHANGED other
Negate(lo, hi) == set' = Complement(set, lo, hi) /\ UNCHANGED other
Clear         == set' = <<>> /\ UNCHANGED other
Swap          == set' = other /\ other' = set

Next == \/ AddAll \/ Subtract \/ Intersect \/ Clear \/ Swap
        \/ \E a \in Elements : RemoveElement(a) \/ \E b \in Elements : Add(a, b) \/ (a >= 0 /\ a <= b /\ Negate(a, b))

Spec == Init /\ [][Next]_vars

-----------------------------------------------------------------------------
(* Properties.                                                             *)

\* Sorted, and apart by more than one: the form a client reaches, by which equality of
\* lists is equality of sets.  (IntervalSet.h:67-69 has {1..5, 10..20} become
\* {1..5, 6..7, 10..20} by adding 6..7.  The code joins neighbours, to {1..7, 10..20}.)
IsNormal(list) == /\ \A n \in DOMAIN list : list[n].a <= list[n].b
                  /\ \A m, n \in DOMAIN list : m < n => list[m].b + 1 < list[n].a

\* The lists stay sorted and their intervals do not meet, on which the search and the
\* loops rely.  Whether neighbours are joined, where header and code part, it leaves open.
InOrder(list) == /\ \A n \in DOMAIN list : list[n].a <= list[n].b
                 /\ \A m, n \in DOMAIN list : m < n => list[m].b < list[n].a
NormalForm == InOrder(set) /\ InOrder(other)

Denoted(list) == UNION {i.a..i.b : i \in ToSet(list)}

\* The part of an interval from EOF or EPSILON on may be lost with what is taken
\* away: what is left of it is taken to be nothing.
Forgotten(left, right) == UNION {l.a..l.b : l \in {i \in ToSet(left) : i.a < 0 /\ i.a..i.b \cap Denoted(right) # {}}}

\* The operations are those of sets of integers: each gives the set its name says
\* and the queries tell its elements; but for sets where EOF has a neighbour, which
\* subtract may forget.
ActsAsSet ==
    /\ \A a, b \in Elements : Denoted(Added(set, Interval(a, b))) = Denoted(set) \cup a..b
    /\ \A x \in Elements : /\ Denoted(Removed(set, x)) = Denoted(set) \ {x}
                           /\ Holds(set, x) <=> x \in Denoted(set)
    /\ Denoted(AddedAll(set, other)) = Denoted(set) \cup Denoted(other)
    /\ Equals(Or(set, other), AddedAll(set, other))
    /\ Equals(set, other) <=> Denoted(set) = Denoted(other)
    /\ Denoted(And(set, other)) = Denoted(set) \cap Denoted(other)
    /\ Denoted(Subtracted(set, other)) \subseteq Denoted(set) \ Denoted(other)
    /\ Denoted(set) \ Denoted(other) \subseteq Denoted(Subtracted(set, other)) \cup Forgotten(set, other)
    /\ set # <<>> => /\ MinElement(set) = Min(Denoted(set))
                     /\ MaxElement(set) = Max(Denoted(set))
    /\ Denoted(set) = {GetAt(set, n) : n \in 0..Size(set) - 1}
    /\ \A m, n \in 0..Size(set) - 1 : m < n => GetAt(set, m) < GetAt(set, n)
    /\ SingleElement(set) # INVALID_TYPE => Denoted(set) = {SingleElement(set)}
=============================================================================
