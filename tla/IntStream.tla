------------------------------ MODULE IntStream ------------------------------
(***************************************************************************)
(* What antlr4::IntStream promises of every stream of symbols, whatever it *)
(* buffers: a cursor over a sequence of symbols that ends in EOF.  A symbol *)
(* is known by its index in the source; a stream that filters its source   *)
(* leaves indices out.                                                     *)
(***************************************************************************)
EXTENDS Integers, Sequences, SequencesExt

VARIABLES symbols,  \* the indices of the symbols of the stream, EOF last
          cursor,   \* the symbol LA(1) is
          marks,    \* the values of cursor at the calls of mark not yet released
          answer    \* the last call: [call, arg, outcome, at]
vars == <<symbols, cursor, marks, answer>>

Outcomes == {"symbol", "done", "null", "illegal_state", "illegal_argument", "out_of_bounds",
             "unsupported", "undefined"}

Reply(c, k, o, i) == [call |-> c, arg |-> k, outcome |-> o, at |-> i]

Init == /\ cursor = 1
        /\ marks \in {<<>>, <<1>>}
        /\ answer = Reply("other", 0, "done", 0)

IsEOF(c) == c = Len(symbols)

\* Forward by at least one symbol, and never over EOF.
Consume == /\ answer' = Reply("consume", 0, IF IsEOF(cursor) THEN "illegal_state" ELSE "done", 0)
           /\ cursor' = IF IsEOF(cursor) THEN cursor ELSE cursor + 1
           /\ UNCHANGED <<symbols, marks>>

Ahead(k) == symbols[Min({cursor + k - 1, Len(symbols)})]

\* The symbol just consumed, and those consumed in a marked region.
Guaranteed(k) == k < cursor /\ (k = 1 \/ (marks # <<>> /\ marks[1] <= cursor - k))

LookAhead(k) == k > 0 /\ answer' = Reply("LA", k, "symbol", Ahead(k))
LookBack(k)  == /\ k > 0
                /\ answer'.call = "LA" /\ answer'.arg = -k
                /\ Guaranteed(k) => answer' = Reply("LA", -k, "symbol", symbols[cursor - k])

\* LA(0) is unspecified.
Look == /\ LookAhead(answer'.arg) \/ LookBack(-answer'.arg)
        /\ UNCHANGED <<symbols, cursor, marks>>

\* The first symbol at or after an index, or EOF.
Target(i) == Min({c \in DOMAIN symbols : symbols[c] >= i \/ IsEOF(c)})

SeekTo(i) ==
    \/ answer' = Reply("seek", i, "done", 0) /\ cursor' = Target(i)
    \/ /\ ~(marks # <<>> /\ Target(i) \in marks[1]..cursor)
       /\ answer'.call = "seek" /\ answer'.arg = i /\ answer'.outcome \in Outcomes \ {"done", "symbol"}
       /\ UNCHANGED cursor

Seek == SeekTo(answer'.arg) /\ UNCHANGED <<symbols, marks>>

Mark    == answer'.call = "mark" /\ marks' = Append(marks, cursor) /\ UNCHANGED <<symbols, cursor>>
Release == /\ answer'.call = "release" /\ marks # <<>>
           /\ marks' = SubSeq(marks, 1, Len(marks) - 1)
           /\ UNCHANGED <<symbols, cursor>>

\* Anything else leaves the cursor alone, or starts over on another source.
Other == /\ answer'.call = "other"
         /\ UNCHANGED marks
         /\ UNCHANGED <<symbols, cursor>> \/ cursor' = 1

Next == Consume \/ Look \/ Seek \/ Mark \/ Release \/ Other

Spec == Init /\ [][Next]_vars
=============================================================================
