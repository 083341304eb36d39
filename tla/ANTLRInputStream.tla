--------------------------- MODULE ANTLRInputStream ---------------------------
(***************************************************************************)
(* antlr4::ANTLRInputStream, the stream the driver makes of a source file: *)
(* the whole text, decoded from UTF-8, and a position.                     *)
(*                                                                         *)
(* Characters are known by their indices; the one at `size' is EOF.        *)
(***************************************************************************)
EXTENDS Integers, Sequences, SequencesExt

CONSTANTS Texts,  \* what is loaded: [length, bom, wellFormed], bom in {0, 1} counted in length
          Reach   \* bound of the lookahead and of the indices clients ask for

VARIABLES size,   \* of _data
          p,
          answer  \* the last call: [call, arg, outcome, at]
vars == <<size, p, answer>>

Reply(c, k, o, i) == [call |-> c, arg |-> k, outcome |-> o, at |-> i]
Symbol(k, i)      == Reply("LA", k, "symbol", i)

Init == size = 0 /\ p = 0 /\ answer = Reply("other", 0, "done", 0)

\* load: a byte order mark is dropped.  An ill-formed text is an error unless the
\* decoding is lenient; a stream has emptied the data before it.
Load(text, fromStream, lenient) ==
    IF text.wellFormed \/ lenient
    THEN /\ size' = text.length - text.bom /\ p' = 0
         /\ answer' = Reply("other", 0, "done", 0)
    ELSE /\ size' = IF fromStream THEN 0 ELSE size
         /\ UNCHANGED p
         /\ answer' = Reply("other", 0, "illegal_argument", 0)

\* A stream that cannot be read, as that of a file that is not there, changes nothing.
LoadNothing == UNCHANGED <<size, p>> /\ answer' = Reply("other", 0, "done", 0)

Consume_OverEOF == /\ answer' = Reply("consume", 0, IF p > size THEN "illegal_state" ELSE "done", 0)
                   /\ p' = IF p > size THEN p ELSE p + 1
                   /\ UNCHANGED size

Consume == /\ answer' = Reply("consume", 0, IF p >= size THEN "illegal_state" ELSE "done", 0)
           /\ p' = IF p >= size THEN p ELSE p + 1
           /\ UNCHANGED size

\* EOF ahead of the last character, and before the first.
Look(k) ==
    /\ answer' = LET i == IF k > 0 THEN p + k - 1 ELSE p + k IN
                 IF i < 0 THEN Reply("LA", k, "null", 0) ELSE Symbol(k, Min({i, size}))
    /\ UNCHANGED <<size, p>>

\* mark is -1 and release does nothing; reset is seek(0).
Seek(i) == /\ p' = IF i <= p THEN i ELSE Max({p, Min({i, size})})
           /\ answer' = Reply("seek", i, "done", 0)
           /\ UNCHANGED size

\* `at' is the number of characters: of an interval that ends two or more before
\* it starts the count wraps, and the text goes to the end.
GetText(from, to) ==
    /\ answer' = Reply("other", 0, "text",
                       IF from >= size THEN 0
                       ELSE IF to + 1 < from THEN size - from
                       ELSE Min({to, size - 1}) - from + 1)
    /\ UNCHANGED <<size, p>>

Next == \/ Consume \/ LoadNothing
        \/ \E k \in 1..Reach : Look(k) \/ Look(-k)
        \/ \E i \in 0..Reach : Seek(i) \/ \E j \in 0..Reach : GetText(i, j)
        \/ \E t \in Texts, s, l \in BOOLEAN : Load(t, s, l)

Spec == Init /\ [][Next]_vars

-----------------------------------------------------------------------------
(* Properties.                                                             *)

TypeOK == size \in Nat /\ p \in Nat

\* A failed load leaves the position of the text before it, beyond the end.
Stranded == /\ p > size
            /\ \/ UNCHANGED <<size, p>>
               \/ answer'.call = "seek" /\ p' <= p /\ UNCHANGED size
FailedToLoad == answer'.outcome = "illegal_argument" /\ size' = 0 /\ UNCHANGED p

Contract == INSTANCE IntStream WITH
    symbols <- [n \in 1..(size + 1) |-> n - 1], cursor <- Min({p, size}) + 1, marks <- <<1>>

Reloaded == answer'.call = "other" /\ answer'.outcome = "done" /\ p' = 0

\* The stream is what IntStream promises with everything within reach of seek, for
\* every text that was loaded.
ContractStep == Contract!Next \/ Reloaded \/ FailedToLoad \/ Stranded
ImplementsIntStream == Contract!Init /\ [][ContractStep]_vars
=============================================================================
