-------------------------- MODULE TokenStreamRewriter --------------------------
(***************************************************************************)
(* antlr4::TokenStreamRewriter: insertions and replacements are noted in a *)
(* program and carried out when the text is asked for.  The tokens are     *)
(* 0..Size-1, the last of them EOF; a text is a sequence of tokens and of  *)
(* the numbers of the operations that brought their texts in.              *)
(***************************************************************************)
EXTENDS Integers, Sequences

LOCAL INSTANCE FiniteSetsExt
LOCAL INSTANCE SequencesExt

CONSTANTS Size,     \* number of tokens, EOF included
          MaxOps    \* bound of the operations, rollbacks and texts asked for

VARIABLES program,  \* _programs[...], a killed operation is Null
          history,  \* what was asked for, in order
          text,     \* the last text returned
          status    \* running, thrown: an exception left getText; undefined: it ended in undefined behaviour
vars == <<program, history, text, status>>

Insert(i, t)     == [kind |-> "insert", index |-> i, last |-> i, text |-> t]
Replace(i, j, t) == [kind |-> "replace", index |-> i, last |-> j, text |-> t]
Null    == [kind |-> "null", index |-> 0, last |-> 0, text |-> <<>>]
RolledBack == [Null EXCEPT !.kind = "rollback"]
EOFAt   == Size - 1
Indexes == 0..Size - 1

-----------------------------------------------------------------------------
(* reduceToSingleOperationPerIndex.  A result [ops, how] says how it ended.  *)

Ops(ops)      == [ops |-> ops, how |-> "running"]
Ended(r, how) == [r EXCEPT !.how = how]
\* getKindOfOps: those before the i-th, in order.
Prior(r, i, kind) == SelectSeq([k \in 1..i - 1 |-> k], LAMBDA k : r.ops[k].kind = kind)
\* Step by step, until something is thrown.
Over(r, Step(_, _), list) == FoldLeft(LAMBDA z, k : IF z.how = "running" THEN Step(z, k) ELSE z, r, list)

Takes(r, i, k)    == [r EXCEPT !.ops[i].text = r.ops[k].text \o @, !.ops[k] = Null]
Kills(r, k)       == [r EXCEPT !.ops[k] = Null]
Within(op, index) == op.index <= index /\ index <= op.last
Disjoint(a, b)    == a.last < b.index \/ a.index > b.last

\* An insertion before the replacement is taken into its text, or dropped.
PriorInsert(r, i, k) ==
    LET op == r.ops[i]
        ins == r.ops[k]
    IN  IF ins.index = op.index THEN Takes(r, i, k)
        ELSE IF Within(op, ins.index) THEN Kills(r, k)
        ELSE r
\* An earlier replacement is contained, or both are deletions, or they are disjoint.
PriorReplace(r, i, k) ==
    LET op == r.ops[i]
        old == r.ops[k]
    IN  IF Within(op, old.index) /\ Within(op, old.last) THEN Kills(r, k)
        ELSE IF Disjoint(op, old) THEN r
        ELSE IF old.text = <<>> /\ op.text = <<>>
        THEN Kills([r EXCEPT !.ops[i].index = Min({@, old.index}), !.ops[i].last = Max({@, old.last})], k)
        ELSE Ended(r, "thrown")
WalkReplace(r, i) ==
    LET Inserted(z, k) == PriorInsert(z, i, k)
        Replaced(z, k) == PriorReplace(z, i, k)
        after          == Over(r, Inserted, Prior(r, i, "insert"))
    IN  IF r.ops[i].kind # "replace" THEN r ELSE Over(after, Replaced, Prior(r, i, "replace"))

\* Mutant of Joins: the texts in the order of the calls.
Joins_InOrder(r, i, k) == IF r.ops[k].index = r.ops[i].index
                          THEN [r EXCEPT !.ops[i].text = r.ops[k].text \o @, !.ops[k] = Null] ELSE r
\* An insertion takes in an earlier one at its index: the later text comes first.
Joins(r, i, k) == IF r.ops[k].index = r.ops[i].index
                  THEN [r EXCEPT !.ops[i].text = @ \o r.ops[k].text, !.ops[k] = Null] ELSE r
\* An insertion at the start of an earlier replacement becomes part of its text and
\* is deleted; if there are further replacements it is read after that.
IntoReplace(r, i, k) ==
    IF r.ops[i] = Null THEN Ended(r, "undefined")
    ELSE IF r.ops[i].index = r.ops[k].index
    THEN Kills([r EXCEPT !.ops[k].text = r.ops[i].text \o @], i)
    ELSE IF Within(r.ops[k], r.ops[i].index) THEN Ended(r, "thrown")
    ELSE r
WalkInsert(r, i) ==
    LET Joined(z, k) == Joins(z, i, k)
        Moved(z, k)  == IntoReplace(z, i, k)
    IN  IF r.ops[i].kind # "insert" THEN r
        ELSE Over(Over(r, Joined, Prior(r, i, "insert")), Moved, Prior(r, i, "replace"))

OnePerIndex(r) ==
    IF \E i, k \in DOMAIN r.ops : i # k /\ Null \notin {r.ops[i], r.ops[k]} /\ r.ops[i].index = r.ops[k].index
    THEN Ended(r, "thrown") ELSE r
Walked(r, Step(_, _)) == Over(r, Step, [i \in DOMAIN r.ops |-> i])
\* The first loop writes through every pointer, those of killed operations too.
Reduce(ops) ==
    LET r == Walked(Walked(Ops(ops), WalkReplace), WalkInsert) IN
    IF \E i \in DOMAIN ops : ops[i] = Null THEN Ended(Ops(ops), "undefined")
    ELSE IF r.how = "running" THEN OnePerIndex(r) ELSE r

-----------------------------------------------------------------------------
(* getText *)

At(ops, i)  == {k \in DOMAIN ops : ops[k] # Null /\ ops[k].index = i}
Token(i)    == IF i = EOFAt THEN <<>> ELSE <<i>>
Op(ops, i)  == ops[CHOOSE k \in At(ops, i) : TRUE]
Execute(op) == [text |-> IF op.kind = "insert" THEN op.text \o Token(op.index) ELSE op.text, next |-> op.last + 1]

\* Through the tokens from i to stop; `left' are the indexes of operations not met.
RECURSIVE Walk(_, _, _, _)
Walk(ops, i, stop, w) ==
    IF i > stop THEN w
    ELSE IF At(ops, i) = {} THEN Walk(ops, i + 1, stop, [w EXCEPT !.text = @ \o Token(i)])
    ELSE LET e == Execute(Op(ops, i)) IN
         Walk(ops, e.next, stop, [text |-> w.text \o e.text, left |-> w.left \ {i}])
\* Behind the last token come the operations that are left there, in the order of
\* the hash table.
Behind(ops, w, order) ==
    FoldLeft(LAMBDA t, i : t \o Op(ops, i).text, w.text, SelectSeq(order, LAMBDA i : i \in w.left))
Walked1(ops, start, stop) == Walk(ops, start, stop, [text |-> <<>>, left |-> {i \in 0..Size : At(ops, i) # {}}])
Text(ops, start, stop, order) ==
    IF stop = EOFAt THEN Behind(ops, Walked1(ops, start, stop), order) ELSE Walked1(ops, start, stop).text

-----------------------------------------------------------------------------
Init == program = <<>> /\ history = <<>> /\ text = <<>> /\ status = "running"

Running == status = "running" /\ Len(history) < MaxOps
New     == Size + Len(history)   \* the text of a new operation
More    == status = "running" /\ Len(history) < MaxOps - 1   \* a text is asked for last
Noted(op) == /\ More
             /\ program' = Append(program, op)
             /\ history' = Append(history, op)
             /\ UNCHANGED <<text, status>>

InsertBefore(i) == Noted(Insert(i, <<New>>))
InsertAfter(i)  == Noted(Insert(i + 1, <<New>>))
ReplaceRange(i, j) == i <= j /\ j < Size /\ Noted(Replace(i, j, <<New>>))
Delete(i, j)    == i <= j /\ j < Size /\ Noted(Replace(i, j, <<>>))

\* insert() leaves the entry of a program that is there as it is, however much of
\* it is to stay.
Rollback ==
    /\ More /\ program # <<>>
    /\ history' = Append(history, RolledBack)
    /\ UNCHANGED <<program, text, status>>

GetText(start, stop) ==
    LET r == Reduce(program) IN
    /\ Running /\ start <= stop
    /\ history' = Append(history, Null)
    /\ program' = r.ops
    /\ status' = r.how
    /\ \E order \in {<<EOFAt, Size>>, <<Size, EOFAt>>} :
          text' = IF r.how = "running" THEN Text(r.ops, start, stop, order) ELSE text

\* InsertAfter(i) is InsertBefore(i + 1), which there is but for the last token.
Next ==
    \/ \E i \in Indexes : InsertBefore(i)
    \/ InsertAfter(EOFAt)
    \/ \E i, j \in Indexes : ReplaceRange(i, j) \/ Delete(i, j) \/ GetText(i, j)
    \/ Rollback
Spec == Init /\ [][Next]_vars
-----------------------------------------------------------------------------
(* Properties. *)

\* The document after the operations, one by one: what stands before each token, and in
\* its place.  A replacement takes the place of what stands before its first token too,
\* and either wipes it out (TokenStreamRewriter.h:265-268) or keeps it before its own
\* text (:240, and the code).
Document == [before |-> [i \in 0..Size |-> <<>>], here |-> [i \in Indexes |-> Token(i)]]
Applied(doc, op, wipes) ==
    CASE op.kind = "insert"  -> [doc EXCEPT !.before[op.index] = op.text \o @]
      [] op.kind = "replace" ->
            [before |-> [i \in 0..Size |-> IF Within(op, i) THEN <<>> ELSE doc.before[i]],
             here   |-> [i \in Indexes |-> IF i = op.index THEN (IF wipes THEN <<>> ELSE doc.before[i]) \o op.text
                                          ELSE IF Within(op, i) THEN <<>> ELSE doc.here[i]]]
      [] OTHER -> doc
\* The text from start to stop, and what was inserted right behind: always if that is the
\* end, and otherwise if `trails', as TokenStreamRewriter.h:151-152 has it of insertAfter
\* (the code has it nowhere else).
Expected(start, stop, wipes, trails) ==
    LET doc == FoldLeft(LAMBDA d, op : Applied(d, op, wipes), Document, history)
    IN  FlattenSeq([i \in 1..(stop - start + 1) |-> doc.before[start + i - 1] \o doc.here[start + i - 1]])
            \o IF stop = EOFAt \/ trails THEN doc.before[stop + 1] ELSE <<>>

\* A replaced range is shown raw when it is entered from its middle.
Cut(start) == \E k \in DOMAIN program' : program'[k].index < start /\ Within(program'[k], start)
\* An insertion that was made into a deletion is skipped once a later deletion has
\* taken that one in: without it, it would have been refused.
Skipped == \E k, d \in DOMAIN program' :
               /\ program'[k].kind = "insert"
               /\ program'[d].kind = "replace" /\ program'[d].text = <<>> /\ Within(program'[d], program'[k].index)

\* Some instructions were rolled back, by TokenStreamRewriter.h:101-103; none was, by
\* the code.
Withdrawn == RolledBack \in ToSet(history)

\* What is carried out together, at once and out of order, is what the operations do
\* one by one: the text of any range, but for what Cut, Skipped and Withdrawn name; and
\* where the header has an insertion wiped or trailing that the code has not, either.
TextIsAsEditedStep ==
    \A i, j \in Indexes :
        GetText(i, j) /\ status' = "running" /\ ~Cut(i) /\ ~Skipped /\ ~Withdrawn =>
            \E wipes, trails \in BOOLEAN : text' = Expected(i, j, wipes, trails)
=============================================================================
