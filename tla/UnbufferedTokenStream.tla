------------------------ MODULE UnbufferedTokenStream ------------------------
(***************************************************************************)
(* antlr4::UnbufferedTokenStream: a window of tokens that moves with the   *)
(* cursor and grows while there is a mark.  A token that leaves the window *)
(* is destroyed with its unique_ptr.                                       *)
(*                                                                         *)
(* Tokens are known by their indices; token n of a source of n is EOF.     *)
(***************************************************************************)
EXTENDS Integers, Sequences, SequencesExt

CONSTANTS Lengths,  \* how many tokens sources hold before EOF
          MaxMarks, \* bound of the marks held at once
          Reach     \* bound of the lookahead and of the indices clients ask for

nullptr == -1

VARIABLES EOFIndex,         \* the source's last token
          index,            \* _currentTokenIndex
          p,
          size,             \* of _tokens
          last,             \* _lastToken
          lastBufferStart,  \* _lastTokenBufferStart
          marked,           \* the index at each mark held; _numMarkers is their number
          answer            \* the last call: [call, arg, outcome, at]
vars == <<EOFIndex, index, p, size, last, lastBufferStart, marked, answer>>

BufferStart == index - p
BufferStop  == index - p + size - 1
Alive(t)    == t \in BufferStart..BufferStop

Reply(c, k, o, i) == [call |-> c, arg |-> k, outcome |-> o, at |-> i]

\* fill stops at EOF; the size of a buffer from start after sync(want) at q.
Synced(start, q, n, want) == Max({n, Min({q + want, EOFIndex + 1 - start})})
Sync(want) == Synced(BufferStart, p, size, want)

Init == /\ EOFIndex \in Lengths
        /\ index = 0 /\ p = 0 /\ size = 1
        /\ last = nullptr /\ lastBufferStart = nullptr /\ marked = <<>>
        /\ answer = Reply("other", 0, "done", 0)

Ahead(k) ==
    /\ size' = Sync(k)
    /\ answer' = Reply("LA", k, "symbol", BufferStart + Min({p + k, size'}) - 1)
    /\ UNCHANGED <<EOFIndex, index, p, last, lastBufferStart, marked>>

\* LT(-1) is the token kept, wherever it went.  Further back the index is _p + i - 1 as
\* it is ahead.
Back(k) ==
    /\ answer' = IF k = 1 THEN IF last = nullptr THEN Reply("LA", -1, "null", 0)
                               ELSE IF Alive(last) THEN Reply("LA", -1, "symbol", last)
                               ELSE Reply("LA", -1, "undefined", 0)
                 ELSE IF p - k - 1 < 0 THEN Reply("LA", -k, "out_of_bounds", 0)
                 ELSE Reply("LA", -k, "symbol", index - k - 1)
    /\ UNCHANGED <<EOFIndex, index, p, size, last, lastBufferStart, marked>>

Consume_FlushesMarked ==
    /\ index < EOFIndex
    /\ last' = index /\ index' = index + 1
    /\ p' = IF p = size - 1 THEN 0 ELSE p + 1
    /\ size' = IF p = size - 1 THEN 1 ELSE size
    /\ lastBufferStart' = IF p = size - 1 THEN index ELSE lastBufferStart
    /\ answer' = Reply("consume", 0, "done", 0)
    /\ UNCHANGED <<EOFIndex, marked>>

\* At the last token, and with no mark, the buffer is emptied before the next
\* token is fetched.
Consume ==
    LET flush == p = size - 1 /\ marked = <<>> IN
    \/ /\ index = EOFIndex
       /\ answer' = Reply("consume", 0, "illegal_state", 0)
       /\ UNCHANGED <<EOFIndex, index, p, size, last, lastBufferStart, marked>>
    \/ /\ index < EOFIndex
       /\ last' = index
       /\ index' = index + 1
       /\ p' = IF flush THEN 0 ELSE p + 1
       /\ size' = IF flush THEN 1 ELSE Synced(BufferStart, p + 1, size, 1)
       /\ lastBufferStart' = IF flush THEN index ELSE lastBufferStart
       /\ answer' = Reply("consume", 0, "done", 0)
       /\ UNCHANGED <<EOFIndex, marked>>

\* The marker is minus the number of marks.
Mark ==
    /\ Len(marked) < MaxMarks
    /\ marked' = Append(marked, index)
    /\ lastBufferStart' = IF marked = <<>> THEN last ELSE lastBufferStart
    /\ answer' = Reply("mark", 0, "done", -Len(marked) - 1)
    /\ UNCHANGED <<EOFIndex, index, p, size, last>>

Release_TooMuch(marker) ==
    /\ marker = -Len(marked) /\ marked # <<>>
    /\ marked' = Front(marked)
    /\ p' = 0 /\ size' = size - p /\ lastBufferStart' = last
    /\ answer' = Reply("release", marker, "done", 0)
    /\ UNCHANGED <<EOFIndex, index, last>>

Release(marker) ==
    \/ /\ marker # -Len(marked)
       /\ answer' = Reply("other", marker, "illegal_state", 0)
       /\ UNCHANGED <<EOFIndex, index, p, size, last, lastBufferStart, marked>>
    \/ /\ marker = -Len(marked) /\ marked # <<>>
       /\ marked' = Front(marked)
       /\ IF Len(marked) = 1
          THEN p' = 0 /\ size' = size - p /\ lastBufferStart' = last
          ELSE UNCHANGED <<p, size, lastBufferStart>>
       /\ answer' = Reply("release", marker, "done", 0)
       /\ UNCHANGED <<EOFIndex, index, last>>

\* Ahead, the tokens up to the one before i are fetched and i is brought down to
\* what is there.
Seek(i) ==
    LET n    == IF i > index THEN Sync(i - index) ELSE size
        j    == IF i > index THEN Min({i, BufferStart + n - 1}) ELSE i
        q    == j - BufferStart
        Stay == UNCHANGED <<EOFIndex, index, p, last, lastBufferStart, marked>> /\ size' = n
    IN  \/ i = index /\ Stay /\ answer' = Reply("seek", i, "done", 0)
        \/ i # index /\ q < 0 /\ Stay /\ answer' = Reply("seek", i, "illegal_argument", 0)
        \/ /\ i # index /\ q >= 0
           /\ index' = j /\ p' = q /\ size' = n
           /\ last' = IF q = 0 THEN lastBufferStart ELSE j - 1
           /\ answer' = Reply("seek", i, "done", 0)
           /\ UNCHANGED <<EOFIndex, lastBufferStart, marked>>

Get(i) == /\ answer' = IF Alive(i) THEN Reply("other", i, "symbol", i) ELSE Reply("other", i, "out_of_bounds", 0)
          /\ UNCHANGED <<EOFIndex, index, p, size, last, lastBufferStart, marked>>

\* getText(interval) puts a separator before every token but the first of the
\* buffer, whichever the interval starts with: `at' counts them.
GetText(from, to) ==
    /\ answer' = IF from < BufferStart \/ to > BufferStop THEN Reply("other", from, "unsupported", to)
                 ELSE Reply("other", from, "text", to - Max({from, BufferStart + 1}) + 1)
    /\ UNCHANGED <<EOFIndex, index, p, size, last, lastBufferStart, marked>>

Next == \/ Consume \/ Mark
        \/ \E k \in 1..Reach : Ahead(k) \/ Back(k)
        \/ \E i \in 0..Reach : Seek(i) \/ Get(i) \/ Release(-i) \/ \E j \in i..Reach : GetText(i, j)

Spec == Init /\ [][Next]_vars

-----------------------------------------------------------------------------
(* Properties.                                                             *)

TypeOK == /\ EOFIndex \in Lengths /\ index \in 0..EOFIndex
          /\ p \in 0..(size - 1) /\ size \in 1..(EOFIndex + 1)
          /\ BufferStart >= 0 /\ BufferStop <= EOFIndex
          /\ last \in nullptr..EOFIndex /\ lastBufferStart \in nullptr..EOFIndex

\* A forward seek over the end of the buffer stops one token short.
SoughtShort == /\ answer'.call = "seek" /\ answer'.outcome = "done" /\ answer'.arg > BufferStop
               /\ index' = Min({answer'.arg - 1, EOFIndex}) /\ UNCHANGED <<EOFIndex, marked>>

\* Looking back at a token the buffer dropped, or after seeking to the start of a
\* buffer that a mark was taken in the middle of.
LookedBackWrongly ==
    /\ answer'.call = "LA" /\ answer'.arg = -1 /\ answer'.outcome # "out_of_bounds"
    /\ ~Alive(index - 1) \/ (p = 0 /\ lastBufferStart # index - 1)
    /\ marked = <<>> \/ index <= marked[1]
    /\ UNCHANGED <<EOFIndex, index, marked>>

\* Looking back further than one token, at the one before the token asked for, or before
\* the buffer.  IntStream.h promises the token asked for where a mark keeps it.
LookedTooFarBack ==
    /\ answer'.call = "LA" /\ answer'.arg < -1 /\ UNCHANGED <<EOFIndex, index, marked>>
    /\ LET at == index + answer'.arg - 1 IN
       answer' = IF at < BufferStart THEN Reply("LA", answer'.arg, "out_of_bounds", 0)
                 ELSE Reply("LA", answer'.arg, "symbol", at)

Contract == INSTANCE IntStream WITH
    symbols <- [n \in 1..(EOFIndex + 1) |-> n - 1], cursor <- index + 1,
    marks   <- [n \in DOMAIN marked |-> marked[n] + 1]
\* The window cannot be seen: the stream is what IntStream promises, but for forward
\* seeks, for LT(-1) of a token that left the window and for looking further back.
View         == <<EOFIndex, index, marked, answer>>
ContractStep == Contract!Next \/ SoughtShort \/ LookedBackWrongly \/ LookedTooFarBack
ImplementsIntStream == Contract!Init /\ [][ContractStep]_View

\* A prediction marks, looks and moves ahead, seeks back and releases: as long as
\* a mark is held every token from the first one on can be had again, and
\* LT(-1) after the mark is the token before the cursor.
MarkedRegionIsKept == marked # <<>> =>
    /\ BufferStart <= marked[1]
    /\ index > marked[1] => last = index - 1 /\ Alive(last)
=============================================================================
