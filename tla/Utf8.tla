--------------------------------- MODULE Utf8 ---------------------------------
(***************************************************************************)
(* antlrcpp::Utf8: the character streams decode what they load and encode  *)
(* the text they return, strictly or leniently.                            *)
(***************************************************************************)
EXTENDS Integers, Sequences

LOCAL INSTANCE SequencesExt

CONSTANTS Encoded,    \* sequences of bytes, and
          CodePoints  \* of 32 bit characters that callers have

VARIABLES given,   \* the argument
          calling, \* which function
          read,    \* how much of it has been read
          made,    \* the output so far
          refused  \* whether the call returned nothing
vars == <<given, calling, read, made, refused>>

Decodes == calling \in {"strictDecode", "lenientDecode"}
Strict  == calling \in {"strictDecode", "strictEncode"}

REPLACEMENT_CHARACTER == 65533
isValid(c) == c < 55296 \/ c \in 57344..1114111

\* How many bytes follow, and where the first of them lies, by the leading byte.
Class_Loose(size, low, high) == [size |-> size, accept |-> 128..191]
Class(size, low, high) == [size |-> size, accept |-> low..high]
LEADING == [b \in 194..244 |-> CASE b <= 223 -> Class(1, 128, 191)
                                 [] b = 224  -> Class(2, 160, 191)
                                 [] b = 237  -> Class(2, 128, 159)
                                 [] b = 240  -> Class(3, 144, 191)
                                 [] b = 244  -> Class(3, 128, 143)
                                 [] b < 240  -> Class(2, 128, 191)
                                 [] OTHER    -> Class(3, 128, 191)]

\* The leading byte's low bits, 5 to 3, and six of each other.
Composed(b, rest) == FoldLeft(LAMBDA v, c : v * 64 + (c % 64), b % (2 ^ (6 - Len(rest))), rest)

\* The first character and how many bytes it took; what is no character takes one.
decode(input) ==
    LET b     == input[1]
        size  == LEADING[b].size
        legal == /\ b \in DOMAIN LEADING
                 /\ size < Len(input)
                 /\ input[2] \in LEADING[b].accept
                 /\ \A i \in 3..size + 1 : input[i] \in 128..191
    IN  IF b < 128 THEN <<b, 1>>
        ELSE IF legal THEN <<Composed(b, SubSeq(input, 2, size + 1)), size + 1>>
        ELSE <<REPLACEMENT_CHARACTER, 1>>

Trailing(c, shift) == 128 + ((c \div shift) % 64)
encode(point) ==
    LET c == IF isValid(point) THEN point ELSE REPLACEMENT_CHARACTER IN
    CASE c <= 127   -> <<c>>
      [] c \in 128..2047    -> <<192 + c \div 64, Trailing(c, 1)>>
      [] c \in 2048..65535  -> <<224 + c \div 4096, Trailing(c, 64), Trailing(c, 1)>>
      [] OTHER      -> <<240 + c \div 262144, Trailing(c, 4096), Trailing(c, 64), Trailing(c, 1)>>

Init == /\ \/ given \in Encoded /\ calling \in {"strictDecode", "lenientDecode"}
           \/ given \in CodePoints /\ calling \in {"strictEncode", "lenientEncode"}
        /\ read = 0 /\ made = <<>> /\ refused = FALSE

Advance(units, more) == read' = read + units /\ made' = made \o more /\ UNCHANGED <<given, calling, refused>>
Refuse               == refused' = TRUE /\ UNCHANGED <<given, calling, read, made>>

\* A U+FFFD of one byte is an illegal sequence, one of three is itself.
DecodeNext ==
    /\ Decodes /\ ~refused /\ read < Len(given)
    /\ LET d == decode(SubSeq(given, read + 1, Len(given))) IN
       IF Strict /\ d = <<REPLACEMENT_CHARACTER, 1>> THEN Refuse ELSE Advance(d[2], <<d[1]>>)

EncodeNext ==
    /\ ~Decodes /\ ~refused /\ read < Len(given)
    /\ IF Strict /\ ~isValid(given[read + 1]) THEN Refuse ELSE Advance(1, encode(given[read + 1]))

Next == DecodeNext \/ EncodeNext

Spec == Init /\ [][Next]_vars

-----------------------------------------------------------------------------
(* Properties.                                                             *)

\* What UTF-8 is, without tables: the shortest form of a scalar value, its number
\* in digits of six bits, the first of them marked with the length.
First   == <<0, 192, 224, 240>>
Longest == <<127, 2047, 65535, 1114111>>
Number(s)   == FoldLeft(LAMBDA v, c : v * 64 + c - 128, s[1] - First[Len(s)], Tail(s))
IsForm(s) == /\ Len(s) \in 1..4
             /\ s[1] >= First[Len(s)]
             /\ \A i \in 2..Len(s) : s[i] \in 128..191
             /\ isValid(Number(s)) /\ Number(s) <= Longest[Len(s)]
             /\ Len(s) > 1 => Number(s) > Longest[Len(s) - 1]

\* The characters a sequence of bytes spells, -1 for every byte that is in none.
RECURSIVE Spelled(_)
Spelled(s) ==
    IF s = <<>> THEN <<>>
    ELSE LET forms == {n \in 1..Len(s) : IsForm(SubSeq(s, 1, n))}
             n     == IF forms = {} THEN 1 ELSE CHOOSE k \in forms : TRUE
         IN  <<IF forms = {} THEN -1 ELSE Number(SubSeq(s, 1, n))>> \o Spelled(SubSeq(s, n + 1, Len(s)))
Replaced(text) == [i \in DOMAIN text |-> IF text[i] >= 0 /\ isValid(text[i]) THEN text[i] ELSE REPLACEMENT_CHARACTER]

\* The table of leading bytes accepts the shortest forms of scalar values and no
\* other, wherever they stand and whatever is cut off; what was encoded spells
\* what was given; and a strict call refuses just what a lenient one replaces.
SpellsUnicode ==
    LET spelled == Spelled(IF Decodes THEN given ELSE made)
        text    == IF Decodes THEN spelled ELSE given
        faults  == {i \in DOMAIN text : text[i] < 0 \/ ~isValid(text[i])}
    IN  /\ read = Len(given) => /\ Replaced(text) = IF Decodes THEN made ELSE spelled
                                /\ Strict => faults = {}
        /\ refused => Strict /\ (IF Decodes THEN Len(made) ELSE read) + 1 \in faults
=============================================================================
