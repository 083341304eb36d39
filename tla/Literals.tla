------------------------------- MODULE Literals -------------------------------
(***************************************************************************)
(* yalll::Value from a literal, or a variable nothing was assigned to, to  *)
(* an LLVM constant: the terminal of an operation keeps the text, each     *)
(* resolution writes a type into it, and each generate_value() converts a  *)
(* copy of it.                                                             *)
(*                                                                         *)
(* Widths are scaled: 2, 3, 4 and 5 bits stand for 8, 16, 32 and 64.  The  *)
(* text is the number it says.                                             *)
(***************************************************************************)
EXTENDS YalllTypes, Integers

CONSTANT MaxUses   \* bound of how often the operation is generated

VARIABLES terminal,   \* terminal_value: [type, text, llvm_val]
          value,      \* the last value generated
          died,       \* whether the conversion threw
          uses
vars == <<terminal, value, died, uses>>

NoText   == -1
Null     == [type |-> "none", bits |-> 0]
Width(t) == CASE type_size[t] = 8 -> 2 [] type_size[t] = 16 -> 3 [] type_size[t] = 32 -> 4 [] OTHER -> 5
Signed(t) == t \in SignedInts
Limit(w, signed) == IF signed THEN 2^(w - 1) ELSE 2^w

\* What the text is parsed with: std::stoi, stol, stoll, stoul, stoull.
Parser(t) == IF t \in {"i8", "i16"} THEN Limit(4, TRUE) ELSE Limit(5, Signed(t))

Literal(n)    == [type |-> "intauto", text |-> n, llvm_val |-> Null]
Decimal(n)    == [type |-> "decauto", text |-> n, llvm_val |-> Null]
Unassigned(t) == [type |-> t, text |-> NoText, llvm_val |-> Null]

Init == /\ terminal \in {Literal(n) : n \in 0..33} \cup {Decimal(1)} \cup {Unassigned(t) : t \in DeclaredTypes}
        /\ value = Unassigned("tbd")
        /\ died = FALSE
        /\ uses = 0

Converts(v) == v.llvm_val = Null /\ v.type \in SignedInts \cup UnsignedInts \cup Decimals
Throws(v)   == v.text = NoText \/ (v.type \notin Decimals /\ v.text >= Parser(v.type))
Constant(v) == [type |-> v.type, bits |-> IF v.type \in Decimals THEN v.text ELSE v.text % 2^Width(v.type)]
get_llvm_val(v) == IF Converts(v) THEN [v EXCEPT !.llvm_val = Constant(v)] ELSE v

\* The copies of a value leave null_value and the line behind, which decide nothing.
Copied(v) == [type |-> v.type, text |-> v.text, llvm_val |-> v.llvm_val]

\* Assigning a type information replaces it whole, and nothing else of the value.
Retyped(v, t) == [v EXCEPT !.type = t]

\* A resolution of the operation the literal stands in, to a hint or to the biggest
\* type of the vector: that type is asked whether it takes the value's.
Resolve(t) ==
    /\ ~died /\ Compatible(t, terminal.type)
    /\ terminal' = Retyped(terminal, t)
    /\ UNCHANGED <<value, died, uses>>

\* Mutant of Generate: the terminal itself is converted.
Generate_InPlace ==
    /\ ~died /\ uses < MaxUses /\ uses' = uses + 1
    /\ \/ Converts(terminal) /\ Throws(terminal) /\ died' = TRUE /\ UNCHANGED <<terminal, value>>
       \/ /\ ~(Converts(terminal) /\ Throws(terminal))
          /\ value' = get_llvm_val(terminal)
          /\ terminal' = value'
          /\ UNCHANGED died

\* TerminalOperation::generate_value hands out a copy.
Generate ==
    /\ ~died /\ uses < MaxUses /\ uses' = uses + 1
    /\ \/ Converts(terminal) /\ Throws(terminal) /\ died' = TRUE /\ UNCHANGED <<terminal, value>>
       \/ /\ ~(Converts(terminal) /\ Throws(terminal))
          /\ value' = get_llvm_val(Copied(terminal))
          /\ UNCHANGED <<terminal, died>>

\* The biggest type may be that of a literal: it counts as 32 bits.
Next == (\E t \in DeclaredTypes \cup {"intauto"} : Resolve(t)) \/ Generate
Spec == Init /\ [][Next]_vars
-----------------------------------------------------------------------------
Fits(n, t) == t \in Decimals \/ n < Limit(Width(t), Signed(t))
Number(c)  == IF Signed(c.type) /\ c.bits >= Limit(Width(c.type), TRUE) THEN c.bits - 2^Width(c.type) ELSE c.bits

\* However often an operation is resolved and generated anew, a literal that was last
\* resolved to a number type becomes a constant, of that type, and of its number if that
\* fits; only one that does not fit, or no literal at all, can stop the compiler.  (One
\* that does not fit may as well be cut to what fits.)  What was resolved to TBD, or
\* still is an untyped literal, becomes none.
LiteralsStand ==
    /\ died => terminal.text = NoText \/ ~Fits(terminal.text, terminal.type)
    /\ value.text # NoText /\ value.type \in SignedInts \cup UnsignedInts \cup Decimals
          => value.llvm_val # Null
    /\ value.llvm_val # Null =>
          /\ value.llvm_val.type = value.type
          /\ Fits(value.text, value.type) => Number(value.llvm_val) = value.text
=============================================================================
