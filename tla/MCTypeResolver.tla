--------------------------- MODULE MCTypeResolver ---------------------------
(* Every vector of at most three proposals over a set of types.            *)
EXTENDS TypeResolver

CONSTANTS ValueTypes,   \* the types of the terminals
          FixedTypes    \* the types of the fixed proposals

MCProposals == [type : ValueTypes, fixed : {FALSE}] \cup [type : FixedTypes, fixed : {TRUE}]
MCInputs    == {<<>>} \cup [1..1 -> MCProposals] \cup [1..2 -> MCProposals]
                         \cup [1..3 -> MCProposals]
=============================================================================
