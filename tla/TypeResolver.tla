---------------------------- MODULE TypeResolver ----------------------------
(***************************************************************************)
(* typesafety::TypeResolver, loop by loop.  One behaviour is one call of   *)
(* try_resolve (hint = NoHint) or of try_resolve_to_type.                  *)
(***************************************************************************)
EXTENDS YalllTypes

CONSTANTS Inputs,   \* the vectors of proposals a call may be given
          Hints     \* the types try_resolve_to_type may be asked for

ASSUME InputsAssumption == Inputs \subseteq {vs \in Seq(Proposal) : WellFormed(vs)}
ASSUME HintsAssumption  == Hints \subseteq DeclaredTypes

VARIABLES values,   \* the vector: types and fixed flags never change
          types,    \* types[j]: attached_value->type_info of the j-th value
          hint, pc, k, biggest_type, fixed_proposal_found, result
vars == <<values, types, hint, pc, k, biggest_type, fixed_proposal_found, result>>

\* A run ends by returning, or by an error no code catches: a member call on
\* a null attached_value, or the std::out_of_range of type_size.at(VOID).
Outcomes == {"true", "false", "null_deref", "out_of_range"}

Init == /\ values \in Inputs
        /\ types = AttachedTypes(values)
        /\ hint \in Hints \cup {NoHint}
        /\ pc = "entry"
        /\ k = 1
        /\ biggest_type = "tbd"
        /\ fixed_proposal_found = FALSE
        /\ result = "none"

Return(r) == /\ pc' = "done"
             /\ result' = r
             /\ UNCHANGED <<values, types, hint, k, biggest_type, fixed_proposal_found>>

Goto(label, n) == pc' = label /\ k' = n /\ UNCHANGED <<values, types, hint, result>>

\* An incompatibility is reported through the value's attached_value.
Complain(j) == Return(IF values[j].fixed THEN "null_deref" ELSE "false")

ReturnCast(t) == /\ types' = Recast(values, types, t)
                 /\ pc' = "done"
                 /\ result' = "true"
                 /\ UNCHANGED <<values, hint, k, biggest_type, fixed_proposal_found>>

-----------------------------------------------------------------------------
ResolveEmpty == /\ pc = "entry"
                /\ values = <<>>
                /\ Return("true")

-----------------------------------------------------------------------------
(* try_resolve *)

Free(label) == pc = label /\ hint = NoHint /\ values # <<>>

StrictFirst == /\ Free("entry")
               /\ IsStrict(values[1].type)
               /\ biggest_type' = values[1].type
               /\ Goto("check", 1)
               /\ UNCHANGED fixed_proposal_found

\* The line of the first value is read before the scan: null if it is fixed.
LooseFirst == /\ Free("entry")
              /\ ~IsStrict(values[1].type)
              /\ IF values[1].fixed
                 THEN Return("null_deref")
                 ELSE /\ biggest_type' = values[1].type
                      /\ Goto("scan", 1)
                      /\ UNCHANGED fixed_proposal_found

\* Mutant of Scan: a loose value is never left behind.
Scan_Stays == /\ Free("scan")
              /\ k <= Len(values)
              /\ \/ /\ values[k].fixed \/ IsStrict(values[k].type)
                    /\ biggest_type' = values[k].type
                    /\ fixed_proposal_found' = values[k].fixed
                    /\ Goto("settle", k)
                 \/ /\ ~values[k].fixed /\ ~IsStrict(values[k].type)
                    /\ Goto("scan", k)
                    /\ UNCHANGED <<biggest_type, fixed_proposal_found>>

\* The scan stops at the first value that is fixed or strict.
Scan == /\ Free("scan")
        /\ k <= Len(values)
        /\ \/ /\ values[k].fixed \/ IsStrict(values[k].type)
              /\ biggest_type' = values[k].type
              /\ fixed_proposal_found' = values[k].fixed
              /\ Goto("settle", k)
           \/ /\ ~values[k].fixed /\ ~IsStrict(values[k].type)
              /\ Goto("scan", k + 1)
              /\ UNCHANGED <<biggest_type, fixed_proposal_found>>

ScanEnd == /\ Free("scan")
           /\ k > Len(values)
           /\ Goto("settle", k)
           /\ UNCHANGED <<biggest_type, fixed_proposal_found>>

\* DefaultYalllTypes::INT for integer literals, ::DEC for everything else.
Settle == /\ Free("settle")
          /\ IF ~IsStrict(biggest_type)
             THEN /\ biggest_type' = IF IsIntauto(biggest_type) THEN "i32" ELSE "d32"
                  /\ Goto("check", 1)
                  /\ UNCHANGED fixed_proposal_found
             ELSE IF Compatible(types[1], biggest_type)
                  THEN Goto("check", 1) /\ UNCHANGED <<biggest_type, fixed_proposal_found>>
                  ELSE Return("false")

\* Mutant of Check: the value's row of the matrix is asked, not the result's.
Check_Swapped ==
    /\ Free("check")
    /\ k <= Len(values)
    /\ LET t == values[k].type
       IN  IF ~Compatible(t, biggest_type) THEN Complain(k)
           ELSE IF fixed_proposal_found
                THEN Goto("check", k + 1) /\ UNCHANGED <<biggest_type, fixed_proposal_found>>
           ELSE IF {t, biggest_type} \subseteq Sized
                THEN /\ biggest_type' = IF type_size[t] > type_size[biggest_type]
                                        THEN t ELSE biggest_type
                     /\ Goto("check", k + 1)
                     /\ UNCHANGED fixed_proposal_found
                ELSE Return("out_of_range")

Check == /\ Free("check")
         /\ k <= Len(values)
         /\ LET t == values[k].type
            IN  IF ~Compatible(biggest_type, t) THEN Complain(k)
                ELSE IF fixed_proposal_found
                     THEN Goto("check", k + 1) /\ UNCHANGED <<biggest_type, fixed_proposal_found>>
                ELSE IF {t, biggest_type} \subseteq Sized
                     THEN /\ biggest_type' = IF type_size[t] > type_size[biggest_type]
                                             THEN t ELSE biggest_type
                          /\ Goto("check", k + 1)
                          /\ UNCHANGED fixed_proposal_found
                     ELSE Return("out_of_range")

\* Mutant of CheckEnd: the cast is to the hint there is none of.
CheckEnd_ToHint == Free("check") /\ k > Len(values) /\ ReturnCast(hint)

CheckEnd == /\ Free("check")
            /\ k > Len(values)
            /\ ReturnCast(biggest_type)

-----------------------------------------------------------------------------
(* try_resolve_to_type *)

Hinted(label) == pc = label /\ hint # NoHint /\ values # <<>>

\* Mutant of HintCheck: each value is cast as soon as it is found to fit.
HintCheck_CastsEarly ==
    /\ Hinted("entry")
    /\ k <= Len(values)
    /\ IF FitsHint(<<values[k]>>, hint)
       THEN /\ types' = [types EXCEPT ![k] = IF values[k].fixed THEN @ ELSE hint]
            /\ k' = k + 1
            /\ UNCHANGED <<values, hint, pc, biggest_type, fixed_proposal_found, result>>
       ELSE Return("false")

HintCheck == /\ Hinted("entry")
             /\ k <= Len(values)
             /\ \/ /\ values[k].fixed /\ values[k].type # hint
                   /\ Return("false")
                \/ /\ ~(values[k].fixed /\ values[k].type # hint)
                   /\ ~Compatible(hint, values[k].type)
                   /\ Return("false")
                \/ /\ ~(values[k].fixed /\ values[k].type # hint)
                   /\ Compatible(hint, values[k].type)
                   /\ Goto("entry", k + 1)
                   /\ UNCHANGED <<biggest_type, fixed_proposal_found>>

HintEnd == /\ Hinted("entry")
           /\ k > Len(values)
           /\ ReturnCast(hint)

-----------------------------------------------------------------------------
Next == \/ ResolveEmpty
        \/ StrictFirst \/ LooseFirst \/ Scan \/ ScanEnd \/ Settle \/ Check \/ CheckEnd
        \/ HintCheck \/ HintEnd

\* The call runs alone on its thread, so a step that can be taken is taken.
Spec == Init /\ [][Next]_vars /\ WF_vars(Next)

-----------------------------------------------------------------------------
TypeOK == /\ values \in Seq(Proposal)
          /\ types \in [DOMAIN values -> YalllType]
          /\ hint \in Hints \cup {NoHint}
          /\ pc \in {"entry", "scan", "settle", "check", "done"}
          /\ k \in 1..(Len(values) + 1)
          /\ biggest_type \in YalllType
          /\ fixed_proposal_found \in BOOLEAN
          /\ result \in Outcomes \cup {"none"}

\* A call that does not return true leaves every attached value as it found
\* it ("won't touch values then", typeresolver.h:33), even when it dies half
\* way through the vector.
FailureTouchesNothing == result # "true" => types = AttachedTypes(values)

\* The loops implement the contract: exact with a hint; without one complete,
\* and sound unless a literal meets a narrow type.
Contract == INSTANCE ResolverContract WITH verdict <- result
ImplementsContract == Contract!Spec

\* The loops of typeresolver.cpp compute what the callers' modules take them
\* to: the verdict of Resolution or FitsHint, and its type in the values.
ComputesResolution == pc = "done" /\ values # <<>> =>
    IF hint = NoHint
    THEN /\ result = Verdict(values)
         /\ result = "true" => types = Recast(values, AttachedTypes(values), Resolution(values))
    ELSE /\ result = IF FitsHint(values, hint) THEN "true" ELSE "false"
         /\ result = "true" => types = Recast(values, AttachedTypes(values), hint)

\* Every call returns or dies: no loop of the resolver runs on for ever.
Terminates == <>(pc = "done")

\* typeresolver.h:32 promises "all values with the same real type that is not
\* tbd" after a try_resolve, the call without a hint; stated of the values it may
\* write.
SameRealType == hint = NoHint /\ result = "true" =>
    \A i, j \in DOMAIN values : ~values[i].fixed /\ ~values[j].fixed =>
        types[i] = types[j] /\ IsStrict(types[i])
=============================================================================
