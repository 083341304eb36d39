-------------------------------- MODULE Driver --------------------------------
(***************************************************************************)
(* main: the options, the source that is loaded, and the module that       *)
(* visitProgram prints when it has visited the tree.  What is compiled is  *)
(* in the other modules: here a compilation ends, with errors reported on  *)
(* the console or without, or it dies of an exception nobody catches.      *)
(***************************************************************************)
EXTENDS Integers, SequencesExt

CONSTANTS Arguments,  \* strings on the command line, "-f" and "-o" among them
          MaxArgs,    \* bound of their number
          Sources,    \* paths that may have a file, and
          Writable    \* that can be opened for writing

NULL  == "null"
Wild  == "wild"       \* a pointer that cannot be read through
Junk  == "junk"       \* what an indeterminate pointer may happen to point to
DefaultPath == "../programs/floats.y"
DefaultOut  == "../output.ll"

VARIABLES argv, arg_file, arg_out_path,
          step,    \* "main", "load", "visit", "print", "returned" or "died"
          loaded,  \* the source text
          disk,    \* path to text
          was      \* the disk when the program started (history)
vars == <<argv, arg_file, arg_out_path, step, loaded, disk, was>>

Source(path) == <<"source", path>>
Module(text) == <<"module", text>>

\* The argument behind an option, another option or not.
get_cmd_option(option) ==
    LET i == SelectInSeq(argv, LAMBDA a : a = option) IN IF i \in 1..Len(argv) - 1 THEN argv[i + 1] ELSE NULL
cmd_option_exists(option) == Contains(argv, option)

\* A variable that no option sets has any value.
Values(option) == IF cmd_option_exists(option) THEN {get_cmd_option(option)} ELSE {NULL, Wild, Junk}

Init == /\ argv \in UNION {[1..n -> Arguments] : n \in 0..MaxArgs}
        /\ \E files \in SUBSET Sources : disk = [path \in files |-> Source(path)]
        /\ was = disk
        /\ arg_file = Wild /\ arg_out_path = Wild /\ step = "main" /\ loaded = NULL

Main == /\ step = "main" /\ step' = "load"
        /\ arg_file' \in Values("-f")
        /\ arg_out_path' \in Values("-o")
        /\ UNCHANGED <<argv, loaded, disk, was>>

Path(arg, default) == IF arg = NULL THEN default ELSE arg

\* load_test_prog: the whole text is in memory before anything is written.
Load ==
    LET path == Path(arg_file, DefaultPath) IN
    /\ step = "load"
    /\ step' = IF path = Wild THEN "died" ELSE IF path \notin DOMAIN disk THEN "returned" ELSE "visit"
    /\ loaded' = IF path \in DOMAIN disk THEN disk[path] ELSE NULL
    /\ UNCHANGED <<argv, arg_file, arg_out_path, disk, was>>

\* The parser and the visitor, whose constructor copies the output's name.
Visit_OpensFirst ==
    LET out_path == Path(arg_out_path, DefaultOut) IN
    /\ step = "visit" /\ step' \in IF out_path = Wild THEN {"died"} ELSE {"print", "died"}
    /\ disk' = IF out_path \in Writable THEN (out_path :> Module(NULL)) @@ disk ELSE disk
    /\ UNCHANGED <<argv, arg_file, arg_out_path, loaded, was>>
Visit == /\ step = "visit"
         /\ step' \in IF arg_out_path = Wild THEN {"died"} ELSE {"print", "died"}
         /\ UNCHANGED <<argv, arg_file, arg_out_path, loaded, disk, was>>

\* visitProgram, behind its children: the error of opening is not looked at, and
\* LLVM may abort for what it could not write.
PrintModule ==
    LET out_path == Path(arg_out_path, DefaultOut) IN
    /\ step = "print"
    /\ IF out_path \in Writable
       THEN step' = "returned" /\ disk' = (out_path :> Module(loaded)) @@ disk
       ELSE step' \in {"returned", "died"} /\ UNCHANGED disk
    /\ UNCHANGED <<argv, arg_file, arg_out_path, loaded, was>>

Next == Main \/ Load \/ Visit \/ PrintModule

Spec == Init /\ [][Next]_vars

-----------------------------------------------------------------------------
(* Properties.                                                             *)

\* An option means what stands behind the first of its kind; behind the last
\* argument stands nothing, and the default is meant.
Meant(option, default) ==
    LET behind == {i \in 1..Len(argv) - 1 : argv[i] = option /\ \A j \in 1..i - 1 : argv[j] # option}
    IN  IF behind = {} THEN default ELSE argv[1 + CHOOSE i \in behind : TRUE]

\* With both options the program, if it returns, has put the module of the source
\* that is meant where it was meant to, be it onto the source, or has left the disk
\* as it was, if the one is missing or the other cannot be written (the exit code
\* is 0 either way).  A compilation that dies never touches an older output.
WritesWhereTold ==
    LET path == Meant("-f", DefaultPath)
        out  == Meant("-o", DefaultOut)
    IN  /\ step # "returned" => disk = was
        /\ {"-f", "-o"} \subseteq Range(argv) /\ step = "returned" =>
              disk = IF path \in DOMAIN was /\ out \in Writable THEN (out :> Module(was[path])) @@ was ELSE was
=============================================================================
