------------------------------- MODULE MCLine -------------------------------
(***************************************************************************)
(* An instance of LineEditor for TLC, and of Arguments: the lines that are *)
(* entered have their arguments parsed.                                    *)
(***************************************************************************)
EXTENDS LineEditor, Arguments

CONSTANTS wFlag, wOption, wValid, wBad,     \* words: a flag, an option, a valid and an invalid value
          vFlag, vOption, vValid, vDefault  \* what the types make of them, and of a default

MCRank == [c \in {" ", "!", "-", "1"} |->
             CASE c = " " -> 32 [] c = "!" -> 33 [] c = "-" -> 45 [] c = "1" -> 49]
MCDigit == [c \in {"1"} |-> 1]

MCKeyText == {<<"!">>, <<"-">>, <<"1">>}

MCViews == {[local  |-> {<<"1">>, <<"1", "1">>, <<"1", "1", " ", "1">>},
             global |-> {<<"1">>, <<"-", "1">>}]}

MCIdle == {<<"1", "1">>}

MCParamWord == <<<<"-", "1">>, <<"-", "1", "1">>>>

MCScript == SeqOf({"1", " ", "newline"}, 4)

MCValidated == [w \in {wFlag, wOption, wValid, wBad} |->
                  CASE w = wFlag -> vFlag [] w = wOption -> vOption [] w = wValid -> vValid [] w = wBad -> NoValue]

(* Parameters given by their place, options and flags, with a default and without. *)
MCParam == [word : {NoValue, wOption}, typed : {TRUE}, default : {NoValue, vDefault}]
             \cup [word : {wFlag}, typed : {FALSE}, default : {NoValue}]

MCParamLists == SeqOf(MCParam, 3)

MCArgumentLists == SeqOf({wFlag, wOption, wValid, wBad}, 3)

(* A line is accepted when its words fit the parameters of its command, and then every
   parameter has the value of the word meant for it (ucli_pargv_init).  This depends on
   nothing in the session, and is looked at in one state of it: at the first prompt. *)
ParsesAsDeclared ==
  mode = "keys" /\ editor = Empty /\ lines = <<>> /\ kill = None => EveryLineParses
=============================================================================
