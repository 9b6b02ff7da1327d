----------------------------- MODULE Arguments -----------------------------
(***************************************************************************)
(* The arguments of a command line made the values of the parameters of    *)
(* its command (pargv.c, with find_option and next_non_option of           *)
(* command.c).                                                             *)
(*                                                                         *)
(* The parameters of a command have different names, and a parameter is    *)
(* its place among them.  Its word is what names it in a line: the prefix  *)
(* of one that has a type, the name of a flag, which has none.             *)
(***************************************************************************)
EXTENDS Integers, Sequences, FiniteSets, SequencesExt

CONSTANTS
  NoValue,       \* a NULL value, of a flag; and no value
  Validated,     \* what the types make of a word, NoValue when they refuse it
  ParamLists,    \* the parameters of commands
  ArgumentLists  \* the words that follow a command's name

ASSUME ArgumentsAssumption ==
  \A params \in ParamLists : \A n \in DOMAIN params :
    params[n].typed \/ params[n].word # NoValue

(* The parameter that takes what is left of a line. *)
Rest == 0

(* The first of some places, NoValue when there is none. *)
FirstOf(places) == IF places = {} THEN NoValue ELSE CHOOSE n \in places : \A m \in places : n <= m

(* A value for a parameter, in the place of one that it has. *)
insert_parg(pargs, param, value) ==
  LET parg == [param |-> param, value |-> value]
      had  == {k \in DOMAIN pargs : pargs[k].param = param}
  IN  IF had = {} THEN Append(pargs, parg)
      ELSE [k \in DOMAIN pargs |-> IF k \in had THEN parg ELSE pargs[k]]

set_defaults(params) ==
  SelectSeq([n \in DOMAIN params |-> [param |-> n, value |-> params[n].default]],
            LAMBDA parg : parg.value # NoValue)

ucli_command_find_option(params, arg) == FirstOf({n \in DOMAIN params : params[n].word = arg})

(* The parameters that are given by their place. *)
NonOptions(params) == {n \in DOMAIN params : params[n].word = NoValue}

ucli_command_next_non_option(params, index) == FirstOf({n \in NonOptions(params) : n >= index})

(* Behind the one that was found, and behind all when there was none. *)
After(params, param) == IF param = NoValue THEN Len(params) + 1 ELSE param + 1

Failed(p) == [p EXCEPT !.going = FALSE, !.status = "BAD_PARAM"]

(* Mutant: an option that is given again adds another value. *)
Valued_again(p, params, args, param, i) ==
  IF i > Len(args) \/ Validated[args[i]] = NoValue THEN Failed(p)
  ELSE [p EXCEPT !.pargs = Append(p.pargs, [param |-> param, value |-> Validated[args[i]]]),
                 !.i = i + 1]

(* The word at i is the value of a parameter, if there is one and it is valid. *)
Valued(p, params, args, param, i) ==
  IF i > Len(args) \/ Validated[args[i]] = NoValue THEN Failed(p)
  ELSE [p EXCEPT !.pargs = insert_parg(p.pargs, param, Validated[args[i]]), !.i = i + 1]

(* The next argument: an option with its value, a flag, the value of the next
   parameter, or the first word of the rest. *)
NextArgument(p, params, args, takesRest) ==
  LET option == ucli_command_find_option(params, args[p.i])
      plain  == ucli_command_next_non_option(params, p.index)
      passed == [p EXCEPT !.index = After(params, plain)]
  IN  IF option # NoValue
      THEN IF params[option].typed THEN Valued(p, params, args, option, p.i + 1)
           ELSE [p EXCEPT !.pargs = insert_parg(p.pargs, option, NoValue), !.i = p.i + 1]
      ELSE IF plain # NoValue THEN Valued(passed, params, args, plain, p.i)
      ELSE IF takesRest
      THEN [passed EXCEPT
              !.pargs = insert_parg(p.pargs, Rest, SubSeq(args, p.i, Len(args))),
              !.i = Len(args) + 1]
      ELSE Failed(p)

ucli_pargv_init(params, args, takesRest) ==
  LET p[n \in 0 .. Len(args)] ==
        IF n = 0
        THEN [i |-> 1, index |-> 1, pargs |-> set_defaults(params), going |-> TRUE,
              status |-> "LINE_OK"]
        ELSE IF p[n - 1].going /\ p[n - 1].i <= Len(args)
        THEN NextArgument(p[n - 1], params, args, takesRest)
        ELSE p[n - 1]
      last    == p[Len(args)]
      valued  == {last.pargs[k].param : k \in DOMAIN last.pargs}
      missing == {n \in NonOptions(params) : n >= last.index} \ valued
  IN  IF missing # {} THEN Failed(last) ELSE last

(* The vector has room for as many values as the line has words, or the command has
   parameters; the command's name is one word. *)
Capacity(params, args) == IF Len(params) < Len(args) + 1 THEN Len(args) + 1 ELSE Len(params)
-----------------------------------------------------------------------------
(* What a line means: which word has which part in it. *)

IsOption(params, arg) == ucli_command_find_option(params, arg) # NoValue

TakesValue(params, arg) ==
  IsOption(params, arg) /\ params[ucli_command_find_option(params, arg)].typed

(* The places of the values of options: behind an option that takes one, unless that
   word is itself the value of another. *)
OptionValues(params, args) ==
  LET is[i \in DOMAIN args] == i > 1 /\ ~is[i - 1] /\ TakesValue(params, args[i - 1])
  IN  {i \in DOMAIN args : is[i]}

Options(params, args) ==
  {i \in DOMAIN args \ OptionValues(params, args) : IsOption(params, args[i])}

Plain(params, args) == DOMAIN args \ (OptionValues(params, args) \cup Options(params, args))

(* Where the rest begins: at the first plain word without a parameter of its own. *)
RestAt(params, args) ==
  LET before(i) == {j \in Plain(params, args) : j < i}
  IN  FirstOf({i \in Plain(params, args) : Cardinality(before(i)) = Cardinality(NonOptions(params))})

(* The values that the words up to the rest give, each to its parameter. *)
GivenBy(params, args, stop) ==
  LET optionAt(i) == ucli_command_find_option(params, args[i])
      options     == {i \in Options(params, args) : i < stop}
      plain       == {i \in Plain(params, args) : i < stop}
      last        == {i \in options : \A j \in options : optionAt(j) = optionAt(i) => j <= i}
      nth(i)      == CHOOSE n \in NonOptions(params) :
                       Cardinality({m \in NonOptions(params) : m < n})
                         = Cardinality({j \in plain : j < i})
  IN  {[param |-> optionAt(i),
        value |-> IF params[optionAt(i)].typed THEN Validated[args[i + 1]] ELSE NoValue] : i \in last}
      \cup {[param |-> nth(i), value |-> Validated[args[i]]] : i \in plain}

(* Every option has its value, every value is valid, no plain word is left over, and
   each parameter that is given by its place has a value. *)
Acceptable(params, args, takesRest) ==
  LET rest == RestAt(params, args)
      stop == IF rest = NoValue THEN Len(args) + 1 ELSE rest
      used == {i \in OptionValues(params, args) \cup Plain(params, args) : i < stop}
  IN  /\ rest # NoValue => takesRest
      /\ \A i \in Options(params, args) : i < stop /\ TakesValue(params, args[i]) => i < Len(args)
      /\ \A i \in used : Validated[args[i]] # NoValue
      /\ \A n \in NonOptions(params) :
           \/ params[n].default # NoValue
           \/ Cardinality({m \in NonOptions(params) : m < n}) < Cardinality(Plain(params, args))

Meant(params, args) ==
  LET rest   == RestAt(params, args)
      values == GivenBy(params, args, IF rest = NoValue THEN Len(args) + 1 ELSE rest)
      named  == {v.param : v \in values}
  IN  values
      \cup {[param |-> n, value |-> params[n].default] :
              n \in {m \in DOMAIN params \ named : params[m].default # NoValue}}
      \cup (IF rest = NoValue THEN {}
            ELSE {[param |-> Rest, value |-> SubSeq(args, rest, Len(args))]})

(* A line is accepted when its words fit the parameters, and then every parameter has
   one value, that of the word meant for it: the last one of an option that is given
   twice, the default of one that is not given (ucli_pargv_init).  There is room for
   them, unless the rest comes on top of a value for every parameter. *)
EveryLineParses ==
  \A params \in ParamLists, args \in ArgumentLists, takesRest \in BOOLEAN :
    LET p == ucli_pargv_init(params, args, takesRest)
    IN  /\ p.status = "LINE_OK" <=> Acceptable(params, args, takesRest)
        /\ p.status = "LINE_OK" =>
             /\ ToSet(p.pargs) = Meant(params, args)
             /\ Len(p.pargs) = Cardinality(Meant(params, args))
             /\ \/ Len(p.pargs) <= Capacity(params, args)
                \/ 0 .. Len(params) = {p.pargs[k].param : k \in DOMAIN p.pargs}
=============================================================================
