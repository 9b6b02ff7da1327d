---------------------------- MODULE CommandViews ----------------------------
(***************************************************************************)
(* How a command line is resolved in the current view and the global one,  *)
(* and what it can be completed to (view.c, shell_resolve_command.c,       *)
(* shell_command_generator.c, command.c).                                  *)
(*                                                                         *)
(* A text is a sequence of characters of one case, without quotes, and a   *)
(* view is the set of the names of its commands: its tree is in the order  *)
(* of the names, and holds each once.  What a parameter is completed to    *)
(* depends on the text alone.                                              *)
(***************************************************************************)
EXTENDS Naturals, Sequences, FiniteSets, SequencesExt

CONSTANTS
  Space,     \* the character between words
  Rank,      \* the code of each character
  None,      \* a NULL pointer
  Idle,      \* the names of the commands that have nothing to do
  ParamWord  \* the words of which one is the first parameter of any command, as its type lists them

ASSUME ViewsAssumption ==
  /\ Rank \in [DOMAIN Rank -> Nat] /\ Space \in DOMAIN Rank
  /\ \A c, d \in DOMAIN Rank : Rank[c] = Rank[d] => c = d
  /\ ParamWord \in Seq(Seq(DOMAIN Rank))

Text == Seq(DOMAIN Rank)

(* The order of lub_string_nocasecmp. *)
Before(s, t) ==
  \/ IsStrictPrefix(s, t)
  \/ \E i \in DOMAIN s \cap DOMAIN t :
       /\ SubSeq(s, 1, i - 1) = SubSeq(t, 1, i - 1)
       /\ Rank[s[i]] < Rank[t[i]]

(* The places at which the words of a text start. *)
WordStarts(line) ==
  {i \in DOMAIN line : line[i] # Space /\ (i = 1 \/ line[i - 1] = Space)}

lub_argv_wordcount(line) == Cardinality(WordStarts(line))

(* The last place of the word that starts at i. *)
WordEnd(line, i) ==
  CHOOSE j \in i .. Len(line) : /\ \A k \in i .. j : line[k] # Space
                                /\ j = Len(line) \/ line[j + 1] = Space

(* The words of a text, in their order. *)
lub_argv_new(line) ==
  LET start(n) == CHOOSE i \in WordStarts(line) : Cardinality({j \in WordStarts(line) : j <= i}) = n
  IN  [n \in 1 .. lub_argv_wordcount(line) |-> SubSeq(line, start(n), WordEnd(line, start(n)))]

(* The first n words of a text, with a space between them. *)
Words(line, n) ==
  LET argv == lub_argv_new(line)
      upto[i \in 1 .. n] == IF i = 1 THEN argv[1] ELSE upto[i - 1] \o <<Space>> \o argv[i]
  IN  upto[n]

(* The last word of a name. *)
lub_string_suffix(name) ==
  LET spaces == {0} \cup {i \in DOMAIN name : name[i] = Space}
      last   == CHOOSE i \in spaces : \A j \in spaces : j <= i
  IN  SubSeq(name, last + 1, Len(name))
-----------------------------------------------------------------------------
(* Resolution. *)

(* The command of n words is reached word by word, each prefix a command itself. *)
Resolves(view, line, n) == \A i \in 1 .. n : Words(line, i) \in view

(* The longest command that the first words of the line are. *)
ucli_view_resolve_prefix(view, line) ==
  LET counts == {n \in 1 .. lub_argv_wordcount(line) : Resolves(view, line, n)}
  IN  IF counts = {} THEN None
      ELSE Words(line, CHOOSE n \in counts : \A m \in counts : m <= n)

(* A command that only groups others is none by itself. *)
Acting(cmd) == IF cmd \in Idle THEN None ELSE cmd

ucli_view_resolve_command(view, line) == Acting(ucli_view_resolve_prefix(view, line))

(* The longer of two commands, and the first of two as long. *)
ucli_command_choose_longest(cmd1, cmd2) ==
  IF cmd2 = None \/ (cmd1 # None /\ Len(cmd2) <= Len(cmd1)) THEN cmd1 ELSE cmd2

ucli_shell_resolve_command(views, line) ==
  ucli_command_choose_longest(ucli_view_resolve_command(views.local, line),
                              ucli_view_resolve_command(views.global, line))
-----------------------------------------------------------------------------
(* Completion. *)

(* The words of a completion: a line that ends in a space asks for one more. *)
WordsWanted(line) ==
  lub_argv_wordcount(line) + IF line = <<>> \/ Last(line) = Space THEN 1 ELSE 0

(* The commands of a view that complete the line. *)
Completing(view, line) ==
  {name \in view : lub_argv_wordcount(name) = WordsWanted(line) /\ IsPrefix(line, name)}

(* The first of them after the command given. *)
ucli_view_find_next_completion(view, cmd, line) ==
  LET next == {name \in Completing(view, line) : cmd = None \/ Before(cmd, name)}
  IN  IF next = {} THEN None
      ELSE CHOOSE name \in next : \A other \in next : ~Before(other, name)

ucli_shell_iterator_init == [local |-> None, global |-> None, result |-> None, from |-> "start"]

(* Mutant: a command of both views is passed over in the one it is taken from only. *)
Taken_local(it, cmd1, cmd2) ==
  IF cmd2 # None /\ (cmd1 = None \/ Before(cmd2, cmd1))
  THEN [local |-> it.local, global |-> cmd2, result |-> cmd2, from |-> "global"]
  ELSE [local |-> cmd1, global |-> it.global, result |-> cmd1, from |-> "local"]

(* Of the next command of either view the first one is taken, the local one of two
   that are equal; the iterator goes past it in each view it came from. *)
Taken(it, cmd1, cmd2) ==
  IF cmd2 # None /\ (cmd1 = None \/ Before(cmd2, cmd1))
  THEN [local |-> it.local, global |-> cmd2, result |-> cmd2, from |-> "global"]
  ELSE [local  |-> cmd1,
        global |-> IF cmd1 = cmd2 THEN cmd2 ELSE it.global,
        result |-> cmd1,
        from   |-> "local"]

ucli_shell_find_next_completion(views, line, it) ==
  Taken(it, ucli_view_find_next_completion(views.local, it.local, line),
            ucli_view_find_next_completion(views.global, it.global, line))

(* What the iterator yields, up to the first NULL. *)
Completions(views, line) ==
  LET upto[n \in 0 .. Cardinality(views.local) + Cardinality(views.global)] ==
        IF n = 0 THEN <<>>
        ELSE LET found == upto[n - 1]
                 it    == IF found = <<>> THEN ucli_shell_iterator_init ELSE Last(found)
                 next  == ucli_shell_find_next_completion(views, line, it)
             IN  IF next.result = None THEN found ELSE Append(found, next)
  IN  upto[Cardinality(views.local) + Cardinality(views.global)]

(* The place in the line where its last word starts. *)
WordOffset(line) == Len(line) - Len(lub_string_suffix(line))

(* The number of the parameter that the end of the line belongs to, None for the
   command's own name.  (At the start of the line, line[-1] is no space.) *)
ParamIndex(cmd, line) ==
  LET given  == lub_argv_wordcount(line) - lub_argv_wordcount(cmd)
      offset == WordOffset(line)
      atSpace == offset > 0 /\ line[offset] = Space
  IN  IF given = 0 /\ ~atSpace THEN None
      ELSE IF given # 0 /\ offset < Len(line) THEN given - 1
      ELSE given

(* The words of the first parameter that complete the text, and the text itself first
   when it is one of them.  (In the code the others follow only as far as an earlier
   completion has left ptype->last_name behind; here all of them do.) *)
ucli_ptype_word_generator(text) ==
  LET words[n \in 0 .. Len(ParamWord)] ==
        IF n = 0 THEN IF text \in ToSet(ParamWord) THEN <<text>> ELSE <<>>
        ELSE IF IsStrictPrefix(text, ParamWord[n]) THEN Append(words[n - 1], ParamWord[n])
        ELSE words[n - 1]
  IN  words[Len(ParamWord)]

ucli_shell_param_generator(cmd, line) ==
  LET index == ParamIndex(cmd, line)
  IN  IF index = None THEN <<lub_string_suffix(cmd)>>
      ELSE IF index = 0 THEN ucli_ptype_word_generator(lub_string_suffix(line))
      ELSE <<lub_string_suffix(line)>>

(* The words that the commands found give, or the parameters of the line's command. *)
WordsOf(cmd, cmds, line) ==
  IF cmd # None /\ cmds = <<>> THEN ucli_shell_param_generator(cmd, line)
  ELSE [n \in DOMAIN cmds |-> lub_string_suffix(cmds[n].result)]

(* The words that can be put in the place of the last word of the line. *)
ucli_shell_word_generator(views, line) ==
  WordsOf(ucli_shell_resolve_command(views, line), Completions(views, line), line)
=============================================================================
