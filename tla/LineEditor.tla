----------------------------- MODULE LineEditor -----------------------------
(***************************************************************************)
(* The reading of command lines: the editor of tinyrl.c with the keys that *)
(* shell_tinyrl.c binds, the references to earlier lines that history.c    *)
(* expands, the completion by the commands of the views, and the lines of  *)
(* a script, which come in pieces of a buffer.                             *)
(*                                                                         *)
(* The texts are C strings without quotes; the list of the lines entered   *)
(* is that of module CommandList, not stifled.                             *)
(***************************************************************************)
EXTENDS CommandViews, Integers

CONSTANTS
  Bang, Minus,  \* the characters of a reference
  Digit,        \* the values of those that are digits
  Newline,      \* the character that ends a line of a script
  KeyText,      \* the texts that a key without a handler of its own puts in
  Script,       \* what scripts can hold
  Piece,        \* the characters that fgets() returns at most, 79 in the code
  Slack,        \* the room the buffer grows by at least, 10 in the code
  MaxUnsigned,  \* the greatest unsigned
  Views,        \* the pairs of a current and a global view
  MaxLength,    \* bound: the length of a line
  MaxKill,      \* bound: the length of a killed text
  MaxEntry,     \* bound: the length of a line that is entered
  MaxIndex      \* bound: the lines entered

ASSUME EditorAssumption ==
  /\ Digit \in [DOMAIN Digit -> 0 .. 9]
  /\ {Bang, Minus, Space} \cap DOMAIN Digit = {} /\ Bang # Minus /\ Space \notin {Bang, Minus}
  /\ None \notin Text /\ None \notin Int /\ KeyText \subseteq Text
  /\ Newline \notin DOMAIN Rank /\ Script \subseteq Seq({Newline} \cup DOMAIN Rank)
  /\ \A v \in Views : /\ IsFiniteSet(v.local) /\ v.local \subseteq Text
                      /\ IsFiniteSet(v.global) /\ v.global \subseteq Text
                      /\ \A name \in v.local \cup v.global : name # <<>> => Last(name) # Space
  /\ Piece \in Nat \ {0} /\ Slack \in Nat /\ MaxUnsigned \in Nat
  /\ MaxLength \in Nat /\ MaxKill \in Nat /\ MaxEntry \in Nat /\ MaxIndex \in Nat

VARIABLES
  mode,     \* "idle" between two calls of tinyrl_readline, then where it reads from
  editor,   \* the editor's buffer, the line shown and the cursor
  kill,     \* the kill string
  lines,    \* the entries of the history
  current,  \* the number of the next entry
  views,    \* the current and the global view
  stream,   \* what is left of the script that is read
  given,    \* what there was of it when the reading of this line began
  ended     \* whether the last reading returned NULL

vars == <<mode, editor, kill, lines, current, views, stream, given, ended>>

(* view is the entry shown, 0 when it is the buffer itself; stray is a history field:
   a key has worked on text that was not shown, or has lost some. *)
Empty == [buffer |-> <<>>, size |-> 0, view |-> 0, point |-> 0, end |-> 0, stray |-> FALSE]

(* What a handler cannot foresee: whether memory is short, and what a number that
   was never read is. *)
Chance == [short : BOOLEAN, number : {0, current - 1}]

(* The same for one that reads no number. *)
Memory == [short : BOOLEAN, number : {0}]

Init ==
  /\ mode = "idle"
  /\ editor = Empty
  /\ kill = None
  /\ lines = <<>>
  /\ current = 1
  /\ views \in Views
  /\ stream = <<>>
  /\ given = <<>>
  /\ ended = FALSE
-----------------------------------------------------------------------------
(* The line and its buffer. *)

Shown(e) == IF e.view = 0 THEN e.buffer ELSE lines[e.view].line

(* Mutant: the size of the buffer is left as it was. *)
changed_line_size(e) ==
  IF e.view = 0 THEN e ELSE [e EXCEPT !.buffer = Shown(e), !.view = 0]

(* The line that is shown is put into the buffer. *)
changed_line(e) ==
  IF e.view = 0 THEN e
  ELSE [e EXCEPT !.buffer = Shown(e), !.size = Len(Shown(e)), !.view = 0]

(* The buffer made large enough, if there is memory for it. *)
tinyrl_extend_line_buffer(e, len) ==
  IF e.size >= len THEN e
  ELSE [e EXCEPT !.size = IF len < e.size + Slack THEN e.size + Slack ELSE len, !.view = 0]

Refused(e, len, chance) == e.size < len /\ chance.short

(* Text is put in at the cursor of an editor that shows its buffer. *)
WithText(c, text, chance) ==
  IF Refused(c, c.end + Len(text), chance) THEN c
  ELSE [tinyrl_extend_line_buffer(c, c.end + Len(text)) EXCEPT
          !.buffer = SubSeq(c.buffer, 1, c.point) \o text
                       \o SubSeq(c.buffer, c.point + 1, c.end),
          !.point = c.point + Len(text),
          !.end = c.end + Len(text)]

tinyrl_insert_text(e, text, chance) == WithText(changed_line(e), text, chance)

(* The cursor follows the text it stands on. *)
PointAfter(e, start, stop) ==
  IF e.point < start THEN e.point
  ELSE IF e.point > stop THEN e.point - ((stop - start) + 1)
  ELSE start

(* The text from start to stop is taken out of an editor that shows its buffer. *)
WithoutText(c, start, stop) ==
  [c EXCEPT !.buffer = SubSeq(c.buffer, 1, start) \o SubSeq(c.buffer, stop + 2, c.end),
            !.point = PointAfter(c, start, stop),
            !.end = IF c.end > stop THEN c.end - ((stop - start) + 1) ELSE start]

(* The text from first to last, counted from 0, is taken out.  When first is greater
   than last it becomes the same. *)
tinyrl_delete_text(e, first, last) ==
  WithoutText(changed_line(e), IF first > last THEN last ELSE first,
              IF last > e.end THEN e.end ELSE last)

(* The text is written into the buffer, which need not be the line. *)
tinyrl_replace_line(e, text, chance) ==
  IF Refused(e, Len(text), chance) THEN e
  ELSE [tinyrl_extend_line_buffer(e, Len(text)) EXCEPT
          !.buffer = text, !.point = Len(text), !.end = Len(text),
          !.stray = e.stray \/ (e.view # 0 /\ e.size >= Len(text))]
-----------------------------------------------------------------------------
(* References to earlier lines. *)

RefChar == {Bang, Minus} \cup DOMAIN Digit

(* The number of the digits in s, in which there is one at least. *)
Value(s) ==
  LET v[i \in 0 .. Len(s)] == IF i = 0 THEN 0 ELSE 10 * v[i - 1] + Digit[s[i]]
  IN  v[Len(s)]

(* The longest run of characters of a set from place i on. *)
Span(text, i, set) ==
  LET ends == {j \in i .. Len(text) + 1 : \A k \in i .. j - 1 : text[k] \in set}
  IN  SubSeq(text, i, (CHOOSE j \in ends : \A k \in ends : k <= j) - 1)

(* What sscanf(p, "!%d") reads: blanks are skipped, a sign is taken.  Where the text
   ends before there is a number, nothing is stored and the result is not 0. *)
ScannedNumber(text, p, chance) ==
  LET blanks == Span(text, p + 1, {Space})
      at     == p + 1 + Len(blanks)
      signed == at <= Len(text) /\ text[at] = Minus
      digits == Span(text, IF signed THEN at + 1 ELSE at, DOMAIN Digit)
  IN  IF at > Len(text) THEN chance.number
      ELSE IF digits = <<>> THEN None
      ELSE IF signed THEN - Value(digits) ELSE Value(digits)

(* Mutant: a relative reference counts from the line that is being entered. *)
Offset_next(text, p, chance) ==
  IF p < Len(text) /\ text[p + 1] = Bang THEN current - 1
  ELSE LET tmp == ScannedNumber(text, p, chance)
       IN  IF tmp # None /\ tmp < 0 THEN current + tmp ELSE tmp

(* The number of the entry meant: relative to the last one when it is negative. *)
Offset(text, p, chance) ==
  IF p < Len(text) /\ text[p + 1] = Bang THEN current - 1
  ELSE LET tmp == ScannedNumber(text, p, chance)
       IN  IF tmp # None /\ tmp < 0 THEN current - 1 + tmp ELSE tmp

tinyrl_history_get(index) == {i \in DOMAIN lines : lines[i].index = index}

(* At a reference: it is replaced, with whatever of its kind of characters follows;
   or left, although the text before it has been put out already. *)
AtReference(x, text, chance) ==
  LET offset == Offset(text, x.p, chance)
      run    == Span(text, x.p, RefChar)
      entry  == tinyrl_history_get(offset)
      plain  == SubSeq(text, x.start, x.start + x.len - 1)
      after  == x.p + Len(run)
  IN  IF offset = None THEN [x EXCEPT !.going = FALSE]
      ELSE IF entry = {}
      THEN [x EXCEPT !.p = after + 1, !.len = x.len + Len(run) + 1, !.out = x.out \o plain]
      ELSE [p |-> after + 1, start |-> after, len |-> 1, going |-> TRUE, expanded |-> TRUE,
            out |-> x.out \o plain \o lines[CHOOSE i \in entry : TRUE].line]

(* The line with its references replaced.  Beyond the end of the line, where the
   loop looks after a reference that ends it, there is no other one. *)
tinyrl_history_expand(text, chance) ==
  LET x[n \in 0 .. Len(text) + 1] ==
        IF n = 0 THEN [p |-> 1, start |-> 1, len |-> 0, going |-> TRUE, expanded |-> FALSE,
                       out |-> <<>>]
        ELSE LET y == x[n - 1]
             IN  IF ~y.going \/ y.p > Len(text) THEN y
                 ELSE IF text[y.p] = Bang THEN AtReference(y, text, chance)
                 ELSE [y EXCEPT !.p = y.p + 1, !.len = y.len + 1]
      last == x[Len(text) + 1]
      stop == Min({last.start + last.len - 1, Len(text)})
  IN  [expanded |-> last.expanded, out |-> last.out \o SubSeq(text, last.start, stop)]

Expanded(e, x, chance) == IF x.expanded THEN tinyrl_replace_line(e, x.out, chance) ELSE e

ucli_shell_tinyrl_expand(e, chance) ==
  Expanded(e, tinyrl_history_expand(Shown(e), chance), chance)
-----------------------------------------------------------------------------
(* Completion. *)

WordStart(e) == WordOffset(SubSeq(Shown(e), 1, e.point))

(* Mutant: a word in the middle of the line is taken for one at its end. *)
LastToDelete_point(e) == e.point

(* The last character to take out: that under the cursor, which is the terminator at
   the end of the line, and elsewhere the one before it. *)
LastToDelete(e) ==
  IF e.point = e.end THEN e.point ELSE IF e.point = 0 THEN MaxUnsigned ELSE e.point - 1

(* The word at the cursor taken out. *)
WithoutWord(e, start) ==
  [tinyrl_delete_text(e, start, LastToDelete(e)) EXCEPT
     !.stray = start = e.point /\ e.point # e.end]

(* The text that all matches begin with is put in the place of the word, which has been
   taken out. *)
WithCommon(deleted, common, matches, chance) ==
  IF Refused(deleted, deleted.end + Len(common), chance)
  THEN [e |-> [deleted EXCEPT !.stray = TRUE], status |-> "NO_MATCH"]
  ELSE [e |-> WithText(deleted, common, chance),
        status |-> IF Len(matches) = 1 THEN "COMPLETED_MATCH" ELSE "COMPLETED_AMBIGUOUS"]

(* Where the line already goes on with that text, it stays. *)
Completed(e, start, common, matches, chance) ==
  IF matches = <<>> THEN [e |-> e, status |-> "NO_MATCH"]
  ELSE IF common # SubSeq(Shown(e), start + 1, Min({start + Len(common), Len(Shown(e))}))
  THEN WithCommon(WithoutWord(e, start), common, matches, chance)
  ELSE [e |-> e,
        status |-> IF Len(matches) = 1 THEN "MATCH"
                   ELSE IF common = matches[1] THEN "MATCH_WITH_EXTENSIONS"
                   ELSE "AMBIGUOUS"]

CompletedTo(e, matches, chance) ==
  Completed(e, WordStart(e), LongestCommonPrefix(ToSet(matches)), matches, chance)

(* The editor after the completion, and what is said of it. *)
tinyrl_do_complete(e, chance) ==
  CompletedTo(e, ucli_shell_word_generator(views, SubSeq(Shown(e), 1, e.point)), chance)

(* What comes of it is not followed when the expansion is not what is shown. *)
CompletedIfShown(x, chance) ==
  IF x.stray THEN [e |-> x, status |-> "NO_MATCH"] ELSE tinyrl_do_complete(x, chance)

ucli_shell_tinyrl_complete(e, chance) ==
  CompletedIfShown(ucli_shell_tinyrl_expand(e, chance), chance)

Blank == <<Space>>

(* The editor after a completion, with a space when what is said of it is in a set. *)
WithSpace(done, set, chance) ==
  IF done.status \in set THEN tinyrl_insert_text(done.e, Blank, chance) ELSE done.e

(* A second attempt is made after an ambiguous completion. *)
SpaceAfter(once, chance) ==
  IF once.status = "COMPLETED_AMBIGUOUS"
  THEN WithSpace(ucli_shell_tinyrl_complete(once.e, chance), {"MATCH_WITH_EXTENSIONS"}, chance)
  ELSE WithSpace(once, {"MATCH", "MATCH_WITH_EXTENSIONS", "COMPLETED_MATCH"}, chance)

ucli_shell_tinyrl_key_space(e, chance) ==
  SpaceAfter(ucli_shell_tinyrl_complete(e, chance), chance)

tinyrl_key_tab(e, chance) ==
  WithSpace(tinyrl_do_complete(e, chance), {"COMPLETED_MATCH", "MATCH"}, chance)

IsCommand(e) == ucli_shell_resolve_command(views, Shown(e)) # None

(* What a line that is completed to no command is, once it has got a space. *)
Begun(e, more) == [e |-> more, is |-> IF more.end > e.end THEN "begun" ELSE "unknown"]

EnteredAfter(once, chance) ==
  IF once.status \notin {"MATCH", "MATCH_WITH_EXTENSIONS", "COMPLETED_MATCH"}
  THEN [e |-> once.e, is |-> "unknown"]
  ELSE IF IsCommand(once.e) THEN [e |-> once.e, is |-> "command"]
  ELSE Begun(once.e, tinyrl_insert_text(once.e, Blank, chance))

(* The line at <RET>, and what it is found to be: a line that is no command is completed
   first, and gets a space when what it is completed to is none either. *)
ucli_shell_tinyrl_key_enter(e, chance) ==
  IF IsCommand(e) THEN [e |-> e, is |-> "command"]
  ELSE EnteredAfter(ucli_shell_tinyrl_complete(e, chance), chance)
-----------------------------------------------------------------------------
(* The keys. *)

(* What a key leaves as it is. *)
OfReading == <<lines, current, views, stream, given, ended>>

(* The editor is e after a key. *)
Becomes(e) ==
  /\ mode = "keys" /\ ~editor.stray
  /\ Len(Shown(e)) <= MaxLength
  /\ editor' = e
  /\ UNCHANGED <<mode, OfReading>>

tinyrl_key_default == \E t \in KeyText, chance \in Memory :
  Becomes(tinyrl_insert_text(editor, t, chance)) /\ UNCHANGED kill

tinyrl_key_start_of_line == Becomes([editor EXCEPT !.point = 0]) /\ UNCHANGED kill

tinyrl_key_end_of_line == Becomes([editor EXCEPT !.point = editor.end]) /\ UNCHANGED kill

tinyrl_key_left ==
  editor.point > 0 /\ Becomes([editor EXCEPT !.point = @ - 1]) /\ UNCHANGED kill

tinyrl_key_right ==
  editor.point < editor.end /\ Becomes([editor EXCEPT !.point = @ + 1]) /\ UNCHANGED kill

tinyrl_key_backspace ==
  /\ editor.point > 0
  /\ LET back == editor.point - 1
     IN  Becomes(tinyrl_delete_text([editor EXCEPT !.point = back], back, back))
  /\ UNCHANGED kill

tinyrl_key_delete ==
  /\ editor.point < editor.end
  /\ Becomes(tinyrl_delete_text(editor, editor.point, editor.point))
  /\ UNCHANGED kill

tinyrl_key_erase_line ==
  /\ Becomes([tinyrl_delete_text(editor, 0, editor.point) EXCEPT !.point = 0])
  /\ UNCHANGED kill

(* The end of the buffer is kept, whatever line is shown.  (A buffer that ends before
   the cursor is read beyond its end.) *)
tinyrl_key_kill ==
  /\ kill' = SubSeq(editor.buffer, editor.point + 1, Len(editor.buffer))
  /\ Len(kill') <= MaxKill
  /\ Becomes([tinyrl_delete_text(editor, editor.point, editor.end) EXCEPT
                !.stray = editor.view # 0])

tinyrl_key_yank == \E chance \in Memory :
  /\ kill # None
  /\ Becomes(tinyrl_insert_text(editor, kill, chance))
  /\ UNCHANGED kill

Views_entry(v, text) == [editor EXCEPT !.view = v, !.point = Len(text), !.end = Len(text)]

(* The entry before the one shown, at first the last one. *)
tinyrl_key_up ==
  LET v == IF editor.view = 0 THEN Len(lines) ELSE editor.view - 1
  IN  v # 0 /\ Becomes(Views_entry(v, lines[v].line)) /\ UNCHANGED kill

(* The entry behind the one shown, and the buffer behind the last one. *)
tinyrl_key_down ==
  /\ editor.view # 0
  /\ IF editor.view < Len(lines)
     THEN Becomes(Views_entry(editor.view + 1, lines[editor.view + 1].line))
     ELSE Becomes(Views_entry(0, editor.buffer))
  /\ UNCHANGED kill

KeySpace == \E chance \in Chance :
  Becomes(ucli_shell_tinyrl_key_space(editor, chance)) /\ UNCHANGED kill

KeyTab == \E chance \in Memory : Becomes(tinyrl_key_tab(editor, chance)) /\ UNCHANGED kill

(* A line that is no command, or whose arguments are bad, stays. *)
KeyEnterStays == \E chance \in Chance :
  Shown(editor) # <<>> /\ Becomes(ucli_shell_tinyrl_key_enter(editor, chance).e) /\ UNCHANGED kill
-----------------------------------------------------------------------------
(* The reading of a line, from its begin to its end. *)

(* The next line is read, from the terminal or from a script, which is read to its end. *)
tinyrl_readline ==
  /\ mode = "idle" /\ ~editor.stray
  /\ IF stream = <<>>
     THEN \/ mode' = "keys" /\ stream' = <<>>
          \/ mode' = "pieces" /\ stream' \in Script
     ELSE mode' = "pieces" /\ stream' = stream
  /\ editor' = Empty
  /\ given' = stream'
  /\ ended' = FALSE
  /\ UNCHANGED <<kill, lines, current, views>>

(* The first entry that is the same line goes. *)
remove_duplicate(line) ==
  LET same == {i \in DOMAIN lines : lines[i].line = line}
  IN  IF same = {} THEN lines ELSE RemoveAt(lines, Min(same))

Remembered(line) == Append(remove_duplicate(line), [line |-> line, index |-> current])

(* The line is returned, and added to the history. *)
Returned(line) ==
  /\ mode = "keys" /\ ~editor.stray
  /\ current <= MaxIndex /\ Len(line) <= MaxEntry
  /\ mode' = "idle" /\ editor' = Empty
  /\ lines' = Remembered(line) /\ current' = current + 1
  /\ UNCHANGED <<kill, views, stream, given, ended>>

tinyrl_key_interrupt == Returned(<<>>)

(* One space at the end is dropped. *)
Trimmed(e) ==
  IF e.end > 0 /\ Shown(e)[e.end] = Space THEN tinyrl_delete_text(e, e.end - 1, e.end) ELSE e

KeyEnterReturns == \E chance \in Chance :
  /\ Shown(editor) # <<>>
  /\ \E x \in {ucli_shell_tinyrl_key_enter(editor, chance)} :
       /\ x.is = "command" /\ ~x.e.stray
       /\ Returned(Shown(Trimmed(x.e)))

(* The terminal is at its end. *)
EndOfInput ==
  /\ mode = "keys" /\ ~editor.stray
  /\ mode' = "idle" /\ editor' = Empty
  /\ ended' = TRUE
  /\ UNCHANGED <<kill, lines, current, views, stream, given>>

(* What fgets() returns: up to the end of the line, as much as the buffer holds. *)
Taken_by_fgets(s) ==
  SubSeq(s, 1, Min({Piece, Len(s)} \cup {i \in DOMAIN s : s[i] = Newline}))

(* A newline can only be its last character. *)
WithoutNewline(s) == IF s # <<>> /\ Last(s) = Newline THEN Front(s) ELSE s

SkipBlanks(s) == SubSeq(s, Len(Span(s, 1, {Space})) + 1, Len(s))

(* Mutant: blanks are skipped in every piece. *)
Stripped_always(s) == SkipBlanks(s)

(* Blanks are skipped as long as nothing has been put in. *)
Stripped(s) == IF editor.point = 0 THEN SkipBlanks(s) ELSE s

(* A piece of a script's line: another one follows when it is full, and then the end
   of the script is the end of the reading, whatever has been read. *)
fgets ==
  LET taken == Taken_by_fgets(stream)
      text  == WithoutNewline(taken)
      feof  == Len(taken) < Piece /\ text = taken
      e(chance) == IF Stripped(text) = <<>> THEN editor
                   ELSE tinyrl_insert_text(editor, Stripped(text), chance)
  IN  /\ mode = "pieces" /\ ~editor.stray
      /\ stream' = SubSeq(stream, Len(taken) + 1, Len(stream))
      /\ \E chance \in Memory :
           /\ editor' = [e(chance) EXCEPT
                !.stray = Refused(editor, editor.end + Len(Stripped(text)), chance)]
           /\ IF taken # <<>> /\ Len(text) = Piece THEN UNCHANGED <<mode, ended>>
              ELSE IF taken = <<>> \/ (feof /\ editor'.buffer = <<>>)
              THEN mode' = "idle" /\ ended' = TRUE
              ELSE mode' = "enter" /\ UNCHANGED ended
      /\ UNCHANGED <<kill, lines, current, views, given>>

(* The line of a script is entered like one that was typed.  It is returned when it is
   empty or a command, and also when it is the begin of one: that is no error.  A script
   with an error in it is left. *)
ScriptEnter == \E chance \in Chance, parses \in BOOLEAN :
  /\ mode = "enter" /\ ~editor.stray
  /\ mode' = "idle" /\ editor' = Empty
  /\ \E is \in {ucli_shell_tinyrl_key_enter(editor, chance).is} :
       ended' = ~(editor.end = 0 \/ is = "begun" \/ (is = "command" /\ parses))
  /\ stream' = IF ended' THEN <<>> ELSE stream
  /\ given' = <<>>
  /\ UNCHANGED <<kill, lines, current, views>>

Key ==
  \/ tinyrl_key_default \/ tinyrl_key_start_of_line \/ tinyrl_key_end_of_line
  \/ tinyrl_key_left \/ tinyrl_key_right \/ tinyrl_key_backspace \/ tinyrl_key_delete
  \/ tinyrl_key_erase_line \/ tinyrl_key_kill \/ tinyrl_key_yank
  \/ tinyrl_key_up \/ tinyrl_key_down \/ KeySpace \/ KeyTab \/ KeyEnterStays

Next ==
  \/ Key
  \/ tinyrl_readline \/ tinyrl_key_interrupt \/ KeyEnterReturns \/ EndOfInput
  \/ fgets \/ ScriptEnter

Spec == Init /\ [][Next]_vars
-----------------------------------------------------------------------------
(* Properties. *)

(* Unless a key has worked on text that was not shown, the editor's end is that of the
   line shown, the cursor is on it, and the buffer has room for what it holds: the
   same is shown, edited and returned. *)
LineKept ==
  /\ mode \in {"idle", "keys", "pieces", "enter"}
  /\ editor.view \in 0 .. Len(lines)
  /\ ~editor.stray =>
       /\ editor.end = Len(Shown(editor))
       /\ editor.point \in 0 .. editor.end
       /\ Len(editor.buffer) <= editor.size

(* The places where a reference starts: "!", but for the second one of "!!". *)
ReferenceStarts(text) ==
  {i \in DOMAIN text : text[i] = Bang /\ (i = 1 \/ text[i - 1] # Bang)}

(* The number of the line that "!!", "!n" or "!-n" stands for; "!-0" stands for none. *)
Meaning(run) ==
  LET From(i)     == SubSeq(run, i, Len(run))
      IsNumber(i) == From(i) # <<>> /\ ToSet(From(i)) \subseteq DOMAIN Digit
  IN  IF run = <<Bang, Bang>> THEN current - 1
      ELSE IF IsNumber(2) THEN Value(From(2))
      ELSE IF IsNumber(3) /\ run[2] = Minus /\ Value(From(3)) > 0
      THEN current - 1 - Value(From(3))
      ELSE None

(* Every reference in the line is one of a line that is held. *)
AllResolve(text) ==
  \A i \in ReferenceStarts(text) : tinyrl_history_get(Meaning(Span(text, i, RefChar))) # {}

Referred(text) ==
  LET Runs == {[at |-> i, run |-> Span(text, i, RefChar)] : i \in ReferenceStarts(text)}
      Put(j) ==
        IF \E r \in Runs : r.at = j
        THEN lines[CHOOSE i \in tinyrl_history_get(Meaning(Span(text, j, RefChar))) : TRUE].line
        ELSE IF \E r \in Runs : r.at < j /\ j < r.at + Len(r.run) THEN <<>>
        ELSE <<text[j]>>
  IN  FlattenSeq([j \in DOMAIN text |-> Put(j)])

(* A line whose references all resolve is expanded to the line with each of them
   replaced by the line it stands for, and nothing else changed, as is one that has
   none (tinyrl_history_expand). *)
ExpandsReferences ==
  ~editor.stray /\ AllResolve(Shown(editor)) =>
    \A chance \in Chance :
      tinyrl_history_expand(Shown(editor), chance) =
        [expanded |-> ReferenceStarts(Shown(editor)) # {}, out |-> Referred(Shown(editor))]

(* The iterator over the local and the global view gives each command that completes
   the text before the cursor once, in their order, and the local one of two with one
   name (shell_command_generator.c, "local view may override global command"). *)
CompletionsOnce ==
  LET line == SubSeq(Shown(editor), 1, editor.point)
      c    == Completions(views, line)
  IN  ~editor.stray =>
      /\ {c[n].result : n \in DOMAIN c} =
            Completing(views.local, line) \cup Completing(views.global, line)
      /\ \A m, n \in DOMAIN c : m < n => Before(c[m].result, c[n].result)
      /\ \A n \in DOMAIN c : c[n].from = "local" <=> c[n].result \in views.local

(* The first line of a script. *)
FirstLine(s) == Span(s, 1, DOMAIN Rank \ {Newline})

(* A line that comes in pieces is put together as it is in the script, without the
   blanks it begins with; and only at the end of the script does a reading end
   without one: with nothing but blanks left, or with a last line that has no newline
   and fills its last piece. *)
PiecesMakeLines ==
  LET line == FirstLine(given)
  IN  /\ mode = "enter" /\ ~editor.stray => editor.buffer = SkipBlanks(line)
      /\ mode = "idle" /\ ended /\ stream = <<>> /\ given = line /\ SkipBlanks(line) # <<>>
           /\ ~editor.stray /\ editor # Empty
         => Len(line) % Piece = 0

(* What a line can be completed with. *)
Offered == ToSet(ParamWord) \cup UNION {v.local \cup v.global : v \in Views}

Buffer == INSTANCE EditBuffer WITH
  Offered <- Offered,
  left   <- SubSeq(Shown(editor), 1, editor.point),
  right  <- SubSeq(Shown(editor), editor.point + 1, Len(Shown(editor))),
  kill   <- IF kill = None THEN <<>> ELSE kill,
  held   <- {lines[i].line : i \in DOMAIN lines},
  draft  <- editor.buffer,
  recall <- editor.view # 0,
  lost   <- editor.stray

(* The editor implements the text with a cursor of EditBuffer, whatever keys are typed:
   what is killed is what was shown, a draft survives the browsing of the history, and
   a completion adds to the text at the cursor. *)
ImplementsEditBuffer == Buffer!ESpec
=============================================================================
