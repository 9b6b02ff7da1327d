----------------------------- MODULE EditBuffer -----------------------------
(***************************************************************************)
(* What the line editor promises: a text to the left and one to the right  *)
(* of a cursor, a killed text that can be put back, lines that were        *)
(* entered and can be recalled, and a draft that is kept while they are    *)
(* looked at.  A completion adds to the text at the cursor and does        *)
(* nothing else.                                                           *)
(*                                                                         *)
(* Module LineEditor implements this specification.                        *)
(***************************************************************************)
EXTENDS Naturals, Sequences, SequencesExt

CONSTANTS Space,   \* the character between words
          Bang,    \* the character that starts a reference to an earlier line
          Offered  \* what a completion can put in

VARIABLES left,    \* the text before the cursor
          right,   \* the text behind it
          kill,    \* the text that was killed last
          held,    \* the lines that were entered
          draft,   \* the line that is being written
          recall,  \* a line that was entered is shown in its place
          lost     \* a key has worked on text that was not shown

evars == <<left, right, kill, held, draft, recall, lost>>

EInit == /\ left = <<>> /\ right = <<>>
         /\ kill = <<>>
         /\ held = {}
         /\ draft = <<>>
         /\ recall = FALSE
         /\ lost = FALSE

text == left \o right

(* The text after an edit is the draft. *)
Edited == draft' = left' \o right' /\ recall' = FALSE

Edit(l, r) == left' = l /\ right' = r /\ Edited /\ UNCHANGED <<kill, held>>

(* Something is put in at the cursor, by a key or by the completion of a word. *)
Type == /\ IsPrefix(left, left') /\ right' = right
        /\ Edited
        /\ UNCHANGED <<kill, held>>

Backspace == left # <<>> /\ Edit(Front(left), right)

Delete == right # <<>> /\ Edit(left, Tail(right))

(* The text before the cursor goes, with the character under it. *)
Erase == Edit(<<>>, IF right = <<>> THEN <<>> ELSE Tail(right))

Kill == /\ kill' = right
        /\ left' = left /\ right' = <<>>
        /\ Edited
        /\ UNCHANGED held

Yank == Edit(left \o kill, right)

Move == /\ left' \o right' = text
        /\ UNCHANGED <<kill, held, draft, recall>>

Recall(l) == /\ left' = l /\ right' = <<>>
             /\ recall' = TRUE
             /\ UNCHANGED <<kill, held, draft>>

Return == /\ recall /\ recall' = FALSE
          /\ left' = draft /\ right' = <<>>
          /\ UNCHANGED <<kill, held, draft>>

(* t has a line that was entered in the place of a reference, of the text or of what it
   was completed with. *)
Replaced(t) ==
  /\ Bang \in ToSet(text) \/ \E s \in Offered : Bang \in ToSet(s)
  /\ \E l \in held : \E i \in 1 .. (Len(t) - Len(l)) + 1 : SubSeq(t, i, i + Len(l) - 1) = l

Substitute == /\ right' = <<>> /\ Replaced(left')
              /\ Edited
              /\ UNCHANGED <<kill, held>>

(* t is the text with something put in at the cursor, or nothing. *)
Filled(t) == /\ IsPrefix(left, t) /\ IsSuffix(right, t)
             /\ Len(t) >= Len(text)

(* The line is left, and the next one is begun. *)
Leave == left' = <<>> /\ right' = <<>> /\ Edited /\ UNCHANGED <<kill, held>>

(* The line is entered and remembered, without a space at its end; or the line is
   given up, and an empty one remembered. *)
Enter(l) == /\ held' = held \cup {l}
            /\ l = <<>> \/ \E s \in {<<>>, <<Space>>} : Filled(l \o s) \/ Replaced(l \o s)
            /\ left' = <<>> /\ right' = <<>> /\ Edited
            /\ UNCHANGED kill

ENext ==
  /\ ~lost
  /\ \/ lost'
     \/ /\ UNCHANGED lost
        /\ \/ Type \/ Backspace \/ Delete \/ Erase \/ Kill \/ Yank \/ Move
           \/ \E l \in held : Recall(l)
           \/ Return \/ Substitute \/ Leave
           \/ \E l \in held' : Enter(l)

ESpec == EInit /\ [][ENext]_evars
=============================================================================
