---------------------------- MODULE CommandList ----------------------------
(***************************************************************************)
(* What the history of command lines promises, after CHANGES: a line is    *)
(* held once, the lines are in the order they were last entered, and a     *)
(* stifled list loses its oldest lines and no others.                      *)
(*                                                                         *)
(* Module History implements this specification.                           *)
(***************************************************************************)
EXTENDS Naturals, Sequences, SequencesExt

CONSTANTS Line,   \* the command lines
          Limit   \* the limits the list may be given

VARIABLES list,   \* the lines held, the last entered at the end
          limit,  \* the number of lines the list may hold, 0 when not stifled
          torn    \* memory has been short within the list

lvars == <<list, limit, torn>>

Latest(s, n) == IF n = 0 \/ Len(s) <= n THEN s ELSE SubSeq(s, Len(s) - n + 1, Len(s))

(* A line is held once: the first place is the only one. *)
Without(s, l) == RemoveFirst(s, l)

LInit == list = <<>> /\ limit \in Limit /\ torn = FALSE

Enter(l) == /\ list' = Latest(Append(Without(list, l), l), limit)
            /\ UNCHANGED limit

(* Memory is short, and the line is not recorded. *)
Lose(l) == /\ list' = Without(list, l)
           /\ UNCHANGED limit

Stifle(n) == /\ limit' = n
             /\ list' = Latest(list, n)

(* The client takes a line out of the list, or all of them. *)
Forget(i) == /\ list' = RemoveAt(list, i)
             /\ UNCHANGED limit

Clear == /\ list' = <<>>
         /\ UNCHANGED limit

(* The list goes with the session it belongs to, and the next has one of its own. *)
Renew == list' = <<>> /\ limit' \in Limit

(* An entry is short of memory: the list is no longer one, and nothing is promised. *)
Tear == /\ torn' = TRUE
        /\ UNCHANGED limit

LNext == /\ ~torn
         /\ \/ Tear
            \/ /\ UNCHANGED torn
               /\ \/ \E l \in Line : Enter(l) \/ Lose(l)
                  \/ \E n \in Limit : Stifle(n)
                  \/ \E i \in DOMAIN list : Forget(i)
                  \/ Clear \/ Renew

LSpec == LInit /\ [][LNext]_lvars
=============================================================================
