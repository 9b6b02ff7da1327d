------------------------------ MODULE Session ------------------------------
(***************************************************************************)
(* What a CLI session promises its user, without the shell's machinery:    *)
(* commands come from a stack of input sources, the innermost one first;   *)
(* once the session is closing no source is ever added again; and a closed *)
(* session ends, with nothing left open unless it is cancelled even then.  *)
(*                                                                         *)
(* Module Shell implements this specification.                             *)
(***************************************************************************)
EXTENDS Sequences, SequencesExt

CONSTANT File          \* the input streams a session can draw commands from

VARIABLES phase,       \* how far the session's life has got
          src          \* the open sources, innermost last

svars == <<phase, src>>

Phase == {"starting", "open", "closing", "ended"}

SInit == phase = "starting" /\ src = <<>>

(* The session gets its first source, or is refused before it has any. *)
Begin(f) == phase = "starting" /\ phase' = "open" /\ src' = <<f>>
Refuse   == phase = "starting" /\ phase' = "closing" /\ UNCHANGED src

(* A command redirects input to a source that is not in use. *)
Source(f) == /\ phase = "open"
             /\ f \notin ToSet(src)
             /\ src' = Append(src, f)
             /\ UNCHANGED phase

(* The innermost source is exhausted or given up: input returns to the one
   that was being read when it was opened. *)
Drop == /\ phase \in {"open", "closing"}
        /\ src # <<>>
        /\ src' = Front(src)
        /\ UNCHANGED phase

Close == phase = "open" /\ phase' = "closing" /\ UNCHANGED src

(* Whatever is still open is released when the session ends. *)
End == phase # "ended" /\ phase' = "ended" /\ src' = <<>>

(* The release itself is given up. *)
Abandon == phase # "ended" /\ phase' = "ended" /\ UNCHANGED src

SNext == \/ \E f \in File : Begin(f) \/ Source(f)
         \/ Refuse \/ Drop \/ Close \/ End \/ Abandon

SSpec == SInit /\ [][SNext]_svars
=============================================================================
