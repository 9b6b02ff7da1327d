------------------------------ MODULE MCShell ------------------------------
(***************************************************************************)
(* Instances of Shell for TLC.  A session has the stream it was spawned    *)
(* with ("stdin"), the stream reopened from it and two files to source,    *)
(* one command of each kind, and XML files in one of two directories.      *)
(***************************************************************************)
EXTENDS Shell

CONSTANTS v1, v2

MCView == {v1, v2}

MCCommand == { [act |-> "close",         view |-> None],
               [act |-> "source",        view |-> None],
               [act |-> "source_nostop", view |-> None],
               [act |-> "builtin",       view |-> None],
               [act |-> "script",        view |-> v2],
               [act |-> "none",          view |-> v1] }

MCPath == <<2, 0>>

MCStartup == [act |-> "script", view |-> v1]
MCStartupSource == [act |-> "source", view |-> v1]
=============================================================================
