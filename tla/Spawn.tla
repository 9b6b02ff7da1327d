------------------------------- MODULE Spawn -------------------------------
(***************************************************************************)
(* How sessions are started (ucli_shell_spawn, ucli_shell_spawn_and_wait   *)
(* and ucli_shell_spawn_from_file of shell_spawn.c) and what the threads   *)
(* of the process then share: the context handed to the thread, and the    *)
(* table of file descriptors, in which a number that is closed is given to *)
(* whoever opens a file next.                                              *)
(*                                                                         *)
(* One thread makes the calls, one after the other.  What a session does   *)
(* with the lines it reads is in module Shell: here it opens and closes    *)
(* files and comes to an end.                                              *)
(***************************************************************************)
EXTENDS Naturals, Sequences, FiniteSets, SequencesExt, FiniteSetsExt

CONSTANTS
  Session,      \* the threads there can be
  Op,           \* the calls that are made
  MaxFd,        \* bound: the greatest descriptor
  MaxSource,    \* bound: the files a session sources
  MaxLoad,      \* bound: the directories and XML files it opens while it starts
  None,         \* a NULL pointer, a closed descriptor
  CreateFails   \* whether pthread_create() may fail

ASSUME SpawnAssumption ==
  /\ Op \subseteq {"spawn", "spawn_and_wait", "spawn_from_file"}
  /\ MaxFd \in Nat /\ MaxSource \in Nat /\ MaxLoad \in Nat
  /\ None \notin Session
  /\ CreateFails \in BOOLEAN

(* stdin has the descriptor 0; 1 and 2 are the output streams, never closed. *)
Stdin == 0
Fd == {Stdin} \cup 3 .. MaxFd

(* What a descriptor stands for: the terminal, the file a session is spawned from,
   a file it sources, a directory it searches for XML files, an XML file it reads. *)
Terminal == [by |-> None, what |-> "stdin"]
Input(s) == [by |-> s, what |-> "file"]
Script(s) == [by |-> s, what |-> "script"]
Directory(s) == [by |-> s, what |-> "dir"]
Xml(s) == [by |-> s, what |-> "xml"]
Holder == {Terminal} \cup [by : Session, what : {"file", "script", "dir", "xml"}]

(* NULL is no stream. *)
ASSUME HolderAssumption ==
  None \notin [by : Session \cup {None}, what : {"stdin", "file", "script", "dir", "xml"}]

Stage == {"unused", "new", "start", "running", "ending", "freed", "exited"}

VARIABLES
  pc,         \* where the spawner is
  op,         \* the call it is making
  child,      \* the session it has started last
  file,       \* the descriptor of the stream it has opened for it
  id,         \* the thread it takes the session for: context->pthread when read
  table,      \* what each descriptor stands for
  stage,      \* how far each session has got
  source,     \* of each session, context->istream: its number, and what it was opened for
  stack,      \* of each session, the descriptors of its file stack, the current last
  sourced,    \* the files each session has sourced
  loading,    \* of each session, the directory it is searching and the XML file it reads
  loaded,     \* the directories and XML files it has opened
  cancelled,  \* the sessions on which pthread_cancel() has been called
  misread     \* whether a context has been read after the session freed it

caller == <<pc, op, child, file, id, misread>>
load == <<loading, loaded>>
vars == <<caller, table, stage, source, stack, sourced, load, cancelled>>

Init ==
  /\ pc = "idle"
  /\ op \in Op
  /\ child = None
  /\ file = None
  /\ id = None
  /\ table = [f \in Fd |-> IF f = Stdin THEN Terminal ELSE None]
  /\ stage = [s \in Session |-> "unused"]
  /\ source = [s \in Session |-> [fd |-> Stdin, is |-> Terminal]]
  /\ stack = [s \in Session |-> <<>>]
  /\ sourced = [s \in Session |-> 0]
  /\ loading = [s \in Session |-> <<>>]
  /\ loaded = [s \in Session |-> 0]
  /\ cancelled = {}
  /\ misread = FALSE
-----------------------------------------------------------------------------
(* Descriptors. *)

Closed == {f \in Fd : table[f] = None}

(* open() gives the lowest number that is free. *)
Lowest(f) == f \in Closed /\ \A g \in Closed : f <= g

(* fclose() closes the number its stream has, whatever that stands for now. *)
Close(fds) == table' = [f \in Fd |-> IF f \in fds THEN None ELSE table[f]]
-----------------------------------------------------------------------------
(* The spawner. *)

InCall == UNCHANGED <<source, stack, sourced, load, cancelled>>

(* The context is allocated and the thread created.  (malloc() is asserted to
   succeed.)  If it cannot be, the context is freed again. *)
_ucli_shell_spawn(s, o, istream) ==
  /\ op' = o /\ child' = s
  /\ \/ /\ stage' = [stage EXCEPT ![s] = "new"]
        /\ pc' = "handle"
     \/ /\ CreateFails
        /\ pc' = IF o = "spawn_from_file" THEN "close" ELSE "idle"
        /\ UNCHANGED stage
  /\ source' = [source EXCEPT ![s] = istream]
  /\ id' = None
  /\ UNCHANGED <<stack, sourced, load, cancelled, misread>>

Unused(s) == pc = "idle" /\ stage[s] = "unused"

(* A session on stdin. *)
SpawnOnStdin(s, o) ==
  /\ Unused(s) /\ o \in Op \ {"spawn_from_file"}
  /\ _ucli_shell_spawn(s, o, [fd |-> Stdin, is |-> Terminal])
  /\ UNCHANGED <<file, table>>

(* A session on a file, which the spawner opens first. *)
ucli_shell_spawn_from_file(s) ==
  /\ Unused(s) /\ "spawn_from_file" \in Op
  /\ \E fd \in Fd : /\ Lowest(fd)
                    /\ table' = [table EXCEPT ![fd] = Input(s)]
                    /\ file' = fd
                    /\ _ucli_shell_spawn(s, "spawn_from_file", [fd |-> fd, is |-> Input(s)])

ContextLive(s) == stage[s] \in {"new", "start", "running", "ending"}

(* The spawner reads context->pthread.  The session may have run to its end and
   freed its context by then: anything may be found there. *)
ReadContext ==
  /\ pc = "handle"
  /\ \/ ContextLive(child) /\ id' = child /\ UNCHANGED misread
     \/ ~ContextLive(child) /\ id' \in Session \cup {None} /\ misread' = TRUE
  /\ pc' = IF op = "spawn" THEN "idle" ELSE "join"
  /\ UNCHANGED <<op, child, file, table, stage>> /\ InCall

(* Mutant: the thread is not waited for. *)
Joined_detached == TRUE

(* The thread taken for the session's is over, or is no thread. *)
Joined == id # None => stage[id] \in {"unused", "exited"}

pthread_join ==
  /\ pc = "join" /\ Joined
  /\ pc' = IF op = "spawn_from_file" THEN "close" ELSE "idle"
  /\ UNCHANGED <<op, child, file, id, table, stage, misread>> /\ InCall

(* The spawner closes its own stream. *)
CloseFile ==
  /\ pc = "close"
  /\ Close({file})
  /\ pc' = "idle" /\ file' = None
  /\ UNCHANGED <<op, child, id, stage, misread>> /\ InCall

(* A client cancels a session it has been given the thread of. *)
pthread_cancel(s) ==
  /\ stage[s] \notin {"unused", "exited"}
  /\ cancelled' = cancelled \cup {s}
  /\ UNCHANGED <<caller, table, stage, source, stack, sourced, load>>
-----------------------------------------------------------------------------
(* A session. *)

Moves(s, from, to) ==
  /\ stage[s] = from
  /\ stage' = [stage EXCEPT ![s] = to]

(* The shell is made; the client may refuse the session, or the thread may be
   cancelled in the client's init_fn. *)
ShellNew(s) ==
  /\ Moves(s, "new", "start") \/ Moves(s, "new", "ending")
  /\ UNCHANGED <<caller, table, source, stack, sourced, load, cancelled>>

(* ucli_shell_load_files searches a directory, and an XML file in it is opened; what
   cannot be opened is passed over. *)
LoadOpens(s) ==
  /\ stage[s] = "start" /\ loaded[s] < MaxLoad /\ Len(loading[s]) < 2
  /\ loaded' = [loaded EXCEPT ![s] = @ + 1]
  /\ \E fd \in Fd :
       /\ Lowest(fd)
       /\ table' = [table EXCEPT ![fd] = IF loading[s] = <<>> THEN Directory(s) ELSE Xml(s)]
       /\ loading' = [loading EXCEPT ![s] = Append(@, fd)]
  /\ UNCHANGED <<caller, stage, source, stack, sourced, cancelled>>

(* The XML file has been read, or the directory has no other. *)
LoadCloses(s) ==
  /\ stage[s] = "start" /\ loading[s] # <<>>
  /\ Close({Last(loading[s])})
  /\ loading' = [loading EXCEPT ![s] = Front(@)]
  /\ UNCHANGED <<caller, stage, source, stack, sourced, loaded, cancelled>>

(* The session's stream is reopened by its number and becomes the bottom of the
   file stack.  fdopen() gives NULL for a number that is closed, and
   tinyrl__set_istream passes that to fileno(). *)
ShellStart(s) ==
  /\ loading[s] = <<>>
  /\ \/ /\ table[source[s].fd] # None
        /\ Moves(s, "start", "running")
        /\ stack' = [stack EXCEPT ![s] = <<source[s].fd>>]
        /\ UNCHANGED pc
     \/ /\ table[source[s].fd] = None
        /\ Moves(s, "start", "exited")
        /\ pc' = "crashed"
        /\ UNCHANGED stack
  /\ UNCHANGED <<op, child, file, id, table, source, sourced, load, cancelled, misread>>

(* A command sources a file. *)
ucli_source(s) ==
  /\ stage[s] = "running" /\ sourced[s] < MaxSource
  /\ sourced' = [sourced EXCEPT ![s] = @ + 1]
  /\ \E fd \in Fd : /\ Lowest(fd)
                    /\ table' = [table EXCEPT ![fd] = Script(s)]
                    /\ stack' = [stack EXCEPT ![s] = Append(@, fd)]
  /\ UNCHANGED <<caller, stage, source, load, cancelled>>

(* The session ends with its last file. *)
AfterPop(s) == IF Len(stack[s]) = 1 THEN "ending" ELSE "running"

(* Mutant: the file at the bottom is closed. *)
Popped_bottom(s) == Head(stack[s])

Popped(s) == Last(stack[s])

(* Mutant: at the end of its last file the session waits for more. *)
ucli_shell_pop_file_nested(s) ==
  /\ stage[s] = "running" /\ Len(stack[s]) > 1
  /\ Close({Popped(s)})
  /\ stack' = [stack EXCEPT ![s] = Front(@)]
  /\ UNCHANGED <<caller, stage, source, sourced, load, cancelled>>

(* The current file is at its end, and is closed. *)
ucli_shell_pop_file(s) ==
  /\ stage[s] = "running"
  /\ Close({Popped(s)})
  /\ stack' = [stack EXCEPT ![s] = Front(@)]
  /\ stage' = [stage EXCEPT ![s] = AfterPop(s)]
  /\ UNCHANGED <<caller, source, sourced, load, cancelled>>

(* Mutant: a session that reads its input takes no notice of a cancellation. *)
SessionEnds_unheard(s) ==
  /\ s \notin cancelled
  /\ Moves(s, "running", "ending")
  /\ UNCHANGED <<caller, table, source, stack, sourced, load, cancelled>>

(* The session closes, or is cancelled; a directory and a file that it was reading
   while it started then stay open. *)
SessionEnds(s) ==
  /\ Moves(s, "running", "ending") \/ (s \in cancelled /\ Moves(s, "start", "ending"))
  /\ UNCHANGED <<caller, table, source, stack, sourced, load, cancelled>>

(* Mutant: the files still on the stack stay open. *)
Releases_none(s) == {}

(* The streams that are closed with the shell. *)
Releases(s) == ToSet(stack[s])

(* The shell and everything on its file stack are released, and the context last. *)
ucli_shell_cleanup(s) ==
  /\ Moves(s, "ending", "freed")
  /\ Close(Releases(s))
  /\ stack' = [stack EXCEPT ![s] = <<>>]
  /\ UNCHANGED <<caller, source, sourced, load, cancelled>>

ThreadExits(s) ==
  /\ Moves(s, "freed", "exited")
  /\ UNCHANGED <<caller, table, source, stack, sourced, load, cancelled>>

Spawner == ReadContext \/ pthread_join \/ CloseFile

(* What a session does whether or not a user types anything. *)
Thread(s) ==
  \/ ShellNew(s) \/ LoadOpens(s) \/ LoadCloses(s) \/ ShellStart(s)
  \/ ucli_shell_cleanup(s) \/ ThreadExits(s)
  \/ s \in cancelled /\ SessionEnds(s)

(* It is at the end of a file that is no terminal. *)
ScriptEnds(s) == source[s].is # Terminal /\ ucli_shell_pop_file(s)

Next ==
  /\ pc # "crashed"
  /\ \/ Spawner
     \/ \E s \in Session :
          \/ \E o \in Op : SpawnOnStdin(s, o)
          \/ ucli_shell_spawn_from_file(s)
          \/ pthread_cancel(s)
          \/ Thread(s) \/ ucli_source(s) \/ ucli_shell_pop_file(s) \/ SessionEnds(s)

(* Threads are scheduled and files end; a user need not leave a session. *)
Fairness ==
  /\ WF_vars(pc # "crashed" /\ Spawner)
  /\ \A s \in Session : WF_vars(pc # "crashed" /\ Thread(s)) /\ WF_vars(pc # "crashed" /\ ScriptEnds(s))

Spec == Init /\ [][Next]_vars /\ Fairness
-----------------------------------------------------------------------------
(* Properties. *)

(* As long as no context has been read too late, the files a session has sourced
   stay its own until it closes them: no other thread's fclose() takes the descriptor
   away, and no other file is read in its place.  (ucli_source_internal: "This will be closed by ucli_shell_pop_file()
   when it is finished with.") *)
ScriptsStayOpen ==
  ~misread =>
    \A s \in Session : \A i \in DOMAIN stack[s] : i > 1 => table[stack[s][i]] = Script(s)

(* Likewise for the file a session was spawned from. *)
InputStaysOpen ==
  ~misread => \A s \in Session :
    stack[s] # <<>> /\ source[s].is = Input(s) => table[stack[s][1]] = Input(s)

(* Every file on a session's stack stays its own: both of the above. *)
FilesStayOpen == ScriptsStayOpen /\ InputStaysOpen

(* When ucli_shell_spawn_from_file closes its stream, and when a call that waits
   has returned, the session is over, unless a context has been read too late. *)
WaitsForSession ==
  ~misread /\ (pc = "close" \/ (pc = "idle" /\ op # "spawn" /\ child # None))
    => stage[child] \in {"unused", "exited"}

(* When no session is left and no call is under way, each file opened, by the spawner
   or a session, refused, cancelled or ended, has been closed; only a session that was
   cancelled while it started may have left the directory and the XML file open that it
   was reading, for which there is no cancellation handler. *)
NothingLeftOpen ==
  pc = "idle" /\ (\A s \in Session : stage[s] \in {"unused", "exited"})
    => \A f \in Fd : \/ table[f] \in {None, Terminal}
                    \/ \E s \in cancelled : /\ table[f] \in {Directory(s), Xml(s)}
                                           /\ f \in ToSet(loading[s])

(* A call of ucli_shell_spawn_from_file returns, whatever its script sources; what
   pthread_join() does with a thread taken for it from freed memory is not said. *)
FileCallReturns == (pc # "idle" /\ op = "spawn_from_file") ~> (pc = "idle" \/ misread)

(* A session that is cancelled exits, whether or not its spawner has gone on, or the
   process ends before it does. *)
CancelledExits == \A s \in Session : s \in cancelled ~> (stage[s] = "exited" \/ pc = "crashed")
=============================================================================
