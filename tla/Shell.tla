------------------------------- MODULE Shell -------------------------------
(***************************************************************************)
(* One CLI session: the thread ucli_shell_thread (shell_spawn.c) from the  *)
(* creation of the shell object to its clean-up, with the stack of input   *)
(* files it reads commands from (shell_push_file.c, shell_pop_file.c), the *)
(* reading of one command line (shell_tinyrl.c, tinyrl.c), the execution   *)
(* of a command (shell_execute.c), the shell's state (private.h) and its   *)
(* cancellation by another thread at any moment.                           *)
(*                                                                         *)
(* The text of lines, prompts, scripts and files is abstracted: a line is  *)
(* what parsing it yields.  Line editing and history have modules of their *)
(* own.                                                                    *)
(***************************************************************************)
EXTENDS Naturals, Sequences, FiniteSets, SequencesExt

CONSTANTS
  File,          \* the stdio streams the process can have open besides Session
  Session,       \* the stream the session was spawned with, owned by the spawner
  Tty,           \* those streams for which isatty() holds
  View,          \* the views loaded from the XML files
  Command,       \* the commands loaded from the XML files
  StartupCommand,\* the STARTUP element of the XML files
  None,          \* a NULL pointer
  MaxLines,      \* bound: the lines a script holds
  AllocFails,    \* whether malloc() may fail in ucli_shell_push_file
  Path           \* the directories of CLISH_PATH: how many XML files each has

(* What the ACTION element of a command asks for. *)
Act == {"close", "source", "source_nostop", "builtin", "script", "none"}

ASSUME ConstantAssumption ==
  /\ Session \notin File
  /\ None \notin View \cup Command \cup {StartupCommand}
  /\ Command \subseteq [act : Act, view : View \cup {None}]
  /\ StartupCommand \in [act : Act, view : View]
  /\ MaxLines \in Nat
  /\ AllocFails \in BOOLEAN
  /\ Path \in Seq(Nat)

ShellState == {"INITIALISING", "READY", "HELPING", "SCRIPT_ERROR", "CLOSING"}

(* Where the thread stands in ucli_shell_thread and the calls it makes. *)
Location == {"new", "init", "load", "startup", "test", "loop", "readline",
             "reading", "entered", "execute", "builtin", "script", "returned",
             "unwind", "ending", "cleanup", "done", "crashed"}

(* What the thread alone can release.  Its context refers to the shell object, a
   prompt and the arguments of a command ("pargv"); a cancellation handler to the
   text of a script.  The others are known to the running functions alone: a
   shell that ucli_shell_new has yet to return; the path being searched, an open
   directory, the name of a file in it, and that file; the matches, texts or
   arguments that a key's handler works on; a line and its arguments, before they
   are handed to the loop; the words a built-in command is called with. *)
Resource == {"shell", "prompt", "pargv", "script", "new_shell", "path", "dir", "filename", "xml",
             "editing", "line", "line_pargv", "argv"}

(* A ucli_shell_file_t.  "fate" is a history field: whether the file is still
   to be read, has been read to its end, or was stopped by an error in it. *)
Node == [file : File, stop : BOOLEAN, fate : {"live", "eof", "error"}]

VARIABLES
  pc,        \* the thread's location
  state,     \* shell->state
  running,   \* the thread's loop variable
  boot,      \* the startup command has not been executed yet
  files,     \* shell->current_file and its next links, the current file last
  istream,   \* the terminal's input stream
  open,      \* the streams opened by the session and not closed
  left,      \* the lines still to be read from each stream
  raw,       \* the terminal is in raw mode
  held,      \* the objects in existence
  cmd,       \* the command found for the line (context.command)
  ok,        \* what the command's action returned
  view,      \* shell->view
  hook,      \* the client hook called last
  cancelled, \* pthread_cancel() has been called on the thread
  dirs,      \* the directories still to be searched: the XML files left in each
  at         \* history: where the thread has acted on a cancellation

vars == <<pc, state, running, boot, files, istream, open, left, raw, held, cmd,
          ok, view, hook, cancelled, dirs, at>>

isatty == istream \in Tty

Init ==
  /\ pc = "new"
  /\ state = "INITIALISING"
  /\ running = TRUE
  /\ boot = TRUE
  /\ files = <<>>
  /\ istream = Session
  /\ open = {}
  /\ left = [f \in File \cup {Session} |-> IF f = Session THEN MaxLines ELSE 0]
  /\ raw = FALSE
  /\ held = {}
  /\ cmd = None
  /\ ok = FALSE
  /\ view = None
  /\ hook = "none"
  /\ cancelled = FALSE
  /\ dirs = Path
  /\ at = "none"
-----------------------------------------------------------------------------
(* The stack of input files. *)

(* fopen() or fdopen() yields a stream that is not in use, at its first line. *)
OpenStream(f) ==
  /\ f \in File \ open
  /\ open' = open \cup {f}
  /\ left' = [left EXCEPT ![f] = MaxLines]

(* Mutant: the new node is not linked to the one below it. *)
ucli_shell_push_file_unlinked(f, stop_on_error) ==
  /\ files' = <<[file |-> f, stop |-> stop_on_error, fate |-> "live"]>>
  /\ istream' = f

(* Put f on the stack and read from it.  If no node can be allocated the
   function still returns BOOL_TRUE, without having done anything. *)
ucli_shell_push_file(f, stop_on_error) ==
  \/ /\ files' = Append(files, [file |-> f, stop |-> stop_on_error, fate |-> "live"])
     /\ istream' = f
  \/ AllocFails /\ UNCHANGED <<files, istream>>

(* Mutant: the terminal's input stream is not switched. *)
ucli_shell_pop_file_unswitched ==
  /\ files' = IF files = <<>> THEN files ELSE Front(files)
  /\ running' = (files' # <<>>)
  /\ open' = open \ {n.file : n \in ToSet(files) \ ToSet(files')}
  /\ UNCHANGED istream

(* Mutant: the function always returns BOOL_TRUE. *)
ucli_shell_pop_file_true ==
  /\ files' = IF files = <<>> THEN files ELSE Front(files)
  /\ running' = TRUE
  /\ istream' = IF files' = <<>> THEN istream ELSE Last(files').file
  /\ open' = open \ {n.file : n \in ToSet(files) \ ToSet(files')}

(* Close the current file and go back to the one below it, if there is one:
   that is also what the function returns, and the loop goes on with. *)
ucli_shell_pop_file ==
  \/ /\ files = <<>>
     /\ running' = FALSE
     /\ UNCHANGED <<files, istream, open>>
  \/ /\ files # <<>>
     /\ files' = Front(files)
     /\ open' = open \ {Last(files).file}
     /\ running' = (files' # <<>>)
     /\ istream' = IF files' = <<>> THEN istream ELSE Last(files').file

(* History: what became of the current file. *)
Fate(fate) == IF files = <<>> THEN files ELSE [files EXCEPT ![Len(files)].fate = fate]
-----------------------------------------------------------------------------
(* Creation and start. *)

(* ucli_shell_new: the shell is made and the client's init_fn called, ... *)
ShellNew ==
  /\ pc = "new"
  /\ held' = held \cup {"new_shell"}
  /\ hook' = "init"
  /\ pc' = "init"
  /\ UNCHANGED <<state, running, boot, files, istream, open, left, raw, cmd, ok, view, cancelled,
                 dirs, at>>

(* ... which may refuse the session.  Only then does the context get the shell. *)
InitReturns ==
  /\ pc = "init"
  /\ \/ held' = {"shell", "path"} /\ pc' = "load" /\ UNCHANGED state
     \/ held' = {"shell"} /\ pc' = "ending" /\ state' = "CLOSING"
  /\ UNCHANGED <<running, boot, files, istream, open, left, raw, cmd, ok, view, hook, cancelled,
                 dirs, at>>

(* ucli_shell_load_files, for each directory of the path: it is opened, or it is
   not there; ... *)
Opendir ==
  /\ "dir" \notin held
  /\ \/ held' = held \cup {"dir"} /\ UNCHANGED dirs
     \/ dirs' = Tail(dirs) /\ UNCHANGED held

(* ... the name of an XML file in it is put together and the file is opened, unless
   it cannot be; ... *)
XmlReadStarts ==
  /\ "dir" \in held /\ "filename" \notin held /\ Head(dirs) > 0
  /\ held' = held \cup {"filename"} \/ held' = held \cup {"filename", "xml"}
  /\ dirs' = [dirs EXCEPT ![1] = @ - 1]

(* ... it has been read; ... *)
XmlReadReturns ==
  /\ "filename" \in held
  /\ held' = held \ {"filename", "xml"}
  /\ UNCHANGED dirs

(* ... and there is no other in this directory. *)
Closedir ==
  /\ "dir" \in held /\ "filename" \notin held /\ Head(dirs) = 0
  /\ held' = held \ {"dir"}
  /\ dirs' = Tail(dirs)

LoadFiles ==
  /\ pc = "load" /\ dirs # <<>>
  /\ Opendir \/ XmlReadStarts \/ XmlReadReturns \/ Closedir
  /\ UNCHANGED <<pc, state, running, boot, files, istream, open, left, raw, cmd, ok, view, hook,
                 cancelled, at>>

(* The session's own stream, reopened, is put at the bottom of the stack. *)
LoadAndPush ==
  /\ pc = "load" /\ dirs = <<>>
  /\ \E f \in File : /\ (f \in Tty) = (Session \in Tty)
                     /\ OpenStream(f)
                     /\ ucli_shell_push_file(f, TRUE)
  /\ held' = held \ {"path"}
  /\ pc' = "startup"
  /\ UNCHANGED <<state, running, boot, raw, cmd, ok, view, hook, cancelled, dirs, at>>

(* ucli_shell_startup executes the startup command, with no arguments. *)
ucli_shell_startup ==
  /\ pc = "startup"
  /\ cmd' = StartupCommand
  /\ pc' = "execute"
  /\ UNCHANGED <<state, running, boot, files, istream, open, left, raw, held, ok, view, hook,
                 cancelled, dirs, at>>
-----------------------------------------------------------------------------
(* Mutant: any input starts afresh after an error. *)
StartsAfresh_any == state = "SCRIPT_ERROR"

(* The test at the top of the loop: an error in a script is forgotten once a
   terminal is reached. *)
StartsAfresh == state = "SCRIPT_ERROR" /\ isatty

(* The top of the loop: the next line is prompted for, unless an error in a
   script stands. *)
LoopTop ==
  /\ pc = "loop"
  /\ \/ /\ state = "SCRIPT_ERROR" /\ ~StartsAfresh
        /\ pc' = "unwind"
        /\ UNCHANGED <<state, held>>
     \/ /\ state # "SCRIPT_ERROR" \/ StartsAfresh
        /\ state' = IF StartsAfresh THEN "READY" ELSE state
        /\ held' = held \cup {"prompt"}
        /\ pc' = "readline"
  /\ UNCHANGED <<running, boot, files, istream, open, left, raw, cmd, ok, view, hook, cancelled, dirs, at>>

(* ucli_shell_readline reads nothing in a session that is closing. *)
Refused == state = "CLOSING"

ReadlineRefused ==
  /\ pc = "readline" /\ Refused
  /\ running' = FALSE
  /\ held' = held \ {"prompt"}
  /\ pc' = "unwind"
  /\ UNCHANGED <<state, boot, files, istream, open, left, raw, cmd, ok, view, hook, cancelled, dirs, at>>

(* Otherwise it calls tinyrl_readline, which puts a terminal in raw mode. *)
ReadlineStarts ==
  /\ pc = "readline" /\ ~Refused
  /\ state' = "READY"
  /\ cmd' = None
  /\ raw' = isatty
  /\ pc' = "reading"
  /\ UNCHANGED <<running, boot, files, istream, open, left, held, ok, view, hook, cancelled, dirs, at>>

(* Mutant: the terminal's mode is not restored. *)
LineRead_raw(c, parsed) ==
  /\ cmd' = c
  /\ held' = held \cup {"line"} \cup (IF parsed THEN {"line_pargv"} ELSE {})
  /\ pc' = "entered"
  /\ UNCHANGED <<files, running, raw>>

(* A line has been read that hands c, and its arguments if parsed, to the loop. *)
LineRead(c, parsed) ==
  /\ cmd' = c
  /\ held' = held \cup {"line"} \cup (IF parsed THEN {"line_pargv"} ELSE {})
  /\ raw' = FALSE
  /\ pc' = "entered"
  /\ UNCHANGED <<files, running>>

(* tinyrl_readline has returned NULL: the loop stops and the prompt is freed. *)
NoLine(fate) ==
  /\ files' = Fate(fate)
  /\ running' = FALSE
  /\ held' = held \ {"prompt"}
  /\ raw' = FALSE
  /\ pc' = "unwind"
  /\ UNCHANGED cmd

Reading == pc = "reading" /\ UNCHANGED <<boot, istream, open, ok, view, hook, cancelled, dirs, at>>

(* The stream is at its end, or the terminal has hung up. *)
EndOfInput == Reading /\ NoLine("eof") /\ UNCHANGED <<state, left>>

(* '?': help on the line, with more detail when pressed again. *)
ucli_shell_help ==
  /\ Reading /\ isatty
  /\ state' = IF state = "HELPING" THEN "READY" ELSE "HELPING"
  /\ UNCHANGED <<pc, running, files, left, raw, held, cmd>>

(* Space, TAB, or RETURN on a line that is no command: completion is tried,
   and help is given when nothing matches. *)
KeyComplete ==
  /\ Reading /\ isatty
  /\ state' \in {"READY", "HELPING"}
  /\ UNCHANGED <<pc, running, files, left, raw, held, cmd>>

(* RETURN on a terminal, with a command whose arguments are wrong: the command
   is remembered, no arguments are, and editing continues. *)
KeyEnterBadParam(c) ==
  /\ Reading /\ isatty
  /\ cmd' = c
  /\ state' \in {state, "READY"}
  /\ UNCHANGED <<pc, running, files, left, raw, held>>

(* RETURN on a terminal, with a valid command line. *)
KeyEnterOk(c) ==
  /\ Reading /\ isatty
  /\ LineRead(c, TRUE)
  /\ state' \in {state, "READY"}
  /\ UNCHANGED left

(* ^C: the line is emptied and handed over, with whatever command an earlier
   RETURN on this line had found. *)
tinyrl_key_interrupt ==
  Reading /\ isatty /\ LineRead(cmd, FALSE) /\ UNCHANGED <<state, left>>

(* Mutant: the end of the file is not seen. *)
NextLine_no_eof ==
  /\ Reading /\ ~isatty
  /\ left' = [left EXCEPT ![istream] = @ - 1]

(* The next line of a stream that is no terminal. *)
NextLine ==
  /\ Reading /\ ~isatty
  /\ left[istream] > 0
  /\ left' = [left EXCEPT ![istream] = @ - 1]

(* It is a valid command line. *)
ScriptLine(c) == NextLine /\ LineRead(c, TRUE) /\ UNCHANGED state

(* It is empty, or begins a command without being one: nothing to execute. *)
ScriptBlank == NextLine /\ LineRead(None, FALSE) /\ UNCHANGED state

(* It is no command, is ambiguous or has wrong arguments. *)
ScriptBad == NextLine /\ NoLine("error") /\ state' = "SCRIPT_ERROR"

(* Mutant: the arguments are not tested. *)
Executable_any == cmd # None

(* What the loop tests before it executes a line. *)
Executable == cmd # None /\ "line_pargv" \in held

(* The client is told of the line, whose text is then freed with the prompt;
   a command is executed if there are arguments to execute it with. *)
CmdLineHook ==
  /\ pc = "entered"
  /\ hook' = "cmd_line"
  /\ held' = (held \ {"prompt", "line", "line_pargv"})
               \cup (IF "line_pargv" \in held THEN {"pargv"} ELSE {})
  /\ pc' = IF Executable THEN "execute" ELSE "unwind"
  /\ UNCHANGED <<state, running, boot, files, istream, open, left, raw, cmd, ok, view, cancelled, dirs, at>>
-----------------------------------------------------------------------------
(* ucli_shell_execute: the built-in command or the script of the command. *)

Acts(acts) == cmd.act \in acts
              /\ UNCHANGED <<running, boot, raw, cmd, view, cancelled, dirs, at>>

Returns(result) == ok' = result /\ pc' = "returned"

SourceActs == {"source", "source_nostop"}

(* A built-in command, one of the shell's own or of the client's, is called with
   the words of the command's text.  One that sources a file must have some: with
   none it would read the name through a NULL pointer. *)
BuiltinStarts ==
  /\ pc = "execute" /\ Acts({"close", "builtin"} \cup SourceActs)
  /\ \/ held' = held \cup {"script", "argv"}
     \/ cmd.act \notin SourceActs /\ UNCHANGED held
  /\ pc' = "builtin"
  /\ UNCHANGED <<state, files, istream, open, left, ok, hook>>

(* It returns, and the words and the text are freed. *)
BuiltinReturns(acts, result) ==
  /\ pc = "builtin" /\ Acts(acts) /\ Returns(result)
  /\ held' = held \ {"script", "argv"}
  /\ UNCHANGED hook

ucli_close ==
  /\ BuiltinReturns({"close"}, TRUE)
  /\ state' = "CLOSING"
  /\ UNCHANGED <<files, istream, open, left>>

(* ucli_source and ucli_source_nostop: the file cannot be opened, ... *)
SourceFails ==
  /\ BuiltinReturns(SourceActs, FALSE)
  /\ UNCHANGED <<state, files, istream, open, left>>

(* ... or it can, and goes on top of the stack. *)
ucli_source_internal(f) ==
  /\ BuiltinReturns(SourceActs, TRUE)
  /\ OpenStream(f)
  /\ ucli_shell_push_file(f, cmd.act = "source")
  /\ UNCHANGED state

(* The other built-in commands, the client's and unknown ones included. *)
Builtin ==
  /\ \E result \in BOOLEAN : BuiltinReturns({"builtin"}, result)
  /\ UNCHANGED <<state, files, istream, open, left>>

(* A command with nothing to do but to change the view. *)
NoAction ==
  /\ pc = "execute" /\ Acts({"none"}) /\ Returns(TRUE)
  /\ UNCHANGED <<state, files, istream, open, left, held, hook>>

(* The client's script_fn is called, ... *)
ScriptStarts ==
  /\ pc = "execute" /\ Acts({"script"})
  /\ hook' = "script"
  /\ held' = held \cup {"script"}
  /\ pc' = "script"
  /\ UNCHANGED <<state, files, istream, open, left, ok>>

(* ... and returns. *)
ScriptReturns ==
  /\ pc = "script"
  /\ held' = held \ {"script"}
  /\ Returns(TRUE) \/ Returns(FALSE)
  /\ UNCHANGED <<state, running, boot, files, istream, open, left, raw, cmd, view, hook, cancelled, dirs, at>>

(* A command that succeeded moves the session to its view. *)
MoveView == view' = IF ok /\ cmd.view # None THEN cmd.view ELSE view

StartupReturns ==
  /\ pc = "returned" /\ boot
  /\ MoveView
  /\ running' = ok
  /\ boot' = FALSE
  /\ pc' = "test"
  /\ UNCHANGED <<state, files, istream, open, left, raw, held, cmd, ok, hook, cancelled, dirs, at>>

CommandSucceeds ==
  /\ pc = "returned" /\ ~boot /\ ok
  /\ MoveView
  /\ held' = held \ {"pargv"}
  /\ pc' = "unwind"
  /\ UNCHANGED <<state, running, boot, files, istream, open, left, raw, cmd, ok, hook, cancelled, dirs, at>>

(* Mutant: a terminal is stopped too. *)
StopsOnError_tty == Last(files).stop

(* What an error does to the current file depends on its flag and on whether
   it is a terminal. *)
StopsOnError == Last(files).stop /\ ~isatty

(* A command has failed; with no file on the stack a NULL pointer is
   dereferenced. *)
CommandFails ==
  /\ pc = "returned" /\ ~boot /\ ~ok
  /\ held' = held \ {"pargv"}
  /\ \/ /\ files = <<>>
        /\ pc' = "crashed"
        /\ UNCHANGED <<state, files>>
     \/ /\ files # <<>> /\ StopsOnError
        /\ state' = "SCRIPT_ERROR"
        /\ files' = Fate("error")
        /\ pc' = "unwind"
     \/ /\ files # <<>> /\ ~StopsOnError
        /\ pc' = "unwind"
        /\ UNCHANGED <<state, files>>
  /\ UNCHANGED <<running, boot, istream, open, left, raw, cmd, ok, view, hook, cancelled, dirs, at>>
-----------------------------------------------------------------------------
(* The bottom of the loop. *)

(* Mutant: an error does not unwind the stack. *)
Unwinds_eof == ~running

(* At the end of a file, or after an error in a script, its parent is next. *)
Unwinds == ~running \/ state = "SCRIPT_ERROR"

Unwind ==
  /\ pc = "unwind"
  /\ IF Unwinds
     THEN ucli_shell_pop_file
     ELSE UNCHANGED <<files, istream, open, running>>
  /\ pc' = "test"
  /\ UNCHANGED <<state, boot, left, raw, held, cmd, ok, view, hook, cancelled, dirs, at>>

(* The loop ends, or begins again; unless the thread has been cancelled. *)
pthread_testcancel ==
  /\ pc = "test"
  /\ \/ cancelled /\ pc' = "cleanup" /\ at' = "test"
     \/ ~cancelled /\ pc' = (IF running THEN "loop" ELSE "ending") /\ UNCHANGED at
  /\ UNCHANGED <<state, running, boot, files, istream, open, left, raw, held, cmd, ok, view, hook,
                 cancelled, dirs>>

(* The other places where the thread acts on a cancellation: while it runs the
   client's code, reads the XML files, prints, or waits for input. *)
CancellationPoint ==
  \/ pc \in {"init", "load", "startup", "reading", "entered", "script"}
  \/ pc = "builtin" /\ cmd.act # "close"
  \/ pc = "returned" /\ ~boot /\ ~ok

(* The handler of ucli_shell_execute frees the script.  A line that is being read
   may be waited for, or one of its keys may be printing something. *)
CancelPoint ==
  /\ cancelled
  /\ CancellationPoint
  /\ \/ held' = held \ {"script"} /\ at' = pc
     \/ pc = "reading" /\ held' = held \cup {"editing"} /\ at' = "editing"
  /\ pc' = "cleanup"
  /\ UNCHANGED <<state, running, boot, files, istream, open, left, raw, cmd, ok, view, hook, cancelled,
                 dirs>>

(* Mutant: the prompt is forgotten. *)
Released_no_prompt == {"shell", "pargv"}

(* What ucli_shell_cleanup frees: the shell and what its context refers to. *)
Released == {"shell", "pargv", "prompt"}

(* ucli_shell_cleanup, after the loop or on a cancellation: if the context has a
   shell, the client's fini_fn, then every file on the stack is closed; and the
   objects of the context are freed. *)
ucli_shell_cleanup ==
  /\ pc \in {"ending", "cleanup"}
  /\ hook' = IF "shell" \in held THEN "fini" ELSE hook
  /\ open' = open \ {n.file : n \in ToSet(files)}
  /\ istream' = IF files = <<>> THEN istream ELSE files[1].file
  /\ files' = <<>>
  /\ held' = held \ Released
  /\ pc' = "done"
  /\ UNCHANGED <<state, running, boot, left, raw, cmd, ok, view, cancelled, dirs, at>>

(* After the loop the clean-up is no longer registered as a handler: a
   cancellation in the fini_fn ends it there. *)
FiniCancelled ==
  /\ pc = "ending" /\ cancelled
  /\ hook' = "fini"
  /\ pc' = "done" /\ at' = "ending"
  /\ UNCHANGED <<state, running, boot, files, istream, open, left, raw, held, cmd, ok, view,
                 cancelled, dirs>>

(* Another thread cancels the session: at most once matters. *)
pthread_cancel ==
  /\ pc \notin {"done", "crashed"} /\ ~cancelled
  /\ cancelled' = TRUE
  /\ UNCHANGED <<pc, state, running, boot, files, istream, open, left, raw, held, cmd, ok, view, hook,
                 dirs, at>>

(* Nothing happens once the thread is gone. *)
Ended == pc \in {"done", "crashed"} /\ UNCHANGED vars
-----------------------------------------------------------------------------
(* What a user at a terminal does. *)
User ==
  \/ ucli_shell_help \/ KeyComplete \/ tinyrl_key_interrupt
  \/ \E c \in Command : KeyEnterBadParam(c) \/ KeyEnterOk(c)

(* A line, or the end, of a file that is no terminal. *)
ReadScript == ScriptBlank \/ ScriptBad \/ \E c \in Command : ScriptLine(c)

Execute ==
  \/ BuiltinStarts \/ ucli_close \/ SourceFails \/ Builtin \/ NoAction \/ ScriptStarts
  \/ \E f \in File : ucli_source_internal(f)

(* What the thread does by itself. *)
Thread ==
  \/ ShellNew \/ InitReturns \/ LoadFiles \/ LoadAndPush \/ ucli_shell_startup
  \/ LoopTop \/ ReadlineRefused \/ ReadlineStarts \/ CmdLineHook
  \/ Execute \/ ScriptReturns \/ StartupReturns \/ CommandSucceeds \/ CommandFails
  \/ Unwind \/ pthread_testcancel \/ CancelPoint
  \/ ucli_shell_cleanup \/ FiniCancelled

Next == Thread \/ ReadScript \/ EndOfInput \/ User \/ pthread_cancel \/ Ended

(* The thread is scheduled, client code returns and a file can be read to its
   end; a user need not type anything, and nobody need cancel the thread. *)
Fairness == /\ WF_vars(Thread)
            /\ WF_vars(~isatty /\ (ReadScript \/ EndOfInput))

Spec == Init /\ [][Next]_vars /\ Fairness
-----------------------------------------------------------------------------
(* Properties. *)

StackFiles == {n.file : n \in ToSet(files)}

(* Every variable has its type. *)
TypeOK ==
  /\ pc \in Location
  /\ state \in ShellState
  /\ running \in BOOLEAN /\ boot \in BOOLEAN /\ raw \in BOOLEAN
  /\ ok \in BOOLEAN /\ cancelled \in BOOLEAN
  /\ files \in Seq(Node)
  /\ istream \in File \cup {Session}
  /\ open \subseteq File
  /\ left \in [File \cup {Session} -> 0 .. MaxLines]
  /\ held \subseteq Resource
  /\ cmd \in Command \cup {StartupCommand, None}
  /\ view \in View \cup {None}
  /\ hook \in {"none", "init", "cmd_line", "script", "fini"}
  /\ dirs \in Seq(Nat)
  /\ at \in Location \cup {"editing", "none"}

(* The streams the session has open are exactly those on its file stack, each
   there once, so that each is closed once: ucli_source_internal's comment,
   "This will be closed by ucli_shell_pop_file() when it is finished with". *)
OpenFilesOwned ==
  /\ open = StackFiles
  /\ \A i, j \in DOMAIN files : files[i].file = files[j].file => i = j

(* Input comes from the current file: after every source, end of file, error
   and clean-up the terminal reads from the top of the stack, and never from a
   stream that has been closed. *)
InputIsCurrentFile ==
  /\ files # <<>> => istream = Last(files).file
  /\ pc = "reading" => files # <<>> /\ istream \in open

(* A file that has ended, or in which an error has stopped the session, is never
   read again, whatever the state was set to in between by help, completion,
   the start of a new line or a return to a parent file. *)
NoReadAfterEnd == pc = "reading" /\ files # <<>> => Last(files).fate = "live"

(* The stack of input files is sound: the three together. *)
InputStack == OpenFilesOwned /\ InputIsCurrentFile /\ NoReadAfterEnd

(* Outside a line of input the terminal is as the user left it, so that what a
   script launches finds it that way; only a cancellation while a line is being
   read leaves it raw. *)
RawOnlyWhileReading ==
  raw => \/ pc = "reading"
         \/ at \in {"reading", "editing"} /\ pc \in {"cleanup", "done"}

(* The client is asked to run a typed command only with arguments that have been
   parsed, even after RETURN on a wrong line followed by ^C. *)
OnlyParsedCommandsRun ==
  pc \in {"execute", "builtin", "script"} /\ ~boot => "pargv" \in held /\ cmd \in Command

(* What has no cancellation handler at the place where a session was cancelled. *)
Lost == CASE at = "init"    -> {"new_shell"}
          [] at = "load"    -> {"path", "dir", "filename", "xml"}
          [] at = "editing" -> {"editing"}
          [] at = "entered" -> {"line", "line_pargv"}
          [] at = "builtin" -> {"argv"}
          [] at = "ending"  -> {"shell"}
          [] OTHER          -> {}

(* A session that ends by itself leaves nothing behind, nor does one cancelled while
   it waits for input, runs a script or is between two lines.  Cancelled elsewhere
   it loses what the functions running there had in hand, and nothing else; its
   streams stay open only if that happens in the client's fini_fn.  ("The context
   structure is used to simplify the cleanup of a CLI session when a thread is
   cancelled.") *)
NothingLeft ==
  pc = "done" => /\ held \subseteq Lost
                 /\ at # "ending" => open = {}

(* ucli_close is final: no error, help or completion reopens the session. *)
ClosingIsFinal == [][state = "CLOSING" => state' = "CLOSING"]_vars

Popped == pc = "unwind" /\ Len(files') < Len(files)

(* Before clean-up, a file is left for one of three reasons: it has ended, the
   session is closing, or an error in a script is unwinding it; and an error
   never unwinds a terminal ("This doesn't terminate an interactive session"). *)
FilesLeftForAReason ==
  [][Popped => \/ Last(files).fate = "eof"
               \/ state = "CLOSING"
               \/ state = "SCRIPT_ERROR" /\ Last(files).file \notin Tty]_vars

(* An error that stops a script stops its parents too: until a terminal is
   reached, no line is read and nothing is executed ("when an error occurs in a
   script, execution is terminated in any parent scripts"). *)
ErrorStopsParents ==
  [][state = "SCRIPT_ERROR" /\ ~isatty
       => pc' \notin {"readline", "reading", "execute", "startup"}
          /\ (state' = state \/ state' = "SCRIPT_ERROR")]_vars

(* A closing session ends: the remaining files are closed without being read; and a
   cancelled session ends, even while it waits for a user. *)
SessionEnds == /\ state = "CLOSING" ~> pc = "done"
               /\ cancelled ~> pc = "done"

(* A session on a file that is no terminal ends by itself, whatever its scripts
   source, if none of the files they open is a terminal; where files have failed to
   be put on the stack it may also end with the process. *)
ScriptSessionEnds ==
  Tty = {} => <>(pc = "done" \/ (AllocFails /\ pc = "crashed"))

(* The session implements its abstract specification. *)
phase == CASE pc = "done"                      -> "ended"
           [] pc # "done" /\ state = "CLOSING" -> "closing"
           [] boot /\ files = <<>> /\ pc # "done" /\ state # "CLOSING" -> "starting"
           [] OTHER                            -> "open"

Abstract == INSTANCE Session WITH src <- [i \in DOMAIN files |-> files[i].file]

ImplementsSession == Abstract!SSpec
=============================================================================
