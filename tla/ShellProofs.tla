---------------------------- MODULE ShellProofs ----------------------------
(***************************************************************************)
(* Theorems about Shell, for every set of files, commands and views and    *)
(* for scripts of every length; the last ones that it implements Session.  *)
(***************************************************************************)
EXTENDS Shell, SequenceTheorems, TLAPS

-----------------------------------------------------------------------------
(* The three things a session does to its stack: push a node, pop one and mark
   the top one. *)

LEMMA PushNode ==
  ASSUME NEW s \in Seq(Node), NEW n \in Node
  PROVE  /\ Append(s, n) \in Seq(Node)
         /\ Len(Append(s, n)) = Len(s) + 1
         /\ Append(s, n)[Len(s) + 1] = n
         /\ \A i \in 1 .. Len(s) : Append(s, n)[i] = s[i]
PROOF OBVIOUS

LEMMA PopNode ==
  ASSUME NEW s \in Seq(Node), s # <<>>
  PROVE  /\ Front(s) \in Seq(Node)
         /\ Len(Front(s)) = Len(s) - 1
         /\ \A i \in 1 .. Len(s) - 1 : Front(s)[i] = s[i]
  <1>1. Len(s) \in Nat \ {0}
    BY EmptySeq
  <1>2. \A i \in 1 .. Len(s) - 1 : s[i] \in Node
    BY <1>1, ElementOfSeq
  <1>3. Front(s) = SubSeq(s, 1, Len(s) - 1)
    BY DEF Front
  <1> DEFINE n == Len(s) - 1
  <1>4. n \in Nat /\ n = Len(s) - 1
    BY <1>1
  <1>5. /\ SubSeq(s, 1, n) \in Seq(Node)
        /\ Len(SubSeq(s, 1, n)) = IF 1 <= n THEN n - 1 + 1 ELSE 0
        /\ \A i \in 1 .. n - 1 + 1 : SubSeq(s, 1, n)[i] = s[1 + i - 1]
    <2> HIDE DEF n
    <2> QED BY <1>2, <1>4, SubSeqProperties
  <1>6. Front(s) = SubSeq(s, 1, n)
    BY <1>3
  <1> HIDE DEF n
  <1>7. Front(s) \in Seq(Node) /\ Len(Front(s)) = n
    BY <1>1, <1>4, <1>5, <1>6
  <1>8. \A i \in 1 .. n : Front(s)[i] = s[i]
    BY <1>4, <1>5, <1>6
  <1> QED
    BY <1>4, <1>7, <1>8

Marked(s, x) == [s EXCEPT ![Len(s)].fate = x]

LEMMA MarkNode ==
  ASSUME NEW s \in Seq(Node), s # <<>>, NEW x \in {"live", "eof", "error"}
  PROVE  /\ Marked(s, x) \in Seq(Node)
         /\ Len(Marked(s, x)) = Len(s)
         /\ \A i \in 1 .. Len(s) : Marked(s, x)[i].file = s[i].file
         /\ \A i \in 1 .. Len(s) - 1 : Marked(s, x)[i] = s[i]
  <1>1. Len(s) \in 1 .. Len(s)
    BY EmptySeq
  <1> DEFINE e == [s[Len(s)] EXCEPT !.fate = x]
  <1>2. s[Len(s)] \in Node
    BY <1>1, ElementOfSeq
  <1>3. e \in Node /\ e.file = s[Len(s)].file
    BY <1>2 DEF Node
  <1>4. Marked(s, x) = [s EXCEPT ![Len(s)] = e]
    BY DEF Marked
  <1>5. /\ Marked(s, x) \in Seq(Node)
        /\ Len(Marked(s, x)) = Len(s)
        /\ \A j \in 1 .. Len(s) : Marked(s, x)[j] = IF j = Len(s) THEN e ELSE s[j]
    <2> HIDE DEF e
    <2> QED BY <1>1, <1>3, <1>4, ExceptSeq
  <1> HIDE DEF e
  <1> QED
    BY <1>1, <1>3, <1>5

(* A stack after its top node has been marked, or left alone when empty. *)
LEMMA FateType ==
  ASSUME files \in Seq(Node), NEW x \in {"live", "eof", "error"}
  PROVE  Fate(x) \in Seq(Node)
  <1>1. CASE files = <<>>
    BY <1>1 DEF Fate
  <1>2. CASE files # <<>>
    BY <1>2, MarkNode DEF Fate, Marked
  <1> QED
    BY <1>1, <1>2

(* What pushing and popping do to the variables they are given. *)
LEMMA PushType ==
  ASSUME TypeOK, NEW f \in File, NEW b \in BOOLEAN,
         OpenStream(f), ucli_shell_push_file(f, b)
  PROVE  /\ files' \in Seq(Node)
         /\ istream' \in File \cup {Session}
         /\ open' \subseteq File
         /\ left' \in [File \cup {Session} -> 0 .. MaxLines]
  <1>1. [file |-> f, stop |-> b, fate |-> "live"] \in Node
    BY DEF Node
  <1>2. files' \in Seq(Node)
    BY <1>1, PushNode DEF TypeOK, ucli_shell_push_file
  <1> QED
    BY <1>2, ConstantAssumption DEF TypeOK, OpenStream, ucli_shell_push_file, ConstantAssumption

LEMMA PopType ==
  ASSUME TypeOK, ucli_shell_pop_file
  PROVE  /\ files' \in Seq(Node)
         /\ istream' \in File \cup {Session}
         /\ open' \subseteq File
         /\ running' \in BOOLEAN
  <1> USE DEF TypeOK
  <1>1. CASE files = <<>>
    BY <1>1 DEF ucli_shell_pop_file
  <1>2. CASE files # <<>>
    <2>1. files' = Front(files) /\ files' \in Seq(Node)
      BY <1>2, PopNode DEF TypeOK, ucli_shell_pop_file
    <2>2. files' # <<>> => Last(files').file \in File
      <3> SUFFICES ASSUME files' # <<>> PROVE Last(files').file \in File
        OBVIOUS
      <3>1. Len(files') \in 1 .. Len(files')
        BY <2>1, EmptySeq
      <3>2. files'[Len(files')] \in Node
        BY <2>1, <3>1, ElementOfSeq
      <3> QED
        BY <3>2 DEF Last, Node
    <2> QED
      BY <1>2, <2>1, <2>2 DEF TypeOK, ucli_shell_pop_file
  <1> QED
    BY <1>1, <1>2

-----------------------------------------------------------------------------
(* Type correctness. *)

(* A command is known wherever one is executed; TypeOK alone is not inductive,
   since the view of a command is taken without a test. *)
CommandKnown == pc \in {"execute", "builtin", "script", "returned"} => cmd # None

TypeInv == TypeOK /\ CommandKnown

(* Searching the path leaves a path. *)
LEMMA DirsType ==
  ASSUME dirs \in Seq(Nat), LoadFiles
  PROVE  dirs' \in Seq(Nat)
  <1>1. dirs # <<>>
    BY DEF LoadFiles
  <1>2. Tail(dirs) \in Seq(Nat)
    BY <1>1
  <1>3. CASE Opendir
    BY <1>2, <1>3 DEF Opendir
  <1>4. CASE XmlReadStarts
    <2>1. Head(dirs) = dirs[1] /\ Head(dirs) \in Nat /\ 1 \in DOMAIN dirs
      BY <1>1
    <2>2. dirs[1] - 1 \in Nat
      BY <1>4, <2>1 DEF XmlReadStarts
    <2>3. dirs' = [dirs EXCEPT ![1] = dirs[1] - 1]
      BY <1>4 DEF XmlReadStarts
    <2> QED
      BY <2>1, <2>2, <2>3, ExceptSeq
  <1>5. CASE XmlReadReturns
    BY <1>5 DEF XmlReadReturns
  <1>6. CASE Closedir
    BY <1>2, <1>6 DEF Closedir
  <1> QED
    BY <1>3, <1>4, <1>5, <1>6 DEF LoadFiles

LEMMA TypeInit == Init => TypeInv
  <1> SUFFICES ASSUME Init PROVE TypeInv
    OBVIOUS
  <1>1. files \in Seq(Node)
    BY DEF Init
  <1>2. left \in [File \cup {Session} -> 0 .. MaxLines]
    BY ConstantAssumption DEF Init, ConstantAssumption
  <1>3. dirs \in Seq(Nat)
    BY ConstantAssumption DEF Init, ConstantAssumption
  <1>4. /\ pc = "new" /\ state = "INITIALISING" /\ running = TRUE /\ boot = TRUE /\ raw = FALSE
        /\ istream = Session /\ open = {} /\ held = {} /\ cmd = None /\ ok = FALSE
        /\ view = None /\ hook = "none" /\ cancelled = FALSE /\ at = "none"
    BY DEF Init
  <1> QED
    BY <1>1, <1>2, <1>3, <1>4 DEF TypeInv, TypeOK, CommandKnown, Location, ShellState, Resource

(* The program counter, the state and the command, which the actions below set
   one way or another. *)
LEMMA TypeStep == TypeInv /\ [Next]_vars => TypeInv'
  <1> SUFFICES ASSUME TypeInv, [Next]_vars PROVE TypeInv'
    OBVIOUS
  <1> USE ConstantAssumption DEF TypeInv, TypeOK, CommandKnown, Location, ShellState, Resource
  <1>1. CASE ShellNew
    BY <1>1 DEF ShellNew
  <1>35. CASE InitReturns
    BY <1>35 DEF InitReturns
  <1>36. CASE LoadFiles
    <2>1. held' \subseteq Resource
      BY <1>36 DEF LoadFiles, Opendir, XmlReadStarts, XmlReadReturns, Closedir
    <2>3. dirs' \in Seq(Nat)
      BY <1>36, DirsType
    <2>2. UNCHANGED <<pc, state, running, boot, files, istream, open, left, raw, cmd, ok, view, hook,
                      cancelled, at>>
      BY <1>36 DEF LoadFiles
    <2> QED
      BY <2>1, <2>2, <2>3
  <1>37. CASE BuiltinStarts
    <2>1. held' \subseteq Resource /\ pc' = "builtin" /\ cmd' = cmd /\ pc = "execute"
      BY <1>37 DEF BuiltinStarts, Acts
    <2>2. UNCHANGED <<state, running, boot, files, istream, open, left, raw, ok, view, hook,
                      cancelled, dirs, at>>
      BY <1>37 DEF BuiltinStarts, Acts
    <2> QED
      BY <2>1, <2>2
  <1>38. CASE FiniCancelled
    BY <1>38 DEF FiniCancelled
  <1>2. CASE LoadAndPush
    <2>1. PICK f \in File : OpenStream(f) /\ ucli_shell_push_file(f, TRUE)
      BY <1>2 DEF LoadAndPush
    <2>2. /\ files' \in Seq(Node)
          /\ istream' \in File \cup {Session}
          /\ open' \subseteq File
          /\ left' \in [File \cup {Session} -> 0 .. MaxLines]
      BY <2>1, PushType
    <2> QED
      BY <1>2, <2>2 DEF LoadAndPush
  <1>3. CASE ucli_shell_startup
    BY <1>3 DEF ucli_shell_startup, ConstantAssumption
  <1>4. CASE LoopTop
    BY <1>4 DEF LoopTop
  <1>5. CASE ReadlineRefused
    <2>1. running' \in BOOLEAN /\ held' \subseteq Resource
      BY <1>5 DEF ReadlineRefused
    <2>2. UNCHANGED <<state, boot, files, istream, open, left, raw, cmd, ok, view, hook, cancelled, dirs, at>>
      BY <1>5 DEF ReadlineRefused
    <2>3. pc' = "unwind"
      BY <1>5 DEF ReadlineRefused
    <2> QED
      BY <2>1, <2>2, <2>3
  <1>6. CASE ReadlineStarts
    BY <1>6 DEF ReadlineStarts, isatty
  <1>7. CASE EndOfInput
    <2>1. /\ files' \in Seq(Node) /\ running' \in BOOLEAN /\ raw' \in BOOLEAN
          /\ held' \subseteq Resource /\ cmd' = cmd /\ pc' = "unwind"
      BY <1>7, FateType DEF EndOfInput, NoLine
    <2>2. UNCHANGED <<state, left, boot, istream, open, ok, view, hook, cancelled, dirs, at>>
      BY <1>7 DEF EndOfInput, Reading
    <2> QED
      BY <2>1, <2>2
  <1>8. CASE ucli_shell_help
    BY <1>8 DEF ucli_shell_help, Reading
  <1>9. CASE KeyComplete
    BY <1>9 DEF KeyComplete, Reading
  <1>10. ASSUME NEW c \in Command, KeyEnterBadParam(c) PROVE TypeInv'
    BY <1>10 DEF KeyEnterBadParam, Reading
  <1>11. ASSUME NEW c \in Command, KeyEnterOk(c) PROVE TypeInv'
    <2>1. /\ state' \in ShellState /\ raw' \in BOOLEAN /\ held' \subseteq Resource /\ cmd' = c
          /\ pc' = "entered"
      BY <1>11 DEF KeyEnterOk, LineRead
    <2>2. UNCHANGED <<running, boot, files, istream, open, left, ok, view, hook, cancelled, dirs, at>>
      BY <1>11 DEF KeyEnterOk, Reading, LineRead
    <2> QED
      BY <2>1, <2>2
  <1>12. CASE tinyrl_key_interrupt
    <2>1. raw' \in BOOLEAN /\ held' \subseteq Resource /\ cmd' = cmd /\ pc' = "entered"
      BY <1>12 DEF tinyrl_key_interrupt, LineRead
    <2>2. UNCHANGED <<state, running, boot, files, istream, open, left, ok, view, hook, cancelled, dirs, at>>
      BY <1>12 DEF tinyrl_key_interrupt, Reading, LineRead
    <2> QED
      BY <2>1, <2>2
  <1>13. NextLine => left' \in [File \cup {Session} -> 0 .. MaxLines]
    BY DEF NextLine, ConstantAssumption
  <1>14. ASSUME NEW c \in Command, ScriptLine(c) PROVE TypeInv'
    <2>1. raw' \in BOOLEAN /\ held' \subseteq Resource /\ cmd' = c /\ pc' = "entered"
      BY <1>14 DEF ScriptLine, LineRead
    <2>2. left' \in [File \cup {Session} -> 0 .. MaxLines]
      BY <1>13, <1>14 DEF ScriptLine
    <2>3. UNCHANGED <<state, running, boot, files, istream, open, ok, view, hook, cancelled, dirs, at>>
      BY <1>14 DEF ScriptLine, NextLine, Reading, LineRead
    <2> QED
      BY <2>1, <2>2, <2>3
  <1>15. CASE ScriptBlank
    <2>1. raw' \in BOOLEAN /\ held' \subseteq Resource /\ cmd' = None /\ pc' = "entered"
      BY <1>15 DEF ScriptBlank, LineRead
    <2>2. left' \in [File \cup {Session} -> 0 .. MaxLines]
      BY <1>13, <1>15 DEF ScriptBlank
    <2>3. UNCHANGED <<state, running, boot, files, istream, open, ok, view, hook, cancelled, dirs, at>>
      BY <1>15 DEF ScriptBlank, NextLine, Reading, LineRead
    <2> QED
      BY <2>1, <2>2, <2>3
  <1>16. CASE ScriptBad
    <2>1. /\ files' \in Seq(Node) /\ running' \in BOOLEAN /\ raw' \in BOOLEAN
          /\ held' \subseteq Resource /\ cmd' = cmd /\ pc' = "unwind" /\ state' \in ShellState
      BY <1>16, FateType DEF ScriptBad, NoLine
    <2>2. left' \in [File \cup {Session} -> 0 .. MaxLines]
      BY <1>13, <1>16 DEF ScriptBad
    <2>3. UNCHANGED <<boot, istream, open, ok, view, hook, cancelled, dirs, at>>
      BY <1>16 DEF ScriptBad, NextLine, Reading
    <2> QED
      BY <2>1, <2>2, <2>3
  <1>17. CASE CmdLineHook
    BY <1>17 DEF CmdLineHook, Executable
  <1>18. CASE ucli_close
    BY <1>18 DEF ucli_close, Acts, BuiltinReturns, Returns
  <1>19. CASE SourceFails
    <2>1. /\ UNCHANGED <<state, running, boot, files, istream, open, left, raw, cmd, view, hook,
                         cancelled, dirs, at>>
          /\ held' \subseteq Resource
      BY <1>19 DEF SourceFails, BuiltinReturns, Acts
    <2>2. ok' \in BOOLEAN /\ pc' = "returned" /\ cmd # None
      BY <1>19 DEF SourceFails, Acts, BuiltinReturns, Returns
    <2> QED
      BY <2>1, <2>2
  <1>20. ASSUME NEW f \in File, ucli_source_internal(f) PROVE TypeInv'
    <2>1. /\ files' \in Seq(Node)
          /\ istream' \in File \cup {Session}
          /\ open' \subseteq File
          /\ left' \in [File \cup {Session} -> 0 .. MaxLines]
      BY <1>20, PushType DEF ucli_source_internal
    <2>2. /\ UNCHANGED <<state, running, boot, raw, cmd, view, hook, cancelled, dirs, at>>
          /\ held' \subseteq Resource
      BY <1>20 DEF ucli_source_internal, BuiltinReturns, Acts
    <2>3. ok' \in BOOLEAN /\ pc' = "returned" /\ cmd # None
      BY <1>20 DEF ucli_source_internal, Acts, BuiltinReturns, Returns
    <2> QED
      BY <2>1, <2>2, <2>3
  <1>21. CASE Builtin
    <2>1. ok' \in BOOLEAN /\ pc' = "returned" /\ cmd' = cmd /\ pc = "builtin"
      BY <1>21 DEF Builtin, Acts, BuiltinReturns, Returns
    <2>2. /\ UNCHANGED <<state, running, boot, files, istream, open, left, raw, view, hook,
                         cancelled, dirs, at>>
          /\ held' \subseteq Resource
      BY <1>21 DEF Builtin, BuiltinReturns, Acts
    <2> QED
      BY <2>1, <2>2
  <1>22. CASE NoAction
    BY <1>22 DEF NoAction, Acts, BuiltinReturns, Returns
  <1>23. CASE ScriptStarts
    BY <1>23 DEF ScriptStarts, Acts
  <1>24. CASE ScriptReturns
    <2>1. ok' \in BOOLEAN /\ pc' = "returned" /\ cmd' = cmd /\ pc = "script"
      BY <1>24 DEF ScriptReturns, Returns
    <2>2. held' \subseteq Resource
      BY <1>24 DEF ScriptReturns
    <2>3. UNCHANGED <<state, running, boot, files, istream, open, left, raw, view, hook, cancelled, dirs, at>>
      BY <1>24 DEF ScriptReturns
    <2> QED
      BY <2>1, <2>2, <2>3
  <1>25. pc = "returned" /\ MoveView => view' \in View \cup {None}
    BY DEF MoveView, ConstantAssumption
  <1>26. CASE StartupReturns
    <2>1. view' \in View \cup {None} /\ running' \in BOOLEAN /\ boot' \in BOOLEAN /\ pc' = "test"
      BY <1>25, <1>26 DEF StartupReturns
    <2>2. UNCHANGED <<state, files, istream, open, left, raw, held, cmd, ok, hook, cancelled, dirs, at>>
      BY <1>26 DEF StartupReturns
    <2> QED
      BY <2>1, <2>2
  <1>27. CASE CommandSucceeds
    BY <1>25, <1>27 DEF CommandSucceeds
  <1>28. CASE CommandFails
    BY <1>28, FateType DEF CommandFails
  <1>29. CASE Unwind
    BY <1>29, PopType DEF Unwind
  <1>30. CASE pthread_testcancel
    BY <1>30 DEF pthread_testcancel
  <1>31. CASE CancelPoint
    <2>1. held' \subseteq Resource /\ at' \in Location \cup {"editing", "none"} /\ pc' = "cleanup"
      BY <1>31 DEF CancelPoint
    <2>2. UNCHANGED <<state, running, boot, files, istream, open, left, raw, cmd, ok, view, hook,
                      cancelled, dirs>>
      BY <1>31 DEF CancelPoint
    <2> QED
      BY <2>1, <2>2
  <1>32. CASE ucli_shell_cleanup
    <2>1. files # <<>> => files[1] \in Node
      BY EmptySeq, ElementOfSeq
    <2>2. files # <<>> => files[1].file \in File
      BY <2>1 DEF Node
    <2> QED
      BY <1>32, <2>2 DEF ucli_shell_cleanup
  <1>33. CASE pthread_cancel
    BY <1>33 DEF pthread_cancel
  <1>34. CASE UNCHANGED vars
    BY <1>34 DEF vars
  <1> QED
    BY <1>1, <1>2, <1>3, <1>4, <1>5, <1>6, <1>7, <1>8, <1>9, <1>10, <1>11, <1>12, <1>14, <1>15,
       <1>16, <1>17, <1>18, <1>19, <1>20, <1>21, <1>22, <1>23, <1>24, <1>26, <1>27, <1>28,
       <1>29, <1>30, <1>31, <1>32, <1>33, <1>34, <1>35,
       <1>36, <1>37, <1>38
    DEF Next, Thread, Execute, ReadScript, User, Ended

(* Every reachable state of every session is well typed. *)
THEOREM TypeCorrect == Spec => []TypeOK
  <1>1. TypeInv => TypeOK
    BY DEF TypeInv
  <1> QED
    BY <1>1, TypeInit, TypeStep, PTL DEF Spec

-----------------------------------------------------------------------------
(* The file stack.  Where the thread needs a file it has one; every file below
   the current one is still to be read; and the current one is, too, unless
   the next thing the loop does is to leave it.  These are what make the
   ownership of the files, the choice of the input and the rule that nothing
   is read past its end inductive. *)

NeedsFile == \/ pc \in {"startup", "execute", "builtin", "script", "returned", "loop", "readline",
                        "reading", "entered", "unwind"}
             \/ pc = "test" /\ running

FileWhereNeeded ==
  /\ NeedsFile => files # <<>>
  /\ pc \in {"new", "init", "load"} => files = <<>>
  /\ pc # "crashed"

InputIsTop == files # <<>> => istream = Last(files).file

ParentsLive == \A i \in 1 .. Len(files) - 1 : files[i].fate = "live"

TopLive == files # <<>> /\ Last(files).fate # "live" => pc = "unwind" /\ Unwinds

StackInv == OpenFilesOwned /\ InputIsTop /\ FileWhereNeeded /\ ParentsLive /\ TopLive

(* The stack as a set: what is open, and that nothing is there twice. *)
Owned(s, o) ==
  /\ o = {s[i].file : i \in 1 .. Len(s)}
  /\ \A i, j \in 1 .. Len(s) : s[i].file = s[j].file => i = j

LEMMA StackSet ==
  ASSUME NEW s \in Seq(Node)
  PROVE  /\ DOMAIN s = 1 .. Len(s)
         /\ {n.file : n \in ToSet(s)} = {s[i].file : i \in 1 .. Len(s)}
  <1>1. DOMAIN s = 1 .. Len(s)
    BY LenProperties
  <1> QED
    BY <1>1 DEF ToSet

LEMMA OwnedPush ==
  ASSUME NEW s \in Seq(Node), NEW o, Owned(s, o),
         NEW n \in Node, n.file \notin o
  PROVE  Owned(Append(s, n), o \cup {n.file})
  <1> DEFINE t == Append(s, n)
  <1>1. /\ Len(s) \in Nat
        /\ Len(t) = Len(s) + 1
        /\ t[Len(s) + 1] = n
        /\ \A i \in 1 .. Len(s) : t[i] = s[i]
    BY PushNode, LenProperties
  <1> HIDE DEF t
  <1>2. {t[i].file : i \in 1 .. Len(t)} = {s[i].file : i \in 1 .. Len(s)} \cup {n.file}
    BY <1>1
  <1>3. \A i \in 1 .. Len(s) : s[i].file # n.file
    BY DEF Owned
  <1>4. \A i, j \in 1 .. Len(t) : t[i].file = t[j].file => i = j
    <2> SUFFICES ASSUME NEW i \in 1 .. Len(t), NEW j \in 1 .. Len(t), t[i].file = t[j].file
                 PROVE  i = j
      OBVIOUS
    <2>1. CASE i \in 1 .. Len(s) /\ j \in 1 .. Len(s)
      BY <1>1, <2>1 DEF Owned
    <2>2. CASE i = Len(s) + 1 \/ j = Len(s) + 1
      BY <1>1, <1>3, <2>2
    <2> QED
      BY <1>1, <2>1, <2>2
  <1> QED
    BY <1>2, <1>4 DEF Owned, t

LEMMA OwnedPop ==
  ASSUME NEW s \in Seq(Node), s # <<>>, NEW o, Owned(s, o)
  PROVE  Owned(Front(s), o \ {Last(s).file})
  <1> DEFINE t == Front(s)
  <1>1. /\ Len(s) \in Nat \ {0}
        /\ Len(t) = Len(s) - 1
        /\ \A i \in 1 .. Len(s) - 1 : t[i] = s[i]
        /\ Last(s) = s[Len(s)]
    BY PopNode, EmptySeq DEF Last
  <1> HIDE DEF t
  <1>2. \A i \in 1 .. Len(s) - 1 : s[i].file # s[Len(s)].file
    BY <1>1 DEF Owned
  <1>3. {t[i].file : i \in 1 .. Len(t)} = {s[i].file : i \in 1 .. Len(s)} \ {s[Len(s)].file}
    BY <1>1, <1>2
  <1>4. \A i, j \in 1 .. Len(t) : t[i].file = t[j].file => i = j
    BY <1>1 DEF Owned
  <1> QED
    BY <1>1, <1>3, <1>4 DEF Owned, t

LEMMA OwnedMark ==
  ASSUME NEW s \in Seq(Node), NEW t \in Seq(Node), NEW o, Owned(s, o),
         Len(t) = Len(s), \A i \in 1 .. Len(s) : t[i].file = s[i].file
  PROVE  Owned(t, o)
  <1>1. {t[i].file : i \in 1 .. Len(t)} = {s[i].file : i \in 1 .. Len(s)}
    OBVIOUS
  <1> QED
    BY <1>1 DEF Owned
-----------------------------------------------------------------------------
(* The steps that leave the stack alone, mark its top, push on it or pop it. *)

LEMMA SameStack ==
  ASSUME StackInv, UNCHANGED <<files, istream, open>>, pc # "unwind", FileWhereNeeded'
  PROVE  StackInv'
  <1>1. TopLive'
    BY DEF StackInv, TopLive
  <1>2. OpenFilesOwned' /\ InputIsTop' /\ ParentsLive'
    BY DEF StackInv, OpenFilesOwned, StackFiles, InputIsTop, ParentsLive
  <1> QED
    BY <1>1, <1>2 DEF StackInv

LEMMA MarkedStack ==
  ASSUME TypeInv, StackInv, files # <<>>, NEW x \in {"live", "eof", "error"},
         files' = Fate(x), UNCHANGED <<istream, open>>, pc' = "unwind", Unwinds'
  PROVE  StackInv'
  <1>1. files \in Seq(Node)
    BY DEF TypeInv, TypeOK
  <1>2. /\ files' \in Seq(Node)
        /\ Len(files') = Len(files)
        /\ \A i \in 1 .. Len(files) : files'[i].file = files[i].file
        /\ \A i \in 1 .. Len(files) - 1 : files'[i] = files[i]
    <2>1. files' = Marked(files, x)
      BY DEF Fate, Marked
    <2> QED
      BY <1>1, <2>1, MarkNode
  <1>3. Len(files) \in Nat \ {0}
    BY <1>1, EmptySeq
  <1>4. files' # <<>>
    BY <1>2, <1>3, EmptySeq
  <1>5. OpenFilesOwned'
    <2>1. Owned(files, open)
      BY <1>1, StackSet DEF StackInv, OpenFilesOwned, StackFiles, Owned
    <2>2. Owned(files', open')
      BY <1>1, <1>2, <2>1, OwnedMark
    <2> QED
      BY <1>2, <2>2, StackSet DEF OpenFilesOwned, StackFiles, Owned
  <1>6. InputIsTop'
    BY <1>2, <1>3 DEF StackInv, InputIsTop, Last
  <1>7. ParentsLive'
    BY <1>2 DEF StackInv, ParentsLive
  <1>8. FileWhereNeeded' /\ TopLive'
    BY <1>4 DEF FileWhereNeeded, TopLive
  <1> QED
    BY <1>5, <1>6, <1>7, <1>8 DEF StackInv

LEMMA PushedStack ==
  ASSUME ~AllocFails, TypeInv, StackInv, pc # "unwind",
         NEW f \in File, NEW b \in BOOLEAN, OpenStream(f), ucli_shell_push_file(f, b),
         pc' \notin {"new", "init", "load", "crashed"}
  PROVE  StackInv'
  <1> DEFINE n == [file |-> f, stop |-> b, fate |-> "live"]
  <1>1. n \in Node /\ n.file = f /\ n.fate = "live"
    BY DEF Node
  <1>2. files \in Seq(Node)
    BY DEF TypeInv, TypeOK
  <1>3. files' = Append(files, n) /\ istream' = f /\ open' = open \cup {f} /\ f \notin open
    BY DEF ucli_shell_push_file, OpenStream
  <1> HIDE DEF n
  <1>4. /\ files' \in Seq(Node)
        /\ Len(files) \in Nat
        /\ Len(files') = Len(files) + 1
        /\ files'[Len(files')] = n
        /\ \A i \in 1 .. Len(files) : files'[i] = files[i]
    BY <1>1, <1>2, <1>3, PushNode, LenProperties
  <1>5. files' # <<>>
    BY <1>4
  <1>6. OpenFilesOwned'
    <2>1. Owned(files, open)
      BY <1>2, StackSet DEF StackInv, OpenFilesOwned, StackFiles, Owned
    <2>2. Owned(files', open')
      BY <1>1, <1>2, <1>3, <2>1, OwnedPush
    <2> QED
      BY <1>4, <2>2, StackSet DEF OpenFilesOwned, StackFiles, Owned
  <1>7. InputIsTop' /\ TopLive'
    BY <1>1, <1>3, <1>4 DEF InputIsTop, TopLive, Last
  <1>8. ParentsLive'
    <2> SUFFICES ASSUME NEW i \in 1 .. Len(files') - 1 PROVE files'[i].fate = "live"
      BY DEF ParentsLive
    <2>1. i \in 1 .. Len(files) /\ files'[i] = files[i]
      BY <1>4
    <2>2. files # <<>>
      BY <1>2, <2>1, EmptySeq
    <2>3. files[Len(files)].fate = "live"
      BY <2>2 DEF StackInv, TopLive, Last
    <2>4. i = Len(files) \/ i \in 1 .. Len(files) - 1
      BY <1>4, <2>1
    <2> QED
      BY <2>1, <2>3, <2>4 DEF StackInv, ParentsLive
  <1>9. FileWhereNeeded'
    BY <1>5 DEF FileWhereNeeded
  <1> QED
    BY <1>6, <1>7, <1>8, <1>9 DEF StackInv

LEMMA PoppedStack ==
  ASSUME TypeInv, StackInv, files # <<>>, ucli_shell_pop_file, pc' = "test"
  PROVE  StackInv'
  <1>1. files \in Seq(Node)
    BY DEF TypeInv, TypeOK
  <1>2. /\ files' = Front(files)
        /\ open' = open \ {Last(files).file}
        /\ running' = (files' # <<>>)
        /\ files' # <<>> => istream' = Last(files').file
    BY DEF ucli_shell_pop_file
  <1>3. /\ files' \in Seq(Node)
        /\ Len(files) \in Nat \ {0}
        /\ Len(files') = Len(files) - 1
        /\ \A i \in 1 .. Len(files) - 1 : files'[i] = files[i]
    BY <1>1, <1>2, PopNode, EmptySeq
  <1>4. OpenFilesOwned'
    <2>1. Owned(files, open)
      BY <1>1, StackSet DEF StackInv, OpenFilesOwned, StackFiles, Owned
    <2>2. Owned(files', open')
      BY <1>1, <1>2, <2>1, OwnedPop
    <2> QED
      BY <1>3, <2>2, StackSet DEF OpenFilesOwned, StackFiles, Owned
  <1>5. \A i \in 1 .. Len(files') : files'[i].fate = "live"
    BY <1>3 DEF StackInv, ParentsLive
  <1>6. ParentsLive'
    BY <1>3, <1>5 DEF ParentsLive
  <1>7. TopLive'
    <2>1. files' # <<>> => Len(files') \in 1 .. Len(files')
      BY <1>3, EmptySeq
    <2> QED
      BY <1>5, <2>1 DEF TopLive, Last
  <1>8. InputIsTop' /\ FileWhereNeeded'
    BY <1>2 DEF InputIsTop, FileWhereNeeded, NeedsFile
  <1> QED
    BY <1>4, <1>6, <1>7, <1>8 DEF StackInv

LEMMA EmptiedStack ==
  ASSUME TypeInv, StackInv, ucli_shell_cleanup
  PROVE  StackInv'
  <1>1. files' = <<>> /\ pc' = "done"
    BY DEF ucli_shell_cleanup
  <1>2. open' = {}
    BY DEF ucli_shell_cleanup, StackInv, OpenFilesOwned, StackFiles
  <1>3. StackFiles' = {}
    BY <1>1 DEF StackFiles, ToSet
  <1>4. OpenFilesOwned'
    BY <1>1, <1>2, <1>3 DEF OpenFilesOwned
  <1>5. InputIsTop' /\ FileWhereNeeded' /\ ParentsLive' /\ TopLive'
    BY <1>1 DEF InputIsTop, FileWhereNeeded, NeedsFile, ParentsLive, TopLive
  <1> QED
    BY <1>4, <1>5 DEF StackInv
-----------------------------------------------------------------------------
LEMMA StackInit == Init => StackInv
  <1> SUFFICES ASSUME Init PROVE StackInv
    OBVIOUS
  <1>1. files = <<>> /\ open = {} /\ pc = "new"
    BY DEF Init
  <1>2. OpenFilesOwned
    BY <1>1 DEF OpenFilesOwned, StackFiles, ToSet
  <1>3. InputIsTop /\ FileWhereNeeded /\ ParentsLive /\ TopLive
    BY <1>1 DEF InputIsTop, FileWhereNeeded, NeedsFile, ParentsLive, TopLive
  <1> QED
    BY <1>2, <1>3 DEF StackInv

LEMMA StackStep ==
  ASSUME ~AllocFails
  PROVE  TypeInv /\ StackInv /\ [Next]_vars => StackInv'
  <1> SUFFICES ASSUME TypeInv, StackInv, [Next]_vars PROVE StackInv'
    OBVIOUS
  <1>1. CASE ShellNew
    <2>1. UNCHANGED <<files, istream, open>> /\ pc # "unwind" /\ FileWhereNeeded'
      BY <1>1 DEF ShellNew, StackInv, FileWhereNeeded, NeedsFile
    <2> QED
      BY <2>1, SameStack
  <1>32. CASE InitReturns
    <2>1. UNCHANGED <<files, istream, open>> /\ pc # "unwind" /\ FileWhereNeeded'
      BY <1>32 DEF InitReturns, StackInv, FileWhereNeeded, NeedsFile
    <2> QED
      BY <2>1, SameStack
  <1>33. CASE LoadFiles
    <2>1. UNCHANGED <<files, istream, open>> /\ pc # "unwind" /\ FileWhereNeeded'
      BY <1>33 DEF LoadFiles, StackInv, FileWhereNeeded, NeedsFile
    <2> QED
      BY <2>1, SameStack
  <1>34. CASE BuiltinStarts
    <2>1. UNCHANGED <<files, istream, open>> /\ pc # "unwind" /\ FileWhereNeeded'
      BY <1>34 DEF BuiltinStarts, Acts, StackInv, FileWhereNeeded, NeedsFile
    <2> QED
      BY <2>1, SameStack
  <1>35. CASE FiniCancelled
    <2>1. UNCHANGED <<files, istream, open>> /\ pc # "unwind" /\ FileWhereNeeded'
      BY <1>35 DEF FiniCancelled, StackInv, FileWhereNeeded, NeedsFile
    <2> QED
      BY <2>1, SameStack
  <1>2. CASE LoadAndPush
    <2>1. PICK f \in File : OpenStream(f) /\ ucli_shell_push_file(f, TRUE)
      BY <1>2 DEF LoadAndPush
    <2> QED
      BY <1>2, <2>1, PushedStack DEF LoadAndPush
  <1>3. CASE ucli_shell_startup
    <2>1. UNCHANGED <<files, istream, open>> /\ pc # "unwind" /\ FileWhereNeeded'
      BY <1>3 DEF ucli_shell_startup, StackInv, FileWhereNeeded, NeedsFile
    <2> QED
      BY <2>1, SameStack
  <1>4. CASE LoopTop
    <2>1. UNCHANGED <<files, istream, open>> /\ pc # "unwind" /\ FileWhereNeeded'
      BY <1>4 DEF LoopTop, StackInv, FileWhereNeeded, NeedsFile
    <2> QED
      BY <2>1, SameStack
  <1>5. CASE ReadlineRefused
    <2>1. UNCHANGED <<files, istream, open>> /\ pc # "unwind" /\ FileWhereNeeded'
      BY <1>5 DEF ReadlineRefused, StackInv, FileWhereNeeded, NeedsFile
    <2> QED
      BY <2>1, SameStack
  <1>6. CASE ReadlineStarts
    <2>1. UNCHANGED <<files, istream, open>> /\ pc # "unwind" /\ FileWhereNeeded'
      BY <1>6 DEF ReadlineStarts, StackInv, FileWhereNeeded, NeedsFile
    <2> QED
      BY <2>1, SameStack
  <1>7. CASE EndOfInput
    <2>1. files # <<>>
      BY <1>7 DEF EndOfInput, Reading, StackInv, FileWhereNeeded, NeedsFile
    <2> QED
      BY <1>7, <2>1, MarkedStack DEF EndOfInput, Reading, NoLine, Unwinds
  <1>8. CASE ucli_shell_help
    <2>1. UNCHANGED <<files, istream, open>> /\ pc # "unwind" /\ FileWhereNeeded'
      BY <1>8 DEF ucli_shell_help, Reading, StackInv, FileWhereNeeded, NeedsFile
    <2> QED
      BY <2>1, SameStack
  <1>9. CASE KeyComplete
    <2>1. UNCHANGED <<files, istream, open>> /\ pc # "unwind" /\ FileWhereNeeded'
      BY <1>9 DEF KeyComplete, Reading, StackInv, FileWhereNeeded, NeedsFile
    <2> QED
      BY <2>1, SameStack
  <1>10. ASSUME NEW c \in Command, KeyEnterBadParam(c) PROVE StackInv'
    <2>1. UNCHANGED <<files, istream, open>> /\ pc # "unwind" /\ FileWhereNeeded'
      BY <1>10 DEF KeyEnterBadParam, Reading, StackInv, FileWhereNeeded, NeedsFile
    <2> QED
      BY <2>1, SameStack
  <1>11. ASSUME NEW c \in Command, KeyEnterOk(c) PROVE StackInv'
    <2>1. UNCHANGED <<files, istream, open>> /\ pc # "unwind" /\ FileWhereNeeded'
      BY <1>11 DEF KeyEnterOk, Reading, LineRead, StackInv, FileWhereNeeded, NeedsFile
    <2> QED
      BY <2>1, SameStack
  <1>12. CASE tinyrl_key_interrupt
    <2>1. UNCHANGED <<files, istream, open>> /\ pc # "unwind" /\ FileWhereNeeded'
      BY <1>12 DEF tinyrl_key_interrupt, Reading, LineRead, StackInv, FileWhereNeeded, NeedsFile
    <2> QED
      BY <2>1, SameStack
  <1>13. ASSUME NEW c \in Command, ScriptLine(c) PROVE StackInv'
    <2>1. UNCHANGED <<files, istream, open>> /\ pc # "unwind" /\ FileWhereNeeded'
      BY <1>13 DEF ScriptLine, NextLine, Reading, LineRead, StackInv, FileWhereNeeded, NeedsFile
    <2> QED
      BY <2>1, SameStack
  <1>14. CASE ScriptBlank
    <2>1. UNCHANGED <<files, istream, open>> /\ pc # "unwind" /\ FileWhereNeeded'
      BY <1>14 DEF ScriptBlank, NextLine, Reading, LineRead, StackInv, FileWhereNeeded, NeedsFile
    <2> QED
      BY <2>1, SameStack
  <1>15. CASE ScriptBad
    <2>1. files # <<>>
      BY <1>15 DEF ScriptBad, NextLine, Reading, StackInv, FileWhereNeeded, NeedsFile
    <2> QED
      BY <1>15, <2>1, MarkedStack DEF ScriptBad, NextLine, Reading, NoLine, Unwinds
  <1>16. CASE CmdLineHook
    <2>1. UNCHANGED <<files, istream, open>> /\ pc # "unwind" /\ FileWhereNeeded'
      BY <1>16 DEF CmdLineHook, StackInv, FileWhereNeeded, NeedsFile
    <2> QED
      BY <2>1, SameStack
  <1>17. CASE ucli_close
    <2>1. UNCHANGED <<files, istream, open>> /\ pc # "unwind" /\ FileWhereNeeded'
      BY <1>17 DEF ucli_close, Acts, BuiltinReturns, Returns, StackInv, FileWhereNeeded, NeedsFile
    <2> QED
      BY <2>1, SameStack
  <1>18. CASE SourceFails
    <2>1. UNCHANGED <<files, istream, open>> /\ pc # "unwind" /\ FileWhereNeeded'
      BY <1>18 DEF SourceFails, Acts, BuiltinReturns, Returns, StackInv, FileWhereNeeded, NeedsFile
    <2> QED
      BY <2>1, SameStack
  <1>19. ASSUME NEW f \in File, ucli_source_internal(f) PROVE StackInv'
    <2>1. (cmd.act = "source") \in BOOLEAN /\ pc = "builtin" /\ pc' = "returned"
      BY <1>19 DEF ucli_source_internal, Acts, BuiltinReturns, Returns
    <2> QED
      BY <1>19, <2>1, PushedStack DEF ucli_source_internal
  <1>20. CASE Builtin
    <2>1. UNCHANGED <<files, istream, open>> /\ pc # "unwind" /\ FileWhereNeeded'
      BY <1>20 DEF Builtin, Acts, BuiltinReturns, Returns, StackInv, FileWhereNeeded, NeedsFile
    <2> QED
      BY <2>1, SameStack
  <1>21. CASE NoAction
    <2>1. UNCHANGED <<files, istream, open>> /\ pc # "unwind" /\ FileWhereNeeded'
      BY <1>21 DEF NoAction, Acts, BuiltinReturns, Returns, StackInv, FileWhereNeeded, NeedsFile
    <2> QED
      BY <2>1, SameStack
  <1>22. CASE ScriptStarts
    <2>1. UNCHANGED <<files, istream, open>> /\ pc # "unwind" /\ FileWhereNeeded'
      BY <1>22 DEF ScriptStarts, Acts, StackInv, FileWhereNeeded, NeedsFile
    <2> QED
      BY <2>1, SameStack
  <1>23. CASE ScriptReturns
    <2>1. UNCHANGED <<files, istream, open>> /\ pc # "unwind" /\ FileWhereNeeded'
      BY <1>23 DEF ScriptReturns, Returns, StackInv, FileWhereNeeded, NeedsFile
    <2> QED
      BY <2>1, SameStack
  <1>24. CASE StartupReturns
    <2>1. UNCHANGED <<files, istream, open>> /\ pc # "unwind" /\ FileWhereNeeded'
      BY <1>24 DEF StartupReturns, StackInv, FileWhereNeeded, NeedsFile
    <2> QED
      BY <2>1, SameStack
  <1>25. CASE CommandSucceeds
    <2>1. UNCHANGED <<files, istream, open>> /\ pc # "unwind" /\ FileWhereNeeded'
      BY <1>25 DEF CommandSucceeds, StackInv, FileWhereNeeded, NeedsFile
    <2> QED
      BY <2>1, SameStack
  <1>26. CASE CommandFails
    <2>1. files # <<>> /\ pc = "returned" /\ pc' = "unwind" /\ UNCHANGED <<istream, open>>
      BY <1>26 DEF CommandFails, StackInv, FileWhereNeeded, NeedsFile
    <2>2. CASE files' = Fate("error") /\ state' = "SCRIPT_ERROR"
      BY <2>1, <2>2, MarkedStack DEF Unwinds
    <2>3. CASE UNCHANGED files
      BY <2>1, <2>3, SameStack DEF FileWhereNeeded
    <2> QED
      BY <1>26, <2>1, <2>2, <2>3 DEF CommandFails
  <1>27. CASE Unwind
    <2>1. pc = "unwind" /\ pc' = "test" /\ files # <<>>
      BY <1>27 DEF Unwind, StackInv, FileWhereNeeded, NeedsFile
    <2>2. CASE Unwinds
      BY <1>27, <2>1, <2>2, PoppedStack DEF Unwind
    <2>3. CASE ~Unwinds
      <3>1. UNCHANGED <<files, istream, open>>
        BY <1>27, <2>3 DEF Unwind
      <3>2. OpenFilesOwned' /\ InputIsTop' /\ ParentsLive'
        BY <3>1 DEF StackInv, OpenFilesOwned, StackFiles, InputIsTop, ParentsLive
      <3>3. FileWhereNeeded' /\ TopLive'
        BY <2>1, <2>3, <3>1 DEF StackInv, FileWhereNeeded, TopLive
      <3> QED
        BY <3>2, <3>3 DEF StackInv
    <2> QED
      BY <2>2, <2>3
  <1>28. CASE pthread_testcancel
    <2>1. UNCHANGED <<files, istream, open>> /\ pc # "unwind" /\ FileWhereNeeded'
      BY <1>28 DEF pthread_testcancel, StackInv, FileWhereNeeded, NeedsFile
    <2> QED
      BY <2>1, SameStack
  <1>29. CASE CancelPoint
    <2>1. UNCHANGED <<files, istream, open>> /\ pc # "unwind" /\ FileWhereNeeded'
      BY <1>29 DEF CancelPoint, CancellationPoint, StackInv, FileWhereNeeded, NeedsFile
    <2> QED
      BY <2>1, SameStack
  <1>30. CASE ucli_shell_cleanup
    BY <1>30, EmptiedStack
  <1>31. CASE pthread_cancel \/ UNCHANGED vars
    <2>1. UNCHANGED <<pc, state, running, files, istream, open>>
      BY <1>31 DEF pthread_cancel, vars
    <2> QED
      BY <2>1 DEF StackInv, OpenFilesOwned, StackFiles, InputIsTop, FileWhereNeeded, NeedsFile,
                  ParentsLive, TopLive, Unwinds
  <1> QED
    BY <1>1, <1>2, <1>3, <1>4, <1>5, <1>6, <1>7, <1>8, <1>9, <1>10, <1>11, <1>12, <1>13, <1>14,
       <1>15, <1>16, <1>17, <1>18, <1>19, <1>20, <1>21, <1>22, <1>23, <1>24, <1>25, <1>26, <1>27,
       <1>28, <1>29, <1>30, <1>31, <1>32, <1>33, <1>34, <1>35
    DEF Next, Thread, Execute, ReadScript, User, Ended

(* What the invariant says of the stack is what the properties say of it. *)
LEMMA StackMeans ==
  ASSUME TypeInv, StackInv
  PROVE  OpenFilesOwned /\ InputIsCurrentFile /\ NoReadAfterEnd
  <1>1. OpenFilesOwned
    BY DEF StackInv
  <1>2. ASSUME pc = "reading" PROVE files # <<>> /\ istream \in open
    <2>1. files # <<>>
      BY <1>2 DEF StackInv, FileWhereNeeded, NeedsFile
    <2>2. files \in Seq(Node) /\ Len(files) \in 1 .. Len(files)
      BY <2>1, EmptySeq DEF TypeInv, TypeOK
    <2>3. Last(files).file \in {files[i].file : i \in 1 .. Len(files)}
      BY <2>2 DEF Last
    <2> QED
      BY <2>1, <2>2, <2>3, StackSet DEF StackInv, InputIsTop, OpenFilesOwned, StackFiles
  <1>3. InputIsCurrentFile
    BY <1>2 DEF StackInv, InputIsTop, InputIsCurrentFile
  <1>4. NoReadAfterEnd
    BY DEF StackInv, TopLive, NoReadAfterEnd
  <1> QED
    BY <1>1, <1>3, <1>4

(* When nodes can be allocated, in every session every stream opened is on the
   file stack, once, until it is closed; input comes from the top of the stack,
   which is open; and no file is read once it has ended or failed. *)
THEOREM StackCorrect ==
  ASSUME ~AllocFails
  PROVE  Spec => []InputStack
  <1>1. Init => TypeInv /\ StackInv
    BY TypeInit, StackInit
  <1>2. TypeInv /\ StackInv /\ [Next]_vars => TypeInv' /\ StackInv'
    BY TypeStep, StackStep
  <1>3. TypeInv /\ StackInv => InputStack
    BY StackMeans DEF InputStack
  <1> QED
    BY <1>1, <1>2, <1>3, PTL DEF Spec

(* The loop dereferences current_file after a command has failed; when nodes can
   be allocated it is never NULL there. *)
THEOREM NeverCrashes ==
  ASSUME ~AllocFails
  PROVE  Spec => [](pc # "crashed")
  <1>1. Init => TypeInv /\ StackInv
    BY TypeInit, StackInit
  <1>2. TypeInv /\ StackInv /\ [Next]_vars => TypeInv' /\ StackInv'
    BY TypeStep, StackStep
  <1>3. StackInv => pc # "crashed"
    BY DEF StackInv, FileWhereNeeded
  <1> QED
    BY <1>1, <1>2, <1>3, PTL DEF Spec
-----------------------------------------------------------------------------
(* Which step comes next, at the locations where the thread has no choice; and
   that only the clean-up ends a session. *)

Idle == UNCHANGED <<pc, state, running, boot, files, istream, open, left, raw, held, cmd, ok, view,
                    hook, dirs, at>>

LEMMA Steps ==
  ASSUME [Next]_vars
  PROVE  /\ pc = "unwind" => Unwind \/ Idle
         /\ pc = "test" => pthread_testcancel \/ Idle
         /\ pc = "loop" => LoopTop \/ Idle
         /\ pc = "cleanup" => ucli_shell_cleanup \/ Idle
         /\ pc = "ending" => ucli_shell_cleanup \/ FiniCancelled \/ Idle
         /\ pc = "done" => Idle
         /\ pc' = "done" => ucli_shell_cleanup \/ FiniCancelled \/ Idle
  BY DEF Next, Thread, Execute, ReadScript, User, Ended, EndOfInput, ShellNew, InitReturns,
         LoadFiles, LoadAndPush, BuiltinStarts, FiniCancelled,
         ucli_shell_startup, LoopTop, ReadlineRefused, ReadlineStarts, CmdLineHook, ScriptReturns,
         StartupReturns, CommandSucceeds, CommandFails, Unwind, pthread_testcancel, CancelPoint,
         CancellationPoint, ucli_shell_cleanup, ucli_close, SourceFails, Builtin, NoAction,
         ScriptStarts, ucli_source_internal, Acts, BuiltinReturns, Returns, ScriptLine, ScriptBlank, ScriptBad,
         NextLine, Reading, LineRead, NoLine, ucli_shell_help, KeyComplete, tinyrl_key_interrupt,
         KeyEnterBadParam, KeyEnterOk, pthread_cancel, Idle, vars

(* The terminal's mode is set by the calls that start and end a line alone. *)
LEMMA RawStep == RawOnlyWhileReading /\ [Next]_vars => RawOnlyWhileReading'
  <1> SUFFICES ASSUME RawOnlyWhileReading, [Next]_vars PROVE RawOnlyWhileReading'
    OBVIOUS
  <1>1. CASE Thread
    <2>1. CASE ShellNew \/ InitReturns \/ LoadFiles \/ LoadAndPush \/ ucli_shell_startup
      BY <2>1 DEF RawOnlyWhileReading, ShellNew, InitReturns, LoadFiles, LoadAndPush,
         ucli_shell_startup
    <2>2. CASE LoopTop \/ ReadlineRefused \/ ReadlineStarts \/ CmdLineHook
      BY <2>2 DEF RawOnlyWhileReading, LoopTop, ReadlineRefused, ReadlineStarts, CmdLineHook
    <2>3. CASE Execute
      BY <2>3 DEF RawOnlyWhileReading, Execute, BuiltinStarts, ucli_close, SourceFails, Builtin,
         NoAction, ScriptStarts, ucli_source_internal, Acts, BuiltinReturns, Returns
    <2>4. CASE ScriptReturns \/ StartupReturns \/ CommandSucceeds \/ CommandFails \/ Unwind
      BY <2>4 DEF RawOnlyWhileReading, ScriptReturns, Returns, StartupReturns, CommandSucceeds,
         CommandFails, Unwind
    <2>5. CASE pthread_testcancel \/ FiniCancelled
      BY <2>5 DEF RawOnlyWhileReading, pthread_testcancel, FiniCancelled
    <2>6. CASE CancelPoint
      <3>1. raw' = raw /\ pc' = "cleanup" /\ (at' = pc \/ at' = "editing")
        BY <2>6 DEF CancelPoint
      <3>2. raw => pc = "reading"
        BY <2>6 DEF RawOnlyWhileReading, CancelPoint, CancellationPoint
      <3> QED
        BY <3>1, <3>2 DEF RawOnlyWhileReading
    <2>7. CASE ucli_shell_cleanup
      BY <2>7 DEF RawOnlyWhileReading, ucli_shell_cleanup
    <2> QED
      BY <1>1, <2>1, <2>2, <2>3, <2>4, <2>5, <2>6, <2>7 DEF Thread
  <1>2. CASE ReadScript \/ EndOfInput \/ User
    BY <1>2 DEF RawOnlyWhileReading, ReadScript, EndOfInput, User, ScriptLine, ScriptBlank, ScriptBad, NextLine,
       Reading, LineRead, NoLine, ucli_shell_help, KeyComplete, tinyrl_key_interrupt, KeyEnterBadParam, KeyEnterOk
  <1>3. CASE pthread_cancel \/ UNCHANGED vars
    BY <1>3 DEF RawOnlyWhileReading, pthread_cancel, vars
  <1> QED
    BY <1>1, <1>2, <1>3 DEF Next, Ended

(* Outside a line of input the terminal is as the user left it, for every
   session: only a cancellation while it is read leaves it in raw mode. *)
THEOREM RawCorrect == Spec => []RawOnlyWhileReading
  <1>1. Init => RawOnlyWhileReading
    BY DEF Init, RawOnlyWhileReading
  <1> QED
    BY <1>1, RawStep, PTL DEF Spec

-----------------------------------------------------------------------------
(* What is held follows from where the thread stands and from whether it still
   executes the startup command; in a clean-up, from where it was cancelled. *)

DoneEmpty == pc = "done" /\ at # "ending" => files = <<>>

BootFirst ==
  /\ pc \in {"new", "init", "load", "startup"} => boot
  /\ boot => pc \notin {"test", "loop", "readline", "reading", "entered", "unwind", "crashed"}

(* What is held while the path is searched: a file is in an open directory, and
   that is one of those left. *)
HeldInSearch ==
  /\ {"shell", "path"} \subseteq held
  /\ held \subseteq {"shell", "path", "dir", "filename", "xml"}
  /\ "dir" \in held => dirs # <<>>
  /\ "filename" \in held => "dir" \in held
  /\ "xml" \in held => "filename" \in held

ContextHeld == {"shell"} \cup (IF boot THEN {} ELSE {"pargv"})

HeldAsPlaced ==
  /\ pc = "new" => held = {}
  /\ pc = "init" => held = {"new_shell"}
  /\ pc = "load" => HeldInSearch
  /\ pc \in {"startup", "test", "loop", "unwind", "ending"} => held = {"shell"}
  /\ pc \in {"readline", "reading"} => held = {"shell", "prompt"}
  /\ pc = "entered" => held \ {"line_pargv"} = {"shell", "prompt", "line"}
  /\ pc \in {"execute", "returned"} => held = ContextHeld
  /\ pc = "builtin" => held \ {"script", "argv"} = ContextHeld
  /\ pc = "script" => held = ContextHeld \cup {"script"}
  /\ pc = "cleanup" => held \subseteq Released \cup Lost
  /\ pc = "done" => held \subseteq Lost

(* A command without arguments can be found, but not handed to the client. *)
CommandOfLine ==
  /\ pc = "reading" => cmd \in Command \cup {None}
  /\ pc = "entered" /\ "line_pargv" \in held => cmd \in Command
  /\ pc \in {"execute", "builtin", "script"} /\ ~boot => cmd \in Command

HeldInv == BootFirst /\ HeldAsPlaced /\ CommandOfLine

LEMMA HeldInit == Init => HeldInv
  BY DEF Init, HeldInv, BootFirst, HeldAsPlaced, CommandOfLine

LEMMA HeldStep == HeldInv /\ [Next]_vars => HeldInv'
  <1> SUFFICES ASSUME HeldInv, [Next]_vars PROVE HeldInv'
    OBVIOUS
  <1> USE ConstantAssumption
      DEF HeldInv, BootFirst, HeldAsPlaced, HeldInSearch, ContextHeld, CommandOfLine
  <1>1. CASE ShellNew \/ InitReturns \/ ucli_shell_startup
    BY <1>1 DEF ShellNew, InitReturns, ucli_shell_startup
  <1>2. CASE LoopTop \/ ReadlineRefused \/ ReadlineStarts
    BY <1>2 DEF LoopTop, ReadlineRefused, ReadlineStarts
  <1>3. CASE EndOfInput
    BY <1>3 DEF EndOfInput, Reading, NoLine
  <1>4. CASE User
    BY <1>4 DEF User, ucli_shell_help, KeyComplete, tinyrl_key_interrupt, KeyEnterBadParam,
                KeyEnterOk, Reading, LineRead
  <1>5. CASE ReadScript
    BY <1>5 DEF ReadScript, ScriptBlank, ScriptBad, ScriptLine, NextLine, Reading, LineRead, NoLine, ConstantAssumption
  <1>6. CASE CmdLineHook
    BY <1>6 DEF CmdLineHook, Executable, ConstantAssumption
  <1>7. CASE Execute
    BY <1>7 DEF Execute, BuiltinStarts, ucli_close, SourceFails, Builtin, NoAction, ScriptStarts,
                ucli_source_internal, Acts, BuiltinReturns, Returns
  <1>8. CASE ScriptReturns
    BY <1>8 DEF ScriptReturns, Returns
  <1>9. CASE StartupReturns \/ CommandSucceeds \/ CommandFails
    BY <1>9 DEF StartupReturns, CommandSucceeds, CommandFails
  <1>10. CASE Unwind \/ pthread_testcancel
    BY <1>10 DEF Unwind, pthread_testcancel, Released
  <1>11. CASE CancelPoint
    BY <1>11 DEF CancelPoint, CancellationPoint, Released, Lost
  <1>12. CASE ucli_shell_cleanup \/ FiniCancelled
    BY <1>12 DEF ucli_shell_cleanup, FiniCancelled, Released, Lost
  <1>13. CASE pthread_cancel \/ UNCHANGED vars
    BY <1>13 DEF pthread_cancel, vars, Lost
  <1>14. CASE LoadFiles
    BY <1>14 DEF LoadFiles, Opendir, XmlReadStarts, XmlReadReturns, Closedir
  <1>15. CASE LoadAndPush
    BY <1>15 DEF LoadAndPush
  <1> QED
    BY <1>1, <1>2, <1>3, <1>4, <1>5, <1>6, <1>7, <1>8, <1>9, <1>10, <1>11, <1>12, <1>13, <1>14, <1>15
    DEF Next, Thread, Ended

(* The client is asked to run a typed command only with arguments that have been
   parsed for it, whatever the user pressed before. *)
THEOREM ParsedCorrect == Spec => []OnlyParsedCommandsRun
  <1>1. HeldInv => OnlyParsedCommandsRun
    BY DEF HeldInv, HeldAsPlaced, CommandOfLine, OnlyParsedCommandsRun, ContextHeld
  <1> QED
    BY <1>1, HeldInit, HeldStep, PTL DEF Spec

(* A session that is over has closed the streams it opened and freed its objects,
   but for what the functions had in hand that it was cancelled in; when nodes can
   be allocated. *)
THEOREM CleanupCorrect ==
  ASSUME ~AllocFails
  PROVE  Spec => []NothingLeft
  <1>1. Init => TypeInv /\ StackInv /\ HeldInv
    BY TypeInit, StackInit, HeldInit
  <1>2. TypeInv /\ StackInv /\ HeldInv /\ [Next]_vars => TypeInv' /\ StackInv' /\ HeldInv'
    BY TypeStep, StackStep, HeldStep
  <1>3. ASSUME StackInv, HeldInv, DoneEmpty PROVE NothingLeft
    <2>1. pc = "done" => held \subseteq Lost
      BY <1>3 DEF HeldInv, HeldAsPlaced
    <2>2. pc = "done" /\ at # "ending" => open = {}
      BY <1>3 DEF DoneEmpty, StackInv, OpenFilesOwned, StackFiles, ToSet
    <2> QED
      BY <2>1, <2>2 DEF NothingLeft
  <1>4. Init => DoneEmpty
    BY DEF Init, DoneEmpty
  <1>5. DoneEmpty /\ [Next]_vars => DoneEmpty'
    BY Steps DEF DoneEmpty, Idle, ucli_shell_cleanup, FiniCancelled
  <1> QED
    BY <1>1, <1>2, <1>3, <1>4, <1>5, PTL DEF Spec

(* Of the objects this holds whether or not nodes can be allocated. *)
THEOREM LeakBounded == Spec => [](pc = "done" => held \subseteq Lost)
  <1>1. HeldInv => (pc = "done" => held \subseteq Lost)
    BY DEF HeldInv, HeldAsPlaced
  <1> QED
    BY <1>1, HeldInit, HeldStep, PTL DEF Spec
-----------------------------------------------------------------------------
(* Leaving files.  An error in a script takes the thread to the bottom of the
   loop and stands until its top; the loop variable is cleared for the bottom of
   the loop only; and there a file that is left has a reason to be. *)

ErrorAhead == state = "SCRIPT_ERROR" => pc \in {"unwind", "test", "loop", "ending", "cleanup", "done"}

RunsOn == ~running => pc \in {"unwind", "test", "ending", "cleanup", "done"}

LeftForAReason ==
  pc = "unwind" /\ files # <<>> /\ Unwinds
    => Last(files).fate = "eof" \/ state = "CLOSING" \/ (state = "SCRIPT_ERROR" /\ ~isatty)

LeaveInv == InputIsTop /\ ErrorAhead /\ RunsOn /\ LeftForAReason

(* Marking the current file leaves the stream it reads from alone. *)
LEMMA FateTop ==
  ASSUME files \in Seq(Node), files # <<>>, NEW x \in {"live", "eof", "error"}
  PROVE  Fate(x) # <<>> /\ Last(Fate(x)).file = Last(files).file /\ Last(Fate(x)).fate = x
  <1>1. Fate(x) = Marked(files, x)
    BY DEF Fate, Marked
  <1>2. Len(files) \in 1 .. Len(files) /\ Len(files) \in Nat \ {0}
    BY EmptySeq
  <1>3. Marked(files, x) \in Seq(Node) /\ Len(Marked(files, x)) = Len(files)
        /\ Marked(files, x)[Len(files)].file = files[Len(files)].file
    BY <1>2, MarkNode
  <1>4. Marked(files, x)[Len(files)].fate = x
    <2>1. files[Len(files)] \in Node
      BY <1>2, ElementOfSeq
    <2> QED
      BY <1>2, <2>1 DEF Marked, Node
  <1> QED
    BY <1>1, <1>2, <1>3, <1>4, EmptySeq DEF Last

LEMMA LeaveInit == Init => LeaveInv
  BY DEF Init, LeaveInv, InputIsTop, ErrorAhead, RunsOn, LeftForAReason

LEMMA LeaveStep == TypeInv /\ LeaveInv /\ [Next]_vars => LeaveInv'
  <1> SUFFICES ASSUME TypeInv, LeaveInv, [Next]_vars PROVE LeaveInv'
    OBVIOUS
  <1> USE DEF LeaveInv, InputIsTop, ErrorAhead, RunsOn, LeftForAReason, Unwinds, isatty
  <1>1. files \in Seq(Node)
    BY DEF TypeInv, TypeOK
  <1>2. ASSUME NEW f, NEW b, ucli_shell_push_file(f, b), f \in File, b \in BOOLEAN PROVE InputIsTop'
    <2>1. [file |-> f, stop |-> b, fate |-> "live"] \in Node
      BY <1>2 DEF Node
    <2>2. CASE UNCHANGED <<files, istream>>
      BY <2>2
    <2>3. CASE files' = Append(files, [file |-> f, stop |-> b, fate |-> "live"]) /\ istream' = f
      BY <1>1, <2>1, <2>3, PushNode, LenProperties DEF Last
    <2> QED
      BY <1>2, <2>2, <2>3 DEF ucli_shell_push_file
  <1>18. CASE InitReturns \/ LoadFiles \/ BuiltinStarts \/ FiniCancelled
    BY <1>18 DEF InitReturns, LoadFiles, BuiltinStarts, Acts, FiniCancelled
  <1>3. CASE ShellNew \/ ucli_shell_startup \/ LoopTop \/ ReadlineRefused \/ ReadlineStarts
    BY <1>3 DEF ShellNew, ucli_shell_startup, LoopTop, StartsAfresh, ReadlineRefused, Refused, ReadlineStarts
  <1>4. CASE LoadAndPush
    BY <1>2, <1>4 DEF LoadAndPush
  <1>5. CASE EndOfInput
    <2>1. UNCHANGED <<istream, state>> /\ files' = Fate("eof") /\ pc' = "unwind" /\ pc = "reading"
      BY <1>5 DEF EndOfInput, Reading, NoLine
    <2>2. CASE files = <<>>
      BY <2>1, <2>2 DEF Fate
    <2>3. CASE files # <<>>
      BY <1>1, <2>1, <2>3, FateTop
    <2> QED
      BY <2>2, <2>3
  <1>6. CASE ScriptBad
    <2>1. /\ UNCHANGED istream /\ ~isatty /\ files' = Fate("error")
          /\ pc' = "unwind" /\ state' = "SCRIPT_ERROR"
      BY <1>6 DEF ScriptBad, NextLine, Reading, NoLine
    <2>2. CASE files = <<>>
      BY <2>1, <2>2 DEF Fate
    <2>3. CASE files # <<>>
      BY <1>1, <2>1, <2>3, FateTop
    <2> QED
      BY <2>2, <2>3
  <1>7. CASE ScriptBlank \/ \E c \in Command : ScriptLine(c)
    BY <1>7 DEF ScriptBlank, ScriptLine, NextLine, Reading, LineRead
  <1>8. CASE User
    BY <1>8 DEF User, ucli_shell_help, KeyComplete, tinyrl_key_interrupt, KeyEnterBadParam,
                KeyEnterOk, Reading, LineRead
  <1>9. CASE CmdLineHook \/ ScriptReturns
    BY <1>9 DEF CmdLineHook, ScriptReturns, Returns
  <1>10. CASE ucli_close \/ SourceFails \/ Builtin \/ NoAction \/ ScriptStarts
    BY <1>10 DEF ucli_close, SourceFails, Builtin, NoAction, ScriptStarts, Acts, BuiltinReturns, Returns
  <1>11. ASSUME NEW f \in File, ucli_source_internal(f) PROVE LeaveInv'
    <2>1. InputIsTop'
      BY <1>2, <1>11 DEF ucli_source_internal
    <2> QED
      BY <1>11, <2>1 DEF ucli_source_internal, Acts, BuiltinReturns, Returns
  <1>12. CASE StartupReturns \/ CommandSucceeds
    BY <1>12 DEF StartupReturns, CommandSucceeds
  <1>13. CASE CommandFails
    <2>1. pc = "returned" /\ UNCHANGED <<istream, running>> /\ pc' \in {"unwind", "crashed"}
      BY <1>13 DEF CommandFails
    <2>2. CASE UNCHANGED <<state, files>>
      BY <2>1, <2>2
    <2>3. CASE files # <<>> /\ StopsOnError /\ state' = "SCRIPT_ERROR" /\ files' = Fate("error") /\ pc' = "unwind"
      BY <1>1, <2>1, <2>3, FateTop DEF StopsOnError
    <2> QED
      BY <1>13, <2>2, <2>3 DEF CommandFails
  <1>14. CASE Unwind
    BY <1>14 DEF Unwind, ucli_shell_pop_file
  <1>15. CASE pthread_testcancel \/ CancelPoint
    BY <1>15 DEF pthread_testcancel, CancelPoint
  <1>16. CASE ucli_shell_cleanup
    BY <1>16 DEF ucli_shell_cleanup
  <1>17. CASE pthread_cancel \/ UNCHANGED vars
    BY <1>17 DEF pthread_cancel, vars
  <1> QED
    BY <1>3, <1>4, <1>5, <1>6, <1>7, <1>8, <1>9, <1>10, <1>11, <1>12, <1>13, <1>14, <1>15, <1>16, <1>17, <1>18
    DEF Next, Thread, Execute, ReadScript, Ended

(* A file is left before the clean-up because it has ended, because the session
   is closing or because an error in a script is unwinding it, and an error
   never unwinds a terminal, in every session. *)
THEOREM LeaveCorrect == Spec => FilesLeftForAReason
  <1> DEFINE Reason == \/ Last(files).fate = "eof"
                       \/ state = "CLOSING"
                       \/ state = "SCRIPT_ERROR" /\ Last(files).file \notin Tty
  <1>1. ASSUME TypeInv, LeaveInv, [Next]_vars, Popped PROVE Reason
    <2>1. files \in Seq(Node) /\ files' \in Seq(Node) /\ Len(files') < Len(files) /\ pc = "unwind"
      BY <1>1, TypeStep DEF Popped, TypeInv, TypeOK
    <2>2. Unwinds
      BY <1>1, <2>1, Steps DEF Unwind, Idle
    <2>3. files # <<>>
      BY <2>1, EmptySeq, LenProperties
    <2> QED
      BY <1>1, <2>1, <2>2, <2>3 DEF LeaveInv, InputIsTop, LeftForAReason, isatty
  <1>2. TypeInv /\ LeaveInv /\ [Next]_vars => [Popped => Reason]_vars
    BY <1>1
  <1>3. Init => TypeInv /\ LeaveInv
    BY TypeInit, LeaveInit
  <1>4. TypeInv /\ LeaveInv /\ [Next]_vars => TypeInv' /\ LeaveInv'
    BY TypeStep, LeaveStep
  <1> QED
    BY <1>2, <1>3, <1>4, PTL DEF Spec, FilesLeftForAReason

(* After an error in a script no line is read and no command executed until a
   terminal is reached, in every session. *)
THEOREM ErrorCorrect == Spec => ErrorStopsParents
  <1> DEFINE Stops == pc' \notin {"readline", "reading", "execute", "startup"}
                      /\ (state' = state \/ state' = "SCRIPT_ERROR")
  <1>1. ASSUME LeaveInv, [Next]_vars, state = "SCRIPT_ERROR", ~isatty PROVE Stops
    <2>1. pc \in {"unwind", "test", "loop", "ending", "cleanup", "done"}
      BY <1>1 DEF LeaveInv, ErrorAhead
    <2> QED
      BY <1>1, <2>1, Steps
      DEF Idle, Unwind, pthread_testcancel, LoopTop, StartsAfresh, ucli_shell_cleanup, FiniCancelled
  <1>2. LeaveInv /\ [Next]_vars => [state = "SCRIPT_ERROR" /\ ~isatty => Stops]_vars
    BY <1>1
  <1>3. Init => TypeInv /\ LeaveInv
    BY TypeInit, LeaveInit
  <1>4. TypeInv /\ LeaveInv /\ [Next]_vars => TypeInv' /\ LeaveInv'
    BY TypeStep, LeaveStep
  <1> QED
    BY <1>2, <1>3, <1>4, PTL DEF Spec, ErrorStopsParents

-----------------------------------------------------------------------------
(* Shell implements Session: every step of the thread is a step of the abstract
   session or leaves it unchanged.  On the way, that a closing session stays closing. *)

(* Where a closing session can be: on its way from ucli_close to the bottom of
   the loop, or from there to a refused line and out.  Nothing there sets the
   state; in particular ucli_close has not failed. *)
ClosingInv ==
  state = "CLOSING" =>
    \/ pc \in {"unwind", "test", "loop", "readline", "ending", "cleanup", "done"}
    \/ pc = "returned" /\ ok

(* The startup command is executed before the loop is entered. *)
BootInv ==
  /\ pc \in {"new", "init", "load", "startup"} => boot
  /\ pc \in {"loop", "readline", "reading", "entered", "unwind", "test"} => ~boot

LEMMA PhaseInit == Init => ClosingInv /\ BootInv
  BY DEF Init, ClosingInv, BootInv

LEMMA ClosingStep ==
  TypeInv /\ ClosingInv /\ [Next]_vars
    => ClosingInv' /\ (state = "CLOSING" => state' = "CLOSING")
  <1> SUFFICES ASSUME TypeInv, ClosingInv, [Next]_vars
               PROVE  ClosingInv' /\ (state = "CLOSING" => state' = "CLOSING")
    OBVIOUS
  <1> DEFINE Goal == ClosingInv' /\ (state = "CLOSING" => state' = "CLOSING")
  <1> USE DEF ClosingInv
  <1>1. CASE ShellNew
    BY <1>1 DEF ShellNew
  <1>33. CASE InitReturns
    BY <1>33 DEF InitReturns
  <1>34. CASE LoadFiles
    BY <1>34 DEF LoadFiles
  <1>35. CASE BuiltinStarts
    BY <1>35 DEF BuiltinStarts, Acts
  <1>36. CASE FiniCancelled
    BY <1>36 DEF FiniCancelled
  <1>2. CASE LoadAndPush
    BY <1>2 DEF LoadAndPush
  <1>3. CASE ucli_shell_startup
    BY <1>3 DEF ucli_shell_startup
  <1>4. CASE LoopTop
    BY <1>4 DEF LoopTop, StartsAfresh
  <1>5. CASE ReadlineRefused
    BY <1>5 DEF ReadlineRefused, Refused
  <1>6. CASE ReadlineStarts
    BY <1>6 DEF ReadlineStarts, Refused
  <1>7. CASE EndOfInput
    BY <1>7 DEF EndOfInput, Reading, NoLine
  <1>8. CASE ucli_shell_help
    BY <1>8 DEF ucli_shell_help, Reading
  <1>9. CASE KeyComplete
    BY <1>9 DEF KeyComplete, Reading
  <1>10. ASSUME NEW c \in Command, KeyEnterBadParam(c) PROVE Goal
    BY <1>10 DEF KeyEnterBadParam, Reading
  <1>11. ASSUME NEW c \in Command, KeyEnterOk(c) PROVE Goal
    BY <1>11 DEF KeyEnterOk, Reading, LineRead
  <1>12. CASE tinyrl_key_interrupt
    BY <1>12 DEF tinyrl_key_interrupt, Reading, LineRead
  <1>13. ASSUME NEW c \in Command, ScriptLine(c) PROVE Goal
    BY <1>13 DEF ScriptLine, NextLine, Reading, LineRead
  <1>14. CASE ScriptBlank
    BY <1>14 DEF ScriptBlank, NextLine, Reading, LineRead
  <1>15. CASE ScriptBad
    BY <1>15 DEF ScriptBad, NextLine, Reading, NoLine
  <1>16. CASE CmdLineHook
    BY <1>16 DEF CmdLineHook
  <1>17. CASE ucli_close
    BY <1>17 DEF ucli_close, Acts, BuiltinReturns, Returns
  <1>18. CASE SourceFails
    BY <1>18 DEF SourceFails, Acts, BuiltinReturns, Returns
  <1>19. ASSUME NEW f \in File, ucli_source_internal(f) PROVE Goal
    BY <1>19 DEF ucli_source_internal, Acts, BuiltinReturns, Returns
  <1>20. CASE Builtin
    BY <1>20 DEF Builtin, Acts, BuiltinReturns, Returns
  <1>21. CASE NoAction
    BY <1>21 DEF NoAction, Acts, BuiltinReturns, Returns
  <1>22. CASE ScriptStarts
    BY <1>22 DEF ScriptStarts, Acts
  <1>23. CASE ScriptReturns
    BY <1>23 DEF ScriptReturns, Returns
  <1>24. CASE StartupReturns
    BY <1>24 DEF StartupReturns
  <1>25. CASE CommandSucceeds
    BY <1>25 DEF CommandSucceeds
  <1>26. CASE CommandFails
    BY <1>26 DEF CommandFails
  <1>27. CASE Unwind
    BY <1>27 DEF Unwind
  <1>28. CASE pthread_testcancel
    BY <1>28 DEF pthread_testcancel
  <1>29. CASE CancelPoint
    BY <1>29 DEF CancelPoint, CancellationPoint
  <1>30. CASE ucli_shell_cleanup
    BY <1>30 DEF ucli_shell_cleanup
  <1>31. CASE pthread_cancel
    BY <1>31 DEF pthread_cancel
  <1>32. CASE UNCHANGED vars
    BY <1>32 DEF vars
  <1> QED
    BY <1>1, <1>2, <1>3, <1>4, <1>5, <1>6, <1>7, <1>8, <1>9, <1>10, <1>11, <1>12, <1>13, <1>14,
       <1>15, <1>16, <1>17, <1>18, <1>19, <1>20, <1>21, <1>22, <1>23, <1>24, <1>25, <1>26,
       <1>27, <1>28, <1>29, <1>30, <1>31, <1>32,
       <1>33, <1>34, <1>35, <1>36
    DEF Next, Thread, Execute, ReadScript, User, Ended

LEMMA BootStep == BootInv /\ [Next]_vars => BootInv'
  <1> SUFFICES ASSUME BootInv, [Next]_vars PROVE BootInv'
    OBVIOUS
  <1> USE DEF BootInv
  <1>1. CASE ShellNew
    BY <1>1 DEF ShellNew
  <1>33. CASE InitReturns
    BY <1>33 DEF InitReturns
  <1>34. CASE LoadFiles
    BY <1>34 DEF LoadFiles
  <1>35. CASE BuiltinStarts
    BY <1>35 DEF BuiltinStarts, Acts
  <1>36. CASE FiniCancelled
    BY <1>36 DEF FiniCancelled
  <1>2. CASE LoadAndPush
    BY <1>2 DEF LoadAndPush
  <1>3. CASE ucli_shell_startup
    BY <1>3 DEF ucli_shell_startup
  <1>4. CASE LoopTop
    BY <1>4 DEF LoopTop, StartsAfresh
  <1>5. CASE ReadlineRefused
    BY <1>5 DEF ReadlineRefused, Refused
  <1>6. CASE ReadlineStarts
    BY <1>6 DEF ReadlineStarts, Refused
  <1>7. CASE EndOfInput
    BY <1>7 DEF EndOfInput, Reading, NoLine
  <1>8. CASE ucli_shell_help
    BY <1>8 DEF ucli_shell_help, Reading
  <1>9. CASE KeyComplete
    BY <1>9 DEF KeyComplete, Reading
  <1>10. ASSUME NEW c \in Command, KeyEnterBadParam(c) PROVE BootInv'
    BY <1>10 DEF KeyEnterBadParam, Reading
  <1>11. ASSUME NEW c \in Command, KeyEnterOk(c) PROVE BootInv'
    BY <1>11 DEF KeyEnterOk, Reading, LineRead
  <1>12. CASE tinyrl_key_interrupt
    BY <1>12 DEF tinyrl_key_interrupt, Reading, LineRead
  <1>13. ASSUME NEW c \in Command, ScriptLine(c) PROVE BootInv'
    BY <1>13 DEF ScriptLine, NextLine, Reading, LineRead
  <1>14. CASE ScriptBlank
    BY <1>14 DEF ScriptBlank, NextLine, Reading, LineRead
  <1>15. CASE ScriptBad
    BY <1>15 DEF ScriptBad, NextLine, Reading, NoLine
  <1>16. CASE CmdLineHook
    BY <1>16 DEF CmdLineHook
  <1>17. CASE ucli_close
    BY <1>17 DEF ucli_close, Acts, BuiltinReturns, Returns
  <1>18. CASE SourceFails
    BY <1>18 DEF SourceFails, Acts, BuiltinReturns, Returns
  <1>19. ASSUME NEW f \in File, ucli_source_internal(f) PROVE BootInv'
    BY <1>19 DEF ucli_source_internal, Acts, BuiltinReturns, Returns
  <1>20. CASE Builtin
    BY <1>20 DEF Builtin, Acts, BuiltinReturns, Returns
  <1>21. CASE NoAction
    BY <1>21 DEF NoAction, Acts, BuiltinReturns, Returns
  <1>22. CASE ScriptStarts
    BY <1>22 DEF ScriptStarts, Acts
  <1>23. CASE ScriptReturns
    BY <1>23 DEF ScriptReturns, Returns
  <1>24. CASE StartupReturns
    BY <1>24 DEF StartupReturns
  <1>25. CASE CommandSucceeds
    BY <1>25 DEF CommandSucceeds
  <1>26. CASE CommandFails
    BY <1>26 DEF CommandFails
  <1>27. CASE Unwind
    BY <1>27 DEF Unwind
  <1>28. CASE pthread_testcancel
    BY <1>28 DEF pthread_testcancel
  <1>29. CASE CancelPoint
    BY <1>29 DEF CancelPoint, CancellationPoint
  <1>30. CASE ucli_shell_cleanup
    BY <1>30 DEF ucli_shell_cleanup
  <1>31. CASE pthread_cancel
    BY <1>31 DEF pthread_cancel
  <1>32. CASE UNCHANGED vars
    BY <1>32 DEF vars
  <1> QED
    BY <1>1, <1>2, <1>3, <1>4, <1>5, <1>6, <1>7, <1>8, <1>9, <1>10, <1>11, <1>12, <1>13, <1>14,
       <1>15, <1>16, <1>17, <1>18, <1>19, <1>20, <1>21, <1>22, <1>23, <1>24, <1>25, <1>26,
       <1>27, <1>28, <1>29, <1>30, <1>31, <1>32,
       <1>33, <1>34, <1>35, <1>36
    DEF Next, Thread, Execute, ReadScript, User, Ended

(* ucli_close is final in every session: no help, completion, error, return to a
   parent file or new line takes it back. *)
THEOREM ClosingFinal == Spec => ClosingIsFinal
  <1>1. Init => TypeInv /\ ClosingInv
    BY TypeInit, PhaseInit
  <1>2. TypeInv /\ ClosingInv /\ [Next]_vars => TypeInv' /\ ClosingInv'
    BY TypeStep, ClosingStep
  <1>3. TypeInv /\ ClosingInv /\ [Next]_vars => [state = "CLOSING" => state' = "CLOSING"]_vars
    BY ClosingStep
  <1> QED
    BY <1>1, <1>2, <1>3, PTL DEF Spec, ClosingIsFinal
-----------------------------------------------------------------------------
(* The abstract sources are the files of the stack. *)

Sources(s) == [i \in DOMAIN s |-> s[i].file]

LEMMA SourcesType ==
  ASSUME NEW s \in Seq(Node)
  PROVE  /\ Sources(s) \in Seq(File)
         /\ Len(Sources(s)) = Len(s)
         /\ \A i \in 1 .. Len(s) : Sources(s)[i] = s[i].file
         /\ ToSet(Sources(s)) = {s[i].file : i \in 1 .. Len(s)}
  <1>1. DOMAIN s = 1 .. Len(s) /\ Len(s) \in Nat
    BY LenProperties
  <1>2. \A i \in 1 .. Len(s) : s[i].file \in File
    <2>1. \A i \in 1 .. Len(s) : s[i] \in Node
      BY ElementOfSeq
    <2> QED
      BY <2>1 DEF Node
  <1>3. Sources(s) \in [1 .. Len(s) -> File]
    BY <1>1, <1>2 DEF Sources
  <1>4. Sources(s) \in Seq(File) /\ Len(Sources(s)) = Len(s)
    BY <1>1, <1>3
  <1>5. \A i \in 1 .. Len(s) : Sources(s)[i] = s[i].file
    BY <1>1 DEF Sources
  <1>6. DOMAIN Sources(s) = 1 .. Len(s)
    BY <1>1 DEF Sources
  <1>7. ToSet(Sources(s)) = {s[i].file : i \in 1 .. Len(s)}
    BY <1>5, <1>6 DEF ToSet
  <1> QED
    BY <1>4, <1>5, <1>7

LEMMA SourcesSame ==
  ASSUME NEW s \in Seq(Node), NEW t \in Seq(Node), Len(t) = Len(s),
         \A i \in 1 .. Len(s) : t[i].file = s[i].file
  PROVE  Sources(t) = Sources(s)
  <1>1. DOMAIN s = 1 .. Len(s) /\ DOMAIN t = 1 .. Len(s)
    BY LenProperties
  <1> QED
    BY <1>1 DEF Sources

LEMMA SourcesPush ==
  ASSUME NEW s \in Seq(Node), NEW n \in Node
  PROVE  Sources(Append(s, n)) = Append(Sources(s), n.file)
  <1>1. Append(s, n) \in Seq(Node) /\ Sources(s) \in Seq(File) /\ n.file \in File
    <2>1. n.file \in File
      BY DEF Node
    <2> QED
      BY <2>1, SourcesType, PushNode
  <1> DEFINE t == Append(s, n)
             u == Append(Sources(s), n.file)
  <1>2. /\ Len(s) \in Nat
        /\ Len(t) = Len(s) + 1
        /\ t[Len(s) + 1] = n
        /\ \A i \in 1 .. Len(s) : t[i] = s[i]
    BY PushNode, LenProperties
  <1>3. /\ u \in Seq(File)
        /\ Len(u) = Len(s) + 1
        /\ u[Len(s) + 1] = n.file
        /\ \A i \in 1 .. Len(s) : u[i] = s[i].file
    BY <1>1, SourcesType, LenProperties
  <1>4. /\ Sources(t) \in Seq(File)
        /\ Len(Sources(t)) = Len(t)
        /\ \A i \in 1 .. Len(t) : Sources(t)[i] = t[i].file
    BY <1>1, SourcesType
  <1> HIDE DEF t, u
  <1>5. \A i \in 1 .. Len(u) : Sources(t)[i] = u[i]
    BY <1>2, <1>3, <1>4
  <1>6. Sources(t) = u
    BY <1>2, <1>3, <1>4, <1>5, SeqEqual
  <1> QED
    BY <1>6 DEF t, u

LEMMA SourcesPop ==
  ASSUME NEW s \in Seq(Node), s # <<>>
  PROVE  Sources(Front(s)) = Front(Sources(s))
  <1> DEFINE t == Front(s)
             r == Sources(s)
             n == Len(s) - 1
  <1>1. /\ t \in Seq(Node)
        /\ Len(s) \in Nat \ {0}
        /\ Len(t) = n
        /\ n \in Nat
        /\ \A i \in 1 .. n : t[i] = s[i]
    BY PopNode, EmptySeq
  <1>2. r \in Seq(File) /\ Len(r) = n + 1 /\ \A i \in 1 .. n + 1 : r[i] = s[i].file
    BY <1>1, SourcesType
  <1>3. Front(r) = SubSeq(r, 1, n)
    BY <1>1, <1>2 DEF Front
  <1> HIDE DEF t, r, n
  <1>4. \A i \in 1 .. n : r[i] \in File
    BY <1>1, <1>2, ElementOfSeq
  <1>5. /\ SubSeq(r, 1, n) \in Seq(File)
        /\ Len(SubSeq(r, 1, n)) = IF 1 <= n THEN n - 1 + 1 ELSE 0
        /\ \A i \in 1 .. n - 1 + 1 : SubSeq(r, 1, n)[i] = r[1 + i - 1]
    BY <1>1, <1>4, SubSeqProperties
  <1>6. Len(SubSeq(r, 1, n)) = n
    BY <1>1, <1>5
  <1>7. \A i \in 1 .. n : SubSeq(r, 1, n)[i] = s[i].file
    BY <1>1, <1>2, <1>5
  <1>8. Sources(t) \in Seq(File) /\ Len(Sources(t)) = n
        /\ \A i \in 1 .. n : Sources(t)[i] = s[i].file
    BY <1>1, SourcesType
  <1>9. Sources(t) = SubSeq(r, 1, n)
    BY ZenonT(30), <1>5, <1>6, <1>7, <1>8, SeqEqual
  <1> QED
    BY <1>3, <1>9 DEF t, r
-----------------------------------------------------------------------------
SessionInv == TypeInv /\ StackInv /\ ClosingInv /\ BootInv

(* The sources as Abstract is given them. *)
src == [i \in DOMAIN files |-> files[i].file]

LEMMA SrcIsSources == src = Sources(files) /\ src' = Sources(files')
  BY DEF src, Sources

LEMMA AbstractInit == Init => Abstract!SInit
  <1> SUFFICES ASSUME Init PROVE Abstract!SInit
    OBVIOUS
  <1>1. phase = "starting"
    BY DEF Init, phase
  <1>2. files = <<>> /\ [i \in DOMAIN files |-> files[i].file] = <<>>
    BY DEF Init
  <1> QED
    BY <1>1, <1>2 DEF Abstract!SInit

(* The phase changes with the end of the thread, with the closing of the session
   and with its first file, and with nothing else. *)
SamePhase ==
  /\ pc # "done" /\ pc' # "done"
  /\ state = "CLOSING" <=> state' = "CLOSING"
  /\ boot /\ files = <<>> <=> boot' /\ files' = <<>>

LEMMA StutterStep ==
  ASSUME SamePhase, UNCHANGED files
  PROVE  UNCHANGED Abstract!svars
  <1>1. phase' = phase
    BY DEF SamePhase, phase
  <1> QED
    BY <1>1 DEF Abstract!svars

(* A mark on the top of the stack does not show. *)
LEMMA MarkStep ==
  ASSUME TypeInv, SamePhase, files # <<>>, NEW x \in {"live", "eof", "error"},
         files' = Fate(x)
  PROVE  UNCHANGED Abstract!svars
  <1>1. phase' = phase
    BY DEF SamePhase, phase
  <1>2. files \in Seq(Node)
    BY DEF TypeInv, TypeOK
  <1>3. files' = Marked(files, x)
    BY DEF Fate, Marked
  <1>4. /\ files' \in Seq(Node)
        /\ Len(files') = Len(files)
        /\ \A i \in 1 .. Len(files) : files'[i].file = files[i].file
    BY <1>2, <1>3, MarkNode
  <1>5. src' = src
    BY <1>2, <1>4, SourcesSame, SrcIsSources
  <1> QED
    BY <1>1, <1>5 DEF Abstract!svars, src

(* A push adds a source that was not there. *)
LEMMA PushStep ==
  ASSUME ~AllocFails, TypeInv, StackInv, NEW f \in File, NEW b \in BOOLEAN,
         OpenStream(f), ucli_shell_push_file(f, b)
  PROVE  src' = Append(src, f) /\ f \notin ToSet(src)
  <1> DEFINE n == [file |-> f, stop |-> b, fate |-> "live"]
  <1>1. n \in Node /\ n.file = f
    BY DEF Node
  <1>2. files' = Append(files, n) /\ f \notin open
    BY DEF ucli_shell_push_file, OpenStream
  <1>3. files \in Seq(Node)
    BY DEF TypeInv, TypeOK
  <1> HIDE DEF n
  <1>4. src' = Append(src, f)
    BY <1>1, <1>2, <1>3, SourcesPush, SrcIsSources
  <1>5. open = ToSet(src)
    BY <1>3, StackSet, SourcesType, SrcIsSources DEF StackInv, OpenFilesOwned, StackFiles
  <1> QED
    BY <1>2, <1>4, <1>5

LEMMA PopStep ==
  ASSUME TypeInv, files # <<>>, files' = Front(files)
  PROVE  src' = Front(src) /\ src # <<>>
  <1>1. files \in Seq(Node)
    BY DEF TypeInv, TypeOK
  <1>2. src' = Front(src)
    BY <1>1, SourcesPop, SrcIsSources
  <1>3. Len(src) = Len(files) /\ src \in Seq(File)
    BY <1>1, SourcesType, SrcIsSources
  <1>4. src # <<>>
    BY <1>1, <1>3, EmptySeq
  <1> QED
    BY <1>2, <1>4

LEMMA AbstractStep ==
  ASSUME ~AllocFails
  PROVE  SessionInv /\ [Next]_vars => [Abstract!SNext]_(Abstract!svars)
  <1> SUFFICES ASSUME SessionInv, [Next]_vars PROVE [Abstract!SNext]_(Abstract!svars)
    OBVIOUS
  <1> USE DEF SessionInv
  <1> DEFINE Goal == [Abstract!SNext]_(Abstract!svars)
  <1>1. CASE ShellNew
    <2>1. SamePhase /\ UNCHANGED files
      BY <1>1 DEF ShellNew, SamePhase, ClosingInv, BootInv, StackInv, FileWhereNeeded, NeedsFile
    <2> QED
      BY <2>1, StutterStep
  <1>33. CASE InitReturns
    <2>1. pc = "init" /\ pc' # "done" /\ boot /\ boot' /\ files = <<>> /\ files' = files
      BY <1>33 DEF InitReturns, BootInv, StackInv, FileWhereNeeded
    <2>2. state # "CLOSING"
      BY <2>1 DEF ClosingInv
    <2>3. CASE state' = state
      BY <2>1, <2>2, <2>3, StutterStep DEF SamePhase
    <2>4. CASE state' = "CLOSING"
      <3>1. phase = "starting" /\ phase' = "closing"
        BY <2>1, <2>2, <2>4 DEF phase
      <3> QED
        BY <2>1, <3>1 DEF Abstract!SNext, Abstract!Refuse
    <2> QED
      BY <1>33, <2>3, <2>4 DEF InitReturns
  <1>34. CASE LoadFiles
    <2>1. SamePhase /\ UNCHANGED files
      BY <1>34 DEF LoadFiles, SamePhase, ClosingInv, BootInv, StackInv, FileWhereNeeded, NeedsFile
    <2> QED
      BY <2>1, StutterStep
  <1>35. CASE BuiltinStarts
    <2>1. SamePhase /\ UNCHANGED files
      BY <1>35 DEF BuiltinStarts, Acts, SamePhase, ClosingInv, BootInv, StackInv, FileWhereNeeded, NeedsFile
    <2> QED
      BY <2>1, StutterStep
  <1>36. CASE FiniCancelled
    <2>1. pc = "ending" /\ pc' = "done" /\ files' = files
      BY <1>36 DEF FiniCancelled
    <2>2. phase # "ended" /\ phase' = "ended"
      BY <2>1 DEF phase
    <2> QED
      BY <2>1, <2>2 DEF Abstract!SNext, Abstract!Abandon
  <1>2. CASE LoadAndPush
    <2>1. PICK f \in File : OpenStream(f) /\ ucli_shell_push_file(f, TRUE)
      BY <1>2 DEF LoadAndPush
    <2>2. src' = Append(src, f)
      BY <2>1, PushStep
    <2>3. pc = "load" /\ pc' = "startup" /\ boot /\ boot' /\ files = <<>> /\ UNCHANGED state
      BY <1>2 DEF LoadAndPush, BootInv, StackInv, FileWhereNeeded
    <2>4. state # "CLOSING" /\ files' # <<>>
      <3>1. Len(src') = 1
        BY <2>2, <2>3 DEF src
      <3> QED
        BY <2>3, <3>1 DEF ClosingInv, src
    <2>5. phase = "starting" /\ phase' = "open"
      BY <2>3, <2>4 DEF phase
    <2>6. src' = <<f>>
      BY <2>2, <2>3 DEF src
    <2> QED
      BY <2>5, <2>6 DEF Abstract!SNext, Abstract!Begin, src
  <1>3. CASE ucli_shell_startup
    <2>1. SamePhase /\ UNCHANGED files
      BY <1>3 DEF ucli_shell_startup, SamePhase, ClosingInv, BootInv, StackInv, FileWhereNeeded, NeedsFile
    <2> QED
      BY <2>1, StutterStep
  <1>4. CASE LoopTop
    <2>1. SamePhase /\ UNCHANGED files
      BY <1>4 DEF LoopTop, StartsAfresh, SamePhase, ClosingInv, BootInv, StackInv, FileWhereNeeded, NeedsFile
    <2> QED
      BY <2>1, StutterStep
  <1>5. CASE ReadlineRefused
    <2>1. SamePhase /\ UNCHANGED files
      BY <1>5 DEF ReadlineRefused, Refused, SamePhase, ClosingInv, BootInv, StackInv, FileWhereNeeded, NeedsFile
    <2> QED
      BY <2>1, StutterStep
  <1>6. CASE ReadlineStarts
    <2>1. SamePhase /\ UNCHANGED files
      BY <1>6 DEF ReadlineStarts, Refused, SamePhase, ClosingInv, BootInv, StackInv, FileWhereNeeded, NeedsFile
    <2> QED
      BY <2>1, StutterStep
  <1>7. CASE EndOfInput
    <2>1. SamePhase /\ files # <<>> /\ files' = Fate("eof")
      <3>1. pc = "reading" /\ pc' = "unwind" /\ files # <<>> /\ ~boot /\ ~boot' /\ files' = Fate("eof")
        BY <1>7 DEF EndOfInput, Reading, NoLine, BootInv, StackInv, FileWhereNeeded, NeedsFile
      <3>2. state # "CLOSING" /\ state' # "CLOSING"
        BY <1>7, <3>1 DEF EndOfInput, ClosingInv
      <3> QED
        BY <3>1, <3>2 DEF SamePhase
    <2> QED
      BY <2>1, MarkStep
  <1>8. CASE ucli_shell_help
    <2>1. SamePhase /\ UNCHANGED files
      BY <1>8 DEF ucli_shell_help, Reading, SamePhase, ClosingInv, BootInv, StackInv, FileWhereNeeded, NeedsFile
    <2> QED
      BY <2>1, StutterStep
  <1>9. CASE KeyComplete
    <2>1. SamePhase /\ UNCHANGED files
      BY <1>9 DEF KeyComplete, Reading, SamePhase, ClosingInv, BootInv, StackInv, FileWhereNeeded, NeedsFile
    <2> QED
      BY <2>1, StutterStep
  <1>10. ASSUME NEW c \in Command, KeyEnterBadParam(c) PROVE Goal
    <2>1. SamePhase /\ UNCHANGED files
      BY <1>10 DEF KeyEnterBadParam, Reading, SamePhase, ClosingInv, BootInv, StackInv, FileWhereNeeded, NeedsFile
    <2> QED
      BY <2>1, StutterStep
  <1>11. ASSUME NEW c \in Command, KeyEnterOk(c) PROVE Goal
    <2>1. SamePhase /\ UNCHANGED files
      BY <1>11 DEF KeyEnterOk, Reading, LineRead, SamePhase, ClosingInv, BootInv, StackInv, FileWhereNeeded, NeedsFile
    <2> QED
      BY <2>1, StutterStep
  <1>12. CASE tinyrl_key_interrupt
    <2>1. SamePhase /\ UNCHANGED files
      BY <1>12 DEF tinyrl_key_interrupt, Reading, LineRead, SamePhase, ClosingInv, BootInv, StackInv, FileWhereNeeded, NeedsFile
    <2> QED
      BY <2>1, StutterStep
  <1>13. ASSUME NEW c \in Command, ScriptLine(c) PROVE Goal
    <2>1. SamePhase /\ UNCHANGED files
      BY <1>13 DEF ScriptLine, NextLine, Reading, LineRead, SamePhase, ClosingInv, BootInv, StackInv, FileWhereNeeded, NeedsFile
    <2> QED
      BY <2>1, StutterStep
  <1>14. CASE ScriptBlank
    <2>1. SamePhase /\ UNCHANGED files
      BY <1>14 DEF ScriptBlank, NextLine, Reading, LineRead, SamePhase, ClosingInv, BootInv, StackInv, FileWhereNeeded, NeedsFile
    <2> QED
      BY <2>1, StutterStep
  <1>15. CASE ScriptBad
    <2>1. SamePhase /\ files # <<>> /\ files' = Fate("error")
      <3>1. pc = "reading" /\ pc' = "unwind" /\ files # <<>> /\ ~boot /\ ~boot' /\ files' = Fate("error")
        BY <1>15 DEF ScriptBad, NextLine, Reading, NoLine, BootInv, StackInv, FileWhereNeeded, NeedsFile
      <3>2. state # "CLOSING" /\ state' # "CLOSING"
        BY <1>15, <3>1 DEF ScriptBad, ClosingInv
      <3> QED
        BY <3>1, <3>2 DEF SamePhase
    <2> QED
      BY <2>1, MarkStep
  <1>16. CASE CmdLineHook
    <2>1. SamePhase /\ UNCHANGED files
      BY <1>16 DEF CmdLineHook, SamePhase, ClosingInv, BootInv, StackInv, FileWhereNeeded, NeedsFile
    <2> QED
      BY <2>1, StutterStep
  <1>17. CASE ucli_close
    <2>1. pc = "builtin" /\ pc' = "returned" /\ state' = "CLOSING" /\ UNCHANGED files
      BY <1>17 DEF ucli_close, Acts, BuiltinReturns, Returns
    <2>2. state # "CLOSING" /\ files # <<>>
      BY <2>1 DEF ClosingInv, StackInv, FileWhereNeeded, NeedsFile
    <2>3. phase = "open" /\ phase' = "closing"
      BY <2>1, <2>2 DEF phase
    <2> QED
      BY <2>1, <2>3 DEF Abstract!SNext, Abstract!Close
  <1>18. CASE SourceFails
    <2>1. SamePhase /\ UNCHANGED files
      BY <1>18 DEF SourceFails, Acts, BuiltinReturns, Returns, SamePhase, ClosingInv, BootInv, StackInv, FileWhereNeeded, NeedsFile
    <2> QED
      BY <2>1, StutterStep
  <1>19. ASSUME NEW f \in File, ucli_source_internal(f) PROVE Goal
    <2>1. /\ (cmd.act = "source") \in BOOLEAN
          /\ OpenStream(f) /\ ucli_shell_push_file(f, cmd.act = "source")
      BY <1>19 DEF ucli_source_internal
    <2>2. src' = Append(src, f) /\ f \notin ToSet(src)
      BY <2>1, PushStep
    <2>3. /\ pc = "builtin" /\ pc' = "returned" /\ files # <<>> /\ UNCHANGED state
          /\ state # "CLOSING"
      BY <1>19 DEF ucli_source_internal, Acts, BuiltinReturns, Returns, ClosingInv, StackInv,
                   FileWhereNeeded, NeedsFile
    <2>4. files' # <<>>
      <3>1. files' \in Seq(Node) /\ files' = Append(files, [file |-> f, stop |-> cmd.act = "source",
                                                          fate |-> "live"])
        BY <2>1, PushType DEF ucli_shell_push_file, TypeInv
      <3>2. Len(files') = Len(files) + 1 /\ Len(files) \in Nat
        BY <3>1, LenProperties DEF TypeInv, TypeOK
      <3> QED
        BY <3>2
    <2>5. phase = "open" /\ phase' = "open"
      BY <2>3, <2>4 DEF phase
    <2>6. Abstract!Source(f)
      BY <2>2, <2>5, Zenon DEF Abstract!Source, Abstract!ToSet, ToSet, src
    <2> QED
      BY <2>6 DEF Abstract!SNext
  <1>20. CASE Builtin
    <2>1. SamePhase /\ UNCHANGED files
      BY <1>20 DEF Builtin, Acts, BuiltinReturns, Returns, SamePhase, ClosingInv, BootInv, StackInv, FileWhereNeeded, NeedsFile
    <2> QED
      BY <2>1, StutterStep
  <1>21. CASE NoAction
    <2>1. SamePhase /\ UNCHANGED files
      BY <1>21 DEF NoAction, Acts, BuiltinReturns, Returns, SamePhase, ClosingInv, BootInv, StackInv, FileWhereNeeded, NeedsFile
    <2> QED
      BY <2>1, StutterStep
  <1>22. CASE ScriptStarts
    <2>1. SamePhase /\ UNCHANGED files
      BY <1>22 DEF ScriptStarts, Acts, SamePhase, ClosingInv, BootInv, StackInv, FileWhereNeeded, NeedsFile
    <2> QED
      BY <2>1, StutterStep
  <1>23. CASE ScriptReturns
    <2>1. SamePhase /\ UNCHANGED files
      BY <1>23 DEF ScriptReturns, Returns, SamePhase, ClosingInv, BootInv, StackInv, FileWhereNeeded, NeedsFile
    <2> QED
      BY <2>1, StutterStep
  <1>24. CASE StartupReturns
    <2>1. SamePhase /\ UNCHANGED files
      BY <1>24 DEF StartupReturns, SamePhase, ClosingInv, BootInv, StackInv, FileWhereNeeded, NeedsFile
    <2> QED
      BY <2>1, StutterStep
  <1>25. CASE CommandSucceeds
    <2>1. SamePhase /\ UNCHANGED files
      BY <1>25 DEF CommandSucceeds, SamePhase, ClosingInv, BootInv, StackInv, FileWhereNeeded, NeedsFile
    <2> QED
      BY <2>1, StutterStep
  <1>26. CASE CommandFails
    <2>1. /\ pc = "returned" /\ pc' = "unwind" /\ ~boot /\ UNCHANGED boot /\ files # <<>> /\ ~ok
      BY <1>26 DEF CommandFails, StackInv, FileWhereNeeded, NeedsFile
    <2>2. state # "CLOSING"
      BY <2>1 DEF ClosingInv
    <2>3. CASE files' = Fate("error") /\ state' = "SCRIPT_ERROR"
      BY <2>1, <2>2, <2>3, MarkStep DEF SamePhase
    <2>4. CASE UNCHANGED <<files, state>>
      BY <2>1, <2>4, StutterStep DEF SamePhase
    <2> QED
      BY <1>26, <2>1, <2>3, <2>4 DEF CommandFails
  <1>27. CASE Unwind
    <2>1. /\ pc = "unwind" /\ pc' = "test" /\ ~boot /\ UNCHANGED <<boot, state>> /\ files # <<>>
      BY <1>27 DEF Unwind, BootInv, StackInv, FileWhereNeeded, NeedsFile
    <2>2. CASE Unwinds
      <3>1. src' = Front(src) /\ src # <<>>
        BY <1>27, <2>1, <2>2, PopStep DEF Unwind, ucli_shell_pop_file
      <3>2. phase' = phase /\ phase \in {"open", "closing"}
        BY <2>1 DEF phase
      <3>3. Abstract!Drop
        BY <3>1, <3>2, Zenon DEF Abstract!Drop, Abstract!Front, Front, src
      <3> QED
        BY <3>3 DEF Abstract!SNext
    <2>3. CASE ~Unwinds
      BY <1>27, <2>1, <2>3, StutterStep DEF Unwind, SamePhase
    <2> QED
      BY <2>2, <2>3
  <1>28. CASE pthread_testcancel
    <2>1. SamePhase /\ UNCHANGED files
      BY <1>28 DEF pthread_testcancel, SamePhase, ClosingInv, BootInv, StackInv, FileWhereNeeded, NeedsFile
    <2> QED
      BY <2>1, StutterStep
  <1>29. CASE CancelPoint
    <2>1. SamePhase /\ UNCHANGED files
      BY <1>29 DEF CancelPoint, CancellationPoint, SamePhase, ClosingInv, BootInv, StackInv, FileWhereNeeded, NeedsFile
    <2> QED
      BY <2>1, StutterStep
  <1>30. CASE ucli_shell_cleanup
    <2>1. pc \in {"ending", "cleanup"} /\ pc' = "done" /\ files' = <<>>
      BY <1>30 DEF ucli_shell_cleanup
    <2>2. phase # "ended" /\ phase' = "ended"
      BY <2>1 DEF phase
    <2>3. [i \in DOMAIN files' |-> files'[i].file] = <<>>
      BY <2>1
    <2> QED
      BY <2>2, <2>3 DEF Abstract!SNext, Abstract!End
  <1>31. CASE pthread_cancel
    <2>1. SamePhase /\ UNCHANGED files
      BY <1>31 DEF pthread_cancel, SamePhase, ClosingInv, BootInv, StackInv, FileWhereNeeded, NeedsFile
    <2> QED
      BY <2>1, StutterStep
  <1>32. CASE UNCHANGED vars
    <2>1. UNCHANGED <<phase, files>>
      BY <1>32 DEF vars, phase
    <2> QED
      BY <2>1 DEF Abstract!svars
  <1> QED
    BY <1>1, <1>2, <1>3, <1>4, <1>5, <1>6, <1>7, <1>8, <1>9, <1>10, <1>11, <1>12, <1>13, <1>14,
       <1>15, <1>16, <1>17, <1>18, <1>19, <1>20, <1>21, <1>22, <1>23, <1>24, <1>25, <1>26,
       <1>27, <1>28, <1>29, <1>30, <1>31, <1>32, <1>33, <1>34, <1>35, <1>36
    DEF Next, Thread, Execute, ReadScript, User, Ended

(* When nodes can be allocated, every session implements Session: commands come
   from a stack of sources that never holds one twice, which only a session
   that is not closing adds to, and which is empty once the session has ended. *)
THEOREM Implements ==
  ASSUME ~AllocFails
  PROVE  Spec => ImplementsSession
  <1>1. Init => SessionInv
    BY TypeInit, StackInit, PhaseInit DEF SessionInv
  <1>2. SessionInv /\ [Next]_vars => SessionInv'
    BY TypeStep, StackStep, ClosingStep, BootStep DEF SessionInv
  <1>3. SessionInv /\ [Next]_vars => [Abstract!SNext]_(Abstract!svars)
    BY AbstractStep
  <1> QED
    BY <1>1, <1>2, <1>3, AbstractInit, PTL DEF Spec, ImplementsSession, Abstract!SSpec
=============================================================================
