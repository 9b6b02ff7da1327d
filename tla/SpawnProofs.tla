---------------------------- MODULE SpawnProofs ----------------------------
(***************************************************************************)
(* Theorems about module Spawn, for any number of sessions, descriptors    *)
(* and sourced files.                                                      *)
(*                                                                         *)
(* A call that waits is right about the end of its session if it took the  *)
(* right thread for it, and it did if it read the context while the        *)
(* session had it.  WaitInv says so at each point of the call.  The files  *)
(* are followed by Owned, which says who will close each descriptor, and   *)
(* by Holds, which says what the descriptors on a stack stand for.         *)
(***************************************************************************)
EXTENDS Spawn, SequenceTheorems, TLAPS

Over(s) == stage[s] \in {"unused", "exited"}

WaitInv ==
  /\ stage \in [Session -> Stage]
  /\ child \in Session \cup {None}
  /\ op \in Op
  /\ pc \in {"handle", "join", "close"} => child \in Session
  /\ pc = "handle" => stage[child] # "unused"
  /\ ~misread =>
       /\ pc = "join" => id = child /\ stage[child] # "unused"
       /\ pc = "close" => Over(child)
       /\ pc = "idle" /\ op # "spawn" /\ child # None => Over(child)

LEMMA WaitInit == Init => WaitInv
BY DEF Init, WaitInv, Stage

(* A step of a session leaves the spawner where it is, unless the process dies; it
   does not wake a session that is over. *)
LEMMA SessionStep ==
  ASSUME WaitInv, NEW s \in Session,
         Thread(s) \/ ucli_source(s) \/ ucli_shell_pop_file(s) \/ SessionEnds(s)
  PROVE  WaitInv'
  <1> USE SpawnAssumption
  <1>0. stage[s] \in Stage
    BY DEF WaitInv
  <1>1. CASE ShellNew(s)
    BY <1>0, <1>1 DEF ShellNew, Moves, WaitInv, caller, ContextLive, Over, Stage
  <1>2. CASE ShellStart(s)
    BY <1>0, <1>2 DEF ShellStart, Moves, WaitInv, ContextLive, Over, Stage
  <1>3. CASE ucli_shell_cleanup(s)
    BY <1>0, <1>3 DEF ucli_shell_cleanup, Moves, WaitInv, caller, ContextLive, Over,
                      Stage
  <1>4. CASE ThreadExits(s)
    BY <1>0, <1>4 DEF ThreadExits, Moves, WaitInv, caller, ContextLive, Over, Stage
  <1>5. CASE SessionEnds(s)
    BY <1>0, <1>5 DEF SessionEnds, Moves, WaitInv, caller, ContextLive, Over, Stage
  <1>6. CASE ucli_source(s)
    BY <1>0, <1>6 DEF ucli_source, WaitInv, caller, ContextLive, Over, Stage
  <1>7. CASE ucli_shell_pop_file(s)
    BY <1>0, <1>7 DEF ucli_shell_pop_file, AfterPop, WaitInv, caller, ContextLive, Over, Stage
  <1>8. CASE LoadOpens(s) \/ LoadCloses(s)
    BY <1>8 DEF LoadOpens, LoadCloses, WaitInv, caller, Over
  <1> QED
    BY <1>1, <1>2, <1>3, <1>4, <1>5, <1>6, <1>7, <1>8 DEF Thread

(* A new call has a session that has not run before. *)
LEMMA SpawnStep ==
  ASSUME WaitInv, NEW s \in Session, NEW o \in Op, NEW istream,
         Unused(s), _ucli_shell_spawn(s, o, istream)
  PROVE  WaitInv'
  <1> USE SpawnAssumption
  <1>1. CASE stage' = [stage EXCEPT ![s] = "new"] /\ pc' = "handle"
    BY <1>1 DEF _ucli_shell_spawn, WaitInv, ContextLive, Over, Stage
  <1>2. CASE UNCHANGED stage /\ pc' \in {"close", "idle"}
    BY <1>2 DEF _ucli_shell_spawn, Unused, WaitInv, ContextLive, Over, Stage
  <1> QED
    BY <1>1, <1>2 DEF _ucli_shell_spawn

LEMMA WaitStep ==
  ASSUME WaitInv, [Next]_vars
  PROVE  WaitInv'
  <1> USE SpawnAssumption
  <1>1. CASE ReadContext
    BY <1>1 DEF ReadContext, InCall, WaitInv, ContextLive, Over, Stage
  <1>2. CASE pthread_join
    BY <1>2 DEF pthread_join, Joined, InCall, WaitInv, ContextLive, Over, Stage
  <1>3. CASE CloseFile
    BY <1>3 DEF CloseFile, InCall, WaitInv, ContextLive, Over, Stage
  <1>4. ASSUME NEW s \in Session, NEW o \in Op, SpawnOnStdin(s, o)
        PROVE  WaitInv'
    BY <1>4, SpawnStep DEF SpawnOnStdin
  <1>5. ASSUME NEW s \in Session, ucli_shell_spawn_from_file(s)
        PROVE  WaitInv'
    BY <1>5, SpawnStep DEF ucli_shell_spawn_from_file
  <1>6. ASSUME NEW s \in Session, pthread_cancel(s)
        PROVE  WaitInv'
    BY <1>6 DEF pthread_cancel, caller, WaitInv, ContextLive, Over
  <1>7. ASSUME NEW s \in Session,
               Thread(s) \/ ucli_source(s) \/ ucli_shell_pop_file(s) \/ SessionEnds(s)
        PROVE  WaitInv'
    BY <1>7, SessionStep
  <1>8. CASE UNCHANGED vars
    BY <1>8 DEF vars, caller, WaitInv, ContextLive, Over
  <1> QED
    BY <1>1, <1>2, <1>3, <1>4, <1>5, <1>6, <1>7, <1>8 DEF Next, Spawner

(* A call of ucli_shell_spawn_and_wait or ucli_shell_spawn_from_file that reads its
   session's context in time returns when the session is over, and closes the file of
   the session no earlier (_ucli_shell_spawn_and_wait), whatever other sessions run. *)
THEOREM WaitCorrect == Spec => []WaitsForSession
  <1>1. WaitInv /\ [Next]_vars => WaitInv'
    BY WaitStep
  <1>2. WaitInv => WaitsForSession
    BY DEF WaitInv, WaitsForSession, Over
  <1> QED
    BY <1>1, <1>2, WaitInit, PTL DEF Spec
-----------------------------------------------------------------------------
(* A file stack that grows by one descriptor or loses its last one. *)

LEMMA PushFd ==
  ASSUME NEW q \in Seq(Fd), NEW d \in Fd
  PROVE  /\ Append(q, d) \in Seq(Fd)
         /\ Append(q, d) # <<>>
         /\ DOMAIN Append(q, d) = 1 .. Len(q) + 1
         /\ Append(q, d)[Len(q) + 1] = d
         /\ \A i \in DOMAIN q : Append(q, d)[i] = q[i]
         /\ DOMAIN q = 1 .. Len(q)
         /\ Len(q) \in Nat
PROOF OBVIOUS

LEMMA PopFd ==
  ASSUME NEW q \in Seq(Fd), q # <<>>
  PROVE  /\ Front(q) \in Seq(Fd)
         /\ Len(q) \in Nat \ {0}
         /\ DOMAIN q = 1 .. Len(q)
         /\ DOMAIN Front(q) = 1 .. Len(q) - 1
         /\ (Front(q) = <<>> <=> Len(q) = 1)
         /\ \A i \in 1 .. Len(q) - 1 : Front(q)[i] = q[i]
         /\ Last(q) = q[Len(q)] /\ Last(q) \in Fd
  <1> DEFINE n == Len(q) - 1
  <1>1. n \in Nat /\ Len(q) = n + 1 /\ DOMAIN q = 1 .. Len(q)
    BY EmptySeq, LenProperties
  <1>2. \A i \in 1 .. n : q[i] \in Fd
    BY <1>1, ElementOfSeq
  <1>3. /\ SubSeq(q, 1, n) \in Seq(Fd)
        /\ Len(SubSeq(q, 1, n)) = IF 1 <= n THEN n - 1 + 1 ELSE 0
        /\ \A i \in 1 .. n - 1 + 1 : SubSeq(q, 1, n)[i] = q[1 + i - 1]
    <2> HIDE DEF n
    <2> QED BY <1>1, <1>2, SubSeqProperties
  <1>4. Front(q) = SubSeq(q, 1, n)
    BY DEF Front
  <1>5. Last(q) = q[n + 1] /\ q[n + 1] \in Fd
    BY <1>1, ElementOfSeq DEF Last
  <1> HIDE DEF n
  <1>6. Front(q) \in Seq(Fd) /\ Len(Front(q)) = n
    BY <1>1, <1>3, <1>4
  <1>7. DOMAIN Front(q) = 1 .. n
    BY <1>6, LenProperties
  <1>9. Front(q) = <<>> <=> n = 0
    BY <1>1, <1>6, EmptySeq
  <1>8. \A i \in 1 .. n : Front(q)[i] = q[i]
    BY <1>1, <1>3, <1>4
  <1> QED
    BY <1>1, <1>5, <1>6, <1>7, <1>8, <1>9

-----------------------------------------------------------------------------
(* Descriptors, stacks and stages have their types, and a session has a stack from
   the time it starts to its clean-up. *)
FilesTyped ==
  /\ table \in [Fd -> Holder \cup {None}]
  /\ stack \in [Session -> Seq(Fd)]
  /\ stage \in [Session -> Stage]
  /\ source \in [Session -> [fd : Fd, is : Holder]]
  /\ \A s \in Session : stack[s] # <<>> => stage[s] \in {"running", "ending"}
  /\ \A s \in Session : stage[s] = "running" => stack[s] # <<>>
  /\ loading \in [Session -> Seq(Fd)]
  /\ \A s \in Session : stage[s] \in {"unused", "new"} => loading[s] = <<>>

(* What descriptors stand for is told apart. *)
LEMMA HolderKinds ==
  /\ Terminal \in Holder
  /\ \A s \in Session : {Input(s), Script(s), Directory(s), Xml(s)} \subseteq Holder
  /\ \A s, t \in Session : /\ Input(s) # Terminal /\ Script(s) # Terminal
                           /\ Directory(s) # Terminal /\ Xml(s) # Terminal
                           /\ {Input(s), Script(s)} \cap {Directory(t), Xml(t)} = {}
                           /\ Input(s) # Script(t)
                           /\ (Input(s) = Input(t) => s = t)
                           /\ (Script(s) = Script(t) => s = t)
                           /\ s # t => {Directory(s), Xml(s)} \cap {Directory(t), Xml(t)} = {}
  /\ None \notin Holder
  <1>1. None \notin Holder
    BY HolderAssumption DEF Holder, Terminal
  <1> QED
  BY <1>1, SpawnAssumption DEF Holder, Terminal, Input, Script, Directory, Xml

LEMMA HolderIs ==
  ASSUME NEW h \in Holder
  PROVE  h = Terminal \/ \E s \in Session : h \in {Input(s), Script(s), Directory(s), Xml(s)}
  BY DEF Holder, Terminal, Input, Script, Directory, Xml

LEMMA CloseType ==
  ASSUME FilesTyped, NEW fds, Close(fds)
  PROVE  table' \in [Fd -> Holder \cup {None}]
  BY DEF FilesTyped, Close

LEMMA TypedInit == Init => FilesTyped
  <1> SUFFICES ASSUME Init PROVE FilesTyped
    OBVIOUS
  <1>1. Stdin \in Fd /\ Terminal \in Holder
    BY DEF Fd, Holder
  <1>2. <<>> \in Seq(Fd)
    OBVIOUS
  <1> QED
    BY <1>1, <1>2 DEF Init, FilesTyped, Stage

LEMMA TypedSpawn ==
  ASSUME FilesTyped, NEW s \in Session, NEW o \in Op, NEW istream \in [fd : Fd, is : Holder],
         Unused(s), _ucli_shell_spawn(s, o, istream), table' \in [Fd -> Holder \cup {None}]
  PROVE  FilesTyped'
  <1> USE DEF FilesTyped
  <1>1. UNCHANGED <<stack, loading>> /\ source' = [source EXCEPT ![s] = istream]
        /\ stage[s] = "unused" /\ stack[s] = <<>>
    BY DEF _ucli_shell_spawn, Unused, load
  <1>2. stage' = [stage EXCEPT ![s] = "new"] \/ UNCHANGED stage
    BY DEF _ucli_shell_spawn
  <1> QED
    BY <1>1, <1>2 DEF Stage

LEMMA TypedMove ==
  ASSUME FilesTyped, NEW s \in Session, NEW from, NEW to \in Stage, Moves(s, from, to),
         table' \in [Fd -> Holder \cup {None}], UNCHANGED <<source, load>>,
         NEW q \in Seq(Fd), stack' = [stack EXCEPT ![s] = q],
         q # <<>> => to \in {"running", "ending"},
         to = "running" => q # <<>>, to \notin {"unused", "new"}
  PROVE  FilesTyped'
  BY DEF FilesTyped, Moves, load

LEMMA TypedStep == FilesTyped /\ [Next]_vars => FilesTyped'
  <1> SUFFICES ASSUME FilesTyped, [Next]_vars PROVE FilesTyped'
    OBVIOUS
  <1>0. /\ table \in [Fd -> Holder \cup {None}] /\ stack \in [Session -> Seq(Fd)]
        /\ stage \in [Session -> Stage] /\ <<>> \in Seq(Fd)
        /\ source \in [Session -> [fd : Fd, is : Holder]]
    BY DEF FilesTyped
  <1>1. CASE ReadContext \/ pthread_join \/ UNCHANGED vars
    BY <1>1 DEF ReadContext, pthread_join, InCall, vars, load, FilesTyped
  <1>2. CASE CloseFile
    BY <1>2, CloseType DEF CloseFile, InCall, load, FilesTyped
  <1>3. ASSUME NEW s \in Session PROVE \A o \in Op : SpawnOnStdin(s, o) => FilesTyped'
    <2>1. [fd |-> Stdin, is |-> Terminal] \in [fd : Fd, is : Holder]
      BY DEF Fd, Holder
    <2> QED
      BY <1>0, <2>1, TypedSpawn DEF SpawnOnStdin
  <1>4. ASSUME NEW s \in Session, ucli_shell_spawn_from_file(s) PROVE FilesTyped'
    <2>1. PICK d \in Fd : table' = [table EXCEPT ![d] = Input(s)]
                          /\ _ucli_shell_spawn(s, "spawn_from_file", [fd |-> d, is |-> Input(s)])
      BY <1>4 DEF ucli_shell_spawn_from_file
    <2>2. Input(s) \in Holder /\ [fd |-> d, is |-> Input(s)] \in [fd : Fd, is : Holder]
      BY HolderKinds
    <2>3. table' \in [Fd -> Holder \cup {None}]
      BY <1>0, <2>1, <2>2
    <2>4. Unused(s) /\ "spawn_from_file" \in Op
      BY <1>4 DEF ucli_shell_spawn_from_file
    <2> QED
      BY <2>1, <2>2, <2>3, <2>4, TypedSpawn
  <1>5. ASSUME NEW s \in Session, pthread_cancel(s) PROVE FilesTyped'
    BY <1>5 DEF pthread_cancel, load, FilesTyped
  <1>6. ASSUME NEW s \in Session, ShellNew(s) \/ SessionEnds(s) \/ ThreadExits(s) PROVE FilesTyped'
    <2>1. UNCHANGED <<table, source, stack, loading>>
      BY <1>6 DEF ShellNew, SessionEnds, ThreadExits, load
    <2> QED
      BY <1>6, <2>1 DEF ShellNew, SessionEnds, ThreadExits, Moves, FilesTyped, Stage
  <1>7. ASSUME NEW s \in Session, ShellStart(s) PROVE FilesTyped'
    <2>1. source[s].fd \in Fd
      BY <1>0
    <2>2. CASE Moves(s, "start", "running") /\ stack' = [stack EXCEPT ![s] = <<source[s].fd>>]
      <3>1. <<source[s].fd>> \in Seq(Fd) /\ <<source[s].fd>> # <<>>
        BY <2>1
      <3>2. UNCHANGED <<table, source, load>>
        BY <1>7 DEF ShellStart
      <3> QED
        BY <1>0, <2>2, <3>1, <3>2, TypedMove DEF Stage
    <2>3. CASE Moves(s, "start", "exited") /\ UNCHANGED stack
      <3>1. UNCHANGED <<table, source, loading>>
        BY <1>7 DEF ShellStart, load
      <3> QED
        BY <2>3, <3>1 DEF Moves, FilesTyped, Stage
    <2> QED
      BY <1>7, <2>2, <2>3 DEF ShellStart
  <1>8. ASSUME NEW s \in Session, ucli_source(s) PROVE FilesTyped'
    <2>1. PICK d \in Fd : table' = [table EXCEPT ![d] = Script(s)]
                          /\ stack' = [stack EXCEPT ![s] = Append(@, d)]
      BY <1>8 DEF ucli_source
    <2>2. stack[s] \in Seq(Fd) /\ Append(stack[s], d) \in Seq(Fd) /\ Append(stack[s], d) # <<>>
      BY <1>0, PushFd
    <2>3. table' \in [Fd -> Holder \cup {None}]
      BY <1>0, <2>1, HolderKinds
    <2>4. UNCHANGED <<stage, source, loading>> /\ stage[s] = "running"
      BY <1>8 DEF ucli_source, load
    <2> QED
      BY <1>0, <2>1, <2>2, <2>3, <2>4 DEF FilesTyped
  <1>9. ASSUME NEW s \in Session, ucli_shell_pop_file(s) PROVE FilesTyped'
    <2>1. stack[s] \in Seq(Fd) /\ stack[s] # <<>> /\ stage[s] = "running"
      BY <1>9 DEF ucli_shell_pop_file, FilesTyped
    <2> DEFINE q == Front(stack[s])
    <2>2. q \in Seq(Fd) /\ (q = <<>> <=> Len(stack[s]) = 1)
      BY <2>1, PopFd
    <2>3. /\ Moves(s, "running", AfterPop(s)) /\ stack' = [stack EXCEPT ![s] = q]
          /\ UNCHANGED <<source, load>> /\ table' \in [Fd -> Holder \cup {None}]
      BY <1>9, CloseType DEF ucli_shell_pop_file, Moves
    <2>4. AfterPop(s) \in Stage /\ AfterPop(s) \in {"running", "ending"}
          /\ (AfterPop(s) = "running" => q # <<>>)
      BY <2>2 DEF AfterPop, Stage
    <2> QED
      <3> HIDE DEF q
      <3> QED BY <2>2, <2>3, <2>4, TypedMove
  <1>10. ASSUME NEW s \in Session, ucli_shell_cleanup(s) PROVE FilesTyped'
    <2>1. /\ Moves(s, "ending", "freed") /\ stack' = [stack EXCEPT ![s] = <<>>]
          /\ UNCHANGED <<source, load>> /\ table' \in [Fd -> Holder \cup {None}]
      BY <1>10, CloseType DEF ucli_shell_cleanup
    <2> QED
      BY <1>0, <2>1, TypedMove DEF Stage
  <1>11. ASSUME NEW s \in Session, LoadOpens(s) PROVE FilesTyped'
    <2>1. PICK d \in Fd : \E h \in {Directory(s), Xml(s)} :
                          /\ table' = [table EXCEPT ![d] = h]
                          /\ loading' = [loading EXCEPT ![s] = Append(@, d)]
      BY <1>11 DEF LoadOpens
    <2>2. loading \in [Session -> Seq(Fd)] /\ Append(loading[s], d) \in Seq(Fd)
      BY PushFd DEF FilesTyped
    <2>3. table' \in [Fd -> Holder \cup {None}]
      BY <1>0, <2>1, HolderKinds
    <2>4. loading' \in [Session -> Seq(Fd)]
      BY <2>1, <2>2
    <2>5. UNCHANGED <<stage, source, stack>> /\ stage[s] = "start"
          /\ \A t \in Session : t # s => loading'[t] = loading[t]
      BY <1>11, <2>1, <2>2 DEF LoadOpens
    <2> QED
      BY <2>3, <2>4, <2>5 DEF FilesTyped
  <1>12. ASSUME NEW s \in Session, LoadCloses(s) PROVE FilesTyped'
    <2>1. loading \in [Session -> Seq(Fd)] /\ loading[s] # <<>>
      BY <1>12 DEF LoadCloses, FilesTyped
    <2>2. Front(loading[s]) \in Seq(Fd) /\ loading' = [loading EXCEPT ![s] = Front(@)]
      BY <1>12, <2>1, PopFd DEF LoadCloses
    <2>3. /\ table' \in [Fd -> Holder \cup {None}] /\ UNCHANGED <<stage, source, stack>>
          /\ stage[s] = "start" /\ \A t \in Session : t # s => loading'[t] = loading[t]
      BY <1>12, <2>1, <2>2, CloseType DEF LoadCloses
    <2>4. loading' \in [Session -> Seq(Fd)]
      BY <2>1, <2>2
    <2> QED
      BY <2>3, <2>4 DEF FilesTyped
  <1> QED
    BY <1>1, <1>2, <1>3, <1>4, <1>5, <1>6, <1>7, <1>8, <1>9, <1>10, <1>11, <1>12
    DEF Next, Spawner, Thread

(* Every descriptor open for a session is known to somebody: a file the session sourced
   is on the session's stack, the directory and the XML file are those it is reading, and
   the file it was spawned from is the one its spawner has still to close. *)
Owned ==
  \A d \in Fd, s \in Session :
    /\ table[d] = Script(s) => \E i \in DOMAIN stack[s] : stack[s][i] = d
    /\ table[d] \in {Directory(s), Xml(s)} => \E i \in DOMAIN loading[s] : loading[s][i] = d
    /\ table[d] = Input(s) => file = d /\ op = "spawn_from_file" /\ pc # "idle"

LEMMA OwnedInit == Init => Owned
  BY HolderKinds DEF Init, Owned

LEMMA NoneIsNoHolder ==
  \A s \in Session : None \notin {Script(s), Input(s), Directory(s), Xml(s)}
  BY HolderKinds

(* Closing some descriptors, if those left open stay on the stacks they were on. *)
LEMMA OwnedClose ==
  ASSUME Owned, UNCHANGED <<file, op, pc>>,
         \A d \in Fd : \/ table'[d] = None
                       \/ /\ table'[d] = table[d]
                          /\ \A t \in Session :
                               /\ (\E i \in DOMAIN stack[t] : stack[t][i] = d)
                                    => \E i \in DOMAIN stack'[t] : stack'[t][i] = d
                               /\ (\E i \in DOMAIN loading[t] : loading[t][i] = d)
                                    => \E i \in DOMAIN loading'[t] : loading'[t][i] = d
  PROVE  Owned'
  <1> SUFFICES ASSUME NEW d \in Fd, NEW s \in Session
               PROVE  /\ table'[d] = Script(s) => \E i \in DOMAIN stack'[s] : stack'[s][i] = d
                      /\ table'[d] \in {Directory(s), Xml(s)}
                           => \E i \in DOMAIN loading'[s] : loading'[s][i] = d
                      /\ table'[d] = Input(s) => file' = d /\ op' = "spawn_from_file" /\ pc' # "idle"
    BY DEF Owned
  <1>1. CASE table'[d] = None
    BY <1>1, NoneIsNoHolder
  <1>2. CASE table'[d] # None
    BY <1>2 DEF Owned
  <1> QED
    BY <1>1, <1>2

LEMMA OwnedStep == FilesTyped /\ WaitInv /\ Owned /\ [Next]_vars => Owned'
  <1> SUFFICES ASSUME FilesTyped, WaitInv, Owned, [Next]_vars PROVE Owned'
    OBVIOUS
  <1>0. table \in [Fd -> Holder \cup {None}] /\ stack \in [Session -> Seq(Fd)]
    BY DEF FilesTyped
  <1>1. CASE ReadContext \/ pthread_join
    BY <1>1 DEF ReadContext, pthread_join, InCall, load, Owned
  <1>2. CASE CloseFile
    <2>1. \A d \in Fd : table'[d] = IF d = file THEN None ELSE table[d]
      BY <1>2 DEF CloseFile, Close
    <2>2. UNCHANGED <<stack, loading, op>>
      BY <1>2 DEF CloseFile, InCall, load
    <2> QED
      BY <2>1, <2>2, NoneIsNoHolder DEF Owned
  <1>3. ASSUME NEW s \in Session, NEW o \in Op, SpawnOnStdin(s, o) PROVE Owned'
    BY <1>3 DEF SpawnOnStdin, Unused, _ucli_shell_spawn, load, Owned
  <1>4. ASSUME NEW s \in Session, ucli_shell_spawn_from_file(s) PROVE Owned'
    <2>1. PICK d \in Fd : /\ table' = [table EXCEPT ![d] = Input(s)] /\ file' = d
                          /\ _ucli_shell_spawn(s, "spawn_from_file", [fd |-> d, is |-> Input(s)])
      BY <1>4 DEF ucli_shell_spawn_from_file
    <2>2. UNCHANGED <<stack, loading>> /\ op' = "spawn_from_file" /\ pc' # "idle" /\ pc = "idle"
      BY <1>4, <2>1 DEF ucli_shell_spawn_from_file, _ucli_shell_spawn, Unused, load
    <2>3. \A e \in Fd : table'[e] = IF e = d THEN Input(s) ELSE table[e]
      BY <1>0, <2>1
    <2>4. \A t \in Session : Input(s) \notin {Script(t), Directory(t), Xml(t)}
      BY HolderKinds
    <2> QED
      BY <2>1, <2>2, <2>3, <2>4 DEF Owned
  <1>5. ASSUME NEW s \in Session, pthread_cancel(s) PROVE Owned'
    BY <1>5 DEF pthread_cancel, caller, load, Owned
  <1>6. ASSUME NEW s \in Session, ShellNew(s) \/ SessionEnds(s) \/ ThreadExits(s) PROVE Owned'
    BY <1>6 DEF ShellNew, SessionEnds, ThreadExits, caller, load, Owned
  <1>7. ASSUME NEW s \in Session, ShellStart(s) PROVE Owned'
    <2>1. stack[s] = <<>> /\ stage[s] = "start"
      BY <1>7 DEF ShellStart, Moves, FilesTyped
    <2>2. \A t \in Session : t # s => stack'[t] = stack[t]
      BY <1>0, <1>7 DEF ShellStart
    <2>3. UNCHANGED <<table, op, file, loading>> /\ (pc' = pc \/ pc' = "crashed")
      BY <1>7 DEF ShellStart, load
    <2>4. \A i \in DOMAIN stack[s] : FALSE
      BY <2>1
    <2> QED
      BY <2>2, <2>3, <2>4 DEF Owned
  <1>8. ASSUME NEW s \in Session, ucli_source(s) PROVE Owned'
    <2>1. PICK d \in Fd : table' = [table EXCEPT ![d] = Script(s)]
                          /\ stack' = [stack EXCEPT ![s] = Append(@, d)]
      BY <1>8 DEF ucli_source
    <2>2. stack'[s] = Append(stack[s], d) /\ stack[s] \in Seq(Fd)
          /\ \A t \in Session : t # s => stack'[t] = stack[t]
      BY <1>0, <2>1
    <2>3. /\ \A i \in DOMAIN stack[s] : i \in DOMAIN stack'[s] /\ stack'[s][i] = stack[s][i]
          /\ \E i \in DOMAIN stack'[s] : stack'[s][i] = d
      BY <2>2, PushFd
    <2>4. \A e \in Fd : table'[e] = IF e = d THEN Script(s) ELSE table[e]
      BY <1>0, <2>1
    <2>5. UNCHANGED <<pc, op, file, loading>>
      BY <1>8 DEF ucli_source, caller, load
    <2>6. \A t \in Session : /\ (Script(s) = Script(t) => s = t)
                             /\ Script(s) \notin {Input(t), Directory(t), Xml(t)}
      BY HolderKinds
    <2> QED
      BY SMTT(20), <2>2, <2>3, <2>4, <2>5, <2>6 DEF Owned
  <1>9. ASSUME NEW s \in Session, ucli_shell_pop_file(s) PROVE Owned'
    <2>1. stack[s] \in Seq(Fd) /\ stack[s] # <<>>
      BY <1>9 DEF ucli_shell_pop_file, FilesTyped
    <2>2. \A i \in DOMAIN stack[s] : i # Len(stack[s])
            => i \in DOMAIN Front(stack[s]) /\ Front(stack[s])[i] = stack[s][i]
      <3> SUFFICES ASSUME NEW i \in DOMAIN stack[s], i # Len(stack[s])
                   PROVE  i \in DOMAIN Front(stack[s]) /\ Front(stack[s])[i] = stack[s][i]
        OBVIOUS
      <3> DEFINE n == Len(stack[s])
      <3>1. n \in Nat \ {0} /\ i \in 1 .. n /\ i # n
        BY <2>1, PopFd
      <3>2. i \in 1 .. n - 1
        BY <3>1
      <3> QED
        BY <2>1, <3>2, PopFd
    <2>3. /\ UNCHANGED <<file, op, pc, loading>>
          /\ stack'[s] = Front(stack[s]) /\ \A t \in Session : t # s => stack'[t] = stack[t]
          /\ \A d \in Fd : table'[d] = IF d = Popped(s) THEN None ELSE table[d]
      BY <1>0, <1>9 DEF ucli_shell_pop_file, caller, load, Close
    <2>4. Popped(s) = stack[s][Len(stack[s])]
      BY DEF Popped, Last
    <2> QED
      BY <2>2, <2>3, <2>4, OwnedClose
  <1>10. ASSUME NEW s \in Session, ucli_shell_cleanup(s) PROVE Owned'
    <2>1. /\ UNCHANGED <<file, op, pc, loading>>
          /\ \A t \in Session : t # s => stack'[t] = stack[t]
          /\ \A d \in Fd : table'[d] = IF d \in Releases(s) THEN None ELSE table[d]
      BY <1>0, <1>10 DEF ucli_shell_cleanup, caller, load, Close
    <2>2. \A i \in DOMAIN stack[s] : stack[s][i] \in Releases(s)
      BY DEF Releases, ToSet
    <2> QED
      BY <2>1, <2>2, OwnedClose
  <1>11. CASE UNCHANGED vars
    BY <1>11 DEF vars, caller, load, Owned
  <1>12. ASSUME NEW s \in Session, LoadOpens(s) PROVE Owned'
    <2>1. PICK d \in Fd : \E h \in {Directory(s), Xml(s)} :
                          /\ table' = [table EXCEPT ![d] = h]
                          /\ loading' = [loading EXCEPT ![s] = Append(@, d)]
      BY <1>12 DEF LoadOpens
    <2>2. loading'[s] = Append(loading[s], d) /\ loading[s] \in Seq(Fd)
          /\ \A t \in Session : t # s => loading'[t] = loading[t]
      BY <2>1 DEF FilesTyped
    <2>3. /\ \A i \in DOMAIN loading[s] : i \in DOMAIN loading'[s] /\ loading'[s][i] = loading[s][i]
          /\ \E i \in DOMAIN loading'[s] : loading'[s][i] = d
      BY <2>2, PushFd
    <2>4. table'[d] \in {Directory(s), Xml(s)} /\ \A e \in Fd : e # d => table'[e] = table[e]
      BY <1>0, <2>1
    <2>5. UNCHANGED <<pc, op, file, stack>>
      BY <1>12 DEF LoadOpens, caller
    <2> SUFFICES ASSUME NEW e \in Fd, NEW t \in Session
                 PROVE  /\ table'[e] = Script(t) => \E i \in DOMAIN stack'[t] : stack'[t][i] = e
                        /\ table'[e] \in {Directory(t), Xml(t)}
                             => \E i \in DOMAIN loading'[t] : loading'[t][i] = e
                        /\ table'[e] = Input(t)
                             => file' = e /\ op' = "spawn_from_file" /\ pc' # "idle"
      BY DEF Owned
    <2>6. CASE e = d
      <3>1. table'[e] \notin {Script(t), Input(t)} /\ (t # s => table'[e] \notin {Directory(t), Xml(t)})
        BY <2>4, <2>6, HolderKinds
      <3> QED
        BY <2>3, <2>6, <3>1
    <2>7. CASE e # d
      <3>1. table'[e] = table[e]
        BY <2>4, <2>7
      <3> QED
        BY <2>2, <2>3, <2>5, <3>1 DEF Owned
    <2> QED
      BY <2>6, <2>7
  <1>13. ASSUME NEW s \in Session, LoadCloses(s) PROVE Owned'
    <2>1. loading[s] \in Seq(Fd) /\ loading[s] # <<>>
      BY <1>13 DEF LoadCloses, FilesTyped
    <2>2. /\ UNCHANGED <<file, op, pc, stack>>
          /\ loading'[s] = Front(loading[s]) /\ \A t \in Session : t # s => loading'[t] = loading[t]
          /\ \A d \in Fd : table'[d] = IF d = Last(loading[s]) THEN None ELSE table[d]
      BY <1>0, <1>13 DEF LoadCloses, caller, Close, FilesTyped
    <2>3. \A i \in DOMAIN loading[s] : loading[s][i] # Last(loading[s])
            => i \in DOMAIN Front(loading[s]) /\ Front(loading[s])[i] = loading[s][i]
      <3> SUFFICES ASSUME NEW i \in DOMAIN loading[s], loading[s][i] # Last(loading[s])
                   PROVE  i \in DOMAIN Front(loading[s]) /\ Front(loading[s])[i] = loading[s][i]
        OBVIOUS
      <3> DEFINE n == Len(loading[s])
      <3>1. n \in Nat \ {0} /\ i \in 1 .. n /\ i # n
        BY <2>1, PopFd
      <3>2. i \in 1 .. n - 1
        BY <3>1
      <3> QED
        BY <2>1, <3>2, PopFd
    <2> QED
      BY <2>2, <2>3, OwnedClose
  <1> QED
    BY <1>1, <1>2, <1>3, <1>4, <1>5, <1>6, <1>7, <1>8, <1>9, <1>10, <1>11, <1>12, <1>13
    DEF Next, Spawner, Thread

(* A session that was not cancelled is reading no directory once it has started. *)
LoadOver == \A s \in Session : loading[s] # <<>> => stage[s] = "start" \/ s \in cancelled

LEMMA LoadOverStep == FilesTyped /\ LoadOver /\ [Next]_vars => LoadOver'
  <1> SUFFICES ASSUME FilesTyped, LoadOver, [Next]_vars, NEW t \in Session, loading'[t] # <<>>
               PROVE  stage'[t] = "start" \/ t \in cancelled'
    BY DEF LoadOver
  <1>0. stage \in [Session -> Stage] /\ loading \in [Session -> Seq(Fd)]
    BY DEF FilesTyped
  <1>1. CASE Spawner \/ UNCHANGED vars
    BY <1>1 DEF Spawner, ReadContext, pthread_join, CloseFile, InCall, vars, load, LoadOver
  <1>2. ASSUME NEW s \in Session,
               ucli_shell_spawn_from_file(s) \/ \E o \in Op : SpawnOnStdin(s, o)
        PROVE  stage'[t] = "start" \/ t \in cancelled'
    BY <1>0, <1>2 DEF ucli_shell_spawn_from_file, SpawnOnStdin, Unused, _ucli_shell_spawn, load, LoadOver
  <1>3. ASSUME NEW s \in Session, pthread_cancel(s) PROVE stage'[t] = "start" \/ t \in cancelled'
    BY <1>3 DEF pthread_cancel, load, LoadOver
  <1>4. ASSUME NEW s \in Session, LoadOpens(s) \/ LoadCloses(s)
        PROVE  stage'[t] = "start" \/ t \in cancelled'
    BY <1>0, <1>4 DEF LoadOpens, LoadCloses, LoadOver
  <1>5. ASSUME NEW s \in Session, ShellStart(s) PROVE stage'[t] = "start" \/ t \in cancelled'
    BY <1>0, <1>5 DEF ShellStart, Moves, load, LoadOver
  <1>6. ASSUME NEW s \in Session, SessionEnds(s) PROVE stage'[t] = "start" \/ t \in cancelled'
    BY <1>0, <1>6 DEF SessionEnds, Moves, load, LoadOver
  <1>7. ASSUME NEW s \in Session,
               ShellNew(s) \/ ucli_source(s) \/ ucli_shell_pop_file(s) \/ ucli_shell_cleanup(s)
                 \/ ThreadExits(s)
        PROVE  stage'[t] = "start" \/ t \in cancelled'
    BY <1>0, <1>7 DEF ShellNew, ucli_source, ucli_shell_pop_file, ucli_shell_cleanup, ThreadExits,
                      Moves, load, LoadOver
  <1> QED
    BY <1>1, <1>2, <1>3, <1>4, <1>5, <1>6, <1>7 DEF Next, Thread

(* Whatever sessions run beside one another, refused, cancelled or read too late,
   every file opened for them has been closed when the last one is over and no call
   is under way, but for the directory and the XML file a cancelled session was
   reading. *)
THEOREM OpenCorrect == Spec => []NothingLeftOpen
  <1>1. Init => WaitInv /\ FilesTyped /\ Owned /\ LoadOver
    BY WaitInit, TypedInit, OwnedInit DEF Init, LoadOver
  <1>2. WaitInv /\ FilesTyped /\ Owned /\ LoadOver /\ [Next]_vars
          => WaitInv' /\ FilesTyped' /\ Owned' /\ LoadOver'
    BY WaitStep, TypedStep, OwnedStep, LoadOverStep
  <1>3. ASSUME FilesTyped, Owned, LoadOver PROVE NothingLeftOpen
    <2> SUFFICES ASSUME pc = "idle", \A s \in Session : stage[s] \in {"unused", "exited"}, NEW d \in Fd,
                        table[d] \notin {None, Terminal}
                 PROVE  \E s \in cancelled : /\ table[d] \in {Directory(s), Xml(s)}
                                           /\ d \in ToSet(loading[s])
      BY DEF NothingLeftOpen
    <2>1. table[d] \in Holder
      BY <1>3 DEF FilesTyped
    <2>2. PICK s \in Session : table[d] \in {Input(s), Script(s), Directory(s), Xml(s)}
      BY <2>1, HolderIs
    <2>3. stack[s] = <<>>
      BY <1>3 DEF FilesTyped
    <2>4. table[d] \notin {Input(s), Script(s)}
      BY <1>3, <2>3 DEF Owned
    <2>5. table[d] \in {Directory(s), Xml(s)}
      BY <2>2, <2>4
    <2>6. PICK i \in DOMAIN loading[s] : loading[s][i] = d
      BY <1>3, <2>5 DEF Owned
    <2>7. s \in cancelled
      BY <1>3, <2>6 DEF LoadOver
    <2> QED
      BY <2>5, <2>6, <2>7 DEF ToSet
  <1> QED
    BY <1>1, <1>2, <1>3, PTL DEF Spec

-----------------------------------------------------------------------------
(* A call that waits leaves no session with a file behind, even if it took the
   wrong thread for the session's: it does so only when the session has freed its
   context, and by then it has closed its files. *)
Gone(s) == stage[s] \in {"unused", "freed", "exited"}

Alone ==
  /\ \A s \in Session : s # child => Gone(s)
  /\ pc \in {"idle", "close"} => \A s \in Session : Gone(s)
  /\ pc = "join" => id = child \/ Gone(child)

LEMMA AloneStep == "spawn" \notin Op /\ WaitInv /\ Alone /\ [Next]_vars => Alone'
  <1> SUFFICES ASSUME "spawn" \notin Op, WaitInv, Alone, [Next]_vars PROVE Alone'
    OBVIOUS
  <1>0. /\ stage \in [Session -> Stage] /\ child \in Session \cup {None} /\ None \notin Session
        /\ op # "spawn" /\ (pc \in {"handle", "join", "close"} => child \in Session)
    BY SpawnAssumption DEF WaitInv
  <1>1. CASE ReadContext
    <2>1. CASE ContextLive(child)
      BY <1>0, <1>1, <2>1 DEF ReadContext, Alone, Gone
    <2>2. CASE ~ContextLive(child)
      <3>1. Gone(child)
        BY <1>0, <1>1, <2>2 DEF ReadContext, ContextLive, Gone, Stage
      <3> QED
        BY <1>0, <1>1, <3>1 DEF ReadContext, Alone, Gone
    <2> QED
      BY <2>1, <2>2
  <1>2. CASE pthread_join
    BY <1>0, <1>2 DEF pthread_join, Joined, Alone, Gone
  <1>3. CASE CloseFile
    BY <1>3 DEF CloseFile, Alone, Gone
  <1>4. ASSUME NEW s \in Session, NEW o, NEW istream, Unused(s), _ucli_shell_spawn(s, o, istream) PROVE Alone'
    BY <1>0, <1>4 DEF _ucli_shell_spawn, Unused, Alone, Gone
  <1>5. ASSUME NEW s \in Session, \E o \in Op : SpawnOnStdin(s, o)
        PROVE Alone'
    BY <1>4, <1>5 DEF SpawnOnStdin
  <1>6. ASSUME NEW s \in Session, ucli_shell_spawn_from_file(s) PROVE Alone'
    BY <1>4, <1>6 DEF ucli_shell_spawn_from_file
  <1>7. ASSUME NEW s \in Session, pthread_cancel(s) \/ ucli_source(s) PROVE Alone'
    BY <1>7 DEF pthread_cancel, ucli_source, caller, Alone, Gone
  <1>8. ASSUME NEW s \in Session, Thread(s) \/ ucli_shell_pop_file(s) \/ SessionEnds(s) PROVE Alone'
    <2>1. /\ \A t \in Session : t # s => stage'[t] = stage[t]
          /\ Gone(s) => Gone(s)'
          /\ UNCHANGED <<child, id>> /\ (pc' = pc \/ pc' = "crashed")
      BY <1>0, <1>8 DEF Thread, ShellNew, LoadOpens, LoadCloses, ShellStart, ucli_shell_cleanup, ThreadExits, SessionEnds,
                        ucli_shell_pop_file, Moves, caller, Gone
    <2>2. \A t \in Session : Gone(t) => Gone(t)'
      BY <2>1 DEF Gone
    <2> QED
      BY <1>0, <2>1, <2>2 DEF Alone
  <1>9. CASE UNCHANGED vars
    BY <1>9 DEF vars, caller, Alone, Gone
  <1> QED
    BY <1>1, <1>2, <1>3, <1>5, <1>6, <1>7, <1>8, <1>9 DEF Next, Spawner

(* What a session reads from is its own: the descriptors on its stack are open,
   different from one another, and stand for what the session opened; and until it has
   reopened the file it was spawned from, that is open too. *)
Sound(s, q) ==
  /\ \A i, j \in DOMAIN q : q[i] = q[j] => i = j
  /\ \A i \in DOMAIN q : /\ table[q[i]] # None
                         /\ i > 1 => table[q[i]] = Script(s)
                         /\ i = 1 /\ source[s].is = Input(s) => table[q[i]] = Input(s)

(* So are the directory and the XML file that it reads while it starts. *)
Reads(s, q) ==
  stage[s] = "start" =>
    /\ \A i, j \in DOMAIN q : q[i] = q[j] => i = j
    /\ \A i \in DOMAIN q : table[q[i]] \in {Directory(s), Xml(s)}

InputReady(s) ==
  stage[s] \in {"new", "start"} /\ source[s].is = Input(s) => table[source[s].fd] = Input(s)

Holds == \A s \in Session : Sound(s, stack[s]) /\ InputReady(s) /\ Reads(s, loading[s])

LEMMA SoundEmpty == \A s \in Session : Sound(s, <<>>)
  BY DEF Sound

(* A session that is gone holds nothing. *)
LEMMA GoneHolds ==
  ASSUME FilesTyped, NEW s \in Session, Gone(s)
  PROVE  stack[s] = <<>> /\ Sound(s, stack[s]) /\ InputReady(s) /\ Reads(s, loading[s])
  <1>1. stack[s] = <<>>
    BY DEF FilesTyped, Gone
  <1> QED
    BY <1>1, SoundEmpty DEF Gone, InputReady, Reads

(* The steps that change no descriptor and no stack, and wake nobody up. *)
LEMMA HoldsSame ==
  ASSUME FilesTyped, Holds, UNCHANGED <<table, stack, source, loading>>,
         \A s \in Session : stage'[s] \in {"new", "start"} => stage[s] \in {"new", "start"}
  PROVE  Holds'
  <1> SUFFICES ASSUME NEW s \in Session
               PROVE  (Sound(s, stack[s]) /\ InputReady(s) /\ Reads(s, loading[s]))'
    BY DEF Holds
  <1>1. Sound(s, stack[s]) /\ InputReady(s) /\ Reads(s, loading[s])
    BY DEF Holds
  <1>2. (Sound(s, stack[s]) /\ InputReady(s))'
    BY <1>1 DEF Sound, InputReady
  <1>3. (Reads(s, loading[s]))'
    <2>1. CASE stage[s] = "start"
      BY <1>1, <2>1 DEF Reads
    <2>2. CASE stage[s] = "new"
      <3>1. loading'[s] = <<>>
        BY <2>2 DEF FilesTyped
      <3> QED
        BY <3>1 DEF Reads
    <2> QED
      BY <2>1, <2>2 DEF Reads
  <1> QED
    BY <1>2, <1>3

LEMMA HoldsStep ==
  "spawn" \notin Op /\ FilesTyped /\ WaitInv /\ Alone /\ Holds /\ [Next]_vars => Holds'
  <1> SUFFICES ASSUME "spawn" \notin Op, FilesTyped, WaitInv, Alone, Holds, [Next]_vars
               PROVE  Holds'
    OBVIOUS
  <1>0. /\ table \in [Fd -> Holder \cup {None}] /\ stack \in [Session -> Seq(Fd)]
        /\ stage \in [Session -> Stage]
        /\ source \in [Session -> [fd : Fd, is : Holder]]
    BY DEF FilesTyped
  <1>1. FilesTyped' /\ Alone'
    BY TypedStep, AloneStep
  <1>2. ASSUME NEW s \in Session, ~Gone(s) PROVE \A t \in Session : t # s => Gone(t)
    BY <1>2 DEF Alone
  (* A step of the only session there is. *)
  <1>3. ASSUME NEW s \in Session, ~Gone(s), \A t \in Session : t # s => stage'[t] = stage[t],
               (Sound(s, stack[s]) /\ InputReady(s) /\ Reads(s, loading[s]))'
        PROVE  Holds'
    <2>1. ASSUME NEW t \in Session, t # s
          PROVE  (Sound(t, stack[t]) /\ InputReady(t) /\ Reads(t, loading[t]))'
      <3>1. Gone(t)'
        BY <1>2, <1>3, <2>1 DEF Gone
      <3>2. stack'[t] = <<>>
        BY <1>1, <3>1 DEF FilesTyped, Gone
      <3>3. (Sound(t, stack[t]))'
        BY <3>2 DEF Sound
      <3> QED
        BY <3>1, <3>3 DEF Gone, InputReady, Reads
    <2> QED
      BY <1>3, <2>1 DEF Holds
  <1>4. CASE ReadContext \/ pthread_join
    BY <1>4, HoldsSame DEF ReadContext, pthread_join, InCall, load
  <1>5. CASE CloseFile
    <2>1. \A s \in Session : Gone(s)'
      BY <1>5 DEF CloseFile, Alone, Gone
    <2>2. \A s \in Session : stack'[s] = <<>>
      BY <1>1, <2>1 DEF FilesTyped, Gone
    <2> QED
      BY <2>1, <2>2 DEF Holds, Sound, InputReady, Reads, Gone
  <1>6. ASSUME NEW s \in Session, NEW o \in Op, SpawnOnStdin(s, o) PROVE Holds'
    <2>1. /\ UNCHANGED <<table, stack>> /\ pc = "idle"
          /\ source'[s].is = Terminal
          /\ \A t \in Session : t # s => source'[t] = source[t] /\ stage'[t] = stage[t]
      BY <1>0, <1>6 DEF SpawnOnStdin, _ucli_shell_spawn, Unused
    <2>2. \A t \in Session : Gone(t)
      BY <2>1 DEF Alone
    <2>3. \A t \in Session : stack'[t] = <<>>
      BY <2>1, <2>2, GoneHolds
    <2>4. Terminal # Input(s)
      BY HolderKinds
    <2>5. stage'[s] # "start"
      BY <1>0, <1>6 DEF SpawnOnStdin, _ucli_shell_spawn, Unused
    <2> QED
      BY <2>1, <2>2, <2>3, <2>4, <2>5 DEF Holds, Sound, InputReady, Reads, Gone
  <1>7. ASSUME NEW s \in Session, ucli_shell_spawn_from_file(s) PROVE Holds'
    <2>1. PICK d \in Fd : /\ table' = [table EXCEPT ![d] = Input(s)]
                          /\ _ucli_shell_spawn(s, "spawn_from_file", [fd |-> d, is |-> Input(s)])
      BY <1>7 DEF ucli_shell_spawn_from_file
    <2>2. /\ UNCHANGED stack /\ pc = "idle" /\ source'[s].fd = d /\ table'[d] = Input(s)
          /\ \A t \in Session : t # s => stage'[t] = stage[t]
      BY <1>0, <1>7, <2>1 DEF ucli_shell_spawn_from_file, _ucli_shell_spawn, Unused
    <2>3. \A t \in Session : Gone(t)
      BY <2>2 DEF Alone
    <2>4. \A t \in Session : stack'[t] = <<>>
      BY <2>2, <2>3, GoneHolds
    <2>5. stage'[s] # "start"
      BY <1>0, <1>7, <2>1 DEF ucli_shell_spawn_from_file, _ucli_shell_spawn, Unused
    <2> QED
      BY <2>2, <2>3, <2>4, <2>5 DEF Holds, Sound, InputReady, Reads, Gone
  <1>8. ASSUME NEW s \in Session, pthread_cancel(s) PROVE Holds'
    BY <1>8, HoldsSame DEF pthread_cancel, load
  <1>9. ASSUME NEW s \in Session, ShellNew(s) \/ SessionEnds(s) \/ ThreadExits(s) PROVE Holds'
    <2>1. UNCHANGED <<table, stack, source, loading>>
      BY <1>9 DEF ShellNew, SessionEnds, ThreadExits, load
    <2>2. \A t \in Session : stage'[t] \in {"new", "start"} => stage[t] \in {"new", "start"}
      BY <1>0, <1>9 DEF ShellNew, SessionEnds, ThreadExits, Moves
    <2> QED
      BY <2>1, <2>2, HoldsSame
  <1>10. ASSUME NEW s \in Session, ShellStart(s) PROVE Holds'
    <2> DEFINE d == source[s].fd
    <2>1. d \in Fd /\ stage[s] = "start" /\ UNCHANGED <<table, source, loading>>
          /\ \A t \in Session : t # s => stage'[t] = stage[t]
      BY <1>0, <1>10 DEF ShellStart, Moves, load
    <2>2. CASE table[d] # None /\ Moves(s, "start", "running") /\ stack' = [stack EXCEPT ![s] = <<d>>]
      <3>1. stack'[s] = <<d>> /\ stage'[s] = "running"
        BY <1>0, <2>2 DEF Moves
      <3>2. source[s].is = Input(s) => table[d] = Input(s)
        BY <2>1 DEF Holds, InputReady
      <3>3. (Sound(s, stack[s]))'
        BY <2>1, <2>2, <3>1, <3>2 DEF Sound
      <3>4. (InputReady(s) /\ Reads(s, loading[s]))'
        BY <3>1 DEF InputReady, Reads
      <3> QED
        BY <1>3, <2>1, <3>3, <3>4 DEF Gone
    <2>3. CASE Moves(s, "start", "exited") /\ UNCHANGED stack
      BY <1>0, <2>1, <2>3, HoldsSame DEF Moves
    <2> QED
      BY <1>10, <2>2, <2>3 DEF ShellStart
  <1>11. ASSUME NEW s \in Session, ucli_source(s) PROVE Holds'
    <2>1. PICK d \in Fd : /\ Lowest(d)
                          /\ table' = [table EXCEPT ![d] = Script(s)]
                          /\ stack' = [stack EXCEPT ![s] = Append(@, d)]
      BY <1>11 DEF ucli_source
    <2> DEFINE q == stack[s]
               n == Len(stack[s])
    <2>2. /\ stage[s] = "running" /\ UNCHANGED <<stage, source>> /\ q \in Seq(Fd) /\ q # <<>>
          /\ table[d] = None
      BY <1>0, <1>11, <2>1 DEF ucli_source, FilesTyped, Lowest, Closed
    <2>3. /\ stack'[s] = Append(q, d) /\ DOMAIN stack'[s] = 1 .. n + 1 /\ n \in Nat \ {0}
          /\ stack'[s][n + 1] = d /\ \A i \in 1 .. n : stack'[s][i] = q[i]
          /\ DOMAIN q = 1 .. n
      <3>1. n \in Nat \ {0}
        BY <2>2, EmptySeq
      <3> QED
        BY <1>0, <2>1, <2>2, <3>1, PushFd
    <2>4. table'[d] = Script(s) /\ \A e \in Fd : e # d => table'[e] = table[e]
      BY <1>0, <2>1
    <2>5. \A i \in 1 .. n : q[i] \in Fd /\ q[i] # d
      BY <2>2, <2>3, ElementOfSeq DEF Holds, Sound
    <2>6. None # Script(s)
      BY HolderKinds
    <2>7. (Sound(s, stack[s]))'
      <3>0. Sound(s, q)
        BY DEF Holds
      <3>1. \A i, j \in DOMAIN stack'[s] : stack'[s][i] = stack'[s][j] => i = j
        BY <2>3, <2>5, <3>0 DEF Sound
      <3>2. ASSUME NEW i \in DOMAIN stack'[s]
            PROVE  /\ table'[stack'[s][i]] # None
                   /\ i > 1 => table'[stack'[s][i]] = Script(s)
                   /\ i = 1 /\ source'[s].is = Input(s) => table'[stack'[s][i]] = Input(s)
        <4>1. CASE i = n + 1
          BY <2>3, <2>4, <2>6, <4>1
        <4>2. CASE i \in 1 .. n
          BY <2>2, <2>3, <2>4, <2>5, <3>0, <4>2 DEF Sound
        <4> QED
          BY <2>3, <4>1, <4>2
      <3> QED
        BY <3>1, <3>2 DEF Sound
    <2>8. (InputReady(s) /\ Reads(s, loading[s]))'
      BY <2>2 DEF InputReady, Reads
    <2> QED
      BY <1>3, <2>2, <2>7, <2>8 DEF Gone
  <1>12. ASSUME NEW s \in Session, ucli_shell_pop_file(s) PROVE Holds'
    <2> DEFINE q == stack[s]
               n == Len(stack[s])
    <2>1. /\ stage[s] = "running" /\ q \in Seq(Fd) /\ q # <<>> /\ UNCHANGED source
          /\ stack'[s] = Front(q) /\ stage'[s] \in {"running", "ending"}
          /\ \A t \in Session : t # s => stage'[t] = stage[t]
      BY <1>0, <1>12 DEF ucli_shell_pop_file, FilesTyped, AfterPop
    <2>2. /\ n \in Nat \ {0} /\ DOMAIN q = 1 .. n /\ DOMAIN stack'[s] = 1 .. n - 1
          /\ \A i \in 1 .. n - 1 : stack'[s][i] = q[i]
          /\ Popped(s) = q[n]
      BY <2>1, PopFd DEF Popped
    <2>3. \A d \in Fd : d # q[n] => table'[d] = table[d]
      BY <1>12, <2>2 DEF ucli_shell_pop_file, Close
    <2>4. \A i \in 1 .. n - 1 : q[i] \in Fd /\ q[i] # q[n]
      BY <2>1, <2>2, ElementOfSeq DEF Holds, Sound
    <2>5. (Sound(s, stack[s]))'
      <3>0. Sound(s, q)
        BY DEF Holds
      <3>1. \A i, j \in DOMAIN stack'[s] : stack'[s][i] = stack'[s][j] => i = j
        BY <2>2, <3>0 DEF Sound
      <3>2. ASSUME NEW i \in DOMAIN stack'[s]
            PROVE  /\ table'[stack'[s][i]] # None
                   /\ i > 1 => table'[stack'[s][i]] = Script(s)
                   /\ i = 1 /\ source'[s].is = Input(s) => table'[stack'[s][i]] = Input(s)
        <4>1. i \in 1 .. n - 1 /\ i \in 1 .. n /\ stack'[s][i] = q[i] /\ table'[q[i]] = table[q[i]]
          BY <2>2, <2>3, <2>4
        <4> QED
          BY <2>1, <2>2, <3>0, <4>1 DEF Sound
      <3> QED
        BY <3>1, <3>2 DEF Sound
    <2>6. (InputReady(s) /\ Reads(s, loading[s]))'
      BY <2>1 DEF InputReady, Reads
    <2> QED
      BY <1>3, <2>1, <2>5, <2>6 DEF Gone
  <1>13. ASSUME NEW s \in Session, ucli_shell_cleanup(s) PROVE Holds'
    <2>1. /\ stage[s] = "ending" /\ stage'[s] = "freed" /\ stack'[s] = <<>>
          /\ \A t \in Session : t # s => stage'[t] = stage[t]
      BY <1>0, <1>13 DEF ucli_shell_cleanup, Moves
    <2>2. (Sound(s, stack[s]) /\ InputReady(s) /\ Reads(s, loading[s]))'
      BY <2>1 DEF Sound, InputReady, Reads
    <2> QED
      BY <1>3, <2>1, <2>2 DEF Gone
  <1>14. CASE UNCHANGED vars
    BY <1>14, HoldsSame DEF vars, load
  <1>15. ASSUME NEW s \in Session, LoadOpens(s) PROVE Holds'
    <2>1. PICK d \in Fd : /\ table[d] = None
                          /\ \E h \in {Directory(s), Xml(s)} : table' = [table EXCEPT ![d] = h]
                          /\ loading' = [loading EXCEPT ![s] = Append(@, d)]
      BY <1>15 DEF LoadOpens, Lowest, Closed
    <2> DEFINE q == loading[s]
               n == Len(loading[s])
    <2>2. /\ stage[s] = "start" /\ UNCHANGED <<stage, source, stack>> /\ q \in Seq(Fd)
          /\ stack[s] = <<>> /\ loading'[s] = Append(q, d)
      BY <1>15, <2>1 DEF LoadOpens, FilesTyped
    <2>3. /\ DOMAIN loading'[s] = 1 .. n + 1 /\ n \in Nat /\ DOMAIN q = 1 .. n
          /\ loading'[s][n + 1] = d /\ \A i \in 1 .. n : loading'[s][i] = q[i]
      BY <2>2, PushFd
    <2>4. table'[d] \in {Directory(s), Xml(s)} /\ \A e \in Fd : e # d => table'[e] = table[e]
      BY <1>0, <2>1
    <2>5. Reads(s, q) /\ InputReady(s)
      BY DEF Holds
    <2>6. \A i \in 1 .. n : q[i] \in Fd /\ q[i] # d
      <3>1. \A i \in 1 .. n : q[i] \in Fd
        BY <2>2, ElementOfSeq
      <3>2. \A i \in 1 .. n : table[q[i]] \in {Directory(s), Xml(s)}
        BY <2>2, <2>3, <2>5 DEF Reads
      <3> HIDE DEF q, n
      <3> QED
        BY <2>1, <3>1, <3>2, NoneIsNoHolder
    <2>7. (Reads(s, loading[s]))'
      <3>1. \A i, j \in DOMAIN loading'[s] : loading'[s][i] = loading'[s][j] => i = j
        BY <2>2, <2>3, <2>5, <2>6 DEF Reads
      <3>2. ASSUME NEW i \in DOMAIN loading'[s] PROVE table'[loading'[s][i]] \in {Directory(s), Xml(s)}
        <4>1. CASE i = n + 1
          BY <2>3, <2>4, <4>1
        <4>2. CASE i \in 1 .. n
          BY <2>2, <2>3, <2>4, <2>5, <2>6, <4>2 DEF Reads
        <4> QED
          BY <2>3, <4>1, <4>2
      <3> QED
        BY <3>1, <3>2 DEF Reads
    <2>8. (InputReady(s))'
      <3>1. source[s].is = Input(s) => table[source[s].fd] = Input(s) /\ source[s].fd \in Fd
        BY <1>0, <2>2, <2>5 DEF InputReady
      <3>2. source[s].is = Input(s) => source[s].fd # d
        BY <2>1, <3>1, NoneIsNoHolder
      <3> QED
        BY <2>2, <2>4, <3>1, <3>2 DEF InputReady
    <2>9. (Sound(s, stack[s]))'
      BY <2>2 DEF Sound
    <2> QED
      BY <1>3, <2>2, <2>7, <2>8, <2>9 DEF Gone
  <1>16. ASSUME NEW s \in Session, LoadCloses(s) PROVE Holds'
    <2> DEFINE q == loading[s]
               n == Len(loading[s])
    <2>1. /\ stage[s] = "start" /\ UNCHANGED <<stage, source, stack>> /\ q \in Seq(Fd) /\ q # <<>>
          /\ stack[s] = <<>> /\ loading'[s] = Front(q)
      BY <1>16 DEF LoadCloses, FilesTyped
    <2>2. /\ n \in Nat \ {0} /\ DOMAIN q = 1 .. n /\ DOMAIN loading'[s] = 1 .. n - 1
          /\ \A i \in 1 .. n - 1 : loading'[s][i] = q[i]
          /\ Last(q) = q[n]
      BY <2>1, PopFd
    <2>3. \A d \in Fd : d # q[n] => table'[d] = table[d]
      BY <1>16, <2>2 DEF LoadCloses, Close
    <2>4. Reads(s, q) /\ InputReady(s)
      BY DEF Holds
    <2>5. \A i \in 1 .. n - 1 : q[i] \in Fd /\ q[i] # q[n] /\ i \in 1 .. n
      <3>1. \A i, j \in DOMAIN q : q[i] = q[j] => i = j
        BY <2>1, <2>4 DEF Reads
      <3>2. \A i \in 1 .. n - 1 : i \in 1 .. n /\ i # n /\ n \in 1 .. n
        BY <2>2
      <3>3. \A i \in 1 .. n : q[i] \in Fd
        BY <2>1, ElementOfSeq
      <3> HIDE DEF q, n
      <3> QED
        BY <2>2, <3>1, <3>2, <3>3
    <2>6. (Reads(s, loading[s]))'
      <3>1. \A i, j \in DOMAIN loading'[s] : loading'[s][i] = loading'[s][j] => i = j
        BY <2>1, <2>2, <2>4, <2>5 DEF Reads
      <3>2. ASSUME NEW i \in DOMAIN loading'[s] PROVE table'[loading'[s][i]] \in {Directory(s), Xml(s)}
        <4>1. i \in 1 .. n - 1 /\ i \in 1 .. n /\ loading'[s][i] = q[i] /\ table'[q[i]] = table[q[i]]
          BY <2>2, <2>3, <2>5
        <4> QED
          BY <2>1, <2>2, <2>4, <4>1 DEF Reads
      <3> QED
        BY <3>1, <3>2 DEF Reads
    <2>7. (InputReady(s))'
      <3>1. source[s].is = Input(s) => table[source[s].fd] = Input(s) /\ source[s].fd \in Fd
        BY <1>0, <2>1, <2>4 DEF InputReady
      <3>2. table[q[n]] \in {Directory(s), Xml(s)}
        BY <2>1, <2>2, <2>4 DEF Reads
      <3>3. Input(s) \notin {Directory(s), Xml(s)}
        BY HolderKinds
      <3>4. source[s].is = Input(s) => source[s].fd # q[n]
        BY <3>1, <3>2, <3>3
      <3> QED
        BY <2>1, <2>3, <3>1, <3>4 DEF InputReady
    <2>8. (Sound(s, stack[s]))'
      BY <2>1 DEF Sound
    <2> QED
      BY <1>3, <2>1, <2>6, <2>7, <2>8 DEF Gone
  <1> QED
    BY <1>4, <1>5, <1>6, <1>7, <1>8, <1>9, <1>10, <1>11, <1>12, <1>13, <1>14, <1>15, <1>16
    DEF Next, Spawner, Thread

(* Where every call waits for its session, the files a session reads stay its own,
   whether or not a context was read too late: no fclose() of another thread takes a
   descriptor away and no other file is read in its place. *)
THEOREM FilesCorrect ==
  ASSUME "spawn" \notin Op
  PROVE  Spec => []FilesStayOpen
  <1> DEFINE Inv == WaitInv /\ FilesTyped /\ Alone /\ Holds
  <1>1. Init => Inv
    <2> SUFFICES ASSUME Init PROVE Inv
      OBVIOUS
    <2>1. WaitInv /\ FilesTyped
      BY WaitInit, TypedInit
    <2>2. \A s \in Session : Gone(s)
      BY DEF Init, Gone
    <2>3. Alone
      BY <2>2 DEF Init, Alone
    <2>4. Holds
      BY <2>1, <2>2, GoneHolds DEF Holds
    <2> QED
      BY <2>1, <2>3, <2>4
  <1>2. Inv /\ [Next]_vars => Inv'
    BY WaitStep, TypedStep, AloneStep, HoldsStep
  <1>3. Inv => FilesStayOpen
    <2> SUFFICES ASSUME Inv, NEW s \in Session
                 PROVE  /\ \A i \in DOMAIN stack[s] : i > 1 => table[stack[s][i]] = Script(s)
                        /\ stack[s] # <<>> /\ source[s].is = Input(s) => table[stack[s][1]] = Input(s)
      BY DEF FilesStayOpen, ScriptsStayOpen, InputStaysOpen
    <2>1. Sound(s, stack[s])
      BY DEF Holds
    <2>2. stack[s] # <<>> => 1 \in DOMAIN stack[s]
      BY EmptySeq, LenProperties DEF FilesTyped
    <2> QED
      BY <2>1, <2>2 DEF Sound
  <1> QED
    BY <1>1, <1>2, <1>3, PTL DEF Spec
=============================================================================
