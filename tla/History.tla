------------------------------ MODULE History ------------------------------
(***************************************************************************)
(* The history of command lines of contrib/tinyrl: the vector of entries   *)
(* that history.c keeps, and the iterator with which the line editor of    *)
(* tinyrl.c browses it while a line is read.                               *)
(*                                                                         *)
(* One thread at a time uses a history.  While a line is read the keys     *)
(* browse it; the line read is added to it, and only then may a command,   *)
(* "history n" among them, or the client change it.                        *)
(***************************************************************************)
EXTENDS Naturals, Sequences, SequencesExt

CONSTANTS
  Line,          \* the command lines
  Limit,         \* the numbers given to tinyrl_history_new and to "history n"
  GrowBy,        \* the slots added when the vector grows, 10 in the code
  ReallocFails,  \* whether realloc() may return NULL
  EntryFails,    \* whether tinyrl_history_entry_new may return NULL
  NoLine,        \* what an uninitialised slot leads to
  MaxIndex       \* bound: the entries made

ASSUME HistoryAssumption ==
  /\ Limit \subseteq Nat /\ 0 \in Limit
  /\ GrowBy \in Nat \ {0}
  /\ ReallocFails \in BOOLEAN /\ EntryFails \in BOOLEAN
  /\ NoLine \notin Line
  /\ MaxIndex \in Nat

Entry == [line : Line \cup {NoLine}, index : Nat]

VARIABLES
  entries,        \* the slots in use, oldest first
  size,           \* the slots allocated
  stifle,         \* the most entries to hold, 0 when there is no limit
  current_index,  \* the number of the next entry
  heap,           \* the numbers of the entries allocated and not freed
  corrupt,        \* a slot in use holds no entry of its own
  reading,        \* a line is being read
  viewing,        \* the line shown is that of an entry, not of the buffer
  offset          \* hist_iter.offset

list == <<entries, size, stifle, current_index, heap, corrupt>>
editor == <<reading, viewing, offset>>
vars == <<list, editor>>

Init ==
  /\ entries = <<>>
  /\ size = 0
  /\ stifle \in Limit
  /\ current_index = 1
  /\ heap = {}
  /\ corrupt = FALSE
  /\ reading = FALSE
  /\ viewing = FALSE
  /\ offset = 0

length == Len(entries)

Indexes(s) == {s[i].index : i \in DOMAIN s}
-----------------------------------------------------------------------------
(* Adding a line. *)

Full == length # 0 /\ length = stifle

(* The slots that hold a line. *)
Holding(l) == {i \in 1 .. length : entries[i].line = l}

(* Mutant: a line already held is not looked for. *)
MakesWay_duplicates(l) == IF Full THEN {1} ELSE {}

(* The slot given up for a line: the one that holds it, or the oldest of a list
   that is full. *)
MakesWay(l) == IF Holding(l) # {} THEN Holding(l)
               ELSE IF Full THEN {1} ELSE {}

(* The entry freed when slot i is given up. *)
Freed(i) == entries[i].index

(* The vector grows when every slot is in use, unless the list is full. *)
Grow ==
  \/ /\ ~Full /\ size = length
     /\ size' = size + GrowBy
  \/ /\ ~Full /\ size = length
     /\ ReallocFails
     /\ UNCHANGED size
  \/ /\ Full \/ size # length
     /\ UNCHANGED size

(* Mutant: a slot is used that the vector does not have. *)
HasRoom_always(s) == TRUE

HasRoom(s) == Len(s) < size'

(* Mutant: the counter is increased before it is used. *)
Number_next(s) == current_index + 1

Number(s) == current_index

(* A line is put into the slot after those of s, if there is one; h is what is then
   allocated, and stale what the slot held before. *)
append_entry(s, h, stale, l) ==
  \/ /\ HasRoom(s)
     /\ entries' = Append(s, [line |-> l, index |-> Number(s)])
     /\ heap' = h \cup {Number(s)}
     /\ current_index' = current_index + 1
     /\ UNCHANGED corrupt
  \/ /\ HasRoom(s) /\ EntryFails
     /\ entries' = Append(s, stale)
     /\ heap' = h
     /\ current_index' = current_index + 1
     /\ corrupt' = TRUE
  \/ /\ ~HasRoom(s)
     /\ entries' = s
     /\ heap' = h
     /\ UNCHANGED <<current_index, corrupt>>

Uninitialised == [line |-> NoLine, index |-> 0]

tinyrl_history_add(l) ==
  /\ Grow
  /\ \/ /\ MakesWay(l) = {}
        /\ append_entry(entries, heap, Uninitialised, l)
     \/ \E i \in MakesWay(l) :
          append_entry(RemoveAt(entries, i), heap \ {Freed(i)}, Last(entries), l)
  /\ UNCHANGED stifle
-----------------------------------------------------------------------------
(* Reading a line. *)

CanRead == current_index <= MaxIndex

ReadlineStarts ==
  /\ ~reading /\ ~corrupt /\ CanRead
  /\ reading' = TRUE
  /\ viewing' = FALSE
  /\ UNCHANGED <<list, offset>>

(* Where the iterator stands before it goes back an entry. *)
Above == IF viewing THEN offset ELSE length

tinyrl_key_up ==
  /\ reading
  /\ \/ /\ Above > 0
        /\ offset' = Above - 1
        /\ viewing' = TRUE
     \/ /\ Above = 0
        /\ offset' = 0
        /\ UNCHANGED viewing
  /\ UNCHANGED <<list, reading>>

(* Mutant: the iterator may pass the last entry. *)
HasNext_past == offset < length

HasNext == offset < length - 1

tinyrl_key_down ==
  /\ reading /\ viewing
  /\ \/ HasNext /\ offset' = offset + 1 /\ UNCHANGED viewing
     \/ ~HasNext /\ viewing' = FALSE /\ UNCHANGED offset
  /\ UNCHANGED <<list, reading>>

(* The line is edited: what is shown is copied to the buffer first. *)
changed_line ==
  /\ reading /\ viewing
  /\ viewing' = FALSE
  /\ UNCHANGED <<list, reading, offset>>

(* A line is entered: the one viewed, or whatever the buffer holds. *)
ReadlineReturns(l) ==
  /\ reading
  /\ viewing => l = entries[offset + 1].line
  /\ reading' = FALSE
  /\ tinyrl_history_add(l)
  /\ UNCHANGED <<viewing, offset>>

(* The terminal is closed. *)
ReadlineEnds ==
  /\ reading
  /\ reading' = FALSE
  /\ UNCHANGED <<list, viewing, offset>>
-----------------------------------------------------------------------------
(* Commands and the client. *)

Idle == ~reading /\ ~corrupt /\ UNCHANGED <<size, current_index, corrupt, editor>>

Oldest(n) == {entries[i].index : i \in 1 .. n}

(* Mutant: the limit is set and the obsolete entries are kept. *)
tinyrl_history_stifle_kept(n) ==
  /\ stifle' = n
  /\ UNCHANGED <<entries, heap>>

(* Mutant: the newest entries are dropped. *)
tinyrl_history_stifle_oldest(n) ==
  /\ stifle' = n
  /\ LET keep == IF n < length THEN n ELSE length IN
     /\ entries' = SubSeq(entries, 1, keep)
     /\ heap' = heap \ {entries[i].index : i \in keep + 1 .. length}

tinyrl_history_stifle(n) ==
  /\ stifle' = n
  /\ LET gone == IF n < length THEN length - n ELSE 0 IN
     /\ entries' = SubSeq(entries, gone + 1, length)
     /\ heap' = heap \ Oldest(gone)

tinyrl_history_unstifle ==
  /\ stifle' = 0
  /\ UNCHANGED <<entries, heap>>

(* The command "history n". *)
ucli_history(n) ==
  /\ Idle
  /\ \/ n = 0 /\ tinyrl_history_unstifle
     \/ n # 0 /\ tinyrl_history_stifle(n)

(* The entry is the client's from now on. *)
tinyrl_history_remove(i) ==
  /\ Idle
  /\ entries' = RemoveAt(entries, i)
  /\ heap' = heap \ {entries[i].index}
  /\ UNCHANGED stifle

(* A client clears a history that has entries: otherwise an assertion fails. *)
tinyrl_history_clear ==
  /\ Idle
  /\ length # 0
  /\ entries' = <<>>
  /\ heap' = heap \ Oldest(length)
  /\ UNCHANGED stifle

(* The shell is deleted, perhaps while it reads a line, and the history with it; the
   next shell makes one with a limit of its own.  What is allocated is never given up
   otherwise. *)
tinyrl_history_delete ==
  /\ ~corrupt
  /\ heap' = heap \ Oldest(length)
  /\ entries' = <<>> /\ size' = 0 /\ current_index' = 1
  /\ stifle' \in Limit
  /\ reading' = FALSE /\ viewing' = FALSE /\ offset' = 0
  /\ UNCHANGED corrupt

Next ==
  \/ ReadlineStarts \/ tinyrl_key_up \/ tinyrl_key_down \/ changed_line
  \/ \E l \in Line : ReadlineReturns(l)
  \/ ReadlineEnds
  \/ \E n \in Limit : ucli_history(n)
  \/ \E i \in 1 .. length : tinyrl_history_remove(i)
  \/ tinyrl_history_clear \/ tinyrl_history_delete

Spec == Init /\ [][Next]_vars
-----------------------------------------------------------------------------
(* Properties. *)

(* Every variable has its type, and the slots in use are slots there are. *)
TypeOK ==
  /\ entries \in Seq(Entry)
  /\ size \in Nat /\ length <= size
  /\ stifle \in Limit
  /\ current_index \in Nat \ {0}
  /\ heap \subseteq Nat
  /\ corrupt \in BOOLEAN
  /\ reading \in BOOLEAN /\ viewing \in BOOLEAN
  /\ offset \in Nat

(* "duplicate entries are only held once in the history" (CHANGES). *)
HeldOnce == \A i, j \in 1 .. length : entries[i].line = entries[j].line => i = j

(* The entries are in the order of their numbers, all of them given already, so
   that a number names at most one line. *)
NumbersAscend ==
  /\ \A i, j \in 1 .. length : i < j => entries[i].index < entries[j].index
  /\ \A i \in 1 .. length : entries[i].index < current_index

(* Each entry allocated is in a slot in use, and each slot leads to one: none is
   lost, and none is read or freed after it has been freed. *)
EntriesOwned == heap = Indexes(entries)

(* The entries are sound, unless one has failed to be allocated: the three together. *)
EntriesSound == ~corrupt => HeldOnce /\ NumbersAscend /\ EntriesOwned

(* A stifled list holds no more than its limit, whichever way the limit and the
   entries came about. *)
StifleHonoured == stifle # 0 => length <= stifle

(* The line shown while browsing is one that the history holds. *)
ViewsAnEntry == viewing /\ reading => offset < length

(* tinyrl_history_get: the slots whose entry has a number. *)
tinyrl_history_get(n) == {i \in 1 .. length : entries[i].index = n}

(* "!!" stands for the line just read, wherever it was in the list before, if it could
   be recorded. *)
RecallsLast ==
  [][\A l \in Line : ReadlineReturns(l) /\ current_index' # current_index /\ ~corrupt' =>
       {entries'[i].line : i \in tinyrl_history_get(current_index - 1)'} = {l}]_vars

(* The history implements the list its clients are promised. *)
Abstract == INSTANCE CommandList WITH
  list <- [i \in 1 .. length |-> entries[i].line],
  limit <- stifle,
  torn <- corrupt

ImplementsCommandList == Abstract!LSpec
=============================================================================
