# A verification project for ucli

ucli is a framework for command line interfaces, derived from clish: a session reads command
lines from a terminal or from scripts, resolves them against views of commands loaded from XML,
and has their actions run by the client program. This directory holds TLA+ models of its parts,
the configurations that check them with TLC, and theorems about them checked with TLAPS.
File names below are relative to the repository; `shell_*.c` are in `libucli/shell`,
`tinyrl.c` and `history.c` under `contrib/tinyrl`, the `lub` libraries under `contrib/lub`.

## 1. The system and its parts

| Part | State it keeps | Operations | Talks to |
|---|---|---|---|
| Shell session (`shell_spawn.c` thread, `shell_execute.c`, `shell_tinyrl.c`, `shell_push_file.c`, `shell_pop_file.c`, `shell_new.c`, `shell_delete.c`) | `state`, `view`, `viewid`, the stack `current_file`, the prompt, line and arguments in hand | create, load, start, read a line, execute, source, pop, close, clean up | line editor (calls, key callbacks), client hooks (callbacks), other threads (cancellation) |
| Session spawning (`shell_spawn.c`; `ucli.c` calls it) | the context shared with the thread; the process's descriptors | spawn, spawn and wait, spawn from a file | the session's thread |
| Task scheduler (`scheduler.c`, `scheduler_fifo.c`, `fifo.c`) | a list of tasks per priority, a counter | register, register for later, schedule, run, is-pending | task functions (re-entrant callbacks), block pool |
| Command history (`history.c`) | a vector of numbered entries, its limit | add, remove, clear, stifle, unstifle, get, iterate, expand | line editor, shell |
| Line editor (`tinyrl.c`, `vt100.c`) | line, buffer, point, end, kill string, terminal mode | a handler per key, insert, delete, replace, complete, redisplay | history, shell's key handlers |
| Resolution and completion (`shell_command_generator.c`, `shell_resolve_*.c`, `view.c`, `command.c`) | the iterator over two views | resolve a command or prefix, next completion, help | views' trees |
| Argument vectors (`pargv.c`) | parameters and values of one line | build from a line, find | parameter types |
| Types and variables (`ptype.c`, `param.c`, `variable_expand.c`) | a compiled pattern, a range | validate, translate, expand | |
| XML loading (`shell_tinyxml_read.cpp`) | none of its own | one handler per element | views, commands, types |
| Balanced trees (`lub/bintree`) | a splay tree through the clients' nodes, turned by every search | insert, remove, find, iterate | views, types, heap |
| Block pools (`lub/blockpool`, `lub/dblockpool`) | a free list per chunk, chunks, statistics | alloc, free | scheduler |
| Memory partitions (`lub/partition`) | a shared heap, a mutex, a local heap per thread, `m_dying` | realloc, extend, kill, destroy | heap |
| Leak-checking heap (`lub/heap`, `lubheap`) | blocks with tags, segments, call contexts | realloc, merge, slice, scan | |
| Script modules (`module/`) | an interpreter per session | the hooks of a session | shell |
| Text helpers (`lub/string`, `lub/argv`, `lub/ctype`, `lub/dump`, `lub/test`) | none | pure functions | |

`clish-original`, `libucli.modified`, `oldbin` and `html` repeat these sources or are made from
them, and `contrib/tinyxml` is third-party: neither is modelled.

What is hard here, and what must hold:

* Session: files sourced by files, errors that must unwind scripts and never a terminal, one
  `state` variable that help, completion, errors and `ucli_close` all write, and cancellation in
  the middle of any of it. Every stream opened is closed once; input comes from the top of the
  stack; closing is final; an error stops the parents; nothing is left behind; the terminal is
  given back.
* Spawning: the spawner and the thread share a heap object and a descriptor number with no
  synchronisation but the join. The right thread is waited for; no file is closed under another.
* Scheduler and pool: tasks that register, schedule and run tasks from inside a running task,
  in blocks of chunks that come and go. The lists stay lists, pool and scheduler agree on which
  blocks are in use, the counter is exact, and what is scheduled is run.
* History: slots, entries and numbers move independently when lines repeat, the limit changes
  or memory is short. A line is held once, nothing is freed twice, the limit holds.
* Editor: a buffer, and a line that is the buffer or an entry of the history, under keys that
  write the one and read the other; references, completions and the pieces of script lines work
  on the same text by index. What is shown is what is edited and returned.
* Completion: a merge of two sorted views that are restarted between calls. Each command comes
  once, the local one where both views have it.
* Argument vectors: defaults, options, flags and positions fill one vector. Each parameter has
  the value of the word meant for it.
* Trees: every search turns the tree. No node is lost, whatever happens between the steps of an
  iteration.
* Heap: a block knows its neighbours by tags in memory that splitting, merging, moving and
  static allocation rewrite. Blocks tile the memory and keep their contents.
* Partitions: a mutex taken twice on the path that extends the heap, and the decision to destroy
  a dying partition. Nothing is lost unaccounted for, calls return, the partition ends once.

`PROJECT.json` lists the hazards at their lines, with the properties that answer them.

## 2. Modules

| Module | What it is |
|---|---|
| `Session` | what a session promises: a stack of sources, closing is final |
| `Shell`, `MCShell` | the session's thread, one action per step between its observable points; the instances for TLC |
| `ShellProofs` | theorems about `Shell`, among them that it implements `Session` |
| `Spawn`, `SpawnProofs` | the three ways to spawn a session, the shared context and descriptors; theorems |
| `TaskScheduler` | what the scheduler promises: queues served by priority and in order |
| `Scheduler`, `SchedulerProofs` | the scheduler down to the links of its lists; theorems, also about `SchedulerPool` |
| `BlockPool` | the dynamic pool: chunks, and the list of free blocks in each |
| `SchedulerPool`, `MCSchedulerPool` | the scheduler on that pool, and its deletion; the instance for TLC |
| `CommandList` | what the history promises: lines held once, in order, up to a limit |
| `History`, `HistoryProofs` | the vector of entries and the browsing of it; theorems |
| `EditBuffer` | what the editor promises: text around a cursor, a killed text, a draft that survives browsing |
| `CommandViews` | views of commands: splitting a line, longest-prefix resolution, the iterators of completion |
| `LineEditor`, `LineEditorProofs` | the editor on a terminal and on a script, with references and completion; theorems, also about the completions of `CommandViews` |
| `Arguments` | words made the values of parameters, and what they should mean |
| `MCLine` | the instance of `LineEditor` and `Arguments` for TLC |
| `Heap`, `HeapProofs` | the heap word by word; theorems |
| `BinTree`, `MCHeap` | the splay trees the heap keeps its free blocks in; the instances of both for TLC |
| `Partition`, `PartitionProofs` | threads with local heaps before a shared one; theorems |
| `SequenceLemmas` | facts about sequences, lists of linked nodes and recursive functions that the proofs share |

`Scheduler`, `History`, `Spawn` and `Partition` have constants that a configuration can give
directly. The names of actions are those of the functions they model. Definitions
whose comment begins with "Mutant" are variants of the definition that follows them, as a bug
would have it: substituting one must make the property it is listed with fail.

### Shell

`pc` is where the thread stands in `ucli_shell_thread` and the calls it makes; between two values
no other thread could see the difference. `files` is `current_file` and its `next` links with the
current file last; each node carries a history field, `fate`, that no action reads. `istream` is
the stream the line editor reads. `open` is the streams opened and not closed, kept apart from
`files` so that a leak or a double close shows. `held` is the objects that only this thread can
release. Its context refers to three of them, which `ucli_shell_cleanup` frees, and a handler of
`ucli_shell_execute` to a fourth; the others are known to the running functions alone: the shell
in `ucli_shell_new`, the path, directory, file name and file in `ucli_shell_load_files` (`dirs` is
what is still to be searched), a line and its arguments in `tinyrl_readline` and the client's
`cmd_line_fn`, what a key's handler works on, and the words a built-in command is called with. A
cancelled thread ends at the next `CancellationPoint`, in client code too; `at` is a history field
that says where, and `Lost` what has no handler there. A line is what parsing it yields: a command
with good or bad arguments, an unknown command, nothing; a command is its action and the view it
leads to.

One constant is a failure: `AllocFails`, that `malloc()` may fail in `ucli_shell_push_file`. `Path` is
the directories searched for XML files, and how many each has. `MaxLines` bounds a
script; two lines are enough to source a file and come back to a line after it. Three streams
besides the session's own give the terminal and two nested scripts. Opening a stream restarts it
at its first line, so a script may source the other for as long as streams are free.

### Spawn

One thread makes the calls, one after the other. `stage` is how far each session has got, and the
context is live exactly from "new" to "ending". `table` is the process's descriptors and what each
was opened for: `open()` takes the lowest free number and `fclose()` closes a number whatever it
stands for by then. That is what makes the second close of a session's file matter: its stream
and the spawner's are two streams on one number. Output streams are left out; they are never
closed. `loading` is the directory and the XML file that a session has open in
`ucli_shell_load_files`; if it is cancelled then, they stay open, and keep their numbers. A client
can cancel a session by the thread it was given or by one its hooks noted with `pthread_self()`.
A cancellation in the client's `fini_fn` is left to `Shell`: the files are closed by then, or are
stdin and the spawner's own.
`fdopen()` of a closed number is NULL, and what follows (`fileno(NULL)`) is the end of the process.

A thread may run to its end, and free the context, before its spawner has read in it which thread
to wait for; nothing in the code prevents it. `misread` records that this has happened: from then
on the caller may wait for any thread, and the properties say which of them still hold.

### Scheduler, BlockPool, SchedulerPool

`head`, `tail` and `next` are the fields of `lub_fifo_t` and its nodes. `status` is what has been
done with a block; it is written where the block changes hands, and only the client reads it,
which schedules once what it has registered, as `scheduler.h` requires. A task function is the
interval between `RunStarts` and `RunReturns`, in which any other action may happen, `RunStarts`
included up to `MaxNest`. `Garbage` is what `malloc()` may leave in `pending`, `PoolFails` whether
the pool may refuse a block, and `UintSize` the width of the counter. `excess` records by how much
the counter is too high, from its first value and from registrations that were refused.

`BlockPool` has the chunks in the order of their links and, per chunk, `m_head`, `m_tail` and the
links through the free blocks. `SchedulerPool` composes the two: a registration takes the block
that the pool hands out, the end of a task gives it back, and `lub_scheduler_delete` releases the
pool and then finds its queues empty or aborts. In `Scheduler` alone a block is any free one.
Each step of `SchedulerPool` is put together from one of `Scheduler` and what the pool does, so
that it is a scheduler by construction; what is proved of the one carries over to the other.

### History

`entries` is the slots in use; `heap` the numbers of the entries allocated and not freed, so that
an entry lost, or freed and still in a slot, shows as a difference between the two. `corrupt` marks a
slot that holds no entry of its own, after an allocation has failed: what the program does from
then on with that slot is undefined, so the model goes no further. `viewing` is `line != buffer`,
and `offset` the iterator of the editor. The length of the history at the start of
`tinyrl_history_clear` is the client's to check: with an empty list its assertion fails. The
client owns an entry it has removed. A history deleted with its editor is followed by a new one.

### LineEditor, CommandViews, EditBuffer

`editor` is what a handler works on: the buffer and its size, the entry shown (`view`, 0 for the
buffer), the cursor and the end. Handlers are operators from such a record to another, so that the
ones that call each other (ENTER resolves, which expands, which replaces the line) are composed as
in the code. `Chance` is what a handler cannot foresee: whether memory is short, and what an
uninitialised number holds. `stray` is a history field: a handler has worked on a text that was not
the one shown, or has lost part of it. The properties are about what happens until then, and the
model stops following the keys of that line there.

`lines` and `current` are the history without a limit; its own rules are in `History`. The
references `!!`, `!n` and `!-n` are expanded as the code scans them, with the part that `sscanf`
and `strspn` take. `!-0` is read as the number 0, which is no line, and is taken for a reference to
none (`Meaning`). In a script `fgets` returns pieces of at most `Piece` characters, which are put
together in the buffer and entered as a line.

Characters are few: a space, `!`, `-`, a digit and the end of a line. Texts have no quotes and no
carriage return, and one case: `lub_string_nocasecmp` is taken by the order it gives.
`CommandViews` has the functions of the views as operators on sets of names, and the iterator of
completion as the sequence it runs through. A name does not end in a space: it is words with one
space between two of them.

`EditBuffer` knows of the commands only what texts a completion can put in (`Offered`), because a
reference in one of them is expanded like one that was typed.

### Arguments

`ucli_pargv_init` is a recursive function over the words, one step per turn of the loop.
`ParsesAsDeclared` compares it with a definition that does not run: which word is an option, the
value of one, or plain is read off the line, and so is what each parameter should have. The
parse depends on nothing in the session, so `MCLine` has it compared in one state, the first prompt.

### Heap, BinTree

`mem` is memory, a word at a time: a tag, what a client wrote there, taint or static memory. The
functions of the heap map a record of memory, tree and count to another, and one action is one
call of `lub_heap_realloc`, `lub_heap_static_alloc` or `lub_heap_add_segment`. `broken` records
that the code has failed in a known way, after which nothing is known of the memory. The tree of
free blocks is a set here, and what the heap checks of itself before each call is
`lub_heap_check_memory`, a walk along each segment; that a splay tree serves as one is what `BinTree` has, with trees as
links, and `TreesServeAsSets` of `MCHeap` checks it on every shape of tree there is over a few
nodes, in one state of the heap because it depends on none.

### Partition

A call of `lub_partition_realloc` is a path of steps (`pc`), and each visit to the shared heap one
through its mutex (`phase`). The heaps are numbers: blocks of a cache, units of the shared heap.
`lost` counts what the code drops: blocks it forgets to return when the next allocator refuses, and
key data. `AccountExact` is an account of each of the two kinds of memory, `CacheExact` of the
blocks of each cache and `HeapExact` of the units of the shared heap, while the partition lives. `Relock` is what locking a mutex twice does, which POSIX leaves open: it may block
for ever, or fail with an error that the code does not look at, and then two threads may be in the
heap at once (`raced`), of which nothing more is said. A thread gives back what it was given itself.

## 3. Runs

| Run | Bounds | Shows |
|---|---|---|
| `shell_tty` | terminal, 2 scripts of 2 lines, one command of each kind, 2 directories, one with 2 XML files | the file stack, errors, closing, cancellation and clean-up of an interactive session, and that it implements `Session` |
| `shell_script` | no terminal, 3 streams, a startup command that sources, failing pushes | the session ends by itself, whatever its scripts source |
| `scheduler` | 2 chunks of 2 blocks, 3 tasks at once, 3 levels, nesting 2, refusals, any first value of the counter | lists, blocks, pool, counter and service, and that it implements `TaskScheduler` |
| `scheduler_idle` | 2 tasks | see 6 |
| `history` | 4 lines, limits 0, 1 and 3, 6 entries, growth by 2, failing entries and growth | the list is right, and implements `CommandList` |
| `spawn_files` | 2 sessions, descriptors up to 6, 2 sourced files each, a directory and an XML file each, refusals | descriptors stay with their owners, nothing is left open but what a cancelled session was loading, calls return, the cancelled exit |
| `spawn_streams` | 2 sessions | see 6 |
| `heap` | 3 clients, sizes 0, 1, 2, 5 and 6, a segment of 13 words and one of 5, smallest block 3; 5 tree nodes | blocks tile, contents are kept, the heap's check passes; trees serve as sets |
| `heap_both_ways` | 3 clients, sizes 0, 1, 4 and 9, a segment of 15 words | see 6 |
| `partition` | 2 threads, 2 pointers, caches of 1 block, 2 segments of 3 units | the account is exact, calls return, a killed partition ends when all its memory is back |
| `partition_kill` | the same, with a mutex that blocks | see 6 |
| `line` | texts of 3 characters of `!`, `-`, `1` and space, 2 entries, scripts of 4 characters in pieces of 2; 3 parameters of 5 kinds, 3 words of 4 | the line, references, completions, script lines and argument vectors are right; the editor implements `EditBuffer` |

Why these bounds are enough to show something:

* `scheduler`: three tasks make a list with a first, middle and last node while one runs inside
  another; a chunk fills, a second is made, and either can be released first while the other serves.
  Priorities below, within and above the range are asked for. `UintSize` 5 makes the counter wrap.
* `history`: growth by 2 makes the vector grow twice, and a limit of 3 is met by a fourth line.
* `spawn_files`: two sessions let a number be closed, given away and closed again. What a cancelled
  first session leaves open takes numbers from the second, down to the last.
* `heap`: 13 words hold four of the smallest blocks, so that a block has free and used neighbours
  on both sides; 5 and 6 words need two of those merged, with and without something left over.
* `partition`: both threads need the heap extended; one cached block each makes a second one spill.
* `line`: two digits and a sign make every form of reference; a piece of 2 makes lines end before, at
  and behind its edge. `MaxEntry` is 1, so that entries differ from what was typed; with 2 the
  run is longer and shows the same. A killed text is one character long at most.
* trees: all search trees over up to five nodes, two of which have one key, and nine keys to look
  for, on and between those of the nodes, on both sides of them all.

Deadlock is checked for `Shell`, which has an explicit step for a thread that is gone. The other
models really may stop: when no call is left to make, the bound on entries is met, the memory
is broken, or a thread waits for itself.

### Fairness

* `Shell`: the thread's own steps and the reading of a file that is no terminal are weakly fair.
  The thread is scheduled, client code returns, and a script has an end. What a user types and
  that anyone cancels the session is not assumed.
* `Spawn`: the spawner, the sessions' own steps and the end of a script are weakly fair; a user
  need never leave a session on stdin, so the liveness claimed is of calls on files and of
  cancelled sessions.
* `Scheduler`, `SchedulerPool`: a task function returns, and the client's main loop runs tasks
  while there are any. Service of a level is claimed only if more urgent levels are empty from
  some time on: the code gives no more.
* `Partition`: a thread in a call is scheduled (weak fairness), and gets a mutex that is unlocked
  again and again (strong fairness of taking it). That clients call at all is not assumed.
* The others have no liveness properties.

## 4. What is proved

Each proof module extends the module it is about. The theorems hold for every value of the
constants that satisfies the module's assumptions. Some assume more, because they are really
false without it (section 6 says where):

* `StackCorrect`, `NeverCrashes` and `Implements` of the session that a push does not fail
  (`~AllocFails`), and so does `CleanupCorrect`;
* `FilesCorrect` that no session is spawned without waiting for it (`"spawn" \notin Op`);
* `NeverRaces` that a mutex blocks the thread that already has it (`"fails" \notin Relock`).

**`ShellProofs`**

* `TypeCorrect`. Types alone are not inductive, since `CommandFails` reads the top of the stack and
  `cmd.act` needs a command: `TypeInv` adds where a command is at hand.
* `StackCorrect` (the open streams are those on the stack, each once, input comes from its top, and
  no file that has ended or failed is read) and `NeverCrashes`. `StackInv` adds, at each `pc`,
  whether the stack is empty, which fates its nodes may have, and how `running` and `state` go with
  them, because the unwinding of a file relies on the way the loop came to it.
* `RawCorrect`: the terminal is raw only while a line is read, or after a cancelled read.
* `ParsedCorrect`: no command runs whose arguments were not parsed. A command without arguments can
  be found and stays in `cmd`; `CommandOfLine` says that it does not get as far as the client.
* `CleanupCorrect`: a session that ends by itself, or is cancelled while it waits for input, runs a
  script or is between two lines, has released its objects and closed its streams; cancelled elsewhere
  it loses what `Lost` says of the place, and no stream unless that is in the client's `fini_fn`.
  `HeldAsPlaced` gives what is held at each place of the thread, and what is left of it there once the
  handlers have run. `LeakBounded` is the part about objects, whether or not a push fails.
* `LeaveCorrect` and `ErrorCorrect`: a file is left at its end, on closing or on an error in a
  script, and no line is read nor command run between that error and the terminal. `LeaveInv` says
  that a loop variable cleared by an error stands only until the bottom of the loop, where it is
  explained.
* `ClosingFinal`, and `Implements`: the session refines `Session` under the mapping of `state`, `pc`
  and `files` to a phase and a stack of sources. Each action maps to one abstract step or to none,
  from the invariants above.

**`SequenceLemmas`**: what appending, removing and taking the tail do to a sequence, its elements and
their distinctness; and that a list of linked nodes, read from its head by a recursive function, is
the sequence whose neighbours the links join (`WalkReads`): if the walk and the sequence differed,
they would differ first somewhere, and there they have come from the same node. The prover cannot do
induction over a formula, but it can over a set (`UpTo`): of the numbers that are not in it there
would be a least one. `RecursionWithin` is what this says of a recursive function: it is defined, and
its values stay within any set that the first one is in and that each step stays within.

**`SchedulerProofs`**

* `TypeCorrect`, `BlocksCorrect` and `PendingCorrect` use an invariant that is local: the first task
  of a queue has no predecessor, the last no successor, each other queued task has one of each, a
  link stays within its level, and nothing else has a link.
* `ListsCorrect`: a queue read along its links is a list that ends at the tail, and a task is on one,
  once, while it is scheduled. `QueueInv` says of each level that what `Chain` reads there is a
  sequence with those links (`ListOf`) that has the scheduled tasks of the level. Each operation is
  shown to take a sequence with the links before it to one with the links after it - its tail, the
  sequence with a task appended - and `ChainOfList` that any such sequence is what `Chain` reads.
* `Implements`: the scheduler refines `TaskScheduler`, each queue mapped to what `Chain` reads. A
  step that serves a task takes the head of the first queue that is not empty.

* `BlocksCorrectInPool`, `PendingCorrectInPool`, `ListsCorrectInPool` and `ImplementsInPool` carry the
  theorems before over to `SchedulerPool`, each step of which is one of `Scheduler` or leaves its
  variables alone (`PoolStep`). `PoolCorrect` is about the pool itself, until the scheduler is
  deleted: the free blocks of a chunk are once on its list and the others are those of tasks.
  `PoolInv` reads the list of a chunk as a sequence too (`FreeOf`), and ties the counter of the chunk
  to it: its length and the counter add up to the size of the chunk. That a chunk is freed when its
  counter falls to nothing, and not earlier, rests on that equation.

**`HistoryProofs`**

* `TypeCorrect` and `StifleCorrect`, both whatever allocation fails, and `EntriesCorrect`, until an
  entry fails to be allocated. The invariant is that of a sequence, a set and a number - lines
  distinct, numbers ascending and below the counter, the set of entries allocated equal to the
  numbers in the sequence - shown to be kept by taking one element out, by a suffix, by appending
  the current number and by starting afresh, the things the operations do.
* `ViewCorrect`: the entry shown while the user browses is one the list holds. Nothing changes the
  list while a line is read, which is what makes the offset of the iterator safe to use.
* `RecallCorrect`, an action property: the number before the next one recalls the line just read.
* `Implements`: the vector refines `CommandList`, each entry mapped to its line. Removing the slot
  that holds a line is removing its first occurrence, since a line is held once.

**`SpawnProofs`**

* `WaitCorrect`: a call that waits returns when its session is over, provided it reads the context
  in time. The invariant follows the call: the context is live until it has been read, then the
  thread is the right one, then the session is over.
* `OpenCorrect`: nothing opened for a session is open at the end, whatever sessions run beside one
  another, but for the directory and the XML file that a session was reading when it was cancelled.
  `Owned` gives each open descriptor to whom it is known: a sourced file to the stack of its session,
  the file a session is spawned from to the call that spawned it, a directory and an XML file to the
  loading of its session, which is over once that has started, unless it was cancelled (`LoadOver`).
* `FilesCorrect`: sessions one waits for keep their files to themselves. `Alone` says that a caller
  that goes on leaves no session behind that still has files, even if it waited for the wrong
  thread: that takes a context that was freed, and a session closes its files before.

`HolderAssumption` says that no record of who holds a descriptor is the value for a closed one.

**`PartitionProofs`**

* `AccountCorrect`: every block of a cache and every unit of the shared heap is free, with a client or
  a local heap, or lost in one of four ways. The invariant, `AccountInv`, adds to the account what a
  thread in a call has to its name (`CallOk`: its pointer is no other's, and has no block of a cache
  any more when the shared heap is asked), and that the sets counted are finite: each step moves
  one element or one number between two terms of the sum.
* `MutexCorrect` and `NeverRaces`: a thread in the shared heap has the mutex. The first holds until a
  mutex fails to lock, with any constants; the second says it never does where a mutex taken twice
  blocks.

**`HeapProofs`**

* `BlocksCorrect` and `ContentsCorrect`, of any number of clients and segments of any size, until the
  code fails in one of the ways that `broken` records. Most of the module is about the functions of the
  heap, as relations between the heap before and after, and says nothing of states. `Sane(h, H, R)`
  says that the blocks in the tree of `h` and those in `H`, which are held, tile the words `R`: each
  block's two tags tell whether it is free, whether `R` goes on beside it, and how many words it has.
  This is enough for a block to find its neighbours (`NextIs`, `PreviousIs`), and every function takes
  a sane heap to a sane one: it replaces the blocks between two words by others that tile what they
  did (`Retile`), so that nothing has to be known of the rest. The same lemmas say which words are left
  as they are (`Kept`), and that a block that is extended, moved or copied carries its contents along
  (`Carries`). `ReallocIs` puts together the ways `lub_heap_raw_realloc` can go.
* The invariant, `HeapInv`, is that the heap there is is sane for the blocks clients hold and the words
  of the segments that are not static memory; that static memory reaches to the end of its segment,
  which is why a tag in the last word of a segment means that there is none; and that each client has
  a block of its own, with room for what it asked for and with what it wrote.
* `CheckNeverFails`: `lub_heap_check_memory` passes while the heap is intact. To the tiling it adds
  `FirstInv`, that static memory never takes the first word of a segment, so that the walk of a segment
  begins at a block (`FirstBlock`). The walk is a recursive function, whose values stay within
  `Counting(i, total)`: at a block of the segment, with what is counted and the free blocks from
  there on adding up to the same total. Every step goes to a later block or ends the walk, and there
  are no more blocks than words (`ProcessIs`).

**`LineEditorProofs`**, for lines of any length over any characters, any views and any history:

* `LineIsKept`. The invariant, `EditorInv`, is that whatever is held is a text, and that the editor is
  `Sound`: until something is lost, `Kept` says that its end is that of the line shown, that the
  cursor is on it, and that the buffer has room. Each function of the editor has a lemma that says
  what it does to the text before the cursor and to that behind it (`InsertIs`, `DeleteIs`,
  `ReplaceIs`, `CompletedIs`), and those of the keys follow from them. The completions need that the
  words offered are texts that go on where the last word of the line does (`WordsFit`), the
  expansion that what comes of it is a text that has an entry in it (`ExpandIs`): it is a recursive
  function along the line, and the set that its values stay within is in `Expanding`.
* `CompletesOnce`. The iterator takes the first of what is left of each view (`NextIs`), so that after
  each step what it has given is in order and comes before everything that is left, and where it
  stands in each view tells what is left there (`InOrder`, `Between`). `StepInOrder` keeps that, and
  a step that finds nothing has nothing left. There are at most as many steps as commands, so all
  have been given in the end (`CompletionsAre`).
* `MakesLines`. While the pieces of a line come, `Gathered(q * Piece)` says that the buffer has the first
  `q` full pieces of the script without the blanks they begin with, and that there is no newline in
  them; so where a piece ends tells whether its line does (`TextOfPiece`).
* `ExpandsAll`, for `ExpandsReferences`. The expansion is a recursive function along the line
  (`ExpandsInRounds`), and so is the concatenation of what each place is replaced by (`FlattenIs`).
  `Passed` relates the two at every round: what the loop has put out, with the plain part it stands
  in, is what the places before it are replaced by, and the reference it has last passed ends where
  that plain part begins. `CharStep` and `ReferenceStep` keep it; `ReferenceIs` says that what
  `sscanf` reads at a reference is its number, and that the loop goes on behind it.
* `ImplementsTheBuffer`: the editor refines `EditBuffer`. `Outcome` is what a completion, an expansion
  or several of them one after the other make of a line: it has grown at the cursor, or it has been
  replaced by one with an entry in it, which takes a reference in the line or in what was offered,
  or something is lost. `OutcomeAll` says that this composes; each of the three is a step of
  `EditBuffer`.

`EditorAssumption` and `ViewsAssumption` are what these need: texts are over the characters that have
a code, and names of commands do not end in a space.

Only model-checked: liveness, which is out of the prover's reach, and `ENABLED` with it;
`ParsesAsDeclared` and `TreesServeAsSets`, which compare what recursion over data computes with a
definition that does not run.

## 5. What is left to do

In order:

1. The buckets of the heap's cache, in place of the number that `Partition` has for them, and
   memory given back by another thread.
2. Two sessions that complete at once on the types they share.

## 6. Where the code and its documentation disagree

Four are runs whose counterexample is the disagreement; the places and quotations are in
`PROJECT.json`.

* `scheduler_idle`: the queue of the last priority is never searched, and a task there is not found.
* `spawn_streams`: a session's file is closed twice, the second time perhaps as somebody else's.
* `heap_both_ways`: a block that grows both ways is returned at the wrong address.
* `partition_kill`: a dying partition is destroyed while another thread has a block of it.

The models also show the following, which properties have to except or no run names:

* The client hears of a command line before its action, not after (`shell_tinyrl.c:420`;
  `libucli/shell.h:86-90`).
* A file whose node cannot be allocated is reported as pushed, and leaks (`shell_push_file.c:13-29`):
  with `AllocFails`, `InputStack` fails.
* A session cancelled while it waits for a key leaves the terminal raw (`tinyrl.c:681`):
  `RawOnlyWhileReading` has to allow it.
* A cancelled session loses what the functions it was in had in hand (`Lost`, which `NothingLeft`
  excepts), although its context is there "to simplify the cleanup of a CLI session when a thread is
  cancelled" (`shell_spawn.c:22-25`): the shell in the client's `init_fn` (`shell_spawn.c:193`); the
  path, the directory, the name of an XML file and that file (`shell_spawn.c:84`, `95`, `113`), with
  their descriptors (`NothingLeftOpen`); matches, texts or arguments of a key's handler that prints
  (`shell_help.c:19-97`); a line and its arguments in the `cmd_line_fn` (`shell_tinyrl.c:420`); the
  words a built-in command was called with (`shell_execute.c:219-239`); and the whole shell and its
  context if it is in the `fini_fn` after the loop, where the handler is no longer registered
  (`shell_spawn.c:282`).
* A command for `ucli_source` whose text is empty makes it read the name of the file through a NULL
  pointer (`shell_execute.c:61`): the model has no such command.
* A stray semicolon counts a registration that failed (`scheduler.c:79`; `scheduler.h:200`), and the
  counter of a new scheduler is not initialised (`scheduler.c:21`): `excess` in `PendingExact`.
* A scheduler with a task of the greatest priority number cannot be deleted: the assertion of
  `lub_fifo_fini` fails (`fifo.c:17`), after its pool has been released.
* An entry that cannot be allocated leaves its slot in use, and what the slot held in the list
  twice (`history.c:85`): `corrupt` in `EntriesSound`.
* A short session frees its context before `ucli_shell_spawn` reads the thread to hand over from
  it (`shell_spawn.c:360`): `misread` in `WaitsForSession`.
* A session closes descriptor 0, and the next one on stdin starts without it, or on the file that
  has the number by then (`shell_spawn.c:210`).
* Keys that read or write the buffer while an entry of the history is shown, and completion in the
  middle of a line, work on a text that is not the one shown (`tinyrl.c:143`, `tinyrl.c:1222`): `stray` in `LineKept`.
* The last line of a script is dropped when it has no newline and fills its last piece
  (`tinyrl.c:736`): the exception in `PiecesMakeLines`.
* The vector of arguments is one short when every parameter has a value and the rest comes on top
  (`pargv.c:237-251`): the exception in `ParsesAsDeclared`.
* The mutex of a partition is taken twice by the thread that extends the heap
  (`partition_realloc.c:74`): `SelfLocked`, excepted from `CallReturns` and `DiesWhenDone`.
* The distance of two free blocks is narrowed to `int` (`heap_create.c:20`), so that with wider
  pointers the tree may order blocks of one size otherwise than by address, which is the order
  `FindNext` uses; no property depends on it.
* The comment on `lub_bintree_compare` (`bintree/private.h:60-64`) has the signs the other way round
  than its callers (`bintree.h:128-139`).

## 7. Not modelled

Formatting, display, XML, regular expressions and the expansion of variables are data no property
here tells apart. The interpreter behind a script hook is outside the repository. The loop of
`main()` in `ucli.c` is short and sequential; what can go wrong in it is listed with the hazards.
Of the heap the buckets of the cache, alignments, call contexts and the leak scanner, which reads
machine stacks, are left out; of the editor its output. `clish-original`, `libucli.modified`,
`oldbin` and `html` repeat these sources or are made from them, and `contrib/tinyxml` is
third-party; they are a large part of the repository's lines.
