# Verification of the Fall-2023 operating systems and parallel computing projects

The repository holds the projects of two courses: `src/OS` (systems programs in C: a
JIT compiler, a user-level thread scheduler, a persistent tree, a log-structured
key-value store, a process monitor) and `src/PDC` (parallel and distributed computing:
simulators and pthread programs), besides single-file exercises (`src/APPS`) that share
no state and form no system.

This directory holds TLA+ models of these programs, TLC configurations that check them on small instances, and
proofs that hold for every instance. Every definition is translated from the C source;
`PROJECT.json` names the lines under "map".

Contents: 1 inventory, 2 plan, 3 the modules and the code, 4 runs and bounds, 5 fairness
and client discipline, 6 findings, 7 known divergences that are not runs, 8 proofs, 9 what is
only model-checked or not modelled.

## 1. Inventory

| Component | State | Operations | What is hard | Correct means | Model |
|---|---|---|---|---|---|
| log, `OS/projects/p4/logfs.c`, `device.c` | device blocks, length in block 0; ring of 34 blocks (`queue_head`, `queue_tail`, `queue_utilized`); cache of 256 blocks; `utilized`; two flags, a mutex, a condition variable | open, append, read, close; the worker's `disk_write` | the last block is flushed partially and rewritten; a wrapped ring is flushed in two halves; a read leaves the mutex; one condition variable for two kinds of waiting; an open that fails half-way, or does not notice | an accepted byte is in the ring or on the device; reads return it; calls return; a recorded log survives | `LogFS`, `AppendLog` |
| key-value store, `kvraw.c`, `kvdb.c` | log of linked records, `size`, `waste` | open, insert, update, replace, remove, lookup, close | chains across collisions, tombstones, an append of three appends, the rebuild, a close with bytes still queued | a map; exact counters; the same map after a restart | `KVDB`, `KVMap` |
| its tests, `p4/main.c` | one test, its next call | six tests | a log that fails under a test | a test passes unless the log fails | `KVTests` |
| index, `index.c` | open-addressing table, `size`, `capacity` | update (with growth), lookup, close | probing, copying while growing | a map from hash to reference | `HashIndex`, `IndexMap` |
| threads, `OS/projects/p2/scheduler.c` | circular list with saved contexts, current thread | create, execute, yield, the SIGALRM handler | the signal comes anywhere, creations included | every thread runs, in turn, to its end | `Scheduler` |
| threads, `OS/exam-prep/projects/p2` | list from head to tail, current thread | the same | creating inside a thread changes who is current | turns go round | `StudyScheduler` |
| heap, `OS/projects/p3/scm.c` | mapped file with block headers, `utilized` | open, malloc, free, close | the file outlives the process; no block is reused; an edition checks for room and the other does not | the file keeps what it held | `CountedTree` |
| tree, `OS/projects/p3/avl.c` | AVL tree of counted words, `items`, `unique` | insert, remove, exists, traverse | removal of a node with two children, whose item is freed, a full heap | sorted, balanced, counters match | `AVLTree`, `CountedTree`, `WordBag` |
| shell, `OS/projects/p3/shell.c` | history of lines, cursor, saved terminal | a key; the callback | slots of fixed length side by side | the line entered is the line run | `LineEditor` |
| lexer, parser, JIT, `OS/projects/p1` and two editions in `exam-prep` | token array, cursor, graph, files, a loaded module | open, reflect, compile, open, lookup | recursive descent with left operands, error paths, files left by an earlier process | the value of the grammar's tree is printed, or nothing | `Expression` |
| process monitor, `OS/projects/p5` | previous counters, a flag | sample, the signal | unsigned counters that wrap | shares are exact; an interrupt ends it | `Monitor` |
| memory simulator, `PDC/hw1` | modules, waiting queue, access counts | cycle | bounded queue, flags that are not reset | a waiting processor is served | `MemorySimulator` |
| sender, receiver, `PDC/hw2` | one socket | one message | | | no |
| prime finder, `PDC/hw3` `primes.c`, `carr_d.c` | shared counter under a mutex, growing array under another | sequential and parallel search | claims wrap, the array grows while others push, creation fails | exactly the primes up to max | `PrimeFinder`, `PrimeList` |
| its command line, `util.c`, `main.c`, `common/parser.c` | arguments | parse a number, a range, a list, a line | limits of `strtol`, list limits | what is written is read | `Arguments` |
| sorted array, `PDC/hw3` `conc_darray.c` | array, size, capacity | init, push, pop, sort, destroy | empty arrays, the pivot | entries are kept | `ConcArray` |
| matrix product, `PDC/hw4` | rows per thread | multiply | the remainder of a division | every row is computed once | `MatrixProduct` |
| transpose, `PDC/hw5` | next swap under a mutex | parallel transpose | chunks at the boundary | every pair is swapped once | `Transpose` |
| load balancing, `PDC/hw8`, two editions | loads on a ring, times | simulate | indices at 0, integer averages | loads approach one another, it ends | `LoadBalance` |

Interactions: `kvdb` calls `kvraw` and `index`; `kvraw` calls `logfs`; `logfs` calls
`device`. `LogFS` contains the device. `KVDB` takes the index as `IndexMap` promises it and,
within a session, the log as `AppendLog` promises it; what a close records and how a session
starts it has from `logfs.c` itself. `LogFS` and `HashIndex` are checked against these two. `KVTests` composes the store with its tests. `avl` calls `scm`, and `CountedTree`
composes both with the driver's commands. The other programs stand alone.

The hazards of every component, with the line where each bites and the properties that
watch it, are listed in `PROJECT.json`; section 7 has the disagreements that were met.

## 2. Plan

Done: models and runs of `LogFS`, `PrimeFinder`, `KVDB`, `KVTests`, `Scheduler`,
`StudyScheduler`, `HashIndex`, the tree over its heap, and the programs of p1, p3, p5, hw1,
hw3 (arguments, sorted array), hw4, hw5 and hw8; proofs of the invariants of `LogFS`,
`PrimeFinder`, `KVDB`, `Scheduler`, `StudyScheduler`, `HashIndex`, `Monitor`,
`MemorySimulator`, `MatrixProduct`, `Transpose`, `LineEditor`, `ConcArray`, `Arguments`
and `CountedTree`, of the action properties of `LoadBalance` and `CountedTree`, and of the refinements of `AppendLog`,
`PrimeList`, `KVMap`, `IndexMap` and `WordBag`.

Left, in this order:

1. The parser of `Expression` as recursive functions, unfolded by `Recursion` as those of
   the tree and of the sort are, and the proof of `Evaluated`.
2. A proof about `KVTests`: one caller and fixed inputs, so TLC says nearly all.

## 3. The modules and the code

**`LogFS`** (`logfs.c`, `device.c`). Two threads. A critical section, from a lock or a
return of `pthread_cond_wait` to the next unlock or wait, is one action; what runs without
the mutex is an action of its own.

| Code | Model |
|---|---|
| `queue_data`, `queue_head`, `queue_tail`, `queue_utilized` | `ring`, `head`, `tail`, `qu` |
| `flush_data`, `stop_thread`, waiters of the condition | `flush`, `stop`, `waiting` |
| device data area, block 0, `read_cache` | `dev`, `metadata`, `cache` (by increasing index) |
| `logfs_open`, `setup` | `Open`; `OpenUnread` (get_metadata fails and nobody looks), `OpenFails` |
| `logfs_append`: space check without lock; wait; copy | `AppendCall`, `AppendWait`, `AppendCopy` |
| `logfs_read`: call; wait for a drained ring; blocks from cache or device; return | `ReadCall`, `ReadWait`, `ReadDrained`, `ReadHit`, `ReadMiss`, `ReadFails`, `ReadAborts`, `ReadReturn` |
| `logfs_close`: metadata, stop, join | `CloseMetadata`, `CloseMetadataFails`, `CloseStop`, `CloseJoin` |
| `create_worker` with `disk_write` | `WorkerWait`, `WorkerFlush`, `WorkerIdle`, `WorkerCheck`; `DiskWriteFails` (a short `pwrite` leaves any part of its bytes behind), `DiskWriteAborts` |
| death of the process, spurious wakeups | `Crash`, `SpuriousWakeup` |

`log`, `pending` and `spent` are history. Bytes are numbers in order of acceptance, so
that a lost or a repeated byte is visible. A session that takes -1 for the length of the log
starts with that many bytes in `log`, zeros where nobody appended any; its first flush lands
on the metadata block, which then holds any of the lengths in `Garbage`. **`AppendLog`** is what `logfs.h` promises.

**`PrimeFinder`** (`primes.c`, `common/carr_d.c`). A claim under `counter_mutex` is one
action; `carr_d_push` holds the array's lock over the growth loop and two writes, so lock,
growth, write and count are actions (`Push`). Trial division is one action (`IsPrime`,
with the int conversion of the argument). `pthread_create` and `realloc` may fail.
**`PrimeList`** is what `primes.h` promises.

**`KVDB`** (`kvdb.c`, `kvraw.c`). One thread, so an operation is an action; the loop of
`kvdb_open`, which may run for ever, is an action per record. Records have offsets and
lengths but no bytes: `metas`, `keys` and `vals` say what starts at an offset, and an
offset where no record starts is taken as unreadable. `FailAt` says which of the three
appends of a record may fail. `stored` is how much of the log is on the device: `Flush` is
the worker, which writes whole blocks by itself and the rest for a reader (`Drained`). `Close`
keeps what is stored and loses the rest. A session that starts inside a block (`start`) puts
what it writes as much lower as the block had bytes, and its first flush destroys the block
(`Land`); what it writes is taken as unreadable then, though it can be read, at the wrong
place. An open whose metadata or record cannot be read is `OpenUnread`, `RebuildUnread`. **`KVMap`** is what `kvdb.h` promises.

**`HashIndex`** (`index.c`). One thread; `grow` copies one slot per action (`Update`,
`Move`, `Grown`, `Place`), so that both tables can be looked at in the middle. `Store` is
the caller's assignment to what `index_update` returned. A key is its hash; a `uint64_t`
wraps at `Width`, so `(key + i) % capacity` has the jump it has in the code. Where `update`
would reach `EXIT` the model has no step, so that the deadlock check sees it as well.
**`IndexMap`** is what the callers rely on.

**`Scheduler`** (`scheduler.c`). One processor; `pc` says in which code it is, `saved`
where every `jmp_buf` leads. A thread's `scheduler_create` is two actions, the links it
reads and the one it sets (`CreateBegin`, `CreateEnd`; `made` and `behind` are its local
state), so that a signal, and another creation, may come between. A signal may come at every `pc` of `SignalIn`; its handler is
`scheduler_yield`. The build is `-std=c99`, so `signal()` has System V meaning: the
handler is reset when it runs and is armed anew by the next pass of `scheduler_execute`. A
jump into a frame that is gone is undefined and ends the model.

**`KVTests`** (`p4/main.c`). A test is the sequence of its calls with the results and
counters it asks for; a call is a step of `KVDB`. The objects are the store's keys, two of
them on one chain. A call to the log may fail at any point. The property says when the
verdict may be "failed".

**`CountedTree`** (`scm.c`, `avl.c`, `p3/main.c`, and their copies in `exam-prep`, the
edition "study"). Every command is an action and so is every kind of start: `OpenFound`,
`OpenNew`, `OpenCleared` (the study edition clears at every open), `OpenAborts`. A process
may be killed between commands (`Die`): the mapping is shared, so the file keeps what was
written. The heap is the length of its used part, since no block is ever used again and
blocks lie one behind the other. Words have lengths (`ItemSize`), and a removal gives back
what the code frees: the item of the child or successor that was copied up (`Freed`). A full heap makes an insert return NULL on the way up
(`InsertFull`), or, since the submitted edition never asks whether a block fits, write past
the mapping (`InsertFaults`).
**`AVLTree`** has the tree as a value (`Trees[n]`: the trees of at most n levels) and each
recursion of the code as a recursive function on it; **`WordBag`** is what the driver
promises: a bag of words that outlives the process.

**`Expression`** (`p1/lexer.c`, `parser.c`, `jitc.c`, `main.c`; the editions "study" and
"sigmoid" of `exam-prep`). The parser is the recursive descent as operators over the token
sequence; `LanguageExact` and `ValuePrinted` compare it with a grammar and with a value
stated without reference to it. Compiling, loading and looking up may fail in every way,
and an `out.so` of an earlier process may lie there. Two editions do not look whether
`waitpid` waited: when it did not (`waited`), the status is uninitialised and the report
either one, so a module may be loaded that is stale, and one may be left behind.

**`LineEditor`** (`p3/shell.c`). The `static struct` of the shell is one array of bytes
with the saved terminal settings behind the history, so that a write past a slot is seen
where it lands. **`Monitor`** (`p5/main.c`): the counters of the kernel are history, what
is computed of them is the code's; `getNetworkStats` and `readDiskStats` are steps of the
loop, the latter without a check of its file.

**`MemorySimulator`**, **`MatrixProduct`**, **`Transpose`**, **`LoadBalance`** (hw1, hw4,
hw5, hw8): one action per request, row, chunk or swap, and turn; `rand()` is a choice.
`Transpose` has the check that `main` makes of its result, and both command lines.
**`ConcArray`** (`conc_darray.c`) has the array with its mutex as one caller uses it;
the sort is compared with what it is called with. **`Arguments`** reads a string as a
sequence of pieces: a number is what `strtol` takes at once, anything else a character.
**`StudyScheduler`** is to `exam-prep/projects/p2` what `Scheduler` is to p2, without a
signal in the scheduler itself.

**`MCPrograms`** runs these programs and `HashIndex` and `KVTests`, one to a behaviour
(`program` chooses); `Only` leaves the variables of the others alone. It EXTENDS the ten
modules that theorems are about (`HashIndex`, `Monitor`, `MemorySimulator`,
`MatrixProduct`, `Transpose`, `LoadBalance`, `StudyScheduler`, `LineEditor`,
`ConcArray`, `Arguments`), whose constants come from `Programs.cfg`, so that the properties
checked are the ones proved; the other programs are instances. `ProgramsInit`,
`ProgramsNext` and `ProgramsSpec` are the whole, `RunCycles` a step of the simulator. The
modules state their parts of the properties, and `ConstantsAssumption` has the assumptions
of the instances evaluated.

## 4. Runs and bounds

| Run | Instance | Shows |
|---|---|---|
| `LogFS_strict` | blocks of 3 bytes, ring of 2, cache of 2, device of 7 blocks, 9 bytes, 2 sessions, a crash, a failing `device_read` of a read or metadata write; at most 2 bytes between reads, closes at a block boundary | `BytesKept` (no byte lost; drained means stored), `ReadsTrue` (reads correct; cache coherent), `LogSurvives` (recorded bytes stay; closes keep the log), refinement of `AppendLog` |
| `LogFS_free` | blocks of 2, ring of 2, device of 4, 7 bytes, any client, a flush that writes a part, an open that fails or goes unnoticed | counters, wakeups, no standoff, quiet reads; `AllReturn` (every call returns and whole blocks are flushed) |
| `LogFS_reopen` | smallest instance | finding 1 |
| `PrimeFinder_two` | two workers, max 25, failing creations and reallocs | `AllFound` (all of them when the call returns, and nobody at work), each prime once and refinement of `PrimeList`, the call ends |
| `KVDB_store` | three keys, two on one chain, one value, 4 records, 2 sessions, blocks of 18 bytes, closes when all is stored and ends a block, one failing read or first append | chains complete, `CountsExact` (size and waste), refinement of `KVMap` |
| `KVDB_loop` | two keys of equal length | finding 2 |
| `Scheduler_all` | three threads, two pieces of work each, two calls, signals everywhere, `scheduler_create` included | `SwitchesSound` (contexts valid, one running), `TurnsFair` (round robin, all started), the call returns |
| `Scheduler_dropped` | the same without signals | finding 3 |
| `Tree_words` | five words of one length, pages of 2 bytes, files of 402 and 412, both editions, kills and starts with and without `--truncate` | `TreeSound` (every word found, balanced, `items` the copies, the heap's counter and the file agree), `CountersFollow` (`unique` changes as the tree does, `utilized` stays between what the tree reaches and what was laid out), refinement of `WordBag` |
| `Tree_truncate` | the same words, files of one and two pages of 4096 | finding 4 |
| `Shell_quit` | history of 3 lines of 3 keys | finding 5 |
| `Programs` | below | below |

The program of `Programs`, its instance, and what its properties say:

| Program | Instance | Properties |
|---|---|---|
| simulator (hw1) | up to 4 processors, 3 modules, 6 cycles, a queue of 3 | `WaitingServed`: the queue lies in its array, one request per processor, no module idle while one waits for it |
| transposer (hw5) | sizes 0 to 4, up to 2 threads, grains 0, 1, 2, 4, unsigned modulo 1024 | `Transposed`: chunks disjoint, `main` finds the result correct but for size 2; `CallsEnd` |
| multiplier (hw4) | sizes 1, 2, 3, 5; 0, 1, 2, 3 and 6 threads | `Multiplied`: rows disjoint, the result the product but for the rows left over |
| balancer (hw8) | rings of 3 and 4, loads 1 to 3, times 1 and 2 of 3, both editions | `SpreadShrinks`: no step raises the highest load or lowers the lowest; `CallsEnd` |
| evaluator (p1) | all tokens to length 4; `-`, `/`, brackets to length 6; `/`, brackets to 7; `-`, `/` to 7; the three editions with and without a stale module to length 3 | `Evaluated`: exactly the expressions accepted, their values printed, the code compiles, no files left |
| shell (p3) | 3 lines of 3 keys, 2 bytes of settings | `LinesSound`: cursor and line agree with the bytes, commands arrive as entered |
| array (hw3) | capacities 0, 1, 3; values 0 to 2; 5 entries | `ArraySound`: room for its entries; the sort keeps them and splits them at the pivot |
| monitor (p5) | counters modulo 4, 9 ticks | `ShareExact`: shares exact though counters go round; `CallsEnd`: an interrupt ends it |
| study (exam-prep p2) | 3 threads | `StudySound`: turns go round, no context used twice, one thread lost at most |
| index (p4) | hashes 0, 1, 5, 9, 11, 15 of width 16, capacities 4 and 10 | `IndexSound`: probing, sizes, a slot left; `KeepsPromise`: refinement of `IndexMap` |
| arguments (hw3) | longs -4 to 4, unsigned modulo 3, lists of 2, three arguments | `ArgumentsRead`: numbers, ranges, lists and lines are read as they are written |
| tester (p4) | three keys, two on one chain, three values, one failing call to the log | `TestsPass`: a test fails only if the log does |

Why the bounds are enough to see the interesting cases. Log: a ring of two blocks wraps
after four bytes, so 7 and 9 bytes go round it; a block of 2 or 3 bytes can be flushed
partially and again; the device of 4 blocks fills up. Primes: 25 has the squares 4, 9 and
25 and an array that grows from capacity 1 four times. Store: 4 records are an insert, its
update, a removal and another key in between on the same chain. Threads: three are needed
for a turn that passes over somebody; two calls, for what a first call leaves behind.
Tree: five words make every rotation and a removal with two children below the root; the
two sizes of file are full in the middle of an insertion, after its word and before its
node, and between two. A file has whole pages, so that what lies behind it is not mapped, as
the one of `Notes.txt:36`; a page of 4096 takes more words than TLC can try, so `Tree_words`
has small ones. A file that ends inside a page, behind which writes are lost without a
fault, is not modelled. Store: a block of 18 bytes ends with the first record, and with one
of the two short keys, so that closes at the end of a block happen with and without records. Simulator: four processors on three modules overfill a queue of
three. Transposer: grains that divide the number of swaps and grains that do not, and that
exceed it. Expressions: seven tokens have two operators with brackets around either pair.
Counters modulo 4 go round twice in nine ticks. Index: the five keys collide modulo 4 and
modulo 10, one of them wraps past the end of the table and one past the width, and the
fourth key makes a table with entries grow. Liveness is checked without symmetry.

In `PROJECT.json` every property of a passing run has a mutant: the definition of the
model changed the way a plausible bug would change the code, under which TLC finds the
property violated.

## 5. Fairness and client discipline

`LogFS`: weak fairness of the worker and of a client inside a call; the code's threads run
on, and a mutex that is free is obtained. The client need not call. `PrimeFinder`: weak
fairness per thread. A thread that waits for the array's lock gets it at the latest when
nobody else pushes, so no strong fairness is needed. `KVDB`: weak fairness of the rebuild.
`Scheduler`: weak fairness of the processor; strong fairness of `Terminate`, because an
alarm comes once a second and a thread that has a second again and again gets past its
last instruction. `Transpose`: weak fairness per thread and of `Join`. `LoadBalance` and
`Monitor`: one thread that runs on, so weak fairness of its steps; nothing is assumed of
the signal. The others have safety properties only.

`LogFS` holds its promise only for clients with some discipline, and the constants say
which: `MaxPending` (bytes between two reads) and `CloseRule` (when the client closes).
`LogFS_free` drops both and checks what holds all the same. The theorems about the bytes
have that discipline as a formula, `Discipline` of `LogFSProofs`, which `LogFS_strict`
is an instance of; `Discipline` of `KVDBProofs` is the one of the store (section 8). Nothing in `kvdb.c` or
`kvraw.c` keeps either: a record is not a block, several are written between two reads, and
`kvdb_close` comes at any time. In `Scheduler`, `struck`
records that a signal came while the scheduler itself was at work, `scheduler_create` included; the properties about
contexts and turns are claimed until then: such a signal is undefined behaviour in most places
of the code, and in a creation it can lose a thread (`Scheduler_lost`).
The model takes one such signal per behaviour. In `KVDB`, `MaxAtClose` bounds the records
a session leaves behind, and `Width` is far above every counter. In `CountedTree`,
`RemoveRule = "simple"` leaves out the removals of section 7 that the code gets wrong, and
the heap's counter is claimed for words of one length (`EqualItems`; `Tree_drift`).

## 6. Findings

1. `logfs.c:243`: a session opened on a log that ends inside a block overwrites the end of
   it with its first flush (`LogFS_reopen`, `RecordedStays`).
2. `kvdb.c:251`: the rebuild steps from the record's link and not from the record, and may
   read one record for ever (`KVDB_loop`, `OpenReturns`).
3. `scheduler.c:106`: the candidate is never the current thread, so the last thread is not
   resumed after a yield and one created alone never starts (`Scheduler_dropped`,
   `AllTerminated`).
4. `scm.c:107`: a truncating open resets the counter and leaves the headers, so on a file
   that was used the next allocation is not at the base, and the assertion that the state
   lies there fails (`Tree_truncate`, `StateAtBase`).
5. `shell.c:191`: once the history is full, `read_line` clears the first byte of the slot
   the line lies in before it hands the line over: the callback gets an empty command, and
   "quit" does not end the shell (`Shell_quit`, `QuitExits`).

## 7. Known divergences that are not runs

The models show these too, or state their properties so that they do not claim the
opposite. Six of them have a configuration with which TLC finds the violation in seconds:

| Configuration | Module | Violated | What the code does |
|---|---|---|---|
| `LogFS_unread` | `MCLogFS` | `RecordedStays` | `logfs.c:238`: a metadata read that fails at open returns -1, which is taken for the length of the log; the first flush goes over the metadata block, the following ones over the log from its start |
| `LogFS_brim` | `MCLogFS` | `BytesKept` | `logfs.c:98`: a ring filled exactly up to its head has head and tail at one place, as one with less than a block has; `disk_write` writes one block of it and counts all |
| `LogFS_whole` | `MCLogFS` | `AppendReturns` | `logfs.c:559`: an append of the whole ring waits for an empty one, and the worker flushes the last part of a block for readers only |
| `KVDB_close` | `MCKVDB` | `KeepsPromise` | `logfs.c:331`: a close drains nothing, and neither does `kvdb_close`: a record that was just inserted is gone at the next open. `test_store_restore_state` looks its key up before it closes, which drains the queue |
| `Scheduler_lost` | `MCScheduler` | `OthersTerminated` | `scheduler.c:96`: a thread preempted between the two links of `scheduler_create` takes a thread created meanwhile off the list |
| `Tree_drift` | `MCCountedTree` | `StateAtBase` | `avl.c:217`: the item freed is that of the word copied up and not of the word removed; with words of 1 and of 35 characters the heap's counter drifts, at 0 the next start takes the file for a new one, and the assertion of `avl.c:159` fails |

The others follow, with the constants that show them.

The log and the store (p4):

- `logfs_close` records the length before the ring is drained, and never drains it
  (`logfs.c:331`): bytes accepted since the last flush are gone, against `logfs.h:52-58`
  (`CloseRule = "any"`, `CloseKeepsLog`).
- A garbage length near 2^64 in the metadata block: `device_write` is asked for offsets that
  no file has and fails for ever. `OpenFails` is undefined when memory was missing late
  (`logfs_close` locks a mutex and joins a thread that do not exist); the model ends there.
- A ring of 3 blocks, `MaxPending = 4`: a read that comes between the two halves of a
  wrapped flush takes the ring for drained (`logfs.c:126`); `ReadCorrect` fails.
- A device of 3 blocks: an append beyond its end fails an assertion (`logfs.c:545`).
- `FaultyCalls = {"flush"}`: bytes of a failed `device_write` are counted as stored
  (`logfs.c:121`), `NothingLost` fails; what it wrote before it failed differs from what is
  cached (`CacheCoherent`).
- The store on a log that is closed inside a block: what the next session writes lands lower
  than it is looked for (`KVDB` with `CloseRule = "any"`).
- The links of the rebuild can lead back: on a chain of records of 18, 20 and 38 bytes the
  sums meet a record that was read before. No claim is made that the loop ends when there
  are several records.
- The rebuild counts every record as a key (`kvdb.c:252`), so `SizeCounts` is claimed for
  the first session only. `kvdb_update` counts before it appends, so a failed append
  leaves the counter changed.
- `FailAt = {2}`: an append that fails after its meta part leaves the log ahead of
  `kvraw`, and a later record is looked for in the wrong place (`kvraw.c:161`); a record whose
  first append fails is the only failure the properties cover.
- `HashIndex`, a key within `capacity` of the width: the probe jumps and can miss slots
  (`index.c:83`), so with enough keys on the others `EXIT` is reached.

Threads (p2): `scheduler_execute` without any thread follows a null pointer;
`scheduler_create` does not look whether there is memory for a stack (`scheduler.c:85`). In the study
edition a thread created by a running one takes its creator's context at the next yield
and may never run, and the last thread to yield is dropped.

The tree, the shell (p3):

- `unique` stays 1 after the last word is removed; a removal of an absent word lowers
  `items` and `unique` (`avl.c:267`); a removal of a node with two children whose
  successor is counted twice or more leaves the successor's word twice (`avl.c:232`;
  `RemoveRule = "any"` shows them).
- `utilized` may also go below 0, and come round, with words of different lengths; an insert into a full heap returns
  without counting. The study edition clears the file at every open, and its `scm_free`
  hands mapped memory to `free`.
- A blank as the last character a line can hold overruns the slot, and the slot past the
  history lies in the saved terminal settings (`mode = "wild"` where nothing can be said).

The evaluator (p1): the message for a bad additive operand indexes a table of two by 2 or
3 (`parser.c:237`); nodes leak on error paths; "%f" truncates literals; the lexer takes
"inf", which C does not. Where `waitpid` fails, as it does when SIGCHLD is ignored, two editions
read an uninitialised status (`p1/jitc.c:55`): a stale module may be printed. The sigmoid edition ignores the compiler's exit status, so a stale
`out.so` is loaded; closing a module that was not loaded faults in both study editions.

The monitor (p5): the first sample is against zeros and wrong once counters have wrapped,
equal sums divide by zero, and `/proc/diskstats` is read though it may not be open.

The parallel programs (PDC):

- hw1: `simulate` never writes `avg_access_time` (`simulator.h:17-18`); a `bool` makes the
  threshold an equality (`simulator.c:32-39`, `150`); the mean is of integer quotients;
  the queue is full when `rear` is at the end, and a processor dropped then never asks
  again.
- hw3: `isPrime` takes an int, so primes above INT_MAX are missed (`primes.c:14`,
  `primes.h:14`). `Max = UIntSize - 1`: no claim exceeds the limit and the search never
  ends; `Max` near `UIntSize`: claims wrap and primes are stored twice (`primes.c:32,35`).
  `shared_counter` is set once per process, so a second call would go on where the first
  ended (`primes.c:24`); no program makes one.
  `conc_darray.c:104-106` does not sort `[2, 9, 1]`; the sort of an empty array wraps
  `size - 1`; a destroyed mutex is locked before the check for it. A list with anything
  behind one item too many passes the length check and is cut (`parser.c:88`). `main`
  hands longs on as unsigned, while the log file carries the number before conversion.
- hw4: the last `N mod threads` rows stay 0 (`multiply.c:70`); `pthread_create` is not
  checked, and a thread that was not created is not modelled.
- hw5: a matrix of size 2 is not transposed; size 1 indexes outside it; a grain near
  UINT_MAX wraps.
- hw8: the left share of processor 0 goes to index -1; load is not conserved; the edition
  in `hw8/hw8` does not look at the closing pair; `main` compares the time taken with
  MAX_CYCLES for equality, though it may pass over it.

That a close and a reopen change nothing is proved for logs with one record at most, which are
on the device and end with a block, and checked in `KVDB_store` with two, of lengths for which
the loop of the rebuild happens to step onto a record; finding 2 and `KVDB_close` are the other cases.

## 8. Proofs

`LogFSProofs`, for every block size, ring, cache, device and client (assumptions: the
constants are positive and a `uint64_t` is wider than the ring):

- `TypeCorrect`: inductive by itself. The heart is `PlanType`: what one `disk_write` takes
  lies in the ring and leaves the head at the start of a block, in the plain, the partial
  and the wrapped case.
- `WakeupsNotLost`: one condition variable is enough for two threads. Not inductive alone;
  `WakeInv` adds that only a close sets `stop` and that a read without the mutex runs over
  an empty queue.
- `NeverStandoff`: if no append is longer than the ring, from `WakeInv`.
- `ReadsAreQuiet`: an action property, from `WakeInv`.
- `CountersConserved`: `utilized + queue_utilized` is the length of the log modulo the
  width: of the log as the session takes it, so one that took -1 for the length counts on from
  there, and the theorem says nothing of where its bytes go. In the middle of a wrapped flush `queue_utilized` may be below zero, and so the
  proof is about modular sums (`WrapSplit`, `WrapMove`).

The bytes of the same model, in the same module, for every block size, ring, cache, device
and width:

- `CacheFollowsDevice`: no valid block of the read cache differs from the device. It needs
  no discipline of the client, only that no flush fails, since a short `pwrite` changes blocks
  that are not reset; opens that fail are included. `disk_write` resets every block it writes, and what
  `PlanAligned` says of its plan makes these whole blocks.
- `BytesAreKept`, `ReadsAreTrue`, `LogIsKept`: the three data invariants of `LogFS_strict`.
- `PromiseKept`: every step is one of `AppendLog` or stutters. What the abstract log has
  stored is the longest prefix of `log` that the device holds (`StoredPrefix`, a CHOOSE);
  `PrefixTo` says when it has a given length. For an append it must not grow, and
  `BoundInv` gives that: what the device holds is older than the bytes that come.

All but the first are under `Discipline`. Each part of it excludes a behaviour that breaks
the promise: `LogFS_strict` with that one constant changed has a violation of `BytesKept`
(of `LogSurvives` if closes come at any time). The bound on `MaxPending` is sharp:
`MaxPending = BlockSize` is enough for a violation with rings of two and of three blocks.


| `Discipline` | without it |
|---|---|
| `MaxPending < BlockSize`: less than a block between two reads | a read that comes between two halves of a wrapped flush takes the ring for drained; a ring filled to the brim is taken for an almost empty one (`LogFS_brim`) |
| `WCacheBlocks >= 2` | such an append meets the block that `utilized` lies in |
| `MaxBytes + BlockSize <= Width` | the counters go round and `utilized` no longer says where a byte lies |
| `CloseRule = "aligned"`: closes after a read, at the end of a block | `logfs_close` forgets the bytes in the ring, and the next session overwrites the last partial block (finding 1, `KVDB_close`) |
| `"flush" \notin FaultyCalls` | a failed `device_write` counts as written, and may have written a part |
| `"open" \notin FaultyCalls` | a metadata read that fails at open makes the log 2^64-1 bytes long, or 0 in block 0 (`LogFS_unread`) |

Device reads of `logfs_read` and metadata writes may fail, wakeups be spurious, and the process may die at
every step. With less than a block between two reads the worker still flushes partial
blocks, rewrites them and goes round the ring in two halves: the discipline takes none of
the paths of `disk_write` away.

The invariant, `StoreInv` with `WakeInv`, was checked by TLC before it was proved. Its
heart is `SessionInv`. *Whole*: between flushes the tail of the ring is where the held bytes
end, in one of three ways (before the end of the ring, past it, or at the end of a ring
drained to its last byte), and all that is counted as flushed is stored. *Split*: between
the two halves of a wrapped flush this is false. The first half has counted the whole last
block as flushed, bytes not yet appended included; `queue_utilized` has gone below zero,
and only the blocks before that of `utilized` are stored. It does no harm since the reader
sleeps until the second half is done. *Held*: every byte from the block of `utilized` on is in
its slot, also the flushed ones, since the partial block is written again. `metadata <= Base`:
what block 0 records lies before all that a flush may rewrite, which is why a crash in the
middle of a flush loses nothing recorded. `RecordInv` carries the recorded bytes from one
session to the next, `CallInv` says how far a read has come, `CacheInv` that the cache is
coherent.

`PrimeFinderProofs`, for every number of threads, limit and capacity:

- `IsPrimeCorrect`: trial division up to the root decides primality (a composite number
  has a divisor whose square does not exceed it).
- `TypeCorrect`: no element is written outside the allocation; with `LockInv` (the holder
  is the one thread inside a push).
- `FindsAllOnce`: under `NoWrap` (no claim wraps and no number exceeds an int). `FindInv`
  says that the claimed numbers are those below the counter, each claimed once, every
  prime among them stored or in the hands of one worker, and that main returns only when
  all workers it made are done.
- `PromiseKept`: under `NoWrap` every step is one of `PrimeList` or stutters.

`SchedulerProofs`, for any number of threads, yields and calls, with signals:

- `TypeCorrect`, `SwitchesAreSound`: every `longjmp` goes to a context that is saved and
  whose frame exists, and one thread at most is marked as running, until a signal hits the
  scheduler itself, `scheduler_create` included. `MakingInv` says what a creation under way has
  read of the list, and that it is still so (`pc = "create"`) if no signal came between:
  hence every thread created is on the list. `ContextInv` says of every place of the code which contexts are valid;
  `CandidateNearest` says what the search round the list finds.
- `TurnsAreFair`: nobody waits for the same thread twice. `TurnInv` is a measure: the turns a
  thread has waited and the places before it on the ring are one round at most.
  `StartInv` says that none is left unstarted when the call returns, given two threads
  (finding 3 is about one). Both are claimed until a signal hits the scheduler; `Scheduler_lost`
  is what happens after one in a creation.

`HashIndexProofs`, for any hashes, growth and width:

- `KeysAreFound`: every key stored is found, in both tables and in the middle of a growth,
  and `size` is the number of used slots. It holds although probes wrap at the width: what
  counts is that the slots a probe passes stay used (`OccupyReached`).
- `IndexIsSound`: there is a free slot for every key, for the time in which no probe wraps
  (`NoWrap`, a predicate of the state). `ProbeCovers` shows that such a probe visits every
  slot; section 7 has the other case.
- `Implements`: growing, moving and failing to grow leave the map of `IndexMap` as it is.

`ProgramProofs`, for six programs of one thread or one processor:

- `ShareIsExact` (p5), for every width of the counters and however often they go round,
  provided less than a round passes between two samples: differences modulo the width
  (`Difference`) are the true ones.
- `RequestsAreServed` (hw1), for any number of processors, modules and cycles and any
  queue. `RequestsInv` (one request for a processor in modules and queue together) is not
  inductive alone: `AskedInv` says that who was looked at in this cycle has its flag set or
  is behind `turn`, and that entries of the queue looked at wait for a module that is
  taken; `AccessInv` that an access is counted once a cycle.
- `StudyIsSound` (exam-prep p2), for any number of threads. `ListInv`: the list has the
  last thread first, so `CandidateIs` can say what the search finds. `StacksInv`: no stack
  is gone back to by two contexts, nor by one while it is run on. `TurnsInv`: the turns a
  thread has waited and the places before it are one round at most, for the time in which
  only the caller creates threads. A thread created by another takes that one's context
  (section 7), and then only the first two parts are left.
- `LinesAreSound` (p3), for any history, slot and keys. `LineIs` ties the length to the
  bytes: a terminator there and none before. A line of N bytes has its terminator in the
  next slot, and that it is there needs `EditorInv`: the slots not reached yet are zero. In
  the last slot the byte behind it is one of the terminal settings, and there nothing is
  claimed but that cursor and line agree as long as the shell stays in its structure.
- `ArrayStaysSound` (hw3), for any values, capacities and number of entries. `Met` says what
  the loop of `part` has done when the two places meet: no entry up to there exceeds the
  pivot, none behind is below it. The loop makes fewer calls than `CrossedRank`, twice the
  distance of the places and one more if the entry on the left has to move; swaps keep the
  entries (`SwapKeeps`). The second call of `quick_sort` is on the array that the first
  returns, so a call falls in rank only if that one gave back an array with the same entries. `GuardedStep` has this as a guard, and the same induction shows that
  the guard always holds (`KeptBelow`), so the function is the one of the code.
- `ArgumentsAreRead` (hw3), for any long, unsigned int, list limit and strings. The readers
  keep no state, so `ArgumentsInv` only says that a result is what the reader makes of its
  string; the work is in what that is. `Counted` says of the first loop of `get_llist`, from
  any pass on, that it succeeds exactly on a list and where it ends, provided the string is
  no longer than the numbers still allowed and one more; `Listed` that the second loop, given the
  length the first has found, reads every number. Both are by induction on what is left
  to read (`ListSplits`: a list is a number, or a number, a comma and a list).

and for three programs that divide their work among threads or turns:

- `ProductsAreRight` (hw4), for every size and number of threads: `ProductInv` says that
  the rows done so far are the product's and the others zero. A row belongs to one thread
  since `n_work` times the thread is where its rows begin. The sum of products is one
  operator on two rows (`Dot`), so that nothing need be known of it but its arguments
  (`RowAndColumn`).
- `TransposesAreRight` (hw5), under `NoWrap` (no chunk ends beyond the width of unsigned;
  section 7 has the other case). A swap has a number; that numbers and pairs below the
  diagonal are one to one is arithmetic of triangular numbers (`PairsAre`). `ThreadInv`
  says that the matrix has the swaps that were made, `SwappedMat`, and that a thread ends
  only when all numbers are given out.
- `LoadsStayWithin` (hw8), for every ring, load and time: what a turn gives its neighbours
  lies between the loads there are (`MeanBetween`).

`KVDBProofs`, for any keys, values, lengths, hash and number of records:

- `TypeCorrect`, `ChainsAreComplete`: `chain_lookup` finds the last record of every key.
  `LinkInv` says that the link of a record leads to the latest record of its chain
  before it, `IndexInv` that the index leads to the latest of all; `ReachesWalks` and
  `FindIs` make of these that the walk finds the right record, without an induction
  over the walk, by the least or greatest record that would be a counterexample.
- `CountersAreExact`: `kvdb_size` and `kvdb_waste`, as long as a word holds the number of
  records, in the session that made the log and until an append fails.
- `Implements`: every call answers as the map of `KVMap` does; close and open change nothing of
  a log that is on the device and ends with a block. `DiskInv` says that sessions then start
  and end at a block, so no flush lands on older bytes (`FlushSound`).

These are under `Discipline`: a log is closed with all of it on the device and at the end of a
block (`CloseRule = "aligned"`; `KVDB_close`), an append fails in its first part or not at all
(`FailAt \subseteq {1}`; a failure later leaves parts in the log that `kvraw` does not
count, and a later record is looked for in the wrong place), and a closed log has one
record at most (`MaxAtClose <= 2` with the header), because the loop of `kvdb_open` steps
from the record's link and, of more records, builds the right index only by luck
(finding 2). `KVDB_store` goes one record further.

`TreeProofs`, for any words, sizes of file and item, both editions, with kills, restarts and
a heap that fills up, under `RemoveRule = "simple"` (section 7 has what the other removals
do):

- `TreeIsSound`: `TreeSound` as a whole. The listing being sorted is not an induction
  hypothesis a rotation can use, so the invariant, `TreeInv`, has `Sound(root)`: at every
  node the left words come before its own and the right ones after, the depth is the height
  and the children differ by one level at most. `UpdateGrows` and `RemoveShrinks` are the
  heart: an insertion and a removal keep that, change the count of one word by one, and
  change the number of levels by one at most, in the direction that the rotation above them
  is made for. `TraverseLists` turns it into what a listing shows.
- `CountersAlwaysFollow`: `avl_remove` asks for the word from the old root, which may have
  been rotated below the new one or be a node that was freed. `OldRoot` shows that from there
  a word that is left is found all the same, unless it was the last. What it says of the heap's counter is for words of one
  length (`EqualItems`); for others it is false (`Tree_drift`), and the refinement and `TreeSound`
  do not rest on it.
- `PromiseKept`: every step of the submitted edition is one of `WordBag` or stutters.

`SoundFits` is what makes these hold with the levels `AVLTree` gives its trees: a tree with
each word once has no more levels than there are words, so no insertion leaves `Tree`.
`WidthAssumption` says that the file and one more word fit into the address space; without
it the sum in `scm_malloc` wraps and the room seems to be there. The parts `FileAgrees` adds
to `TypeOK` (a file in use has its state in it, `unique` is between the words listed and the
bytes laid out) are in `TreeSound` too, so that TLC checks them in `Tree_words`.

`Recursion` is what the proofs about `AVLTree`, `ConcArray` and `Arguments` stand on. TLA+
defines a recursive function by CHOOSE, so its equation must be proved before it can be
used, and the library's induction theorems take an operator as a parameter. `Unfolds` does
it once, for a set, a rank that falls with every call, and a step, which are constants of
the module: `TreeProofs` has an instance per function, `ProgramProofs` one for each loop of
`part` and `get_llist` and one for the sort. Induction itself is by a least counterexample
(`RankInduction`), with the property as a set.

Assumptions on the constants are those named in the modules: sizes are positive, a word is
wider than the ring, hashes and lengths are numbers. TLC evaluates them in the runs.

## 9. Only model-checked, not modelled

Only TLC checks:

- Liveness: calls return, whole blocks are flushed, searches end, the scheduler returns,
  open ends, the monitor stops. Fairness and ENABLED are out of the prover's reach.
- `Evaluated`: the parser of `Expression` and the reflection and value of its graphs are
  RECURSIVE operators, and the prover takes no theorem in a module that reaches one.
- `TreeSound` and the refinement of `WordBag` with the removals of section 7: they are false.
- `TestsPass`: one caller and fixed inputs.
- What holds of `KVDB` when a session leaves two records behind (`KVDB_store`).

Left out of the models: the bytes of keys, values and records, the hash function itself,
allocation of memory other than the failures named, timing, printing, terminal control,
the ioctl that asks a device for its sizes.

Not modelled:

- hw2: one message over one connection, made for a packet capture.
- drivers and wrappers of the C library in p2 and p4, helpers that print and time in hw3
  and hw5: no state of their own.
- `src/OS/exam-prep`: earlier versions, templates and solutions of the projects. The ones
  that behave differently are models here (the heap and tree, the two evaluators, the
  scheduler); the tree, parser, lexer and shell code that is the same as the submitted
  one is not mapped again. Its p4 has only a template for the log and cannot run.
- `src/APPS`: exercises of one file each; hw6, hw7: documents, captures, simulation logs.
