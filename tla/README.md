# A verification project for CSCI3753-JasonLubrano

TLA+ models of the programs in this repository, TLC configurations that check
them on small instances, and proofs for every size of the instance.

## 1. The system

The repository holds four independent programming assignments.

| Part | Files | State | Operations | What is hard |
|---|---|---|---|---|
| PA1 system call | `simple_add.c` | none | add two ints, copy the sum to the caller | overflow of a 32-bit sum; a `copy_to_user` whose result is not looked at |
| PA2 character driver | `simple_char_driver.c` | `device_buff`, the counters, `f_pos` of each open file | open, close, seek, read, write, module init and exit | positions outside the buffer; signed and unsigned lengths; copies that stop short; no locking |
| PA3 shared array | `multi-lookup.c` | circular array, `head`, `tail` | init, test empty, test full, add, remove, clear | `head = tail` is both empty and full |
| PA3 thread pools | `multi-lookup.c` | six mutexes, `readCount`, `req_th_done`, files, output | main, `REQUEST_THREAD`, `RESOLVE_THREAD` | readers/writers protocol with an unlock by another thread; two rounds of joins; a stale test decides when a resolver leaves |
| PA3 command line | `multi-lookup.c` main | `files_per_thread`, `offset` | distribute argv over requesters | off by one at every boundary; five files are opened whatever `argc` is |
| PA3 lookup | `util.c` | none | `dnslookup` | failure for a bogus name |
| PA4 simulator | `simulator.c` | processors, job queue, page tables, `pagesavail` | `allstep`, `allage`, `pagein`, `pageout`, `callyou`, main's loop | transits in both directions while processes end and are replaced |
| PA4 programs | `simulator.c`, `programs.c` | branch contexts | `bcontext_*`, `process_dobranch`, `process_step` | binary searches over tables of one or no entry, an array filled by pairs |
| PA4 pagers | `pager-basic.c`, `pager-lru.c`, `pager-predict.c` | time stamps, control flow tables | `pageit` | starvation, variables that are read before they are assigned |
| PA4 API test | `api-test.c` | two flags, `iterations` | `pageit` | a page that comes looks like one that goes |

How they interact. In PA3, requesters read names from their files and put them
into the shared array; resolvers take them out, call `dnslookup` and append to
one output file; main creates both pools, joins the requesters, raises
`req_th_done`, joins the resolvers and clears the array. In PA4, main's loop
calls `allstep`, `allage` and `callyou` once per tick; `callyou` gives the pager
a copy of the page tables, and the pager calls back `pagein` and `pageout`.

What makes each part correct:

* the array is a bounded FIFO queue, used by one thread at a time;
* a name read from a file is never dropped or duplicated while threads run, and
  is in the output at the end; the program ends;
* no file is opened by two requesters, and every input file is opened by one (which
  holds only when there are as many inputs as the requesters want: section 3);
* `pagesavail` and the page tables account for all of physical memory; a
  transit takes exactly `PAGEWAIT` ticks; every job runs once, to its end, under
  each pager;
* a step of a program follows its tables of branches and exits, a loop runs as often
  as it was drawn, every program ends;
* the driver is an array of bytes with a cursor per open file, and read and write
  leave the buffer only from a position that a seek has put outside.

## 2. The modules

### PA3

**BoundedQueue** — what the shared array promises: put at the end of a bounded
queue, take the oldest, discard all.

**SharedArray** — the array of `multi-lookup.c`. The constants are the size, the
names and `NULL`. `StoreItem`, `AdvanceTail`, `FetchItem` and `AdvanceHead` are
the single writes of `SHARED_ARRAY_ADD_ITEM` and `_REMOVE_ITEM`. `RingSpec`
composes them to whole calls; `IsQueue` states that it implements
`BoundedQueue` with the contents read from `head` to `tail`. `allocated` says
whether there is memory for it: `malloc` may fail in `SHARED_ARRAY_INIT`, CLEAR frees
it, and `Reinit` is an INIT after either.

**MultiLookup** — extends SharedArray with the threads. A thread's `pc` stops
before each acquisition of a mutex and before each access to the array, to
`readCount` or to a file; several unlocks in a row are one step. `lock[m]` is the owner
of a mutex; `Release` does not look at the owner, because the default mutexes of
the build do not. `files`, `hostname`, `completed` and `empty` are the local
variables that outlive a step. A file is a pair of "did fopen succeed" and the
names in it; the address of a name is a constant function. `SharedIsQueue` states
that the threads *together* implement `BoundedQueue`, with the queue changing at
the write of a slot (`EffectiveHead`, `EffectiveTail` supply the index that has
not been written yet).

The program uses what `malloc` and `fopen` return without a look: main goes on when
`SHARED_ARRAY_INIT` has failed, and `serviced.txt` and `performance.txt` are written
to, and names and lists allocated, unconditionally. `Strays` is the first look of any
thread into an array that is not there, `LacksResource` the use of a file or of memory
that is not there. Both end in the status "undefined", after which nothing can be said
of the program.

**NameFlow** — the way of the names, said over the state of MultiLookup:
`NameConservation` (each name is in one place, counted for every *set* of names),
`LossBounded` (only what main throws away can be missing), and `FileOrder` (the names
of a requester stand in line in the order of its files: in the array, in its hand,
unread). The first and the last hold while
the threads run and also where an `exit` of main (status "aborted") stops them. A name says who put it into the array only if no other requester's files have
it, so `FileOrder` speaks of such requesters (`OwnNames`); within a file names may repeat.

**MCMultiLookup** — the inputs for TLC, and `AllResolved`, which the repository
promises and the program does not keep.

**OpenFiles** — the first half of main: the checks of `argc`, the output file that
may not open, the clamp, the distribution of five files, and the `fopen` loop with its
running `offset`. The loop does not look at `argc`: at `argv[argc]`, which is NULL, it
stops as "undefined" (`OpenPast`). MultiLookup starts from lists that contain inputs
only (the constant `Input`). `ReadsInputs` is what the program's README says of a command line,
and is not kept. **MCOpenFiles** has its instances.

### PA4

**PageStates** — what `simulator.c` promises a pager about one page: out, coming
for `Wait` ticks, in, going for `Wait` ticks; never more than `Frames` pages not out.

**Simulator** — `simulator.c` with the pager left open. A job is the path of its
pages, drawn when the queue is built. `turn` is the processor that `allstep` (or
the pager's loop) is at; `pages[j][p]` is the counter of the code. `AnySpec`
lets the pager make any calls; a call that the code refuses changes nothing.
`PagesFollowProtocol` is the refinement of PageStates.

**PagerBasic**, **PagerLRU**, **PagerPredict**, **ApiTest** — the four pagers of
the repository, each in place of the arbitrary one: they extend Simulator and
replace only the pager's turn.

* The LRU pager's time stamps are kept as the order of the stamped pages.
* The predictive pager's three loops are three values of `loop`. `CTRL_FLOW` is,
  for each page, the row of its successors with their counts. The code reads
  two statements beside the pc (the one before it, and the one 101 ahead); the
  model knows of each statement of a path whether these lie on another page
  (`Places`). `minusOne` is the build's choice of whether the uninitialised
  `LAST_PG_NUM` can hold -1; it is drawn at the start and stays. `PROC_CNTR` is 0
  for ever, so that the branch with `LRU_SEARCH_PAGE` is never run.
* The test pager moves one page in and out, and decides by two flags whether a
  page that is not in is coming or going. It is right about a page only while the
  process runs. The page under test is page 0, and the exit statements of all five
  programs lie behind it (`programs.c:25`, 30, 38, 43, 52): `TestInit` starts from jobs
  that do not end on it (`LeavesTestPage`).

**SmallPagers** — the simulator linked with the basic or with the test pager, as the
Makefile does it (`test-basic`, `test-api`); `linked` says which. Its properties are
those of the two pagers.

**Programs** — the branching engine: tables of branches and exits indexed from 0,
one context per branch with the runs of decisions drawn by `bcontext_init`, the
two binary searches of `process_step` step by step, and the context behind the
last one, which an IF writes into. Probabilities are a free choice of runs up to
`MaxRun`. **MCPrograms** has the table of `programs.c`, whose shape the
assumption `TableAssumption` checks, the same five shapes with short straight
stretches, and one program with many branches and exits.

**MCSimulator**, **MCSmallPagers**, **MCPagerLRU**, **MCPagerPredict** — the paths of
the jobs for TLC.

### PA2

**ByteFile** — what the driver promises: an array of bytes and a cursor per file;
each byte is read or stored at the cursor of its file. A write may be cut short; it
has then cleared the rest of its own request, and the cursor stands behind what was
stored.

**CharDriver** — `simple_char_driver.c` with any number of open files. A transfer
is a start (the amounts are computed), single bytes, and an end, so that
transfers of several processes overlap. A read may end at any byte. A write that
ends early first sets the rest of its request to 0, byte by byte (`clear_rest`), as the
kernel's `copy_from_user` does with what it could not copy: bytes ahead of the position
change then. `IntBits` is the width of the int that `BUFF_SIZE - *offset` is truncated to,
`SizeBits` that of `size_t`, at which the comparison with a negative `MAX_BYTES` is made. A transfer that would leave the
buffer ends the model ("outside"), because nothing can be said of what follows.
`open_Count++` and `close_Count++` are a read and a write. **MCCharDriver** has
its instance.

### Proofs

**MultiLookupProofs** (array, threads and names of PA3), **OpenFilesProofs**,
**SimulatorProofs**, **SmallPagersProofs** (the basic and the test pager),
**PagerLRUProofs**, **PagerPredictProofs**, **ProgramsProofs**,
**CharDriverProofs**: section 5.

Definitions whose comment begins with *Mutant* are faulty versions of the next
definition; put in its place they break one of the properties, and show that the
property can fail.

## 3. The runs

| Run | Instance | What it shows |
|---|---|---|
| `shared_array` | 4 slots, 2 names | the indices wrap many times; every pair of full/empty states |
| `two_pools` | 2 requesters, 2 resolvers, 2 slots, 3 names, one file that does not open | mutual exclusion, owners of mutexes, conservation and order of names, refinement |
| `termination` | 1 + 2 threads, 1 slot | the program ends, what is taken is written |
| `lost_names` | 1 + 1 threads, 2 slots | **violated**: a resolver leaves on a stale test |
| `open_files` | `argc` 1..13, pools -1..12 | no file twice, list in bounds, which arguments are opened when all of them exist |
| `documented_command` | `argc` 6, 2 requesters | **violated**: more than the inputs is opened |
| `any_pager` | 2 processors, 3 jobs, 2 pages each, 2 frames, wait 2 | frame accounting, queue, page timing for any pager |
| `small_pagers` | 2 processors, 3 jobs, 2 pages, 2 frames, wait 3, 5 rounds of the test | basic pager: one process at a time, no swapping out, every job ends; test pager: the two flags agree with the page, the test ends |
| `lru_pager` | 2 processors, 3 jobs, 3 pages, 2 frames | eviction happens; progress |
| `predict` | 2 processors, 3 jobs, 3 pages, 3 frames, wait 2 | the tables count what was seen; prefetched pages leave a frame for each waiting process; the page a process is on is never thrown out; every job ends where `LAST_PG_NUM` is never -1 |
| `programs` | 6 programs, 4 entries per context, runs of up to 2 | the searches follow the tables, loops run as drawn, every program ends |
| `char_driver` | 2 files, 2 values of a byte, buffer of 2, lengths 0, 1, 3, offsets -1, 1, 3, int of 3 bits, `size_t` of 4 | overlapping copies, and writes that stop short and clear their rest, implement ByteFile; only a seek leaves the buffer |

### Bounds

Two requesters and two resolvers are the least at which readers meet
readers, writers meet writers, and both meet each other; the array is smaller
than the input, so that it is full and wraps. The code's own numbers (20 slots,
100 frames, 100 ticks) only stretch these situations.

The instances of `any_pager` and `lru_pager` have fewer frames than the running
processes have pages, so that `pagein` is refused; a wait of 2 has a first, a
middle and a last tick. There are more jobs than processors, so that a processor
takes up a second job with the tables and stamps the first one left. `predict` has paths that come
back to a page that is still going out, and on which the most frequent successor
of a page changes, so that entries of a row change places. It has fewer frames than the
pages of its two running processes. `small_pagers` waits longer than its shortest
paths, so that programs end within a transit, and one of its paths stays on page 0 for
longer than a transit takes, so that the test pager sees its page come and go.

`programs` has tables of 0, 1, 2, 4 and 6 branches and of 1 and 6 exits: both
searches are entered with one, two and more entries. Four entries per context
let the offset wrap around within a few decisions. In `char_driver` a size of
four bits leaves room between the largest length and a negative `MAX_BYTES` of three
bits; `MaxBefore` and `MaxBehind` bound the positions to -1..7, behind which the
truncated `MAX_BYTES` has become negative and positive again; and `MaxOpens` bounds
the counters. Its deadlock check is off, because the model ends when a transfer
leaves the buffer. `MaxRun` bounds the runs of an IF.

### Two promises that are not kept

`lost_names`: the loop of `RESOLVE_THREAD` ends when the *previous*
test found the array empty and `req_th_done` is set now; a requester can add
names and end in between, and main throws them away. `LossBounded` says that this
is all that can be lost.

`documented_command`: the program's README gives
`./multi-lookup 2 2 names1.txt names2.txt results.txt` as its example
(`README.md:51` of PA3). main shares out five files whatever `argc` is and opens
`argv[3]` to `argv[7]`: the two inputs, the output file (`argv[5]`), `argv[6]`, which is
NULL, and what lies behind it (`multi-lookup.c:542`). `CoversInputs` says what is left of
the promise: when main has opened the files they are arguments in a row from the
first input on, and a command line with exactly as many inputs as the requesters want
(five, or one for each of more than five) has each of them opened and nothing else. With
fewer inputs the output file is opened too, or the program is undefined; inputs beyond
those wanted are never opened.

### What the models also take from the code

These are oddities of the code that a reader of the models will meet. They are
translated as they are, and the properties above hold with them.

* `REQUEST_THREAD` writes its line of `serviced.txt` before it opens a file, so that
  a file that does not open is counted (`multi-lookup.c:208`).
* What `malloc` and `fopen` return for the shared array, the names, `serviced.txt` and
  `performance.txt` is used without a look (`multi-lookup.c:471`, `:203`, `:262`, `:299`).
* A `FOR` draws from `min .. max - 1` rounds, and an `IF` writes one entry behind
  its array, over the type of the next context (`simulator.c:204`); it is
  overwritten because contexts are filled in ascending order (`TypesKept`).
* A program without branches takes the zero entry behind its table for a branch at
  statement 0 (`simulator.c:376`).
* `LAST_PG_NUM` is tested before it is assigned (`pager-predict.c:107`). If it
  holds -1 the pager throws nothing out and a job may wait for ever; `AllFinish` of
  PagerPredict excludes that build.
* The stamp stored with a predicted page is the stamp of its index in the row
  (`pager-predict.c:132`, `:185`). Entries of a row change places where both the stamp
  and the count of the later one are greater, which does not sort the row; `CountsRight`
  says nothing of its order or of the stamps.
* The LRU pager ends its call at the first process that finds no frame, so that
  the stamps of the processes behind it stay old (`pager-lru.c:77`). The progress of
  all jobs survives this.
* A seek outside the buffer is reported and done all the same
  (`simple_char_driver.c:65`).

## 4. Fairness

`MultiLookup!FairSpec` assumes weak fairness of main, which only waits for
threads that have ended, and strong fairness of each thread. The step in which a thread
comes to an array that is not there (`Strays`) is weakly fair too: it is a step of that
thread, which has no other. A thread waits
only at a mutex, which is free again and again rather than for ever; strong
fairness says that neither the scheduler nor a mutex passes over the same waiter
for ever, which is what Linux gives in practice and what the program relies on:
without it a requester can find the array full at each try.

The pagers' specifications and Programs assume weak fairness of the whole, since
these programs are sequential: they just keep running. CharDriver assumes none: a
process need not do anything with a file.

## 5. What is proved

TLAPS checks the following for all values of the constants that satisfy the
named assumptions of the modules, and in particular for every number of threads,
processors, jobs, pages, frames and open files. Every invariant and every
refinement that a passing run checks is also a theorem, and so are the action
properties; what remains for TLC alone is at the end of this section.

A hypothesis that a single theorem needs stands in that theorem, not in the module:
`PHYSICALPAGES >= Procs` (`FramesEnough`; 100 and at most 20 in `simulator.h:23` and
`:20`), a frame for every page of a job (`BasicServesOne`, `BasicNeverSwaps`), a frame at
all (`FirstFrameKept`), `[]FewJumps` (`GotosKept`) and finitely many open files
(`CountsStayLow`).

### The threads of PA3

* `TypeCorrect`: `TypeOK` of MultiLookup; `LocksCorrect`: `LockInv`;
  `ReadersCounted`: `ReaderInv`; `MutualExclusion`: `Exclusion`;
* `ArrayCorrect`: `RingInv` of the array used by one thread; `ArrayIsQueue`: that
  array implements `BoundedQueue`;
* `ThreadsShareQueue`: the interleaved threads implement `BoundedQueue`;
* `NamesConserved`: `NameConservation`; `LossLimited`: `LossBounded`;
* `FilesInOrder`: `FileOrder`;
* `DeadlockFree`: `NoDeadlock`, which TLC's own deadlock check stands for on the
  instances.

*The locks.* The inductive invariant `IInv` is the conjunction of `TypeOK`,
`LockInv`, `ReaderInv` and `Named`. `Exclusion` alone is not inductive: that a
requester is alone needs the owner of `write1` (`LockInv`); that a resolver which
decrements `readCount` to 0 may release `write1` needs `readCount` to be the
number of resolvers inside (`ReaderInv`), and that a resolver waiting for
`write1` is the only one counted needs that it holds `read_mutex` and `mutex`
meanwhile. `Named` is needed for the type of the output. The proof has a lemma
for each kind of action, and uses the library's facts about `Cardinality`.

*The array.* The lemmas speak of any array and any two slots: `PutAtEnd` (writing
the slot at the end and moving on appends), `TakeOldest` (writing NULL over the
first slot and moving on takes the head) and `Cleared`. They rest on the
arithmetic of `Place` and `Successor`.

*Both together.* Between the two writes of a call one index lags behind its
slot, so `RingInv` does not hold at every step of MultiLookup. `QInv` says
instead that the array is well formed for `EffectiveHead` and `EffectiveTail`
(`QueueShaped`); that a requester about to store has a name (`Carrying`), without
which the store could write NULL; and that a joined thread has ended
(`JoinedEnded`), without which main could clear the array under a thread between
two writes. `Exclusion` then says that whoever is at the array sees the queue's own
indices, so that `TEST_FULL` and `TEST_EMPTY` are answers about the queue. Each
first write is a step of `BoundedQueue`, by the lemmas of the array; each second
write leaves the queue alone.

*Where the names are.* `FlowInv` adds to `QInv` the balance of `NameConservation` in
the form `Conserved` (hands counted over all threads), and two facts it needs.
`ADD_ITEM` is called without looking at its result, so a name would be gone if the
array were full again: `RoomAhead` says that what `TestFull` saw still holds at the
store, because nobody else comes to the array meanwhile. `ReadName` and `RemoveItem`
overwrite the hand, so it must be empty there (`EmptyHanded`). Each step then
moves one name (an `exit` and a use of what is not there move none), and a lemma per place says that its set of names grows or shrinks
by one (`ScanCount`, `CloseCount`, `ChangeCount`, `AppendCount`). Counting over
sets of names keeps sequences, and induction over them, out of the argument.
When main returns every hand is empty, hence `LossBounded`.

*Their order.* `OrderInv` says that what a requester holds or has still to read is
its own (`OwnHands`: otherwise another one's store could stand in its line), and
that its line (its names in the queue, its hand, its unread names) is the end of all
its names (`InOrder`). Reading moves a name from the unread ones to the hand, the
store moves it from the hand to the end of the queue, and a resolver takes from the
front; a store by another requester is not seen. `FlattenSeq` is recursive:
`FlatIs`, `FlatAppend` and `FlatTail` say what it does to a sequence that grows at
the end or shrinks at the front, by induction over the positive numbers with a *set*
in place of the predicate (`CountUp`, from the library's well-foundedness of `<`).

*No deadlock.* `NoDeadlock` says that of the threads left there is always one that
gets the mutex it asks for or asks for none, and that main can go on when none is
left. The argument goes from the innermost mutex outwards, on top of `IInv`. The
sections of `write2`, `error_report` and `shared_array_mutex` acquire nothing
(`InnerEnds`). The owner of `write1` is a requester that asks for nothing, or the
resolvers inside as a group, of which one may wait for `mutex` on its way out; who
owns `mutex` then is not waiting for `write1`, because by `ReaderInv` it would be the
only resolver counted (`WriteEnds`). `mutex` and `read_mutex` follow (`MutexEnds`, `ReadEnds`).
`NotBegun` adds that a thread not yet created owns nothing, so that the thread found
is one that runs.

### The files of PA3

* `FilesDisjoint`: `NoFileTwice`; `ListsFit`: `ListFits`; `InputsCovered`:
  `CoversInputs`, for every `argc` and every size of the pools. Once the files are
  opened all of them exist; a command line that fits is never undefined.

The inductive invariant `SharedOut` (theorem `Distribution`) has two parts. `Share`
and `Given` say in closed form how many files requester `t` and the requesters before it
get: the first one also gets the remainder. `OffsetInv` ties the code's running
`offset` to that: it counts what the requesters so far have *more* than one file
each, and lags by one from the last file of a requester to the next requester. The
argument opened next is then always the one after the last.

### The simulator of PA4, under any pager

* `SimTypes`, `FramesAccounted`, `QueueKept`, `ActiveKept`, `AllJobsRun`:
  `SimTypeOK`, `FrameInv`, `QueueInv`, `ActiveUntilEmpty` and `AllRun`;
* `PagesKeepProtocol`: the simulator implements PageStates.

The inductive invariant `SimInv` adds `ExitsReached` (a job that has left its
processor is at its exit statement) and `ScoreDone` (main's loop ends with all
processors idle), from which `AllRun` follows. `FrameInv` is kept by counting: one
call changes one page, and a lemma says by how much the number of pages in use
changes with it; the exit of a process changes a whole table at once.

### The pagers

* `BasicIsAnyPager`, `LRUIsAnyPager`, `PredictIsAnyPager`, `TestIsAnyPager`: each of
  the four is a pager the simulator allows, so that all of the above holds with it;
* `BasicServesOne` and `BasicNeverSwaps`, where one process fits into memory:
  with the pages of one process in use at most, a count of frames shows that
  `pagein` is never refused to it;
* `FirstFrameKept`, where there is a frame at all: in the LRU pager the first
  active process has a frame or finds one free. The invariant `LRUInv` says for
  each position of the pager's loop that nothing has been given to others before;
* `ResidentsStamped`: `ResidentStamped` of the LRU pager. `StampInv` adds that
  the order of stamps lists pages, and none twice: stamping a page again removes
  one place of it, which must be the only one;
* `CountsKept`: `CountsRight` of the predictive pager. `PredictInv` says of each row
  that it has an entry for exactly the successors seen, with their number, each once.
  The code exchanges entries of a row in two nested loops; an exchange keeps this, and
  all of them do by induction over the number of exchanges. Nothing is said of the order;
* `NeededStaysIn`: `NeededStays`. `LAST_PC` may be left from another process, yet
  the page thrown out is never the one its processor's process is on now, and no job
  is on two processors;
* `FramesEnough`: `FramesSuffice`, if there are as many frames as processors. The
  invariant `FrameForEach` counts: the frames that are free, those of pages going
  out and those the pager is about to give up are together at least as many as the
  processes that wait. A page fetched in vain takes a frame only after every waiting
  process has been served (`Served`), and the page a process was on when the pager
  came by is known to it (`LearnsToLast`), so that it is thrown out when the process
  has left it; this is where `LAST_PG_NUM` must not be -1;
* `FlagsKept`: the flags of the test pager (`FlagsTell`), for jobs that do not end on the
  page under test (`TestInit`). `TestInv` says that the first job stays on the first processor: no page of it
  but the one under test ever comes in, so that it does not reach its end. A program
  that ends on that page would lose it to the simulator behind the flags' back.

### The branching engine

* `ProgTypes`: `TypeOK`, so that the offset stays in the array and the statement in
  the program; `OverrunHarmless`: `TypesKept`; `SearchesRight`:
  `TablesFollowed`; `LoopsCounted`: `LoopCount`, which rests on `ParityKept`;
* `GotosKept`: `GotoJumps`, as long as no GOTO is taken 2^31 - 1 times in a row
  (`FewJumps`); the next time it would fall through, since its "forever" is a count.

The inductive invariant `ProgInv` says what each search has ruled out
(`ExitSearch`, `BranchSearch`: a listed statement equal to the pc lies within the
bounds), which contexts are filled (`LoadState`), and that the rounds a loop has
run are those of its context (`LoopsDone`). For a GOTO, `GotosCount` says that its
context is as drawn and has counted the jumps taken.

### The driver

* `DriverTypes`: `TypeOK`, with amounts that are never negative; `StaysInside`:
  `OnlySeekLeaves`, the clearing behind a short copy included; `DriverIsByteFile`: the
  driver implements ByteFile, so that a write changes bytes of its own request only: those
  it stored, and those it cleared;
* `CountsStayLow`: `CountsKeptLow`, for finitely many files.

`open_Count++` and `close_Count++` race, so a count may be lost. `CountsKeptLow` says
how much can go wrong: no open and no close is counted that did not happen, the closes
counted and the files still held (`Held`) are together no more than the opens, and
once every open or close has ended the counter is not 0. Not inductive alone: what a
process has read and will write back is bounded too (`CountsInv`).

### Only model-checked

Termination and progress: `Termination` and `TakenIsWritten` of the threads,
`BasicFinishes` of the basic pager, `AllFinish` of the LRU and the predictive one,
`TestFinishes` of the test pager, `AllEnd` of the
branching engine. They are liveness under fairness, which, like `ENABLED`, is out of
the prover's reach.

## 6. What is not modelled

* The system call of PA1 is one addition and one `copy_to_user` whose result is not
  looked at: there is no state, and nothing to say but the two statements. The
  kernel files around it are not the program's own code.
* The test program of PA2 is a menu around single calls of the driver; the hello
  module only prints.
* `dnslookup` is an answer per name; `getaddrinfo` below it is external.
* Logs, timing, the printed reports, the plots and what is in `performance.txt`: no
  property is about them.
* In `multi-lookup.c`, a pool size of zero or less for the requesters, where main
  divides by it or makes an array of that size, and arguments behind `argc`;
  OpenFiles stops at both. MultiLookup stops where a file or memory is used that is not
  there.

## 7. What could follow

1. The branching engine as the source of the paths of the simulator's jobs, so that
   one model runs from the tables of `programs.c` to the pager.
2. What the LRU pager's early end of the loop means for the processes behind it: a
   bound on how old their stamps may be.
3. A termination argument by a decreasing measure, as safety, for the parts of
   `FairSpec` that only count down (files, rounds of a loop, jobs in the queue).
