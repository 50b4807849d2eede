# A TLA+ development of EC440-Projects

The repository holds five course projects in C: a shell, two versions of a
user-level thread library, thread-local storage with copy on write, and a small
file system on a file-backed disk.  This directory holds TLA+ models of them,
the TLC configurations that check the models on small instances, and proofs that
TLAPS checks for every instance.

`PROJECT.json` names, for each definition, the source lines it translates, and
lists runs, mutants, hazards, findings and theorems.

## 1. Inventory

| Component (source) | State | Operations | Interacts through | What is hard | What makes it correct |
|---|---|---|---|---|---|
| Thread library (`Project3/threads.c`) | `TCB[128]` (status, joining, exitcode, stack, `jmp_buf`), `curr_TID`, `total_threads`, `first_call`; on each stack `joined`, `waiting_thread`, `jumped` | `pthread_create`, `pthread_exit`, `pthread_join`, `pthread_self`, `scheduler`, `lock`, `unlock` | `longjmp` between threads, SIGALRM every 50 ms | an alarm between any two unmasked stores; jumps to saved contexts; one `setjmp` result with three meanings | one thread is RUNNING and it is `curr_TID`; a context belongs to the thread it is filed under; joins return once, with the right value |
| Semaphores (`Project3/threads.c:315-415`) | `seminfo`: value, status, queue of 128 ids | `sem_init`, `sem_wait`, `sem_post`, `sem_destroy` | the thread table, `scheduler()`, `longjmp` | nothing is locked; a blocked waiter is not saved; id 0 is also "empty slot" | value and waiters agree; posts wake waiters; exclusion |
| First thread library (`Project 2/threads.c`) | as above, without join and without masking | `pthread_create`, `pthread_exit`, `pthread_self`, `scheduler` | as above | alarms anywhere; a stack freed while in use | as above |
| Thread-local storage (`Project4/tls.c`) | hash table of 31 chains, `TLS` per thread, `page` with `ref_count`, page protection | `tls_create`, `tls_write`, `tls_read`, `tls_destroy`, `tls_clone`, the fault handler | real threads sharing the table and the pages | no lock anywhere; copy on write; a destroyed chain head stays linked | a thread sees its own bytes; `ref_count` is the number of users |
| File system (`Project5/fs.c`) | `super_block`, `DIR[64]`, `FAT[8192]`, `fildes[32]`, `mount` | `make_fs`, `mount_fs`, `umount_fs`, `fs_open/close/create/delete/read/write/get_filesize/listfiles/lseek/truncate` | blocks of the virtual disk | a shared table of chains edited by four calls; what survives a remount; table limits | no block in two files, none lost; files keep their bytes |
| Virtual disk (`Project5/disk.c`) | `active`, the file's descriptor, 8192 blocks | `make_disk`, `open_disk`, `close_disk`, `block_read`, `block_write` | called by the file system | opened once only | a block reads as last written |
| Shell (`Project 1/main.c`) | child processes, pipe ends, one status | a line: foreground command, pipeline, background job | `fork`, `pipe`, `dup2`, `wait`, signals | which child `wait` returns; pipe ends left open; the background child's later life | a prompt appears when the line's children have ended; pipes end |
| Parser (`Project 1/myshell.c`) | none | `parse_input`, `killspaces` | called by the shell | - | only the number of sections matters to the shell |
| Assembly helpers (`ec440threads.h`) | none | `ptr_mangle`, `ptr_demangle`, `start_thunk` | the thread libraries | - | a new context starts its routine |
| Tests, build files, `Lectures/` | - | - | use the libraries | - | - |

The thread library and the file system carry most of the repository's logic
(half of the library code), and their mistakes need long sequences of steps; they
came first.  The semaphores and the first thread library are built on the model of the
second; thread-local storage and the shell stand alone.

## 2. Modules

| Module | Models |
|---|---|
| `Threads` | the second thread library, without semaphores |
| `ThreadLife` | its promise: creation, end, joining, with no scheduler |
| `ThreadsProofs` | proofs: types, identity, contexts; who waits for whom, freed stacks, count, no replay |
| `ThreadsHandOffProofs` | proofs: exact joins and count; `Threads` implements `ThreadLife` |
| `MCThreads` | the sets of alarm points of the runs |
| `FileSystem` | `fs.c` over `disk.c` |
| `FileStore` | its promise: named byte strings and descriptors, no blocks |
| `ChainTheorems` | lemmas about chains in the FAT: extend, cut, free, walk along |
| `FileSystemProofs` | proofs: directory, FAT and descriptors stay consistent; `FileSystem` implements `FileStore` |
| `MCFileSystem` | the byte strings of the runs and the symmetry of names |
| `Semaphores` | the semaphores, on top of `Threads` |
| `SemaphoresProofs` | proofs: types, no unit made up, none left idle |
| `BasicThreads` | the first thread library, on the table and scheduler of `Threads` |
| `BasicThreadsProofs` | proofs: identity, freed stacks and the count of the first library |
| `Tls` | thread-local storage under kernel threads |
| `LocalStore` | its promise: one byte string per thread |
| `TlsProofs` | proofs: the chains, reference counts, protection, no fault, and the refinement of `LocalStore` |
| `Shell` | the processes, pipe ends and waits of the shell |
| `ShellProofs` | proofs: what a shell waits for, who holds which end of a pipe |
| `MCSemaphores`, `MCBasicThreads`, `MCTls`, `MCShell` | sets of alarm points, kinds of lines |

### 2.1 `Threads`

**State.** `status`, `joining`, `exitcode`, `stack`, `reg` are the fields of `TCB`;
`curr_TID`, `total_threads`, `first_call` the globals.  `cpu` says whose stack the
CPU is on (`flow`) and where (`at`).  The library's idea of who runs, `curr_TID`, and
the truth, `cpu.flow`, are different variables: relating them is the point.
`target` is the argument of a join in progress; `local` the value
of `joined` / `waiting_thread` without the `MAX_THREADS` offset that both
carry, with `NoTid` for the plain value 1.  `pos` counts the calls a flow has
completed: it tells a context whose frame has returned from a current one.

**Steps.** SIGALRM is blocked between `lock()` and `unlock()`, so such a region is
one step: `Create`, `ExitToJoiner`, `ExitToWait`, `JoinEnters`, `JoinBlocks`.  Where it
is unblocked inside the library, every store is a step and an alarm fits between:
`ExitToMain0`, `ExitToMain1` (lines 197-199), `JoinJumps` (281-283),
`JoinReturns` (297-312), and `Tail1` to `Tail6`, the tail of `pthread_exit` when
entered by `pthread_join`'s `longjmp` (a `jmp_buf` of this library does not carry
the signal mask, so the mask is what line 281 left).

`Alarm` is the handler.  It is `Scheduler`, the same operator that `JoinBlocks` and
`ExitToWait` use: demote and save `curr_TID` only if it is RUNNING (44-48), search
the next READY thread (37-39, with its missing `% MAX_THREADS` at the start of the
search), jump.

`Resume` is `longjmp`.  A jump to a context that was never set, or the plain 1 where
a joiner's id is expected, crashes; a jump to a frame that has returned is undefined
and may continue, repeat or crash.

**Assumptions about programs.** A thread joins only threads created later and not the
target of another join in progress (line 291 calls that undefined).  They may
return, exit, create and join in any order otherwise; main may return at any time.

**Timing.** One run of `scheduler()` is one step.  The handler has `SA_NODEFER`, so an
alarm could nest in it, but only if it ran for longer than the 50 ms period.

**Past the table.** Line 37 can read `TCB[128].status`.  `PastTable` says what may
be found there; the passing runs allow both READY (the step then crashes) and
anything else.

**Fairness** (`FairSpec`). `WF_vars(Library)`: a thread inside the library is
executing machine code, so it goes on.  `SF_vars(Alarm)`: the interval timer
never stops and a signal that arrives while blocked stays pending until `unlock()`, so
an alarm enabled again and again is delivered.  Nothing forces a program
to make a call.

**Abstract specification.** `ThreadLife` knows only which threads are new, live or ended
and who waits for whom.  The refinement mapping reads WAITING and EXITED as ended,
and `target` as the wait.

### 2.2 `FileSystem`

**State.** `DIR`, `FAT`, `fildes`, `mount` are the arrays and the flag.  `super`,
`disk`, `data` are the disk: block 0, directory and FAT as last written, contents.
`ret` is the last call with its result, `fault` how a run left defined
behaviour.  A fault is absorbing: what a program does after writing outside an
array is not modelled.

**Steps.** The library is sequential, so a call is a step: one action per function of
`fs.h`, each with its error returns, plus `Restart`, the next process on the same
disk.  `fs_write` and `fs_read` are modelled through the buffer they build: the
blocks of the chain, in order, and junk beyond (`Fetched`).

**Chains.** `Chain(F, h)` is the least closed set of blocks that holds `h`, so that it
can be reasoned about without recursion; `BlockAt` follows links one by one where
order matters.

**Known layout.** `fildes` has 32 entries of three words, and `FAT` follows, then `DIR`;
`mount_fs` clears 64 entries, `fs_create` may write `FAT[8192]`, `fs_truncate` may start
at `FAT[-1]`.  `Clobbered`, the fault `overrun` and `TruncateOffChain` translate these for
that layout.

**Assumptions about programs.** Calls are made while mounted; descriptors are
closed before `umount_fs`, as the README of Project 5 asks; names are short; `length` and
`nbyte` are not negative.  `Careless` lets a program format a mounted disk and mount the
blank one that leaves.

**Abstract specification.** `FileStore`: files are byte strings under names,
descriptors are positions; everything but descriptors outlives unmounting.  The
mapping (`StateSeen`, `FilesSeen`, `OpenedSeen`, `ResultSeen`) reads directory and FAT from memory
while mounted and from the disk otherwise, and shows each call's result (`ret`) as well, so a call must return
what the abstract one returns.  A fault maps to a result no call gives.

### 2.3 `Semaphores`

**State.** `sem`, `val`, `waiting` are `seminfo`; `loaded`, `slot`, `next_run` the locals of
a call that spans several steps.  The rest is the state of `Threads`, whose constant
`ClientLabels` makes room for the program points of a semaphore call.

**Steps.** No call is locked, so each access is a step: the test of `val`
(`WaitTests`), the BLOCKED mark (`WaitBlocks`), the queue entry with the call of `scheduler()`
(`WaitQueues`), the load and the store of `val--` and `val++` (`WaitLoads`, `WaitTakes`,
`PostLoads`, `PostGives`), the search (`PostSearches`), the reading and clearing of the slot
(`PostReads`), the RUNNING mark (`PostWakes`) and the jump (`PostJumps`).
`AlarmPoints` says where an alarm may come.

**What the jump does.** `sem_post` neither saves the poster nor sets `curr_TID`.  The woken
thread runs under the poster's identity, from the context an alarm saved *before* its
`sem_wait`, since `scheduler()` saves only a RUNNING caller.  The poster, when resumed, does
its call again.  So four of the theorems about `Threads` do not survive semaphores
(`RunsAsItself`, `OnlyCurrRuns`, `ContextOwner` fail after the first such jump); units are
nevertheless neither made up nor left idle (4.8).

**Assumptions.** Main initialises and destroys the semaphore, the latter when nobody uses it.
A thread that runs under another's identity makes only semaphore calls: what it creates or
ends would be the other's.

### 2.4 `BasicThreads`

`Switch` and `Preempted` are the scheduler and the handler of `Threads`; the two sources share
that text, and the first has no join and no WAITING.  `pthread_create` and `pthread_exit`
block no signal, so their stores are steps (`CreateFinds` to `CreateCounts`,
`ExitCalled` to `ExitLeaves`).  `total_threads++` is a load and a store.
Filling a slot is four steps: the `setjmp` into its buffer (`CreateSaves`, 124), the program counter and the arguments
(`CreateAims`, 127-134), the stack (`CreateAllocates`, 143) and the stack pointer (`CreateStacks`, 146-154).  Two creators may
work on one slot, and a slot made READY by one may be run while the other is between two of these.  `made` is
what has been stored in the buffer since its last `setjmp`, `Started` and `Unstacked` what a jump to it then does, and
`Refiled` forgets it when the scheduler saves a thread there.
`Creators` and `Exiters` say which threads make the calls.
Its handler too has `SA_NODEFER`, so a thread that the handler starts sees alarms;
`ReadyRuns` depends on it.

### 2.5 `Tls`

**State.** `hash_table` and `elem` are the chains; an element that was freed while the table
leads to it is `stale`, and `reused` once `malloc` has handed its memory out.  `Walk(b)` is what
`hash_search` comes by, step by step, as a recursive function.  `page` holds
protection, `ref_count` and contents.  `call[t]` is where thread t is in a call of the library.
`proc` says whether a fault has ended the process.

**Steps.** Real threads run at any time, so a call is one step per access to shared
state: `LinkNext` and `LinkHead` are the two stores of an insertion, `CloneShares` one
page of the copying loop, `WriteTests`, `WriteCopies`, `WriteDrops`, `WritePuts` one byte of
`tls_write`, `DestroyReleases` one page and `DestroyUnlinks` the table.  A loop that
only calls `mprotect` on the pages is one step.

**Faults.** The handler cuts the fault address to an `int`, so it recognises no page of a
64-bit process and the default action ends the process, where the README wants the thread
ended (63-66).  `Touch` is a thread that accesses storage without the library.  An `mmap` that fails is
not checked in `tls_write` (`nomemory`).

**Discipline.** `KeptApart` names the calls the program keeps from overlapping: those on one
`bucket`, those on shared `pages`.  With both, every property holds; with less, each
fails (section 3).

**Abstract specification.** `LocalStore`: each thread has its own bytes, which start as zeros or
as a copy, and only the owner changes or drops them; a byte read is the byte
stored.  A copy is atomic there: copy on write must hide that it is not one.

### 2.6 `Shell`

**State.** One record per process: what it is (`shell`, `child` between `fork` and
`exec`, `command`), where in `main` it is, its line, and which ends of the line's pipes it
holds.  `spare` counts the descriptors that the loop of lines 253-262 opens beyond the line's
need.

**Steps.** One per system call that other processes can notice: `Background`, `RunsOne`,
`Waitpid`, `OpenPipes`, `ForkNext`, `ForkedAll` (closing the parent's ends), `ChildExecs`, `Wait`.
`Finishes` and `GivesUp` are commands that end at the end of their input or before.
`Notified` is SIGCHLD: with `SA_NOCLDWAIT` a child leaves no status, so a wait sleeps until
some child ends, and without `SA_RESTART` the signal interrupts whichever call the
shell is in, `fgets` included.

**Abstraction.** A command's output, files and arguments play no part; a line is how many
stages it has, whether it ends in `&`, and which of its input and output is redirected too often: the
first stage of a pipeline tests the one, the last stage the other (`Misdirected`).

## 3. Runs

Passing runs:

| Run | Instance | Shows |
|---|---|---|
| `threads_windows` | 4 slots, 3 calls each, alarms everywhere, as many creations as slots | identity, contexts, freed stacks, count (256 thousand states) |
| `threads_handoff` | 4 slots, 2 created, alarms in the program and on the way back to main | refinement of `ThreadLife`, exact values and count, liveness |
| `sem_masked` | 4 slots, 3 users, 2 units, alarms in the program only | no unit is made up, none lies idle while a thread is queued |
| `basic_exits` | 5 slots, 3 created, alarms in the program and inside `pthread_exit` | freed stacks, a count that covers the threads alive, identity, liveness |
| `fs_structure` | 3 data blocks, 2 entries, 3 names, 2 descriptors, all calls | block ownership, reference counts, chain length, offsets |
| `fs_store` | 4 data blocks of a byte, 2 letters, 2 files of up to two blocks, 2 descriptors, remounts | refinement of `FileStore`; every byte keeps a block (194 thousand states) |
| `tls_apart` | 3 threads, 2 of them in one bucket, stores of two pages, 4 mappings | refinement of `LocalStore`, reference counts, protection, no fault (352 thousand states) |
| `shell_terminal` | 5 processes, 2 lines of up to 3 stages or jobs of up to 2, 2 Ctrl-D; no pipeline redirected too often | waits, pipe ends, liveness of a line (155 thousand states) |

The other runs each violate one sentence of a README; the findings in
`PROJECT.json` quote it.

| Run | Instance | The code does |
|---|---|---|
| `sem_woken` | 2 users of one unit, alarms in the program only | a woken thread comes back before its `sem_wait`, not past it |
| `fs_pages` | FAT of two pages | `umount_fs` writes the first FAT page to every page |
| `tls_shared` | as `tls_apart`, without keeping calls on shared pages apart | a thread that uses its own store closes the pages under another thread, and the process dies |
| `shell_hang` | a background job, then a pipeline | the shell waits for a background job that never ends |

What else the models show of the code, without a run of its own.  Each is a branch of an action
or a change of constants:

* Threads.  An alarm in `pthread_exit`'s hand-off (line 226; `AlarmPoints <- AnyPoint` in
  `threads_handoff`) leaves the joiner BLOCKED for ever: `JoinEnds` fails.  It can also make
  `pthread_join` return early: with no READY thread, `scheduler()` resumes the joiner itself
  (`Scheduler`, `n = c`).
* Main, resumed by `pthread_exit`, is not marked RUNNING (199), so alarms return it to an
  older context: `WorkersNotReplayed` would fail for thread 0.
* Slots of ended threads are never FRESH again: a program with few threads alive overruns
  the table (`Create`, `overrun`).
* With the last slot in use (3 slots, 2 created) the search that starts past the table skips
  thread 0: `ReadyRuns` fails.
* When main has called `pthread_exit` and then the last thread does, line 209 takes the
  plain 1 of `longjmp` for a joiner (`Resume` at `x1`).
* Semaphores.  With alarms inside the calls (`AlarmPoints <- AnyPoint` in `sem_masked`)
  `UnitsBounded` fails: two threads pass the test of line 338 together.  The README asks
  for `lock` and `unlock` around accesses to global data (Project 3, line 80); `sem_masked` is
  the program that supplies them.
* An empty queue slot is 0: main in `Users` is never woken.
* File system.  `mount_fs` clears 64 entries of 32 descriptors and so part of the FAT
  (`Clobbered`): with more entries than descriptors `KeepsStore` fails.
* A file with two blocks gets no third, but its size grows; so does a file on a full
  disk (`Grown`); `fs_create` then writes past the FAT (`Create`, fault `overrun`).
* `fs_truncate` never stores the new size, and follows a one-block chain past its end
  (`TruncateAfter`, `TruncateOffChain`).
* `make_fs` on the mounted disk empties it before it fails; `mount_fs` takes any block 0 for a
  super block (`MakeFsMounted`, `MountBlank`).
* `fs_listfiles` assigns to its own parameter, so the caller's array is not set (`Listfiles`).
* Thread-local storage.  With `MallocReuses` TRUE `KeepsLocal` fails for one thread after
  another: the destroyed head of a chain stays linked (282-290), the memory goes to
  a later `TLS`, and what was behind it is lost.  With `KeptApart` empty two insertions
  lose one, and reference counts drift.  A `tls_create` whose `mmap` fails leaks the pages before
  (`CreateFails`).  `offset + length` may wrap, and the call then returns 0 without doing anything.
* Shell.  The pipe loop leaks descriptors, and when they run out retries for ever
  (`OPEN_MAX = 11`: `LineEnds` fails at the second pipeline of three; the runs have 16, enough for their lines).  Ctrl-D, and a background job that ends while
  the shell is at its prompt, end it through a NULL pointer (`Crash`).  A background child goes on as a second
  shell on the same terminal (`Background`), a pipeline child with too many redirections forks again
  in place of its parent (`ChildExecs`).  A failed background `fork` runs the line in the foreground,
  a failed foreground `fork` waits for any child (`AnyChild`).  Line 236 reads a status that no
  wait has written.

The passing runs avoid these by their constants, never by a change of the model:
`threads_handoff` leaves out alarms in the hand-off windows and the full table; `basic_exits` leaves
out alarms inside `pthread_create`, where two threads could take one slot and a worker could run under another's identity, and main does not exit;
`fs_store` has as many descriptors as entries, one FAT page, room on the disk, no
`fs_truncate`, and files of at most two blocks.
`fs_structure` has `fs_truncate`, the full disk and the full directory: a file system
with the defects above still keeps ownership, counts and offsets consistent up to the
call that faults.

**Bounds and why they suffice.**
Threads: three threads are needed for a joiner, a target and a third thread that an
alarm switches to; the fourth slot decides whether the table may fill (four creations: yes;
two: no).  Three calls per thread allow create, create, join and join twice.  A higher
bound repeats slots that behave alike, as every search in the library is cyclic or from 0.
Semaphores: three users of two units make one wait while two hold; two calls each
let a replayed call be seen.
First library: three created threads, of which one exits while another counts and the third takes the CPU.
File system: two files are needed to share a block, two descriptors to share a file.  The code
gives a file all the blocks it will ever have in the first write that adds any, so chains of
one, two and three blocks (`fs_structure`: blocks of one byte, writes of two) are the cases.
In `fs_store` four data blocks are just enough for two files of two blocks, and are recycled, and
two letters tell a block's bytes from those of its former owner;
in `fs_structure` three are too few, which makes the full disk reachable.
Thread-local storage: two threads share a bucket and a third does not, so that chains of two and calls
that do overlap both occur; two pages let one be copied and one stay shared; the fourth
mapping makes `mmap` fail while others succeed; one byte that crosses into the second
page (offset 1, length 2, pages of two bytes) visits both.
Shell: five processes are a shell, a background job and a pipeline of three, or fork
fails; two lines are a job and what it disturbs; four pipes are two pipelines of three.

**VIEW.** `ret` is read by no action, so it does not distinguish states; neither do, for `fs_store`, the
other fields of directory entries and descriptors that are not used; and the
directory and FAT of the place (memory or disk) that the next mount or unmount
overwrites do not either.  `StateView` keeps the rest.  TLC still evaluates an action
property on every step it generates, so results are compared.  `StructureView` leaves the
data blocks out too: no guard reads contents.
**SYMMETRY** of names in `fs_structure` is sound: names are only compared and the run
checks invariants only.

**Fairness.** `Threads` is in 2.1; `BasicFairSpec` is the same for the first library: `WF` of its steps, as
they are machine code, and `SF` of the alarm, as the timer never stops.  The shell's `FairSpec` is `WF` of every
process's steps, as the kernel runs them all, with no fairness for typing or for a command
that gives up early.  `Semaphores`, `Tls` and the file system state safety only.

**Deadlock** is checked in all runs but the shell's: an ended process stutters through an explicit action,
and `fault` likewise, so a state with no step would be a modelling error.  The shell's two
runs say `CHECK_DEADLOCK FALSE`: when the bounds on typed lines are used up, shells wait for a
user who types nothing more, which is where a real terminal rests.

## 4. Proofs

All theorems hold for every value of the constants that the named assumptions of the modules
allow, plus the hypotheses stated here.  TLC checked each inductive invariant on the
instances of the runs before it was proved.

### 4.1 Threads: identity and contexts (`ThreadsProofs`)

For every `MAX_THREADS >= 2`, any set of alarm points, any bounds and any client labels:

* `TypeCorrect`: the types, in particular that the offset coding of joiner ids is undone;
* `OnlyCurrRunsAlways`: no thread but `curr_TID` is RUNNING;
* `RunsAsItselfAlways`: a program runs only under its own id;
* `ContextOwnerAlways`: a context is filed under the thread that saved it.

None of the last three is inductive.  `scheduler()` files the CPU's context under `curr_TID`, so
`ContextOwner` needs `cpu.flow = curr_TID` whenever something may be saved; this fails
at four labels (`e0`, `e1`, `k1`, `x6`), and there nothing is saved because
no thread is RUNNING.  The inductive invariant `IInv` adds exactly this: `NoneRunsInHandOff`,
`FlowIsCurr`, `MainIsNext` (at `e1` the library has set `curr_TID` to the thread it
jumps to), `JoinerKnown` (the tail of `pthread_exit` has a joiner to return to),
`BuffersSaved` (where contexts may point) and `BeforeFirstCall` (the zeroed table).

The proof has a lemma about `Resume`, one about `Scheduler` (`SchedulerFacts`, with the
postcondition `SchedulerPost`), one per action, and `NextKeepsIInv` that collects them.

### 4.2 Threads: joins (`ThreadsProofs`)

Under the same generality, so with alarms at any set of points:

* `FreedStaysDownAlways`: no thread runs, or will be chosen to run, on a freed stack;
* `CountBoundedAlways`: `total_threads` is never below the number of threads alive, and never
  above the table's size;
* `WorkersNotReplayedAlways`: a thread other than main never does a completed call again.

The invariant `JInv` (`JoinInvariance`) says who waits for whom.  A thread has a target only inside
`pthread_join`, and no two have the same (`Targets`, `OneJoiner`); the note in `joining`
names the joiner (`Notes`); a joiner that is not BLOCKED has a target that has ended
(`Returning`).  The last two are false as they stand.  When an alarm interrupts a
hand-off and no thread after the joiner is READY, `scheduler()` can choose the joiner although its
target has not finished.  What holds is that such a target never moves again.  `Dead` says so:
the thread is in a set, without main and the running thread, each of whose members has exited, is
blocked for another member, or was the target of one.  `NoneLeft` finds the set when the
scheduler has searched in vain, and `StaysDead` keeps it through every step.

The rest of `JInv` is where the CPU is and which state its thread is in (`CpuRight`), that the buffer of
a thread other than main that does not run is up to date (`Fresh`), freed
stacks (`StacksRight`) and the count (`CountFits`, with `Uncounting` for the
thread between lines 221 and 226).  `AfterSwitch` brings `JInv` over a run of the
scheduler, whoever called it.

### 4.3 Threads: the promise (`ThreadsHandOffProofs`)

Alarms in the windows that lines 281 and 298-311 leave open do break joins (section 3).
`WindowsClosed` excludes them: no alarm point in `k1`, `j1`, `x1` to `x6`.  An alarm in the program and on the way
back to main (`e0`, `e1`), as in `threads_handoff`, remains.  Then:

* `JoinGetsValueAlways`: a join that returns has the exit value of its target;
* `CountExactAlways`: `total_threads` is the number of threads alive.

`HInv` (`HandOffInvariance`) says that a thread in `pthread_join` is BLOCKED until its target hands
over, that what it waits for is READY, RUNNING or BLOCKED until then, and that the exit
value is stored before the joiner continues (`JoinersBlocked`, `TargetsUp`, `ValueStored`).
The hard case is `pthread_join` calling `scheduler()`, which would resume the joiner itself
if nobody were READY.  `BlockedHasRunner` and `SomebodyCanRun` exclude it: threads wait only for later ones, so
the last blocked thread waits for one that can run.

`KeepsPromiseAlways` proves that every behaviour of the library is one of `ThreadLife`, under
`WindowsClosed` and `RoomLeft`.
Initial states map to initial states (`InitImplements`); a creation, an end, the start of a
join and its return map to those of the abstract specification; the scheduler, main's return and the tails of
hand-offs to stutters (`OthersImplement`); and wherever the process ends, the abstract one may stop
(`MayStop`, the `...Stops` lemmas), because a crash is reached only when main
could have returned or no thread could go on.
`RoomLeft` (`MaxCreated < MAX_THREADS - 1`) keeps the last slot unused.  It is needed: with four slots and
three creations TLC finds `KeepsPromise` violated, as a search from the last slot reads past the
table (37) and may take what it finds for a READY thread.
Both hypotheses hold in `threads_handoff`, which has four slots, two creations and these alarm points.

### 4.4 First library (`BasicThreadsProofs`)

* `WorkersAreThemselvesAlways`: a worker runs only under its own id, with any thread exiting, main included, and any
  table.  Its hypothesis is `SetUpUninterrupted`: no alarm while a slot's buffer is half filled (`c2` to `c4`, lines
  124-154).  The code needs it: with an alarm there TLC finds a violation in 22 states, two creators in one slot, of which the
  second comes to be saved under the slot's id.  Alarms between all other stores of both calls are allowed, two creators in
  one slot too; TLC met no violation of it in 25 million states of a four-slot instance (stopped before the end).
  The invariant (`TInv`, `IdentityInvariance`)
  adds that whoever is saved is filed under its own id (`WhoIsSaved`: if the flow on the CPU is not
  `curr_TID`, it is main and `curr_TID` is not marked RUNNING), and that a thread in `pthread_exit` is never saved
  and so never comes back there (`NotSavedLeaving`).
* `BasicTypeCorrect`, `BasicFreedStaysDown`, `CountCoversAlways`: types with a count that stays a natural number,
  freed stacks, and the count.  These need three hypotheses, which hold in `basic_exits`:
  `CreateUninterrupted` (no alarm at `c1` to `c7`), `MainNeverExits` and `RoomLeft`.  Without the first, TLC finds two
  threads in one slot and a negative count; without either of the others, the search for a READY thread can come back to
  a thread that has ended, which is then marked RUNNING: `FreedStaysDown` and `CountCovers` fail.

The invariant `BInv` (`OrderInvariance`) says that main is READY or RUNNING, that the running thread is marked (`WhoRuns`,
with main under the id of the last thread that ended as an exception), that the slot in work is unused
(`SlotUnused`), and how far the count is off at each store (`Uncounted`).  The key step is `PicksOneThatRuns`: the
scheduler never falls back on a thread that has ended, as main can be found.

### 4.5 File system (`ChainTheorems`, `FileSystemProofs`)

For a disk, a directory, a descriptor table and files of any size: `TypeCorrect`,
`NoCrossLinksAlways`, `NoLeakAlways`, `RefCountsAlways`, `ChainFitsBufferAlways`,
`OffsetInFileAlways`.

The invariant `IInv` says that while mounted directory and FAT `Fit`: a used entry has a
name and a data block as head (`EntriesNamed`); its chain ends and is no longer than its size
allows (`ChainsEnd`); chains are disjoint (`ChainsApart`); no block of a chain is free
(`FreeIsUnowned`).  Memory also has `DescriptorsLead` and `RefsExact`, and while nothing is mounted all
descriptors are closed (`ClosedUnmounted`).  `ChainsEnd` is what the checked properties lack: only
because a chain ends does the loop of `fs_delete` free all of it and nothing else, and
only with `FreeIsUnowned` is a block that the search of `fs_write` finds in no other file.  `Lost` is the
blocks neither free nor in a file: every call on a mounted disk keeps `IInv` and loses no block (`Keeps`), and only
remounts are in question.

A chain is a least closed set, so the lemmas need no induction over data: a chain is its head and
the chain behind it (`ChainUnfolds`), is unchanged by edits elsewhere (`ChainIsLocal`), is
linear and has no cycle if it ends (`ChainIsLinear`, `ChainHasNoCycle`).  From these follow
`GrownChain` (fs_write appends to this chain and no other), `CutChain` (fs_truncate) and `FreedChain`
(fs_delete).  The least free block exists by well-founded inclusion (`LeastNat`).

**Remounts.** `umount_fs` writes the first page of the FAT to every page, and `mount_fs` clears as many descriptors
as there are entries.  At the sizes compiled into `fs.h` and `disk.h` (8192 blocks, 1024 ints to a page; 64 entries, 32
descriptors) the first loses what lies beyond block 1023 and the second clears every third
FAT entry up to block 93.  So no theorem can hold of every remount (finding `fs_pages`), and there are two sets:

* `SafeSyncs`, a condition on the behaviour and not on the sizes: an `umount_fs` finds the blocks of the files in the first page, and
  a `mount_fs` clears no entry of theirs.  A disk of the compiled sizes with its files in blocks 10, 11, 13, 14 and so
  on up to 1023 meets it, whatever became of the free entries; files that never meet a remount may lie anywhere.  From
  `SyncInv` (`IInv` and `DiskFits`, the same of an unmounted disk) follow `RemountsKeepFiles` (types, ownership, counts,
  chains that fit, offsets) and `KeepsBlocksAlways` (no call on a mounted disk loses a block, whatever remounts lost before).
* `SafeMounts`: a mount reads an empty disk, or `FatKept` holds (one FAT page, no more entries than descriptors).
  Then a block is free exactly when no file owns it (`KeptInv`, `NoLeakAlways`) as well.  Of the compiled sizes
  it speaks up to the first mount of a disk with files on it.

Both hold in `fs_structure` and `fs_store`.

**The file store.** `KeepsStoreAlways`: `FileSystem` implements `FileStore`, for a disk, a directory, descriptors and
files of any size and any buffers: `Spec /\ SafeSyncs /\ []HasRoom => KeepsStore`.  Its hypotheses are what the code needs:

* `SafeSyncs`, as above: without it the finding `fs_pages` is a counterexample.
* `Plain`: nothing is truncated (`fs_truncate` keeps the old size and leaves junk), no read asks for 0 bytes (the code
  refuses it, the store gives an empty string), and no mounted disk is formatted.
* `HasRoom`: no search for a free block failed, and every byte of a file is in a block of its chain.  The code breaks
  it when the disk is full and when a chain that has a second block should grow (section 3).  It too is a condition on
  the behaviour: a program that keeps within it, on a disk of any size, sees the store.

`fs_store` meets all three, and there `HasRoom` is checked.  Before the proof TLC checked `KeepsStore` on a disk of 9 blocks, 7 ints
to a page, with 3 entries and 1 descriptor, so neither condition of `FatKept`, restricted to steps with `SafeSync` and `HasRoom'`
(50 thousand states).

`Library(D, F, dt)` is the store that a directory, a FAT and the data blocks make up: each name with its bytes, `TextOf`.
The invariant that `IInv` needs beside it is `StoreInv`: no two entries have the same name, and every byte has a
block, in memory while mounted, on the disk otherwise.  Then each call is one lemma.

* Files: `LibraryCreated`, `LibraryDeleted` and `LibraryWritten` say what becomes of the other files when an entry and its
  chain change.  They rest on `TextIsLocal`: the bytes of a file depend only on the blocks of its chain, and no other
  chain has one of them (`ChainsApart`).
* Bytes: `TextWritten` follows each byte of a write through `Index` to its block and back; `Spliced` and `TextRead`
  say that the result is the concatenation, or the part, that `FileStore` states with `SubSeq`.
* Descriptors: `HandlesOpened`, `HandlesMoved`, `HandlesClosed` and `HandlesSame`.  `fs_delete` leaves them alone because
  `ref_cnt` is exact.
* `NamesCounted`: the directory has no slot left exactly when the store has `MAX_F_NUM` names.

`BlockAt` follows links one by one, by a recursive function.  No theorem on induction can be used, so `AllNats` takes
its place: a set of numbers that holds 0 and with `n` also `n + 1` has no least missing number.  With it
`BlockAtSteps` unfolds `BlockAt`, `BlocksOfChain` says that a walk passes exactly the blocks of the chain,
`BlocksDistinct` and `IndexOf` that it passes each once, and `BlocksGrown` that a chain that grows keeps its beginning.

### 4.6 Thread-local storage (`TlsProofs`)

For any number of threads, buckets, elements and pages, any page size and arguments, and whether or not `malloc`
hands out again what was freed (`MallocReuses`): `TypeCorrectness`, `CountsExact` (`RefCountsExact`),
`PagesProtected` (`ProtectedAtRest`) and `NoFaults` (`CallsNeverFault`).

The hypothesis `CallsApart` (`KeptApart = {"bucket", "pages"}`) is the discipline of `tls_apart`: calls on threads of
one bucket, and on stores that share a page, do not overlap.  All other calls interleave at every access.  The
hypothesis is needed: without `"pages"` TLC finds `CallsNeverFault` violated (finding `tls_shared`), without `"bucket"`
two insertions lose one.

The checked properties count only when no call is in progress, or speak of protection alone, so none is inductive.
`IInv` (`Invariance`) has five parts:

* `Typed`.
* `CallsOK`: a call in progress has a live element of its own thread, and calls in progress are on
  different buckets.
* `TableOK`: the chains are lists of the elements of their bucket.  An element has at most one
  predecessor (`OneBefore`), the head has none but the element of a call between the two stores of an insertion
  (`HeadsFirst`), nothing leads to an element not yet inserted (`NewFor`), and an element that is being destroyed is in
  its chain (`OldFor`).
* `StoresOK`: a page is in a store once; a store has the pages its size calls for; a clone in progress has
  the first pages of its source, whose owner makes no call.
* `PagesOK`: `Kept(e)` is the pages an element accounts for, which in the middle of a call is not its store: a
  `tls_destroy` has given some back, a `tls_write` has copied a page whose share it still
  holds.  `ref_count` is the number of elements that account for the page, at every step (`CountedAt`); a page
  that a call touches is one it keeps other calls from, or its element alone accounts for it (`HeldFor`);
  the page a `tls_write` copies stays in use elsewhere (`SharedFor`);
  an accessible page is one that a call in `tls_read` or `tls_write` accounts for (`OpenedAt`); and
  no two calls touch one page.

A step of a call moves only its own account.  `OthersKeep` and `OthersTouch` say so for every step, which leaves to
each action the page it is at: a clone adds one account and one to the count, a copy on write makes a page with a count of
one while the old one keeps its count until `WriteDrops`, a destruction takes its account and one from the count
and unmaps the page when none is left.  `malloc` and `mmap` give the lowest free element and pages
(`LowestExists`, `AscendingFacts`), and the walk of `hash_search` exists for every chain (`WalkExists`).  Both need
induction over numbers, which is done here with well-founded sets (`AllNats`).
TLC checked `IInv` on three instances, one with `MallocReuses`.

The refinement `KeepsLocal` (`KeepsLocalAlways`) has a second hypothesis, `DestroysInOrder`: if `malloc` may hand out again
what was freed, the head of a bucket is destroyed only as the last store in use there.  It asks nothing of the allocator,
only of the program's order of `tls_destroy`: stores of one bucket destroyed in the order of their creation meet it, as
insertions are at the head, and so does a bucket with one store at a time.  The code needs it: the head
of a chain stays linked after it is freed, and when its memory becomes a `TLS` again the elements behind it are lost to
`hash_search` (section 3); `tls_apart` with `MallocReuses` TRUE violates `KeepsLocal`, and with this order added
does not, in 447 thousand states in which memory is handed out again.

It rests on `RInv` and `DeadEnds` (`StoresInvariance`), inductive together with `IInv`:

* `DeadEnds`: no freed element leads to one in use, so that when `malloc` hands it out again, which resets its link, every
  chain keeps its elements in use (`LiveStays`).
* `ReachedAt` and `Single`: an element in use is in its chain or about to be inserted, and no thread has two, so
  `hash_search` finds a thread's store wherever `tls_create` would refuse a second one.
* `Sized`: a store has at least one byte, so that to create it is not a stutter.
* `ReadyFor`: a store about to be inserted is blank, or has the pages of the store it is a copy of, whose owner
  makes no call; so the insertion is the step that creates or clones.
* `PrivateFor`: when `tls_write` stores a byte, or is about to drop its share of the page it copied, its
  page has one reference.
* `AheadFor`: between the two stores of an insertion the new element leads to the head, so that the second
  one cuts nothing off.

`hash_search` is a walk of `MaxElements` steps.  `ChainLeast` and `ChainClosed` make of it the least set that
holds the head and what its members lead to, the latter because a longer walk comes by an element twice and so never ends
(`WalkRepeats`).  With them the effect of an insertion or a removal on every chain follows without induction
over the list.  For each action one lemma (`...Round`) shows that it keeps `RInv`, leaves the
stores and pages of others alone (`Leaves`), and does to its thread's store what one step of `LocalStore` may (`Own`);
`Promised` draws the step of `LocalStore` from these.  The steps of a clone, the copy of a page and the drop of the old one
are stutters; `LinkHead`, `WritePuts` and `tls_destroy` are the steps that count.
TLC checked `RInv` on the instance of `tls_apart` before it was proved.

### 4.7 Shell (`ShellProofs`)

For any finite number of processes and pipes, any lines and any number of them: `TypeCorrect`
(`ShellTypeOK`) and `ForegroundWaitedAlways` (`ForegroundWaited`), with misdirected pipelines too;
`EndsInPlaceAlways` (`EndsInPlace`) under the hypothesis `OneRedirection`: a line redirected too
often is a single command.  The hypothesis is needed: a misdirected child of a pipeline goes on with its parent's
loop over the commands as a shell, with every end of the pipes open (lines 303 and 373), and forks its own
copies of the later stages; with a misdirected line of three stages TLC finds `EndsInPlace` violated.  The lines of
`shell_terminal` satisfy the hypothesis.  That the sets are finite is part of `ShellAssumption`, as a
process table is.

The two safety properties look at a shell at its prompt and at commands already in place, and say nothing
of the way there.  `IInv` (`Invariance`) has four parts:

* `Typed`.
* `FamiliesOK`: a process with children is a shell, so a command that ends leaves none behind.
* `LinesOK`: which ends a process holds, by where it is.  A shell or child in the fork loop holds every end of its
  pipes, which are different ones (`Opened`); a command holds the read end of the pipe before it and the
  write end of the pipe after it (`StageOf`); all others hold none.
* `WaitsOK`: how many stages a shell may have.  In the fork loop at most as many as it has forked; in the
  wait loop those left and the calls of `wait` that returned are together at most `num_cmd`; in `waitpid` the
  child it waits for.

`WaitsOK` is what makes the `num_cmd` calls of `wait` enough although the end of any child interrupts one
(`NotifiedKeeps`).  Before a shell has died, a process that ends is a command, hence a stage of the shell it
notifies: the call that returns is paid for by a stage less, and a call that returns because no child is left leaves
nothing to wait for.  The end of a background job, which is a shell, would use up a call without a
stage; it sets `dead`, and past that point the invariant claims nothing.

`EndsApart` (`EndsInvariance`) adds that two processes with an end in common belong to one pipeline, as the shell and a
stage it has forked, or as two stages: a new pipe takes ends nobody holds (`FreshPipes`), and `ForkedAll`
closes the shell's.  TLC checked `IInv` and `EndsApart` on the instance of `shell_terminal` and with six
processes, and `IInv` also with misdirected pipelines.

### 4.8 Semaphores (`SemaphoresProofs`)

For any table, any number of users and calls, any initial value:

* `SemTypeCorrect` (`SemTypeOK`) wherever alarms arrive.  The invariants of 4.1 do not hold here, so the types
  stand on their own: `TInv` adds only that a flow in the tail of `pthread_exit` knows its joiner (`Known`).
* `NoIdleValueAlways` (`NoIdleValue`) if no alarm interrupts a call of the semaphore (`SemUninterrupted`).
  `NInv` (`CallsInvariance`) says that what a call has found out still holds where it is used: a tested or loaded value, an
  empty queue (`ValueAt`); nobody is saved inside a call (`NotInCall`).
* `UnitsBoundedAlways` (`UnitsBounded`) if alarms come only while a program runs (`CallsUninterrupted`) and main
  is no user (`MainUsesNone`).  Both hold in `sem_masked`.

`MainUsesNone` is needed.  With main a user, three slots and one unit, TLC finds `UnitsBounded` violated:
main is saved, READY, while it holds the unit; the last other thread exits and returns to main without
marking it RUNNING (197-199); main posts; the next alarm does not save it and resumes it where it
still holds the unit.

`UnitsBounded` is a count, and what keeps it true is that no thread outside the semaphore can come back
inside.  The jumps of `sem_post` leave several threads marked RUNNING and flows under the identity of others, so
this takes three more invariants (`UnitsInvariance`):

* `LInv`: where each buffer leads, which status goes with it, that main alone runs under its identity
  (`MainApart`), and when the thread on the CPU is marked RUNNING, hence saved by the next alarm (`MarkedAt`).
* `DInv`: there is a set of threads in play that includes main and `curr_TID`.  Each joiner parked
  in `pthread_join` is named by one of them only, or by the tail of `pthread_exit` the CPU is in; the
  others are EXITED, or marked RUNNING or BLOCKED with nobody to jump to them, and never run again.  The set is not
  a variable of the model: a thread leaves it when it ends for its joiner, and many do when `pthread_join` finds
  nobody READY and `scheduler()` resumes the joiner itself, past targets that stay where they are.
* `CInv`: `Holders` hold a unit, and with `val` they are at most `InitialValue`.  `Claims` are the threads a
  resumption would take inside, which include a thread that queued in a later `sem_wait` with the
  buffer of an earlier visit.  They too are at most `InitialValue`, which is why a replayed `sem_post`
  gives back a unit that was taken.

TLC checked each of these on instances with two to four slots before it was proved.

### 4.9 Only model-checked

* `HasRoom` and `KeepsStore` where files grow beyond two blocks or the disk is short of room: the first can fail
  there, and the second is proved only from the first.
* Liveness under fairness (`LineEnds` of `Shell`, and those of section 3), which is out of the prover's reach.

## 5. Not modelled

* Host failures other than those named above (`open`, `read`, `write`, `malloc` returning errors).
* A process that dies with a file system mounted: the README of Project 5 promises
  persistence only through `umount_fs`.
* File system calls before a mount, and descriptors out of range.
* What `fs_read` copies to its caller beyond the heap buffer: shown as `Junk`.
* `exit()` from a thread other than by `pthread_exit`, and signals other than SIGALRM.
* Nested alarms inside `scheduler()` (see Timing).
* Semaphores: more than one at a time, use after `sem_destroy`.
* Thread-local storage: the source of a clone destroyed during it, a `pthread_t` used again,
  `mprotect` failing, and the protect loops page by page.
* Shell: what the overrun of `pipefds` does to the variables around it (the build's stack decides),
  stdio buffers that `fork` copies, commands that read the terminal along with the shell.
* The parser, the assembly helpers, tests and build files (section 1).

## 6. Plan

Done: `Threads`, `ThreadLife`, `Semaphores`, `BasicThreads`, `FileSystem`, `FileStore`, `Tls`,
`LocalStore`, `Shell`; proofs about `Threads` (all its safety properties and its refinement), `Semaphores`,
`BasicThreads`, `FileSystem` and `Tls` (their refinements too) and `Shell` (all their invariants).

* `umount_fs` block by block with a crash between writes; `scheduler()` store by store
  with a nested alarm.
