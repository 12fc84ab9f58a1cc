# A TLA+ development of the xv6 kernel and the c-shell of `mini-project1`

The repository holds two programs: an xv6 kernel for RISC-V
(`src/mini-project1/xv6`) with three schedulers chosen at compile time (round
robin, FIFO, MLFQ), and a Unix shell for Linux with job control
(`src/mini-project1/c-shell`).  The kernel is concurrent in earnest - harts,
interrupts, sleep and wakeup, a crash-safe file system - and comes first here;
the shell's concurrency is that of a process with its signal handlers.

Source paths below are relative to `src/mini-project1/`.  `PROJECT.json` maps
each definition to the lines it models.

## 1. Inventory

| Component | State | Operations | Talks to | Hard behaviour | Correct when |
|---|---|---|---|---|---|
| Process table, `kernel/proc.c` | `proc[]` (state, pid, parent, chan, killed), `nextpid`, `wait_lock` | fork, exit, wait, kill, sleep, wakeup, yield, `scheduler()` | traps and every sleeper in the kernel | `p->lock` acquired on one stack and released on another; two-step sleep; exit racing wait and fork | no kernel stack is shared, no wakeup lost, every live process has a live parent, pids are unique |
| MLFQ, `kernel/proc.c` | `p->queue`, `p->ticks_used`, `mlfq_last[]`, `last_boost_tick` of a hart | `mlfq_timer_tick`, `mlfq_boost`, the scan | timer interrupt, sleep, fork | the tick takes no lock; scans run with interrupts on | slices, priority, round robin, no starvation |
| FIFO scheduler | none of its own | smallest pid first | yield, wakeup | chosen in one pass, taken in another | oldest runnable process runs |
| Traps, `kernel/trap.c` | `ticks`, `tickslock` | `usertrap`, `kerneltrap`, `clockintr` | scheduler, `sys_pause` | preemption anywhere interrupts are on | killed processes exit, ticks wake sleepers |
| Redo log, `kernel/log.c` | `log`, the log on disk | `begin_op`, `log_write`, `end_op`, `commit`, recovery, `sys_sync` | buffer cache, disk, every file system call | crashes, group commit, space reservation | operations are atomic over crashes; the log never overflows |
| Pipes, `kernel/pipe.c` | ring, counters, end flags | read, write, close | file table, sleep/wakeup, kill | full/empty waits, wrapping counters, last close | a FIFO queue; end of file is final; no use after free |
| Buffer cache, `kernel/bio.c` | LRU list, refcounts, sleep locks | `bread`, `bwrite`, `brelse`, `bpin` | log, disk driver | recycling, every buffer pinned | one buffer per block |
| Disk driver, `kernel/virtio_disk.c` | descriptor ring, `used_idx` | `virtio_disk_rw`, `virtio_disk_intr` | device, buffer cache | early and batched completions, ring full | each request completes once, descriptors are not lost |
| Inodes and directories, `kernel/fs.c` | inode table, block bitmap, inodes on disk | `ialloc`, `iget`, `ilock`, `iput`, `itrunc`, `bmap`, `dirlink`, `namex`, `ireclaim` | log, buffer cache | last `iput` racing `iget`, a step that fails half way, orphans after a crash | link counts, entries, inodes and the bitmap agree on every disk a crash can leave |
| File table and calls, `kernel/file.c`, `sysfile.c` | `ftable`, `p->ofile`, `p->cwd` | open, close, read, write, link, unlink, mkdir, mknod, chdir, pipe | inodes, pipes, log | two inodes locked at once, walks between two locked sections | reference counts agree with the holders, no deadlock |
| Locks, `spinlock.c`, `sleeplock.c` | `locked`, owner, `noff`, `intena` | acquire, release | everything | interrupts while a lock is held | exclusion |
| Memory, `kernel/kalloc.c`, `vm.c`, `exec.c`, `sysproc.c` | free list, page tables, `p->sz` | fork's copy, exec, sbrk (eager, lazy), page fault, freeing | process table, pipes | memory that ends half way through a call | no page lost or freed twice, the size covers what is mapped |
| Console, UART, `kernel/console.c`, `uart.c` | input ring, transmitter | read, write, the two interrupts | terminal | interrupt between test and sleep, ring full, editing keys | lines arrive whole and in order, no wakeup lost |
| init, `user/init.c` | - | fork a shell, wait for ever | process table | - | init never exits |
| xv6 shell, `user/sh.c` | the line, the command tree | parse, `runcmd` | init, fork, exec, pipe, wait | calls that fail half way through a command | the tree is the grammar's |
| grep, `user/grep.c` | the buffer and the unfinished line in it | match, the read loop | read, write | lines cut by `read()`, a line that fills the buffer | prints the lines that match |
| xv6 library, other utilities, tests, mkfs | free list of `umalloc.c` | - | system calls | single-process code | mkfs: a consistent first disk |
| c-shell job control, `jobs.c`, `execute.c`, `activites.c`, `main.c` | `jobs[]`, pending messages, `fg_running`, terminal | pipelines, background jobs, activities, resume, ping, SIGCHLD | host kernel | handler between any two steps, stolen statuses, vanished groups, a lost alarm | the table tells the truth, each ended job is announced once, the prompt comes back |
| c-shell lexer and parser, `lexer.c`, `parser.c`, the loop of `run_cmd()` | - | tokenize, validate, cut into segments and stages | main loop | quotes, escapes, what may follow what | accepts the grammar of the README and loses no word |
| c-shell builtins | hop table, previous directory | hop, reveal, peek, locate, prompt | host file system | - | frecency order |
| c-shell inspection, `snooping.c`, `spying.c` | - | snoop (ptrace), spy (`/proc`) | host kernel, SIGCHLD handler | the handler takes the stop snoop waits for | snoop ends with its child |

### Interactions

Every wait in the kernel is `sleep_prepare(chan)` under the lock that protects
the condition, the release of that lock, and `sleep()`; every `wakeup(chan)`
scans the process table one `p->lock` at a time.  The timer interrupt calls
`yield()` (and `mlfq_timer_tick()`) on each hart and `clockintr()` on hart 0.
File system calls bracket their work with `begin_op()`/`end_op()`; the log pins
buffers in the buffer cache, which reads and writes blocks through the disk
driver, which sleeps until its interrupt.  `fileclose()` leads to `pipeclose()`
or to `iput()` in a transaction; `kexit()` closes every file before it becomes
a zombie.  In the c-shell the SIGCHLD handler and the main program share the
job table.

## 2. Modules

| Module | Models | Run by |
|---|---|---|
| `Proc` | process table, context switch, fork/exit/wait/kill, pause and the clock, round-robin scheduler, init | `MCProc` |
| `ProcProofs` | theorems about `Proc`: the switch, families, pids; sleep and wakeup | TLAPS |
| `Mlfq` | the MLFQ build of `scheduler()` with its ticks and boosts | `MCMlfq` |
| `MlfqProofs` | theorems about `Mlfq` | TLAPS |
| `Log` | the redo log, the committer, recovery and crashes, `sys_sync` | `MCLog` |
| `Transactions` | abstract: atomic groups of block updates over crashes | refined by `Log` |
| `LogProofs` | theorems about `Log`, and the refinement | TLAPS |
| `Disk` | the buffer cache over the disk driver and its device, with sleep locks | `MCDisk` |
| `BlockStore` | abstract: an array of blocks, each used by one process at a time | refined by `Disk` |
| `DiskProofs` | theorems about `Disk`, and the refinement | TLAPS |
| `Pipe` | one pipe, its readers and writers, the references to its ends | `MCPipe` |
| `ByteQueue` | abstract: a bounded FIFO queue with two ends | refined by `Pipe` |
| `PipeProofs` | theorems about `Pipe`, and the refinement | TLAPS |
| `Fs` | inodes, directories, path walks, the calls on files, `mkfs`, crashes | `MCFs` |
| `FsProofs` | theorems about `Fs` | TLAPS |
| `Vm` | page allocator, page tables, fork, exec, sbrk, page faults | `Session` |
| `Console` | input ring and its interrupt, transmitter and its interrupt | `Session` |
| `LineQueue` | abstract: finished lines in order, and one being edited | refined by `Console` |
| `ConsoleProofs` | theorems about `Console` by itself, and the refinement | TLAPS |
| `Sh` | the parser of the xv6 shell, and its grammar | `Session` |
| `Grep` | the matcher and the line loop of grep, and what they should give | `Session` |
| `Session` | init, the shell and its programs over `Vm`, `Console`, `Sh` and `Grep` | `MCSession` |
| `Lines` | lexer, syntax check and cutting loop of the c-shell | `Jobs` |
| `Jobs` | job control of the c-shell, its children, signals and terminal | `MCJobs` |
| `JobsProofs` | theorems about `Jobs` | TLAPS |

### Proc

State: the fields of `struct proc`, one per variable, over the slots
`1..NPROC` (0 is the null pointer, so the wait channel of `kwait()` is the slot
itself, `TICKS` is `&ticks`); `pc[p]` is where p's kernel thread is; `np` and
`wi` are `kfork()`'s child and `wakeup()`'s loop index; `lock` and `wait_lock`
have their owners; `phase` and `cproc` say where each hart is between its
scheduler and a process.

A section that takes one `p->lock` and releases it is one step.  A lock held
across steps is state: `lock[p]` from the state change in `yield()`, `sleep()`
or `kexit()` until `scheduler()` releases it on the other stack (`Leave`,
`Sched`, `Back`), or from `Dispatch` to `Enter`; `wait_lock` through fork's
linking (`ForkLink`, `ForkRun`), exit (`ExitReparent`, `ExitWake`,
`ExitZombie`) and wait (`WaitLock`, then one of four outcomes); `tickslock`
through the clock's wakeup loop.  `kkill()` finds by pid, and finds free slots
when called with 0, as the code does.  `Dispatch` takes any RUNNABLE slot: the
table scan of the round-robin build starts where it left off and can meet any,
so every theorem about `Proc` holds for each scheduler's choice.  Taking
`wait_lock` once is modelled as an acquisition that waits; the order of two
waiters is left open, as the spin lock leaves it.

### Mlfq

A process is what the scheduler sees of it.  `scheduler()` visits one slot per
step; `mlfq_timer_tick()` is three steps (load, count, demote and yield)
because it takes no lock and `mlfq_boost()` on another hart writes the same two
fields: the read of `p->queue` in `TickCount` may be the value loaded before or
the one there now.  `harts` is the machine, chosen at the start, so that one run
holds the promises kept on one hart only (`OneHart`) and those kept on any
number.  `ready`, `passed` and `boosted` are history variables, read by no
guard; `boosted` holds the processes a boost has taken out of a lower queue while
a timer tick was in the middle of counting them, until they are chosen again.

### Log and Transactions

A section under `log.lock` is one step, a block written to disk is one step.
The contents of a block are the number of the operation that wrote it last,
which is enough to tell a half-installed transaction from a whole one.  `Crash`
may come between any two steps, in recovery too.  The refinement maps `mem` to
the buffer cache, `dur` to what recovery would restore if the machine stopped
now (`Durable`), and `active` to the processes between `begin_op()` and
`end_op()`.

### Pipe and ByteQueue

`pi->lock` is held through a call, one byte per step, so that `kkill()`, which
does not take it, can come between two bytes.  The counters wrap at `UINT`, a
multiple of `PIPESIZE` as 2^32 is of 512.  `holders` stands for the file
references: `Close` is `fileclose()`, and the last one goes on to `PipeClose`.
The refinement maps the bytes between `nread` and `nwrite` to the queue.

### Disk and BlockStore

`bget()` finds or recycles a buffer in one step under `bcache.lock`; the sleep
lock, the request, its completion and the release are steps of their own.  The
device takes requests in any order.  The interrupt handler holds `vdisk_lock`
and treats one completion per step, because the device goes on working.  A
process that waits has its channel in `chan` from `sleep_prepare()` on, and
goes on when a wakeup has cleared it (`Woken`), or when it is killed and its
channel stays behind (`KilledAwake`).  The users of the cache are the log's
three ways of writing: `log_write()` changes and pins, `install_trans()` writes
a pinned block home and unpins it, `write_log()` and `write_head()` write at
once.  The refinement maps the contents of a block to its valid buffer, or else
to the disk.  A process has one buffer at a time; the code holds two in places
(`write_log()`, `bmap()`), in an order that cannot cycle.

### Fs

Between the system calls and the log.  `inode` and `used` are the inodes and
the bitmap as the running kernel sees them, `saved` as the last commit left
them: `Transactions` is what this module assumes of the log, so `Commit` copies
the one to the other when no call is between `begin_op()` and `end_op()`, and
`Crash` goes back to `saved`.  `ref`, `inum`, `valid` and `lock` are the inode
table.  A thread has a place `t[p].pc` in its call, the inodes it has found
(`cur`, `ip`) and a queue `puts` of inodes it has still to `iput()` before it
goes on, so that the last `iput()` - test, lock, truncate, drop, free - is five
steps which any other call can come between.

A call is taken apart where the code releases a lock: `namex()` is one `Walk`
per path element; `create()` is one step for a new name (the parent stays
locked), and two for a name that exists; `sys_link()` raises the count
(`LinkInc`), walks again, enters the name (`LinkNew`) or takes the count back
(`LinkBad`); `sys_unlink()` holds the parent while it waits for the child
(`Unlink`, `UnlinkChild`, `Unlinked`).  `balloc()`, `bmap()`, `dirlink()` and
`ialloc()` compute in one step, with their failures: `Grow` and `DirLink` return
what has been changed when there is no block left.  `Reclaim` is `ireclaim()`
of the next boot.  Contents and offsets are left out, as is the bitmap's own
lock (its sections are merged with the inode's).  `Mkfs` builds the first disk
as `mkfs.c` does; a disk a behaviour may start from is any file system.

### Session: Vm, Console, Sh, Grep

`Vm` counts pages.  Each call that takes several pages takes one a step, so
memory may run out after any of them, and other processes run in between:
`CopyPage` is a turn of `uvmcopy()`, `SbrkPage` and `UserPage` a turn of
`uvmalloc()`, `ExecArg` an argument of `sys_exec()`.  What the code gives back
on each error path is computed from what it unmaps (`Unmap`, `Dealloc`,
`FreePagetable`), not from what was taken; a page `freewalk()` or `mappages()`
would panic on sets `panicked`.

`Console` has one step per stretch under `cons.lock` or between two sleeps.  A
kill may find a process still before its `sleep()`, behind a reader's test of
`killed()`: it is missed and sleeps on until a wakeup (`Kill`).  A reader takes a
run of characters in one `ReadChars`, which ends where `consoleread()` ends
(line, ^D, buffer, empty ring).  A writer takes `tx_lock`, sends, sleeps for the
interrupt, and releases it after each batch.  Every interrupt of the UART also
does `uartintr()`'s half for the transmitter (`AfterTx`).  The refinement maps
`[r, w)` of the ring to the finished lines and `[w, e)` to the one being edited.
`ConSpec` is the console by itself, with programs that make any calls at all;
the indices are numbers there, which the code keeps modulo 2^32, a multiple of
`INPUT_BUF_SIZE`.

`Sh` translates the recursive descent of `parsecmd()` as functions on tokens;
a word is its position until `nulterminate()` reaches it.  `Trees` is the
grammar, written without a parser.  `Grep` translates `match()` and the read
loop; `Means` and `Fitting` say what they should give.  Both are tried on all
short inputs once, in the first state (`Once`).

`Session` puts them together.  A process has a place `pc` in its program; a
step of user code may begin a call of `Vm` or `Console`, and the process goes
on when the call has ended (`Quiet`).  `init` and `sh` are their own source;
`runcmd()` is one action per kind of command and per place it comes back to
after a fork.  Other programs are lists of calls.  `Fork`, `Exit` and `Wait`
take effect at once here: `Proc` has them in detail.

### Jobs and Lines

`main` is where the shell is in `main()`, `run_cmd()`, `run_foreground()`,
`run_background()`, `resume` or `snoop`, with the locals of that function;
`proc`, `sigchld` and `tty` are the host kernel.  A step of the shell is a
stretch with at most one system call that others can see, and `Handler` - the
whole of `reap_finished()` - comes between any two while SIGCHLD is pending.
`waitpid()` takes a zombie, reports a stop once, or fails when nothing is left
to wait for; `setpgid()` into a group that is gone leaves the child in the group
of the shell.  The gate pipe of `run_background()` is `gated`.  `ResumeCheck`
and `ResumeWait` are two steps because SIGALRM can come between them.  `said`
counts messages printed and lost; it, and `resumed` in a job, are history.

`Lines` translates three automata as folds over a line: `maketoken()`,
`parsing()` and the loop of `run_cmd()`.  `Jobs` uses them on the lines that are
typed; `LexRight` and `ParseRight` compare them with definitions that need no
automaton.

## 3. Runs

| Run | Instance | What it shows |
|---|---|---|
| `proc_switch` | 3 slots, 2 harts, 3 pids | stacks are exclusive, `sched()`'s panics unreachable, parents live, through fork/exit/wait/kill on two harts |
| `proc_reuse` | 3 slots, 1 hart, 4 pids | with every call, kill(0) included, and a slot used twice: pids unique, no wakeup lost, zombies stay dead |
| `mlfq` | 3 processes on 1 hart and 2 on 2 harts; 2 queues, slices 1 and 2 | on one hart slices are kept, queues are round robin, nobody starves under fairness; on both machines queue indices are valid and a scan keeps priority, although ticks race boosts |
| `mlfq_boost` | 2 processes, 2 harts; the code's 4 queues, slices 1, 4, 8, 16 | violation: a tick undoes a boost |
| `log_crash` | 3 processes, 3 blocks, log of 4, 2 blocks per operation, 3 operations, 2 crashes | `Log` implements `Transactions`; reservation, eviction, wakeups and `sys_sync` |
| `log_live` | 3 processes, 1 block, log of 3 | every wait for the log ends |
| `disk` | 2 processes, 3 blocks, 2 buffers, 1 pinned, 4 or 7 descriptors | `Disk` implements `BlockStore`; buffers and their counts, descriptors, wakeups and interrupts |
| `pipe` | a parent and two children, 2-byte ring, counters mod 4 | `Pipe` implements `ByteQueue`; wakeups, lifetime, end of file |
| `fs` | 2 processes, 3 of 10 calls, 4 inodes, 5 blocks, 1 crash, 2 disks | what a crash leaves is a file system; inode references agree with their holders and orphans are freed; no panic and no deadlock |
| `session` | 5 slots, pages of 2 units, 2-character batches, a ring of 3, 34 scripts of keys, some with up to 29 sizes of memory | no page is lost on any path of fork, exec, sbrk, fault, pipe, exit; `Console` implements `LineQueue`; console wakeups; the parser is the grammar; grep is its definition |
| `cshell` | 3 children, 4 lines of 17, 1 message in the queue | the job table, the announcements, the terminal and the prompt, with the handler, Ctrl-Z, SIGTTIN and the alarm at any point; the lexer and parser |
| `cshell_wait` | the same, 2 lines | violation: a foreground pipeline is not waited for |

### Why the bounds are enough

*Proc.* Three slots are init, a parent and a child, so orphans, a second child
and an exit racing a fork occur; two harts are what the lock hand-over needs,
since the properties speak of pairs.  Four pids let a slot be used again.
Every property of the two runs is also proved for every size.

*Mlfq.* Two queues are first and last; three processes on one hart make round
robin more than an alternation.  Slices 1 and 2 put the test at its boundary in
both queues.  Two harts with two processes (the constraint `Small` keeps the
third slot unused there) have both races: tick against boost, and scan against
scan.  A boost is due one clock tick after the last; the clock and the timers
of the harts are not in step here, so several timer ticks fit in between.
`mlfq_boost` has the four queues and the slices of the code: with two queues, a
boost that is lost could not be told from one that is followed by a demotion.

*Log.* Three operations over a log of four with two blocks each: two fit, the
third waits for space or for a commit.  Two crashes let recovery be interrupted
and run again, or a later commit fail after a recovery.  `log_live` needs no
contents and therefore one block.

*Disk.* Two buffers for three blocks force recycling while one block is pinned
and another is being read.  With 4 descriptors the second request waits, and
gives back the one it took; with 7 two requests are in the device at once, and
one completes while the handler treats the other.  `Rings` holds both cases; the
code's is the set of all descriptors.  `bget()`'s panic occurs (two processes
and a pinned block for two buffers) and stops the model.

*Pipe.* Transfers of up to 3 bytes (a copy may fail after any of them) through a
2-byte ring block on both sides and wrap the counters; 2 bytes of contents tell orders apart.

*Fs.* The hazards need two calls that meet in one directory or on one inode,
and a third that made the situation: `MaxOps` is 3 (`Close` and `Read` are not
counted).  The disks have a root, a directory and a file in it, so a directory
can be removed under a walk, a creation or a link; the second disk has an
orphan, as a crash of an earlier session leaves it.  Four inodes and five blocks
run out within two calls; three entries fill a directory's first block, one
direct and one indirect block make the third write of a file fail, and a third
link is one too many (`NLINK_MAX` 2).  A crash may come anywhere.
`mknod` is `mkdir`'s way through `create()` with a file's inode and is not among
the ten calls.

*Session.* A scene is what is typed and how many page frames there are.  The
frames of the memory scenes are swept from too few to start the shell up to
enough, so every allocation of every call is the one that fails, in some scene;
one `sbrk()` takes twelve pages, more than the `exec()` before it has given back,
so that it fails behind its first page.  `MAXLINE` 9 is one short of the longest
line with its newline, which `gets()` leaves for the next call.
Five slots hold init, the shell, its child and the two ends of a pipeline, and
`z | z | z` runs out of them.  The editing scenes try all pairs of keys over a
ring of three, typed ahead of the shell; a kill finds a reader asleep and a
writer waiting.  The parser is tried on all 7-token sequences of up to length 5,
with `MAXARGS` 3; grep on all patterns up to 4 over `. * ^ $` and a letter, and
on all cuts of texts up to 5 into reads of 1 to 3 with a buffer of 4.

*Jobs.* Three children are a pipeline of two and a background job, or three jobs
in one line; a queue of one message overflows with two.  Four lines let a job be
started, stopped, resumed and resumed again or pinged.

`MaxPid`, `MaxOps`, `MaxCrashes`, `MaxPids` and `MaxLines` bound counters in
guards.  Deadlock is checked in the `proc`, `mlfq`, `log`, `disk` and `fs` runs
(in `fs` two inodes are locked at once, and `Done` is the only way to stop).  It
is not in `pipe`, where the users may all be done or wait for each other,
nor in `session` and `cshell`, where the user may have nothing more to type.

## 4. Fairness

`mlfq` assumes that a hart keeps executing its scheduler loop, that a
running process is interrupted by its timer (`timerinit()` arms it, `clockintr()`
arms it again on every hart), and that hart 0's clock ticks.  No process is
assumed to sleep, exit or yield by itself.

`log_live` assumes that recovery finishes, that a kernel thread that can run
runs, and that an operation that has begun ends: system calls do not wait for
users between `begin_op()` and `end_op()`.  Starting an operation or a sync is
not assumed, nor is being let in: `begin_op()` can be overtaken, but the number
of operations is finite in the run, and so is the overtaking.

`cshell` assumes that the shell runs when it can, that a pending SIGCHLD is
delivered, and that a child which keeps running ends (`PromptAgain` would say
nothing of a program that runs for ever).  Nobody has to type, press a key,
read the terminal, continue a stopped child, or let an alarm fire.

## 5. Proofs

Everything the runs of `Proc`, `Mlfq`, `Log`, `Disk`, `Pipe` and `Fs` check,
except liveness, is proved for every value of the constants; so are the two
properties of `Console` in `session`, and what `cshell` checks of the job table.
An invariant that a run checks is `Spec => []P` here, an action property
`Spec => P`, a refinement `Spec => Abstract!Spec`.  Nearly none of the invariants
is inductive; each module has an `IInv` that is, the theorem `Inductive`
(`SleepersCounted`, `ConsoleInductive`, `Invariant`) that says so, and a lemma
for each action, or for the steps that leave a part of it alone.  The temporal
theorems combine them with `PTL`.

**ProcProofs** - `TypeCorrect`, `StacksExclusive`, `SchedNeverPanics`,
`ParentsLive`, `PidsUnique`.  `IInv` is `TypeOK` with `SwitchInv` (which locks a
hart holds in each phase of the switch, and that a RUNNING process and its hart
name each other), `ForkInv` (the child a fork is linking is USED and belongs to
one parent's `np`; free, USED and ZOMBIE slots have their thread at its start or
its end), `WaitLockInv` (the owner of `wait_lock` is running at a point that
holds it, and whoever is at such a point owns it), `FamilyInv` (a process past
`reparent()` has no children, every parent is live, and a child is linked before
`wait_lock` is released), and `PidInv` (pids are below `nextpid`).

Over it, in the same module, `SleepersWoken` (`NoLostWakeup`) and `ZombiesStay`
(`ZombieIsFinal`).  `SleepInv` says what each process that waits
or pauses sleeps on (`ChanInv`), that no child of a waiting parent has already
been past it in the `wakeup()` of its `kexit()`, nor is a zombie, unless
`reparent()` has just given it to `init` and has not reached `init` in its
`wakeup()` (`WaitInv`), and that a pausing process has ticks left or is still
ahead of the clock's `wakeup()` (`PauseInv`).

**PipeProofs** - `PipeIsQueue` (`FifoQueue`, the refinement of `ByteQueue`),
`WakeupNotLost`, `PageKept`, `EofMeansEnd`, `TypeCorrect`.  The invariant knows
who is inside `pi->lock`, that whoever is in a call holds the end it uses, that an
end is open exactly until the last holder has gone through `pipeclose()`, and
that the page is there while an end is open.  The counters are at most
`PIPESIZE` apart modulo `UINT`; lemmas on `%` turn that into positions of the
ring, on which the refinement is an `Append` or a `Tail`.

**LogProofs** - `CrashesAreAtomic` (`CrashAtomic`, the refinement of
`Transactions`), `ReservationHolds`, `PinsProtect`, `SleepersWoken`,
`SyncSaves`, `TypeCorrect`.  `IInv` counts the operations in progress
(`CountInv`, by cardinality), has one committer at a time and only when there are
none (`CommitInv`), says what the header, the log blocks and the home blocks hold
in each phase of a commit and of a recovery (`HeadInv`, `CopyInv`, `RecoverInv`),
that the pinned blocks are those of the log not yet home (`PinInv`), that a quiet
log is empty (`UnsavedInv`), and what a `sys_sync()` is still owed (`SyncInv`).
`log_write()`'s panic on a full log (section 6) is shown to meet only blocks that
are in the log already.

**MlfqProofs** - `TypeCorrect`, `SlicesHold` (`SliceKept`), `TurnsCome`
(`RoundRobin`), `PriorityKept` (`ScanPriority`).  `HartInv`: who runs where.
`TicksInv` holds on any number of harts: however ticks and boosts race, no count
passes the longest slice, so the demotion stays within the queues.  `ScanInv`:
what was ready when a scan began is still ahead of it.  On one hart only, what a
tick loaded is still there (`Loaded`), slices hold (`SlicesKept`), and `Waits`
bounds the wait: the choices a process has seen and its distance from
`mlfq_last` in the circle are together at most `NPROC`.

**DiskProofs** - `CacheCoherent` (`BlocksCoherent`, the refinement of
`BlockStore`), `DescriptorsOwned`, `SleepersWoken`, `TypeCorrect`.  `IInv` says
whose each buffer, descriptor, request and completion is (`UserInv`,
`OwnerInv`, `DescInv`, `ReqInv`), that `refcnt` is the number of users and the
pin (`Counted`), that completions have an interrupt pending (`IrqInv`), that a
sleeper has an owner, a full ring or an outstanding request to wait for
(`SleepInv`), and where a valid buffer may differ from the disk: only while it is
pinned or its user has yet to write it (`DataInv`).

**FsProofs** - `CrashLeavesDisk` (`SavedConsistent`), `TableSettles` (`Settled`),
`PanicFree` (`NoPanic`), `TypesHold`.  The state between two commits is no file
system: a call has raised a count whose entry is still to come, or removed an
entry whose count is still to follow.  `IInv` says what each call is owed.
`Held` is the table of references (a thread has its directory, its file, the two
inodes of its call and up to two puts), and `refcnt` counts them (`RefInv`);
`Linking` is the table of links, an entry of a live directory or a call that has
counted one (`LinkInv`), where a directory whose entry `unlink()` has removed is
not live any more (`Dying`).  A step changes one or two places of such a table,
and `OneChange` and the lemmas built on it say what that does to every count.  `DirInv`
and `EntryInv`: every live directory but the root has one entry, in the directory
its `..` names, and no entry names an inode without links; `LockInv`: who holds
which lock; `Knows` and `HeldInv`: what a call has tested is still so when it
uses it; `PutInv` and `OrphanInv`: an inode without links has a holder who will
free it.  When no operation is active these are `Consistent`, so a commit saves a
file system (`CommitStep`), and the crash that brings it back starts a state in
which they hold again (`BootedInv`).

**ConsoleProofs** - for `ConSpec`: `ConsoleIsLineQueue` (`LinesWhole`, the
refinement of `LineQueue`), `SleepersWoken`, `ConsoleTyped`.  Here the type
invariant (with `r <= w <= e <= r + INPUT_BUF_SIZE`) and `NoLostWakeup` are
inductive together.  Parts of the ring are sequences (`PartJoin`, `PartDrop`,
`PartFront`, `PartStore`, `PartGrow`): a key is an `Append` to the last part, a
read takes the front off the first.  That `Session` takes only steps of `ConSpec`
is not proved (`Session` uses recursive functions); the run checks the two
properties there as well.

**JobsProofs** - `TableTrue` (`PlainJobsTrue`), `AnnouncedOnce` (`Announced`),
`TypesHold`.  Between two prompts the table lies: the handler may have reaped a
child that is not registered yet, or that `run_foreground()` or `resume` still
waits for.  `IInv` says how far.  A listed job of one process lists just that
process, or the shell is about to find it gone (`OnlyMember`); its process is
alive, or it is the job being waited for, not stopped, or being resumed with none
left to wait for (`AliveListed`, `ListedAlive`, `LeftCounts`); the leader of a
background job is listed until it is reaped, is told, queued or lost when it is
(`StillListed`, `ThenTold`), and never twice (`ToldOnce`).  These rest on who
leads which group (`Leaders`, `Pipeline`: the gate keeps the leader of a
background pipeline until it is registered), on what the locals mean (`Locals`,
`Awaited`), and on the terminal, the flag and the queue being the foreground's
(`Signals`).  `ReapKeeps` is the handler between any two steps, `WaitKeeps` the
shell waiting, `MovedKeeps` what everybody else does.

Assumed are only the named `ASSUME`s of the modules, which TLC evaluates in
every run.  They say that sizes are positive (and `UINT` a multiple of
`PIPESIZE`), that an operation's blocks fit the log, that a request's three
descriptors fit the ring, that slices do not shrink towards the last queue (1,
4, 8, 16), that the inode table has room for every inode (section 7), that the
disks a behaviour of `Fs` may start from are file systems (`ImagesAssumption`:
`mkfs` makes one, and `CrashLeavesDisk` says a crash leaves one), that a line the
c-shell accepts is cut into pipelines whose stages have a command
(`TypedAssumption`: `CutRight` tries it on every short line; it is a fact about
folds, so not provable here), and that there are finitely many processes, names
and harts and at least one value for a byte and for a block.

Only model-checked: the liveness properties (`NoStarvation`, `WaitEnds`,
`PromptAgain`), which this prover does not handle; the two violations;
`LinesRight` of `Jobs`; `MemorySane`, `CommandRight` and `GrepRight` of
`Session`.  `Sh` and `Grep` are recursive functions of syntax, out of the
prover's reach, and `Session` uses them.  The `TypeOK` of `Log` and `Pipe` and
`ConTypeOK`, which no run lists, are there for their proofs.

## 6. Where code and documents disagree

Two disagreements have a run of their own.

* `mlfq_boost`: `mlfq_timer_tick()` (`kernel/proc.c:61`) writes `p->queue`
  without `p->lock` while another hart's `mlfq_boost()` resets it.  A process in
  queue 1 is counted its fourth tick, the boost puts it into queue 0, and the
  tick stores 2, one more than the queue it had read.  A tick after the boost
  would cost it the slice of queue 0 at most, and `BoostSticks` allows for that
  (`queue[p] <= 1`); as it is the process goes on below the queue it was boosted
  from, until the next boost.  README.md:245: "Every 48 ticks, all processes are
  promoted back to Queue 0."
* `cshell_wait`: when the first child of a foreground pipeline has ended and
  the handler has reaped it before the next one calls `setpgid()`
  (`execute.c:305`), that call fails, the child stays in the shell's own group,
  and `waitpid(-pgid)` does not wait for it: the prompt returns, and the job
  leaves the table, while it runs.  README.md:160: command groups are executed
  in sequence.

Read off the source, in the kernel: xv6/report.md:14 calls FIFO
non-preemptive, but `usertrap()` yields on every tick and the scan then takes
the smallest pid; report.md:16 gives slices 1, 2, 4, 8 where the code has 1, 4,
8, 16; README.md:241 promises strict priority, which holds only against
processes that were ready when the scan began (`ScanPriority`); README.md:244
puts a preempted process at the tail of its queue, where the code scans slots
in a circle from the last one chosen (`RoundRobin` is what that gives).
`log_write()` (`kernel/log.c:229`) panics on a full log before it looks whether
the block is in it already, though such a write needs no space and the
operation keeps to `MAXOPBLOCKS` (`kernel/param.h:9`).

In the c-shell:

* A later stage of a background pipeline is not held at the gate
  (`execute.c:375`): it may print before "[n] pid", and if it ends before
  `register_job()` it is registered after its death and the job stays "Running".
  `PlainJobsTrue` therefore speaks of jobs of one process, `Announced` of the
  first process of a job.
* `resume fg --timeout` that ends before its timeout never clears `active`
  (`execute.c:553-563`), and an alarm between the test of `resume_timed_out` and
  `waitpid()` (`execute.c:538`) is lost.  `resume fg` does not set `fg_running`,
  and leaves a job active when the handler has taken one of its statuses.
* A background child stopped by SIGTTIN or by `ping 19` is still listed as
  Running: the handler does not ask for stops.
* `snoop` (`snooping.c:428`) waits for ever when the handler has taken the stop
  of its child, and reads an unset status when it has taken its end;
  `PromptAgain` leaves it out.
* `hop -` without a previous directory goes on with the next argument
  (`hop.c:78-81`), where README.md:142 stops at the first invalid target; the
  redirections of a middle stage are ignored; `exit` hangs up nobody, unlike
  Ctrl-D; a fork that fails in a pipeline is not noticed; the job table
  overflows after `maxjobs` commands (`jobs.c:58`).

Behaviour the models contain and the properties allow: a
writer killed between two bytes returns -1 without waking the readers
(`kernel/pipe.c:84`); `kkill(0)` marks a free slot, whose next process is born
killed (`kernel/proc.c:650`); a kill between the test of `killed` and the sleep
is noticed at the next wakeup only; `bget()` panics when every buffer is in use.
The xv6 shell takes `a & b` for a syntax error, uses what `malloc()` returned
without a test (`user/sh.c:206`; the child dies of it), and lets the first of
several redirections of one descriptor win; grep drops an unterminated last
line and everything behind a line that does not fit its buffer (`Fitting`).

## 7. Assumptions

A disk write of one block is atomic, and blocks written before a crash stay.
An operation writes at most `MAXOPBLOCKS` different blocks.  A block that is
not pinned may be dropped from the cache and read again (`EvictionSafe` says
this is harmless).  `init` runs `user/init.c`.

`Fs` assumes what `Transactions` promises, and an inode table with room for
every inode of the disk (`NINODE >= NINODES`): the code has 50 entries for 200
inodes and panics with "iget: no inodes" when they are all in use.  `Session`
assumes that a file opens or does not and is read or not; what the programs
behind a pipe do with it is in `Pipe`.  `Jobs` assumes POSIX semantics of
`waitpid()`, `setpgid()`, `tcsetpgrp()` and stopped children, one SIGCHLD
pending at a time, and that signals are delivered between two system calls.

## 8. Plan

Done, in order: the process table, MLFQ, the log, the pipe, the disk; then the
file system, the session (memory, console, shell), the c-shell; then the proofs
of section 5.
Left:

1. Proofs: the page accounting of `Vm` by itself.
2. The FIFO scheduler's choice (a scan for the smallest pid that is then taken
   in a second step), the free list of `umalloc.c`, and the nesting of
   `push_off()`/`pop_off()`.

### Not modelled

* Boot (`start.c`, `main.c`), `trampoline.S`, `swtch.S`, `kernelvec.S`,
  `plic.c`: hardware interface without state of its own.
* `printk.c`, `string.c`, `user/printf.c`, most of `ulib.c`: formatting and byte
  loops.  `syscall.c` is a table; argument fetching is part of each call.
* The register set-up of `virtio_disk_init()`, `uartinit()`, `kvmmake()`.
* `usertests.c` and the other test programs, and the utilities except grep:
  clients of the calls above.
* `hop`, `reveal`, `peek`, `locate` and `spy` of the c-shell: they print what the
  host's file system and `/proc` hold.  `snoop`'s statistics and `-p`.
