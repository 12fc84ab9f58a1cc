-------------------------------- MODULE Proc --------------------------------
(***************************************************************************)
(* The process table of the xv6 kernel (kernel/proc.c) with the parts of   *)
(* kernel/trap.c and kernel/sysproc.c that drive it: fork, exit, wait,     *)
(* kill, sleeping and waking, timer preemption and the switch between a    *)
(* CPU's scheduler and a process's kernel stack.                           *)
(*                                                                         *)
(* Atomicity.  A critical section that takes one p->lock, touches only     *)
(* what that lock protects and releases it is one step, enabled while the  *)
(* lock is free.  A lock that is held ACROSS steps is state: lock[p] while *)
(* a CPU is between the scheduler and p's stack, wait_lock through fork's  *)
(* linking, exit and wait, tickslock (waking # 0) through clockintr's      *)
(* wakeup loop.  Interrupts are off while a CPU holds a spinlock, so the   *)
(* timer can take the CPU away (Yield) only when it holds none.            *)
(***************************************************************************)
EXTENDS Naturals, FiniteSets

CONSTANTS NPROC,     \* size of the process table
          CPU,       \* the harts
          None,      \* owner of a free lock
          MaxPid,    \* bound: pids are handed out up to this one
          KillPid,   \* bound: the arguments processes pass to kill()
          UserCalls  \* bound: the system calls user programs make

ASSUME ConstantsAssumption ==
  /\ NPROC \in Nat \ {0}
  /\ MaxPid \in Nat \ {0}
  /\ None \notin CPU
  /\ KillPid \subseteq 0..MaxPid
  /\ UserCalls \subseteq {"fork", "wait", "exit", "kill", "pause"}

Slot     == 1..NPROC
InitProc == 1             \* userinit() allocates the first slot
TICKS    == NPROC + 1     \* the wait channel &ticks; 0 is "no channel"

VARIABLES
  state,     \* p->state
  pid,       \* p->pid
  parent,    \* p->parent, 0 when there is none
  chan,      \* p->chan, 0, a slot (wait) or TICKS (pause)
  killed,    \* the slots with p->killed set
  pc,        \* where p's kernel thread is when it next runs
  np,        \* kfork's local np, 0 when not linking a child
  wi,        \* the loop index of wakeup(), 0 outside its loop
  left,      \* pause: ticks still to come, n - (ticks - ticks0)
  nextpid,   \* next pid of allocpid()
  lock,      \* owner of p->lock
  wait_lock, \* owner of wait_lock
  waking,    \* clockintr: next slot of wakeup(&ticks), 0 when tickslock is free
  phase,     \* where each CPU is between its scheduler and a process
  cproc,     \* c->proc
  kernel     \* "up", or "panic" after panic(): nothing is modelled after it

procVars == <<state, pid, parent, chan, killed>>
thrVars  == <<pc, np, wi, left>>
cpuVars  == <<lock, phase, cproc>>
vars == <<state, pid, parent, chan, killed, pc, np, wi, left, lock, phase, cproc,
          nextpid, wait_lock, waking, kernel>>

States == {"UNUSED", "USED", "SLEEPING", "RUNNABLE", "RUNNING", "ZOMBIE"}
Phases == {"scheduler",  \* in the scheduler loop, no process
           "entered",    \* swtch()ed to the process, p->lock still held
           "run",        \* running the process
           "leaving",    \* in sched(), p->lock held, about to swtch()
           "back"}       \* back in the scheduler, p->lock still held
WaitLockPCs == {"fork_run", "exit_init", "exit_parent", "exit_zombie", "wait_scan"}
PCs == WaitLockPCs \union
       {"user", "fork", "fork_link", "exit", "wait", "wait_sleep",
        "pause", "pause_sleep", "kill", "ret"}

(* Process p executes on CPU c, outside the switch. *)
Running(c, p) == phase[c] = "run" /\ cproc[c] = p /\ kernel = "up"

(* Mutant of WakeOne: wakeup() without the SLEEPING test. *)
WakeOneAnyState(q, ch) ==
  /\ lock[q] = None
  /\ chan'  = [chan EXCEPT ![q] = IF @ = ch THEN 0 ELSE @]
  /\ state' = [state EXCEPT ![q] = IF chan[q] = ch THEN "RUNNABLE" ELSE @]

(* wakeup(ch)'s body for one slot q, p->lock taken and released. *)
WakeOne(q, ch) ==
  /\ lock[q] = None
  /\ chan'  = [chan EXCEPT ![q] = IF @ = ch THEN 0 ELSE @]
  /\ state' = [state EXCEPT ![q] =
                 IF chan[q] = ch /\ @ = "SLEEPING" THEN "RUNNABLE" ELSE @]

Children(p)   == {q \in Slot : parent[q] = p}
ZombieKids(p) == {q \in Children(p) : state[q] = "ZOMBIE"}

-----------------------------------------------------------------------------
(* procinit() and userinit(): one process, init, ready to run forkret.     *)
Init ==
  /\ state    = [p \in Slot |-> IF p = InitProc THEN "RUNNABLE" ELSE "UNUSED"]
  /\ pid      = [p \in Slot |-> IF p = InitProc THEN 1 ELSE 0]
  /\ parent   = [p \in Slot |-> 0]
  /\ chan     = [p \in Slot |-> 0]
  /\ killed   = {}
  /\ pc       = [p \in Slot |-> "user"]
  /\ np       = [p \in Slot |-> 0]
  /\ wi       = [p \in Slot |-> 0]
  /\ left     = [p \in Slot |-> 0]
  /\ nextpid  = 2
  /\ lock     = [p \in Slot |-> None]
  /\ wait_lock = None
  /\ waking   = 0
  /\ phase    = [c \in CPU |-> "scheduler"]
  /\ cproc    = [c \in CPU |-> 0]
  /\ kernel   = "up"

-----------------------------------------------------------------------------
(* The switch between a CPU's scheduler and a process.                     *)

(* scheduler(): takes a RUNNABLE process, keeps its lock and swtch()es to  *)
(* it.  Which RUNNABLE process it meets is left open: the table scan of    *)
(* the round-robin build can meet any of them.                             *)
Dispatch(c, p) ==
  /\ phase[c] = "scheduler" /\ kernel = "up"
  /\ lock[p] = None /\ state[p] = "RUNNABLE"
  /\ lock'  = [lock EXCEPT ![p] = c]
  /\ state' = [state EXCEPT ![p] = "RUNNING"]
  /\ cproc' = [cproc EXCEPT ![c] = p]
  /\ phase' = [phase EXCEPT ![c] = "entered"]
  /\ UNCHANGED thrVars
  /\ UNCHANGED <<pid, parent, chan, killed, nextpid, wait_lock, waking, kernel>>

(* The process side of swtch(): forkret(), or sched() returning into       *)
(* yield() or sleep(), releases p->lock.                                   *)
Enter(c) ==
  /\ phase[c] = "entered" /\ kernel = "up"
  /\ lock'  = [lock EXCEPT ![cproc[c]] = None]
  /\ phase' = [phase EXCEPT ![c] = "run"]
  /\ UNCHANGED procVars /\ UNCHANGED thrVars
  /\ UNCHANGED <<cproc, nextpid, wait_lock, waking, kernel>>

(* sched(): swtch() to the scheduler's context, p->lock held throughout.   *)
Sched(c) ==
  /\ phase[c] = "leaving" /\ kernel = "up"
  /\ phase' = [phase EXCEPT ![c] = "back"]
  /\ UNCHANGED procVars /\ UNCHANGED thrVars
  /\ UNCHANGED <<lock, cproc, nextpid, wait_lock, waking, kernel>>

(* scheduler() after swtch() returns: c->proc = 0 and release(&p->lock).   *)
Back(c) ==
  /\ phase[c] = "back" /\ kernel = "up"
  /\ lock'  = [lock EXCEPT ![cproc[c]] = None]
  /\ cproc' = [cproc EXCEPT ![c] = 0]
  /\ phase' = [phase EXCEPT ![c] = "scheduler"]
  /\ UNCHANGED procVars /\ UNCHANGED thrVars
  /\ UNCHANGED <<nextpid, wait_lock, waking, kernel>>

(* acquire(&p->lock) before sched(): the scheduler will release it.        *)
DropLock(c, p) == lock[p] = None /\ UNCHANGED lock     \* mutant: released at once
KeepLock(c, p) == lock[p] = None /\ lock' = [lock EXCEPT ![p] = c]

(* p, with its lock taken, enters sched() in state s. *)
Leave(c, p, s) ==
  /\ KeepLock(c, p)
  /\ state' = [state EXCEPT ![p] = s]
  /\ phase' = [phase EXCEPT ![c] = "leaving"]
  /\ UNCHANGED cproc

(* yield(), from usertrap() or kerneltrap() on a timer interrupt.          *)
Yield(c, p) ==
  /\ Running(c, p) /\ wait_lock # c
  /\ Leave(c, p, "RUNNABLE")
  /\ UNCHANGED thrVars
  /\ UNCHANGED <<pid, parent, chan, killed, nextpid, wait_lock, waking, kernel>>

(* sleep()'s test of p->chan. *)
AlwaysSleep(p) == TRUE                                 \* mutant: no test
MustSleep(p)   == chan[p] # 0

(* sleep(): sleeps only if no wakeup() has cleared p->chan since           *)
(* sleep_prepare(); resumes, or goes on, at the retry loop of its caller.  *)
Sleep(c, p) ==
  /\ Running(c, p) /\ pc[p] \in {"wait_sleep", "pause_sleep"}
  /\ pc' = [pc EXCEPT ![p] = IF @ = "wait_sleep" THEN "wait" ELSE "pause"]
  /\ \/ MustSleep(p) /\ Leave(c, p, "SLEEPING")
     \/ ~MustSleep(p) /\ lock[p] = None /\ UNCHANGED state /\ UNCHANGED cpuVars
  /\ UNCHANGED <<pid, parent, chan, killed, np, wi, left, nextpid, wait_lock,
                 waking, kernel>>

-----------------------------------------------------------------------------
(* Traps.                                                                  *)

(* What the program in p may ask for: init runs user/init.c, which only    *)
(* forks and waits; every other program may call anything.                 *)
Calls(p) == IF p = InitProc THEN {"fork", "wait"} ELSE UserCalls

Goto(p, l) == pc' = [pc EXCEPT ![p] = l]

(* usertrap() on a system call: p was not killed when it trapped.  pause(n) *)
(* reads ticks0, so n = 1 tick is still to come.                           *)
Syscall(c, p) ==
  /\ Running(c, p) /\ pc[p] = "user" /\ lock[p] = None /\ p \notin killed
  /\ \E call \in Calls(p) :
       /\ call = "pause" => waking = 0
       /\ Goto(p, call)
       /\ left' = [left EXCEPT ![p] = IF call = "pause" THEN 1 ELSE 0]
  /\ UNCHANGED procVars /\ UNCHANGED cpuVars
  /\ UNCHANGED <<np, wi, nextpid, wait_lock, waking, kernel>>

(* usertrap() finds p killed, on the way in or on the way out: kexit(-1).  *)
TrapKilled(c, p) ==
  /\ Running(c, p) /\ pc[p] \in {"user", "ret"} /\ lock[p] = None /\ p \in killed
  /\ Goto(p, "exit")
  /\ UNCHANGED procVars /\ UNCHANGED cpuVars
  /\ UNCHANGED <<np, wi, left, nextpid, wait_lock, waking, kernel>>

(* usertrap() returns to user space. *)
TrapReturn(c, p) ==
  /\ Running(c, p) /\ pc[p] = "ret" /\ lock[p] = None /\ p \notin killed
  /\ Goto(p, "user")
  /\ UNCHANGED procVars /\ UNCHANGED cpuVars
  /\ UNCHANGED <<np, wi, left, nextpid, wait_lock, waking, kernel>>

(* Where a failed call leaves p: init.c exits when fork() or wait() fails. *)
Failed(p) == IF p = InitProc THEN "exit" ELSE "ret"

-----------------------------------------------------------------------------
(* fork.                                                                   *)

(* freeproc(q), the fields this module keeps. *)
FreeProc(q) ==
  /\ state'  = [state EXCEPT ![q] = "UNUSED"]
  /\ pid'    = [pid EXCEPT ![q] = 0]
  /\ chan'   = [chan EXCEPT ![q] = 0]
  /\ killed' = killed \ {q}

(* allocpid() *)
SamePid == nextpid <= MaxPid /\ UNCHANGED nextpid      \* mutant: never advanced
TakePid == nextpid <= MaxPid /\ nextpid' = nextpid + 1

(* kfork() up to release(&np->lock): allocproc() takes an UNUSED slot and  *)
(* a pid; p->killed keeps the value it had in the unused slot.  The child  *)
(* will start in forkret and return to user space.                         *)
ForkAlloc(c, p, q) ==
  /\ Running(c, p) /\ pc[p] = "fork"
  /\ state[q] = "UNUSED" /\ lock[q] = None /\ TakePid
  /\ pid'   = [pid EXCEPT ![q] = nextpid]
  /\ state' = [state EXCEPT ![q] = "USED"]
  /\ np'    = [np EXCEPT ![p] = q]
  /\ pc'    = [pc EXCEPT ![p] = "fork_link", ![q] = "user"]
  /\ UNCHANGED cpuVars
  /\ UNCHANGED <<parent, chan, killed, wi, left, wait_lock, waking, kernel>>

(* allocproc() or uvmcopy() runs out of memory: the pid is gone, the slot  *)
(* is freed again.                                                         *)
ForkNoMemory(c, p, q) ==
  /\ Running(c, p) /\ pc[p] = "fork"
  /\ state[q] = "UNUSED" /\ lock[q] = None /\ TakePid
  /\ FreeProc(q)
  /\ Goto(p, Failed(p))
  /\ UNCHANGED cpuVars
  /\ UNCHANGED <<parent, np, wi, left, wait_lock, waking, kernel>>

(* allocproc() meets no UNUSED slot. *)
ForkNoSlot(c, p) ==
  /\ Running(c, p) /\ pc[p] = "fork"
  /\ \A q \in Slot : state[q] # "UNUSED"
  /\ Goto(p, Failed(p))
  /\ UNCHANGED procVars /\ UNCHANGED cpuVars
  /\ UNCHANGED <<np, wi, left, nextpid, wait_lock, waking, kernel>>

(* kfork(): acquire(&wait_lock), np->parent = p. *)
ForkLink(c, p) ==
  /\ Running(c, p) /\ pc[p] = "fork_link" /\ wait_lock = None
  /\ wait_lock' = c
  /\ parent' = [parent EXCEPT ![np[p]] = p]
  /\ Goto(p, "fork_run")
  /\ UNCHANGED cpuVars
  /\ UNCHANGED <<state, pid, chan, killed, np, wi, left, nextpid, waking, kernel>>

(* kfork(): np->lock taken, wait_lock released, np->state = RUNNABLE. *)
ForkRun(c, p) ==
  /\ Running(c, p) /\ pc[p] = "fork_run" /\ lock[np[p]] = None
  /\ wait_lock' = None
  /\ state' = [state EXCEPT ![np[p]] = "RUNNABLE"]
  /\ np' = [np EXCEPT ![p] = 0]
  /\ Goto(p, "ret")
  /\ UNCHANGED cpuVars
  /\ UNCHANGED <<pid, parent, chan, killed, wi, left, nextpid, waking, kernel>>

-----------------------------------------------------------------------------
(* exit.                                                                   *)

(* kexit() of init. *)
InitExits(c, p) ==
  /\ Running(c, p) /\ pc[p] = "exit" /\ p = InitProc
  /\ kernel' = "panic"
  /\ UNCHANGED procVars /\ UNCHANGED thrVars /\ UNCHANGED cpuVars
  /\ UNCHANGED <<nextpid, wait_lock, waking>>

(* The children reparent(p) gives to init. *)
LiveChildren(p) == {q \in Children(p) : state[q] # "ZOMBIE"}   \* mutant
Orphans(p)      == Children(p)

(* kexit(): acquire(&wait_lock) and reparent(p).  wait_lock is held, so    *)
(* the wakeup(initproc) of each child is the same as one at the end.       *)
ExitReparent(c, p) ==
  /\ Running(c, p) /\ pc[p] = "exit" /\ p # InitProc /\ wait_lock = None
  /\ wait_lock' = c
  /\ parent' = [q \in Slot |-> IF q \in Orphans(p) THEN InitProc ELSE parent[q]]
  /\ Goto(p, IF Orphans(p) = {} THEN "exit_parent" ELSE "exit_init")
  /\ wi' = [wi EXCEPT ![p] = 1]
  /\ UNCHANGED cpuVars
  /\ UNCHANGED <<state, pid, chan, killed, np, left, nextpid, waking, kernel>>

(* One slot of wakeup(initproc) in reparent(), of wakeup(p->parent) in     *)
(* kexit().                                                                *)
ExitWake(c, p) ==
  /\ Running(c, p) /\ pc[p] \in {"exit_init", "exit_parent"}
  /\ WakeOne(wi[p], IF pc[p] = "exit_init" THEN InitProc ELSE parent[p])
  /\ IF wi[p] < NPROC
       THEN wi' = [wi EXCEPT ![p] = @ + 1] /\ UNCHANGED pc
       ELSE IF pc[p] = "exit_init"
              THEN wi' = [wi EXCEPT ![p] = 1] /\ Goto(p, "exit_parent")
              ELSE wi' = [wi EXCEPT ![p] = 0] /\ Goto(p, "exit_zombie")
  /\ UNCHANGED cpuVars
  /\ UNCHANGED <<pid, parent, killed, np, left, nextpid, wait_lock, waking, kernel>>

(* release(&wait_lock), before sched(). *)
KeepWaitLock    == UNCHANGED wait_lock                 \* mutant: still held
ReleaseWaitLock == wait_lock' = None

(* kexit(): p->lock taken, ZOMBIE, wait_lock released, sched(). *)
ExitZombie(c, p) ==
  /\ Running(c, p) /\ pc[p] = "exit_zombie"
  /\ Leave(c, p, "ZOMBIE")
  /\ ReleaseWaitLock
  /\ UNCHANGED thrVars
  /\ UNCHANGED <<pid, parent, chan, killed, nextpid, waking, kernel>>

-----------------------------------------------------------------------------
(* wait.                                                                   *)

(* kwait(): acquire(&wait_lock), at the start and after every sleep(). *)
WaitLock(c, p) ==
  /\ Running(c, p) /\ pc[p] = "wait" /\ wait_lock = None
  /\ wait_lock' = c
  /\ Goto(p, "wait_scan")
  /\ UNCHANGED procVars /\ UNCHANGED cpuVars
  /\ UNCHANGED <<np, wi, left, nextpid, waking, kernel>>

(* The ZOMBIE child of p that kwait()'s scan of the table meets first. *)
FirstZombie(p, q) == q \in ZombieKids(p) /\ \A r \in ZombieKids(p) : q <= r

(* kwait() frees the first ZOMBIE child of the table and returns its pid. *)
WaitReap(c, p) ==
  /\ Running(c, p) /\ pc[p] = "wait_scan"
  /\ \E q \in Slot :
       /\ FirstZombie(p, q) /\ lock[q] = None
       /\ parent' = [parent EXCEPT ![q] = 0]
       /\ FreeProc(q)
  /\ wait_lock' = None
  /\ Goto(p, "ret")
  /\ UNCHANGED cpuVars
  /\ UNCHANGED <<np, wi, left, nextpid, waking, kernel>>

(* kwait(): the status cannot be copied out to addr; the child stays.      *)
(* init passes addr = 0.                                                   *)
WaitCopyFails(c, p) ==
  /\ Running(c, p) /\ pc[p] = "wait_scan" /\ p # InitProc
  /\ \E q \in Slot : FirstZombie(p, q) /\ lock[q] = None
  /\ wait_lock' = None
  /\ Goto(p, "ret")
  /\ UNCHANGED procVars /\ UNCHANGED cpuVars
  /\ UNCHANGED <<np, wi, left, nextpid, waking, kernel>>

(* kwait(): no children, or killed. *)
WaitFails(c, p) ==
  /\ Running(c, p) /\ pc[p] = "wait_scan" /\ ZombieKids(p) = {} /\ lock[p] = None
  /\ Children(p) = {} \/ p \in killed
  /\ wait_lock' = None
  /\ Goto(p, Failed(p))
  /\ UNCHANGED procVars /\ UNCHANGED cpuVars
  /\ UNCHANGED <<np, wi, left, nextpid, waking, kernel>>

(* kwait(): sleep_prepare(p) while wait_lock is held, then release it. *)
WaitPrepare(c, p) ==
  /\ Running(c, p) /\ pc[p] = "wait_scan" /\ ZombieKids(p) = {} /\ lock[p] = None
  /\ Children(p) # {} /\ p \notin killed
  /\ chan' = [chan EXCEPT ![p] = p]
  /\ wait_lock' = None
  /\ Goto(p, "wait_sleep")
  /\ UNCHANGED cpuVars
  /\ UNCHANGED <<state, pid, parent, killed, np, wi, left, nextpid, waking, kernel>>

-----------------------------------------------------------------------------
(* kill, pause and the clock.                                              *)

(* kkill(n) finds the slot with pid n (0 is the pid of an unused slot); a  *)
(* sleeper is made RUNNABLE and keeps its chan.                            *)
Kill(c, p, n) ==
  /\ Running(c, p) /\ pc[p] = "kill"
  /\ \/ \E q \in Slot :
          /\ pid[q] = n /\ lock[q] = None
          /\ killed' = killed \union {q}
          /\ state' = [state EXCEPT ![q] = IF @ = "SLEEPING" THEN "RUNNABLE" ELSE @]
     \/ (\A q \in Slot : pid[q] # n) /\ UNCHANGED <<killed, state>>
  /\ Goto(p, "ret")
  /\ UNCHANGED cpuVars
  /\ UNCHANGED <<pid, parent, chan, np, wi, left, nextpid, wait_lock, waking, kernel>>

(* acquire(&tickslock) in the loop of sys_pause() and sys_sleep(). *)
TicksLock == waking = 0

(* sys_pause(), sys_sleep(): one turn of the loop, tickslock held. *)
PauseDone(c, p) ==
  /\ Running(c, p) /\ pc[p] = "pause" /\ TicksLock /\ lock[p] = None
  /\ left[p] = 0 \/ p \in killed
  /\ Goto(p, "ret")
  /\ left' = [left EXCEPT ![p] = 0]
  /\ UNCHANGED procVars /\ UNCHANGED cpuVars
  /\ UNCHANGED <<np, wi, nextpid, wait_lock, waking, kernel>>

PausePrepare(c, p) ==
  /\ Running(c, p) /\ pc[p] = "pause" /\ TicksLock /\ lock[p] = None
  /\ left[p] > 0 /\ p \notin killed
  /\ chan' = [chan EXCEPT ![p] = TICKS]
  /\ Goto(p, "pause_sleep")
  /\ UNCHANGED cpuVars
  /\ UNCHANGED <<state, pid, parent, killed, np, wi, left, nextpid, wait_lock, waking, kernel>>

(* clockintr() on hart 0: acquire(&tickslock), ticks++.  The handler is a  *)
(* thread of its own here: it never runs while its hart holds a p->lock.   *)
Tick ==
  /\ waking = 0 /\ kernel = "up"
  /\ waking' = 1
  /\ left' = [p \in Slot |-> IF left[p] > 0 THEN left[p] - 1 ELSE 0]
  /\ UNCHANGED procVars /\ UNCHANGED cpuVars
  /\ UNCHANGED <<pc, np, wi, nextpid, wait_lock, kernel>>

(* wakeup()'s p++, p < &proc[NPROC]; 0 ends the loop. *)
NextSlotLong(i) == IF i <= NPROC THEN i + 1 ELSE 0     \* mutant: one too many
NextSlot(i)     == IF i < NPROC THEN i + 1 ELSE 0

(* clockintr(): one slot of wakeup(&ticks); release(&tickslock) at the end. *)
TickWake ==
  /\ waking # 0 /\ kernel = "up"
  /\ WakeOne(waking, TICKS)
  /\ waking' = NextSlot(waking)
  /\ UNCHANGED thrVars /\ UNCHANGED cpuVars
  /\ UNCHANGED <<pid, parent, killed, nextpid, wait_lock, kernel>>

(* Nothing is modelled after a panic(). *)
Halted == kernel = "panic" /\ UNCHANGED vars

-----------------------------------------------------------------------------
Fork(c, p) == \/ \E q \in Slot : ForkAlloc(c, p, q) \/ ForkNoMemory(c, p, q)
              \/ ForkNoSlot(c, p)
              \/ ForkLink(c, p)
              \/ ForkRun(c, p)
Exit(c, p) == InitExits(c, p) \/ ExitReparent(c, p) \/ ExitWake(c, p) \/ ExitZombie(c, p)
Wait(c, p) == \/ WaitLock(c, p)
              \/ WaitReap(c, p)
              \/ WaitCopyFails(c, p)
              \/ WaitFails(c, p)
              \/ WaitPrepare(c, p)
Trap(c, p) == Syscall(c, p) \/ TrapKilled(c, p) \/ TrapReturn(c, p)
Pause(c, p) == PauseDone(c, p) \/ PausePrepare(c, p)

Next ==
  \/ \E c \in CPU, p \in Slot :
       \/ Dispatch(c, p) \/ Yield(c, p) \/ Sleep(c, p)
       \/ Trap(c, p) \/ Fork(c, p) \/ Exit(c, p) \/ Wait(c, p) \/ Pause(c, p)
       \/ \E n \in KillPid : Kill(c, p, n)
  \/ \E c \in CPU : Enter(c) \/ Sched(c) \/ Back(c)
  \/ Tick \/ TickWake
  \/ Halted

Spec == Init /\ [][Next]_vars

-----------------------------------------------------------------------------
(* Every variable has its type (struct proc, struct cpu and the locals of  *)
(* the kernel threads).                                                    *)
TypeOK ==
  /\ state  \in [Slot -> States]
  /\ pid    \in [Slot -> 0..MaxPid]
  /\ parent \in [Slot -> 0..NPROC]
  /\ chan   \in [Slot -> 0..NPROC+1]
  /\ killed \subseteq Slot
  /\ pc     \in [Slot -> PCs]
  /\ np     \in [Slot -> 0..NPROC]
  /\ wi     \in [Slot -> 0..NPROC]
  /\ left   \in [Slot -> 0..1]
  /\ nextpid \in 2..MaxPid+1
  /\ lock   \in [Slot -> CPU \union {None}]
  /\ wait_lock \in CPU \union {None}
  /\ waking \in 0..NPROC
  /\ phase  \in [CPU -> Phases]
  /\ cproc  \in [CPU -> 0..NPROC]
  /\ kernel \in {"up", "panic"}

(* No two CPUs are on the same process's kernel stack, and no CPU is on    *)
(* the stack of a slot that is free: p->lock, held from the state change   *)
(* in yield(), sleep() and kexit() until scheduler() releases it, keeps    *)
(* the other CPUs' schedulers and kwait() away until swtch() has left.     *)
StackExclusive ==
  \A c \in CPU : cproc[c] # 0 =>
    /\ state[cproc[c]] \notin {"UNUSED", "USED"}
    /\ \A d \in CPU : cproc[d] = cproc[c] => d = c

(* sched()'s checks never panic: a CPU enters the switch holding p->lock   *)
(* and no other spinlock, and a process that is RUNNING is on some CPU.    *)
SchedAsserts ==
  /\ \A c \in CPU : phase[c] = "scheduler" <=> cproc[c] = 0
  /\ \A c \in CPU : phase[c] \in {"entered", "leaving", "back"} =>
       /\ wait_lock # c
       /\ \A q \in Slot : lock[q] = c <=> q = cproc[c]
       /\ phase[c] = "leaving" => state[cproc[c]] # "RUNNING"
  /\ \A p \in Slot : state[p] = "RUNNING" =>
       \E c \in CPU : cproc[c] = p /\ phase[c] \in {"entered", "run"}

(* A process's parent is a process that can still wait() for it: an exit   *)
(* hands the children to init before it becomes a zombie, and a fork that  *)
(* races with it cannot slip a child in behind reparent().                 *)
LiveParent ==
  \A q \in Slot :
    /\ parent[q] # 0 => state[parent[q]] \notin {"UNUSED", "USED", "ZOMBIE"}
    /\ q # InitProc /\ state[q] \in {"SLEEPING", "RUNNABLE", "RUNNING", "ZOMBIE"}
         => parent[q] # 0

(* No wakeup is lost.  A parent that sleeps in kwait() has no zombie child *)
(* unless an exiting process is about to wake it; a process that sleeps in *)
(* pause() is still owed a tick, or clockintr() is about to reach it.      *)
NoLostWakeup ==
  \A p \in Slot : state[p] = "SLEEPING" =>
    /\ pc[p] = "wait" =>
         \/ ZombieKids(p) = {}
         \/ p = InitProc /\ \E q \in Slot : pc[q] = "exit_init" /\ wi[q] <= InitProc
    /\ pc[p] = "pause" => left[p] > 0 \/ (waking # 0 /\ waking <= p)
    /\ chan[p] # 0

(* Live processes have different pids, none of them 0, so kill(pid) and    *)
(* the pid wait() returns name one process.                                *)
UniquePids ==
  \A p, q \in Slot :
    /\ state[p] # "UNUSED" => pid[p] # 0
    /\ p # q /\ pid[p] # 0 => pid[p] # pid[q]

(* A zombie leaves the table only through its parent's wait(), and then    *)
(* as a free slot.  kkill() makes a sleeper runnable without clearing its  *)
(* chan, so a later wakeup() of that channel still matches the process     *)
(* after it has exited; it must not run again.                             *)
ZombieIsFinal ==
  [][\A p \in Slot : state[p] = "ZOMBIE" =>
       \/ state'[p] = "ZOMBIE"
       \/ state'[p] = "UNUSED" /\ pc[parent[p]] = "wait_scan"]_vars
=============================================================================
