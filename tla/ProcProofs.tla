----------------------------- MODULE ProcProofs -----------------------------
(* Theorems about Proc, for every number of slots, CPUs and pids: the      *)
(* switch, families and pids first, then sleep and wakeup.                 *)
EXTENDS Proc, TLAPS

(* The slots are numbered from 1, the null pointer is 0. *)
LEMMA SlotFacts ==
  /\ InitProc \in Slot
  /\ \A q \in Slot : q \in 0..NPROC /\ q \in 0..NPROC+1 /\ q # 0
  /\ \A q \in 0..NPROC : q = 0 \/ q \in Slot
  /\ TICKS \in 0..NPROC+1 /\ TICKS \notin Slot
  /\ NPROC \in Nat \ {0} /\ MaxPid \in Nat \ {0} /\ None \notin CPU
  /\ \A p \in Slot : Calls(p) \subseteq PCs
  BY ConstantsAssumption DEF Slot, InitProc, TICKS, Calls, PCs

(* One slot of wakeup() keeps the types. *)
LEMMA WakeOneTyped ==
  ASSUME TypeOK, NEW q, NEW ch, WakeOne(q, ch)
  PROVE  /\ chan' \in [Slot -> 0..NPROC+1]
         /\ state' \in [Slot -> States]
<1>1. chan' \in [Slot -> 0..NPROC+1]
  <2>1. 0 \in 0..NPROC+1
    BY SlotFacts
  <2> QED
    BY <2>1 DEF TypeOK, WakeOne
<1>2. state' \in [Slot -> States]
  <2>1. \A x : (IF chan[q] = ch /\ state[q] = "SLEEPING" THEN "RUNNABLE" ELSE x) \in {"RUNNABLE", x}
    OBVIOUS
  <2> QED
    BY <2>1 DEF TypeOK, WakeOne, States
<1> QED
  BY <1>1, <1>2

(* Init establishes the types. *)
LEMMA InitTypeOK == Init => TypeOK
<1> SUFFICES ASSUME Init PROVE TypeOK
  OBVIOUS
<1>1. /\ NPROC \in Nat \ {0} /\ MaxPid \in Nat \ {0} /\ None \notin CPU
  BY ConstantsAssumption
<1>2. /\ state \in [Slot -> States] /\ pid \in [Slot -> 0..MaxPid]
  BY <1>1 DEF Init, Slot, States, InitProc
<1>3. /\ parent \in [Slot -> 0..NPROC] /\ chan \in [Slot -> 0..NPROC+1]
      /\ killed \subseteq Slot /\ pc \in [Slot -> PCs]
  BY <1>1 DEF Init, PCs
<1>4. /\ np \in [Slot -> 0..NPROC] /\ wi \in [Slot -> 0..NPROC]
      /\ left \in [Slot -> 0..1] /\ nextpid \in 2..MaxPid+1
  BY <1>1 DEF Init
<1>5. /\ lock \in [Slot -> CPU \union {None}] /\ wait_lock \in CPU \union {None}
      /\ waking \in 0..NPROC
  BY <1>1 DEF Init
<1>7. kernel \in {"up", "panic"}
  BY DEF Init
<1>6. /\ phase \in [CPU -> Phases] /\ cproc \in [CPU -> 0..NPROC]
  BY <1>1 DEF Init, Phases
<1> QED
  BY <1>2, <1>3, <1>4, <1>5, <1>6, <1>7 DEF TypeOK

(* Every step keeps the types: one case for each action of Next. *)
LEMMA StepTypeOK == TypeOK /\ [Next]_vars => TypeOK'
<1> SUFFICES ASSUME TypeOK, [Next]_vars PROVE TypeOK'
  OBVIOUS
<1> USE SlotFacts DEF TypeOK, procVars, thrVars, cpuVars
<1>1. ASSUME NEW c \in CPU, NEW p \in Slot, Dispatch(c, p) PROVE TypeOK'
  BY <1>1 DEF Dispatch, States, Phases
<1>2. ASSUME NEW c \in CPU, NEW p \in Slot, Yield(c, p) PROVE TypeOK'
  BY <1>2 DEF Yield, Running, Leave, KeepLock, States, Phases
<1>3. ASSUME NEW c \in CPU, NEW p \in Slot, Sleep(c, p) PROVE TypeOK'
  BY <1>3 DEF Sleep, Running, Leave, KeepLock, MustSleep, States, Phases, PCs
<1>4. ASSUME NEW c \in CPU, NEW p \in Slot, Syscall(c, p) PROVE TypeOK'
  <2>1. pc' \in [Slot -> PCs] /\ left' \in [Slot -> 0..1]
    BY <1>4 DEF Syscall, Goto
  <2> QED
    BY <1>4, <2>1 DEF Syscall
<1>5. ASSUME NEW c \in CPU, NEW p \in Slot, TrapKilled(c, p) PROVE TypeOK'
  BY <1>5 DEF TrapKilled, Goto, PCs
<1>6. ASSUME NEW c \in CPU, NEW p \in Slot, TrapReturn(c, p) PROVE TypeOK'
  BY <1>6 DEF TrapReturn, Goto, PCs
<1>7. ASSUME NEW c \in CPU, NEW p \in Slot, ForkNoSlot(c, p) PROVE TypeOK'
  BY <1>7 DEF ForkNoSlot, Failed, Goto, PCs
<1>8. ASSUME NEW c \in CPU, NEW p \in Slot, ForkLink(c, p) PROVE TypeOK'
  BY <1>8 DEF ForkLink, Running, Goto, PCs, WaitLockPCs
<1>9. ASSUME NEW c \in CPU, NEW p \in Slot, ForkRun(c, p) PROVE TypeOK'
  <2>1. pc' \in [Slot -> PCs] /\ np' \in [Slot -> 0..NPROC]
    BY <1>9 DEF ForkRun, Goto, PCs
  <2>2. state' \in [Slot -> States]
    BY <1>9 DEF ForkRun, States
  <2> QED
    BY <1>9, <2>1, <2>2 DEF ForkRun
<1>10. ASSUME NEW c \in CPU, NEW p \in Slot, InitExits(c, p) PROVE TypeOK'
  BY <1>10 DEF InitExits
<1>11. ASSUME NEW c \in CPU, NEW p \in Slot, ExitReparent(c, p) PROVE TypeOK'
  BY <1>11 DEF ExitReparent, Orphans, Goto, PCs, WaitLockPCs
<1>12. ASSUME NEW c \in CPU, NEW p \in Slot, ExitWake(c, p) PROVE TypeOK'
  <2>1. chan' \in [Slot -> 0..NPROC+1] /\ state' \in [Slot -> States]
    BY <1>12, WakeOneTyped DEF ExitWake
  <2>2. wi' \in [Slot -> 0..NPROC]
    BY <1>12 DEF ExitWake
  <2>3. pc' \in [Slot -> PCs]
    BY <1>12 DEF ExitWake, Goto, PCs, WaitLockPCs
  <2> QED
    BY <1>12, <2>1, <2>2, <2>3 DEF ExitWake
<1>13. ASSUME NEW c \in CPU, NEW p \in Slot, ExitZombie(c, p) PROVE TypeOK'
  BY <1>13 DEF ExitZombie, Running, Leave, KeepLock, ReleaseWaitLock, States, Phases
<1>14. ASSUME NEW c \in CPU, NEW p \in Slot, WaitLock(c, p) PROVE TypeOK'
  BY <1>14 DEF WaitLock, Goto, PCs, WaitLockPCs
<1>15. ASSUME NEW c \in CPU, NEW p \in Slot, WaitReap(c, p) PROVE TypeOK'
  BY <1>15 DEF WaitReap, FreeProc, Goto, PCs, States
<1>16. ASSUME NEW c \in CPU, NEW p \in Slot, WaitCopyFails(c, p) PROVE TypeOK'
  BY <1>16 DEF WaitCopyFails, Goto, PCs
<1>17. ASSUME NEW c \in CPU, NEW p \in Slot, WaitFails(c, p) PROVE TypeOK'
  BY <1>17 DEF WaitFails, Failed, Goto, PCs
<1>18. ASSUME NEW c \in CPU, NEW p \in Slot, WaitPrepare(c, p) PROVE TypeOK'
  BY <1>18 DEF WaitPrepare, Goto, PCs
<1>19. ASSUME NEW c \in CPU, NEW p \in Slot, PauseDone(c, p) PROVE TypeOK'
  BY <1>19 DEF PauseDone, Goto, PCs
<1>20. ASSUME NEW c \in CPU, NEW p \in Slot, PausePrepare(c, p) PROVE TypeOK'
  BY <1>20 DEF PausePrepare, Goto, PCs
<1>21. ASSUME NEW c \in CPU, NEW p \in Slot, NEW q \in Slot, ForkAlloc(c, p, q) PROVE TypeOK'
  BY <1>21 DEF ForkAlloc, TakePid, PCs, States
<1>22. ASSUME NEW c \in CPU, NEW p \in Slot, NEW q \in Slot, ForkNoMemory(c, p, q) PROVE TypeOK'
  BY <1>22 DEF ForkNoMemory, TakePid, FreeProc, Failed, Goto, PCs, States
<1>23. ASSUME NEW c \in CPU, NEW p \in Slot, NEW n \in KillPid, Kill(c, p, n) PROVE TypeOK'
  BY <1>23 DEF Kill, Goto, PCs, States
<1>24. ASSUME NEW c \in CPU, Enter(c) PROVE TypeOK'
  BY <1>24 DEF Enter, Phases
<1>25. ASSUME NEW c \in CPU, Sched(c) PROVE TypeOK'
  BY <1>25 DEF Sched, Phases
<1>26. ASSUME NEW c \in CPU, Back(c) PROVE TypeOK'
  <2>1. lock' \in [Slot -> CPU \union {None}]
    BY <1>26 DEF Back
  <2>2. phase' \in [CPU -> Phases] /\ cproc' \in [CPU -> 0..NPROC]
    BY <1>26 DEF Back, Phases
  <2> QED
    BY <1>26, <2>1, <2>2 DEF Back
<1>27. CASE Tick
  BY <1>27 DEF Tick
<1>28. CASE TickWake
  <2>1. waking' \in 0..NPROC
    BY <1>28 DEF TickWake, NextSlot
  <2>2. chan' \in [Slot -> 0..NPROC+1] /\ state' \in [Slot -> States]
    BY <1>28, WakeOneTyped DEF TickWake
  <2> QED
    BY <1>28, <2>1, <2>2 DEF TickWake
<1>29. CASE UNCHANGED vars
  BY <1>29 DEF vars
<1> QED
  BY <1>1, <1>2, <1>3, <1>4, <1>5, <1>6, <1>7, <1>8, <1>9, <1>10, <1>11, <1>12, <1>13, <1>14, <1>15, <1>16, <1>17, <1>18, <1>19, <1>20, <1>21, <1>22, <1>23, <1>24, <1>25, <1>26, <1>27, <1>28, <1>29
     DEF Next, Trap, Fork, Exit, Wait, Pause, Halted

(* TypeOK holds in every reachable state, whatever the number of slots,    *)
(* CPUs and pids (the fields of struct proc and struct cpu).               *)
THEOREM TypeCorrect == Spec => []TypeOK
  BY InitTypeOK, StepTypeOK, PTL DEF Spec

-----------------------------------------------------------------------------
(* The switch.  Between swtch() into a process and release(&p->lock), and  *)
(* between acquire(&p->lock) and the scheduler's release, the CPU owns     *)
(* p->lock, and nobody else does.                                          *)
Switching == {"entered", "leaving", "back"}
SwitchInv ==
  /\ \A c \in CPU : phase[c] = "scheduler" <=> cproc[c] = 0
  /\ \A c \in CPU : phase[c] \in Switching => lock[cproc[c]] = c
  /\ \A p \in Slot : lock[p] # None =>
       /\ lock[p] \in CPU
       /\ cproc[lock[p]] = p
       /\ phase[lock[p]] \in Switching
  /\ \A c \in CPU : phase[c] \in {"entered", "run"} => state[cproc[c]] = "RUNNING"
  /\ \A c \in CPU : phase[c] \in {"leaving", "back"} =>
       state[cproc[c]] \in {"RUNNABLE", "SLEEPING", "ZOMBIE"}
  /\ \A c, d \in CPU : cproc[c] = cproc[d] /\ cproc[c] # 0 => c = d
  /\ \A p \in Slot : state[p] = "RUNNING" =>
       \E c \in CPU : cproc[c] = p /\ phase[c] \in {"entered", "run"}

(* The invariants of fork: the child being linked is USED, and only one    *)
(* parent is linking it; a slot that is no thread yet, or no longer, has   *)
(* the program counter it starts or ended with.                            *)
ForkInv ==
  /\ \A p \in Slot : np[p] # 0 <=> pc[p] \in {"fork_link", "fork_run"}
  /\ \A p \in Slot : np[p] # 0 => state[np[p]] = "USED"
  /\ \A p, q \in Slot : np[p] = np[q] /\ np[p] # 0 => p = q
  /\ \A p \in Slot : /\ state[p] = "UNUSED" => pc[p] \in {"user", "exit_zombie"}
                     /\ state[p] = "USED" => pc[p] = "user"
                     /\ state[p] = "ZOMBIE" => pc[p] = "exit_zombie"

(* A step that leaves the states and the CPUs alone keeps SwitchInv. *)
LEMMA SwitchUnchanged ==
  ASSUME SwitchInv, UNCHANGED <<state, lock, phase, cproc>> PROVE SwitchInv'
  BY DEF SwitchInv, Switching

(* p, running on c, enters sched() with its lock held. *)
LEMMA SwitchLeave ==
  ASSUME TypeOK, SwitchInv, NEW c \in CPU, NEW p \in Slot, Running(c, p),
         NEW s \in {"RUNNABLE", "SLEEPING", "ZOMBIE"}, Leave(c, p, s)
  PROVE  SwitchInv'
  BY SlotFacts DEF TypeOK, SwitchInv, Switching, Running, Leave, KeepLock, Phases

(* A slot whose lock is free and that is not RUNNING may change to any     *)
(* other state but RUNNING: no CPU is on its stack.                        *)
LEMMA SwitchIdle ==
  ASSUME TypeOK, SwitchInv, UNCHANGED cpuVars,
         NEW q \in Slot, lock[q] = None, state[q] # "RUNNING",
         NEW s \in States \ {"RUNNING"}, state' = [state EXCEPT ![q] = s]
  PROVE  SwitchInv'
  BY SlotFacts DEF TypeOK, SwitchInv, Switching, cpuVars, Phases, States

(* One slot of wakeup() keeps dead slots dead and live ones live. *)
LEMMA WakeOneLive ==
  ASSUME TypeOK, NEW q, NEW ch, WakeOne(q, ch)
  PROVE  \/ UNCHANGED state
         \/ q \in Slot /\ state[q] = "SLEEPING" /\ state' = [state EXCEPT ![q] = "RUNNABLE"]
<1>1. CASE q \in Slot /\ state[q] = "SLEEPING" /\ chan[q] = ch
  BY <1>1 DEF WakeOne
<1>2. CASE ~(q \in Slot /\ state[q] = "SLEEPING" /\ chan[q] = ch)
  BY <1>2 DEF WakeOne, TypeOK
<1> QED
  BY <1>1, <1>2

(* kkill() too: it makes at most one sleeper RUNNABLE. *)
LEMMA KillLive ==
  ASSUME TypeOK, NEW c, NEW p, NEW n, Kill(c, p, n)
  PROVE  \/ UNCHANGED state
         \/ \E q \in Slot : /\ lock[q] = None /\ state[q] = "SLEEPING"
                            /\ state' = [state EXCEPT ![q] = "RUNNABLE"]
<1>1. ASSUME NEW q \in Slot, state[q] # "SLEEPING",
             state' = [state EXCEPT ![q] = IF @ = "SLEEPING" THEN "RUNNABLE" ELSE @]
      PROVE  UNCHANGED state
  BY <1>1 DEF TypeOK
<1> QED
  BY <1>1 DEF Kill

(* One slot of wakeup() keeps SwitchInv: it can only make a sleeper        *)
(* RUNNABLE.                                                               *)
LEMMA SwitchWake ==
  ASSUME TypeOK, SwitchInv, UNCHANGED cpuVars, NEW q \in 0..NPROC, NEW ch, WakeOne(q, ch)
  PROVE  SwitchInv'
<1>1. CASE q \in Slot /\ state[q] = "SLEEPING" /\ chan[q] = ch
  <2>1. state' = [state EXCEPT ![q] = "RUNNABLE"] /\ lock[q] = None
    BY <1>1 DEF WakeOne
  <2> QED
    BY <1>1, <2>1, SwitchIdle DEF States
<1>2. CASE ~(q \in Slot /\ state[q] = "SLEEPING" /\ chan[q] = ch)
  <2>1. state' = state
    BY <1>2 DEF WakeOne, TypeOK
  <2> QED
    BY <2>1, SwitchUnchanged DEF cpuVars
<1> QED
  BY <1>1, <1>2

(* Every step keeps SwitchInv. *)
LEMMA StepSwitch == TypeOK /\ SwitchInv /\ ForkInv /\ [Next]_vars => SwitchInv'
<1> SUFFICES ASSUME TypeOK, SwitchInv, ForkInv, [Next]_vars PROVE SwitchInv'
  OBVIOUS
<1>1. ASSUME NEW c \in CPU, NEW p \in Slot, Dispatch(c, p) PROVE SwitchInv'
  BY <1>1, SlotFacts DEF Dispatch, TypeOK, SwitchInv, Switching, Phases
<1>2. ASSUME NEW c \in CPU, NEW p \in Slot, Yield(c, p) PROVE SwitchInv'
  BY <1>2, SwitchLeave DEF Yield
<1>3. ASSUME NEW c \in CPU, NEW p \in Slot, Sleep(c, p) PROVE SwitchInv'
  <2>1. CASE Leave(c, p, "SLEEPING")
    BY <1>3, <2>1, SwitchLeave DEF Sleep
  <2>2. CASE UNCHANGED state /\ UNCHANGED cpuVars
    BY <2>2, SwitchUnchanged DEF cpuVars
  <2> QED
    BY <1>3, <2>1, <2>2 DEF Sleep
<1>4. ASSUME NEW c \in CPU, NEW p \in Slot, Trap(c, p) \/ Pause(c, p) PROVE SwitchInv'
  BY <1>4, SwitchUnchanged
     DEF Trap, Syscall, TrapKilled, TrapReturn, Pause, PauseDone, PausePrepare,
         procVars, cpuVars
<1>5. ASSUME NEW c \in CPU, NEW p \in Slot, ForkNoSlot(c, p) \/ ForkLink(c, p)
      PROVE  SwitchInv'
  BY <1>5, SwitchUnchanged DEF ForkNoSlot, ForkLink, procVars, cpuVars
<1>6. ASSUME NEW c \in CPU, NEW p \in Slot, ForkRun(c, p) PROVE SwitchInv'
  <2>1. np[p] \in Slot /\ state[np[p]] = "USED"
    BY <1>6, SlotFacts DEF ForkRun, ForkInv, TypeOK
  <2> QED
    BY <1>6, <2>1, SwitchIdle DEF ForkRun, States
<1>7. ASSUME NEW c \in CPU, NEW p \in Slot, NEW q \in Slot,
             ForkAlloc(c, p, q) \/ ForkNoMemory(c, p, q)
      PROVE  SwitchInv'
  BY <1>7, SwitchIdle DEF ForkAlloc, ForkNoMemory, FreeProc, States
<1>8. ASSUME NEW c \in CPU, NEW p \in Slot, InitExits(c, p) \/ ExitReparent(c, p)
      PROVE  SwitchInv'
  BY <1>8, SwitchUnchanged DEF InitExits, ExitReparent, procVars, cpuVars
<1>9. ASSUME NEW c \in CPU, NEW p \in Slot, ExitWake(c, p) PROVE SwitchInv'
  <2>1. wi[p] \in 0..NPROC
    BY DEF TypeOK
  <2> QED
    BY <1>9, <2>1, SwitchWake DEF ExitWake
<1>10. ASSUME NEW c \in CPU, NEW p \in Slot, ExitZombie(c, p) PROVE SwitchInv'
  BY <1>10, SwitchLeave DEF ExitZombie
<1>11. ASSUME NEW c \in CPU, NEW p \in Slot, WaitReap(c, p) PROVE SwitchInv'
  BY <1>11, SwitchIdle
     DEF WaitReap, FirstZombie, ZombieKids, Children, FreeProc, States
<1>12. ASSUME NEW c \in CPU, NEW p \in Slot,
              WaitLock(c, p) \/ WaitCopyFails(c, p) \/ WaitFails(c, p) \/ WaitPrepare(c, p)
       PROVE  SwitchInv'
  BY <1>12, SwitchUnchanged
     DEF WaitLock, WaitCopyFails, WaitFails, WaitPrepare, procVars, cpuVars
<1>13. ASSUME NEW c \in CPU, NEW p \in Slot, NEW n \in KillPid, Kill(c, p, n)
       PROVE  SwitchInv'
  <2>1. CASE UNCHANGED state
    BY <1>13, <2>1, SwitchUnchanged DEF Kill, cpuVars
  <2>2. ASSUME NEW q \in Slot, lock[q] = None, state[q] = "SLEEPING",
               state' = [state EXCEPT ![q] = "RUNNABLE"]
        PROVE  SwitchInv'
    BY <1>13, <2>2, SwitchIdle DEF Kill, States
  <2> QED
    BY <1>13, <2>1, <2>2, KillLive
<1>14. ASSUME NEW c \in CPU, Enter(c) PROVE SwitchInv'
  BY <1>14, SlotFacts DEF Enter, TypeOK, SwitchInv, Switching, Phases, procVars
<1>15. ASSUME NEW c \in CPU, Sched(c) PROVE SwitchInv'
  BY <1>15, SlotFacts DEF Sched, TypeOK, SwitchInv, Switching, Phases, procVars
<1>16. ASSUME NEW c \in CPU, Back(c) PROVE SwitchInv'
  BY <1>16, SlotFacts DEF Back, TypeOK, SwitchInv, Switching, Phases, procVars
<1>17. CASE Tick
  BY <1>17, SwitchUnchanged DEF Tick, procVars, cpuVars
<1>18. CASE TickWake
  <2>1. waking \in 0..NPROC
    BY DEF TypeOK
  <2> QED
    BY <1>18, <2>1, SwitchWake DEF TickWake
<1>19. CASE UNCHANGED vars
  BY <1>19, SwitchUnchanged DEF vars
<1> QED
  BY <1>1, <1>2, <1>3, <1>4, <1>5, <1>6, <1>7, <1>8, <1>9, <1>10, <1>11, <1>12,
     <1>13, <1>14, <1>15, <1>16, <1>17, <1>18, <1>19
     DEF Next, Fork, Exit, Wait, Halted

-----------------------------------------------------------------------------
(* A thread that is not in fork moves to another place outside fork. *)
LEMMA ForkGoto ==
  ASSUME TypeOK, ForkInv, NEW p \in Slot, state[p] = "RUNNING",
         pc[p] \notin {"fork_link", "fork_run"},
         NEW l \in PCs \ {"fork_link", "fork_run"}, Goto(p, l), UNCHANGED <<np, state>>
  PROVE  ForkInv'
  BY DEF TypeOK, ForkInv, Goto

(* A thread outside fork moves on while some live slots change state. *)
Live == {"SLEEPING", "RUNNABLE", "RUNNING"}
(* A step of a process outside of kfork(). *)
LEMMA ForkStep ==
  ASSUME TypeOK, ForkInv, NEW p \in Slot, state[p] = "RUNNING",
         pc[p] \notin {"fork_link", "fork_run"},
         NEW l \in PCs \ {"fork_link", "fork_run"},
         pc' = [pc EXCEPT ![p] = l], UNCHANGED np, state' \in [Slot -> States],
         \A q \in Slot : state'[q] = state[q] \/ (state[q] \in Live /\ state'[q] \in Live)
  PROVE  ForkInv'
<1>1. \A q \in Slot : np'[q] # 0 <=> pc'[q] \in {"fork_link", "fork_run"}
  BY DEF TypeOK, ForkInv
<1>2. \A q \in Slot : np'[q] # 0 => state'[np'[q]] = "USED"
  BY SlotFacts DEF TypeOK, ForkInv, Live
<1>3. \A q, r \in Slot : np'[q] = np'[r] /\ np'[q] # 0 => q = r
  BY DEF ForkInv
<1>4. \A q \in Slot : state'[q] \in {"UNUSED", "USED", "ZOMBIE"} =>
        state'[q] = state[q] /\ pc'[q] = pc[q]
  BY DEF TypeOK, Live
<1> QED
  BY <1>1, <1>2, <1>3, <1>4 DEF ForkInv

(* A live slot stays live. *)
LEMMA ForkLive ==
  ASSUME TypeOK, ForkInv, NEW q \in Slot, state[q] \in Live, NEW s \in Live,
         state' = [state EXCEPT ![q] = s], UNCHANGED <<np, pc>>
  PROVE  ForkInv'
  BY DEF TypeOK, ForkInv, Live

(* Every step keeps ForkInv. *)
LEMMA StepFork == TypeOK /\ SwitchInv /\ ForkInv /\ [Next]_vars => ForkInv'
<1> SUFFICES ASSUME TypeOK, SwitchInv, ForkInv, [Next]_vars PROVE ForkInv'
  OBVIOUS
<1>0. ASSUME NEW c \in CPU, NEW p \in Slot, Running(c, p) PROVE state[p] = "RUNNING"
  BY <1>0 DEF Running, SwitchInv
<1>1. ASSUME NEW c \in CPU, NEW p \in Slot, Dispatch(c, p) PROVE ForkInv'
  BY <1>1, ForkLive DEF Dispatch, Live, thrVars
<1>2. ASSUME NEW c \in CPU, NEW p \in Slot, Yield(c, p) PROVE ForkInv'
  BY <1>2, <1>0, ForkLive DEF Yield, Leave, Live, thrVars
<1>3. ASSUME NEW c \in CPU, NEW p \in Slot, Sleep(c, p) PROVE ForkInv'
  <2>1. state[p] = "RUNNING"
    BY <1>3, <1>0 DEF Sleep
  <2>2. UNCHANGED state \/ state' = [state EXCEPT ![p] = "SLEEPING"]
    BY <1>3 DEF Sleep, Leave
  <2>3. PICK l \in {"wait", "pause"} : pc' = [pc EXCEPT ![p] = l]
    BY <1>3 DEF Sleep
  <2>4. \A q \in Slot : state'[q] = state[q] \/ (state[q] \in Live /\ state'[q] \in Live)
    BY <2>1, <2>2 DEF TypeOK, Live
  <2>5. state' \in [Slot -> States]
    BY <2>2 DEF TypeOK, States
  <2> QED
    BY <1>3, <2>1, <2>3, <2>4, <2>5, ForkStep DEF Sleep, PCs
<1>4. ASSUME NEW c \in CPU, NEW p \in Slot, Syscall(c, p) PROVE ForkInv'
  <2>1. PICK call \in Calls(p) : Goto(p, call)
    BY <1>4 DEF Syscall
  <2>2. call \in PCs \ {"fork_link", "fork_run"}
    BY ConstantsAssumption DEF Calls, PCs
  <2> QED
    BY <1>4, <1>0, <2>1, <2>2, ForkGoto DEF Syscall, procVars
<1>5. ASSUME NEW c \in CPU, NEW p \in Slot, TrapKilled(c, p) \/ TrapReturn(c, p) \/ Pause(c, p)
      PROVE  ForkInv'
  BY <1>5, <1>0, ForkGoto
     DEF TrapKilled, TrapReturn, Pause, PauseDone, PausePrepare, procVars, PCs
<1>6. ASSUME NEW c \in CPU, NEW p \in Slot, ForkNoSlot(c, p) PROVE ForkInv'
  BY <1>6, <1>0, ForkGoto DEF ForkNoSlot, Failed, procVars, PCs
<1>7. ASSUME NEW c \in CPU, NEW p \in Slot, ForkLink(c, p) PROVE ForkInv'
  BY <1>7, <1>0 DEF ForkLink, Goto, TypeOK, ForkInv
<1>8. ASSUME NEW c \in CPU, NEW p \in Slot, ForkRun(c, p) PROVE ForkInv'
  <2>1. state[p] = "RUNNING" /\ np[p] \in Slot
    BY <1>8, <1>0, SlotFacts DEF ForkRun, ForkInv, TypeOK
  <2> QED
    BY <1>8, <2>1 DEF ForkRun, Goto, TypeOK, ForkInv
<1>9. ASSUME NEW c \in CPU, NEW p \in Slot, NEW q \in Slot, ForkAlloc(c, p, q)
      PROVE  ForkInv'
  BY <1>9, <1>0, SlotFacts DEF ForkAlloc, TypeOK, ForkInv
<1>10. ASSUME NEW c \in CPU, NEW p \in Slot, NEW q \in Slot, ForkNoMemory(c, p, q)
       PROVE  ForkInv'
  <2>1. UNCHANGED <<state, np>>
    BY <1>10 DEF ForkNoMemory, FreeProc, TypeOK
  <2> QED
    BY <1>10, <1>0, <2>1, ForkGoto DEF ForkNoMemory, Failed, PCs
<1>11. ASSUME NEW c \in CPU, NEW p \in Slot, InitExits(c, p) PROVE ForkInv'
  BY <1>11 DEF InitExits, procVars, thrVars, ForkInv
<1>12. ASSUME NEW c \in CPU, NEW p \in Slot, ExitReparent(c, p) PROVE ForkInv'
  BY <1>12, <1>0, ForkGoto DEF ExitReparent, PCs, WaitLockPCs
<1>13. ASSUME NEW c \in CPU, NEW p \in Slot, ExitWake(c, p) PROVE ForkInv'
  <2>1. state[p] = "RUNNING"
    BY <1>13, <1>0 DEF ExitWake
  <2>2. PICK l : /\ l \in {"exit_init", "exit_parent", "exit_zombie"}
                 /\ pc' = [pc EXCEPT ![p] = l]
    BY <1>13 DEF ExitWake, Goto, TypeOK
  <2>3. \/ UNCHANGED state
        \/ \E q \in Slot : state[q] = "SLEEPING" /\ state' = [state EXCEPT ![q] = "RUNNABLE"]
    BY <1>13, WakeOneLive DEF ExitWake
  <2>4. \A q \in Slot : state'[q] = state[q] \/ (state[q] \in Live /\ state'[q] \in Live)
    BY <2>3 DEF TypeOK, Live
  <2>5. state' \in [Slot -> States]
    BY <2>3 DEF TypeOK, States
  <2>6. pc[p] \notin {"fork_link", "fork_run"} /\ l \in PCs \ {"fork_link", "fork_run"}
    BY <1>13, <2>2 DEF ExitWake, PCs, WaitLockPCs
  <2> QED
    BY <1>13, <2>1, <2>2, <2>4, <2>5, <2>6, ForkStep DEF ExitWake
<1>14. ASSUME NEW c \in CPU, NEW p \in Slot, ExitZombie(c, p) PROVE ForkInv'
  BY <1>14, <1>0 DEF ExitZombie, Leave, thrVars, TypeOK, ForkInv
<1>15. ASSUME NEW c \in CPU, NEW p \in Slot,
              WaitLock(c, p) \/ WaitCopyFails(c, p) \/ WaitFails(c, p) \/ WaitPrepare(c, p)
       PROVE  ForkInv'
  BY <1>15, <1>0, ForkGoto
     DEF WaitLock, WaitCopyFails, WaitFails, Failed, WaitPrepare, procVars, PCs, WaitLockPCs
<1>16. ASSUME NEW c \in CPU, NEW p \in Slot, WaitReap(c, p) PROVE ForkInv'
  <2>1. PICK q \in Slot : state[q] = "ZOMBIE" /\ state' = [state EXCEPT ![q] = "UNUSED"]
    BY <1>16 DEF WaitReap, FirstZombie, ZombieKids, Children, FreeProc
  <2> QED
    BY <1>16, <1>0, <2>1 DEF WaitReap, Goto, TypeOK, ForkInv
<1>17. ASSUME NEW c \in CPU, NEW p \in Slot, NEW n \in KillPid, Kill(c, p, n)
       PROVE  ForkInv'
  <2>1. state[p] = "RUNNING"
    BY <1>17, <1>0 DEF Kill
  <2>2. \A q \in Slot : state'[q] = state[q] \/ (state[q] \in Live /\ state'[q] \in Live)
    BY <1>17, KillLive DEF TypeOK, Live
  <2>3. state' \in [Slot -> States]
    BY <1>17, KillLive DEF TypeOK, States
  <2> QED
    BY <1>17, <2>1, <2>2, <2>3, ForkStep DEF Kill, Goto, PCs
<1>18. ASSUME NEW c \in CPU, Enter(c) \/ Sched(c) \/ Back(c) PROVE ForkInv'
  BY <1>18 DEF Enter, Sched, Back, procVars, thrVars, ForkInv
<1>19. CASE Tick
  BY <1>19 DEF Tick, procVars, ForkInv
<1>20. CASE TickWake
  <2>1. CASE UNCHANGED state
    BY <1>20, <2>1 DEF TickWake, thrVars, ForkInv
  <2>2. ASSUME NEW q \in Slot, state[q] = "SLEEPING",
               state' = [state EXCEPT ![q] = "RUNNABLE"]
        PROVE  ForkInv'
    BY <1>20, <2>2, ForkLive DEF TickWake, thrVars, Live
  <2> QED
    BY <1>20, <2>1, <2>2, WakeOneLive DEF TickWake
<1>21. CASE UNCHANGED vars
  BY <1>21 DEF vars, ForkInv
<1> QED
  BY <1>1, <1>2, <1>3, <1>4, <1>5, <1>6, <1>7, <1>8, <1>9, <1>10, <1>11, <1>12,
     <1>13, <1>14, <1>15, <1>16, <1>17, <1>18, <1>19, <1>20, <1>21
     DEF Next, Trap, Fork, Exit, Wait, Halted

-----------------------------------------------------------------------------
(* wait_lock is owned by the CPU that runs the thread whose program        *)
(* counter is in a section protected by it; a dead slot keeps the counter  *)
(* it died with.                                                           *)
WaitLockInv ==
  /\ \A c \in CPU : wait_lock = c => phase[c] = "run" /\ pc[cproc[c]] \in WaitLockPCs
  /\ \A p \in Slot : pc[p] \in WaitLockPCs =>
       \/ pc[p] = "exit_zombie" /\ state[p] \in {"ZOMBIE", "UNUSED"}
       \/ wait_lock \in CPU /\ cproc[wait_lock] = p /\ phase[wait_lock] = "run"

(* Dead slots stay dead. *)
DeadStays == \A q \in Slot : state[q] \in {"ZOMBIE", "UNUSED"} => state'[q] \in {"ZOMBIE", "UNUSED"}

(* A thread moves on outside the sections of wait_lock. *)
LEMMA WaitLockOutside ==
  ASSUME TypeOK, SwitchInv, WaitLockInv, DeadStays, UNCHANGED <<wait_lock, phase, cproc>>,
         \A q \in Slot : pc'[q] = pc[q] \/ (pc[q] \notin WaitLockPCs /\ pc'[q] \notin WaitLockPCs)
  PROVE  WaitLockInv'
<1>1. \A c \in CPU : wait_lock = c => cproc[c] \in Slot
  BY SlotFacts DEF TypeOK, SwitchInv, WaitLockInv
<1> QED
  BY <1>1 DEF WaitLockInv, DeadStays

(* The holder moves on inside its section. *)
LEMMA WaitLockInside ==
  ASSUME TypeOK, SwitchInv, WaitLockInv, DeadStays, UNCHANGED <<wait_lock, phase, cproc>>,
         NEW p \in Slot, state[p] = "RUNNING", pc[p] \in WaitLockPCs,
         NEW l \in WaitLockPCs, Goto(p, l)
  PROVE  WaitLockInv'
<1>1. \A c \in CPU : wait_lock = c => cproc[c] \in Slot
  BY SlotFacts DEF TypeOK, SwitchInv, WaitLockInv
<1> QED
  BY <1>1 DEF WaitLockInv, DeadStays, TypeOK, Goto

(* A running thread takes wait_lock. *)
LEMMA WaitLockTaken ==
  ASSUME TypeOK, SwitchInv, WaitLockInv, UNCHANGED <<state, phase, cproc>>,
         NEW c \in CPU, NEW p \in Slot, Running(c, p), wait_lock = None, wait_lock' = c,
         NEW l \in WaitLockPCs, Goto(p, l)
  PROVE  WaitLockInv'
  BY SlotFacts DEF WaitLockInv, TypeOK, Goto, Running, SwitchInv

(* The holder releases wait_lock and leaves its section. *)
LEMMA WaitLockReleased ==
  ASSUME TypeOK, SwitchInv, WaitLockInv, DeadStays, wait_lock' = None,
         NEW p \in Slot, state[p] = "RUNNING", pc[p] \in WaitLockPCs,
         NEW l \in PCs \ WaitLockPCs, Goto(p, l)
  PROVE  WaitLockInv'
<1>1. \A q \in Slot : q # p /\ pc[q] \in WaitLockPCs =>
        pc[q] = "exit_zombie" /\ state[q] \in {"ZOMBIE", "UNUSED"}
  BY DEF WaitLockInv
<1> QED
  BY <1>1, SlotFacts DEF WaitLockInv, DeadStays, TypeOK, Goto

(* A CPU that does not hold wait_lock switches. *)
LEMMA WaitLockSwitch ==
  ASSUME TypeOK, SwitchInv, WaitLockInv, DeadStays, UNCHANGED wait_lock,
         NEW c \in CPU, wait_lock # c,
         \A d \in CPU \ {c} : phase'[d] = phase[d] /\ cproc'[d] = cproc[d],
         \A q \in Slot : pc'[q] = pc[q] \/ (pc[q] \notin WaitLockPCs /\ pc'[q] \notin WaitLockPCs)
  PROVE  WaitLockInv'
<1>1. \A d \in CPU : wait_lock = d => cproc[d] \in Slot
  BY SlotFacts DEF TypeOK, SwitchInv, WaitLockInv
<1> QED
  BY <1>1 DEF WaitLockInv, DeadStays

(* Every step keeps WaitLockInv. *)
LEMMA StepWaitLock ==
  TypeOK /\ SwitchInv /\ ForkInv /\ WaitLockInv /\ [Next]_vars => WaitLockInv'
<1> SUFFICES ASSUME TypeOK, SwitchInv, ForkInv, WaitLockInv, [Next]_vars PROVE WaitLockInv'
  OBVIOUS
<1>0. ASSUME NEW c \in CPU, NEW p \in Slot, Running(c, p) PROVE state[p] = "RUNNING"
  BY <1>0 DEF Running, SwitchInv
<1>1. ASSUME NEW c \in CPU, NEW p \in Slot, Dispatch(c, p) PROVE WaitLockInv'
  <2>1. wait_lock # c
    BY <1>1 DEF Dispatch, WaitLockInv
  <2> QED
    BY <1>1, <2>1, WaitLockSwitch DEF Dispatch, TypeOK, DeadStays, thrVars
<1>2. ASSUME NEW c \in CPU, NEW p \in Slot, Yield(c, p) PROVE WaitLockInv'
  BY <1>2, <1>0, WaitLockSwitch DEF Yield, Leave, TypeOK, DeadStays, thrVars
<1>3. ASSUME NEW c \in CPU, NEW p \in Slot, Sleep(c, p) PROVE WaitLockInv'
  <2>1. pc[p] \notin WaitLockPCs /\ wait_lock # c /\ state[p] = "RUNNING"
    BY <1>3, <1>0 DEF Sleep, Running, WaitLockInv, WaitLockPCs
  <2>2. \A q \in Slot : pc'[q] = pc[q] \/ (pc[q] \notin WaitLockPCs /\ pc'[q] \notin WaitLockPCs)
    BY <1>3, <2>1 DEF Sleep, TypeOK, WaitLockPCs
  <2>3. DeadStays /\ \A d \in CPU \ {c} : phase'[d] = phase[d] /\ cproc'[d] = cproc[d]
    BY <1>3, <2>1 DEF Sleep, Leave, TypeOK, DeadStays, cpuVars
  <2> QED
    BY <1>3, <2>1, <2>2, <2>3, WaitLockSwitch DEF Sleep
<1>4. ASSUME NEW c \in CPU, NEW p \in Slot, Syscall(c, p) PROVE WaitLockInv'
  <2>1. PICK call \in Calls(p) : Goto(p, call)
    BY <1>4 DEF Syscall
  <2>2. call \notin WaitLockPCs /\ pc[p] \notin WaitLockPCs
    BY <1>4, ConstantsAssumption DEF Syscall, Calls, WaitLockPCs
  <2> QED
    BY <1>4, <2>1, <2>2, WaitLockOutside
       DEF Syscall, Goto, TypeOK, DeadStays, procVars, cpuVars
<1>5. ASSUME NEW c \in CPU, NEW p \in Slot, NEW l \in PCs \ WaitLockPCs,
             pc[p] \notin WaitLockPCs, Goto(p, l), UNCHANGED <<state, wait_lock>>,
             UNCHANGED cpuVars
      PROVE  WaitLockInv'
  BY <1>5, WaitLockOutside DEF Goto, TypeOK, DeadStays, cpuVars
<1>6. ASSUME NEW c \in CPU, NEW p \in Slot, TrapKilled(c, p) \/ TrapReturn(c, p) \/ Pause(c, p)
      PROVE  WaitLockInv'
  BY <1>6, <1>5
     DEF TrapKilled, TrapReturn, Pause, PauseDone, PausePrepare, procVars, PCs, WaitLockPCs
<1>7. ASSUME NEW c \in CPU, NEW p \in Slot, ForkNoSlot(c, p) PROVE WaitLockInv'
  BY <1>7, <1>5 DEF ForkNoSlot, Failed, procVars, PCs, WaitLockPCs
<1>8. ASSUME NEW c \in CPU, NEW p \in Slot, ForkLink(c, p) PROVE WaitLockInv'
  BY <1>8, WaitLockTaken DEF ForkLink, cpuVars, WaitLockPCs
<1>9. ASSUME NEW c \in CPU, NEW p \in Slot, ForkRun(c, p) PROVE WaitLockInv'
  <2>1. np[p] \in Slot /\ state[np[p]] = "USED"
    BY <1>9, SlotFacts DEF ForkRun, ForkInv, TypeOK
  <2> QED
    BY <1>9, <1>0, <2>1, WaitLockReleased
       DEF ForkRun, TypeOK, DeadStays, PCs, WaitLockPCs
<1>10. ASSUME NEW c \in CPU, NEW p \in Slot, NEW q \in Slot, ForkAlloc(c, p, q)
       PROVE  WaitLockInv'
  <2>1. \A r \in Slot : pc'[r] \in WaitLockPCs => r # q /\ r # p /\ pc[r] \in WaitLockPCs
    BY <1>10 DEF ForkAlloc, TypeOK, WaitLockPCs
  <2>2. ASSUME NEW d \in CPU, wait_lock = d PROVE cproc[d] \in Slot \ {p, q}
    BY <1>10, <2>2, <1>0, SlotFacts
       DEF ForkAlloc, TypeOK, SwitchInv, WaitLockInv, WaitLockPCs
  <2> QED
    BY <1>10, <2>1, <2>2 DEF ForkAlloc, TypeOK, WaitLockInv, cpuVars
<1>11. ASSUME NEW c \in CPU, NEW p \in Slot, NEW q \in Slot, ForkNoMemory(c, p, q)
       PROVE  WaitLockInv'
  <2>1. UNCHANGED state
    BY <1>11 DEF ForkNoMemory, FreeProc, TypeOK
  <2> QED
    BY <1>11, <1>5, <2>1 DEF ForkNoMemory, Failed, PCs, WaitLockPCs
<1>12. ASSUME NEW c \in CPU, NEW p \in Slot, InitExits(c, p) PROVE WaitLockInv'
  BY <1>12 DEF InitExits, procVars, thrVars, cpuVars, WaitLockInv
<1>13. ASSUME NEW c \in CPU, NEW p \in Slot, ExitReparent(c, p) PROVE WaitLockInv'
  BY <1>13, WaitLockTaken DEF ExitReparent, cpuVars, WaitLockPCs
<1>14. ASSUME NEW c \in CPU, NEW p \in Slot, ExitWake(c, p) PROVE WaitLockInv'
  <2>1. PICK l \in WaitLockPCs : Goto(p, l)
    BY <1>14 DEF ExitWake, Goto, TypeOK, WaitLockPCs
  <2>2. DeadStays
    BY <1>14, WakeOneLive DEF ExitWake, TypeOK, DeadStays
  <2> QED
    BY <1>14, <1>0, <2>1, <2>2, WaitLockInside DEF ExitWake, cpuVars, WaitLockPCs
<1>15. ASSUME NEW c \in CPU, NEW p \in Slot, ExitZombie(c, p) PROVE WaitLockInv'
  <2>1. \A q \in Slot : pc[q] \in WaitLockPCs =>
          pc[q] = "exit_zombie" /\ (q = p \/ state[q] \in {"ZOMBIE", "UNUSED"})
    BY <1>15 DEF ExitZombie, Running, WaitLockInv, SwitchInv, WaitLockPCs
  <2> QED
    BY <1>15, <2>1, SlotFacts DEF ExitZombie, ReleaseWaitLock, Leave, TypeOK, WaitLockInv, thrVars
<1>16. ASSUME NEW c \in CPU, NEW p \in Slot, WaitLock(c, p) PROVE WaitLockInv'
  BY <1>16, WaitLockTaken DEF WaitLock, procVars, cpuVars, WaitLockPCs
<1>17. ASSUME NEW c \in CPU, NEW p \in Slot,
              WaitCopyFails(c, p) \/ WaitFails(c, p) \/ WaitPrepare(c, p)
       PROVE  WaitLockInv'
  BY <1>17, <1>0, WaitLockReleased
     DEF WaitCopyFails, WaitFails, Failed, WaitPrepare, procVars, PCs, WaitLockPCs, DeadStays
<1>18. ASSUME NEW c \in CPU, NEW p \in Slot, WaitReap(c, p) PROVE WaitLockInv'
  <2>1. DeadStays
    BY <1>18 DEF WaitReap, FreeProc, TypeOK, DeadStays
  <2> QED
    BY <1>18, <1>0, <2>1, WaitLockReleased DEF WaitReap, PCs, WaitLockPCs
<1>19. ASSUME NEW c \in CPU, NEW p \in Slot, NEW n \in KillPid, Kill(c, p, n)
       PROVE  WaitLockInv'
  <2>1. DeadStays
    BY <1>19, KillLive DEF TypeOK, DeadStays
  <2> QED
    BY <1>19, <2>1, WaitLockOutside DEF Kill, Goto, TypeOK, cpuVars, WaitLockPCs
<1>20. ASSUME NEW c \in CPU, Enter(c) \/ Sched(c) \/ Back(c) PROVE WaitLockInv'
  <2>1. wait_lock # c
    BY <1>20 DEF Enter, Sched, Back, WaitLockInv
  <2> QED
    BY <1>20, <2>1, WaitLockSwitch
       DEF Enter, Sched, Back, TypeOK, DeadStays, procVars, thrVars
<1>21. CASE Tick
  BY <1>21 DEF Tick, procVars, cpuVars, WaitLockInv
<1>22. CASE TickWake
  <2>1. DeadStays
    BY <1>22, WakeOneLive DEF TickWake, TypeOK, DeadStays
  <2> QED
    BY <1>22, <2>1, WaitLockOutside DEF TickWake, thrVars, cpuVars
<1>23. CASE UNCHANGED vars
  BY <1>23 DEF vars, WaitLockInv
<1> QED
  BY <1>1, <1>2, <1>3, <1>4, <1>6, <1>7, <1>8, <1>9, <1>10, <1>11, <1>12,
     <1>13, <1>14, <1>15, <1>16, <1>17, <1>18, <1>19, <1>20, <1>21, <1>22, <1>23
     DEF Next, Trap, Fork, Exit, Wait, Halted

-----------------------------------------------------------------------------
(* Parents.  init is always live; a parent is live; a thread past          *)
(* reparent() has no children; the child being linked has its parent.      *)
ExitPCs == {"exit_init", "exit_parent", "exit_zombie"}
FamilyInv ==
  /\ state[InitProc] \in Live
  /\ pc[InitProc] \notin ExitPCs
  /\ \A q \in Slot : parent[q] # 0 => state[parent[q]] \in Live
  /\ \A p, q \in Slot : pc[p] \in ExitPCs => parent[q] # p
  /\ \A p \in Slot : pc[p] = "fork_run" => parent[np[p]] = p
  /\ \A q \in Slot : q # InitProc /\ state[q] \notin {"UNUSED", "USED"} => parent[q] # 0

(* A step that links, orphans and buries nobody. *)
LEMMA FamilyKept ==
  ASSUME TypeOK, FamilyInv, UNCHANGED <<parent, np>>,
         \A q \in Slot : pc'[q] = pc[q] \/ pc'[q] \notin ExitPCs \union {"fork_run"},
         \A q \in Slot : state[q] \in Live => state'[q] \in Live,
         \A q \in Slot : state[q] \in {"UNUSED", "USED"} => state'[q] = state[q]
  PROVE  FamilyInv'
<1>1. \A q \in Slot : parent[q] # 0 => parent[q] \in Slot
  BY SlotFacts DEF TypeOK
<1> QED
  BY <1>1, SlotFacts DEF FamilyInv, Live

(* A running thread moves on, away from the exit path and fork's link. *)
LEMMA FamilyGoto ==
  ASSUME TypeOK, FamilyInv, UNCHANGED <<parent, np, state>>, NEW p \in Slot,
         NEW l \in PCs \ (ExitPCs \union {"fork_run"}), Goto(p, l)
  PROVE  FamilyInv'
  BY FamilyKept DEF TypeOK, Goto

(* Every step keeps FamilyInv. *)
LEMMA StepFamily ==
  TypeOK /\ SwitchInv /\ ForkInv /\ WaitLockInv /\ FamilyInv /\ [Next]_vars => FamilyInv'
<1> SUFFICES ASSUME TypeOK, SwitchInv, ForkInv, WaitLockInv, FamilyInv, [Next]_vars
             PROVE  FamilyInv'
  OBVIOUS
<1>0. ASSUME NEW c \in CPU, NEW p \in Slot, Running(c, p) PROVE state[p] = "RUNNING"
  BY <1>0 DEF Running, SwitchInv
<1>a. \A q \in Slot : parent[q] # 0 => parent[q] \in Slot
  BY SlotFacts DEF TypeOK
<1>1. ASSUME NEW c \in CPU, NEW p \in Slot, Dispatch(c, p) PROVE FamilyInv'
  BY <1>1, FamilyKept DEF Dispatch, thrVars, TypeOK, Live
<1>2. ASSUME NEW c \in CPU, NEW p \in Slot, Yield(c, p) PROVE FamilyInv'
  BY <1>2, <1>0, FamilyKept DEF Yield, Leave, thrVars, TypeOK, Live
<1>3. ASSUME NEW c \in CPU, NEW p \in Slot, Sleep(c, p) PROVE FamilyInv'
  <2>1. state[p] = "RUNNING"
    BY <1>3, <1>0 DEF Sleep
  <2>2. \A q \in Slot : pc'[q] = pc[q] \/ pc'[q] \notin ExitPCs \union {"fork_run"}
    BY <1>3 DEF Sleep, TypeOK, ExitPCs
  <2>3. UNCHANGED state \/ state' = [state EXCEPT ![p] = "SLEEPING"]
    BY <1>3 DEF Sleep, Leave
  <2> QED
    BY <1>3, <2>1, <2>2, <2>3, FamilyKept DEF Sleep, TypeOK, Live
<1>4. ASSUME NEW c \in CPU, NEW p \in Slot, Syscall(c, p) PROVE FamilyInv'
  <2>1. PICK call \in Calls(p) : Goto(p, call)
    BY <1>4 DEF Syscall
  <2>2. call \in PCs \ (ExitPCs \union {"fork_run"})
    BY ConstantsAssumption DEF Calls, PCs, ExitPCs
  <2> QED
    BY <1>4, <2>1, <2>2, FamilyGoto DEF Syscall, procVars
<1>5. ASSUME NEW c \in CPU, NEW p \in Slot, TrapKilled(c, p) \/ TrapReturn(c, p) \/ Pause(c, p)
      PROVE  FamilyInv'
  BY <1>5, FamilyGoto
     DEF TrapKilled, TrapReturn, Pause, PauseDone, PausePrepare, procVars, PCs, ExitPCs
<1>6. ASSUME NEW c \in CPU, NEW p \in Slot, ForkNoSlot(c, p) PROVE FamilyInv'
  BY <1>6, FamilyGoto DEF ForkNoSlot, Failed, procVars, PCs, ExitPCs
<1>7. ASSUME NEW c \in CPU, NEW p \in Slot, ForkLink(c, p) PROVE FamilyInv'
  <2>1. state[p] = "RUNNING" /\ np[p] \in Slot /\ p # 0
    BY <1>7, <1>0, SlotFacts DEF ForkLink, ForkInv, TypeOK
  <2>2. \A r \in Slot : pc'[r] \in ExitPCs => r # p /\ pc[r] \in ExitPCs
    BY <1>7 DEF ForkLink, Goto, TypeOK, ExitPCs
  <2>3. \A r \in Slot : pc'[r] = "fork_run" => parent'[np'[r]] = r
    <3>1. ASSUME NEW r \in Slot, pc'[r] = "fork_run", r # p PROVE parent'[np'[r]] = r
      <4>1. pc[r] = "fork_run" /\ np[r] # 0
        BY <1>7, <3>1 DEF ForkLink, Goto, TypeOK, ForkInv
      <4>2. np[r] # np[p] /\ parent[np[r]] = r
        BY <1>7, <3>1, <4>1 DEF ForkInv, FamilyInv
      <4> QED
        BY <1>7, <2>1, <4>2 DEF ForkLink, TypeOK
    <3> QED
      BY <1>7, <2>1, <3>1 DEF ForkLink, TypeOK
  <2>4. \A q \in Slot : parent'[q] = IF q = np[p] THEN p ELSE parent[q]
    BY <1>7 DEF ForkLink, TypeOK
  <2>5. pc'[InitProc] \notin ExitPCs
    BY <2>2, SlotFacts DEF FamilyInv
  <2> QED
    BY <1>7, <1>a, <2>1, <2>2, <2>3, <2>4, <2>5 DEF ForkLink, FamilyInv, Live
<1>8. ASSUME NEW c \in CPU, NEW p \in Slot, ForkRun(c, p) PROVE FamilyInv'
  <2>1. /\ state[p] = "RUNNING" /\ np[p] \in Slot /\ state[np[p]] = "USED"
        /\ parent[np[p]] = p /\ p # 0
    BY <1>8, <1>0, SlotFacts DEF ForkRun, ForkInv, FamilyInv, TypeOK
  <2>2. \A r \in Slot : pc'[r] \in ExitPCs \union {"fork_run"} =>
          r # p /\ pc'[r] = pc[r] /\ np'[r] = np[r]
    BY <1>8 DEF ForkRun, Goto, TypeOK, ExitPCs
  <2>3. \A r \in Slot : state'[r] = IF r = np[p] THEN "RUNNABLE" ELSE state[r]
    BY <1>8 DEF ForkRun, TypeOK
  <2> QED
    BY <1>8, <1>a, <2>1, <2>2, <2>3, SlotFacts DEF ForkRun, FamilyInv, Live
<1>9. ASSUME NEW c \in CPU, NEW p \in Slot, NEW q \in Slot, ForkAlloc(c, p, q)
      PROVE  FamilyInv'
  <2>1. \A r \in Slot : pc'[r] \in ExitPCs \union {"fork_run"} =>
          pc'[r] = pc[r] /\ np'[r] = np[r]
    BY <1>9 DEF ForkAlloc, TypeOK, ExitPCs
  <2>2. state[q] = "UNUSED" /\ \A r \in Slot : state'[r] = IF r = q THEN "USED" ELSE state[r]
    BY <1>9 DEF ForkAlloc, TypeOK
  <2>3. UNCHANGED parent
    BY <1>9 DEF ForkAlloc
  <2>4. state'[InitProc] \in Live /\ pc'[InitProc] \notin ExitPCs
    BY <2>1, <2>2, SlotFacts DEF FamilyInv, Live
  <2>5. \A r \in Slot : pc'[r] = "fork_run" => parent'[np'[r]] = r
    BY <2>1, <2>3 DEF FamilyInv
  <2>6. \A r \in Slot : parent'[r] # 0 => state'[parent'[r]] \in Live
    BY <1>a, <2>2, <2>3 DEF FamilyInv, Live
  <2> QED
    BY <2>1, <2>2, <2>3, <2>4, <2>5, <2>6 DEF FamilyInv
<1>10. ASSUME NEW c \in CPU, NEW p \in Slot, NEW q \in Slot, ForkNoMemory(c, p, q)
       PROVE  FamilyInv'
  <2>1. UNCHANGED state
    BY <1>10 DEF ForkNoMemory, FreeProc, TypeOK
  <2> QED
    BY <1>10, <2>1, FamilyGoto DEF ForkNoMemory, Failed, PCs, ExitPCs
<1>11. ASSUME NEW c \in CPU, NEW p \in Slot, InitExits(c, p) PROVE FamilyInv'
  BY <1>11 DEF InitExits, procVars, thrVars, FamilyInv
<1>12. ASSUME NEW c \in CPU, NEW p \in Slot, ExitReparent(c, p) PROVE FamilyInv'
  <2>1. \A q \in Slot : parent'[q] = IF parent[q] = p THEN InitProc ELSE parent[q]
    BY <1>12 DEF ExitReparent, Orphans, Children
  <2>2. \A r \in Slot : /\ pc'[r] \in ExitPCs => r = p \/ pc[r] \in ExitPCs
                        /\ pc'[r] # "fork_run"
    BY <1>12, SlotFacts DEF ExitReparent, Goto, TypeOK, WaitLockInv, WaitLockPCs, ExitPCs
  <2>3. p # InitProc /\ state' = state /\ pc'[InitProc] \notin ExitPCs
    BY <1>12, <2>2, SlotFacts DEF ExitReparent, FamilyInv
  <2> QED
    BY <1>a, <2>1, <2>2, <2>3, SlotFacts DEF FamilyInv, Live
<1>13. ASSUME NEW c \in CPU, NEW p \in Slot, ExitWake(c, p) PROVE FamilyInv'
  <2>1. pc[p] \in ExitPCs /\ UNCHANGED <<parent, np>>
    BY <1>13 DEF ExitWake, ExitPCs
  <2>2. \A r \in Slot : /\ pc'[r] \in ExitPCs => pc[r] \in ExitPCs
                        /\ pc'[r] = "fork_run" => pc[r] = "fork_run"
    BY <1>13 DEF ExitWake, Goto, TypeOK, ExitPCs
  <2>3. \A q \in Slot : state'[q] = state[q] \/ (state[q] \in Live /\ state'[q] \in Live)
    BY <1>13, WakeOneLive DEF ExitWake, TypeOK, Live
  <2> QED
    BY <1>a, <2>1, <2>2, <2>3, SlotFacts DEF FamilyInv, Live
<1>14. ASSUME NEW c \in CPU, NEW p \in Slot, ExitZombie(c, p) PROVE FamilyInv'
  <2>1. pc[p] \in ExitPCs /\ state[p] = "RUNNING" /\ UNCHANGED <<pc, np, parent>>
    BY <1>14, <1>0 DEF ExitZombie, ExitPCs, thrVars
  <2>2. \A r \in Slot : state'[r] = IF r = p THEN "ZOMBIE" ELSE state[r]
    BY <1>14 DEF ExitZombie, Leave, TypeOK
  <2> QED
    BY <1>a, <2>1, <2>2, SlotFacts DEF FamilyInv, Live
<1>15. ASSUME NEW c \in CPU, NEW p \in Slot, WaitLock(c, p) PROVE FamilyInv'
  BY <1>15, FamilyGoto DEF WaitLock, procVars, PCs, WaitLockPCs, ExitPCs
<1>16. ASSUME NEW c \in CPU, NEW p \in Slot,
              WaitCopyFails(c, p) \/ WaitFails(c, p) \/ WaitPrepare(c, p)
       PROVE  FamilyInv'
  BY <1>16, FamilyGoto
     DEF WaitCopyFails, WaitFails, Failed, WaitPrepare, procVars, PCs, ExitPCs
<1>17. ASSUME NEW c \in CPU, NEW p \in Slot, WaitReap(c, p) PROVE FamilyInv'
  <2>1. PICK q \in Slot : /\ state[q] = "ZOMBIE"
                          /\ state' = [state EXCEPT ![q] = "UNUSED"]
                          /\ parent' = [parent EXCEPT ![q] = 0]
    BY <1>17 DEF WaitReap, FirstZombie, ZombieKids, Children, FreeProc
  <2>2. \A r \in Slot : /\ state'[r] = IF r = q THEN "UNUSED" ELSE state[r]
                        /\ parent'[r] = IF r = q THEN 0 ELSE parent[r]
    BY <2>1 DEF TypeOK
  <2>3. \A r \in Slot : pc'[r] \in ExitPCs \union {"fork_run"} => pc'[r] = pc[r]
    BY <1>17 DEF WaitReap, Goto, TypeOK, ExitPCs
  <2>4. \A r \in Slot : pc[r] = "fork_run" => np[r] \in Slot /\ np[r] # q
    BY <2>1, SlotFacts DEF ForkInv, TypeOK
  <2>5. UNCHANGED np
    BY <1>17 DEF WaitReap
  <2> QED
    BY <1>a, <2>1, <2>2, <2>3, <2>4, <2>5, SlotFacts DEF FamilyInv, Live
<1>18. ASSUME NEW c \in CPU, NEW p \in Slot, NEW n \in KillPid, Kill(c, p, n)
       PROVE  FamilyInv'
  <2>1. \A q \in Slot : state'[q] = state[q] \/ (state[q] \in Live /\ state'[q] \in Live)
    BY <1>18, KillLive DEF TypeOK, Live
  <2> QED
    BY <1>18, <2>1, FamilyKept DEF Kill, Goto, TypeOK, ExitPCs, Live
<1>19. ASSUME NEW c \in CPU, Enter(c) \/ Sched(c) \/ Back(c) PROVE FamilyInv'
  BY <1>19 DEF Enter, Sched, Back, procVars, thrVars, FamilyInv
<1>20. CASE Tick
  BY <1>20 DEF Tick, procVars, FamilyInv
<1>21. CASE TickWake
  <2>1. \A q \in Slot : state'[q] = state[q] \/ (state[q] \in Live /\ state'[q] \in Live)
    BY <1>21, WakeOneLive DEF TickWake, TypeOK, Live
  <2> QED
    BY <1>21, <2>1, FamilyKept DEF TickWake, thrVars, Live
<1>22. CASE UNCHANGED vars
  BY <1>22 DEF vars, FamilyInv
<1> QED
  BY <1>1, <1>2, <1>3, <1>4, <1>5, <1>6, <1>7, <1>8, <1>9, <1>10, <1>11, <1>12,
     <1>13, <1>14, <1>15, <1>16, <1>17, <1>18, <1>19, <1>20, <1>21, <1>22
     DEF Next, Trap, Fork, Exit, Wait, Halted

-----------------------------------------------------------------------------
(* Pids: below nextpid, so allocpid() hands out a new one. *)
PidInv == UniquePids /\ \A p \in Slot : pid[p] < nextpid

(* A step that allocates and frees no slot keeps PidInv. *)
LEMMA PidKept ==
  ASSUME PidInv, UNCHANGED <<pid, nextpid>>,
         \A q \in Slot : state[q] = "UNUSED" => state'[q] = "UNUSED"
  PROVE  PidInv'
  BY DEF PidInv, UniquePids

(* Every step keeps PidInv. *)
LEMMA StepPid == TypeOK /\ SwitchInv /\ ForkInv /\ PidInv /\ [Next]_vars => PidInv'
<1> SUFFICES ASSUME TypeOK, SwitchInv, ForkInv, PidInv, [Next]_vars PROVE PidInv'
  OBVIOUS
<1>0. ASSUME NEW c \in CPU, NEW p \in Slot, Running(c, p) PROVE state[p] = "RUNNING"
  BY <1>0 DEF Running, SwitchInv
<1>1. ASSUME NEW c \in CPU, NEW p \in Slot,
             Dispatch(c, p) \/ Yield(c, p) \/ ExitZombie(c, p) \/ Sleep(c, p)
      PROVE  PidInv'
  <2>1. state[p] # "UNUSED" /\ UNCHANGED <<pid, nextpid>>
    BY <1>1, <1>0 DEF Dispatch, Yield, ExitZombie, Sleep
  <2>2. UNCHANGED state \/ \E s \in States : state' = [state EXCEPT ![p] = s]
    BY <1>1 DEF Dispatch, Yield, ExitZombie, Sleep, Leave, States
  <2> QED
    BY <2>1, <2>2, PidKept DEF TypeOK
<1>2. ASSUME NEW c \in CPU, NEW p \in Slot,
             Trap(c, p) \/ Pause(c, p) \/ ForkNoSlot(c, p) \/ ForkLink(c, p)
               \/ InitExits(c, p) \/ ExitReparent(c, p)
      PROVE  PidInv'
  BY <1>2, PidKept
     DEF Trap, Syscall, TrapKilled, TrapReturn, Pause, PauseDone, PausePrepare,
         ForkNoSlot, ForkLink, InitExits, ExitReparent, procVars
<1>3. ASSUME NEW c \in CPU, NEW p \in Slot,
             WaitLock(c, p) \/ WaitCopyFails(c, p) \/ WaitFails(c, p) \/ WaitPrepare(c, p)
      PROVE  PidInv'
  BY <1>3, PidKept DEF WaitLock, WaitCopyFails, WaitFails, WaitPrepare, procVars
<1>4. ASSUME NEW c \in CPU, NEW p \in Slot, ForkRun(c, p) PROVE PidInv'
  <2>1. np[p] \in Slot /\ state[np[p]] = "USED"
    BY <1>4, SlotFacts DEF ForkRun, ForkInv, TypeOK
  <2> QED
    BY <1>4, <2>1, PidKept DEF ForkRun, TypeOK
<1>5. ASSUME NEW c \in CPU, NEW p \in Slot, NEW q \in Slot, ForkAlloc(c, p, q) PROVE PidInv'
  <2>1. /\ \A r \in Slot : /\ pid'[r] = IF r = q THEN nextpid ELSE pid[r]
                           /\ state'[r] = IF r = q THEN "USED" ELSE state[r]
        /\ nextpid' = nextpid + 1
    BY <1>5 DEF ForkAlloc, TakePid, TypeOK
  <2>2. nextpid \in Nat \ {0} /\ \A r \in Slot : pid[r] \in Nat
    BY SlotFacts DEF TypeOK
  <2> QED
    BY <2>1, <2>2 DEF PidInv, UniquePids
<1>6. ASSUME NEW c \in CPU, NEW p \in Slot, NEW q \in Slot, ForkNoMemory(c, p, q)
      PROVE  PidInv'
  <2>1. /\ \A r \in Slot : /\ pid'[r] = IF r = q THEN 0 ELSE pid[r]
                           /\ state'[r] = IF r = q THEN "UNUSED" ELSE state[r]
        /\ nextpid' = nextpid + 1
    BY <1>6 DEF ForkNoMemory, FreeProc, TakePid, TypeOK
  <2>2. nextpid \in Nat \ {0} /\ \A r \in Slot : pid[r] \in Nat
    BY SlotFacts DEF TypeOK
  <2> QED
    BY <2>1, <2>2 DEF PidInv, UniquePids
<1>7. ASSUME NEW c \in CPU, NEW p \in Slot, WaitReap(c, p) PROVE PidInv'
  <2>1. PICK q \in Slot : FreeProc(q)
    BY <1>7 DEF WaitReap
  <2>2. /\ \A r \in Slot : /\ pid'[r] = IF r = q THEN 0 ELSE pid[r]
                           /\ state'[r] = IF r = q THEN "UNUSED" ELSE state[r]
        /\ nextpid' = nextpid
    BY <1>7, <2>1 DEF WaitReap, FreeProc, TypeOK
  <2>3. nextpid \in Nat \ {0} /\ \A r \in Slot : pid[r] \in Nat
    BY SlotFacts DEF TypeOK
  <2> QED
    BY <2>2, <2>3 DEF PidInv, UniquePids
<1>8. ASSUME NEW c \in CPU, NEW p \in Slot, ExitWake(c, p) PROVE PidInv'
  BY <1>8, PidKept, WakeOneLive DEF ExitWake, TypeOK
<1>9. ASSUME NEW c \in CPU, NEW p \in Slot, NEW n \in KillPid, Kill(c, p, n) PROVE PidInv'
  <2>1. UNCHANGED <<pid, nextpid>>
    BY <1>9 DEF Kill
  <2> QED
    BY <1>9, <2>1, PidKept, KillLive DEF TypeOK
<1>10. ASSUME NEW c \in CPU, Enter(c) \/ Sched(c) \/ Back(c) PROVE PidInv'
  BY <1>10, PidKept DEF Enter, Sched, Back, procVars
<1>11. CASE Tick
  BY <1>11, PidKept DEF Tick, procVars
<1>12. CASE TickWake
  BY <1>12, PidKept, WakeOneLive DEF TickWake, TypeOK
<1>13. CASE UNCHANGED vars
  BY <1>13, PidKept DEF vars
<1> QED
  BY <1>1, <1>2, <1>3, <1>4, <1>5, <1>6, <1>7, <1>8, <1>9, <1>10, <1>11, <1>12, <1>13
     DEF Next, Fork, Exit, Wait, Halted

-----------------------------------------------------------------------------
(* The inductive invariant of the process table. *)
IInv == TypeOK /\ SwitchInv /\ ForkInv /\ WaitLockInv /\ FamilyInv /\ PidInv

(* It holds when userinit() has run. *)
LEMMA InitIInv == Init => IInv
<1> SUFFICES ASSUME Init PROVE IInv
  OBVIOUS
<1>1. TypeOK
  BY InitTypeOK
<1>2. SwitchInv
  BY SlotFacts DEF Init, SwitchInv, Switching
<1>3. ForkInv
  BY SlotFacts DEF Init, ForkInv
<1>4. WaitLockInv
  BY SlotFacts DEF Init, WaitLockInv, WaitLockPCs
<1>5. FamilyInv
  BY SlotFacts DEF Init, FamilyInv, ExitPCs, Live
<1>6. PidInv
  BY SlotFacts DEF Init, PidInv, UniquePids
<1> QED
  BY <1>1, <1>2, <1>3, <1>4, <1>5, <1>6 DEF IInv

(* The inductive invariant holds in every reachable state. *)
THEOREM Inductive == Spec => []IInv
<1>1. IInv /\ [Next]_vars => IInv'
  BY StepTypeOK, StepSwitch, StepFork, StepWaitLock, StepFamily, StepPid DEF IInv
<1> QED
  BY InitIInv, <1>1, PTL DEF Spec

(* No two CPUs are ever on one kernel stack, and no CPU on the stack of a  *)
(* free slot: the lock held across swtch() by yield(), sleep(), kexit()    *)
(* and scheduler() suffices, for any number of CPUs and processes.         *)
THEOREM StacksExclusive == Spec => []StackExclusive
<1>1. IInv => StackExclusive
  BY SlotFacts DEF IInv, TypeOK, SwitchInv, StackExclusive, Phases
<1> QED
  BY Inductive, <1>1, PTL

(* The panics of sched() are unreachable: a CPU enters the switch with     *)
(* p->lock as its only lock and with p no longer RUNNING.                  *)
THEOREM SchedNeverPanics == Spec => []SchedAsserts
<1>1. IInv => SchedAsserts
  BY SlotFacts DEF IInv, TypeOK, SwitchInv, WaitLockInv, SchedAsserts, Switching, Phases
<1> QED
  BY Inductive, <1>1, PTL

(* Every process's parent can still wait() for it: reparent() under        *)
(* wait_lock leaves no child with a dead parent, whatever races with it.   *)
THEOREM ParentsLive == Spec => []LiveParent
<1>1. IInv => LiveParent
  BY SlotFacts DEF IInv, FamilyInv, LiveParent, Live
<1> QED
  BY Inductive, <1>1, PTL

(* Live processes have distinct, non-zero pids: allocpid() under pid_lock, *)
(* with freeproc() clearing the pid, never hands out one that is in use.   *)
THEOREM PidsUnique == Spec => []UniquePids
<1>1. IInv => UniquePids
  BY DEF IInv, PidInv
<1> QED
  BY Inductive, <1>1, PTL

-----------------------------------------------------------------------------
(* Sleep and wakeup: no wakeup is lost and zombies stay dead.              *)
(* The inductive invariant.                                                *)

(* Where a process is past the test that made it sleep: between            *)
(* sleep_prepare() and sleep() with no wakeup yet, or asleep.              *)
Waiting(p) == \/ pc[p] = "wait_sleep" /\ chan[p] # 0
              \/ pc[p] = "wait" /\ state[p] = "SLEEPING"
Pausing(p) == \/ pc[p] = "pause_sleep" /\ chan[p] # 0
              \/ pc[p] = "pause" /\ state[p] = "SLEEPING"

(* The loop of wakeup() in kexit() is at a slot. *)
IndexInv == \A p \in Slot : pc[p] \in {"exit_init", "exit_parent"} => wi[p] \in Slot

(* What a process sleeps on, or is about to. *)
ChanInv == \A p \in Slot :
  /\ pc[p] = "wait_sleep" => chan[p] \in {0, p}
  /\ pc[p] = "pause_sleep" => chan[p] \in {0, TICKS}
  /\ state[p] = "SLEEPING" => \/ pc[p] = "wait" /\ chan[p] = p
                              \/ pc[p] = "pause" /\ chan[p] = TICKS

(* reparent() has given init children and not yet reached it in wakeup();  *)
(* kexit() of q has been past slot p in its wakeup(p->parent).             *)
Reparenting  == \E r \in Slot : pc[r] = "exit_init" /\ wi[r] <= InitProc
Passed(p, q) == \/ pc[q] = "exit_parent" /\ wi[q] > p
                \/ pc[q] = "exit_zombie" /\ state[q] \in Live

(* Of a parent that waits no child is a zombie that has not come by, and   *)
(* none that has been past it is still to become one.                      *)
WaitInv == \A p, q \in Slot : Waiting(p) /\ parent[q] = p =>
  /\ state[q] = "ZOMBIE" => p = InitProc /\ Reparenting
  /\ ~Passed(p, q)

(* Who pauses is owed a tick, or the clock has still to come by. *)
PauseInv == \A p \in Slot : Pausing(p) => left[p] > 0 \/ (waking # 0 /\ waking <= p)

SleepInv == IndexInv /\ ChanInv /\ WaitInv /\ PauseInv

-----------------------------------------------------------------------------
(* What the lemmas below need of the invariant of ProcProofs.              *)

(* A process on a CPU is RUNNING. *)
LEMMA OnCpu ==
  ASSUME SwitchInv, NEW c \in CPU, NEW p \in Slot, Running(c, p)
  PROVE  state[p] = "RUNNING"
  BY DEF Running, SwitchInv

(* One thread at a time is in the sections of wait_lock. *)
LEMMA HolderAlone ==
  ASSUME WaitLockInv, NEW p \in Slot, NEW q \in Slot,
         pc[p] \in WaitLockPCs, state[p] \in Live,
         pc[q] \in WaitLockPCs, pc[q] = "exit_zombie" => state[q] \in Live
  PROVE  p = q
  BY DEF WaitLockInv, Live

(* Nobody is in them while wait_lock is free. *)
LEMMA NobodyHolds ==
  ASSUME WaitLockInv, wait_lock = None, NEW q \in Slot, pc[q] \in WaitLockPCs
  PROVE  pc[q] = "exit_zombie" /\ state[q] \notin Live
  BY SlotFacts DEF WaitLockInv, Live

-----------------------------------------------------------------------------
(* What keeps each part of the invariant. *)

(* Nobody starts or moves on in the loop of wakeup() in kexit(). *)
LEMMA IndexKept ==
  ASSUME IndexInv,
         \A q \in Slot : pc'[q] \in {"exit_init", "exit_parent"} =>
           pc'[q] = pc[q] /\ wi'[q] = wi[q]
  PROVE  IndexInv'
  BY DEF IndexInv

(* Nobody goes to sleep or changes what it sleeps on. *)
LEMMA ChanKept ==
  ASSUME ChanInv,
         \A q \in Slot :
           \/ pc'[q] = pc[q] /\ chan'[q] = chan[q] /\ (state'[q] = "SLEEPING" => state[q] = "SLEEPING")
           \/ pc'[q] \notin {"wait_sleep", "pause_sleep"} /\ state'[q] # "SLEEPING"
  PROVE  ChanInv'
  BY DEF ChanInv

(* Nobody starts to wait, dies, or moves on along the exit path. *)
LEMMA WaitKept ==
  ASSUME WaitInv, UNCHANGED parent,
         \A q \in Slot : Waiting(q)' => Waiting(q),
         \A q \in Slot : state'[q] = "ZOMBIE" => state[q] = "ZOMBIE",
         \A q \in Slot : pc[q] = "exit_init" => pc'[q] = pc[q] /\ wi'[q] = wi[q],
         \A q \in Slot : pc'[q] \in {"exit_parent", "exit_zombie"} =>
           pc'[q] = pc[q] /\ wi'[q] = wi[q] /\ (state'[q] \in Live => state[q] \in Live)
  PROVE  WaitInv'
<1>1. ASSUME NEW p \in Slot, NEW q \in Slot, Passed(p, q)' PROVE Passed(p, q)
  BY <1>1 DEF Passed
<1>2. ASSUME Reparenting PROVE Reparenting'
  BY <1>2 DEF Reparenting
<1> QED
  BY <1>1, <1>2 DEF WaitInv

(* Nobody starts to pause, and no tick comes. *)
LEMMA PauseKept ==
  ASSUME PauseInv, UNCHANGED waking,
         \A q \in Slot : Pausing(q)' => Pausing(q) /\ left'[q] = left[q]
  PROVE  PauseInv'
  BY DEF PauseInv

(* A step that puts nobody to sleep and takes nobody along the exit path:  *)
(* who sleeps is left alone or made RUNNABLE, who moves does not sleep.    *)
LEMMA SleepKept ==
  ASSUME SleepInv, UNCHANGED <<wi, waking>>,
         \A q \in Slot :
           \/ pc'[q] = pc[q] /\ chan'[q] = chan[q] /\ left'[q] = left[q]
                /\ (state'[q] = "SLEEPING" => state[q] = "SLEEPING")
           \/ /\ pc'[q] \notin {"wait_sleep", "pause_sleep"} /\ state'[q] # "SLEEPING"
              /\ pc'[q] = pc[q] \/ (pc'[q] \notin ExitPCs /\ pc[q] # "exit_init"),
         \A q \in Slot : state'[q] = "ZOMBIE" => state[q] = "ZOMBIE",
         \A q \in Slot : pc'[q] = "exit_zombie" /\ state'[q] \in Live => state[q] \in Live,
         \A q \in Slot : \/ parent'[q] = parent[q] \/ parent'[q] = 0
                         \/ pc'[q] = "user" /\ state'[q] # "ZOMBIE"
  PROVE  SleepInv'
<1>1. IndexInv'
  BY IndexKept DEF SleepInv, ExitPCs
<1>2. ChanInv'
  BY ChanKept DEF SleepInv
<1>3. \A q \in Slot : /\ Waiting(q)' => Waiting(q)
                      /\ Pausing(q)' => Pausing(q) /\ left'[q] = left[q]
  BY DEF Waiting, Pausing
<1>4. PauseInv'
  BY <1>3, PauseKept DEF SleepInv
<1>5. ASSUME NEW p \in Slot, NEW q \in Slot, Passed(p, q)' PROVE Passed(p, q)
  BY <1>5 DEF Passed, ExitPCs
<1>6. ASSUME Reparenting PROVE Reparenting'
  BY <1>6 DEF Reparenting
<1>7. ASSUME NEW p \in Slot, NEW q \in Slot, Waiting(p)', parent'[q] = p
      PROVE  /\ state'[q] = "ZOMBIE" => p = InitProc /\ Reparenting'
             /\ ~Passed(p, q)'
  <2>1. CASE parent[q] = p
    BY <1>3, <1>5, <1>6, <1>7, <2>1 DEF SleepInv, WaitInv
  <2>2. CASE parent[q] # p
    BY <1>7, <2>2, SlotFacts DEF Passed
  <2> QED
    BY <2>1, <2>2
<1>8. WaitInv'
  BY <1>7 DEF WaitInv
<1> QED
  BY <1>1, <1>2, <1>4, <1>8 DEF SleepInv

(* One slot of wakeup(ch): who waits or pauses afterwards did so before,   *)
(* and the slot does not sleep on ch any more.                             *)
LEMMA WakeUp ==
  ASSUME TypeOK, ChanInv, NEW q \in Slot, NEW ch, WakeOne(q, ch),
         \A r \in Slot : pc'[r] = pc[r] \/ pc'[r] \in ExitPCs
  PROVE  /\ \A r \in Slot : Waiting(r)' => Waiting(r)
         /\ \A r \in Slot : Pausing(r)' => Pausing(r)
         /\ ch = q => ~Waiting(q)'
         /\ ch = TICKS => ~Pausing(q)'
<1>1. \A r \in Slot : chan'[r] = IF r = q /\ chan[r] = ch THEN 0 ELSE chan[r]
  BY DEF WakeOne, TypeOK
<1>2. \A r \in Slot : state'[r] = IF r = q /\ chan[r] = ch /\ state[r] = "SLEEPING"
                                    THEN "RUNNABLE" ELSE state[r]
  BY DEF WakeOne, TypeOK
<1>3. \A r \in Slot : /\ Waiting(r)' => Waiting(r)
                      /\ Pausing(r)' => Pausing(r)
  BY <1>1, <1>2 DEF Waiting, Pausing, ExitPCs
<1>4. ASSUME ch = q PROVE ~Waiting(q)'
  BY <1>1, <1>2, <1>4, SlotFacts DEF Waiting, ChanInv, ExitPCs
<1>5. ASSUME ch = TICKS PROVE ~Pausing(q)'
  BY <1>1, <1>2, <1>5, SlotFacts DEF Pausing, ChanInv, ExitPCs
<1> QED
  BY <1>3, <1>4, <1>5

(* One slot of wakeup() keeps what processes sleep on. *)
LEMMA WakeChan ==
  ASSUME TypeOK, ChanInv, NEW q \in Slot, NEW ch, WakeOne(q, ch),
         \A r \in Slot : pc'[r] = pc[r] \/ (pc'[r] \in ExitPCs /\ state[r] # "SLEEPING")
  PROVE  ChanInv'
<1>1. \A r \in Slot : chan'[r] = IF r = q /\ chan[r] = ch THEN 0 ELSE chan[r]
  BY DEF WakeOne, TypeOK
<1>2. \A r \in Slot : state'[r] = IF r = q /\ chan[r] = ch /\ state[r] = "SLEEPING"
                                    THEN "RUNNABLE" ELSE state[r]
  BY DEF WakeOne, TypeOK
<1> QED
  BY <1>1, <1>2, SlotFacts DEF ChanInv, ExitPCs

-----------------------------------------------------------------------------
(* The steps that SleepKept does not cover.                                *)

(* sleep(): who goes to sleep was waiting or pausing before. *)
LEMMA SleepStep ==
  ASSUME TypeOK, SwitchInv, SleepInv, NEW c \in CPU, NEW p \in Slot, Sleep(c, p)
  PROVE  SleepInv'
<1>1. /\ state[p] = "RUNNING" /\ pc[p] \in {"wait_sleep", "pause_sleep"}
      /\ UNCHANGED <<parent, chan, wi, left, waking>>
  BY OnCpu DEF Sleep
<1>2. \A q \in Slot : pc'[q] = IF q # p THEN pc[q]
                               ELSE IF pc[p] = "wait_sleep" THEN "wait" ELSE "pause"
  BY DEF Sleep, TypeOK
<1>3. \/ chan[p] # 0 /\ \A q \in Slot : state'[q] = IF q = p THEN "SLEEPING" ELSE state[q]
      \/ UNCHANGED state
  BY DEF Sleep, MustSleep, Leave, TypeOK
<1>4. IndexInv'
  BY <1>1, <1>2, IndexKept DEF SleepInv
<1>5. ChanInv'
  BY <1>1, <1>2, <1>3 DEF SleepInv, ChanInv
<1>6. \A q \in Slot : Waiting(q)' => Waiting(q)
  BY <1>1, <1>2, <1>3 DEF Waiting
<1>7. \A q \in Slot : Pausing(q)' => Pausing(q)
  BY <1>1, <1>2, <1>3 DEF Pausing
<1>8. PauseInv'
  BY <1>1, <1>7, PauseKept DEF SleepInv
<1>9. WaitInv'
  BY <1>1, <1>2, <1>3, <1>6, WaitKept DEF SleepInv, Live
<1> QED
  BY <1>4, <1>5, <1>8, <1>9 DEF SleepInv

(* kwait() prepares to sleep: it has just seen that no child is a zombie,  *)
(* and with wait_lock held no child is on its way out.                     *)
LEMMA WaitPrepareStep ==
  ASSUME TypeOK, SwitchInv, WaitLockInv, SleepInv,
         NEW c \in CPU, NEW p \in Slot, WaitPrepare(c, p)
  PROVE  SleepInv'
<1>1. /\ state[p] = "RUNNING" /\ pc[p] = "wait_scan" /\ ZombieKids(p) = {}
      /\ UNCHANGED <<parent, state, wi, left, waking>>
  BY OnCpu DEF WaitPrepare
<1>2. \A q \in Slot : /\ pc'[q] = IF q = p THEN "wait_sleep" ELSE pc[q]
                      /\ chan'[q] = IF q = p THEN p ELSE chan[q]
  BY DEF WaitPrepare, Goto, TypeOK
<1>3. IndexInv'
  BY <1>1, <1>2, IndexKept DEF SleepInv
<1>4. ChanInv'
  BY <1>1, <1>2 DEF SleepInv, ChanInv
<1>5. \A q \in Slot : Pausing(q)' => Pausing(q)
  BY <1>1, <1>2 DEF Pausing
<1>6. PauseInv'
  BY <1>1, <1>5, PauseKept DEF SleepInv
<1>7. ASSUME NEW a \in Slot, NEW b \in Slot, Passed(a, b)' PROVE Passed(a, b) /\ b # p
  BY <1>1, <1>2, <1>7 DEF Passed
<1>8. ASSUME Reparenting PROVE Reparenting'
  BY <1>1, <1>2, <1>8 DEF Reparenting
<1>9. ASSUME NEW a \in Slot, NEW b \in Slot, Waiting(a)', parent[b] = a
      PROVE  /\ state[b] = "ZOMBIE" => a = InitProc /\ Reparenting'
             /\ ~Passed(a, b)'
  <2>1. CASE a = p
    <3>1. state[b] # "ZOMBIE"
      BY <1>1, <1>9, <2>1 DEF ZombieKids, Children
    <3>2. ASSUME Passed(a, b)' PROVE FALSE
      <4>1. Passed(a, b) /\ b # p
        BY <1>7, <3>2
      <4>2. pc[b] \in WaitLockPCs /\ (pc[b] = "exit_zombie" => state[b] \in Live)
        BY <4>1 DEF Passed, WaitLockPCs
      <4> QED
        BY <1>1, <4>1, <4>2, HolderAlone DEF Live, WaitLockPCs
    <3> QED
      BY <3>1, <3>2
  <2>2. CASE a # p
    <3>1. Waiting(a)
      BY <1>1, <1>2, <1>9, <2>2 DEF Waiting
    <3> QED
      BY <1>7, <1>8, <1>9, <3>1 DEF SleepInv, WaitInv
  <2> QED
    BY <2>1, <2>2
<1>10. WaitInv'
  BY <1>1, <1>9 DEF WaitInv
<1> QED
  BY <1>3, <1>4, <1>6, <1>10 DEF SleepInv

(* sys_pause() prepares to sleep: ticks are still to come. *)
LEMMA PausePrepareStep ==
  ASSUME TypeOK, SwitchInv, SleepInv, NEW c \in CPU, NEW p \in Slot, PausePrepare(c, p)
  PROVE  SleepInv'
<1>1. /\ state[p] = "RUNNING" /\ pc[p] = "pause" /\ left[p] > 0
      /\ UNCHANGED <<parent, state, wi, left, waking>>
  BY OnCpu DEF PausePrepare
<1>2. \A q \in Slot : /\ pc'[q] = IF q = p THEN "pause_sleep" ELSE pc[q]
                      /\ chan'[q] = IF q = p THEN TICKS ELSE chan[q]
  BY DEF PausePrepare, Goto, TypeOK
<1>3. IndexInv'
  BY <1>1, <1>2, IndexKept DEF SleepInv
<1>4. ChanInv'
  BY <1>1, <1>2 DEF SleepInv, ChanInv
<1>5. \A q \in Slot : q # p => (Pausing(q)' => Pausing(q))
  BY <1>1, <1>2 DEF Pausing
<1>6. PauseInv'
  BY <1>1, <1>5 DEF SleepInv, PauseInv
<1>7. \A q \in Slot : Waiting(q)' => Waiting(q)
  BY <1>1, <1>2 DEF Waiting
<1>8. WaitInv'
  BY <1>1, <1>2, <1>7, WaitKept DEF SleepInv
<1> QED
  BY <1>3, <1>4, <1>6, <1>8 DEF SleepInv

(* kexit() takes wait_lock and gives its children to init: the zombies     *)
(* among them are what the wakeup(initproc) that follows is for.           *)
LEMMA ReparentStep ==
  ASSUME TypeOK, SwitchInv, WaitLockInv, SleepInv,
         NEW c \in CPU, NEW p \in Slot, ExitReparent(c, p)
  PROVE  SleepInv'
<1>1. /\ state[p] = "RUNNING" /\ pc[p] = "exit" /\ wait_lock = None
      /\ UNCHANGED <<state, chan, left, waking>>
  BY OnCpu DEF ExitReparent
<1>2. \A q \in Slot : /\ pc'[q] = IF q # p THEN pc[q]
                                  ELSE IF Orphans(p) = {} THEN "exit_parent" ELSE "exit_init"
                      /\ wi'[q] = IF q = p THEN 1 ELSE wi[q]
                      /\ parent'[q] = IF parent[q] = p THEN InitProc ELSE parent[q]
  BY DEF ExitReparent, Goto, TypeOK, Orphans, Children
<1>3. 1 \in Slot /\ 1 = InitProc /\ \A q \in Slot : ~(1 > q)
  BY SlotFacts DEF Slot, InitProc
<1>4. IndexInv'
  BY <1>2, <1>3 DEF SleepInv, IndexInv
<1>5. ChanInv'
  BY <1>1, <1>2 DEF SleepInv, ChanInv
<1>6. \A q \in Slot : /\ Waiting(q)' => Waiting(q)
                      /\ Pausing(q)' => Pausing(q)
  BY <1>1, <1>2 DEF Waiting, Pausing
<1>7. PauseInv'
  BY <1>1, <1>6, PauseKept DEF SleepInv
<1>8. ~Reparenting
  BY <1>1, NobodyHolds DEF Reparenting, WaitLockPCs
<1>9. ASSUME NEW a \in Slot, NEW b \in Slot, Passed(a, b)' PROVE FALSE
  <2>1. b # p
    BY <1>2, <1>3, <1>9 DEF Passed
  <2>2. Passed(a, b)
    BY <1>1, <1>2, <1>9, <2>1 DEF Passed
  <2> QED
    BY <1>1, <2>2, NobodyHolds DEF Passed, WaitLockPCs
<1>10. ASSUME NEW a \in Slot, NEW b \in Slot, Waiting(a)', parent'[b] = a, state'[b] = "ZOMBIE"
       PROVE  a = InitProc /\ Reparenting'
  <2>1. parent[b] # a
    BY <1>1, <1>6, <1>8, <1>10 DEF SleepInv, WaitInv
  <2>2. parent[b] = p /\ a = InitProc
    BY <1>2, <1>10, <2>1
  <2>3. Orphans(p) # {}
    BY <2>2 DEF Orphans, Children
  <2>4. pc'[p] = "exit_init" /\ wi'[p] <= InitProc
    BY <1>2, <1>3, <2>3
  <2> QED
    BY <2>2, <2>4 DEF Reparenting
<1>11. WaitInv'
  BY <1>9, <1>10 DEF WaitInv
<1> QED
  BY <1>4, <1>5, <1>7, <1>11 DEF SleepInv

(* One slot of the wakeup() in reparent() or kexit(): what has been passed *)
(* does not wait any more.                                                 *)
LEMMA ExitWakeStep ==
  ASSUME TypeOK, SwitchInv, WaitLockInv, SleepInv,
         NEW c \in CPU, NEW p \in Slot, ExitWake(c, p)
  PROVE  SleepInv'
<1>0. pc[p] \in {"exit_init", "exit_parent"} /\ wi[p] \in Slot
  BY DEF ExitWake, SleepInv, IndexInv
<1> PICK w \in Slot : w = wi[p]
  BY <1>0
<1> PICK ch : ch = IF pc[p] = "exit_init" THEN InitProc ELSE parent[p]
  OBVIOUS
<1>1. state[p] = "RUNNING" /\ WakeOne(w, ch) /\ UNCHANGED <<parent, left, waking>>
  BY OnCpu DEF ExitWake
<1>2. \A q \in Slot : q # p => pc'[q] = pc[q] /\ wi'[q] = wi[q]
  BY DEF ExitWake, Goto, TypeOK
<1>3. \/ w < NPROC /\ pc'[p] = pc[p] /\ wi'[p] = w + 1
      \/ w = NPROC /\ pc[p] = "exit_init" /\ pc'[p] = "exit_parent" /\ wi'[p] = 1
      \/ w = NPROC /\ pc[p] = "exit_parent" /\ pc'[p] = "exit_zombie" /\ wi'[p] = 0
  <2>1. w < NPROC \/ (~(w < NPROC) /\ w = NPROC)
    BY SlotFacts DEF Slot
  <2>2. CASE w < NPROC
    BY <2>2 DEF ExitWake, TypeOK
  <2>3. CASE ~(w < NPROC) /\ w = NPROC
    BY <1>0, <2>3 DEF ExitWake, Goto, TypeOK
  <2> QED
    BY <2>1, <2>2, <2>3
<1>4. NPROC \in Nat /\ 1 \in Slot /\ 1 = InitProc
  BY SlotFacts DEF Slot, InitProc
<1>5. IndexInv'
  <2>1. pc'[p] \in {"exit_init", "exit_parent"} => wi'[p] \in Slot
    BY <1>0, <1>3, <1>4 DEF Slot
  <2> QED
    BY <1>2, <2>1 DEF SleepInv, IndexInv
<1>6. \A q \in Slot : pc'[q] = pc[q] \/ (pc'[q] \in ExitPCs /\ state[q] # "SLEEPING")
  BY <1>0, <1>1, <1>2, <1>3 DEF ExitPCs
<1>7. ChanInv'
  BY <1>1, <1>6, WakeChan DEF SleepInv
<1>8. /\ \A r \in Slot : Waiting(r)' => Waiting(r)
      /\ \A r \in Slot : Pausing(r)' => Pausing(r)
      /\ ch = w => ~Waiting(w)'
  BY <1>1, <1>6, WakeUp DEF SleepInv
<1>9. PauseInv'
  BY <1>1, <1>8, PauseKept DEF SleepInv
<1>10. \A q \in Slot : /\ state'[q] = "ZOMBIE" => state[q] = "ZOMBIE"
                       /\ state'[q] \in Live => state[q] \in Live
  BY <1>1, WakeOneLive DEF TypeOK, Live
<1>11. ASSUME NEW a \in Slot, NEW b \in Slot, Waiting(a)', parent[b] = a, state'[b] = "ZOMBIE"
       PROVE  FALSE
  <2>1. a = InitProc /\ Reparenting
    BY <1>8, <1>10, <1>11 DEF SleepInv, WaitInv
  <2>2. PICK r \in Slot : pc[r] = "exit_init" /\ wi[r] <= InitProc
    BY <2>1 DEF Reparenting
  <2>3. r = p
    BY <1>0, <1>1, <2>2, HolderAlone DEF WaitLockPCs, Live
  <2>4. w = InitProc /\ ch = InitProc
    BY <1>4, <2>2, <2>3 DEF Slot
  <2> QED
    BY <1>8, <1>11, <2>1, <2>4
<1>12. ASSUME NEW a \in Slot, NEW b \in Slot, Waiting(a)', parent[b] = a, Passed(a, b)'
       PROVE  FALSE
  <2>1. ~Passed(a, b)
    BY <1>8, <1>12 DEF SleepInv, WaitInv
  <2>2. b = p
    BY <1>2, <1>10, <1>12, <2>1 DEF Passed
  <2>3. pc[p] = "exit_parent" /\ w >= a
    BY <1>0, <1>3, <1>4, <1>12, <2>2 DEF Passed, Slot
  <2>4. w = a
    BY <2>1, <2>2, <2>3 DEF Passed, Slot
  <2> QED
    BY <1>8, <1>12, <2>2, <2>3, <2>4
<1>13. WaitInv'
  BY <1>1, <1>11, <1>12 DEF WaitInv
<1> QED
  BY <1>5, <1>7, <1>9, <1>13 DEF SleepInv

(* kexit() of p becomes a zombie: its parent was woken. *)
LEMMA ExitZombieStep ==
  ASSUME TypeOK, SwitchInv, SleepInv, NEW c \in CPU, NEW p \in Slot, ExitZombie(c, p)
  PROVE  SleepInv'
<1>1. /\ state[p] = "RUNNING" /\ pc[p] = "exit_zombie"
      /\ UNCHANGED <<parent, chan, pc, wi, left, waking>>
  BY OnCpu DEF ExitZombie, thrVars
<1>2. \A q \in Slot : state'[q] = IF q = p THEN "ZOMBIE" ELSE state[q]
  BY DEF ExitZombie, Leave, TypeOK
<1>3. IndexInv'
  BY <1>1, IndexKept DEF SleepInv
<1>4. ChanInv'
  BY <1>1, <1>2, ChanKept DEF SleepInv
<1>5. \A q \in Slot : /\ Waiting(q)' => Waiting(q)
                      /\ Pausing(q)' => Pausing(q)
  BY <1>1, <1>2 DEF Waiting, Pausing
<1>6. PauseInv'
  BY <1>1, <1>5, PauseKept DEF SleepInv
<1>7. \A a \in Slot : Passed(a, p)
  BY <1>1 DEF Passed, Live
<1>8. \A a, b \in Slot : Passed(a, b)' => Passed(a, b)
  BY <1>1, <1>2 DEF Passed, Live
<1>9. Reparenting => Reparenting'
  BY <1>1 DEF Reparenting
<1>10. WaitInv'
  BY <1>1, <1>2, <1>5, <1>7, <1>8, <1>9 DEF SleepInv, WaitInv
<1> QED
  BY <1>3, <1>4, <1>6, <1>10 DEF SleepInv

(* clockintr(): the tick it counts is the one it has still to announce. *)
LEMMA TickStep ==
  ASSUME TypeOK, SleepInv, Tick
  PROVE  SleepInv'
<1>1. UNCHANGED <<state, parent, chan, pc, wi>> /\ waking = 0 /\ waking' = 1
  BY DEF Tick, procVars
<1>2. IndexInv' /\ ChanInv'
  BY <1>1, IndexKept, ChanKept DEF SleepInv
<1>3. WaitInv'
  BY <1>1, WaitKept DEF SleepInv, Waiting
<1>4. \A q \in Slot : 1 <= q
  BY DEF Slot
<1>5. PauseInv'
  BY <1>1, <1>4 DEF PauseInv
<1> QED
  BY <1>2, <1>3, <1>5 DEF SleepInv

(* clockintr(): one slot of wakeup(&ticks). *)
LEMMA TickWakeStep ==
  ASSUME TypeOK, SleepInv, TickWake
  PROVE  SleepInv'
<1>1. /\ UNCHANGED <<parent, pc, wi, left>> /\ waking # 0 /\ WakeOne(waking, TICKS)
      /\ waking' = IF waking < NPROC THEN waking + 1 ELSE 0
  BY DEF TickWake, thrVars, NextSlot
<1> PICK w \in Slot : w = waking
  BY <1>1, SlotFacts DEF TypeOK
<1>2. w \in 1..NPROC /\ NPROC \in Nat
  BY SlotFacts DEF Slot
<1>3. ChanInv'
  BY <1>1, WakeChan DEF SleepInv
<1>4. /\ \A r \in Slot : Waiting(r)' => Waiting(r)
      /\ \A r \in Slot : Pausing(r)' => Pausing(r)
      /\ ~Pausing(w)'
  BY <1>1, WakeUp DEF SleepInv
<1>5. \A q \in Slot : /\ state'[q] = "ZOMBIE" => state[q] = "ZOMBIE"
                      /\ state'[q] \in Live => state[q] \in Live
  BY <1>1, WakeOneLive DEF TypeOK, Live
<1>6. IndexInv'
  BY <1>1, IndexKept DEF SleepInv
<1>7. WaitInv'
  BY <1>1, <1>4, <1>5, WaitKept DEF SleepInv
<1>8. ASSUME NEW p \in Slot, Pausing(p)' PROVE left'[p] > 0 \/ (waking' # 0 /\ waking' <= p)
  <2>1. left[p] > 0 \/ w <= p
    BY <1>4, <1>8 DEF SleepInv, PauseInv
  <2>2. p # w
    BY <1>4, <1>8
  <2>3. left[p] > 0 \/ (w < NPROC /\ w + 1 <= p)
    BY <1>2, <2>1, <2>2, SlotFacts DEF Slot
  <2> QED
    BY <1>1, <1>2, <2>3
<1>9. PauseInv'
  BY <1>8 DEF PauseInv
<1> QED
  BY <1>3, <1>6, <1>7, <1>9 DEF SleepInv

-----------------------------------------------------------------------------
(* Every step keeps SleepInv. *)
LEMMA StepSleep == IInv /\ SleepInv /\ [Next]_vars => SleepInv'
<1> SUFFICES ASSUME TypeOK, SwitchInv, ForkInv, WaitLockInv, SleepInv, [Next]_vars
             PROVE  SleepInv'
  BY DEF IInv
<1>1. ASSUME NEW c \in CPU, NEW p \in Slot, Dispatch(c, p) PROVE SleepInv'
  <2>1. UNCHANGED <<pc, chan, left, wi, waking, parent>>
    BY <1>1 DEF Dispatch, thrVars
  <2>2. \A q \in Slot : state'[q] = IF q = p THEN "RUNNING" ELSE state[q]
    BY <1>1 DEF Dispatch, TypeOK
  <2>3. state[p] \in Live
    BY <1>1 DEF Dispatch, Live
  <2> QED
    BY <2>1, <2>2, <2>3, SleepKept
<1>2. ASSUME NEW c \in CPU, NEW p \in Slot, Yield(c, p) PROVE SleepInv'
  <2>1. UNCHANGED <<pc, chan, left, wi, waking, parent>>
    BY <1>2 DEF Yield, thrVars
  <2>2. \A q \in Slot : state'[q] = IF q = p THEN "RUNNABLE" ELSE state[q]
    BY <1>2 DEF Yield, Leave, TypeOK
  <2>3. state[p] \in Live
    BY <1>2, OnCpu DEF Yield, Live
  <2> QED
    BY <2>1, <2>2, <2>3, SleepKept
(* p moves on, outside of what puts it to sleep and of its exit path. *)
<1>3. ASSUME NEW c \in CPU, NEW p \in Slot, Running(c, p), pc[p] # "exit_init",
             NEW l \in PCs \ (ExitPCs \union {"wait_sleep", "pause_sleep"}), Goto(p, l),
             UNCHANGED <<state, chan, parent, wi, waking>>,
             \A q \in Slot : q # p => left'[q] = left[q]
      PROVE  SleepInv'
  <2>1. state[p] = "RUNNING"
    BY <1>3, OnCpu
  <2>2. \A q \in Slot : pc'[q] = IF q = p THEN l ELSE pc[q]
    BY <1>3 DEF Goto, TypeOK
  <2> QED
    BY <1>3, <2>1, <2>2, SleepKept DEF ExitPCs
<1>4. ASSUME NEW c \in CPU, NEW p \in Slot, Syscall(c, p) PROVE SleepInv'
  <2>1. PICK call \in Calls(p) : Goto(p, call)
    BY <1>4 DEF Syscall
  <2>2. call \in PCs \ (ExitPCs \union {"wait_sleep", "pause_sleep"})
    BY ConstantsAssumption DEF Calls, PCs, ExitPCs
  <2>3. \A q \in Slot : q # p => left'[q] = left[q]
    BY <1>4 DEF Syscall, TypeOK
  <2> QED
    BY <1>3, <1>4, <2>1, <2>2, <2>3 DEF Syscall, procVars
<1>5. ASSUME NEW c \in CPU, NEW p \in Slot,
             TrapKilled(c, p) \/ TrapReturn(c, p) \/ ForkNoSlot(c, p)
      PROVE  SleepInv'
  BY <1>3, <1>5
     DEF TrapKilled, TrapReturn, ForkNoSlot, Failed, procVars, PCs, ExitPCs
<1>6. ASSUME NEW c \in CPU, NEW p \in Slot,
             WaitLock(c, p) \/ WaitCopyFails(c, p) \/ WaitFails(c, p)
      PROVE  SleepInv'
  BY <1>3, <1>6
     DEF WaitLock, WaitCopyFails, WaitFails, Failed, procVars, PCs, WaitLockPCs, ExitPCs
<1>7. ASSUME NEW c \in CPU, NEW p \in Slot, PauseDone(c, p) PROVE SleepInv'
  <2>1. \A q \in Slot : q # p => left'[q] = left[q]
    BY <1>7 DEF PauseDone, TypeOK
  <2> QED
    BY <1>3, <1>7, <2>1 DEF PauseDone, procVars, PCs, ExitPCs
<1>8. ASSUME NEW c \in CPU, NEW p \in Slot, NEW q \in Slot, ForkAlloc(c, p, q)
      PROVE  SleepInv'
  <2>1. UNCHANGED <<chan, left, wi, waking, parent>>
    BY <1>8 DEF ForkAlloc
  <2>2. \A r \in Slot : state'[r] = IF r = q THEN "USED" ELSE state[r]
    BY <1>8 DEF ForkAlloc, TypeOK
  <2>3. \A r \in Slot : pc'[r] = IF r = q THEN "user" ELSE IF r = p THEN "fork_link" ELSE pc[r]
    BY <1>8 DEF ForkAlloc, TypeOK
  <2>4. state[p] = "RUNNING" /\ pc[p] = "fork" /\ pc[q] # "exit_init"
    BY <1>8, OnCpu DEF ForkAlloc, ForkInv
  <2> QED
    BY <2>1, <2>2, <2>3, <2>4, SleepKept DEF ExitPCs
<1>9. ASSUME NEW c \in CPU, NEW p \in Slot, NEW q \in Slot, ForkNoMemory(c, p, q)
      PROVE  SleepInv'
  <2>1. UNCHANGED <<state, left, wi, waking, parent>>
    BY <1>9 DEF ForkNoMemory, FreeProc, TypeOK
  <2>2. \A r \in Slot : chan'[r] = IF r = q THEN 0 ELSE chan[r]
    BY <1>9 DEF ForkNoMemory, FreeProc, TypeOK
  <2>3. PICK l \in {"ret", "exit"} : \A r \in Slot : pc'[r] = IF r = p THEN l ELSE pc[r]
    BY <1>9 DEF ForkNoMemory, Goto, Failed, TypeOK
  <2>4. /\ state[p] = "RUNNING" /\ pc[p] = "fork"
        /\ state[q] = "UNUSED" /\ pc[q] \in {"user", "exit_zombie"}
    BY <1>9, OnCpu DEF ForkNoMemory, ForkInv
  <2> QED
    BY <2>1, <2>2, <2>3, <2>4, SleepKept DEF ExitPCs
<1>10. ASSUME NEW c \in CPU, NEW p \in Slot, ForkLink(c, p) PROVE SleepInv'
  <2>1. UNCHANGED <<state, chan, left, wi, waking>>
    BY <1>10 DEF ForkLink
  <2>2. state[p] = "RUNNING" /\ np[p] \in Slot /\ state[np[p]] = "USED" /\ pc[np[p]] = "user"
    BY <1>10, OnCpu, SlotFacts DEF ForkLink, ForkInv, TypeOK
  <2>3. \A r \in Slot : parent'[r] = IF r = np[p] THEN p ELSE parent[r]
    BY <1>10 DEF ForkLink, TypeOK
  <2>4. pc[p] = "fork_link" /\ \A r \in Slot : pc'[r] = IF r = p THEN "fork_run" ELSE pc[r]
    BY <1>10 DEF ForkLink, Goto, TypeOK
  <2> QED
    BY <2>1, <2>2, <2>3, <2>4, SleepKept DEF ExitPCs
<1>11. ASSUME NEW c \in CPU, NEW p \in Slot, ForkRun(c, p) PROVE SleepInv'
  <2>1. UNCHANGED <<chan, left, wi, waking, parent>>
    BY <1>11 DEF ForkRun
  <2>2. state[p] = "RUNNING" /\ np[p] \in Slot /\ state[np[p]] = "USED" /\ pc[np[p]] = "user"
    BY <1>11, OnCpu, SlotFacts DEF ForkRun, ForkInv, TypeOK
  <2>3. \A r \in Slot : state'[r] = IF r = np[p] THEN "RUNNABLE" ELSE state[r]
    BY <1>11 DEF ForkRun, TypeOK
  <2>4. pc[p] = "fork_run" /\ \A r \in Slot : pc'[r] = IF r = p THEN "ret" ELSE pc[r]
    BY <1>11 DEF ForkRun, Goto, TypeOK
  <2> QED
    BY <2>1, <2>2, <2>3, <2>4, SleepKept DEF ExitPCs
<1>12. ASSUME NEW c \in CPU, NEW p \in Slot, WaitReap(c, p) PROVE SleepInv'
  <2>1. PICK q \in Slot : /\ q \in ZombieKids(p)
                          /\ parent' = [parent EXCEPT ![q] = 0]
                          /\ FreeProc(q)
    BY <1>12 DEF WaitReap, FirstZombie
  <2>2. state[q] = "ZOMBIE" /\ pc[q] = "exit_zombie"
    BY <2>1 DEF ZombieKids, ForkInv
  <2>3. \A r \in Slot : /\ state'[r] = IF r = q THEN "UNUSED" ELSE state[r]
                        /\ chan'[r] = IF r = q THEN 0 ELSE chan[r]
                        /\ parent'[r] = IF r = q THEN 0 ELSE parent[r]
    BY <2>1 DEF FreeProc, TypeOK
  <2>4. state[p] = "RUNNING" /\ pc[p] = "wait_scan" /\ UNCHANGED <<left, wi, waking>>
    BY <1>12, OnCpu DEF WaitReap
  <2>5. \A r \in Slot : pc'[r] = IF r = p THEN "ret" ELSE pc[r]
    BY <1>12 DEF WaitReap, Goto, TypeOK
  <2> QED
    BY <2>2, <2>3, <2>4, <2>5, SleepKept DEF ExitPCs, Live
<1>13. ASSUME NEW c \in CPU, NEW p \in Slot, NEW n \in KillPid, Kill(c, p, n)
       PROVE  SleepInv'
  <2>1. UNCHANGED <<chan, left, wi, waking, parent>>
    BY <1>13 DEF Kill
  <2>2. state[p] = "RUNNING" /\ pc[p] = "kill"
    BY <1>13, OnCpu DEF Kill
  <2>3. \A r \in Slot : \/ state'[r] = state[r]
                        \/ state[r] = "SLEEPING" /\ state'[r] = "RUNNABLE"
    BY <1>13, KillLive DEF TypeOK
  <2>4. \A r \in Slot : pc'[r] = IF r = p THEN "ret" ELSE pc[r]
    BY <1>13 DEF Kill, Goto, TypeOK
  <2> QED
    BY <2>1, <2>2, <2>3, <2>4, SleepKept DEF ExitPCs, Live
<1>14. ASSUME UNCHANGED <<state, pc, chan, left, wi, waking, parent>> PROVE SleepInv'
  BY <1>14, SleepKept
<1>15. ASSUME NEW c \in CPU, Enter(c) \/ Sched(c) \/ Back(c) PROVE SleepInv'
  BY <1>14, <1>15 DEF Enter, Sched, Back, procVars, thrVars
<1>16. ASSUME NEW c \in CPU, NEW p \in Slot, InitExits(c, p) PROVE SleepInv'
  BY <1>14, <1>16 DEF InitExits, procVars, thrVars
<1>17. CASE UNCHANGED vars
  BY <1>14, <1>17 DEF vars
<1>18. ASSUME NEW c \in CPU, NEW p \in Slot, Sleep(c, p) PROVE SleepInv'
  BY <1>18, SleepStep
<1>19. ASSUME NEW c \in CPU, NEW p \in Slot, WaitPrepare(c, p) PROVE SleepInv'
  BY <1>19, WaitPrepareStep
<1>20. ASSUME NEW c \in CPU, NEW p \in Slot, PausePrepare(c, p) PROVE SleepInv'
  BY <1>20, PausePrepareStep
<1>21. ASSUME NEW c \in CPU, NEW p \in Slot, ExitReparent(c, p) PROVE SleepInv'
  BY <1>21, ReparentStep
<1>22. ASSUME NEW c \in CPU, NEW p \in Slot, ExitWake(c, p) PROVE SleepInv'
  BY <1>22, ExitWakeStep
<1>23. ASSUME NEW c \in CPU, NEW p \in Slot, ExitZombie(c, p) PROVE SleepInv'
  BY <1>23, ExitZombieStep
<1>24. CASE Tick
  BY <1>24, TickStep
<1>25. CASE TickWake
  BY <1>25, TickWakeStep
<1> QED
  BY <1>1, <1>2, <1>4, <1>5, <1>6, <1>7, <1>8, <1>9, <1>10, <1>11, <1>12, <1>13,
     <1>15, <1>16, <1>17, <1>18, <1>19, <1>20, <1>21, <1>22, <1>23, <1>24, <1>25
     DEF Next, Trap, Fork, Exit, Wait, Pause, Halted

(* It holds at the start: nobody sleeps. *)
LEMMA InitSleep == Init => SleepInv
  BY SlotFacts
     DEF Init, SleepInv, IndexInv, ChanInv, WaitInv, PauseInv, Waiting, Pausing, Passed

(* Who sleeps waits for somebody who will come by, in every reachable      *)
(* state.                                                                  *)
THEOREM SleepersCounted == Spec => []SleepInv
<1>1. Init => SleepInv
  BY InitSleep
<1>2. IInv /\ SleepInv /\ [Next]_vars => SleepInv'
  BY StepSleep
<1> QED
  BY Inductive, <1>1, <1>2, PTL DEF Spec

(* No wakeup is lost: a parent asleep in kwait() has no zombie child but   *)
(* those reparent() is about to wake init for, and who sleeps in           *)
(* sys_pause() is owed a tick that clockintr() has still to announce.      *)
THEOREM SleepersWoken == Spec => []NoLostWakeup
<1>1. IInv /\ SleepInv => NoLostWakeup
  <2> SUFFICES ASSUME IInv, SleepInv, NEW p \in Slot, state[p] = "SLEEPING"
               PROVE  /\ pc[p] = "wait" =>
                           \/ ZombieKids(p) = {}
                           \/ p = InitProc /\ \E q \in Slot : pc[q] = "exit_init" /\ wi[q] <= InitProc
                      /\ pc[p] = "pause" => left[p] > 0 \/ (waking # 0 /\ waking <= p)
                      /\ chan[p] # 0
    BY DEF NoLostWakeup
  <2>1. chan[p] # 0
    <3>1. p # 0 /\ TICKS # 0
      BY SlotFacts DEF TICKS
    <3> QED
      BY <3>1 DEF SleepInv, ChanInv
  <2>2. pc[p] = "pause" => left[p] > 0 \/ (waking # 0 /\ waking <= p)
    BY DEF SleepInv, PauseInv, Pausing
  <2>3. ASSUME pc[p] = "wait", ZombieKids(p) # {} PROVE p = InitProc /\ Reparenting
    BY <2>3 DEF SleepInv, WaitInv, Waiting, ZombieKids, Children
  <2> QED
    BY <2>1, <2>2, <2>3 DEF Reparenting
<1> QED
  BY Inductive, SleepersCounted, <1>1, PTL

-----------------------------------------------------------------------------
(* A zombie stays one until the wait() of its parent frees its slot: no    *)
(* late wakeup() or kkill() makes it run again.                            *)
THEOREM ZombiesStay == Spec => ZombieIsFinal
<1> DEFINE Final == \A p \in Slot : state[p] = "ZOMBIE" =>
                      \/ state'[p] = "ZOMBIE"
                      \/ state'[p] = "UNUSED" /\ pc[parent[p]] = "wait_scan"
<1>1. IInv /\ [Next]_vars => Final
  <2> SUFFICES ASSUME TypeOK, SwitchInv, ForkInv, [Next]_vars,
                      NEW z \in Slot, state[z] = "ZOMBIE"
               PROVE  \/ state'[z] = "ZOMBIE"
                      \/ state'[z] = "UNUSED" /\ pc[parent[z]] = "wait_scan"
    BY DEF IInv
  <2>1. ASSUME NEW c \in CPU, NEW p \in Slot,
               Dispatch(c, p) \/ Yield(c, p) \/ Sleep(c, p) \/ ExitZombie(c, p)
        PROVE  state'[z] = "ZOMBIE"
    <3>1. state[p] # "ZOMBIE"
      BY <2>1, OnCpu DEF Dispatch, Yield, Sleep, ExitZombie
    <3> QED
      BY <2>1, <3>1 DEF Dispatch, Yield, Sleep, ExitZombie, Leave, TypeOK
  <2>2. ASSUME NEW c \in CPU, NEW p \in Slot, Trap(c, p) \/ Pause(c, p)
        PROVE  state'[z] = "ZOMBIE"
    BY <2>2 DEF Trap, Syscall, TrapKilled, TrapReturn, Pause, PauseDone, PausePrepare, procVars
  <2>3. ASSUME NEW c \in CPU, NEW p \in Slot, Fork(c, p) PROVE state'[z] = "ZOMBIE"
    <3>1. ASSUME NEW q \in Slot, ForkAlloc(c, p, q) \/ ForkNoMemory(c, p, q)
          PROVE  state'[z] = "ZOMBIE"
      BY <3>1 DEF ForkAlloc, ForkNoMemory, FreeProc, TypeOK
    <3>2. CASE ForkNoSlot(c, p) \/ ForkLink(c, p)
      BY <3>2 DEF ForkNoSlot, ForkLink, procVars
    <3>3. CASE ForkRun(c, p)
      <4>1. np[p] \in Slot /\ state[np[p]] = "USED"
        BY <3>3, SlotFacts DEF ForkRun, ForkInv, TypeOK
      <4> QED
        BY <3>3, <4>1 DEF ForkRun, TypeOK
    <3> QED
      BY <2>3, <3>1, <3>2, <3>3 DEF Fork
  <2>4. ASSUME NEW c \in CPU, NEW p \in Slot, InitExits(c, p) \/ ExitReparent(c, p)
        PROVE  state'[z] = "ZOMBIE"
    BY <2>4 DEF InitExits, ExitReparent, procVars
  <2>5. ASSUME NEW c \in CPU, NEW p \in Slot, ExitWake(c, p) PROVE state'[z] = "ZOMBIE"
    BY <2>5, WakeOneLive DEF ExitWake, TypeOK
  <2>6. ASSUME NEW c \in CPU, NEW p \in Slot, WaitReap(c, p)
        PROVE  \/ state'[z] = "ZOMBIE"
               \/ state'[z] = "UNUSED" /\ pc[parent[z]] = "wait_scan"
    <3>1. PICK q \in Slot : parent[q] = p /\ state' = [state EXCEPT ![q] = "UNUSED"]
      BY <2>6 DEF WaitReap, FirstZombie, ZombieKids, Children, FreeProc
    <3> QED
      BY <2>6, <3>1 DEF WaitReap, TypeOK
  <2>7. ASSUME NEW c \in CPU, NEW p \in Slot,
               WaitLock(c, p) \/ WaitCopyFails(c, p) \/ WaitFails(c, p) \/ WaitPrepare(c, p)
        PROVE  state'[z] = "ZOMBIE"
    BY <2>7 DEF WaitLock, WaitCopyFails, WaitFails, WaitPrepare, procVars
  <2>8. ASSUME NEW c \in CPU, NEW p \in Slot, NEW n \in KillPid, Kill(c, p, n)
        PROVE  state'[z] = "ZOMBIE"
    BY <2>8, KillLive DEF TypeOK
  <2>9. ASSUME NEW c \in CPU, Enter(c) \/ Sched(c) \/ Back(c) PROVE state'[z] = "ZOMBIE"
    BY <2>9 DEF Enter, Sched, Back, procVars
  <2>10. CASE Tick \/ UNCHANGED vars
    BY <2>10 DEF Tick, procVars, vars
  <2>11. CASE TickWake
    BY <2>11, WakeOneLive DEF TickWake, TypeOK
  <2> QED
    BY <2>1, <2>2, <2>3, <2>4, <2>5, <2>6, <2>7, <2>8, <2>9, <2>10, <2>11
       DEF Next, Exit, Wait, Halted
<1>2. IInv /\ [Next]_vars => [Final]_vars
  BY <1>1
<1> QED
  BY Inductive, <1>2, PTL DEF Spec, ZombieIsFinal
=============================================================================
