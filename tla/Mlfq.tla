-------------------------------- MODULE Mlfq --------------------------------
(***************************************************************************)
(* The MLFQ scheduler of the xv6 kernel: scheduler() of kernel/proc.c in   *)
(* the MLFQ build, mlfq_timer_tick() and mlfq_boost(), on several harts.   *)
(*                                                                         *)
(* The scheduler looks at one slot per step, under its p->lock, with       *)
(* interrupts on, so processes wake, fork and exit during a scan.          *)
(* mlfq_timer_tick() takes NO lock: it is three steps here, between which  *)
(* another hart's mlfq_boost() may write the same fields.  A process is    *)
(* reduced to what the scheduler sees of it: its state (ZOMBIE counts as   *)
(* UNUSED), its queue and its ticks.                                       *)
(***************************************************************************)
EXTENDS Naturals, FiniteSets

CONSTANTS NPROC,        \* slots 0 .. NPROC-1
          CPU,          \* the harts a machine may have
          Machines,     \* the sets of harts to consider, each a subset of CPU
          NMLFQ,        \* number of queues, 0 the highest
          mlfq_slice,   \* ticks a process may use in each queue
          BOOST_TICKS,  \* ticks between two boosts
          NoProc        \* c->proc == 0

Slot  == 0..NPROC-1
Queue == 0..NMLFQ-1

ASSUME MlfqAssumption ==
  /\ NPROC \in Nat \ {0} /\ NMLFQ \in Nat \ {0} /\ BOOST_TICKS \in Nat \ {0}
  /\ mlfq_slice \in [Queue -> Nat \ {0}]
  /\ \A l, m \in Queue : l <= m => mlfq_slice[l] <= mlfq_slice[m]
  /\ NoProc \notin Slot
  /\ Machines \subseteq SUBSET CPU /\ IsFiniteSet(CPU)

VARIABLES
  harts,       \* the harts of this machine
  state,       \* p->state
  queue,       \* p->queue
  ticks_used,  \* p->ticks_used
  mlfq_last,   \* slot last chosen from each queue
  pc,          \* where each hart is
  proc,        \* c->proc
  q,           \* scheduler(): the queue being scanned
  start,       \* scheduler(): mlfq_last[q] when the scan of q began
  i,           \* loop index of the scan (1..NPROC) and of the boost (slot)
  since,       \* ticks - last_boost_tick, no further than BOOST_TICKS
  seen,        \* mlfq_timer_tick(): the ticks_used and queue it has loaded
  ready,       \* history: slots RUNNABLE in one queue since c's scan began
  passed,      \* history, one hart: choices from p's queue since p waits in it, up to NPROC
  boosted      \* history: slots taken out of a lower queue by a boost in the middle
               \* of a timer tick, until chosen again

hart == <<harts, pc, proc, q, start, i, since, seen>>
vars == <<harts, state, queue, ticks_used, mlfq_last, pc, proc, q, start, i, since, seen,
          ready, passed, boosted>>

TopSlice == mlfq_slice[NMLFQ - 1]

Init ==
  /\ harts \in Machines
  /\ state \in [Slot -> {"UNUSED", "RUNNABLE"}]
  /\ queue = [p \in Slot |-> 0]
  /\ ticks_used = [p \in Slot |-> 0]
  /\ mlfq_last = [l \in Queue |-> 0]
  /\ pc = [c \in CPU |-> "top"]
  /\ proc = [c \in CPU |-> NoProc]
  /\ q = [c \in CPU |-> 0]
  /\ start = [c \in CPU |-> 0]
  /\ i = [c \in CPU |-> 0]
  /\ since = [c \in CPU |-> 0]
  /\ seen = [c \in CPU |-> <<0, 0>>]
  /\ ready = [c \in CPU |-> {}]
  /\ passed = [p \in Slot |-> 0]
  /\ boosted = {}

OneHart == Cardinality(harts) = 1

(* p stops being a candidate of every scan in progress. *)
Forget(p) == ready' = [c \in CPU |-> ready[c] \ {p}]

-----------------------------------------------------------------------------
(* scheduler()                                                             *)

(* The test that starts a boost.  Mutant: no boost, whatever the time. *)
NoBoost(c)  == FALSE
BoostDue(c) == since[c] >= BOOST_TICKS

(* The scan of all queues begins. *)
StartScan(c) ==
  /\ pc' = [pc EXCEPT ![c] = "scan"]
  /\ q' = [q EXCEPT ![c] = 0]
  /\ start' = [start EXCEPT ![c] = mlfq_last[0]]
  /\ i' = [i EXCEPT ![c] = 1]
  /\ ready' = [ready EXCEPT ![c] = {p \in Slot : state[p] = "RUNNABLE"}]

(* One turn of scheduler()'s loop: boost first when it is due. *)
Top(c) ==
  /\ pc[c] = "top"
  /\ IF BoostDue(c)
       THEN /\ since' = [since EXCEPT ![c] = 0]
            /\ pc' = [pc EXCEPT ![c] = "boost"]
            /\ i' = [i EXCEPT ![c] = 0]
            /\ UNCHANGED <<q, start, ready>>
       ELSE StartScan(c) /\ UNCHANGED since
  /\ UNCHANGED <<harts, state, queue, ticks_used, mlfq_last, proc, seen, passed, boosted>>

InTick(p) == \E c \in harts : proc[c] = p /\ pc[c] \in {"count", "demote"}

(* mlfq_boost(), one slot. *)
BoostSlot(c) ==
  /\ pc[c] = "boost" /\ i[c] < NPROC
  /\ LET p == i[c] IN
       IF state[p] # "UNUSED"
         THEN /\ queue' = [queue EXCEPT ![p] = 0]
              /\ ticks_used' = [ticks_used EXCEPT ![p] = 0]
              /\ passed' = [passed EXCEPT ![p] = IF queue[p] = 0 THEN @ ELSE 0]
              /\ boosted' = IF InTick(p) /\ queue[p] > 0 THEN boosted \union {p} ELSE boosted
              /\ IF queue[p] = 0 THEN UNCHANGED ready ELSE Forget(p)
         ELSE UNCHANGED <<queue, ticks_used, passed, boosted, ready>>
  /\ i' = [i EXCEPT ![c] = @ + 1]
  /\ UNCHANGED <<harts, state, mlfq_last, pc, proc, q, start, since, seen>>

BoostEnd(c) ==
  /\ pc[c] = "boost" /\ i[c] = NPROC
  /\ StartScan(c)
  /\ UNCHANGED <<harts, state, queue, ticks_used, mlfq_last, proc, since, seen, passed, boosted>>

(* The variables of the scan go out of scope. *)
ScanDone(c) ==
  /\ q' = [q EXCEPT ![c] = 0]
  /\ start' = [start EXCEPT ![c] = 0]
  /\ i' = [i EXCEPT ![c] = 0]

(* Where the scan of queue l starts and continues: the slot after the one  *)
(* last chosen.  Mutant: always from the start of the table.               *)
FromZero(c) == i[c] - 1
Index(c)    == (start[c] + i[c]) % NPROC

(* The scan's test of slot p.  Mutant: without the queue. *)
AnyQueue(c, p)  == state[p] = "RUNNABLE"
Candidate(c, p) == state[p] = "RUNNABLE" /\ queue[p] = q[c]

(* The scan meets the process it is looking for, and switches to it. *)
Choose(c, p) ==
  /\ pc[c] = "scan" /\ p = Index(c) /\ Candidate(c, p)
  /\ state' = [state EXCEPT ![p] = "RUNNING"]
  /\ mlfq_last' = [mlfq_last EXCEPT ![q[c]] = p]
  /\ proc' = [proc EXCEPT ![c] = p]
  /\ pc' = [pc EXCEPT ![c] = "run"]
  /\ ready' = [d \in CPU |-> IF d = c THEN {} ELSE ready[d] \ {p}]
  /\ ScanDone(c)
  /\ passed' = [r \in Slot |->
       IF r = p THEN 0
       ELSE IF OneHart /\ state[r] = "RUNNABLE" /\ queue[r] = q[c] /\ passed[r] < NPROC
              THEN passed[r] + 1 ELSE passed[r]]
  /\ boosted' = boosted \ {p}
  /\ UNCHANGED <<harts, queue, ticks_used, since, seen>>

(* The scan passes a slot; after the last slot it goes on to the next      *)
(* queue, after the last queue the hart waits for an interrupt.            *)
Pass(c) ==
  /\ pc[c] = "scan"
  /\ ~Candidate(c, Index(c))
  /\ \/ i[c] < NPROC /\ i' = [i EXCEPT ![c] = @ + 1] /\ UNCHANGED <<pc, q, start, ready>>
     \/ /\ i[c] = NPROC /\ q[c] < NMLFQ - 1
        /\ q' = [q EXCEPT ![c] = @ + 1]
        /\ start' = [start EXCEPT ![c] = mlfq_last[q[c] + 1]]
        /\ i' = [i EXCEPT ![c] = 1]
        /\ UNCHANGED <<pc, ready>>
     \/ /\ i[c] = NPROC /\ q[c] = NMLFQ - 1
        /\ pc' = [pc EXCEPT ![c] = "wfi"]
        /\ ready' = [ready EXCEPT ![c] = {}]
        /\ ScanDone(c)
  /\ UNCHANGED <<harts, state, queue, ticks_used, mlfq_last, proc, since, seen, passed,
                 boosted>>

(* wfi returns on the next interrupt: the timer's at the latest. *)
Wfi(c) ==
  /\ pc[c] = "wfi"
  /\ pc' = [pc EXCEPT ![c] = "top"]
  /\ UNCHANGED <<harts, state, queue, ticks_used, mlfq_last, proc, q, start, i, since, seen,
                 ready, passed, boosted>>

-----------------------------------------------------------------------------
(* The running process.                                                    *)

(* It leaves the CPU in state s: the switch back to scheduler(). *)
Leave(c, s) ==
  /\ state' = [state EXCEPT ![proc[c]] = s]
  /\ proc' = [proc EXCEPT ![c] = NoProc]
  /\ pc' = [pc EXCEPT ![c] = "top"]

(* Timer interrupt: mlfq_timer_tick() loads the fields of p. *)
TickLoad(c) ==
  /\ pc[c] = "run"
  /\ seen' = [seen EXCEPT ![c] = <<ticks_used[proc[c]], queue[proc[c]]>>]
  /\ pc' = [pc EXCEPT ![c] = "count"]
  /\ UNCHANGED <<harts, state, queue, ticks_used, mlfq_last, proc, q, start, i, since,
                 ready, passed, boosted>>

(* p->ticks_used++.  The access is not synchronised, so the queue compared *)
(* next is the one loaded before, or the one there now.                    *)
TickCount(c) ==
  /\ pc[c] = "count"
  /\ \E l \in {seen[c][2], queue[proc[c]]} :
       seen' = [seen EXCEPT ![c] = <<@[1] + 1, l>>]
  /\ ticks_used' = [ticks_used EXCEPT ![proc[c]] = seen[c][1] + 1]
  /\ pc' = [pc EXCEPT ![c] = "demote"]
  /\ UNCHANGED <<harts, state, queue, mlfq_last, proc, q, start, i, since, ready, passed, boosted>>

(* The slice test.  Mutant: > for >=. *)
SliceOver(c) == seen[c][1] > mlfq_slice[seen[c][2]]
SliceUsed(c) == seen[c][1] >= mlfq_slice[seen[c][2]]

(* p->queue++, unless p is in the last queue.  Mutant: without the test. *)
OneDown(p, l) == l + 1
Lower(p, l)   == IF l < NMLFQ - 1 THEN l + 1 ELSE queue[p]

(* The end of mlfq_timer_tick(): demote when the slice is used up; then    *)
(* yield(), on every tick.                                                 *)
TickYield(c) ==
  /\ pc[c] = "demote"
  /\ LET p == proc[c] l == seen[c][2] IN
       /\ IF SliceUsed(c)
            THEN /\ queue' = [queue EXCEPT ![p] = Lower(p, l)]
                 /\ ticks_used' = [ticks_used EXCEPT ![p] = 0]
            ELSE UNCHANGED <<queue, ticks_used>>
       /\ passed' = [passed EXCEPT ![p] = 0]
  /\ Leave(c, "RUNNABLE")
  /\ seen' = [seen EXCEPT ![c] = <<0, 0>>]
  /\ UNCHANGED <<harts, mlfq_last, q, start, i, since, ready, boosted>>

(* sleep(): the process keeps its queue and starts a new slice. *)
SleepProc(c) ==
  /\ pc[c] = "run"
  /\ ticks_used' = [ticks_used EXCEPT ![proc[c]] = 0]
  /\ Leave(c, "SLEEPING")
  /\ UNCHANGED <<harts, queue, mlfq_last, q, start, i, since, seen, ready, passed, boosted>>

(* kexit(). *)
ExitProc(c) ==
  /\ pc[c] = "run"
  /\ Leave(c, "UNUSED")
  /\ UNCHANGED <<harts, queue, ticks_used, mlfq_last, q, start, i, since, seen, ready,
                 passed, boosted>>

(* kfork() by the running process: allocproc() starts p in queue 0. *)
ForkProc(c, p) ==
  /\ pc[c] = "run" /\ state[p] = "UNUSED"
  /\ state' = [state EXCEPT ![p] = "RUNNABLE"]
  /\ queue' = [queue EXCEPT ![p] = 0]
  /\ ticks_used' = [ticks_used EXCEPT ![p] = 0]
  /\ passed' = [passed EXCEPT ![p] = 0]
  /\ UNCHANGED <<hart, mlfq_last, ready, boosted>>

(* wakeup() or kkill(), from any interrupt or process. *)
Wake(p) ==
  /\ state[p] = "SLEEPING"
  /\ state' = [state EXCEPT ![p] = "RUNNABLE"]
  /\ passed' = [passed EXCEPT ![p] = 0]
  /\ UNCHANGED <<hart, queue, ticks_used, mlfq_last, ready, boosted>>

(* clockintr() on hart 0: ticks++. *)
Clock ==
  /\ \E c \in harts : since[c] < BOOST_TICKS
  /\ since' = [c \in CPU |-> IF c \in harts /\ since[c] < BOOST_TICKS THEN since[c] + 1 ELSE since[c]]
  /\ UNCHANGED <<harts, state, queue, ticks_used, mlfq_last, pc, proc, q, start, i, seen,
                 ready, passed, boosted>>

-----------------------------------------------------------------------------
Sched(c) == Top(c) \/ BoostSlot(c) \/ BoostEnd(c) \/ (\E p \in Slot : Choose(c, p))
              \/ Pass(c) \/ Wfi(c)
Timer(c) == TickLoad(c) \/ TickCount(c) \/ TickYield(c)

Next ==
  \/ \E c \in harts : Sched(c) \/ Timer(c) \/ SleepProc(c) \/ ExitProc(c)
                      \/ \E p \in Slot : ForkProc(c, p)
  \/ \E p \in Slot : Wake(p)
  \/ Clock

Spec == Init /\ [][Next]_vars

(* A hart keeps executing, its timer keeps interrupting it, and the clock  *)
(* of hart 0 keeps ticking.                                                *)
Fairness == /\ \A c \in CPU : WF_vars(c \in harts /\ Sched(c)) /\ WF_vars(c \in harts /\ Timer(c))
            /\ WF_vars(Clock)
FairSpec == Spec /\ Fairness

-----------------------------------------------------------------------------
(* Every variable has its type; the queue of a process is always a valid   *)
(* index of mlfq_slice and mlfq_last, even when ticks and boosts race.     *)
TypeOK ==
  /\ harts \subseteq CPU
  /\ state \in [Slot -> {"UNUSED", "RUNNABLE", "RUNNING", "SLEEPING"}]
  /\ queue \in [Slot -> Queue]
  /\ ticks_used \in [Slot -> 0..TopSlice]
  /\ mlfq_last \in [Queue -> Slot]
  /\ pc \in [CPU -> {"top", "boost", "scan", "wfi", "run", "count", "demote"}]
  /\ proc \in [CPU -> Slot \union {NoProc}]
  /\ q \in [CPU -> Queue]
  /\ start \in [CPU -> Slot]
  /\ i \in [CPU -> 0..NPROC]
  /\ since \in [CPU -> 0..BOOST_TICKS]
  /\ seen \in [CPU -> (0..TopSlice) \X Queue]
  /\ ready \in [CPU -> SUBSET Slot]
  /\ passed \in [Slot -> 0..NPROC]
  /\ boosted \subseteq Slot

(* On one hart no process ever holds a used-up slice: the tick that uses   *)
(* it up demotes the process, a sleep or a boost gives it a new one.       *)
SliceKept ==
  OneHart =>
  \A p \in Slot : (\A c \in CPU : proc[c] = p => pc[c] \notin {"count", "demote"})
                    => ticks_used[p] < mlfq_slice[queue[p]]

(* Priority, as far as a scan with interrupts on can keep it: scheduler()  *)
(* never chooses a process while another has been RUNNABLE in a higher     *)
(* queue since before the scan began.                                      *)
ScanPriority ==
  [][\A c \in CPU, p \in Slot : Choose(c, p) =>
       \A r \in ready[c] : queue[r] >= queue[p]]_vars

(* Round robin within a queue on one hart: a process that waits in a queue *)
(* sees each slot chosen before it at most once, so at most NPROC-1        *)
(* choices from that queue go by (mlfq_last, README "Queue 3 ... Round-    *)
(* Robin").                                                                *)
RoundRobin == OneHart => \A p \in Slot : state[p] = "RUNNABLE" => passed[p] <= NPROC - 1

(* No starvation: with boosts, whatever the other processes do, a process  *)
(* that can run gets the CPU (mlfq_boost(): "heavy background tasks ...    *)
(* don't end up starving forever").                                        *)
NoStarvation ==
  OneHart => \A p \in Slot : state[p] = "RUNNABLE" ~> state[p] # "RUNNABLE"

(* README "Anti-Starvation Boost: ... all processes are promoted back to   *)
(* Queue 0": a process that mlfq_boost() takes out of a lower queue in the *)
(* middle of a timer tick has lost at most the slice of queue 0 when it is *)
(* chosen again, as if the tick had come after the boost; it is not below  *)
(* queue 1.                                                                *)
BoostSticks == \A p \in boosted : queue[p] <= 1
=============================================================================
