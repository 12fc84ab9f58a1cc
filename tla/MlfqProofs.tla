------------------------------ MODULE MlfqProofs ------------------------------
(* Theorems about Mlfq, for every number of harts, slots and queues and    *)
(* every table of slices.                                                  *)
EXTENDS Mlfq, FiniteSetTheorems, TLAPS

-----------------------------------------------------------------------------
(* The inductive invariant.                                                *)

(* A hart that runs a process, and nobody else, has it RUNNING. *)
HartInv ==
  /\ \A c \in CPU : pc[c] \in {"run", "count", "demote"} <=> proc[c] # NoProc
  /\ \A c \in CPU : proc[c] # NoProc => state[proc[c]] = "RUNNING"
  /\ \A c, d \in CPU : proc[c] # NoProc /\ proc[c] = proc[d] => c = d
  /\ \A c \in CPU \ harts : pc[c] = "top"

(* No process has used up the longest slice, but between the two last      *)
(* steps of the tick that does it, whatever boosts race with the tick.     *)
TicksInv ==
  /\ \A p \in Slot : (\A c \in CPU : proc[c] = p => pc[c] # "demote") => ticks_used[p] < TopSlice
  /\ \A c \in CPU : pc[c] = "count" => seen[c][1] < TopSlice
  /\ \A c \in CPU : pc[c] = "demote" => ticks_used[proc[c]] <= seen[c][1]

(* On one hart, what a tick has loaded is still there, and no process has  *)
(* a used-up slice but between the two last steps of the tick.             *)
Loaded == \A c \in CPU :
  /\ pc[c] \in {"count", "demote"} => seen[c] = <<ticks_used[proc[c]], queue[proc[c]]>>
  /\ pc[c] = "count" => ticks_used[proc[c]] < mlfq_slice[queue[proc[c]]]
SlicesKept == \A p \in Slot :
  (\A c \in CPU : proc[c] = p => pc[c] \notin {"count", "demote"})
    => ticks_used[p] < mlfq_slice[queue[p]]

(* How far slot p is after slot a in the round of a scan: 1 .. NPROC. *)
Dist(a, p) == IF p > a THEN p - a ELSE p - a + NPROC

(* What has been ready since a scan began is still ahead of it. *)
ScanInv == \A c \in CPU :
  /\ pc[c] = "scan" => i[c] \in 1..NPROC
  /\ pc[c] # "scan" => ready[c] = {}
  /\ \A r \in ready[c] : /\ state[r] = "RUNNABLE" /\ queue[r] >= q[c]
                         /\ queue[r] = q[c] => Dist(start[c], r) >= i[c]

(* On one hart a process that waits has seen fewer choices than the slots  *)
(* that lie between it and the last one; what a scan has gone past became  *)
(* ready after that and has seen none.                                     *)
Waits ==
  /\ \A p \in Slot : state[p] = "RUNNABLE" =>
       passed[p] + Dist(mlfq_last[queue[p]], p) <= NPROC
  /\ \A c \in CPU : pc[c] = "scan" =>
       /\ start[c] = mlfq_last[q[c]]
       /\ \A r \in Slot : state[r] = "RUNNABLE" /\ queue[r] = q[c] /\ Dist(start[c], r) < i[c]
                            => passed[r] = 0

IInv == TypeOK /\ HartInv /\ TicksInv /\ ScanInv /\ (OneHart => Loaded /\ SlicesKept /\ Waits)

-----------------------------------------------------------------------------
(* Facts about the constants, the harts and the round of a scan.           *)

(* The constants are positive, and NoProc is no slot. *)
LEMMA Sizing ==
  /\ NPROC \in Nat \ {0} /\ NMLFQ \in Nat \ {0} /\ BOOST_TICKS \in Nat \ {0}
  /\ NoProc \notin Slot
  BY MlfqAssumption

(* The first and the last queue are queues, and the last has the longest slice. *)
LEMMA Slices ==
  /\ 0 \in Queue /\ NMLFQ - 1 \in Queue /\ TopSlice \in Nat \ {0}
  /\ \A l \in Queue : mlfq_slice[l] \in Nat \ {0} /\ mlfq_slice[l] <= TopSlice
<1>1. NMLFQ \in Nat \ {0} /\ mlfq_slice \in [Queue -> Nat \ {0}]
  BY MlfqAssumption
<1>2. 0 \in Queue /\ NMLFQ - 1 \in Queue /\ \A l \in Queue : l <= NMLFQ - 1
  BY <1>1 DEF Queue
<1>3. \A l \in Queue : mlfq_slice[l] <= mlfq_slice[NMLFQ - 1]
  BY <1>2, MlfqAssumption
<1> QED
  BY <1>1, <1>2, <1>3 DEF TopSlice

(* The process a hart runs. *)
LEMMA OnHart ==
  ASSUME TypeOK, HartInv, NEW c \in CPU, pc[c] \in {"run", "count", "demote"}
  PROVE  proc[c] \in Slot /\ state[proc[c]] = "RUNNING" /\ \A d \in CPU : proc[d] = proc[c] => d = c
<1>1. proc[c] # NoProc
  BY DEF HartInv
<1>2. proc[c] \in Slot
  BY <1>1 DEF TypeOK
<1> QED
  BY <1>1, <1>2 DEF HartInv

(* On one hart, two harts are the same one. *)
LEMMA Alone ==
  ASSUME TypeOK, OneHart, NEW c \in harts, NEW d \in harts
  PROVE  c = d
<1>1. IsFiniteSet(harts)
  BY MlfqAssumption, FS_Subset DEF TypeOK
<1>2. PICK x : harts = {x}
  BY <1>1, FS_Singleton DEF OneHart
<1> QED
  BY <1>2

(* On one hart nobody else scans, boosts or runs a process. *)
LEMMA OthersIdle ==
  ASSUME TypeOK, HartInv, OneHart, NEW c \in harts, NEW d \in CPU, d # c
  PROVE  pc[d] = "top" /\ proc[d] = NoProc
<1>1. pc[d] = "top"
  BY Alone DEF HartInv
<1> QED
  BY <1>1 DEF HartInv

(* A slot is 1 to NPROC places after another in a round. *)
LEMMA DistRange ==
  ASSUME NEW a \in Slot, NEW p \in Slot
  PROVE  Dist(a, p) \in 1..NPROC
  BY Sizing DEF Slot, Dist

(* Two slots at the same place of a round are the same slot. *)
LEMMA DistSame ==
  ASSUME NEW a \in Slot, NEW p \in Slot, NEW r \in Slot, Dist(a, p) = Dist(a, r)
  PROVE  p = r
  BY Sizing DEF Slot, Dist

(* A slot still ahead of slot p is so much nearer once p is chosen. *)
LEMMA DistStep ==
  ASSUME NEW a \in Slot, NEW p \in Slot, NEW r \in Slot, Dist(a, p) < Dist(a, r)
  PROVE  Dist(p, r) = Dist(a, r) - Dist(a, p)
  BY Sizing DEF Slot, Dist

(* Another slot than the one last chosen is less than a round away. *)
LEMMA DistOther ==
  ASSUME NEW p \in Slot, NEW r \in Slot, p # r
  PROVE  Dist(p, r) \in 1..NPROC-1
  BY Sizing DEF Slot, Dist

(* The k-th slot of a scan that starts after slot a. *)
LEMMA Round ==
  ASSUME NEW a \in Slot, NEW k \in 1..NPROC
  PROVE  (a + k) % NPROC \in Slot /\ Dist(a, (a + k) % NPROC) = k
<1>1. ASSUME NEW x \in 0..NPROC-1 PROVE x % NPROC = x /\ (x + NPROC) % NPROC = x
  BY <1>1, Sizing
<1>2. CASE a + k < NPROC
  <2>1. a + k \in 0..NPROC-1
    BY <1>2, Sizing DEF Slot
  <2>2. (a + k) % NPROC = a + k
    BY <1>1, <2>1
  <2> QED
    BY <2>1, <2>2, Sizing DEF Slot, Dist
<1>3. CASE a + k >= NPROC
  <2>1. a + k - NPROC \in 0..NPROC-1 /\ (a + k - NPROC) + NPROC = a + k
    BY <1>3, Sizing DEF Slot
  <2>2. ((a + k - NPROC) + NPROC) % NPROC = a + k - NPROC
    BY <1>1, <2>1
  <2>3. (a + k) % NPROC = a + k - NPROC
    BY <2>1, <2>2
  <2> QED
    BY <2>1, <2>3, Sizing DEF Slot, Dist
<1> QED
  BY <1>2, <1>3, Sizing DEF Slot

(* The slot a scan looks at, its i-th. *)
LEMMA Looks ==
  ASSUME TypeOK, ScanInv, NEW c \in CPU, pc[c] = "scan"
  PROVE  Index(c) \in Slot /\ Dist(start[c], Index(c)) = i[c] /\ i[c] \in 1..NPROC
<1>1. start[c] \in Slot /\ i[c] \in 1..NPROC
  BY DEF TypeOK, ScanInv
<1> QED
  BY <1>1, Round DEF Index

(* p->queue++ of mlfq_timer_tick() leaves a queue. *)
LEMMA LowerQueue ==
  ASSUME NEW p, NEW l \in Queue, queue[p] \in Queue
  PROVE  Lower(p, l) \in Queue
  BY Sizing DEF Lower, Queue

(* A scan that begins has everything ahead of it. *)
LEMMA ScanBegins ==
  ASSUME TypeOK, ScanInv, NEW c \in CPU, StartScan(c), UNCHANGED <<state, queue>>
  PROVE  ScanInv'
<1>1. /\ pc' = [pc EXCEPT ![c] = "scan"] /\ q' = [q EXCEPT ![c] = 0] /\ i' = [i EXCEPT ![c] = 1]
      /\ start' = [start EXCEPT ![c] = mlfq_last[0]]
      /\ ready' = [ready EXCEPT ![c] = {p \in Slot : state[p] = "RUNNABLE"}]
  BY DEF StartScan
<1>2. mlfq_last[0] \in Slot /\ \A r \in Slot : queue[r] \in Nat
  <2>1. 0 \in Queue /\ mlfq_last \in [Queue -> Slot] /\ queue \in [Slot -> Queue]
    BY Slices DEF TypeOK
  <2>2. \A l \in Queue : l \in Nat
    BY Sizing DEF Queue
  <2> QED
    BY <2>1, <2>2
<1>3. \A r \in Slot : Dist(mlfq_last[0], r) >= 1
  BY <1>2, DistRange, Sizing
<1>4. /\ pc'[c] = "scan" /\ q'[c] = 0 /\ i'[c] = 1 /\ start'[c] = mlfq_last[0]
      /\ ready'[c] = {p \in Slot : state[p] = "RUNNABLE"}
      /\ \A d \in CPU : d # c => /\ pc'[d] = pc[d] /\ q'[d] = q[d] /\ i'[d] = i[d]
                                 /\ start'[d] = start[d] /\ ready'[d] = ready[d]
  BY <1>1 DEF TypeOK
<1>5. 1 \in 1..NPROC
  BY Sizing
<1>6. \A r \in ready'[c] : state[r] = "RUNNABLE" /\ queue[r] >= 0 /\ Dist(mlfq_last[0], r) >= 1
  BY <1>2, <1>3, <1>4
<1>7. ASSUME NEW d \in CPU
      PROVE  /\ pc'[d] = "scan" => i'[d] \in 1..NPROC
             /\ pc'[d] # "scan" => ready'[d] = {}
             /\ \A r \in ready'[d] : /\ state'[r] = "RUNNABLE" /\ queue'[r] >= q'[d]
                                     /\ queue'[r] = q'[d] => Dist(start'[d], r) >= i'[d]
  <2>1. CASE d = c
    BY <1>4, <1>5, <1>6, <2>1
  <2>2. CASE d # c
    BY <1>4, <2>2 DEF ScanInv
  <2> QED
    BY <2>1, <2>2
<1> QED
  BY <1>7 DEF ScanInv, Dist

(* The variables of a scan that begins have their types. *)
LEMMA StartTyped ==
  ASSUME TypeOK, NEW c \in harts, StartScan(c)
  PROVE  /\ pc' \in [CPU -> {"top", "boost", "scan", "wfi", "run", "count", "demote"}]
         /\ q' \in [CPU -> Queue] /\ start' \in [CPU -> Slot] /\ i' \in [CPU -> 0..NPROC]
         /\ ready' \in [CPU -> SUBSET Slot]
<1>1. 0 \in Queue /\ mlfq_last[0] \in Slot /\ 1 \in 0..NPROC
  BY Slices, Sizing DEF TypeOK
<1>2. pc' \in [CPU -> {"top", "boost", "scan", "wfi", "run", "count", "demote"}]
  BY DEF StartScan, TypeOK
<1>3. q' \in [CPU -> Queue] /\ start' \in [CPU -> Slot] /\ i' \in [CPU -> 0..NPROC]
  BY <1>1 DEF StartScan, TypeOK
<1>4. ready' \in [CPU -> SUBSET Slot]
  BY DEF StartScan, TypeOK
<1> QED
  BY <1>2, <1>3, <1>4

-----------------------------------------------------------------------------
(* Each part of the invariant is kept by every step.                       *)

(* The process a hart runs stays RUNNING, and nobody else's. *)
LEMMA StepHart == TypeOK /\ HartInv /\ [Next]_vars => HartInv'
<1> SUFFICES ASSUME TypeOK, HartInv, [Next]_vars
             PROVE  HartInv'
  OBVIOUS
<1> USE Sizing DEF TypeOK, HartInv
<1>1. ASSUME NEW c \in harts, Top(c) PROVE HartInv'
  <2>1. /\ UNCHANGED <<proc, state, harts>> /\ pc[c] = "top"
        /\ \E l \in {"boost", "scan"} : pc' = [pc EXCEPT ![c] = l]
    BY <1>1 DEF Top, StartScan
  <2> QED
    BY <2>1
<1>2. ASSUME NEW c \in harts, BoostSlot(c) PROVE HartInv'
  BY <1>2 DEF BoostSlot, Forget
<1>3. ASSUME NEW c \in harts, BoostEnd(c) PROVE HartInv'
  BY <1>3 DEF BoostEnd, StartScan
<1>4. ASSUME NEW c \in harts, NEW p \in Slot, Choose(c, p) PROVE HartInv'
  <2>1. /\ state[p] = "RUNNABLE" /\ state' = [state EXCEPT ![p] = "RUNNING"] /\ harts' = harts
        /\ proc' = [proc EXCEPT ![c] = p] /\ pc' = [pc EXCEPT ![c] = "run"]
    BY <1>4 DEF Choose, Candidate
  <2>2. \A d \in CPU : proc[d] # p
    BY <2>1
  <2> QED
    BY <2>1, <2>2
<1>5. ASSUME NEW c \in harts, Pass(c) PROVE HartInv'
  <2>1. /\ UNCHANGED <<proc, state, harts>> /\ pc[c] = "scan"
        /\ (pc' = pc \/ pc' = [pc EXCEPT ![c] = "wfi"])
    BY <1>5 DEF Pass
  <2> QED
    BY <2>1
<1>6. ASSUME NEW c \in harts, Wfi(c) PROVE HartInv'
  BY <1>6 DEF Wfi
<1>7. ASSUME NEW c \in harts, TickLoad(c) PROVE HartInv'
  BY <1>7 DEF TickLoad
<1>8. ASSUME NEW c \in harts, TickCount(c) PROVE HartInv'
  BY <1>8 DEF TickCount
<1>9. ASSUME NEW c \in harts, TickYield(c) PROVE HartInv'
  BY <1>9 DEF TickYield, Leave
<1>10. ASSUME NEW c \in harts, SleepProc(c) PROVE HartInv'
  BY <1>10 DEF SleepProc, Leave
<1>11. ASSUME NEW c \in harts, ExitProc(c) PROVE HartInv'
  BY <1>11 DEF ExitProc, Leave
<1>12. ASSUME NEW c \in harts, NEW p \in Slot, ForkProc(c, p) PROVE HartInv'
  BY <1>12 DEF ForkProc, hart
<1>13. ASSUME NEW p \in Slot, Wake(p) PROVE HartInv'
  BY <1>13 DEF Wake, hart
<1>14. CASE Clock
  BY <1>14 DEF Clock
<1>15. CASE UNCHANGED vars
  BY <1>15 DEF vars
<1> QED
  BY <1>1, <1>2, <1>3, <1>4, <1>5, <1>6, <1>7, <1>8, <1>9, <1>10, <1>11, <1>12,
     <1>13, <1>14, <1>15 DEF Next, Sched, Timer

(* ticks_used stays under the longest slice, also when a boost races a tick. *)
LEMMA StepTicks == TypeOK /\ HartInv /\ TicksInv /\ [Next]_vars => TicksInv'
<1> SUFFICES ASSUME TypeOK, HartInv, TicksInv, [Next]_vars
             PROVE  TicksInv'
  OBVIOUS
<1> USE DEF TypeOK, TicksInv
<1>1. ASSUME NEW c \in harts, Top(c) PROVE TicksInv'
  BY <1>1 DEF Top, StartScan
<1>2. ASSUME NEW c \in harts, BoostSlot(c) PROVE TicksInv'
  <2>4. i[c] \in Slot
    BY <1>2, Sizing, SMTT(30) DEF BoostSlot, Slot
  <2>5. ticks_used' = ticks_used \/ ticks_used' = [ticks_used EXCEPT ![i[c]] = 0]
    BY <1>2 DEF BoostSlot
  <2>1. /\ UNCHANGED <<pc, proc, seen>>
        /\ (ticks_used' = ticks_used \/ \E p \in Slot : ticks_used' = [ticks_used EXCEPT ![p] = 0])
    BY <1>2, <2>4, <2>5 DEF BoostSlot
  <2>2. CASE ticks_used' = ticks_used
    BY <2>1, <2>2
  <2>3. ASSUME NEW p \in Slot, ticks_used' = [ticks_used EXCEPT ![p] = 0] PROVE TicksInv'
    <3>1. \A d \in CPU : seen[d][1] \in Nat /\ TopSlice \in Nat \ {0}
      BY Slices
    <3> QED
      BY <2>1, <2>3, <3>1
  <2> QED
    BY <2>1, <2>2, <2>3
<1>3. ASSUME NEW c \in harts, BoostEnd(c) PROVE TicksInv'
  BY <1>3 DEF BoostEnd, StartScan
<1>4. ASSUME NEW c \in harts, NEW p \in Slot, Choose(c, p) PROVE TicksInv'
  <2>1. /\ UNCHANGED <<ticks_used, seen>> /\ pc[c] = "scan"
        /\ proc' = [proc EXCEPT ![c] = p] /\ pc' = [pc EXCEPT ![c] = "run"]
        /\ state[p] = "RUNNABLE"
    BY <1>4 DEF Choose, Candidate
  <2>2. \A d \in CPU : proc[d] # p
    BY <2>1, Sizing DEF HartInv
  <2> QED
    BY <2>1, <2>2, Sizing DEF HartInv
<1>5. ASSUME NEW c \in harts, Pass(c) PROVE TicksInv'
  BY <1>5 DEF Pass, ScanDone
<1>6. ASSUME NEW c \in harts, Wfi(c) PROVE TicksInv'
  BY <1>6 DEF Wfi
<1>7. ASSUME NEW c \in harts, TickLoad(c) PROVE TicksInv'
  <2>0. proc[c] \in Slot /\ \A d \in CPU : proc[d] = proc[c] => d = c
    BY <1>7, OnHart DEF TickLoad
  <2>1. /\ UNCHANGED <<proc, ticks_used>> /\ pc' = [pc EXCEPT ![c] = "count"] /\ pc[c] = "run"
        /\ seen' = [seen EXCEPT ![c] = <<ticks_used[proc[c]], queue[proc[c]]>>]
    BY <1>7 DEF TickLoad
  <2>2. ticks_used[proc[c]] < TopSlice
    BY <2>0, <2>1
  <2>3. seen'[c][1] < TopSlice /\ \A d \in CPU : d # c => seen'[d] = seen[d] /\ pc'[d] = pc[d]
    BY <2>1, <2>2
  <2>4. pc'[c] = "count" /\ \A d \in CPU : pc'[d] = "demote" => pc[d] = "demote" /\ d # c
    BY <2>1
  <2>5. ASSUME NEW p \in Slot, \A d \in CPU : proc[d] = p => pc'[d] # "demote"
        PROVE  \A d \in CPU : proc[d] = p => pc[d] # "demote"
    BY <2>1, <2>5
  <2> QED
    BY <2>1, <2>3, <2>4, <2>5
<1>8. ASSUME NEW c \in harts, TickCount(c) PROVE TicksInv'
  <2>0. proc[c] \in Slot /\ \A d \in CPU : proc[d] = proc[c] => d = c
    BY <1>8, OnHart DEF TickCount
  <2>1. /\ UNCHANGED proc /\ pc' = [pc EXCEPT ![c] = "demote"] /\ pc[c] = "count"
        /\ ticks_used' = [ticks_used EXCEPT ![proc[c]] = seen[c][1] + 1]
        /\ \E l : seen' = [seen EXCEPT ![c] = <<seen[c][1] + 1, l>>]
    BY <1>8 DEF TickCount
  <2>2. seen'[c][1] = seen[c][1] + 1 /\ \A d \in CPU : d # c => seen'[d] = seen[d] /\ pc'[d] = pc[d]
    BY <2>1
  <2>3. \A p \in Slot : p # proc[c] => ticks_used'[p] = ticks_used[p]
    BY <2>1
  <2>4. ticks_used'[proc[c]] = seen'[c][1] /\ seen[c][1] \in Nat /\ pc'[c] = "demote"
    BY <2>0, <2>1, <2>2
  <2>5. ASSUME NEW p \in Slot, \A d \in CPU : proc'[d] = p => pc'[d] # "demote"
        PROVE  ticks_used'[p] < TopSlice
    <3>1. p # proc[c]
      BY <2>1, <2>4, <2>5
    <3>2. \A d \in CPU : proc[d] = p => pc[d] # "demote"
      BY <2>1, <2>2, <2>5, <3>1
    <3> QED
      BY <2>3, <3>1, <3>2
  <2>6. ASSUME NEW d \in CPU, pc'[d] = "demote" PROVE ticks_used'[proc'[d]] <= seen'[d][1]
    <3>1. CASE d = c
      BY <2>1, <2>2, <2>4, <3>1
    <3>2. CASE d # c
      <4>1. pc[d] = "demote"
        BY <2>2, <2>6, <3>2
      <4>2. proc[d] \in Slot /\ proc[d] # proc[c]
        BY <2>0, <3>2, <4>1, OnHart
      <4> QED
        BY <2>1, <2>2, <2>3, <3>2, <4>1, <4>2
    <3> QED
      BY <3>1, <3>2
  <2>7. ASSUME NEW d \in CPU, pc'[d] = "count" PROVE seen'[d][1] < TopSlice
    BY <2>2, <2>4, <2>7
  <2> QED
    BY <2>5, <2>6, <2>7
<1>9. ASSUME NEW c \in harts, TickYield(c) PROVE TicksInv'
  <2>0. proc[c] \in Slot /\ \A d \in CPU : proc[d] = proc[c] => d = c
    BY <1>9, OnHart DEF TickYield
  <2>1. /\ proc' = [proc EXCEPT ![c] = NoProc] /\ pc' = [pc EXCEPT ![c] = "top"]
        /\ seen' = [seen EXCEPT ![c] = <<0, 0>>] /\ pc[c] = "demote"
    BY <1>9 DEF TickYield, Leave
  <2>2. seen[c][2] \in Queue /\ seen[c][1] \in Nat /\ ticks_used[proc[c]] \in Nat
    BY <2>0
  <2>3. /\ \E n \in Nat : ticks_used' = [ticks_used EXCEPT ![proc[c]] = n] /\ n < TopSlice
    <3>1. CASE SliceUsed(c)
      <4>1. ticks_used' = [ticks_used EXCEPT ![proc[c]] = 0]
        BY <1>9, <3>1 DEF TickYield
      <4>2. 0 \in Nat /\ 0 < TopSlice
        BY Slices
      <4> QED
        BY <4>1, <4>2
    <3>2. CASE ~SliceUsed(c)
      <4>1. ticks_used' = ticks_used /\ ~(seen[c][1] >= mlfq_slice[seen[c][2]])
        BY <1>9, <3>2 DEF TickYield, SliceUsed
      <4>2. ticks_used[proc[c]] <= seen[c][1]
        BY <2>1
      <4>3. mlfq_slice[seen[c][2]] \in Nat /\ mlfq_slice[seen[c][2]] <= TopSlice /\ TopSlice \in Nat
        BY <2>2, Slices
      <4>4. ticks_used[proc[c]] < TopSlice
        BY <2>2, <4>1, <4>2, <4>3
      <4>5. ticks_used' = [ticks_used EXCEPT ![proc[c]] = ticks_used[proc[c]]]
        BY <4>1
      <4> QED
        BY <2>2, <4>4, <4>5
    <3> QED
      BY <3>1, <3>2
  <2>4. PICK n \in Nat : ticks_used' = [ticks_used EXCEPT ![proc[c]] = n] /\ n < TopSlice
    BY <2>3
  <2>5. ASSUME NEW p \in Slot, \A d \in CPU : proc'[d] = p => pc'[d] # "demote"
        PROVE  ticks_used'[p] < TopSlice
    <3>1. CASE p = proc[c]
      BY <2>0, <2>4, <3>1
    <3>2. CASE p # proc[c]
      BY <2>1, <2>4, <2>5, <3>2
    <3> QED
      BY <3>1, <3>2
  <2>6. \A d \in CPU : pc'[d] = "demote" => d # c /\ proc[d] # proc[c]
    BY <2>0, <2>1
  <2>8. \A d \in CPU : pc'[d] \in {"count", "demote"}
          => d # c /\ seen'[d] = seen[d] /\ proc'[d] = proc[d] /\ pc'[d] = pc[d]
    BY <2>1
  <2>9. ASSUME NEW d \in CPU, pc'[d] = "demote" PROVE ticks_used'[proc'[d]] <= seen'[d][1]
    <3>1. /\ pc[d] = "demote" /\ proc[d] \in Slot /\ proc'[d] = proc[d] /\ seen'[d] = seen[d]
          /\ proc[d] # proc[c]
      BY <2>6, <2>8, <2>9, OnHart
    <3>2. ticks_used'[proc[d]] = ticks_used[proc[d]]
      BY <2>4, <3>1
    <3> QED
      BY <3>1, <3>2
  <2> QED
    BY <2>5, <2>8, <2>9
<1>10. ASSUME NEW c \in harts, SleepProc(c) PROVE TicksInv'
  <2>0. proc[c] \in Slot /\ \A d \in CPU : proc[d] = proc[c] => d = c
    BY <1>10, OnHart DEF SleepProc
  <2>1. /\ proc' = [proc EXCEPT ![c] = NoProc] /\ pc' = [pc EXCEPT ![c] = "top"]
        /\ seen' = seen /\ ticks_used' = [ticks_used EXCEPT ![proc[c]] = 0] /\ pc[c] = "run"
    BY <1>10 DEF SleepProc, Leave
  <2>2. \A d \in CPU : seen[d][1] \in Nat /\ TopSlice \in Nat \ {0}
    BY Slices
  <2>3. \A d \in CPU : pc'[d] = "demote"
          => proc'[d] \in Slot /\ proc'[d] # proc[c] /\ pc[d] = "demote"
    BY <2>0, <2>1, OnHart
  <2> QED
    BY <2>0, <2>1, <2>2, <2>3
<1>11. ASSUME NEW c \in harts, ExitProc(c) PROVE TicksInv'
  BY <1>11 DEF ExitProc, Leave
<1>12. ASSUME NEW c \in harts, NEW p \in Slot, ForkProc(c, p) PROVE TicksInv'
  <2>1. /\ UNCHANGED <<proc, pc, seen>> /\ ticks_used' = [ticks_used EXCEPT ![p] = 0]
        /\ state[p] = "UNUSED"
    BY <1>12 DEF ForkProc, hart
  <2>2. \A d \in CPU : seen[d][1] \in Nat /\ TopSlice \in Nat \ {0}
    BY Slices
  <2> QED
    BY <2>1, <2>2
<1>13. ASSUME NEW p \in Slot, Wake(p) PROVE TicksInv'
  BY <1>13 DEF Wake, hart
<1>14. CASE Clock
  BY <1>14 DEF Clock
<1>15. CASE UNCHANGED vars
  BY <1>15 DEF vars
<1> QED
  BY <1>1, <1>2, <1>3, <1>4, <1>5, <1>6, <1>7, <1>8, <1>9, <1>10, <1>11, <1>12,
     <1>13, <1>14, <1>15 DEF Next, Sched, Timer

(* On one hart nothing comes between the loads of a tick and their use. *)
LEMMA StepLoaded ==
  TypeOK /\ HartInv /\ OneHart /\ Loaded /\ SlicesKept /\ [Next]_vars
  => Loaded'
<1> SUFFICES ASSUME TypeOK, HartInv, OneHart, Loaded, SlicesKept, [Next]_vars
             PROVE  Loaded'
  OBVIOUS
<1> USE DEF TypeOK, Loaded
<1>1. ASSUME NEW c \in harts, Top(c) PROVE Loaded'
  <2>0. \A d \in CPU : d # c => pc[d] = "top" /\ proc[d] = NoProc
    BY <1>1, OthersIdle
  <2>1. \A d \in CPU : pc'[d] \notin {"count", "demote"}
    BY <1>1, <2>0 DEF Top, StartScan
  <2> QED
    BY <2>1
<1>2. ASSUME NEW c \in harts, BoostSlot(c) PROVE Loaded'
  <2>0. \A d \in CPU : d # c => pc[d] = "top" /\ proc[d] = NoProc
    BY <1>2, OthersIdle
  <2>1. \A d \in CPU : pc'[d] \notin {"count", "demote"}
    BY <1>2, <2>0 DEF BoostSlot
  <2> QED
    BY <2>1
<1>3. ASSUME NEW c \in harts, BoostEnd(c) PROVE Loaded'
  <2>0. \A d \in CPU : d # c => pc[d] = "top" /\ proc[d] = NoProc
    BY <1>3, OthersIdle
  <2>1. \A d \in CPU : pc'[d] \notin {"count", "demote"}
    BY <1>3, <2>0 DEF BoostEnd, StartScan
  <2> QED
    BY <2>1
<1>4. ASSUME NEW c \in harts, NEW p \in Slot, Choose(c, p) PROVE Loaded'
  <2>0. \A d \in CPU : d # c => pc[d] = "top" /\ proc[d] = NoProc
    BY <1>4, OthersIdle
  <2>1. \A d \in CPU : pc'[d] \notin {"count", "demote"}
    BY <1>4, <2>0 DEF Choose
  <2> QED
    BY <2>1
<1>5. ASSUME NEW c \in harts, Pass(c) PROVE Loaded'
  <2>0. \A d \in CPU : d # c => pc[d] = "top" /\ proc[d] = NoProc
    BY <1>5, OthersIdle
  <2>1. \A d \in CPU : pc'[d] \notin {"count", "demote"}
    BY <1>5, <2>0 DEF Pass
  <2> QED
    BY <2>1
<1>6. ASSUME NEW c \in harts, Wfi(c) PROVE Loaded'
  <2>0. \A d \in CPU : d # c => pc[d] = "top" /\ proc[d] = NoProc
    BY <1>6, OthersIdle
  <2>1. \A d \in CPU : pc'[d] \notin {"count", "demote"}
    BY <1>6, <2>0 DEF Wfi
  <2> QED
    BY <2>1
<1>7. ASSUME NEW c \in harts, TickLoad(c) PROVE Loaded'
  <2>0. \A d \in CPU : d # c => pc[d] = "top" /\ proc[d] = NoProc
    BY <1>7, OthersIdle
  <2>9. proc[c] \in Slot /\ \A d \in CPU : proc[d] = proc[c] => d = c
    BY <1>7, OnHart DEF TickLoad
  <2>1. /\ pc[c] = "run" /\ pc' = [pc EXCEPT ![c] = "count"] /\ UNCHANGED <<queue, ticks_used, proc>>
        /\ seen' = [seen EXCEPT ![c] = <<ticks_used[proc[c]], queue[proc[c]]>>]
    BY <1>7 DEF TickLoad
  <2>2. ticks_used[proc[c]] < mlfq_slice[queue[proc[c]]]
    BY <2>9, <2>1 DEF SlicesKept
  <2>3. ASSUME NEW d \in CPU, pc'[d] \in {"count", "demote"} PROVE d = c
    BY <2>0, <2>1, <2>3
  <2>4. pc'[c] = "count" /\ seen'[c] = <<ticks_used[proc[c]], queue[proc[c]]>>
    BY <2>1
  <2> QED
    BY <2>1, <2>2, <2>3, <2>4
<1>8. ASSUME NEW c \in harts, TickCount(c) PROVE Loaded'
  <2>0. \A d \in CPU : d # c => pc[d] = "top" /\ proc[d] = NoProc
    BY <1>8, OthersIdle
  <2>9. proc[c] \in Slot /\ \A d \in CPU : proc[d] = proc[c] => d = c
    BY <1>8, OnHart DEF TickCount
  <2>1. /\ pc[c] = "count" /\ pc' = [pc EXCEPT ![c] = "demote"] /\ UNCHANGED <<queue, proc>>
        /\ ticks_used' = [ticks_used EXCEPT ![proc[c]] = seen[c][1] + 1]
        /\ \E l \in {seen[c][2], queue[proc[c]]} : seen' = [seen EXCEPT ![c] = <<seen[c][1] + 1, l>>]
    BY <1>8 DEF TickCount
  <2>2. seen[c] = <<ticks_used[proc[c]], queue[proc[c]]>>
    BY <2>1
  <2>5. seen[c][2] = queue[proc[c]]
    BY <2>2
  <2>3. ASSUME NEW d \in CPU, pc'[d] \in {"count", "demote"} PROVE d = c
    BY <2>0, <2>1, <2>3
  <2>4. pc'[c] = "demote" /\ seen'[c] = <<seen[c][1] + 1, queue[proc[c]]>>
    BY <2>1, <2>5
  <2>6. ticks_used'[proc[c]] = seen[c][1] + 1
    BY <2>1, <2>9
  <2> QED
    BY <2>1, <2>3, <2>4, <2>6
<1>9. ASSUME NEW c \in harts, TickYield(c) PROVE Loaded'
  <2>0. \A d \in CPU : d # c => pc[d] = "top" /\ proc[d] = NoProc
    BY <1>9, OthersIdle
  <2>1. \A d \in CPU : pc'[d] \notin {"count", "demote"}
    BY <1>9, <2>0 DEF TickYield, Leave
  <2> QED
    BY <2>1
<1>10. ASSUME NEW c \in harts, SleepProc(c) PROVE Loaded'
  <2>0. \A d \in CPU : d # c => pc[d] = "top" /\ proc[d] = NoProc
    BY <1>10, OthersIdle
  <2>1. \A d \in CPU : pc'[d] \notin {"count", "demote"}
    BY <1>10, <2>0 DEF SleepProc, Leave
  <2> QED
    BY <2>1
<1>11. ASSUME NEW c \in harts, ExitProc(c) PROVE Loaded'
  <2>0. \A d \in CPU : d # c => pc[d] = "top" /\ proc[d] = NoProc
    BY <1>11, OthersIdle
  <2>1. \A d \in CPU : pc'[d] \notin {"count", "demote"}
    BY <1>11, <2>0 DEF ExitProc, Leave
  <2> QED
    BY <2>1
<1>12. ASSUME NEW c \in harts, NEW p \in Slot, ForkProc(c, p) PROVE Loaded'
  <2>0. \A d \in CPU : d # c => pc[d] = "top" /\ proc[d] = NoProc
    BY <1>12, OthersIdle
  <2>1. \A d \in CPU : pc'[d] \notin {"count", "demote"}
    BY <1>12, <2>0 DEF ForkProc, hart
  <2> QED
    BY <2>1
<1>13. ASSUME NEW p \in Slot, Wake(p) PROVE Loaded'
  BY <1>13 DEF Wake, hart
<1>14. CASE Clock
  BY <1>14 DEF Clock
<1>15. CASE UNCHANGED vars
  BY <1>15 DEF vars
<1> QED
  BY <1>1, <1>2, <1>3, <1>4, <1>5, <1>6, <1>7, <1>8, <1>9, <1>10, <1>11, <1>12,
     <1>13, <1>14, <1>15 DEF Next, Sched, Timer

(* On one hart a used-up slice is renewed by the tick that uses it up. *)
LEMMA StepSlice ==
  TypeOK /\ HartInv /\ OneHart /\ Loaded /\ SlicesKept /\ [Next]_vars
  => SlicesKept'
<1> SUFFICES ASSUME TypeOK, HartInv, OneHart, Loaded, SlicesKept, [Next]_vars
             PROVE  SlicesKept'
  OBVIOUS
<1> USE DEF TypeOK, SlicesKept
<1>1. ASSUME NEW c \in harts, Top(c) PROVE SlicesKept'
  <2>0. \A d \in CPU : d # c => pc[d] = "top" /\ proc[d] = NoProc
    BY <1>1, OthersIdle
  <2>1. pc[c] \notin {"count", "demote"}
    BY <1>1 DEF Top
  <2>2. \A r \in Slot : ticks_used[r] < mlfq_slice[queue[r]]
    BY <2>0, <2>1, Sizing
  <2> QED
    BY <1>1, <2>2 DEF Top, StartScan
<1>2. ASSUME NEW c \in harts, BoostSlot(c) PROVE SlicesKept'
  <2>0. \A d \in CPU : d # c => pc[d] = "top" /\ proc[d] = NoProc
    BY <1>2, OthersIdle
  <2>1. pc[c] \notin {"count", "demote"}
    BY <1>2 DEF BoostSlot
  <2>2. \A r \in Slot : ticks_used[r] < mlfq_slice[queue[r]]
    BY <2>0, <2>1, Sizing
  <2>3. mlfq_slice[0] \in Nat \ {0} /\ 0 \in Queue
    BY Slices
  <2>4. \/ UNCHANGED <<queue, ticks_used>>
        \/ queue' = [queue EXCEPT ![i[c]] = 0] /\ ticks_used' = [ticks_used EXCEPT ![i[c]] = 0]
    BY <1>2 DEF BoostSlot
  <2>5. \A r \in Slot : \/ queue'[r] = queue[r] /\ ticks_used'[r] = ticks_used[r]
                        \/ queue'[r] = 0 /\ ticks_used'[r] = 0
    BY <2>4
  <2> QED
    BY <2>2, <2>3, <2>5
<1>3. ASSUME NEW c \in harts, BoostEnd(c) PROVE SlicesKept'
  <2>0. \A d \in CPU : d # c => pc[d] = "top" /\ proc[d] = NoProc
    BY <1>3, OthersIdle
  <2>1. pc[c] \notin {"count", "demote"}
    BY <1>3 DEF BoostEnd
  <2>2. \A r \in Slot : ticks_used[r] < mlfq_slice[queue[r]]
    BY <2>0, <2>1, Sizing
  <2> QED
    BY <1>3, <2>2 DEF BoostEnd, StartScan
<1>4. ASSUME NEW c \in harts, NEW p \in Slot, Choose(c, p) PROVE SlicesKept'
  <2>0. \A d \in CPU : d # c => pc[d] = "top" /\ proc[d] = NoProc
    BY <1>4, OthersIdle
  <2>1. pc[c] \notin {"count", "demote"}
    BY <1>4 DEF Choose
  <2>2. \A r \in Slot : ticks_used[r] < mlfq_slice[queue[r]]
    BY <2>0, <2>1, Sizing
  <2> QED
    BY <1>4, <2>2 DEF Choose
<1>5. ASSUME NEW c \in harts, Pass(c) PROVE SlicesKept'
  <2>0. \A d \in CPU : d # c => pc[d] = "top" /\ proc[d] = NoProc
    BY <1>5, OthersIdle
  <2>1. pc[c] \notin {"count", "demote"}
    BY <1>5 DEF Pass
  <2>2. \A r \in Slot : ticks_used[r] < mlfq_slice[queue[r]]
    BY <2>0, <2>1, Sizing
  <2> QED
    BY <1>5, <2>2 DEF Pass
<1>6. ASSUME NEW c \in harts, Wfi(c) PROVE SlicesKept'
  <2>0. \A d \in CPU : d # c => pc[d] = "top" /\ proc[d] = NoProc
    BY <1>6, OthersIdle
  <2>1. pc[c] \notin {"count", "demote"}
    BY <1>6 DEF Wfi
  <2>2. \A r \in Slot : ticks_used[r] < mlfq_slice[queue[r]]
    BY <2>0, <2>1, Sizing
  <2> QED
    BY <1>6, <2>2 DEF Wfi
<1>7. ASSUME NEW c \in harts, TickLoad(c) PROVE SlicesKept'
  <2>0. \A d \in CPU : d # c => pc[d] = "top" /\ proc[d] = NoProc
    BY <1>7, OthersIdle
  <2>1. pc[c] \notin {"count", "demote"}
    BY <1>7 DEF TickLoad
  <2>2. \A r \in Slot : ticks_used[r] < mlfq_slice[queue[r]]
    BY <2>0, <2>1, Sizing
  <2> QED
    BY <1>7, <2>2 DEF TickLoad
<1>8. ASSUME NEW c \in harts, TickCount(c) PROVE SlicesKept'
  <2>0. \A d \in CPU : d # c => pc[d] = "top" /\ proc[d] = NoProc
    BY <1>8, OthersIdle
  <2>9. proc[c] \in Slot /\ \A d \in CPU : proc[d] = proc[c] => d = c
    BY <1>8, OnHart DEF TickCount
  <2>1. /\ pc' = [pc EXCEPT ![c] = "demote"] /\ UNCHANGED <<queue, proc>>
        /\ ticks_used' = [ticks_used EXCEPT ![proc[c]] = seen[c][1] + 1]
    BY <1>8 DEF TickCount
  <2>2. ASSUME NEW r \in Slot, \A d \in CPU : proc'[d] = r => pc'[d] \notin {"count", "demote"}
        PROVE  ticks_used'[r] < mlfq_slice[queue'[r]]
    <3>1. r # proc[c]
      BY <2>1, <2>2
    <3>2. \A d \in CPU : proc[d] = r => pc[d] \notin {"count", "demote"}
      BY <2>0, <3>1
    <3> QED
      BY <2>1, <3>1, <3>2
  <2> QED
    BY <2>2
<1>9. ASSUME NEW c \in harts, TickYield(c) PROVE SlicesKept'
  <2>0. \A d \in CPU : d # c => pc[d] = "top" /\ proc[d] = NoProc
    BY <1>9, OthersIdle
  <2>9. proc[c] \in Slot /\ \A d \in CPU : proc[d] = proc[c] => d = c
    BY <1>9, OnHart DEF TickYield
  <2>1. pc[c] = "demote" /\ seen[c] = <<ticks_used[proc[c]], queue[proc[c]]>>
    BY <1>9 DEF TickYield, Loaded
  <2>2. ASSUME NEW r \in Slot, r # proc[c] PROVE ticks_used'[r] < mlfq_slice[queue'[r]]
    <3>1. queue'[r] = queue[r] /\ ticks_used'[r] = ticks_used[r]
      BY <1>9, <2>2 DEF TickYield
    <3>2. \A d \in CPU : proc[d] = r => pc[d] \notin {"count", "demote"}
      BY <2>0, <2>2
    <3> QED
      BY <3>1, <3>2
  <2>3. ticks_used'[proc[c]] < mlfq_slice[queue'[proc[c]]]
    <3>1. CASE SliceUsed(c)
      <4>1. ticks_used' = [ticks_used EXCEPT ![proc[c]] = 0]
        BY <1>9, <3>1 DEF TickYield
      <4>2. queue' = [queue EXCEPT ![proc[c]] = Lower(proc[c], seen[c][2])]
        BY <1>9, <3>1 DEF TickYield
      <4>3. Lower(proc[c], seen[c][2]) \in Queue
        BY <2>1, <2>9, LowerQueue
      <4> QED
        BY <2>9, <4>1, <4>2, <4>3, Slices
    <3>2. CASE ~SliceUsed(c)
      <4>1. UNCHANGED <<queue, ticks_used>>
        BY <1>9, <3>2 DEF TickYield
      <4>2. seen[c][1] = ticks_used[proc[c]] /\ seen[c][2] = queue[proc[c]]
        BY <2>1
      <4>3. ticks_used[proc[c]] \in Nat /\ mlfq_slice[queue[proc[c]]] \in Nat
        BY <2>9, Slices
      <4> QED
        BY <3>2, <4>1, <4>2, <4>3 DEF SliceUsed
    <3> QED
      BY <3>1, <3>2
  <2> QED
    BY <2>2, <2>3
<1>10. ASSUME NEW c \in harts, SleepProc(c) PROVE SlicesKept'
  <2>0. \A d \in CPU : d # c => pc[d] = "top" /\ proc[d] = NoProc
    BY <1>10, OthersIdle
  <2>1. pc[c] \notin {"count", "demote"}
    BY <1>10 DEF SleepProc
  <2>2. \A r \in Slot : ticks_used[r] < mlfq_slice[queue[r]]
    BY <2>0, <2>1, Sizing
  <2>3. UNCHANGED queue /\ ticks_used' = [ticks_used EXCEPT ![proc[c]] = 0]
    BY <1>10 DEF SleepProc
  <2>4. \A l \in Queue : 0 < mlfq_slice[l]
    BY Slices
  <2> QED
    BY <2>2, <2>3, <2>4
<1>11. ASSUME NEW c \in harts, ExitProc(c) PROVE SlicesKept'
  <2>0. \A d \in CPU : d # c => pc[d] = "top" /\ proc[d] = NoProc
    BY <1>11, OthersIdle
  <2>1. pc[c] \notin {"count", "demote"}
    BY <1>11 DEF ExitProc
  <2>2. \A r \in Slot : ticks_used[r] < mlfq_slice[queue[r]]
    BY <2>0, <2>1, Sizing
  <2> QED
    BY <1>11, <2>2 DEF ExitProc, Leave
<1>12. ASSUME NEW c \in harts, NEW p \in Slot, ForkProc(c, p) PROVE SlicesKept'
  <2>0. \A d \in CPU : d # c => pc[d] = "top" /\ proc[d] = NoProc
    BY <1>12, OthersIdle
  <2>1. pc[c] \notin {"count", "demote"}
    BY <1>12 DEF ForkProc
  <2>2. \A r \in Slot : ticks_used[r] < mlfq_slice[queue[r]]
    BY <2>0, <2>1, Sizing
  <2>3. queue' = [queue EXCEPT ![p] = 0] /\ ticks_used' = [ticks_used EXCEPT ![p] = 0]
    BY <1>12 DEF ForkProc
  <2>4. 0 \in Queue /\ 0 < mlfq_slice[0]
    BY Slices
  <2> QED
    BY <2>2, <2>3, <2>4
<1>13. ASSUME NEW p \in Slot, Wake(p) PROVE SlicesKept'
  BY <1>13 DEF Wake, hart
<1>14. CASE Clock
  BY <1>14 DEF Clock
<1>15. CASE UNCHANGED vars
  BY <1>15 DEF vars
<1> QED
  BY <1>1, <1>2, <1>3, <1>4, <1>5, <1>6, <1>7, <1>8, <1>9, <1>10, <1>11, <1>12,
     <1>13, <1>14, <1>15 DEF Next, Sched, Timer

(* What has been ready since a scan began is met by it, in its queue or a lower one. *)
LEMMA StepScan == TypeOK /\ HartInv /\ ScanInv /\ [Next]_vars => ScanInv'
<1> SUFFICES ASSUME TypeOK, HartInv, ScanInv, [Next]_vars
             PROVE  ScanInv'
  OBVIOUS
<1> USE DEF TypeOK, ScanInv
<1>1. ASSUME NEW c \in harts, Top(c) PROVE ScanInv'
  <2>1. CASE BoostDue(c)
    BY <1>1, <2>1, SMTT(30) DEF Top
  <2>2. CASE ~BoostDue(c)
    BY <1>1, <2>2, ScanBegins DEF Top
  <2> QED
    BY <2>1, <2>2
<1>2. ASSUME NEW c \in harts, BoostSlot(c) PROVE ScanInv'
  BY <1>2 DEF BoostSlot, Forget
<1>3. ASSUME NEW c \in harts, BoostEnd(c) PROVE ScanInv'
  <2> QED
    BY <1>3, ScanBegins DEF BoostEnd
<1>4. ASSUME NEW c \in harts, NEW p \in Slot, Choose(c, p) PROVE ScanInv'
  BY <1>4 DEF Choose, ScanDone
<1>5. ASSUME NEW c \in harts, Pass(c) PROVE ScanInv'
  <2> HIDE DEF TypeOK, ScanInv
  <2>1. Index(c) \in Slot /\ Dist(start[c], Index(c)) = i[c] /\ i[c] \in 1..NPROC
    BY <1>5, Looks DEF Pass, TypeOK
  <2>8. /\ start[c] \in Slot /\ q[c] \in Queue /\ \A r \in ready[c] : r \in Slot /\ queue[r] \in Queue
    BY DEF TypeOK
  <2>9. \A r \in ready[c] : /\ state[r] = "RUNNABLE" /\ queue[r] >= q[c]
                            /\ queue[r] = q[c] => Dist(start[c], r) >= i[c]
    BY DEF ScanInv, TypeOK
  <2>2. ~(state[Index(c)] = "RUNNABLE" /\ queue[Index(c)] = q[c])
    BY <1>5 DEF Pass, Candidate
  <2>3. UNCHANGED <<state, queue>> /\ pc[c] = "scan"
    BY <1>5 DEF Pass
  <2>4. ASSUME NEW r \in ready[c], queue[r] = q[c]
        PROVE  Dist(start[c], r) > i[c] /\ Dist(start[c], r) <= NPROC
    <3>1. r # Index(c)
      BY <2>2, <2>4, <2>9
    <3>2. Dist(start[c], r) # i[c]
      BY <2>1, <2>8, <3>1, DistSame
    <3>3. Dist(start[c], r) \in 1..NPROC
      BY <2>8, DistRange
    <3>4. Dist(start[c], r) >= i[c]
      BY <2>4, <2>9
    <3> QED
      BY <2>1, <3>2, <3>3, <3>4, Sizing
  <2>10. ASSUME NEW r \in ready[c]
         PROVE  Dist(start[c], r) \in 1..NPROC /\ queue[r] \in Nat /\ q[c] \in Nat
    BY <2>8, DistRange, Sizing DEF Queue
  <2>5. CASE i[c] < NPROC /\ i' = [i EXCEPT ![c] = i[c] + 1] /\ UNCHANGED <<pc, q, start, ready>>
    <3>2. i'[c] = i[c] + 1
      BY <2>5 DEF TypeOK
    <3>5. i[c] + 1 \in 1..NPROC
      BY <2>1, <2>5, Sizing
    <3>3. \A r \in ready[c] : queue[r] = q[c] => Dist(start[c], r) >= i[c] + 1
      BY <2>1, <2>4, <2>10
    <3>4. \A d \in CPU : d # c => i'[d] = i[d]
      BY <2>5 DEF TypeOK
    <3>6. \A r \in ready'[c] : /\ state'[r] = "RUNNABLE" /\ queue'[r] >= q'[c]
                               /\ queue'[r] = q'[c] => Dist(start'[c], r) >= i'[c]
      BY <2>3, <2>5, <2>9, <3>2, <3>3
    <3>7. pc'[c] = "scan" /\ i'[c] \in 1..NPROC
      BY <2>3, <2>5, <3>2, <3>5
    <3> QED
      BY <2>3, <2>5, <3>4, <3>6, <3>7 DEF Dist, ScanInv
  <2>6. CASE /\ i[c] = NPROC /\ q[c] < NMLFQ - 1 /\ q' = [q EXCEPT ![c] = q[c] + 1]
             /\ start' = [start EXCEPT ![c] = mlfq_last[q[c] + 1]]
             /\ i' = [i EXCEPT ![c] = 1] /\ UNCHANGED <<pc, ready>>
    <3>1. \A r \in ready[c] : queue[r] # q[c]
      BY <2>4, <2>6, <2>10, Sizing
    <3>3. \A r \in ready[c] : queue[r] >= q[c] + 1
      BY <2>9, <2>10, <3>1
    <3>8. q[c] + 1 \in Queue
      BY <2>6, <2>8, Sizing DEF Queue
    <3>4. start'[c] = mlfq_last[q[c] + 1] /\ q'[c] = q[c] + 1 /\ i'[c] = 1
      BY <2>6 DEF TypeOK
    <3>9. mlfq_last[q[c] + 1] \in Slot
      BY <3>8 DEF TypeOK
    <3>5. \A r \in ready[c] : Dist(mlfq_last[q[c] + 1], r) >= 1
      BY <2>8, <3>9, DistRange, Sizing
    <3>6. \A d \in CPU : d # c => i'[d] = i[d] /\ q'[d] = q[d] /\ start'[d] = start[d]
      BY <2>6 DEF TypeOK
    <3>7. 1 \in 1..NPROC
      BY Sizing
    <3>10. \A r \in ready'[c] : /\ state'[r] = "RUNNABLE" /\ queue'[r] >= q'[c]
                                /\ queue'[r] = q'[c] => Dist(start'[c], r) >= i'[c]
      BY <2>3, <2>6, <2>9, <3>3, <3>4, <3>5
    <3>11. pc'[c] = "scan" /\ i'[c] \in 1..NPROC
      BY <2>3, <2>6, <3>4, <3>7
    <3>12. ASSUME NEW d \in CPU, d # c
           PROVE  /\ pc'[d] = pc[d] /\ ready'[d] = ready[d] /\ i'[d] = i[d] /\ q'[d] = q[d]
                  /\ start'[d] = start[d]
      BY <2>6, <3>6, <3>12
    <3>13. ASSUME NEW d \in CPU
           PROVE  /\ pc'[d] = "scan" => i'[d] \in 1..NPROC
                  /\ pc'[d] # "scan" => ready'[d] = {}
                  /\ \A r \in ready'[d] : /\ state'[r] = "RUNNABLE" /\ queue'[r] >= q'[d]
                                          /\ queue'[r] = q'[d] => Dist(start'[d], r) >= i'[d]
      <4>1. CASE d = c
        <5>1. (pc'[d] = "scan" => i'[d] \in 1..NPROC) /\ (pc'[d] # "scan" => ready'[d] = {})
          BY <3>11, <4>1
        <5>2. \A r \in ready'[d] : /\ state'[r] = "RUNNABLE" /\ queue'[r] >= q'[d]
                                   /\ queue'[r] = q'[d] => Dist(start'[d], r) >= i'[d]
          BY <3>10, <4>1, Zenon
        <5> QED
          BY <5>1, <5>2, Zenon
      <4>2. CASE d # c
        BY <2>3, <3>12, <4>2 DEF ScanInv
      <4> QED
        BY <4>1, <4>2
    <3> QED
      BY <3>13 DEF ScanInv, Dist
  <2>7. CASE /\ i[c] = NPROC /\ pc' = [pc EXCEPT ![c] = "wfi"]
             /\ ready' = [ready EXCEPT ![c] = {}] /\ ScanDone(c)
    <3>1. ready'[c] = {} /\ pc'[c] = "wfi"
      BY <2>7 DEF TypeOK
    <3>2. \A d \in CPU : d # c => /\ pc'[d] = pc[d] /\ ready'[d] = ready[d] /\ q'[d] = q[d]
                                  /\ start'[d] = start[d] /\ i'[d] = i[d]
      BY <2>7 DEF ScanDone, TypeOK
    <3> QED
      BY <2>3, <3>1, <3>2 DEF Dist, ScanInv
  <2> QED
    BY <1>5, <2>5, <2>6, <2>7 DEF Pass
<1>6. ASSUME NEW c \in harts, Wfi(c) PROVE ScanInv'
  BY <1>6 DEF Wfi
<1>7. ASSUME NEW c \in harts, TickLoad(c) PROVE ScanInv'
  BY <1>7 DEF TickLoad
<1>8. ASSUME NEW c \in harts, TickCount(c) PROVE ScanInv'
  BY <1>8 DEF TickCount
<1>9. ASSUME NEW c \in harts, TickYield(c) PROVE ScanInv'
  <2>0. proc[c] \in Slot /\ \A d \in CPU : proc[d] = proc[c] => d = c
    BY <1>9, OnHart DEF TickYield
  <2>1. \A d \in CPU : proc[c] \notin ready[d]
    BY <1>9, OnHart DEF TickYield
  <2>2. \A r \in Slot : r # proc[c] => state'[r] = state[r] /\ queue'[r] = queue[r]
    BY <1>9 DEF TickYield, Leave
  <2>3. /\ UNCHANGED <<q, start, i, ready>>
        /\ \A d \in CPU : (pc'[d] = "scan" => pc[d] = "scan") /\ (pc'[d] # "scan" => pc[d] # "scan")
    BY <1>9 DEF TickYield, Leave
  <2> QED
    BY <2>1, <2>2, <2>3 DEF Dist
<1>10. ASSUME NEW c \in harts, SleepProc(c) PROVE ScanInv'
  <2>0. proc[c] \in Slot /\ \A d \in CPU : proc[d] = proc[c] => d = c
    BY <1>10, OnHart DEF SleepProc
  <2>1. \A d \in CPU : proc[c] \notin ready[d]
    BY <1>10, OnHart DEF SleepProc
  <2>2. \A r \in Slot : r # proc[c] => state'[r] = state[r] /\ queue'[r] = queue[r]
    BY <1>10 DEF SleepProc, Leave
  <2>3. /\ UNCHANGED <<q, start, i, ready>>
        /\ \A d \in CPU : (pc'[d] = "scan" => pc[d] = "scan") /\ (pc'[d] # "scan" => pc[d] # "scan")
    BY <1>10 DEF SleepProc, Leave
  <2> QED
    BY <2>1, <2>2, <2>3 DEF Dist
<1>11. ASSUME NEW c \in harts, ExitProc(c) PROVE ScanInv'
  <2>0. proc[c] \in Slot /\ \A d \in CPU : proc[d] = proc[c] => d = c
    BY <1>11, OnHart DEF ExitProc
  <2>1. \A d \in CPU : proc[c] \notin ready[d]
    BY <1>11, OnHart DEF ExitProc
  <2>2. \A r \in Slot : r # proc[c] => state'[r] = state[r] /\ queue'[r] = queue[r]
    BY <1>11 DEF ExitProc, Leave
  <2>3. /\ UNCHANGED <<q, start, i, ready>>
        /\ \A d \in CPU : (pc'[d] = "scan" => pc[d] = "scan") /\ (pc'[d] # "scan" => pc[d] # "scan")
    BY <1>11 DEF ExitProc, Leave
  <2> QED
    BY <2>1, <2>2, <2>3 DEF Dist
<1>12. ASSUME NEW c \in harts, NEW p \in Slot, ForkProc(c, p) PROVE ScanInv'
  BY <1>12 DEF ForkProc, hart
<1>13. ASSUME NEW p \in Slot, Wake(p) PROVE ScanInv'
  BY <1>13 DEF Wake, hart
<1>14. CASE Clock
  BY <1>14 DEF Clock
<1>15. CASE UNCHANGED vars
  BY <1>15 DEF vars
<1> QED
  BY <1>1, <1>2, <1>3, <1>4, <1>5, <1>6, <1>7, <1>8, <1>9, <1>10, <1>11, <1>12,
     <1>13, <1>14, <1>15 DEF Next, Sched, Timer

(* Every variable keeps its type. *)
LEMMA StepTypeOK == TypeOK /\ HartInv /\ TicksInv /\ [Next]_vars => TypeOK'
<1> SUFFICES ASSUME TypeOK, HartInv, TicksInv, [Next]_vars
             PROVE  TypeOK'
  OBVIOUS
<1> USE DEF HartInv
<1>1. ASSUME NEW c \in harts, Top(c) PROVE TypeOK'
  <2>1. UNCHANGED <<harts, state, queue, ticks_used, mlfq_last, proc, seen, passed, boosted>>
    BY <1>1 DEF Top
  <2>2. CASE BoostDue(c)
    <3>1. /\ since' = [since EXCEPT ![c] = 0] /\ pc' = [pc EXCEPT ![c] = "boost"]
          /\ i' = [i EXCEPT ![c] = 0] /\ UNCHANGED <<q, start, ready>>
      BY <1>1, <2>2 DEF Top
    <3>2. 0 \in 0..NPROC /\ 0 \in 0..BOOST_TICKS
      BY Sizing
    <3>3. i' \in [CPU -> 0..NPROC] /\ since' \in [CPU -> 0..BOOST_TICKS]
      BY <3>1, <3>2 DEF TypeOK
    <3> QED
      BY <2>1, <3>1, <3>3 DEF TypeOK
  <2>3. CASE ~BoostDue(c)
    <3>1. StartScan(c) /\ since' = since
      BY <1>1, <2>3 DEF Top
    <3> QED
      BY <1>1, <2>1, <3>1, StartTyped DEF TypeOK
  <2> QED
    BY <2>2, <2>3
<1>2. ASSUME NEW c \in harts, BoostSlot(c) PROVE TypeOK'
  <2>9. i[c] < NPROC /\ c \in CPU /\ i[c] \in 0..NPROC
    BY <1>2 DEF BoostSlot, TypeOK
  <2>1. i[c] \in Slot /\ i[c] + 1 \in 0..NPROC /\ 0 \in 0..NPROC
    BY <2>9, Sizing DEF Slot
  <2>2. 0 \in Queue /\ 0 \in 0..TopSlice
    BY Slices
  <2>10. queue' = queue \/ queue' = [queue EXCEPT ![i[c]] = 0]
    BY <1>2 DEF BoostSlot
  <2>11. ticks_used' = ticks_used \/ ticks_used' = [ticks_used EXCEPT ![i[c]] = 0]
    BY <1>2 DEF BoostSlot
  <2>3. /\ passed' = passed \/ \E n \in {0, passed[i[c]]} : passed' = [passed EXCEPT ![i[c]] = n]
        /\ boosted' = boosted \/ boosted' = boosted \union {i[c]}
    BY <1>2 DEF BoostSlot
  <2>4. queue' \in [Slot -> Queue]
    BY <2>2, <2>10, SMTT(30) DEF TypeOK
  <2>5. ticks_used' \in [Slot -> 0..TopSlice]
    BY <2>2, <2>11, SMTT(30) DEF TypeOK
  <2>6. passed' \in [Slot -> 0..NPROC] /\ boosted' \subseteq Slot
    BY <2>1, <2>3 DEF TypeOK
  <2>7. ready' \in [CPU -> SUBSET Slot]
    BY <1>2 DEF BoostSlot, Forget, TypeOK
  <2>8. i' \in [CPU -> 0..NPROC] /\ UNCHANGED <<harts, state, mlfq_last, pc, proc, q, start, since, seen>>
    BY <1>2, <2>1 DEF BoostSlot, TypeOK
  <2> QED
    BY <2>4, <2>5, <2>6, <2>7, <2>8 DEF TypeOK
<1>3. ASSUME NEW c \in harts, BoostEnd(c) PROVE TypeOK'
  <2>1. pc' \in [CPU -> {"top", "boost", "scan", "wfi", "run", "count", "demote"}]
    BY <1>3 DEF BoostEnd, StartScan, TypeOK
  <2>2. q' \in [CPU -> Queue]
    BY <1>3, Slices DEF BoostEnd, StartScan, TypeOK
  <2>3. start' \in [CPU -> Slot]
    BY <1>3, Slices DEF BoostEnd, StartScan, TypeOK
  <2>4. i' \in [CPU -> 0..NPROC]
    BY <1>3, Sizing DEF BoostEnd, StartScan, TypeOK
  <2>5. ready' \in [CPU -> SUBSET Slot]
    BY <1>3 DEF BoostEnd, StartScan, TypeOK
  <2> QED
    BY <1>3, <2>1, <2>2, <2>3, <2>4, <2>5 DEF BoostEnd, StartScan, TypeOK
<1>4. ASSUME NEW c \in harts, NEW p \in Slot, Choose(c, p) PROVE TypeOK'
  <2>54. 0 \in Slot
    BY Sizing DEF Slot
  <2>1. state' \in [Slot -> {"UNUSED", "RUNNABLE", "RUNNING", "SLEEPING"}]
    BY <1>4 DEF Choose, ScanDone, TypeOK
  <2>2. mlfq_last' \in [Queue -> Slot]
    BY <1>4 DEF Choose, ScanDone, TypeOK
  <2>3. proc' \in [CPU -> Slot \union {NoProc}]
    BY <1>4 DEF Choose, ScanDone, TypeOK
  <2>4. pc' \in [CPU -> {"top", "boost", "scan", "wfi", "run", "count", "demote"}]
    BY <1>4 DEF Choose, ScanDone, TypeOK
  <2>5. ready' \in [CPU -> SUBSET Slot]
    BY <1>4 DEF Choose, ScanDone, TypeOK
  <2>6. q' \in [CPU -> Queue]
    BY <1>4, Slices DEF Choose, ScanDone, TypeOK
  <2>7. start' \in [CPU -> Slot]
    BY <1>4, <2>54 DEF Choose, ScanDone, TypeOK
  <2>8. i' \in [CPU -> 0..NPROC]
    BY <1>4, Sizing DEF Choose, ScanDone, TypeOK
  <2>9. passed' \in [Slot -> 0..NPROC]
    BY <1>4, Sizing DEF Choose, ScanDone, TypeOK
  <2>10. boosted' \subseteq Slot
    BY <1>4 DEF Choose, ScanDone, TypeOK
  <2> QED
    BY <1>4, <2>1, <2>2, <2>3, <2>4, <2>5, <2>6, <2>7, <2>8, <2>9, <2>10 DEF Choose, ScanDone, TypeOK
<1>5. ASSUME NEW c \in harts, Pass(c) PROVE TypeOK'
  <2>54. 0 \in Slot
    BY Sizing DEF Slot
  <2>55. i[c] < NPROC => i[c] + 1 \in 0..NPROC
    BY Sizing DEF TypeOK
  <2>57. q[c] \in Queue
    BY DEF TypeOK
  <2>56. q[c] < NMLFQ - 1 => q[c] + 1 \in Queue
    BY <2>57, Sizing DEF Queue
  <2>1. i' \in [CPU -> 0..NPROC]
    BY <1>5, <2>55, Sizing DEF Pass, ScanDone, TypeOK
  <2>2. q' \in [CPU -> Queue]
    <3>1. 0 \in Queue
      BY Slices
    <3>2. q' = q \/ q' = [q EXCEPT ![c] = 0] \/ (q' = [q EXCEPT ![c] = q[c] + 1] /\ q[c] < NMLFQ - 1)
      BY <1>5 DEF Pass, ScanDone
    <3> QED
      BY <2>56, <3>1, <3>2, SMTT(30) DEF TypeOK
  <2>3. start' \in [CPU -> Slot]
    BY <1>5, <2>54, <2>56, SMTT(30) DEF Pass, ScanDone, TypeOK
  <2>4. pc' \in [CPU -> {"top", "boost", "scan", "wfi", "run", "count", "demote"}]
    BY <1>5 DEF Pass, ScanDone, TypeOK
  <2>5. ready' \in [CPU -> SUBSET Slot]
    BY <1>5 DEF Pass, ScanDone, TypeOK
  <2> QED
    BY <1>5, <2>1, <2>2, <2>3, <2>4, <2>5 DEF Pass, ScanDone, TypeOK
<1>6. ASSUME NEW c \in harts, Wfi(c) PROVE TypeOK'
  <2>1. pc' \in [CPU -> {"top", "boost", "scan", "wfi", "run", "count", "demote"}]
    BY <1>6 DEF Wfi, TypeOK
  <2> QED
    BY <1>6, <2>1 DEF Wfi, TypeOK
<1>7. ASSUME NEW c \in harts, TickLoad(c) PROVE TypeOK'
  <2>50. proc[c] \in Slot /\ \A d \in CPU : proc[d] = proc[c] => d = c
    BY <1>7, OnHart DEF TickLoad, TypeOK
  <2>1. seen' \in [CPU -> (0..TopSlice) \X Queue]
    BY <1>7, <2>50 DEF TickLoad, TypeOK
  <2>2. pc' \in [CPU -> {"top", "boost", "scan", "wfi", "run", "count", "demote"}]
    BY <1>7 DEF TickLoad, TypeOK
  <2> QED
    BY <1>7, <2>1, <2>2 DEF TickLoad, TypeOK
<1>8. ASSUME NEW c \in harts, TickCount(c) PROVE TypeOK'
  <2>50. proc[c] \in Slot /\ \A d \in CPU : proc[d] = proc[c] => d = c
    BY <1>8, OnHart DEF TickCount, TypeOK
  <2>57. seen[c][1] + 1 \in 0..TopSlice
    BY <1>8, Slices DEF TickCount, TypeOK, TicksInv
  <2>1. seen' \in [CPU -> (0..TopSlice) \X Queue]
    BY <1>8, <2>50, <2>57 DEF TickCount, TypeOK
  <2>2. ticks_used' \in [Slot -> 0..TopSlice]
    BY <1>8, <2>57 DEF TickCount, TypeOK
  <2>3. pc' \in [CPU -> {"top", "boost", "scan", "wfi", "run", "count", "demote"}]
    BY <1>8 DEF TickCount, TypeOK
  <2> QED
    BY <1>8, <2>1, <2>2, <2>3 DEF TickCount, TypeOK
<1>9. ASSUME NEW c \in harts, TickYield(c) PROVE TypeOK'
  <2>50. proc[c] \in Slot /\ \A d \in CPU : proc[d] = proc[c] => d = c
    BY <1>9, OnHart DEF TickYield, TypeOK
  <2>59. 0 \in 0..TopSlice
    BY Slices
  <2>60. ticks_used' = ticks_used \/ ticks_used' = [ticks_used EXCEPT ![proc[c]] = 0]
    BY <1>9 DEF TickYield
  <2>58. Lower(proc[c], seen[c][2]) \in Queue
    BY <2>50, LowerQueue DEF TypeOK
  <2>1. queue' \in [Slot -> Queue]
    BY <1>9, <2>50, <2>58, SMTT(30) DEF TickYield, Leave, TypeOK
  <2>2. ticks_used' \in [Slot -> 0..TopSlice]
    BY <1>9, <2>59, <2>60 DEF TickYield, Leave, TypeOK
  <2>3. passed' \in [Slot -> 0..NPROC]
    BY <1>9, Sizing DEF TickYield, Leave, TypeOK
  <2>4. state' \in [Slot -> {"UNUSED", "RUNNABLE", "RUNNING", "SLEEPING"}]
    BY <1>9 DEF TickYield, Leave, TypeOK
  <2>5. proc' \in [CPU -> Slot \union {NoProc}]
    BY <1>9 DEF TickYield, Leave, TypeOK
  <2>6. pc' \in [CPU -> {"top", "boost", "scan", "wfi", "run", "count", "demote"}]
    BY <1>9 DEF TickYield, Leave, TypeOK
  <2>7. seen' \in [CPU -> (0..TopSlice) \X Queue]
    BY <1>9, Slices DEF TickYield, Leave, TypeOK
  <2> QED
    BY <1>9, <2>1, <2>2, <2>3, <2>4, <2>5, <2>6, <2>7 DEF TickYield, Leave, TypeOK
<1>10. ASSUME NEW c \in harts, SleepProc(c) PROVE TypeOK'
  <2>1. ticks_used' \in [Slot -> 0..TopSlice]
    BY <1>10, Slices DEF SleepProc, Leave, TypeOK
  <2>2. state' \in [Slot -> {"UNUSED", "RUNNABLE", "RUNNING", "SLEEPING"}]
    BY <1>10 DEF SleepProc, Leave, TypeOK
  <2>3. proc' \in [CPU -> Slot \union {NoProc}]
    BY <1>10 DEF SleepProc, Leave, TypeOK
  <2>4. pc' \in [CPU -> {"top", "boost", "scan", "wfi", "run", "count", "demote"}]
    BY <1>10 DEF SleepProc, Leave, TypeOK
  <2> QED
    BY <1>10, <2>1, <2>2, <2>3, <2>4 DEF SleepProc, Leave, TypeOK
<1>11. ASSUME NEW c \in harts, ExitProc(c) PROVE TypeOK'
  <2>1. state' \in [Slot -> {"UNUSED", "RUNNABLE", "RUNNING", "SLEEPING"}]
    BY <1>11 DEF ExitProc, Leave, TypeOK
  <2>2. proc' \in [CPU -> Slot \union {NoProc}]
    BY <1>11 DEF ExitProc, Leave, TypeOK
  <2>3. pc' \in [CPU -> {"top", "boost", "scan", "wfi", "run", "count", "demote"}]
    BY <1>11 DEF ExitProc, Leave, TypeOK
  <2> QED
    BY <1>11, <2>1, <2>2, <2>3 DEF ExitProc, Leave, TypeOK
<1>12. ASSUME NEW c \in harts, NEW p \in Slot, ForkProc(c, p) PROVE TypeOK'
  <2>1. state' \in [Slot -> {"UNUSED", "RUNNABLE", "RUNNING", "SLEEPING"}]
    BY <1>12 DEF ForkProc, hart, TypeOK
  <2>2. queue' \in [Slot -> Queue]
    BY <1>12, Slices DEF ForkProc, hart, TypeOK
  <2>3. ticks_used' \in [Slot -> 0..TopSlice]
    BY <1>12, Slices DEF ForkProc, hart, TypeOK
  <2>4. passed' \in [Slot -> 0..NPROC]
    BY <1>12, Sizing DEF ForkProc, hart, TypeOK
  <2> QED
    BY <1>12, <2>1, <2>2, <2>3, <2>4 DEF ForkProc, hart, TypeOK
<1>13. ASSUME NEW p \in Slot, Wake(p) PROVE TypeOK'
  <2>1. state' \in [Slot -> {"UNUSED", "RUNNABLE", "RUNNING", "SLEEPING"}]
    BY <1>13 DEF Wake, hart, TypeOK
  <2>2. passed' \in [Slot -> 0..NPROC]
    BY <1>13, Sizing DEF Wake, hart, TypeOK
  <2> QED
    BY <1>13, <2>1, <2>2 DEF Wake, hart, TypeOK
<1>14. CASE Clock
  <2>1. since' \in [CPU -> 0..BOOST_TICKS]
    BY <1>14, Sizing DEF Clock, TypeOK
  <2> QED
    BY <1>14, <2>1 DEF Clock, TypeOK
<1>15. CASE UNCHANGED vars
  BY <1>15 DEF vars, TypeOK

<1> QED
  BY <1>1, <1>2, <1>3, <1>4, <1>5, <1>6, <1>7, <1>8, <1>9, <1>10, <1>11, <1>12,
     <1>13, <1>14, <1>15 DEF Next, Sched, Timer

(* On one hart each choice brings the scan nearer to who waits in that queue. *)
LEMMA StepWaits ==
  TypeOK /\ TypeOK' /\ HartInv /\ ScanInv /\ OneHart /\ Waits /\ [Next]_vars
  => Waits'
<1> SUFFICES ASSUME TypeOK, TypeOK', HartInv, ScanInv, OneHart, Waits, [Next]_vars
             PROVE  Waits'
  OBVIOUS
<1> USE DEF OneHart
<1>1. ASSUME NEW c \in harts, Top(c) PROVE Waits'
  <2>0. \A d \in CPU : d # c => pc[d] = "top" /\ proc[d] = NoProc
    BY <1>1, OthersIdle
  <2>1. UNCHANGED <<state, queue, passed, mlfq_last>>
    BY <1>1 DEF Top
  <2>2. \A d \in CPU : pc'[d] = "scan" => d = c /\ q'[d] = 0 /\ i'[d] = 1 /\ start'[d] = mlfq_last[0]
    BY <1>1, <2>0 DEF Top, StartScan, TypeOK
  <2>3. \A r \in Slot : Dist(mlfq_last[0], r) >= 1
    BY Slices, DistRange, Sizing DEF TypeOK
  <2>4. ASSUME NEW d \in CPU, pc'[d] = "scan"
        PROVE  /\ start'[d] = mlfq_last'[q'[d]]
               /\ \A r \in Slot : state'[r] = "RUNNABLE" /\ queue'[r] = q'[d]
                                    /\ Dist(start'[d], r) < i'[d] => passed'[r] = 0
    <3>1. \A r \in Slot : Dist(mlfq_last[0], r) \in 1..NPROC
      BY Slices, DistRange DEF TypeOK
    <3> QED
      BY <2>1, <2>2, <2>4, <3>1
  <2> QED
    BY <2>1, <2>4 DEF Waits, Dist
<1>2. ASSUME NEW c \in harts, BoostSlot(c) PROVE Waits'
  <2>0. \A d \in CPU : d # c => pc[d] = "top" /\ proc[d] = NoProc
    BY <1>2, OthersIdle
  <2>1. UNCHANGED <<state, mlfq_last>> /\ \A d \in CPU : pc'[d] # "scan"
    BY <1>2, <2>0 DEF BoostSlot
  <2>2. ASSUME NEW r \in Slot
        PROVE  \/ queue'[r] = queue[r] /\ passed'[r] = passed[r]
               \/ passed'[r] = 0
    BY <1>2 DEF BoostSlot, TypeOK
  <2>3. ASSUME NEW r \in Slot, state[r] = "RUNNABLE"
        PROVE  passed'[r] + Dist(mlfq_last[queue'[r]], r) <= NPROC
    <3>1. CASE queue'[r] = queue[r] /\ passed'[r] = passed[r]
      BY <2>3, <3>1 DEF Waits
    <3>2. CASE passed'[r] = 0
      <4>1. mlfq_last[queue'[r]] \in Slot
        BY DEF TypeOK
      <4>2. Dist(mlfq_last[queue'[r]], r) \in 1..NPROC
        BY <4>1, DistRange
      <4> QED
        BY <3>2, <4>2, Sizing
    <3> QED
      BY <2>2, <3>1, <3>2
  <2> QED
    BY <2>1, <2>3 DEF Waits, Dist
<1>3. ASSUME NEW c \in harts, BoostEnd(c) PROVE Waits'
  <2>0. \A d \in CPU : d # c => pc[d] = "top" /\ proc[d] = NoProc
    BY <1>3, OthersIdle
  <2>1. UNCHANGED <<state, queue, passed, mlfq_last>>
    BY <1>3 DEF BoostEnd
  <2>2. \A d \in CPU : pc'[d] = "scan" => d = c /\ q'[d] = 0 /\ i'[d] = 1 /\ start'[d] = mlfq_last[0]
    BY <1>3, <2>0 DEF BoostEnd, StartScan, TypeOK
  <2>3. \A r \in Slot : Dist(mlfq_last[0], r) >= 1
    BY Slices, DistRange, Sizing DEF TypeOK
  <2>4. ASSUME NEW d \in CPU, pc'[d] = "scan"
        PROVE  /\ start'[d] = mlfq_last'[q'[d]]
               /\ \A r \in Slot : state'[r] = "RUNNABLE" /\ queue'[r] = q'[d]
                                    /\ Dist(start'[d], r) < i'[d] => passed'[r] = 0
    <3>1. \A r \in Slot : Dist(mlfq_last[0], r) \in 1..NPROC
      BY Slices, DistRange DEF TypeOK
    <3> QED
      BY <2>1, <2>2, <2>4, <3>1
  <2> QED
    BY <2>1, <2>4 DEF Waits, Dist
<1>4. ASSUME NEW c \in harts, NEW p \in Slot, Choose(c, p) PROVE Waits'
  <2>0. \A d \in CPU : d # c => pc[d] = "top" /\ proc[d] = NoProc
    BY <1>4, OthersIdle
  <2>1. /\ pc[c] = "scan" /\ p = Index(c) /\ state[p] = "RUNNABLE" /\ queue[p] = q[c]
    BY <1>4 DEF Choose, Candidate
  <2>2. Dist(start[c], p) = i[c] /\ i[c] \in 1..NPROC /\ start[c] \in Slot /\ start[c] = mlfq_last[q[c]]
    BY <2>1, Looks DEF TypeOK, Waits
  <2>3. /\ queue' = queue /\ mlfq_last' = [mlfq_last EXCEPT ![q[c]] = p]
        /\ state' = [state EXCEPT ![p] = "RUNNING"] /\ \A d \in CPU : pc'[d] # "scan"
    BY <1>4, <2>0 DEF Choose, TypeOK
  <2>4. \A r \in Slot : passed'[r] =
          IF r = p THEN 0
          ELSE IF state[r] = "RUNNABLE" /\ queue[r] = q[c] /\ passed[r] < NPROC
                 THEN passed[r] + 1 ELSE passed[r]
    BY <1>4 DEF Choose
  <2>5. ASSUME NEW r \in Slot, state'[r] = "RUNNABLE"
        PROVE  passed'[r] + Dist(mlfq_last'[queue'[r]], r) <= NPROC
    <3>1. r # p /\ state[r] = "RUNNABLE"
      BY <2>3, <2>5 DEF TypeOK
    <3>2. passed[r] \in 0..NPROC /\ passed[r] + Dist(mlfq_last[queue[r]], r) <= NPROC
      BY <3>1 DEF TypeOK, Waits
    <3>3. CASE queue[r] # q[c]
      <4>1. mlfq_last'[queue'[r]] = mlfq_last[queue[r]] /\ passed'[r] = passed[r]
        BY <2>3, <2>4, <3>1, <3>3 DEF TypeOK
      <4> QED
        BY <3>2, <4>1
    <3>4. CASE queue[r] = q[c]
      <4>1. mlfq_last'[queue'[r]] = p
        BY <2>3, <3>4 DEF TypeOK
      <4>2. Dist(p, r) \in 1..NPROC-1 /\ Dist(start[c], r) \in 1..NPROC
        BY <2>2, <3>1, DistOther, DistRange
      <4>3. passed[r] + Dist(start[c], r) <= NPROC
        BY <2>2, <3>2, <3>4
      <4>4. passed'[r] = passed[r] + 1
        BY <2>4, <3>1, <3>2, <3>4, <4>2, <4>3, Sizing
      <4>5. Dist(start[c], r) # i[c]
        BY <2>2, <3>1, DistSame
      <4>6. CASE Dist(start[c], r) < i[c]
        <5>1. passed[r] = 0
          BY <2>1, <3>1, <3>4, <4>6 DEF Waits, TypeOK
        <5> QED
          BY <4>1, <4>2, <4>4, <5>1, Sizing
      <4>7. CASE Dist(start[c], r) > i[c]
        <5>1. Dist(p, r) = Dist(start[c], r) - i[c]
          BY <2>2, <4>7, DistStep
        <5> QED
          BY <2>2, <3>2, <4>1, <4>2, <4>3, <4>4, <5>1, Sizing
      <4> QED
        BY <2>2, <4>2, <4>5, <4>6, <4>7
    <3> QED
      BY <3>3, <3>4
  <2> QED
    BY <2>3, <2>5 DEF Waits, Dist
<1>5. ASSUME NEW c \in harts, Pass(c) PROVE Waits'
  <2>0. \A d \in CPU : d # c => pc[d] = "top" /\ proc[d] = NoProc
    BY <1>5, OthersIdle
  <2>1. Index(c) \in Slot /\ Dist(start[c], Index(c)) = i[c] /\ i[c] \in 1..NPROC /\ start[c] \in Slot
    BY <1>5, Looks DEF Pass, TypeOK
  <2>2. ~(state[Index(c)] = "RUNNABLE" /\ queue[Index(c)] = q[c])
    BY <1>5 DEF Pass, Candidate
  <2>3. UNCHANGED <<state, queue, passed, mlfq_last>> /\ pc[c] = "scan"
    BY <1>5 DEF Pass
  <2>4. start[c] = mlfq_last[q[c]] /\ \A r \in Slot : Dist(start[c], r) \in 1..NPROC
    BY <2>1, <2>3, DistRange DEF Waits, TypeOK
  <2>5. CASE i[c] < NPROC /\ i' = [i EXCEPT ![c] = i[c] + 1] /\ UNCHANGED <<pc, q, start, ready>>
    <3>1. i'[c] = i[c] + 1 /\ \A d \in CPU : pc'[d] = "scan" => d = c
      BY <2>0, <2>5 DEF TypeOK
    <3>2. ASSUME NEW r \in Slot, state[r] = "RUNNABLE", queue[r] = q[c], Dist(start[c], r) < i[c] + 1
          PROVE  passed[r] = 0
      <4>1. Dist(start[c], r) # i[c]
        BY <2>1, <2>2, <3>2, DistSame
      <4>2. Dist(start[c], r) < i[c]
        BY <2>1, <2>4, <3>2, <4>1, Sizing
      <4> QED
        BY <2>3, <3>2, <4>2 DEF Waits, TypeOK
    <3>3. \A r \in Slot : state'[r] = "RUNNABLE" /\ queue'[r] = q'[c] /\ Dist(start'[c], r) < i'[c]
                            => passed'[r] = 0
      BY <2>3, <2>5, <3>1, <3>2
    <3> QED
      BY <2>3, <2>4, <2>5, <3>1, <3>3 DEF Waits, Dist
  <2>6. CASE /\ i[c] = NPROC /\ q[c] < NMLFQ - 1 /\ q' = [q EXCEPT ![c] = q[c] + 1]
             /\ start' = [start EXCEPT ![c] = mlfq_last[q[c] + 1]]
             /\ i' = [i EXCEPT ![c] = 1] /\ UNCHANGED <<pc, ready>>
    <3>1. q[c] \in Queue
      BY DEF TypeOK
    <3>2. q[c] + 1 \in Queue
      BY <2>6, <3>1, Sizing DEF Queue
    <3>3. /\ start'[c] = mlfq_last[q[c] + 1] /\ q'[c] = q[c] + 1 /\ i'[c] = 1
          /\ \A d \in CPU : pc'[d] = "scan" => d = c
      BY <2>0, <2>6 DEF TypeOK
    <3>4. \A r \in Slot : Dist(mlfq_last[q[c] + 1], r) \in 1..NPROC
      BY <3>2, DistRange DEF TypeOK
    <3>5. \A r \in Slot : ~(Dist(start'[c], r) < i'[c])
      BY <3>3, <3>4
    <3> QED
      BY <2>3, <3>3, <3>5 DEF Waits, Dist
  <2>7. CASE pc' = [pc EXCEPT ![c] = "wfi"]
    <3>1. \A d \in CPU : pc'[d] # "scan"
      BY <2>0, <2>7 DEF TypeOK
    <3> QED
      BY <2>3, <3>1 DEF Waits, Dist
  <2> QED
    BY <1>5, <2>5, <2>6, <2>7 DEF Pass
<1>6. ASSUME NEW c \in harts, Wfi(c) PROVE Waits'
  <2>0. \A d \in CPU : d # c => pc[d] = "top" /\ proc[d] = NoProc
    BY <1>6, OthersIdle
  <2>1. UNCHANGED <<state, queue, passed, mlfq_last>>
    BY <1>6 DEF Wfi
  <2>2. \A d \in CPU : pc'[d] # "scan"
    BY <1>6, <2>0 DEF Wfi, TypeOK
  <2> QED
    BY <2>1, <2>2 DEF Waits, Dist
<1>7. ASSUME NEW c \in harts, TickLoad(c) PROVE Waits'
  <2>0. \A d \in CPU : d # c => pc[d] = "top" /\ proc[d] = NoProc
    BY <1>7, OthersIdle
  <2>1. UNCHANGED <<state, queue, passed, mlfq_last>>
    BY <1>7 DEF TickLoad
  <2>2. \A d \in CPU : pc'[d] # "scan"
    BY <1>7, <2>0 DEF TickLoad, TypeOK
  <2> QED
    BY <2>1, <2>2 DEF Waits, Dist
<1>8. ASSUME NEW c \in harts, TickCount(c) PROVE Waits'
  <2>0. \A d \in CPU : d # c => pc[d] = "top" /\ proc[d] = NoProc
    BY <1>8, OthersIdle
  <2>1. UNCHANGED <<state, queue, passed, mlfq_last>>
    BY <1>8 DEF TickCount
  <2>2. \A d \in CPU : pc'[d] # "scan"
    BY <1>8, <2>0 DEF TickCount, TypeOK
  <2> QED
    BY <2>1, <2>2 DEF Waits, Dist
<1>9. ASSUME NEW c \in harts, TickYield(c) PROVE Waits'
  <2>0. \A d \in CPU : d # c => pc[d] = "top" /\ proc[d] = NoProc
    BY <1>9, OthersIdle
  <2>9. proc[c] \in Slot /\ \A d \in CPU : proc[d] = proc[c] => d = c
    BY <1>9, OnHart DEF TickYield, TypeOK
  <2>1. \A r \in Slot : r # proc[c] => /\ state'[r] = state[r] /\ queue'[r] = queue[r]
                                       /\ passed'[r] = passed[r]
    BY <1>9 DEF TickYield, Leave, TypeOK
  <2>2. (\A d \in CPU : pc'[d] # "scan") /\ mlfq_last' = mlfq_last
    BY <1>9, <2>0 DEF TickYield, Leave, TypeOK
  <2>3. passed'[proc[c]] = 0
    BY <1>9, <2>9 DEF TickYield, TypeOK
  <2>5. queue'[proc[c]] \in Queue
    BY <2>9 DEF TypeOK
  <2>4. passed'[proc[c]] + Dist(mlfq_last[queue'[proc[c]]], proc[c]) <= NPROC
    <3>1. Dist(mlfq_last[queue'[proc[c]]], proc[c]) \in 1..NPROC
      BY <2>5, <2>9, DistRange DEF TypeOK
    <3> QED
      BY <2>3, <3>1, Sizing
  <2> QED
    BY <2>1, <2>2, <2>4, <2>9 DEF Waits, Dist
<1>10. ASSUME NEW c \in harts, SleepProc(c) PROVE Waits'
  <2>0. \A d \in CPU : d # c => pc[d] = "top" /\ proc[d] = NoProc
    BY <1>10, OthersIdle
  <2>9. proc[c] \in Slot /\ \A d \in CPU : proc[d] = proc[c] => d = c
    BY <1>10, OnHart DEF SleepProc, TypeOK
  <2>1. \A r \in Slot : r # proc[c] => /\ state'[r] = state[r] /\ queue'[r] = queue[r]
                                       /\ passed'[r] = passed[r]
    BY <1>10 DEF SleepProc, Leave, TypeOK
  <2>2. (\A d \in CPU : pc'[d] # "scan") /\ mlfq_last' = mlfq_last
    BY <1>10, <2>0 DEF SleepProc, Leave, TypeOK
  <2>3. state'[proc[c]] # "RUNNABLE"
    BY <1>10, <2>9 DEF SleepProc, Leave, TypeOK
  <2>4. ASSUME NEW r \in Slot, state'[r] = "RUNNABLE"
        PROVE  passed'[r] + Dist(mlfq_last'[queue'[r]], r) <= NPROC
    BY <2>1, <2>2, <2>3, <2>4 DEF Waits
  <2> QED
    BY <2>2, <2>4 DEF Waits, Dist
<1>11. ASSUME NEW c \in harts, ExitProc(c) PROVE Waits'
  <2>0. \A d \in CPU : d # c => pc[d] = "top" /\ proc[d] = NoProc
    BY <1>11, OthersIdle
  <2>9. proc[c] \in Slot /\ \A d \in CPU : proc[d] = proc[c] => d = c
    BY <1>11, OnHart DEF ExitProc, TypeOK
  <2>1. \A r \in Slot : r # proc[c] => /\ state'[r] = state[r] /\ queue'[r] = queue[r]
                                       /\ passed'[r] = passed[r]
    BY <1>11 DEF ExitProc, Leave, TypeOK
  <2>2. (\A d \in CPU : pc'[d] # "scan") /\ mlfq_last' = mlfq_last
    BY <1>11, <2>0 DEF ExitProc, Leave, TypeOK
  <2>3. state'[proc[c]] # "RUNNABLE"
    BY <1>11, <2>9 DEF ExitProc, Leave, TypeOK
  <2>4. ASSUME NEW r \in Slot, state'[r] = "RUNNABLE"
        PROVE  passed'[r] + Dist(mlfq_last'[queue'[r]], r) <= NPROC
    BY <2>1, <2>2, <2>3, <2>4 DEF Waits
  <2> QED
    BY <2>2, <2>4 DEF Waits, Dist
<1>12. ASSUME NEW c \in harts, NEW p \in Slot, ForkProc(c, p) PROVE Waits'
  <2>0. \A d \in CPU : d # c => pc[d] = "top" /\ proc[d] = NoProc
    BY <1>12, OthersIdle
  <2>1. /\ \A d \in CPU : pc'[d] # "scan"
        /\ mlfq_last' = mlfq_last /\ passed'[p] = 0 /\ queue'[p] = 0
        /\ \A r \in Slot : r # p => state'[r] = state[r] /\ queue'[r] = queue[r] /\ passed'[r] = passed[r]
    BY <1>12, <2>0, SMTT(30) DEF ForkProc, hart, TypeOK
  <2>2. Dist(mlfq_last[0], p) \in 1..NPROC
    BY Slices, DistRange DEF TypeOK
  <2>3. passed'[p] + Dist(mlfq_last[0], p) <= NPROC
    BY <2>1, <2>2, Sizing
  <2> QED
    BY <2>1, <2>3 DEF Waits, Dist
<1>13. ASSUME NEW p \in Slot, Wake(p) PROVE Waits'
  <2>1. /\ UNCHANGED <<mlfq_last, queue, pc, start, q, i>> /\ passed'[p] = 0
        /\ \A r \in Slot : r # p => state'[r] = state[r] /\ passed'[r] = passed[r]
    BY <1>13 DEF Wake, hart, TypeOK
  <2>2. Dist(mlfq_last[queue[p]], p) \in 1..NPROC
    BY DistRange DEF TypeOK
  <2>3. passed'[p] + Dist(mlfq_last[queue[p]], p) <= NPROC
    BY <2>1, <2>2, Sizing
  <2> QED
    BY <2>1, <2>3 DEF Waits, Dist
<1>14. CASE Clock
  BY <1>14 DEF Clock, Waits, Dist
<1>15. CASE UNCHANGED vars
  BY <1>15 DEF vars, Waits, Dist

<1> QED
  BY <1>1, <1>2, <1>3, <1>4, <1>5, <1>6, <1>7, <1>8, <1>9, <1>10, <1>11, <1>12,
     <1>13, <1>14, <1>15 DEF Next, Sched, Timer

-----------------------------------------------------------------------------
(* The invariant holds in every state.                                     *)

(* The invariant holds at boot. *)
LEMMA InitIInv == Init => IInv
<1> SUFFICES ASSUME Init PROVE IInv
  OBVIOUS
<1>1. /\ 0 \in Queue /\ 0 \in Slot /\ 0 \in 0..NPROC /\ 0 \in 0..TopSlice /\ 0 \in 0..BOOST_TICKS
      /\ TopSlice \in Nat \ {0} /\ mlfq_slice[0] \in Nat \ {0}
  BY Sizing, Slices DEF Slot
<1>2. TypeOK
  <2>1. harts \subseteq CPU
    BY MlfqAssumption DEF Init
  <2>2. /\ state \in [Slot -> {"UNUSED", "RUNNABLE", "RUNNING", "SLEEPING"}]
        /\ queue \in [Slot -> Queue] /\ ticks_used \in [Slot -> 0..TopSlice]
        /\ mlfq_last \in [Queue -> Slot] /\ passed \in [Slot -> 0..NPROC] /\ boosted \subseteq Slot
    BY <1>1 DEF Init
  <2>3. /\ pc \in [CPU -> {"top", "boost", "scan", "wfi", "run", "count", "demote"}]
        /\ proc \in [CPU -> Slot \union {NoProc}] /\ q \in [CPU -> Queue]
        /\ start \in [CPU -> Slot] /\ i \in [CPU -> 0..NPROC]
    BY <1>1 DEF Init
  <2>4. /\ since \in [CPU -> 0..BOOST_TICKS] /\ seen \in [CPU -> (0..TopSlice) \X Queue]
        /\ ready \in [CPU -> SUBSET Slot]
    BY <1>1 DEF Init
  <2> QED
    BY <2>1, <2>2, <2>3, <2>4 DEF TypeOK
<1>3. HartInv /\ ScanInv
  BY DEF Init, HartInv, ScanInv
<1>4. TicksInv
  BY <1>1 DEF Init, TicksInv
<1>5. Loaded /\ SlicesKept
  BY <1>1 DEF Init, Loaded, SlicesKept
<1>6. Waits
  <2>1. \A p \in Slot : Dist(0, p) \in 1..NPROC
    BY <1>1, DistRange
  <2>2. \A p \in Slot : passed[p] = 0 /\ mlfq_last[queue[p]] = 0
    BY <1>1 DEF Init
  <2>3. \A p \in Slot : passed[p] + Dist(mlfq_last[queue[p]], p) <= NPROC
    BY <2>1, <2>2, Sizing
  <2> QED
    BY <2>3 DEF Init, Waits
<1> QED
  BY <1>2, <1>3, <1>4, <1>5, <1>6 DEF IInv

(* Every step keeps the invariant. *)
LEMMA StepIInv == IInv /\ [Next]_vars => IInv'
<1> SUFFICES ASSUME IInv, [Next]_vars PROVE IInv'
  OBVIOUS
<1>1. TypeOK /\ HartInv /\ TicksInv /\ ScanInv /\ (OneHart => Loaded /\ SlicesKept /\ Waits)
  BY DEF IInv
<1>2. TypeOK' /\ HartInv' /\ TicksInv' /\ ScanInv'
  BY <1>1, StepTypeOK, StepHart, StepTicks, StepScan
<1>3. harts' = harts
  BY DEF Next, Sched, Timer, Top, BoostSlot, BoostEnd, Choose, Pass, Wfi, TickLoad, TickCount,
         TickYield, SleepProc, ExitProc, ForkProc, Wake, Clock, hart, vars
<1>4. OneHart' = OneHart
  BY <1>3 DEF OneHart
<1>5. OneHart => Loaded' /\ SlicesKept' /\ Waits'
  BY <1>1, <1>2, StepLoaded, StepSlice, StepWaits
<1> QED
  BY <1>2, <1>4, <1>5 DEF IInv

(* Harts, ticks, scans and, on one hart, slices and turns are in order in  *)
(* every state, however timer ticks, boosts, wakeups and forks interleave. *)
THEOREM Inductive == Spec => []IInv
<1> QED
  BY InitIInv, StepIInv, PTL DEF Spec

-----------------------------------------------------------------------------
(* What follows from it.                                                   *)

(* Every variable has its type: however mlfq_timer_tick() and mlfq_boost() *)
(* race, p->queue stays an index of mlfq_slice and mlfq_last and           *)
(* p->ticks_used never exceeds the longest slice.                          *)
THEOREM TypeCorrect == Spec => []TypeOK
<1>1. IInv => TypeOK
  BY DEF IInv
<1> QED
  BY <1>1, Inductive, PTL

(* On one hart mlfq_timer_tick(), sleep() and mlfq_boost() leave no        *)
(* process with a used-up slice.                                           *)
THEOREM SlicesHold == Spec => []SliceKept
<1>1. IInv => SliceKept
  BY DEF IInv, SliceKept, SlicesKept
<1> QED
  BY <1>1, Inductive, PTL

(* On one hart scheduler() goes round the slots of a queue: at most NPROC-1 *)
(* choices from a queue go by before a process that waits in it is chosen,  *)
(* whatever wakes, forks, is demoted or boosted meanwhile.                  *)
THEOREM TurnsCome == Spec => []RoundRobin
<1>1. ASSUME TypeOK, Waits, NEW p \in Slot, state[p] = "RUNNABLE"
      PROVE  passed[p] <= NPROC - 1
  <2>1. mlfq_last[queue[p]] \in Slot /\ passed[p] \in 0..NPROC
    BY <1>1 DEF TypeOK
  <2>2. Dist(mlfq_last[queue[p]], p) \in 1..NPROC
    BY <2>1, DistRange
  <2>3. passed[p] + Dist(mlfq_last[queue[p]], p) <= NPROC
    BY <1>1 DEF Waits
  <2> QED
    BY <2>1, <2>2, <2>3, Sizing
<1>2. IInv => RoundRobin
  BY <1>1 DEF IInv, RoundRobin
<1> QED
  BY <1>2, Inductive, PTL

(* On any number of harts scheduler() never chooses a process while        *)
(* another has been RUNNABLE in a higher queue since the scan began.       *)
THEOREM PriorityKept == Spec => ScanPriority
<1>1. ASSUME IInv, NEW c \in CPU, NEW p \in Slot, Choose(c, p), NEW r \in ready[c]
      PROVE  queue[r] >= queue[p]
  <2>1. queue[p] = q[c]
    BY <1>1 DEF Choose, Candidate
  <2> QED
    BY <1>1, <2>1 DEF IInv, ScanInv
<1>2. IInv => [\A c \in CPU, p \in Slot : Choose(c, p) =>
                 \A r \in ready[c] : queue[r] >= queue[p]]_vars
  BY <1>1
<1> QED
  BY <1>2, Inductive, PTL DEF ScanPriority
==============================================================================
