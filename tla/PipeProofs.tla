----------------------------- MODULE PipeProofs -----------------------------
(* Theorems about Pipe, for every number of processes, every PIPESIZE and  *)
(* every width of nread and nwrite.                                        *)
EXTENDS Pipe, SequenceTheorems, TLAPS

-----------------------------------------------------------------------------
(* Arithmetic modulo M.                                                    *)

(* Division with remainder. *)
LEMMA Division ==
  ASSUME NEW M \in Nat \ {0}, NEW a \in Int
  PROVE  a % M \in 0..M-1 /\ a \div M \in Int /\ a = M * (a \div M) + (a % M)
  OBVIOUS

(* The remainder of a number written as a multiple and a rest. *)
LEMMA Remainder ==
  ASSUME NEW M \in Nat \ {0}, NEW q \in Int, NEW r \in 0..M-1
  PROVE  (M * q + r) % M = r
  OBVIOUS

(* One turn around the ring. *)
LEMMA Wrap ==
  ASSUME NEW M \in Nat \ {0}, NEW a \in 0..M-1
  PROVE  a % M = a /\ (a + M) % M = a /\ (a - M) % M = a
  OBVIOUS

(* A ring whose size divides U is not moved by a turn around U. *)
LEMMA SmallerRing ==
  ASSUME NEW M \in Nat \ {0}, NEW U \in Nat, U % M = 0, NEW a \in Nat
  PROVE  (a + U) % M = a % M
<1> DEFINE q == a \div M  r == a % M  d == U \div M
<1>1. q \in Int /\ d \in Int /\ r \in 0..M-1 /\ a = M * q + r /\ U = M * d
  BY Division
<1>2. a + U = M * (q + d) + r
  BY <1>1
<1>3. (M * (q + d) + r) % M = r
  <2> HIDE DEF q, r, d
  <2> QED
    BY <1>1, Remainder
<1> QED
  BY <1>2, <1>3

(* Positions less than one turn apart are different. *)
LEMMA Apart ==
  ASSUME NEW M \in Nat \ {0}, NEW a \in Nat, NEW b \in Nat, a < b, b < a + M
  PROVE  a % M # b % M
<1> DEFINE q == a \div M  r == a % M  d == b \div M  s == b % M
<1>1. q \in Int /\ d \in Int /\ r \in 0..M-1 /\ s \in 0..M-1
      /\ a = M * q + r /\ b = M * d + s
  BY Division
<1>2. SUFFICES ASSUME r = s PROVE FALSE
  OBVIOUS
<1>3. b - a = M * (d - q)
  BY <1>1, <1>2
<1>4. d - q >= 1 => M * (d - q) >= M
  BY <1>1
<1>5. d - q <= 0 => M * (d - q) <= 0
  BY <1>1
<1> QED
  BY <1>1, <1>3, <1>4, <1>5

-----------------------------------------------------------------------------
(* The ring buffer.                                                        *)

(* The ring is not empty, and is smaller than the range of its counters. *)
LEMMA Sizing == PIPESIZE \in Nat \ {0} /\ UINT \in Nat \ {0} /\ PIPESIZE < UINT
  BY PipeAssumption

(* A request asks for a number of bytes. *)
LEMMA SizesNat == Sizes \union {0} \subseteq Nat
  BY PipeAssumption

(* The counters wrap around where the ring does. *)
LEMMA Divides == UINT % PIPESIZE = 0
  BY PipeAssumption

(* nread and nwrite count modulo UINT. *)
LEMMA PlusValue ==
  ASSUME NEW x \in 0..UINT-1, NEW k \in 0..UINT
  PROVE  /\ Plus(x, k) = IF x + k < UINT THEN x + k ELSE x + k - UINT
         /\ Plus(x, k) \in 0..UINT-1
<1>1. CASE x + k < UINT
  <2>1. x + k \in 0..UINT-1
    BY <1>1, Sizing
  <2> QED
    BY <2>1, Sizing, Wrap, SMTT(30) DEF Plus
<1>2. CASE ~ (x + k < UINT)
  <2>1. x + k - UINT \in 0..UINT-1 /\ (x + k - UINT) + UINT = x + k
    BY <1>2, Sizing
  <2>2. ((x + k - UINT) + UINT) % UINT = x + k - UINT
    BY <2>1, Sizing, Wrap
  <2> QED
    BY <1>2, <2>1, <2>2 DEF Plus
<1> QED
  BY <1>1, <1>2

(* The unsigned difference of two counters. *)
LEMMA Difference ==
  ASSUME NEW x \in 0..UINT-1, NEW y \in 0..UINT-1
  PROVE  (y - x) % UINT = IF x <= y THEN y - x ELSE y - x + UINT
<1>1. CASE x <= y
  BY <1>1, Sizing, Wrap
<1>2. CASE ~ (x <= y)
  <2>1. y - x + UINT \in 0..UINT-1 /\ (y - x + UINT) - UINT = y - x
    BY <1>2, Sizing
  <2>2. ((y - x + UINT) - UINT) % UINT = y - x + UINT
    BY <2>1, Sizing, Wrap
  <2> QED
    BY <1>2, <2>1, <2>2
<1> QED
  BY <1>1, <1>2

(* Used is the number of bytes, from an empty pipe to a full one. *)
LEMMA UsedFacts ==
  ASSUME nread \in 0..UINT-1, nwrite \in 0..UINT-1, Used <= PIPESIZE
  PROVE  /\ Used \in 0..PIPESIZE
         /\ nwrite = Plus(nread, Used)
         /\ Empty <=> Used = 0
         /\ Full <=> Used = PIPESIZE
<1>1. Used = IF nread <= nwrite THEN nwrite - nread ELSE nwrite - nread + UINT
  BY Difference DEF Used
<1>2. Used \in 0..PIPESIZE
  BY <1>1, Sizing
<1>3. Plus(nread, Used) = IF nread + Used < UINT THEN nread + Used ELSE nread + Used - UINT
  BY <1>2, Sizing, PlusValue
<1>4. Plus(nread, PIPESIZE) = IF nread + PIPESIZE < UINT THEN nread + PIPESIZE
                              ELSE nread + PIPESIZE - UINT
  <2>1. 1 \in 0..UINT /\ PIPESIZE \in 0..UINT
    BY Sizing
  <2> QED
    BY <2>1, PlusValue
<1> QED
  BY <1>1, <1>2, <1>3, <1>4, Sizing DEF Empty, Full

(* One byte more. *)
LEMMA UsedGrows ==
  ASSUME nread \in 0..UINT-1, nwrite \in 0..UINT-1, Used < PIPESIZE,
         nwrite' = Plus(nwrite, 1), nread' = nread
  PROVE  Used' = Used + 1 /\ nwrite' \in 0..UINT-1
<1>1. Used = IF nread <= nwrite THEN nwrite - nread ELSE nwrite - nread + UINT
  BY Difference DEF Used
<1>2. /\ Plus(nwrite, 1) = IF nwrite + 1 < UINT THEN nwrite + 1 ELSE nwrite + 1 - UINT
      /\ nwrite' \in 0..UINT-1
  <2>1. 1 \in 0..UINT /\ PIPESIZE \in 0..UINT
    BY Sizing
  <2> QED
    BY <2>1, PlusValue
<1>3. (nwrite' - nread') % UINT
        = IF nread <= nwrite' THEN nwrite' - nread ELSE nwrite' - nread + UINT
  BY <1>2, Difference
<1>4. Used' = (nwrite' - nread') % UINT
  BY DEF Used
<1> QED
  BY <1>1, <1>2, <1>3, <1>4, Sizing

(* One byte less. *)
LEMMA UsedShrinks ==
  ASSUME nread \in 0..UINT-1, nwrite \in 0..UINT-1, ~Empty,
         nread' = Plus(nread, 1), nwrite' = nwrite
  PROVE  Used' = Used - 1 /\ nread' \in 0..UINT-1
<1>1. Used = IF nread <= nwrite THEN nwrite - nread ELSE nwrite - nread + UINT
  BY Difference DEF Used
<1>2. /\ Plus(nread, 1) = IF nread + 1 < UINT THEN nread + 1 ELSE nread + 1 - UINT
      /\ nread' \in 0..UINT-1
  <2>1. 1 \in 0..UINT /\ PIPESIZE \in 0..UINT
    BY Sizing
  <2> QED
    BY <2>1, PlusValue
<1>3. (nwrite' - nread') % UINT
        = IF nread' <= nwrite THEN nwrite - nread' ELSE nwrite - nread' + UINT
  BY <1>2, Difference
<1>4. Used' = (nwrite' - nread') % UINT /\ nread # nwrite
  BY DEF Used, Empty
<1> QED
  BY <1>1, <1>2, <1>3, <1>4, Sizing

(* The byte k positions after nread lies in data[] where it would if the   *)
(* counters did not wrap.                                                  *)
LEMMA Position ==
  ASSUME NEW x \in 0..UINT-1, NEW k \in 0..UINT
  PROVE  Plus(x, k) % PIPESIZE = (x + k) % PIPESIZE /\ Plus(x, k) % PIPESIZE \in 0..PIPESIZE-1
<1>1. CASE x + k < UINT
  <2>1. Plus(x, k) = x + k
    BY <1>1, PlusValue
  <2>2. (x + k) % PIPESIZE \in 0..PIPESIZE-1
    BY Sizing, Division
  <2> QED
    BY <2>1, <2>2
<1>2. CASE ~ (x + k < UINT)
  <2>1. x + k - UINT \in Nat /\ (x + k - UINT) + UINT = x + k
    BY <1>2, Sizing
  <2>2. ((x + k - UINT) + UINT) % PIPESIZE = (x + k - UINT) % PIPESIZE
    BY <2>1, Sizing, Divides, SmallerRing
  <2>3. (x + k - UINT) % PIPESIZE \in 0..PIPESIZE-1
    BY <2>1, Sizing, Division
  <2>4. Plus(x, k) = x + k - UINT
    BY <1>2, PlusValue
  <2> QED
    BY <2>1, <2>2, <2>3, <2>4
<1> QED
  BY <1>1, <1>2

(* Bytes of one pipeful have different places. *)
LEMMA PlacesApart ==
  ASSUME NEW x \in 0..UINT-1, NEW k \in 0..PIPESIZE-1, NEW l \in 0..PIPESIZE-1, k < l
  PROVE  Plus(x, k) % PIPESIZE # Plus(x, l) % PIPESIZE
<1>1. /\ Plus(x, k) % PIPESIZE = (x + k) % PIPESIZE
      /\ Plus(x, l) % PIPESIZE = (x + l) % PIPESIZE
  BY Sizing, Position
<1>2. (x + k) % PIPESIZE # (x + l) % PIPESIZE
  <2>1. x + k \in Nat /\ x + l \in Nat /\ x + k < x + l /\ x + l < (x + k) + PIPESIZE
    BY Sizing
  <2> QED
    BY <2>1, Sizing, Apart
<1> QED
  BY <1>1, <1>2

-----------------------------------------------------------------------------
(* Types.                                                                  *)

(* pipealloc() gives every variable its type. *)
LEMMA InitTypeOK == Init => TypeOK
<1> SUFFICES ASSUME Init PROVE TypeOK
  OBVIOUS
<1>1. nread \in 0..UINT-1 /\ nwrite \in 0..UINT-1 /\ Used <= PIPESIZE
  <2>1. Used = 0
    BY Sizing, Wrap DEF Used, Init
  <2> QED
    BY <2>1, Sizing DEF Init
<1>2. data \in [0..PIPESIZE-1 -> Byte]
  <2>1. (CHOOSE v \in Byte : TRUE) \in Byte
    BY PipeAssumption
  <2> QED
    BY <2>1 DEF Init
<1>3. holders \in [Ends -> SUBSET Proc]
  BY PipeAssumption DEF Init, Ends
<1>4. \A end \in Ends : holders[end] \subseteq MayHold[end]
  BY DEF Init, Ends
<1> QED
  BY <1>1, <1>2, <1>3, <1>4 DEF Init, TypeOK, PCs, Outside

(* The guards of a call that change nothing but pc, n, i and the sleepers. *)
LEMMA ReturnTyped ==
  ASSUME TypeOK, NEW p \in Proc, Return(p)
  PROVE  /\ pc' \in [Proc -> PCs]
         /\ n' \in [Proc -> Sizes \union {0}]
         /\ i' \in [Proc -> Nat]
         /\ \A r \in Proc : i'[r] <= n'[r] /\ (pc'[r] \in Outside => n'[r] = 0)
  BY DEF TypeOK, Return, Goto, PCs, Outside

(* wakeup() leaves channels. *)
LEMMA WakeupTyped ==
  ASSUME TypeOK, NEW ch, Wakeup(ch)
  PROVE  chan' \in [Proc -> {"none", "nread", "nwrite"}]
  BY DEF TypeOK, Wakeup

(* Every step keeps the types. *)
LEMMA StepTypeOK == TypeOK /\ [Next]_vars => TypeOK'
<1> SUFFICES ASSUME TypeOK, [Next]_vars PROVE TypeOK'
  OBVIOUS
<1> USE DEF TypeOK, pipe, calls, Outside
<1>1. ASSUME NEW p \in Proc, WriteLock(p) PROVE TypeOK'
  BY <1>1 DEF WriteLock, Acquire, Goto, PCs, Used
<1>2. ASSUME NEW p \in Proc, WriteFails(p) PROVE TypeOK'
  BY <1>2, ReturnTyped DEF WriteFails, Release, Used
<1>3. ASSUME NEW p \in Proc, WritePrepare(p) PROVE TypeOK'
  BY <1>3 DEF WritePrepare, Release, Goto, PCs, Used
<1>4. ASSUME NEW p \in Proc, WriteByte(p) PROVE TypeOK'
  <2>1. Used' <= PIPESIZE /\ nwrite' \in 0..UINT-1
    BY <1>4, UsedFacts, UsedGrows, Sizing DEF WriteByte, WriteMustWait
  <2>2. data' \in [0..PIPESIZE-1 -> Byte]
    BY <1>4 DEF WriteByte
  <2>3. /\ i' \in [Proc -> Nat]
        /\ \A r \in Proc : i'[r] <= n'[r] /\ (pc'[r] \in Outside => n'[r] = 0)
    BY <1>4, SizesNat DEF WriteByte
  <2> QED
    BY <1>4, <2>1, <2>2, <2>3 DEF WriteByte
<1>5. ASSUME NEW p \in Proc, WriteEnd(p) PROVE TypeOK'
  BY <1>5, ReturnTyped, WakeupTyped DEF WriteEnd, Release, Used
<1>6. ASSUME NEW p \in Proc, ReadLock(p) PROVE TypeOK'
  BY <1>6 DEF ReadLock, Acquire, Goto, PCs, Used
<1>7. ASSUME NEW p \in Proc, ReadFails(p) PROVE TypeOK'
  BY <1>7, ReturnTyped DEF ReadFails, Release, Used
<1>8. ASSUME NEW p \in Proc, ReadPrepare(p) PROVE TypeOK'
  BY <1>8 DEF ReadPrepare, Release, Goto, PCs, Used
<1>9. ASSUME NEW p \in Proc, ReadGo(p) PROVE TypeOK'
  BY <1>9 DEF ReadGo, Goto, PCs, Used
<1>10. ASSUME NEW p \in Proc, ReadByte(p) PROVE TypeOK'
  <2>1. Used' <= PIPESIZE /\ nread' \in 0..UINT-1
    BY <1>10, UsedFacts, UsedShrinks, Sizing DEF ReadByte
  <2>2. /\ i' \in [Proc -> Nat]
        /\ \A r \in Proc : i'[r] <= n'[r] /\ (pc'[r] \in Outside => n'[r] = 0)
    BY <1>10, SizesNat DEF ReadByte
  <2> QED
    BY <1>10, <2>1, <2>2 DEF ReadByte
<1>11. ASSUME NEW p \in Proc, ReadDone(p) PROVE TypeOK'
  BY <1>11, ReturnTyped, WakeupTyped DEF ReadDone, Release, Used
<1>12. ASSUME NEW p \in Proc, FallAsleep(p) PROVE TypeOK'
  BY <1>12 DEF FallAsleep, Lock, Goto, PCs, Used
<1>13. ASSUME NEW p \in Proc, Awake(p) PROVE TypeOK'
  BY <1>13 DEF Awake, Lock, Goto, PCs, Used
<1>14. ASSUME NEW p \in Proc, PipeClose(p) PROVE TypeOK'
  <2>1. chan' \in [Proc -> {"none", "nread", "nwrite"}]
    BY <1>14, WakeupTyped DEF PipeClose
  <2>2. readopen' \in BOOLEAN /\ writeopen' \in BOOLEAN /\ allocated' \in BOOLEAN
    BY <1>14 DEF PipeClose, FreeIfUnused
  <2> QED
    BY <1>14, <2>1, <2>2 DEF PipeClose, Goto, PCs, Used
<1>15. ASSUME NEW p \in Proc, Kill(p) PROVE TypeOK'
  BY <1>15 DEF Kill, Lock, Goto, PCs, Used
<1>16. ASSUME NEW p \in Proc, NEW size \in Sizes, Read(p, size) PROVE TypeOK'
  BY <1>16, SizesNat DEF Read, Goto, PCs, Used
<1>17. ASSUME NEW p \in Proc, NEW size \in Sizes, Write(p, size) PROVE TypeOK'
  BY <1>17, SizesNat DEF Write, Goto, PCs, Used
<1>18. ASSUME NEW p \in Proc, NEW end \in Ends, Close(p, end) PROVE TypeOK'
  BY <1>18 DEF Close, Goto, PCs, Used
<1>19. ASSUME NEW p \in Proc, NEW end \in Ends, NEW q \in Proc, Dup(p, q, end) PROVE TypeOK'
  BY <1>19 DEF Dup, Used
<1>20. CASE UNCHANGED vars
  BY <1>20 DEF vars, Used
<1> QED
  BY <1>1, <1>2, <1>3, <1>4, <1>5, <1>6, <1>7, <1>8, <1>9, <1>10, <1>11, <1>12, <1>13,
     <1>14, <1>15, <1>16, <1>17, <1>18, <1>19, <1>20 DEF Next, Step

(* Type correctness; the pipe never holds more than PIPESIZE bytes, and at *)
(* most one process has pi->lock.                                          *)
THEOREM TypeCorrect == Spec => []TypeOK
  BY InitTypeOK, StepTypeOK, PTL DEF Spec

-----------------------------------------------------------------------------
(* The inductive invariant.                                                *)

Reading == {"r_lock", "r_loop", "r_copy", "r_sleep", "r_asleep"}
Writing == {"w_lock", "w_loop", "w_sleep", "w_asleep"}
Inside  == {"w_loop", "r_loop", "r_copy"}

(* pi->lock is held exactly between acquire() and release(). *)
LockInv == \A p \in Proc : p \in lock <=> pc[p] \in Inside

(* Who is in a call holds the end it uses. *)
CallInv == \A p \in Proc : /\ pc[p] \in Reading => p \in holders["read"]
                           /\ pc[p] \in Writing => p \in holders["write"]

(* An end is open while somebody holds it, and until the last holder has   *)
(* gone through pipeclose().                                               *)
ReadEndInv ==
  /\ holders["read"] # {} => readopen
  /\ \A p \in Proc : pc[p] = "close_read" => holders["read"] = {} /\ readopen
  /\ \A p, q \in Proc : pc[p] = "close_read" /\ pc[q] = "close_read" => p = q
WriteEndInv ==
  /\ holders["write"] # {} => writeopen
  /\ \A p \in Proc : pc[p] = "close_write" => holders["write"] = {} /\ writeopen
  /\ \A p, q \in Proc : pc[p] = "close_write" /\ pc[q] = "close_write" => p = q
PageInv == allocated <=> readopen \/ writeopen

(* A sleeper's chan is that of its call, or has been cleared. *)
ChanInv == \A p \in Proc :
  /\ pc[p] \in {"r_sleep", "r_asleep"} => chan[p] \in {"none", "nread"}
  /\ pc[p] \in {"w_sleep", "w_asleep"} => chan[p] \in {"none", "nwrite"}

(* A reader that leaves the loop with nothing to copy has met the end of   *)
(* the stream.                                                             *)
EofInv == \A p \in Proc : pc[p] = "r_copy" /\ i[p] = 0 /\ Empty => ~writeopen

EndInv == ReadEndInv /\ WriteEndInv /\ PageInv
IInv == TypeOK /\ LockInv /\ CallInv /\ EndInv /\ ChanInv /\ EofInv /\ NoLostWakeup

-----------------------------------------------------------------------------
(* Every step preserves each part of it. *)

(* Only the process that holds pi->lock is inside a section. *)
LEMMA StepLock == TypeOK /\ LockInv /\ [Next]_vars => LockInv'
<1> SUFFICES ASSUME TypeOK, LockInv, [Next]_vars PROVE LockInv'
  OBVIOUS
<1> USE DEF TypeOK, LockInv, Inside, pipe, calls
<1>1. ASSUME NEW p \in Proc, WriteLock(p) PROVE LockInv'
  BY <1>1 DEF WriteLock, Acquire, Goto
<1>2. ASSUME NEW p \in Proc, WriteFails(p) PROVE LockInv'
  BY <1>2 DEF WriteFails, Release, Return, Goto
<1>3. ASSUME NEW p \in Proc, WritePrepare(p) PROVE LockInv'
  BY <1>3 DEF WritePrepare, WriteMustWait, Release, Goto
<1>4. ASSUME NEW p \in Proc, WriteByte(p) PROVE LockInv'
  BY <1>4 DEF WriteByte, WriteMustWait
<1>5. ASSUME NEW p \in Proc, WriteEnd(p) PROVE LockInv'
  BY <1>5 DEF WriteEnd, Wakeup, Release, Return, Goto
<1>6. ASSUME NEW p \in Proc, ReadLock(p) PROVE LockInv'
  BY <1>6 DEF ReadLock, Acquire, Goto
<1>7. ASSUME NEW p \in Proc, ReadFails(p) PROVE LockInv'
  BY <1>7 DEF ReadFails, ReadMustWait, Release, Return, Goto
<1>8. ASSUME NEW p \in Proc, ReadPrepare(p) PROVE LockInv'
  BY <1>8 DEF ReadPrepare, ReadMustWait, Release, Goto
<1>9. ASSUME NEW p \in Proc, ReadGo(p) PROVE LockInv'
  BY <1>9 DEF ReadGo, ReadMustWait, Goto
<1>10. ASSUME NEW p \in Proc, ReadByte(p) PROVE LockInv'
  BY <1>10 DEF ReadByte
<1>11. ASSUME NEW p \in Proc, ReadDone(p) PROVE LockInv'
  BY <1>11 DEF ReadDone, Wakeup, Release, Return, Goto
<1>12. ASSUME NEW p \in Proc, FallAsleep(p) PROVE LockInv'
  BY <1>12 DEF FallAsleep, Lock, Goto
<1>13. ASSUME NEW p \in Proc, Awake(p) PROVE LockInv'
  BY <1>13 DEF Awake, Lock, Goto
<1>14. ASSUME NEW p \in Proc, PipeClose(p) PROVE LockInv'
  BY <1>14 DEF PipeClose, Wakeup, FreeIfUnused, Goto
<1>15. ASSUME NEW p \in Proc, Kill(p) PROVE LockInv'
  BY <1>15 DEF Kill, Lock, Goto
<1>16. ASSUME NEW p \in Proc, NEW size \in Sizes, Read(p, size) PROVE LockInv'
  BY <1>16 DEF Read, Goto
<1>17. ASSUME NEW p \in Proc, NEW size \in Sizes, Write(p, size) PROVE LockInv'
  BY <1>17 DEF Write, Goto
<1>18. ASSUME NEW p \in Proc, NEW end \in Ends, Close(p, end) PROVE LockInv'
  BY <1>18 DEF Close, Goto
<1>19. ASSUME NEW p \in Proc, NEW end \in Ends, NEW q \in Proc, Dup(p, q, end) PROVE LockInv'
  BY <1>19 DEF Dup
<1>20. CASE UNCHANGED vars
  BY <1>20 DEF vars
<1> QED
  BY <1>1, <1>2, <1>3, <1>4, <1>5, <1>6, <1>7, <1>8, <1>9, <1>10, <1>11,
     <1>12, <1>13, <1>14, <1>15, <1>16, <1>17, <1>18, <1>19, <1>20 DEF Next,
     Step

(* Who is in piperead() or pipewrite() has the call's arguments and its end. *)
LEMMA StepCall == TypeOK /\ CallInv /\ [Next]_vars => CallInv'
<1> SUFFICES ASSUME TypeOK, CallInv, [Next]_vars PROVE CallInv'
  OBVIOUS
<1> USE DEF TypeOK, CallInv, Reading, Writing, Ends, pipe, calls
<1>1. ASSUME NEW p \in Proc, WriteLock(p) PROVE CallInv'
  BY <1>1 DEF WriteLock, Acquire, Goto
<1>2. ASSUME NEW p \in Proc, WriteFails(p) PROVE CallInv'
  BY <1>2 DEF WriteFails, Release, Return, Goto
<1>3. ASSUME NEW p \in Proc, WritePrepare(p) PROVE CallInv'
  BY <1>3 DEF WritePrepare, WriteMustWait, Release, Goto
<1>4. ASSUME NEW p \in Proc, WriteByte(p) PROVE CallInv'
  BY <1>4 DEF WriteByte, WriteMustWait
<1>5. ASSUME NEW p \in Proc, WriteEnd(p) PROVE CallInv'
  BY <1>5 DEF WriteEnd, Wakeup, Release, Return, Goto
<1>6. ASSUME NEW p \in Proc, ReadLock(p) PROVE CallInv'
  BY <1>6 DEF ReadLock, Acquire, Goto
<1>7. ASSUME NEW p \in Proc, ReadFails(p) PROVE CallInv'
  BY <1>7 DEF ReadFails, ReadMustWait, Release, Return, Goto
<1>8. ASSUME NEW p \in Proc, ReadPrepare(p) PROVE CallInv'
  BY <1>8 DEF ReadPrepare, ReadMustWait, Release, Goto
<1>9. ASSUME NEW p \in Proc, ReadGo(p) PROVE CallInv'
  BY <1>9 DEF ReadGo, ReadMustWait, Goto
<1>10. ASSUME NEW p \in Proc, ReadByte(p) PROVE CallInv'
  BY <1>10 DEF ReadByte
<1>11. ASSUME NEW p \in Proc, ReadDone(p) PROVE CallInv'
  BY <1>11 DEF ReadDone, Wakeup, Release, Return, Goto
<1>12. ASSUME NEW p \in Proc, FallAsleep(p) PROVE CallInv'
  BY <1>12 DEF FallAsleep, Lock, Goto
<1>13. ASSUME NEW p \in Proc, Awake(p) PROVE CallInv'
  BY <1>13 DEF Awake, Lock, Goto
<1>14. ASSUME NEW p \in Proc, PipeClose(p) PROVE CallInv'
  BY <1>14 DEF PipeClose, Wakeup, FreeIfUnused, Goto
<1>15. ASSUME NEW p \in Proc, Kill(p) PROVE CallInv'
  BY <1>15 DEF Kill, Lock, Goto
<1>16. ASSUME NEW p \in Proc, NEW size \in Sizes, Read(p, size) PROVE CallInv'
  BY <1>16 DEF Read, Goto
<1>17. ASSUME NEW p \in Proc, NEW size \in Sizes, Write(p, size) PROVE CallInv'
  BY <1>17 DEF Write, Goto
<1>18. ASSUME NEW p \in Proc, NEW end \in Ends, Close(p, end) PROVE CallInv'
  BY <1>18 DEF Close, Goto
<1>19. ASSUME NEW p \in Proc, NEW end \in Ends, NEW q \in Proc, Dup(p, q, end) PROVE CallInv'
  BY <1>19 DEF Dup
<1>20. CASE UNCHANGED vars
  BY <1>20 DEF vars
<1> QED
  BY <1>1, <1>2, <1>3, <1>4, <1>5, <1>6, <1>7, <1>8, <1>9, <1>10, <1>11,
     <1>12, <1>13, <1>14, <1>15, <1>16, <1>17, <1>18, <1>19, <1>20 DEF Next,
     Step

(* readopen says whether somebody has the reading end. *)
LEMMA StepReadEnd == TypeOK /\ CallInv /\ ReadEndInv /\ [Next]_vars => ReadEndInv'
<1> SUFFICES ASSUME TypeOK, CallInv, ReadEndInv, [Next]_vars PROVE ReadEndInv'
  OBVIOUS
<1> USE DEF TypeOK, CallInv, ReadEndInv, Reading, Writing, Ends, pipe, calls
<1>1. ASSUME NEW p \in Proc, WriteLock(p) PROVE ReadEndInv'
  BY <1>1 DEF WriteLock, Acquire, Goto
<1>2. ASSUME NEW p \in Proc, WriteFails(p) PROVE ReadEndInv'
  BY <1>2 DEF WriteFails, Release, Return, Goto
<1>3. ASSUME NEW p \in Proc, WritePrepare(p) PROVE ReadEndInv'
  BY <1>3 DEF WritePrepare, WriteMustWait, Release, Goto
<1>4. ASSUME NEW p \in Proc, WriteByte(p) PROVE ReadEndInv'
  BY <1>4 DEF WriteByte, WriteMustWait
<1>5. ASSUME NEW p \in Proc, WriteEnd(p) PROVE ReadEndInv'
  BY <1>5 DEF WriteEnd, Wakeup, Release, Return, Goto
<1>6. ASSUME NEW p \in Proc, ReadLock(p) PROVE ReadEndInv'
  BY <1>6 DEF ReadLock, Acquire, Goto
<1>7. ASSUME NEW p \in Proc, ReadFails(p) PROVE ReadEndInv'
  BY <1>7 DEF ReadFails, ReadMustWait, Release, Return, Goto
<1>8. ASSUME NEW p \in Proc, ReadPrepare(p) PROVE ReadEndInv'
  BY <1>8 DEF ReadPrepare, ReadMustWait, Release, Goto
<1>9. ASSUME NEW p \in Proc, ReadGo(p) PROVE ReadEndInv'
  BY <1>9 DEF ReadGo, ReadMustWait, Goto
<1>10. ASSUME NEW p \in Proc, ReadByte(p) PROVE ReadEndInv'
  BY <1>10 DEF ReadByte
<1>11. ASSUME NEW p \in Proc, ReadDone(p) PROVE ReadEndInv'
  BY <1>11 DEF ReadDone, Wakeup, Release, Return, Goto
<1>12. ASSUME NEW p \in Proc, FallAsleep(p) PROVE ReadEndInv'
  BY <1>12 DEF FallAsleep, Lock, Goto
<1>13. ASSUME NEW p \in Proc, Awake(p) PROVE ReadEndInv'
  BY <1>13 DEF Awake, Lock, Goto
<1>14. ASSUME NEW p \in Proc, PipeClose(p) PROVE ReadEndInv'
  BY <1>14 DEF PipeClose, Wakeup, FreeIfUnused, Goto
<1>15. ASSUME NEW p \in Proc, Kill(p) PROVE ReadEndInv'
  BY <1>15 DEF Kill, Lock, Goto
<1>16. ASSUME NEW p \in Proc, NEW size \in Sizes, Read(p, size) PROVE ReadEndInv'
  BY <1>16 DEF Read, Goto
<1>17. ASSUME NEW p \in Proc, NEW size \in Sizes, Write(p, size) PROVE ReadEndInv'
  BY <1>17 DEF Write, Goto
<1>18. ASSUME NEW p \in Proc, NEW end \in Ends, Close(p, end) PROVE ReadEndInv'
  BY <1>18 DEF Close, Goto
<1>19. ASSUME NEW p \in Proc, NEW end \in Ends, NEW q \in Proc, Dup(p, q, end) PROVE ReadEndInv'
  BY <1>19 DEF Dup
<1>20. CASE UNCHANGED vars
  BY <1>20 DEF vars
<1> QED
  BY <1>1, <1>2, <1>3, <1>4, <1>5, <1>6, <1>7, <1>8, <1>9, <1>10, <1>11,
     <1>12, <1>13, <1>14, <1>15, <1>16, <1>17, <1>18, <1>19, <1>20 DEF Next,
     Step

(* writeopen says whether somebody has the writing end. *)
LEMMA StepWriteEnd == TypeOK /\ CallInv /\ WriteEndInv /\ [Next]_vars => WriteEndInv'
<1> SUFFICES ASSUME TypeOK, CallInv, WriteEndInv, [Next]_vars PROVE WriteEndInv'
  OBVIOUS
<1> USE DEF TypeOK, CallInv, WriteEndInv, Reading, Writing, Ends, pipe, calls
<1>1. ASSUME NEW p \in Proc, WriteLock(p) PROVE WriteEndInv'
  BY <1>1 DEF WriteLock, Acquire, Goto
<1>2. ASSUME NEW p \in Proc, WriteFails(p) PROVE WriteEndInv'
  BY <1>2 DEF WriteFails, Release, Return, Goto
<1>3. ASSUME NEW p \in Proc, WritePrepare(p) PROVE WriteEndInv'
  BY <1>3 DEF WritePrepare, WriteMustWait, Release, Goto
<1>4. ASSUME NEW p \in Proc, WriteByte(p) PROVE WriteEndInv'
  BY <1>4 DEF WriteByte, WriteMustWait
<1>5. ASSUME NEW p \in Proc, WriteEnd(p) PROVE WriteEndInv'
  BY <1>5 DEF WriteEnd, Wakeup, Release, Return, Goto
<1>6. ASSUME NEW p \in Proc, ReadLock(p) PROVE WriteEndInv'
  BY <1>6 DEF ReadLock, Acquire, Goto
<1>7. ASSUME NEW p \in Proc, ReadFails(p) PROVE WriteEndInv'
  BY <1>7 DEF ReadFails, ReadMustWait, Release, Return, Goto
<1>8. ASSUME NEW p \in Proc, ReadPrepare(p) PROVE WriteEndInv'
  BY <1>8 DEF ReadPrepare, ReadMustWait, Release, Goto
<1>9. ASSUME NEW p \in Proc, ReadGo(p) PROVE WriteEndInv'
  BY <1>9 DEF ReadGo, ReadMustWait, Goto
<1>10. ASSUME NEW p \in Proc, ReadByte(p) PROVE WriteEndInv'
  BY <1>10 DEF ReadByte
<1>11. ASSUME NEW p \in Proc, ReadDone(p) PROVE WriteEndInv'
  BY <1>11 DEF ReadDone, Wakeup, Release, Return, Goto
<1>12. ASSUME NEW p \in Proc, FallAsleep(p) PROVE WriteEndInv'
  BY <1>12 DEF FallAsleep, Lock, Goto
<1>13. ASSUME NEW p \in Proc, Awake(p) PROVE WriteEndInv'
  BY <1>13 DEF Awake, Lock, Goto
<1>14. ASSUME NEW p \in Proc, PipeClose(p) PROVE WriteEndInv'
  BY <1>14 DEF PipeClose, Wakeup, FreeIfUnused, Goto
<1>15. ASSUME NEW p \in Proc, Kill(p) PROVE WriteEndInv'
  BY <1>15 DEF Kill, Lock, Goto
<1>16. ASSUME NEW p \in Proc, NEW size \in Sizes, Read(p, size) PROVE WriteEndInv'
  BY <1>16 DEF Read, Goto
<1>17. ASSUME NEW p \in Proc, NEW size \in Sizes, Write(p, size) PROVE WriteEndInv'
  BY <1>17 DEF Write, Goto
<1>18. ASSUME NEW p \in Proc, NEW end \in Ends, Close(p, end) PROVE WriteEndInv'
  BY <1>18 DEF Close, Goto
<1>19. ASSUME NEW p \in Proc, NEW end \in Ends, NEW q \in Proc, Dup(p, q, end) PROVE WriteEndInv'
  BY <1>19 DEF Dup
<1>20. CASE UNCHANGED vars
  BY <1>20 DEF vars
<1> QED
  BY <1>1, <1>2, <1>3, <1>4, <1>5, <1>6, <1>7, <1>8, <1>9, <1>10, <1>11,
     <1>12, <1>13, <1>14, <1>15, <1>16, <1>17, <1>18, <1>19, <1>20 DEF Next,
     Step

(* The page stays until both ends are closed. *)
LEMMA StepPage == TypeOK /\ PageInv /\ [Next]_vars => PageInv'
<1> SUFFICES ASSUME TypeOK, PageInv, [Next]_vars PROVE PageInv'
  OBVIOUS
<1> USE DEF TypeOK, PageInv, pipe, calls
<1>1. ASSUME NEW p \in Proc, WriteLock(p) PROVE PageInv'
  BY <1>1 DEF WriteLock, Acquire, Goto
<1>2. ASSUME NEW p \in Proc, WriteFails(p) PROVE PageInv'
  BY <1>2 DEF WriteFails, Release, Return, Goto
<1>3. ASSUME NEW p \in Proc, WritePrepare(p) PROVE PageInv'
  BY <1>3 DEF WritePrepare, WriteMustWait, Release, Goto
<1>4. ASSUME NEW p \in Proc, WriteByte(p) PROVE PageInv'
  BY <1>4 DEF WriteByte, WriteMustWait
<1>5. ASSUME NEW p \in Proc, WriteEnd(p) PROVE PageInv'
  BY <1>5 DEF WriteEnd, Wakeup, Release, Return, Goto
<1>6. ASSUME NEW p \in Proc, ReadLock(p) PROVE PageInv'
  BY <1>6 DEF ReadLock, Acquire, Goto
<1>7. ASSUME NEW p \in Proc, ReadFails(p) PROVE PageInv'
  BY <1>7 DEF ReadFails, ReadMustWait, Release, Return, Goto
<1>8. ASSUME NEW p \in Proc, ReadPrepare(p) PROVE PageInv'
  BY <1>8 DEF ReadPrepare, ReadMustWait, Release, Goto
<1>9. ASSUME NEW p \in Proc, ReadGo(p) PROVE PageInv'
  BY <1>9 DEF ReadGo, ReadMustWait, Goto
<1>10. ASSUME NEW p \in Proc, ReadByte(p) PROVE PageInv'
  BY <1>10 DEF ReadByte
<1>11. ASSUME NEW p \in Proc, ReadDone(p) PROVE PageInv'
  BY <1>11 DEF ReadDone, Wakeup, Release, Return, Goto
<1>12. ASSUME NEW p \in Proc, FallAsleep(p) PROVE PageInv'
  BY <1>12 DEF FallAsleep, Lock, Goto
<1>13. ASSUME NEW p \in Proc, Awake(p) PROVE PageInv'
  BY <1>13 DEF Awake, Lock, Goto
<1>14. ASSUME NEW p \in Proc, PipeClose(p) PROVE PageInv'
  BY <1>14 DEF PipeClose, Wakeup, FreeIfUnused, Goto
<1>15. ASSUME NEW p \in Proc, Kill(p) PROVE PageInv'
  BY <1>15 DEF Kill, Lock, Goto
<1>16. ASSUME NEW p \in Proc, NEW size \in Sizes, Read(p, size) PROVE PageInv'
  BY <1>16 DEF Read, Goto
<1>17. ASSUME NEW p \in Proc, NEW size \in Sizes, Write(p, size) PROVE PageInv'
  BY <1>17 DEF Write, Goto
<1>18. ASSUME NEW p \in Proc, NEW end \in Ends, Close(p, end) PROVE PageInv'
  BY <1>18 DEF Close, Goto
<1>19. ASSUME NEW p \in Proc, NEW end \in Ends, NEW q \in Proc, Dup(p, q, end) PROVE PageInv'
  BY <1>19 DEF Dup
<1>20. CASE UNCHANGED vars
  BY <1>20 DEF vars
<1> QED
  BY <1>1, <1>2, <1>3, <1>4, <1>5, <1>6, <1>7, <1>8, <1>9, <1>10, <1>11,
     <1>12, <1>13, <1>14, <1>15, <1>16, <1>17, <1>18, <1>19, <1>20 DEF Next,
     Step

(* Only a process that is about to sleep, or sleeps, has a channel. *)
LEMMA StepChan == TypeOK /\ ChanInv /\ [Next]_vars => ChanInv'
<1> SUFFICES ASSUME TypeOK, ChanInv, [Next]_vars PROVE ChanInv'
  OBVIOUS
<1> USE DEF TypeOK, ChanInv, pipe, calls
<1>1. ASSUME NEW p \in Proc, WriteLock(p) PROVE ChanInv'
  BY <1>1 DEF WriteLock, Acquire, Goto
<1>2. ASSUME NEW p \in Proc, WriteFails(p) PROVE ChanInv'
  BY <1>2 DEF WriteFails, Release, Return, Goto
<1>3. ASSUME NEW p \in Proc, WritePrepare(p) PROVE ChanInv'
  BY <1>3 DEF WritePrepare, WriteMustWait, Release, Goto
<1>4. ASSUME NEW p \in Proc, WriteByte(p) PROVE ChanInv'
  BY <1>4 DEF WriteByte, WriteMustWait
<1>5. ASSUME NEW p \in Proc, WriteEnd(p) PROVE ChanInv'
  BY <1>5 DEF WriteEnd, Wakeup, Release, Return, Goto
<1>6. ASSUME NEW p \in Proc, ReadLock(p) PROVE ChanInv'
  BY <1>6 DEF ReadLock, Acquire, Goto
<1>7. ASSUME NEW p \in Proc, ReadFails(p) PROVE ChanInv'
  BY <1>7 DEF ReadFails, ReadMustWait, Release, Return, Goto
<1>8. ASSUME NEW p \in Proc, ReadPrepare(p) PROVE ChanInv'
  BY <1>8 DEF ReadPrepare, ReadMustWait, Release, Goto
<1>9. ASSUME NEW p \in Proc, ReadGo(p) PROVE ChanInv'
  BY <1>9 DEF ReadGo, ReadMustWait, Goto
<1>10. ASSUME NEW p \in Proc, ReadByte(p) PROVE ChanInv'
  BY <1>10 DEF ReadByte
<1>11. ASSUME NEW p \in Proc, ReadDone(p) PROVE ChanInv'
  BY <1>11 DEF ReadDone, Wakeup, Release, Return, Goto
<1>12. ASSUME NEW p \in Proc, FallAsleep(p) PROVE ChanInv'
  BY <1>12 DEF FallAsleep, Lock, Goto
<1>13. ASSUME NEW p \in Proc, Awake(p) PROVE ChanInv'
  BY <1>13 DEF Awake, Lock, Goto
<1>14. ASSUME NEW p \in Proc, PipeClose(p) PROVE ChanInv'
  BY <1>14 DEF PipeClose, Wakeup, FreeIfUnused, Goto
<1>15. ASSUME NEW p \in Proc, Kill(p) PROVE ChanInv'
  BY <1>15 DEF Kill, Lock, Goto
<1>16. ASSUME NEW p \in Proc, NEW size \in Sizes, Read(p, size) PROVE ChanInv'
  BY <1>16 DEF Read, Goto
<1>17. ASSUME NEW p \in Proc, NEW size \in Sizes, Write(p, size) PROVE ChanInv'
  BY <1>17 DEF Write, Goto
<1>18. ASSUME NEW p \in Proc, NEW end \in Ends, Close(p, end) PROVE ChanInv'
  BY <1>18 DEF Close, Goto
<1>19. ASSUME NEW p \in Proc, NEW end \in Ends, NEW q \in Proc, Dup(p, q, end) PROVE ChanInv'
  BY <1>19 DEF Dup
<1>20. CASE UNCHANGED vars
  BY <1>20 DEF vars
<1> QED
  BY <1>1, <1>2, <1>3, <1>4, <1>5, <1>6, <1>7, <1>8, <1>9, <1>10, <1>11,
     <1>12, <1>13, <1>14, <1>15, <1>16, <1>17, <1>18, <1>19, <1>20 DEF Next,
     Step

(* An empty pipe that nobody can write stays so. *)
LEMMA StepEof == TypeOK /\ LockInv /\ EofInv /\ [Next]_vars => EofInv'
<1> SUFFICES ASSUME TypeOK, LockInv, EofInv, [Next]_vars PROVE EofInv'
  OBVIOUS
<1> USE DEF TypeOK, LockInv, EofInv, Inside, Empty, pipe, calls
<1>1. ASSUME NEW p \in Proc, WriteLock(p) PROVE EofInv'
  BY <1>1 DEF WriteLock, Acquire, Goto
<1>2. ASSUME NEW p \in Proc, WriteFails(p) PROVE EofInv'
  BY <1>2 DEF WriteFails, Release, Return, Goto
<1>3. ASSUME NEW p \in Proc, WritePrepare(p) PROVE EofInv'
  BY <1>3 DEF WritePrepare, WriteMustWait, Release, Goto
<1>4. ASSUME NEW p \in Proc, WriteByte(p) PROVE EofInv'
  BY <1>4 DEF WriteByte, WriteMustWait
<1>5. ASSUME NEW p \in Proc, WriteEnd(p) PROVE EofInv'
  BY <1>5 DEF WriteEnd, Wakeup, Release, Return, Goto
<1>6. ASSUME NEW p \in Proc, ReadLock(p) PROVE EofInv'
  BY <1>6 DEF ReadLock, Acquire, Goto
<1>7. ASSUME NEW p \in Proc, ReadFails(p) PROVE EofInv'
  BY <1>7 DEF ReadFails, ReadMustWait, Release, Return, Goto
<1>8. ASSUME NEW p \in Proc, ReadPrepare(p) PROVE EofInv'
  BY <1>8 DEF ReadPrepare, ReadMustWait, Release, Goto
<1>9. ASSUME NEW p \in Proc, ReadGo(p) PROVE EofInv'
  BY <1>9 DEF ReadGo, ReadMustWait, Goto
<1>10. ASSUME NEW p \in Proc, ReadByte(p) PROVE EofInv'
  BY <1>10 DEF ReadByte
<1>11. ASSUME NEW p \in Proc, ReadDone(p) PROVE EofInv'
  BY <1>11 DEF ReadDone, Wakeup, Release, Return, Goto
<1>12. ASSUME NEW p \in Proc, FallAsleep(p) PROVE EofInv'
  BY <1>12 DEF FallAsleep, Lock, Goto
<1>13. ASSUME NEW p \in Proc, Awake(p) PROVE EofInv'
  BY <1>13 DEF Awake, Lock, Goto
<1>14. ASSUME NEW p \in Proc, PipeClose(p) PROVE EofInv'
  BY <1>14 DEF PipeClose, Wakeup, FreeIfUnused, Goto
<1>15. ASSUME NEW p \in Proc, Kill(p) PROVE EofInv'
  BY <1>15 DEF Kill, Lock, Goto
<1>16. ASSUME NEW p \in Proc, NEW size \in Sizes, Read(p, size) PROVE EofInv'
  BY <1>16 DEF Read, Goto
<1>17. ASSUME NEW p \in Proc, NEW size \in Sizes, Write(p, size) PROVE EofInv'
  BY <1>17 DEF Write, Goto
<1>18. ASSUME NEW p \in Proc, NEW end \in Ends, Close(p, end) PROVE EofInv'
  BY <1>18 DEF Close, Goto
<1>19. ASSUME NEW p \in Proc, NEW end \in Ends, NEW q \in Proc, Dup(p, q, end) PROVE EofInv'
  BY <1>19 DEF Dup
<1>20. CASE UNCHANGED vars
  BY <1>20 DEF vars
<1> QED
  BY <1>1, <1>2, <1>3, <1>4, <1>5, <1>6, <1>7, <1>8, <1>9, <1>10, <1>11,
     <1>12, <1>13, <1>14, <1>15, <1>16, <1>17, <1>18, <1>19, <1>20 DEF Next,
     Step

(* Every change of what a sleeper waits for wakes it. *)
LEMMA StepWakeup == TypeOK /\ LockInv /\ CallInv /\ EndInv /\ ChanInv /\ NoLostWakeup /\ [Next]_vars => NoLostWakeup'
<1> SUFFICES ASSUME TypeOK, LockInv, CallInv, EndInv, ChanInv, NoLostWakeup, [Next]_vars PROVE NoLostWakeup'
  OBVIOUS
<1> USE DEF TypeOK, LockInv, CallInv, EndInv, ReadEndInv, WriteEndInv, ChanInv, NoLostWakeup, Empty, Full, Inside, Reading, Writing, pipe, calls
<1>1. ASSUME NEW p \in Proc, WriteLock(p) PROVE NoLostWakeup'
  BY <1>1 DEF WriteLock, Acquire, Goto
<1>2. ASSUME NEW p \in Proc, WriteFails(p) PROVE NoLostWakeup'
  <2>1. p \in killed => killed \cap MayHold["write"] # {}
    BY <1>2 DEF WriteFails, Ends
  <2> QED
    BY <1>2, <2>1 DEF WriteFails, Release, Return, Goto
<1>3. ASSUME NEW p \in Proc, WritePrepare(p) PROVE NoLostWakeup'
  BY <1>3 DEF WritePrepare, WriteMustWait, Release, Goto
<1>4. ASSUME NEW p \in Proc, WriteByte(p) PROVE NoLostWakeup'
  BY <1>4 DEF WriteByte, WriteMustWait
<1>5. ASSUME NEW p \in Proc, WriteEnd(p) PROVE NoLostWakeup'
  BY <1>5 DEF WriteEnd, Wakeup, Release, Return, Goto
<1>6. ASSUME NEW p \in Proc, ReadLock(p) PROVE NoLostWakeup'
  BY <1>6 DEF ReadLock, Acquire, Goto
<1>7. ASSUME NEW p \in Proc, ReadFails(p) PROVE NoLostWakeup'
  BY <1>7 DEF ReadFails, ReadMustWait, Release, Return, Goto
<1>8. ASSUME NEW p \in Proc, ReadPrepare(p) PROVE NoLostWakeup'
  BY <1>8 DEF ReadPrepare, ReadMustWait, Release, Goto
<1>9. ASSUME NEW p \in Proc, ReadGo(p) PROVE NoLostWakeup'
  BY <1>9 DEF ReadGo, ReadMustWait, Goto
<1>10. ASSUME NEW p \in Proc, ReadByte(p) PROVE NoLostWakeup'
  BY <1>10 DEF ReadByte
<1>11. ASSUME NEW p \in Proc, ReadDone(p) PROVE NoLostWakeup'
  BY <1>11 DEF ReadDone, Wakeup, Release, Return, Goto
<1>12. ASSUME NEW p \in Proc, FallAsleep(p) PROVE NoLostWakeup'
  BY <1>12 DEF FallAsleep, Lock, Goto
<1>13. ASSUME NEW p \in Proc, Awake(p) PROVE NoLostWakeup'
  BY <1>13, SMTT(30) DEF Awake, Lock, Goto
<1>14. ASSUME NEW p \in Proc, PipeClose(p) PROVE NoLostWakeup'
  BY <1>14 DEF PipeClose, Wakeup, FreeIfUnused, Goto
<1>15. ASSUME NEW p \in Proc, Kill(p) PROVE NoLostWakeup'
  BY <1>15 DEF Kill, Lock, Goto
<1>16. ASSUME NEW p \in Proc, NEW size \in Sizes, Read(p, size) PROVE NoLostWakeup'
  BY <1>16 DEF Read, Goto
<1>17. ASSUME NEW p \in Proc, NEW size \in Sizes, Write(p, size) PROVE NoLostWakeup'
  BY <1>17 DEF Write, Goto
<1>18. ASSUME NEW p \in Proc, NEW end \in Ends, Close(p, end) PROVE NoLostWakeup'
  BY <1>18 DEF Close, Goto
<1>19. ASSUME NEW p \in Proc, NEW end \in Ends, NEW q \in Proc, Dup(p, q, end) PROVE NoLostWakeup'
  BY <1>19 DEF Dup
<1>20. CASE UNCHANGED vars
  BY <1>20 DEF vars
<1> QED
  BY <1>1, <1>2, <1>3, <1>4, <1>5, <1>6, <1>7, <1>8, <1>9, <1>10, <1>11,
     <1>12, <1>13, <1>14, <1>15, <1>16, <1>17, <1>18, <1>19, <1>20 DEF Next,
     Step

-----------------------------------------------------------------------------
(* The theorems.                                                           *)

(* The invariant holds in a new pipe. *)
LEMMA InitIInv == Init => IInv
<1> SUFFICES ASSUME Init PROVE IInv
  OBVIOUS
<1>1. TypeOK
  BY InitTypeOK
<1>2. LockInv /\ CallInv /\ ChanInv /\ EofInv /\ NoLostWakeup
  BY DEF Init, LockInv, CallInv, ChanInv, EofInv, NoLostWakeup, Inside, Reading, Writing
<1>3. EndInv
  BY DEF Init, EndInv, ReadEndInv, WriteEndInv, PageInv
<1> QED
  BY <1>1, <1>2, <1>3 DEF IInv

(* Every step keeps the invariant. *)
LEMMA StepIInv == IInv /\ [Next]_vars => IInv'
  BY StepTypeOK, StepLock, StepCall, StepReadEnd, StepWriteEnd, StepPage, StepChan, StepEof,
     StepWakeup DEF IInv, EndInv

(* The inductive invariant holds in every state. *)
THEOREM Inductive == Spec => []IInv
  BY InitIInv, StepIInv, PTL DEF Spec

(* No reader sleeps on data it could read, no writer on room it could      *)
(* fill: sleep_prepare() under pi->lock makes wakeup() find every waiter.  *)
THEOREM WakeupNotLost == Spec => []NoLostWakeup
<1>1. IInv => NoLostWakeup
  BY DEF IInv
<1> QED
  BY <1>1, Inductive, PTL

(* pipeclose() frees the page when nobody is in a call and no descriptor   *)
(* is left.                                                                *)
THEOREM PageKept == Spec => []NoUseAfterFree
<1>1. IInv => NoUseAfterFree
  <2> SUFFICES ASSUME IInv, ~allocated PROVE /\ \A p \in Proc : pc[p] = "idle"
                                             /\ \A end \in Ends : holders[end] = {}
    BY DEF NoUseAfterFree
  <2>1. ~readopen /\ ~writeopen
    BY DEF IInv, EndInv, PageInv
  <2>2. holders["read"] = {} /\ holders["write"] = {}
    BY <2>1 DEF IInv, EndInv, ReadEndInv, WriteEndInv
  <2>3. ASSUME NEW p \in Proc PROVE pc[p] = "idle"
    BY <2>1, <2>2 DEF IInv, TypeOK, PCs, CallInv, EndInv, ReadEndInv, WriteEndInv, Reading, Writing
  <2> QED
    BY <2>2, <2>3 DEF Ends
<1> QED
  BY <1>1, Inductive, PTL

(* A read that returns nothing has met the end of the stream. *)
THEOREM EofMeansEnd == Spec => EofIsFinal
<1>1. IInv /\ [Next]_vars =>
        [\A p \in Proc : ReadDone(p) /\ n[p] > 0 /\ i[p] = 0 /\ Empty =>
           ~writeopen /\ holders["write"] = {}]_vars
  <2> SUFFICES ASSUME IInv, NEW p \in Proc, ReadDone(p), i[p] = 0, Empty
               PROVE  ~writeopen /\ holders["write"] = {}
    OBVIOUS
  <2> QED
    BY DEF IInv, EofInv, EndInv, WriteEndInv, ReadDone
<1> QED
  BY <1>1, Inductive, PTL DEF Spec, EofIsFinal

-----------------------------------------------------------------------------
(* Pipe implements ByteQueue.                                              *)

(* What is in the pipe, oldest byte first: queue under the mapping of Q. *)
Queue == [k \in 1..Used |-> data[Plus(nread, k - 1) % PIPESIZE]]

(* What is in the ring is a sequence of bytes, as long as the counters say. *)
LEMMA QueueSeq ==
  ASSUME TypeOK
  PROVE  Queue \in Seq(Byte) /\ Len(Queue) = Used
<1>1. Used \in Nat /\ nread \in 0..UINT-1
  BY UsedFacts, Sizing DEF TypeOK
<1>2. ASSUME NEW k \in 1..Used PROVE data[Plus(nread, k - 1) % PIPESIZE] \in Byte
  <2>1. k - 1 \in 0..UINT
    BY <1>1, UsedFacts, Sizing DEF TypeOK
  <2> QED
    BY <2>1, <1>1, Position DEF TypeOK
<1> QED
  BY <1>1, <1>2 DEF Queue

(* pipewrite() appends. *)
LEMMA WriteByteAppends ==
  ASSUME TypeOK, NEW p \in Proc, WriteByte(p)
  PROVE  Used < PIPESIZE /\ \E ch \in Byte : Queue' = Append(Queue, ch)
<1>1. /\ Used \in 0..PIPESIZE-1 /\ Used' = Used + 1 /\ nwrite = Plus(nread, Used)
      /\ nread \in 0..UINT-1 /\ nread' = nread
  BY UsedFacts, UsedGrows, Sizing DEF TypeOK, WriteByte, WriteMustWait
<1>2. PICK ch \in Byte : data' = [data EXCEPT ![nwrite % PIPESIZE] = ch]
  BY DEF WriteByte
<1>3. Queue \in Seq(Byte) /\ Len(Queue) = Used
  BY QueueSeq
<1>4. Queue' = [k \in 1..Used+1 |-> data'[Plus(nread, k - 1) % PIPESIZE]]
  BY <1>1 DEF Queue, Plus
<1>5. nwrite % PIPESIZE \in 0..PIPESIZE-1
  <2>1. nwrite \in Int
    BY Sizing DEF TypeOK
  <2> QED
    BY <2>1, Sizing, Division
<1>6. data'[Plus(nread, (Used + 1) - 1) % PIPESIZE] = ch
  BY <1>1, <1>2, <1>5 DEF TypeOK
<1>7. ASSUME NEW k \in 1..Used PROVE data'[Plus(nread, k - 1) % PIPESIZE] = Queue[k]
  <2>1. Plus(nread, k - 1) % PIPESIZE # nwrite % PIPESIZE
    BY <1>1, Sizing, PlacesApart
  <2>2. Plus(nread, k - 1) % PIPESIZE \in 0..PIPESIZE-1
    BY <1>1, Sizing, Position
  <2> QED
    BY <1>2, <2>1, <2>2 DEF Queue, TypeOK
<1>8. Queue' = Append(Queue, ch)
  <2> DEFINE R == [k \in 1..Used+1 |-> data'[Plus(nread, k - 1) % PIPESIZE]]
  <2>1. \A k \in 1..Used+1 : R[k] = IF k = Used + 1 THEN ch ELSE Queue[k]
    BY <1>1, <1>6, <1>7
  <2>2. /\ Append(Queue, ch) \in Seq(Byte) /\ Len(Append(Queue, ch)) = Used + 1
        /\ \A k \in 1..Used+1 : Append(Queue, ch)[k] = IF k = Used + 1 THEN ch ELSE Queue[k]
    BY <1>3, AppendProperties
  <2>3. R \in Seq(Byte) /\ Len(R) = Used + 1
    <3>1. \A k \in 1..Used+1 : R[k] \in Byte
      <4> HIDE DEF R
      <4> QED
        BY <1>1, <1>3, <2>1, ElementOfSeq
    <3> QED
      BY <1>1, <3>1
  <2> HIDE DEF R
  <2>4. R = Append(Queue, ch)
    BY <2>1, <2>2, <2>3, SeqEqual
  <2> QED
    BY <1>4, <2>4 DEF R
<1> QED
  BY <1>1, <1>8, Sizing

(* piperead() takes the first. *)
LEMMA ReadByteTakes ==
  ASSUME TypeOK, NEW p \in Proc, ReadByte(p)
  PROVE  Queue # <<>> /\ Queue' = Tail(Queue)
<1>1. /\ Used \in 1..PIPESIZE /\ Used' = Used - 1 /\ nread \in 0..UINT-1
      /\ nread' = Plus(nread, 1) /\ nread' \in 0..UINT-1 /\ data' = data
  BY UsedFacts, UsedShrinks, Sizing DEF TypeOK, ReadByte
<1>2. Queue \in Seq(Byte) /\ Len(Queue) = Used
  BY QueueSeq
<1>3. Queue' = [k \in 1..Used-1 |-> data[Plus(nread', k - 1) % PIPESIZE]]
  BY <1>1 DEF Queue, Plus
<1>4. ASSUME NEW k \in 1..Used-1 PROVE data[Plus(nread', k - 1) % PIPESIZE] = Queue[k + 1]
  <2>1. k \in 0..UINT /\ k - 1 \in 0..UINT /\ 1 \in 0..UINT
    BY <1>1, Sizing
  <2>2. Plus(nread', k - 1) = Plus(nread, k)
    <3>1. nread' = IF nread + 1 < UINT THEN nread + 1 ELSE nread + 1 - UINT
      BY <1>1, <2>1, PlusValue
    <3>2. Plus(nread, k) = IF nread + k < UINT THEN nread + k ELSE nread + k - UINT
      BY <1>1, <2>1, PlusValue
    <3>3. Plus(nread', k - 1) = IF nread' + (k - 1) < UINT THEN nread' + (k - 1)
                                ELSE nread' + (k - 1) - UINT
      BY <1>1, <2>1, PlusValue
    <3> QED
      BY <1>1, <3>1, <3>2, <3>3, Sizing
  <2> QED
    BY <1>1, <2>1, <2>2 DEF Queue
<1>5. /\ Queue # <<>> /\ Tail(Queue) \in Seq(Byte) /\ Len(Tail(Queue)) = Used - 1
      /\ \A k \in 1..Used-1 : Tail(Queue)[k] = Queue[k + 1]
  <2>1. Queue # <<>>
    BY <1>1, <1>2, EmptySeq
  <2> QED
    BY <1>1, <1>2, <2>1, HeadTailProperties
<1> DEFINE R == [k \in 1..Used-1 |-> data[Plus(nread', k - 1) % PIPESIZE]]
<1>6. \A k \in 1..Used-1 : R[k] = Queue[k + 1]
  BY <1>4
<1>7. R \in Seq(Byte) /\ Len(R) = Used - 1
  <2>1. \A k \in 1..Used-1 : R[k] \in Byte
    <3> HIDE DEF R
    <3> QED
      BY <1>1, <1>2, <1>6, ElementOfSeq
  <2> QED
    BY <1>1, <2>1
<1> HIDE DEF R
<1>8. R = Tail(Queue)
  BY <1>5, <1>6, <1>7, SeqEqual
<1> QED
  BY <1>3, <1>5, <1>8 DEF R

(* Every step of Pipe is a step of ByteQueue or leaves it alone.           *)
LEMMA QueueKept ==
  ASSUME UNCHANGED <<data, nread, nwrite>>
  PROVE  Queue' = Queue
  BY DEF Queue, Used, Plus

(* Every step is one of the byte queue, or changes nothing it sees. *)
LEMMA StepQueue == IInv /\ [Next]_vars => [Q!Next]_<<Queue, readopen, writeopen>>
<1> SUFFICES ASSUME IInv, [Next]_vars PROVE [Q!Next]_<<Queue, readopen, writeopen>>
  OBVIOUS
<1>1. TypeOK /\ CallInv /\ ReadEndInv /\ WriteEndInv
  BY DEF IInv, EndInv
<1>2. ASSUME NEW p \in Proc, WriteByte(p) PROVE Q!Put
  <2>1. Used < PIPESIZE /\ \E ch \in Byte : Queue' = Append(Queue, ch)
    BY <1>1, <1>2, WriteByteAppends
  <2>2. Len(Queue) = Used
    BY <1>1, QueueSeq
  <2>3. readopen /\ writeopen /\ UNCHANGED <<readopen, writeopen>>
    BY <1>1, <1>2 DEF WriteByte, CallInv, WriteEndInv, Writing
  <2> QED
    BY <2>1, <2>2, <2>3 DEF Q!Put, Queue
<1>3. ASSUME NEW p \in Proc, ReadByte(p) PROVE Q!Get
  <2>1. Queue # <<>> /\ Queue' = Tail(Queue)
    BY <1>1, <1>3, ReadByteTakes
  <2>2. readopen /\ UNCHANGED <<readopen, writeopen>>
    BY <1>1, <1>3 DEF ReadByte, CallInv, ReadEndInv, Reading
  <2> QED
    BY <2>1, <2>2 DEF Q!Get, Queue
<1>4. ASSUME NEW p \in Proc, PipeClose(p) PROVE Q!CloseRead \/ Q!CloseWrite
  <2>1. Queue' = Queue
    BY <1>4, QueueKept DEF PipeClose
  <2>2. CASE pc[p] = "close_read"
    <3>1. readopen /\ readopen' = FALSE /\ writeopen' = writeopen
      BY <1>1, <1>4, <2>2 DEF PipeClose, ReadEndInv
    <3> QED
      BY <2>1, <3>1 DEF Q!CloseRead, Queue
  <2>3. CASE pc[p] = "close_write"
    <3>1. writeopen /\ writeopen' = FALSE /\ readopen' = readopen
      BY <1>1, <1>4, <2>3 DEF PipeClose, WriteEndInv
    <3> QED
      BY <2>1, <3>1 DEF Q!CloseWrite, Queue
  <2> QED
    BY <1>4, <2>2, <2>3 DEF PipeClose
<1>5. CASE UNCHANGED <<data, nread, nwrite, readopen, writeopen>>
  BY <1>5, QueueKept
<1>6. \/ \E p \in Proc : WriteByte(p) \/ ReadByte(p) \/ PipeClose(p)
      \/ UNCHANGED <<data, nread, nwrite, readopen, writeopen>>
  BY DEF Next, Step, vars, pipe, WriteLock, WriteFails, WritePrepare, WriteEnd, ReadLock,
     ReadFails, ReadPrepare, ReadGo, ReadDone, FallAsleep, Awake, Kill, Read, Write, Close, Dup
<1> QED
  BY <1>2, <1>3, <1>4, <1>5, <1>6 DEF Q!Next

(* Through every interleaving, kill, close and wrap of the counters, the   *)
(* pipe is a bounded first-in first-out queue of bytes.                    *)
THEOREM PipeIsQueue == Spec => FifoQueue
<1>1. Init => Q!Init
  <2> SUFFICES ASSUME Init PROVE Queue = <<>> /\ readopen = TRUE /\ writeopen = TRUE
    BY DEF Q!Init, Queue
  <2>1. Used = 0
    BY Sizing, Wrap DEF Init, Used
  <2> QED
    BY <2>1 DEF Init, Queue
<1>2. IInv /\ [Next]_vars => [Q!Next]_<<Queue, readopen, writeopen>>
  BY StepQueue
<1> QED
  BY <1>1, <1>2, Inductive, PTL DEF Spec, FifoQueue, Q!Spec, Queue
=============================================================================
