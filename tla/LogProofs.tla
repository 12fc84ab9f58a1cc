------------------------------ MODULE LogProofs ------------------------------
(* Theorems about Log, for every number of processes and blocks and every  *)
(* size of the log.                                                        *)
EXTENDS Log, FiniteSetTheorems, SequenceTheorems, TLAPS

-----------------------------------------------------------------------------
(* The inductive invariant.                                                *)

Installing == {"install", "erase"}

(* log.outstanding counts the operations between begin_op() and end_op().  *)
CountInv == outstanding = Cardinality(InOp)

(* One process commits, when no operation is in progress; there are no     *)
(* processes before the log is recovered.                                  *)
CommitInv ==
  /\ committing <=> \E p \in Proc : Committer(p)
  /\ \A p, q \in Proc : Committer(p) /\ Committer(q) => p = q
  /\ committing => InOp = {}
  /\ ~Running => \A p \in Proc : pc[p] = "idle"

(* What an operation has written is in the log. *)
WroteInv == \A p \in Proc :
  /\ IsFiniteSet(wrote[p]) /\ Cardinality(wrote[p]) <= MAXOPBLOCKS
  /\ pc[p] # "op" => wrote[p] = {}
  /\ Running => \A b \in wrote[p] : Logged(b)
  /\ pc[p] \in {"begin", "begin_sleep", "op"} => op[p] \in Op

(* The log is empty when nobody works on it, and when no operation of it   *)
(* is unsaved.                                                             *)
UnsavedInv ==
  /\ Running /\ ~committing /\ outstanding = 0 => lh = <<>>
  /\ unsaved # {} => lh # <<>> /\ Running
  /\ \A p \in Proc : /\ pc[p] \in {"install", "erase", "done"} => unsaved = {}
                     /\ pc[p] = "done" => lh = <<>>
                     /\ pc[p] \in {"write_log", "write_head", "install"} => tail \in 1..Len(lh)+1

(* What the disk holds of the log in memory, in each phase of a commit. *)
HeadInv ==
  /\ Running /\ (\A p \in Proc : pc[p] \notin Installing) => head = <<>>
  /\ \A p \in Proc : pc[p] \in Installing => head = lh
CopyInv == \A p \in Proc :
  /\ pc[p] = "write_log" => \A k \in 1..Len(lh) : k < tail => logd[k] = cache[lh[k]]
  /\ pc[p] \in {"write_head", "install", "erase"} => \A k \in 1..Len(lh) : logd[k] = cache[lh[k]]

(* What recovery has done so far. *)
RecoverInv ==
  /\ ~Running => cache = home
  /\ kernel \in Installing => lh = head /\ tail \in 1..Len(head)+1
  /\ kernel = "install" => \A k \in 1..Len(head) : k < tail => home[head[k]] = logd[k]
  /\ kernel = "erase" => \A k \in 1..Len(head) : home[head[k]] = logd[k]

(* The pinned blocks are those of the log that are not home yet. *)
PinInv ==
  /\ ~Running => pinned = {}
  /\ \A p \in Proc : /\ pc[p] = "install" => pinned = {lh[k] : k \in tail..Len(lh)}
                     /\ pc[p] = "erase" => pinned = {}
  /\ Running /\ (\A p \in Proc : pc[p] \notin Installing) => \A b \in Block : b \in pinned <=> Logged(b)

(* A sys_sync() waits for the next commit that has not begun, or for one   *)
(* in progress that saves what it is owed.                                 *)
SyncInv == \A p \in Proc :
  /\ owed[p] \subseteq unsaved
  /\ pc[p] \in {"sync_sleep", "sync_loop"} =>
       /\ want[p] <= ncommit + 1
       /\ ncommit >= want[p] => owed[p] = {}
       /\ ncommit < want[p] => committing \/ outstanding > 0

IInv == /\ TypeOK /\ CountInv /\ CommitInv /\ WroteInv /\ UnsavedInv /\ HeadInv /\ CopyInv
        /\ RecoverInv /\ PinInv /\ SyncInv
        /\ SpaceReserved /\ EvictionSafe /\ NoLostWakeup /\ SyncDurable

-----------------------------------------------------------------------------
(* Facts about the constants, the operations in progress and the log.      *)

(* The bounds are numbers, and an operation fits in the log. *)
LEMMA Sizing ==
  /\ LOGBLOCKS \in Nat /\ MAXOPBLOCKS \in Nat \ {0} /\ MAXOPBLOCKS <= LOGBLOCKS
  /\ MaxOps \in Nat /\ MaxCrashes \in Nat
  BY LogAssumption

(* The operations in progress are finitely many. *)
LEMMA InOpFinite == IsFiniteSet(InOp) /\ Cardinality(InOp) \in Nat
<1>1. InOp \subseteq Proc /\ IsFiniteSet(Proc)
  BY LogAssumption DEF InOp
<1> QED
  BY <1>1, FS_Subset, FS_CardinalityType

(* The set of operations in progress, after one has begun or ended. *)
LEMMA InOpAdd ==
  ASSUME NEW p \in Proc, pc \in [Proc -> PCs], pc[p] # "op", pc' = [pc EXCEPT ![p] = "op"]
  PROVE  InOp' = InOp \union {p} /\ Cardinality(InOp') = Cardinality(InOp) + 1
<1>1. InOp' = InOp \union {p} /\ p \notin InOp
  BY DEF InOp
<1> QED
  BY <1>1, InOpFinite, FS_AddElement

(* An operation that ends. *)
LEMMA InOpRemove ==
  ASSUME NEW p \in Proc, NEW l, pc \in [Proc -> PCs], pc[p] = "op", l # "op",
         pc' = [pc EXCEPT ![p] = l]
  PROVE  InOp' = InOp \ {p} /\ Cardinality(InOp') = Cardinality(InOp) - 1
<1>1. InOp' = InOp \ {p} /\ p \in InOp
  BY DEF InOp
<1> QED
  BY <1>1, InOpFinite, FS_RemoveElement

(* A step outside of the operations. *)
LEMMA InOpSame ==
  ASSUME NEW p \in Proc, NEW l, pc \in [Proc -> PCs], pc[p] # "op", l # "op",
         pc' = [pc EXCEPT ![p] = l]
  PROVE  InOp' = InOp
  BY DEF InOp

(* An operation in progress is counted, and excludes a commit. *)
LEMMA InOpCounted ==
  ASSUME CountInv, CommitInv, NEW p \in Proc, pc[p] = "op"
  PROVE  outstanding \in Nat \ {0} /\ ~committing /\ Running /\ \A r \in Proc : ~Committer(r)
<1>1. p \in InOp
  BY DEF InOp
<1>2. Cardinality(InOp) # 0
  BY <1>1, InOpFinite, FS_EmptySet
<1> QED
  BY <1>1, <1>2, InOpFinite DEF CountInv, CommitInv

(* The last operation to end is alone. *)
LEMMA LastInOp ==
  ASSUME CountInv, NEW p \in Proc, pc[p] = "op", outstanding = 1
  PROVE  InOp = {p}
<1>1. p \in InOp
  BY DEF InOp
<1>2. PICK x : InOp = {x}
  BY InOpFinite, FS_Singleton DEF CountInv
<1> QED
  BY <1>1, <1>2

(* A block is in a header once, and CHOOSE finds its place. *)
LEMMA HeaderPlace ==
  ASSUME NEW s \in Header, NEW k \in 1..Len(s)
  PROVE  (CHOOSE j \in 1..Len(s) : s[j] = s[k]) = k
<1>1. \A j \in 1..Len(s) : s[j] = s[k] => j = k
  BY DEF Header
<1> QED
  BY <1>1

(* A header is a sequence of blocks. *)
LEMMA HeaderFacts ==
  ASSUME NEW s \in Header
  PROVE  /\ s \in Seq(Block) /\ Len(s) \in 0..LOGBLOCKS
         /\ \A k \in 1..Len(s) : s[k] \in Block
         /\ \A j, k \in 1..Len(s) : s[j] = s[k] => j = k
         /\ Len(s) = 0 <=> s = <<>>
<1>1. s \in Seq(Block) /\ Len(s) \in 0..LOGBLOCKS
  BY Sizing, LenProperties DEF Header
<1>2. Len(s) = 0 <=> s = <<>>
  BY <1>1, EmptySeq
<1> QED
  BY <1>1, <1>2, ElementOfSeq DEF Header

(* log_write(): absorbed, or appended. *)
LEMMA AbsorbFacts ==
  ASSUME TypeOK, NEW b \in Block, Absorb(b), Len(lh) < LOGBLOCKS
  PROVE  /\ lh' \in Header
         /\ Logged(b)'
         /\ \A c : Logged(c)' <=> Logged(c) \/ c = b
         /\ \A k \in 1..Len(lh) : lh'[k] = lh[k]
         /\ Len(lh') = IF Logged(b) THEN Len(lh) ELSE Len(lh) + 1
         /\ lh' # <<>>
<1>1. lh \in Header
  BY DEF TypeOK
<1>2. lh \in Seq(Block) /\ Len(lh) \in 0..LOGBLOCKS
  BY <1>1, HeaderFacts
<1>3. CASE Logged(b)
  <2>1. lh' = lh
    BY <1>3 DEF Absorb
  <2>2. lh # <<>>
    BY <1>3, <1>2 DEF Logged
  <2> QED
    BY <1>1, <1>3, <2>1, <2>2 DEF Logged
<1>4. CASE ~Logged(b)
  <2>1. lh' = Append(lh, b)
    BY <1>4 DEF Absorb
  <2>2. /\ lh' \in Seq(Block) /\ lh' # <<>> /\ Len(lh') = Len(lh) + 1
        /\ \A k \in 1..Len(lh) : lh'[k] = lh[k]
        /\ lh'[Len(lh) + 1] = b
    BY <1>2, <2>1, AppendProperties
  <2>3. \A j, k \in 1..Len(lh') : lh'[j] = lh'[k] => j = k
    BY <1>1, <1>2, <1>4, <2>2 DEF Header, Logged
  <2>4. lh' \in Header
    BY <1>2, <2>2, <2>3, Sizing DEF Header
  <2>5. \A c : Logged(c)' <=> Logged(c) \/ c = b
    BY <1>2, <2>2 DEF Logged
  <2> QED
    BY <1>4, <2>2, <2>4, <2>5
<1> QED
  BY <1>3, <1>4

(* The empty header. *)
LEMMA EmptyHeader == <<>> \in Header /\ Len(<<>>) = 0
  BY Sizing, EmptySeq DEF Header

(* The log in memory and on the disk. *)
LEMMA LogTyped ==
  ASSUME TypeOK
  PROVE  /\ Len(lh) \in 0..LOGBLOCKS /\ \A k \in 1..Len(lh) : lh[k] \in Block /\ k \in 1..LOGBLOCKS
         /\ Len(head) \in 0..LOGBLOCKS /\ \A k \in 1..Len(head) : head[k] \in Block /\ k \in 1..LOGBLOCKS
         /\ Len(lh) = 0 <=> lh = <<>>
         /\ \A j, k \in 1..Len(lh) : lh[j] = lh[k] => j = k
         /\ \A j, k \in 1..Len(head) : head[j] = head[k] => j = k
<1>1. lh \in Header /\ head \in Header
  BY DEF TypeOK
<1>2. ASSUME NEW s \in Header
      PROVE  /\ Len(s) \in 0..LOGBLOCKS
             /\ \A k \in 1..Len(s) : s[k] \in Block /\ k \in 1..LOGBLOCKS
             /\ \A j, k \in 1..Len(s) : s[j] = s[k] => j = k
             /\ Len(s) = 0 <=> s = <<>>
  BY <1>2, HeaderFacts, Sizing
<1> QED
  BY <1>1, <1>2

(* Copying a block home keeps the types. *)
LEMMA InstallTyped ==
  ASSUME TypeOK, tail \in 1..Len(lh)+1, InstallBlock
  PROVE  /\ tail \in 1..Len(lh) /\ home' \in [Block -> 0..MaxOps]
         /\ cache' \in [Block -> 0..MaxOps] /\ tail' \in 1..Len(lh)+1 /\ tail' \in 0..LOGBLOCKS+1
<1>1. Len(lh) \in 0..LOGBLOCKS /\ tail \in 1..Len(lh)
  BY LogTyped DEF InstallBlock
<1>2. lh[tail] \in Block /\ logd[tail] \in 0..MaxOps
  BY <1>1, LogTyped DEF TypeOK
<1> QED
  BY <1>1, <1>2, Sizing DEF InstallBlock, TypeOK

(* A process that moves on. *)
LEMMA PcTyped ==
  ASSUME TypeOK, NEW p \in Proc, NEW l \in PCs, pc' = [pc EXCEPT ![p] = l]
  PROVE  pc' \in [Proc -> PCs]
  BY DEF TypeOK

(* A crash keeps the types. *)
LEMMA CrashTyped == TypeOK /\ Crash => TypeOK'
<1> SUFFICES ASSUME TypeOK, Crash PROVE TypeOK'
  OBVIOUS
<1>1. /\ home' \in [Block -> 0..MaxOps] /\ cache' \in [Block -> 0..MaxOps] /\ pinned' \subseteq Block
      /\ logd' \in [1..LOGBLOCKS -> 0..MaxOps]
  BY DEF TypeOK, Crash
<1>2. lh' \in Header /\ head' \in Header /\ chan' \subseteq Proc
  BY EmptyHeader DEF TypeOK, Crash
<1>3. outstanding' \in Nat /\ committing' \in BOOLEAN /\ ncommit' \in Nat
  BY DEF Crash
<1>6. kernel' \in {"up", "panic", "read_head", "install", "erase"} /\ tail' \in 0..LOGBLOCKS+1
  BY Sizing DEF Crash
<1>4. /\ pc' \in [Proc -> PCs] /\ want' \in [Proc -> Nat]
      /\ owed' \in [Proc -> SUBSET Op] /\ unsaved' \subseteq Op
  BY DEF Crash, PCs
<1>7. op' \in [Proc -> 0..MaxOps] /\ wrote' \in [Proc -> SUBSET Block]
  BY Sizing DEF Crash
<1>5. nextop' \in 1..MaxOps+1 /\ crashes' \in 0..MaxCrashes
  BY Sizing DEF TypeOK, Crash
<1> QED
  BY <1>1, <1>2, <1>3, <1>4, <1>5, <1>6, <1>7 DEF TypeOK

(* The process that commits is alone: no operation is in progress. *)
LEMMA Alone ==
  ASSUME CommitInv, NEW p \in Proc, Committer(p)
  PROVE  /\ committing /\ Running /\ InOp = {}
         /\ \A r \in Proc : pc[r] # "op" /\ (Committer(r) => r = p)
<1>1. committing /\ InOp = {}
  BY DEF CommitInv
<1>2. Running
  BY DEF CommitInv, Committer
<1>3. \A r \in Proc : pc[r] # "op"
  BY <1>1 DEF InOp
<1> QED
  BY <1>1, <1>2, <1>3 DEF CommitInv

(* What is reserved is finite. *)
LEMMA ReservedFinite == IsFiniteSet(Reserved) /\ Cardinality(Reserved) \in Nat
<1>1. IsFiniteSet(1..MAXOPBLOCKS) /\ IsFiniteSet(Proc)
  BY Sizing, LogAssumption, FS_Interval
<1>2. IsFiniteSet(Proc \X (1..MAXOPBLOCKS))
  BY <1>1, FS_Product
<1>3. Reserved \subseteq Proc \X (1..MAXOPBLOCKS)
  BY DEF Reserved
<1> QED
  BY <1>2, <1>3, FS_Subset, FS_CardinalityType

(* log_write() finds the log full only for a block that is in it already. *)
LEMMA RoomForNew ==
  ASSUME TypeOK, SpaceReserved, WroteInv, NEW p \in Proc, pc[p] = "op",
         Cardinality(wrote[p]) < MAXOPBLOCKS
  PROVE  Len(lh) < LOGBLOCKS
<1>1. Len(lh) \in 0..LOGBLOCKS
  BY LogTyped
<1>2. Cardinality(wrote[p]) \in Nat
  BY FS_CardinalityType DEF WroteInv
<1>3. <<p, MAXOPBLOCKS>> \in Reserved
  BY <1>2, Sizing DEF Reserved
<1>4. Cardinality(Reserved) # 0
  BY <1>3, ReservedFinite, FS_EmptySet
<1> QED
  BY <1>1, <1>4, ReservedFinite, Sizing DEF SpaceReserved

(* What log_write() does to the log: the block is there and pinned, and    *)
(* a panic changes neither.                                                *)
LEMMA LogWriteFacts ==
  ASSUME TypeOK, CountInv, CommitInv, WroteInv, PinInv, SpaceReserved,
         NEW p \in Proc, NEW b \in Block, LogWrite(p, b)
  PROVE  /\ \A r \in Proc : ~Committer(r)
         /\ ~committing /\ Running /\ Running' /\ outstanding \in Nat \ {0}
         /\ Logged(b)' /\ (\A c : Logged(c)' <=> Logged(c) \/ c = b)
         /\ \A k \in 1..Len(lh) : lh'[k] = lh[k]
         /\ lh' # <<>>
         /\ Len(lh') = IF Logged(b) THEN Len(lh) ELSE Len(lh) + 1
         /\ pinned' = pinned \union {b}
         /\ kernel' = "panic" => Len(lh) = LOGBLOCKS /\ b \in wrote[p]
<1>1. pc[p] = "op" /\ kernel = "up"
  BY DEF LogWrite, Up
<1>2. (\A r \in Proc : ~Committer(r)) /\ ~committing /\ Running /\ outstanding \in Nat \ {0}
  BY <1>1, InOpCounted
<1>3. b \in pinned <=> Logged(b)
  BY <1>2 DEF PinInv, Committer, Installing
<1>4. Len(lh) \in 0..LOGBLOCKS
  BY LogTyped
<1>5. CASE Len(lh) >= LOGBLOCKS
  <2>1. b \in wrote[p] /\ Len(lh) = LOGBLOCKS
    BY <1>1, <1>4, <1>5, RoomForNew, Sizing DEF LogWrite
  <2>2. Logged(b)
    BY <1>1, <1>2, <2>1 DEF WroteInv
  <2>3. kernel' = "panic" /\ lh' = lh /\ pinned' = pinned
    BY <1>5 DEF LogWrite
  <2>4. Logged(b)' /\ (\A c : Logged(c)' <=> Logged(c) \/ c = b)
    BY <2>2, <2>3 DEF Logged
  <2>5. lh' # <<>>
    BY <2>1, <2>3, LogTyped, Sizing
  <2> QED
    BY <1>2, <1>3, <2>1, <2>2, <2>3, <2>4, <2>5 DEF Running
<1>6. CASE Len(lh) < LOGBLOCKS
  <2>1. Absorb(b) /\ Pin(b) /\ kernel' = kernel
    BY <1>2, <1>4, <1>6, Sizing DEF LogWrite
  <2>2. /\ Logged(b)' /\ (\A c : Logged(c)' <=> Logged(c) \/ c = b)
        /\ \A k \in 1..Len(lh) : lh'[k] = lh[k]
        /\ lh' # <<>>
        /\ Len(lh') = IF Logged(b) THEN Len(lh) ELSE Len(lh) + 1
    BY <1>6, <2>1, AbsorbFacts
  <2>3. pinned' = pinned \union {b}
    BY <1>3, <2>1 DEF Pin
  <2>4. Running' /\ kernel' # "panic"
    BY <1>1, <2>1 DEF Running
  <2> QED
    BY <1>2, <2>2, <2>3, <2>4
<1> QED
  BY <1>4, <1>5, <1>6, Sizing

(* install_trans(0) writes home what the buffer cache holds already. *)
LEMMA InstallSame ==
  ASSUME TypeOK, UnsavedInv, CopyInv, NEW p \in Proc, Install(p)
  PROVE  cache' = cache
<1>1. pc[p] = "install" /\ tail \in 1..Len(lh)+1 /\ Len(lh) \in Nat
  BY LogTyped, Sizing DEF Install, UnsavedInv
<1>2. CASE InstallBlock
  <2>1. tail \in 1..Len(lh)
    BY <1>1, <1>2 DEF InstallBlock
  <2>2. logd[tail] = cache[lh[tail]] /\ lh[tail] \in Block
    BY <1>1, <2>1, LogTyped DEF CopyInv
  <2> QED
    BY <1>2, <2>2 DEF InstallBlock, TypeOK
<1> QED
  BY <1>2 DEF Install

(* What one more operation reserves. *)
LEMMA Reservation ==
  \A n \in Nat : n * MAXOPBLOCKS \in Nat /\ (n + 1) * MAXOPBLOCKS = n * MAXOPBLOCKS + MAXOPBLOCKS
<1> TAKE n \in Nat
<1>1. MAXOPBLOCKS \in Nat
  BY Sizing
<1>2. n * MAXOPBLOCKS \in Nat
  BY <1>1, SMT
<1>3. (n + 1) * MAXOPBLOCKS = n * MAXOPBLOCKS + MAXOPBLOCKS
  BY <1>1, SMT
<1> QED
  BY <1>2, <1>3

(* The log with nobody at work is empty, and has room for an operation. *)
LEMMA QuietHasRoom ==
  ASSUME TypeOK, UnsavedInv, Up, MustWait
  PROVE  committing \/ outstanding > 0
<1>1. Running
  BY DEF Up, Running
<1>2. SUFFICES ASSUME ~committing, outstanding = 0 PROVE FALSE
  BY DEF TypeOK
<1>3. Len(lh) = 0
  BY <1>1, <1>2, EmptyHeader DEF UnsavedInv
<1>4. (outstanding + 1) * MAXOPBLOCKS = MAXOPBLOCKS
  BY <1>2, Sizing
<1> QED
  BY <1>2, <1>3, <1>4, Sizing DEF MustWait, CommitReason, LogSpaceReason

(* begin_op() counts MAXOPBLOCKS blocks for each operation in progress. *)
LEMMA ReservedBound == Cardinality(Reserved) <= Cardinality(InOp) * MAXOPBLOCKS
<1>1. IsFiniteSet(1..MAXOPBLOCKS) /\ Cardinality(1..MAXOPBLOCKS) = MAXOPBLOCKS
  BY Sizing, FS_Interval
<1>2. /\ IsFiniteSet(InOp \X (1..MAXOPBLOCKS))
      /\ Cardinality(InOp \X (1..MAXOPBLOCKS)) = Cardinality(InOp) * MAXOPBLOCKS
  BY <1>1, InOpFinite, FS_Product
<1>3. Reserved \subseteq InOp \X (1..MAXOPBLOCKS)
  BY DEF Reserved, InOp
<1>4. Cardinality(Reserved) <= Cardinality(InOp \X (1..MAXOPBLOCKS))
  BY <1>2, <1>3, FS_Subset
<1> QED
  BY <1>2, <1>4

(* What is reserved depends on the operations in progress and what they have written. *)
LEMMA ReservedSame ==
  ASSUME wrote' = wrote, \A p \in Proc : pc'[p] = "op" <=> pc[p] = "op"
  PROVE  Reserved' = Reserved
  BY DEF Reserved

(* With no operation in progress nothing is reserved. *)
LEMMA ReservedNone ==
  ASSUME \A p \in Proc : pc[p] # "op"
  PROVE  Reserved = {} /\ Cardinality(Reserved) = 0
<1>1. Reserved = {}
  BY DEF Reserved
<1> QED
  BY <1>1, FS_EmptySet

(* A first log_write() of a block uses up one block of the reservation. *)
LEMMA ReservedLess ==
  ASSUME WroteInv, NEW p \in Proc, NEW b, pc[p] = "op", b \notin wrote[p],
         Cardinality(wrote[p]) < MAXOPBLOCKS, wrote \in [Proc -> SUBSET Block],
         wrote' = [wrote EXCEPT ![p] = wrote[p] \union {b}], pc' = pc
  PROVE  Cardinality(Reserved') = Cardinality(Reserved) - 1
<1> DEFINE c == Cardinality(wrote[p])
           x == <<p, c + 1>>
<1>1. c \in Nat /\ Cardinality(wrote[p] \union {b}) = c + 1
  BY FS_AddElement, FS_CardinalityType DEF WroteInv
<1>2. c + 1 \in 1..MAXOPBLOCKS
  BY <1>1, Sizing
<1>3. x \in Reserved
  BY <1>1, <1>2 DEF Reserved
<1>4. wrote'[p] = wrote[p] \union {b} /\ \A r \in Proc : r # p => wrote'[r] = wrote[r]
  OBVIOUS
<1>5. ASSUME NEW r \in Proc, NEW k \in 1..MAXOPBLOCKS
      PROVE  k > Cardinality(wrote'[r]) <=> k > Cardinality(wrote[r]) /\ <<r, k>> # x
  <2>1. CASE r = p
    <3>1. Cardinality(wrote'[r]) = c + 1 /\ Cardinality(wrote[r]) = c
      BY <1>1, <1>4, <2>1
    <3>2. k > c + 1 <=> k > c /\ k # c + 1
      BY <1>1
    <3>3. <<r, k>> # x <=> k # c + 1
      BY <2>1
    <3> HIDE DEF c, x
    <3> QED
      BY <3>1, <3>2, <3>3
  <2>2. CASE r # p
    BY <1>4, <2>2
  <2> QED
    BY <2>1, <2>2
<1>6. Reserved' = Reserved \ {x}
  <2> HIDE DEF x
  <2>1. ASSUME NEW y \in Proc \X (1..MAXOPBLOCKS) PROVE y \in Reserved' <=> y \in Reserved /\ y # x
    <3>1. PICK r \in Proc, k \in 1..MAXOPBLOCKS : y = <<r, k>>
      OBVIOUS
    <3>2. y \in Reserved <=> pc[r] = "op" /\ k > Cardinality(wrote[r])
      BY <3>1 DEF Reserved
    <3>3. y \in Reserved' <=> pc[r] = "op" /\ k > Cardinality(wrote'[r])
      BY <3>1 DEF Reserved
    <3> QED
      BY <1>5, <3>1, <3>2, <3>3
  <2>2. Reserved \subseteq Proc \X (1..MAXOPBLOCKS) /\ Reserved' \subseteq Proc \X (1..MAXOPBLOCKS)
    BY DEF Reserved
  <2> QED
    BY <2>1, <2>2
<1> HIDE DEF x
<1>7. Cardinality(Reserved \ {x}) = Cardinality(Reserved) - 1
  BY <1>3, ReservedFinite, FS_RemoveElement
<1> QED
  BY <1>6, <1>7

(* A step outside of the operations that leaves the log alone keeps its space. *)
LEMMA SpaceSame ==
  ASSUME TypeOK, SpaceReserved, NEW p \in Proc, NEW l, pc' = [pc EXCEPT ![p] = l], pc[p] # "op",
         l # "op", UNCHANGED <<lh, wrote, kernel>>, Up
  PROVE  SpaceReserved'
<1>1. \A r \in Proc : pc'[r] = "op" <=> pc[r] = "op"
  BY DEF TypeOK
<1>2. Reserved' = Reserved
  BY <1>1, ReservedSame
<1> QED
  BY <1>2 DEF SpaceReserved, Up

-----------------------------------------------------------------------------
(* Each step preserves each part of the invariant.                         *)

(* Every step keeps the types. *)
LEMMA StepTypeOK ==
  TypeOK /\ CountInv /\ CommitInv /\ WroteInv /\ UnsavedInv /\ RecoverInv /\
  [Next]_vars
  => TypeOK'
<1> SUFFICES ASSUME TypeOK, CountInv, CommitInv, WroteInv, UnsavedInv, RecoverInv,
                    [Next]_vars
             PROVE  TypeOK'
  OBVIOUS
<1> USE DEF TypeOK, PCs, Goto, Up
<1>1. CASE ReadHead
  BY <1>1, Sizing DEF ReadHead
<1>2. CASE RecoverInstall
  <2>1. tail \in 1..Len(lh)+1
    BY <1>2 DEF RecoverInstall, RecoverInv, Installing
  <2>2. /\ home' \in [Block -> 0..MaxOps] /\ cache' \in [Block -> 0..MaxOps]
        /\ tail' \in 0..LOGBLOCKS+1
    BY <1>2, <2>1, InstallTyped DEF RecoverInstall
  <2> QED
    BY <1>2, <2>2 DEF RecoverInstall
<1>3. CASE RecoverErase
  BY <1>3, EmptyHeader, Sizing DEF RecoverErase, EraseHead
<1>4. CASE Crash
  BY <1>4, CrashTyped
<1>5. ASSUME NEW p \in Proc, StartOp(p) PROVE TypeOK'
  BY <1>5, Sizing DEF StartOp
<1>6. ASSUME NEW p \in Proc, EndOp(p) PROVE TypeOK'
  <2>1. outstanding' \in Nat /\ ~committing
    BY <1>6, InOpCounted DEF EndOp
  <2>2. unsaved' \subseteq Op
    BY <1>6 DEF EndOp, WroteInv
  <2>3. chan' \subseteq Proc /\ committing' \in BOOLEAN /\ kernel' = kernel
    BY <1>6, <2>1 DEF EndOp, WakeAll
  <2>4. op' \in [Proc -> 0..MaxOps] /\ wrote' \in [Proc -> SUBSET Block]
    BY <1>6, Sizing DEF EndOp
  <2>5. pc' \in [Proc -> PCs]
    BY <1>6, <2>1, PcTyped DEF EndOp
  <2> QED
    BY <1>6, <2>1, <2>2, <2>3, <2>4, <2>5 DEF EndOp
<1>7. ASSUME NEW p \in Proc, CommitTest(p) PROVE TypeOK'
  <2>1. tail' \in 0..LOGBLOCKS+1 /\ pc' \in [Proc -> PCs]
    BY <1>7, Sizing DEF CommitTest
  <2> QED
    BY <1>7, <2>1 DEF CommitTest
<1>8. ASSUME NEW p \in Proc, WriteLog(p) PROVE TypeOK'
  <2>1. Len(lh) \in 0..LOGBLOCKS /\ tail \in 1..Len(lh)+1
    BY <1>8, LogTyped DEF WriteLog, UnsavedInv
  <2>2. tail <= Len(lh) => cache[lh[tail]] \in 0..MaxOps
    BY <2>1, LogTyped
  <2>3. logd' \in [1..LOGBLOCKS -> 0..MaxOps]
    BY <1>8, <2>2 DEF WriteLog
  <2>5. tail' \in 0..LOGBLOCKS+1
    BY <1>8, <2>1, Sizing DEF WriteLog
  <2>4. pc' \in [Proc -> PCs]
    BY <1>8 DEF WriteLog
  <2> QED
    BY <1>8, <2>3, <2>4, <2>5 DEF WriteLog
<1>9. ASSUME NEW p \in Proc, WriteHead(p) PROVE TypeOK'
  BY <1>9, Sizing DEF WriteHead
<1>10. ASSUME NEW p \in Proc, Install(p) PROVE TypeOK'
  <2>1. tail \in 1..Len(lh)+1
    BY <1>10 DEF Install, UnsavedInv
  <2>2. /\ home' \in [Block -> 0..MaxOps] /\ cache' \in [Block -> 0..MaxOps]
        /\ tail' \in 0..LOGBLOCKS+1
    BY <1>10, <2>1, InstallTyped DEF Install
  <2>3. pc' \in [Proc -> PCs] /\ pinned' \subseteq Block
    BY <1>10 DEF Install
  <2> QED
    BY <1>10, <2>2, <2>3 DEF Install
<1>11. ASSUME NEW p \in Proc, Erase(p) PROVE TypeOK'
  BY <1>11, EmptyHeader, Sizing DEF Erase, EraseHead
<1>12. ASSUME NEW p \in Proc, EndCommit(p) PROVE TypeOK'
  <2>1. pc' \in [Proc -> PCs] /\ ncommit' \in Nat
    BY <1>12 DEF EndCommit
  <2>2. chan' \subseteq Proc /\ committing' \in BOOLEAN
    BY <1>12 DEF EndCommit, WakeAll
  <2> QED
    BY <1>12, <2>1, <2>2 DEF EndCommit
<1>13. ASSUME NEW p \in Proc, BeginOp(p) PROVE TypeOK'
  <2>1. pc' \in [Proc -> PCs]
    BY <1>13, PcTyped DEF BeginOp
  <2>3. outstanding' \in Nat
    BY <1>13 DEF BeginOp
  <2>2. chan' \subseteq Proc
    BY <1>13 DEF BeginOp
  <2> QED
    BY <1>13, <2>1, <2>2, <2>3 DEF BeginOp
<1>14. ASSUME NEW p \in Proc, Woken(p) PROVE TypeOK'
  BY <1>14 DEF Woken, Awake
<1>15. ASSUME NEW p \in Proc, SyncLoop(p) PROVE TypeOK'
  BY <1>15 DEF SyncLoop
<1>16. ASSUME NEW p \in Proc, SyncReturn(p) PROVE TypeOK'
  <2>1. pc' \in [Proc -> PCs] /\ want' \in [Proc -> Nat]
    BY <1>16 DEF SyncReturn
  <2>2. owed' \in [Proc -> SUBSET Op]
    BY <1>16 DEF SyncReturn
  <2> QED
    BY <1>16, <2>1, <2>2 DEF SyncReturn
<1>17. ASSUME NEW p \in Proc, Sync(p) PROVE TypeOK'
  <2>1. pc' \in [Proc -> PCs]
    BY <1>17, PcTyped DEF Sync
  <2>3. want' \in [Proc -> Nat]
    BY <1>17 DEF Sync
  <2>2. chan' \subseteq Proc /\ owed' \in [Proc -> SUBSET Op]
    BY <1>17 DEF Sync
  <2> QED
    BY <1>17, <2>1, <2>2, <2>3 DEF Sync
<1>18. ASSUME NEW p \in Proc, KilledAwake(p) PROVE TypeOK'
  BY <1>18 DEF KilledAwake, Awake
<1>19. ASSUME NEW p \in Proc, NEW b \in Block, LogWrite(p, b) PROVE TypeOK'
  <2>1. op[p] \in Op /\ Op \subseteq 0..MaxOps
    BY <1>19 DEF LogWrite, WroteInv, Op
  <2>2. cache' \in [Block -> 0..MaxOps] /\ wrote' \in [Proc -> SUBSET Block]
    BY <1>19, <2>1 DEF LogWrite
  <2>3. lh' \in Header
    <3>1. CASE Len(lh) < LOGBLOCKS /\ Absorb(b)
      BY <3>1, AbsorbFacts
    <3>2. CASE ~(Len(lh) < LOGBLOCKS /\ Absorb(b))
      BY <1>19, <3>2, LogTyped, Sizing, SMTT(30) DEF LogWrite
    <3> QED
      BY <3>1, <3>2
  <2>4. pinned' \subseteq Block /\ kernel' \in {"up", "panic", "read_head", "install", "erase"}
    BY <1>19 DEF LogWrite, Pin
  <2> QED
    BY <1>19, <2>2, <2>3, <2>4 DEF LogWrite
<1>20. CASE UNCHANGED vars
  BY <1>20 DEF vars
<1> QED
  BY <1>1, <1>2, <1>3, <1>4, <1>5, <1>6, <1>7, <1>8, <1>9, <1>10, <1>11, <1>12,
     <1>13, <1>14, <1>15, <1>16, <1>17, <1>18, <1>19, <1>20 DEF Next, Recover,
     Commit, Wait

(* log.outstanding counts the operations in progress. *)
LEMMA StepCount == TypeOK /\ CountInv /\ CommitInv /\ [Next]_vars => CountInv'
<1> SUFFICES ASSUME TypeOK, CountInv, CommitInv, [Next]_vars
             PROVE  CountInv'
  OBVIOUS
<1> USE DEF TypeOK, CountInv, Goto, Up
<1>1. CASE ReadHead
  BY <1>1 DEF ReadHead, InOp
<1>2. CASE RecoverInstall
  BY <1>2 DEF RecoverInstall, InstallBlock, InOp
<1>3. CASE RecoverErase
  BY <1>3 DEF RecoverErase, EraseHead, InOp
<1>4. CASE Crash
  BY <1>4, FS_EmptySet DEF Crash, InOp
<1>5. ASSUME NEW p \in Proc, StartOp(p) PROVE CountInv'
  BY <1>5, InOpSame DEF StartOp
<1>6. ASSUME NEW p \in Proc, EndOp(p) PROVE CountInv'
  BY <1>6, InOpRemove, InOpCounted DEF EndOp, WakeAll
<1>7. ASSUME NEW p \in Proc, CommitTest(p) PROVE CountInv'
  BY <1>7, InOpSame DEF CommitTest
<1>8. ASSUME NEW p \in Proc, WriteLog(p) PROVE CountInv'
  <2>1. CASE UNCHANGED pc
    BY <1>8, <2>1 DEF InOp, WriteLog
  <2>2. CASE Goto(p, "write_head")
    BY <1>8, <2>2, InOpSame DEF WriteLog
  <2> QED
    BY <1>8, <2>1, <2>2 DEF WriteLog
<1>9. ASSUME NEW p \in Proc, WriteHead(p) PROVE CountInv'
  BY <1>9, InOpSame DEF WriteHead
<1>10. ASSUME NEW p \in Proc, Install(p) PROVE CountInv'
  <2>1. CASE UNCHANGED pc
    BY <1>10, <2>1 DEF InOp, Install
  <2>2. CASE Goto(p, "erase")
    BY <1>10, <2>2, InOpSame DEF Install
  <2> QED
    BY <1>10, <2>1, <2>2 DEF Install
<1>11. ASSUME NEW p \in Proc, Erase(p) PROVE CountInv'
  BY <1>11, InOpSame DEF Erase, EraseHead
<1>12. ASSUME NEW p \in Proc, EndCommit(p) PROVE CountInv'
  BY <1>12, InOpSame DEF EndCommit, WakeAll
<1>13. ASSUME NEW p \in Proc, BeginOp(p) PROVE CountInv'
  BY <1>13, InOpSame, InOpAdd DEF BeginOp
<1>14. ASSUME NEW p \in Proc, Woken(p) PROVE CountInv'
  BY <1>14, InOpSame DEF Woken, Awake
<1>15. ASSUME NEW p \in Proc, SyncLoop(p) PROVE CountInv'
  BY <1>15, InOpSame DEF SyncLoop
<1>16. ASSUME NEW p \in Proc, SyncReturn(p) PROVE CountInv'
  BY <1>16, InOpSame DEF SyncReturn
<1>17. ASSUME NEW p \in Proc, Sync(p) PROVE CountInv'
  BY <1>17, InOpSame DEF Sync
<1>18. ASSUME NEW p \in Proc, KilledAwake(p) PROVE CountInv'
  BY <1>18, InOpSame DEF KilledAwake, Awake
<1>19. ASSUME NEW p \in Proc, NEW b \in Block, LogWrite(p, b) PROVE CountInv'
  BY <1>19 DEF LogWrite, Absorb, Pin, InOp
<1>20. CASE UNCHANGED vars
  BY <1>20 DEF vars, InOp
<1> QED
  BY <1>1, <1>2, <1>3, <1>4, <1>5, <1>6, <1>7, <1>8, <1>9, <1>10, <1>11, <1>12,
     <1>13, <1>14, <1>15, <1>16, <1>17, <1>18, <1>19, <1>20 DEF Next, Recover,
     Commit, Wait

(* One process commits, and only while no operation is in progress. *)
LEMMA StepCommit == TypeOK /\ CountInv /\ CommitInv /\ [Next]_vars => CommitInv'
<1> SUFFICES ASSUME TypeOK, CountInv, CommitInv, [Next]_vars
             PROVE  CommitInv'
  OBVIOUS
<1> USE DEF TypeOK, CommitInv, Committer, InOp, Running, Goto, Up
<1>1. CASE ReadHead
  BY <1>1 DEF ReadHead
<1>2. CASE RecoverInstall
  BY <1>2 DEF RecoverInstall, InstallBlock
<1>3. CASE RecoverErase
  BY <1>3 DEF RecoverErase, EraseHead
<1>4. CASE Crash
  BY <1>4 DEF Crash
<1>5. ASSUME NEW p \in Proc, StartOp(p) PROVE CommitInv'
  BY <1>5 DEF StartOp
<1>6. ASSUME NEW p \in Proc, EndOp(p) PROVE CommitInv'
  <2>1. ~committing /\ Running /\ \A r \in Proc : ~Committer(r)
    BY <1>6, InOpCounted DEF EndOp
  <2>2. CASE outstanding = 1
    <3>1. \A r \in Proc : r # p => pc[r] # "op"
      BY <1>6, <2>2, LastInOp DEF EndOp
    <3> QED
      BY <1>6, <2>1, <2>2, <3>1 DEF EndOp
  <2>3. CASE outstanding # 1
    BY <1>6, <2>1, <2>3 DEF EndOp, WakeAll
  <2> QED
    BY <2>2, <2>3
<1>7. ASSUME NEW p \in Proc, CommitTest(p) PROVE CommitInv'
  BY <1>7 DEF CommitTest
<1>8. ASSUME NEW p \in Proc, WriteLog(p) PROVE CommitInv'
  BY <1>8 DEF WriteLog
<1>9. ASSUME NEW p \in Proc, WriteHead(p) PROVE CommitInv'
  BY <1>9 DEF WriteHead
<1>10. ASSUME NEW p \in Proc, Install(p) PROVE CommitInv'
  <2>1. CASE UNCHANGED pc
    BY <1>10, <2>1 DEF Install
  <2>2. CASE Goto(p, "erase")
    BY <1>10, <2>2 DEF Install
  <2> QED
    BY <1>10, <2>1, <2>2 DEF Install
<1>11. ASSUME NEW p \in Proc, Erase(p) PROVE CommitInv'
  BY <1>11 DEF Erase, EraseHead
<1>12. ASSUME NEW p \in Proc, EndCommit(p) PROVE CommitInv'
  BY <1>12 DEF EndCommit, WakeAll
<1>13. ASSUME NEW p \in Proc, BeginOp(p) PROVE CommitInv'
  <2>1. CASE MustWait
    BY <1>13, <2>1 DEF BeginOp
  <2>2. CASE ~MustWait
    <3>1. ~committing /\ Running
      BY <1>13, <2>2 DEF BeginOp, MustWait, CommitReason
    <3>2. pc' = [pc EXCEPT ![p] = "op"] /\ UNCHANGED <<committing, kernel>> /\ pc[p] = "begin"
      BY <1>13, <2>2 DEF BeginOp
    <3> QED
      BY <3>1, <3>2
  <2> QED
    BY <2>1, <2>2
<1>14. ASSUME NEW p \in Proc, Woken(p) PROVE CommitInv'
  BY <1>14 DEF Woken, Awake
<1>15. ASSUME NEW p \in Proc, SyncLoop(p) PROVE CommitInv'
  <2>1. \E l \in {"sync_sleep", "sync_done"} : Goto(p, l)
    BY <1>15 DEF SyncLoop
  <2> QED
    BY <1>15, <2>1 DEF SyncLoop
<1>16. ASSUME NEW p \in Proc, SyncReturn(p) PROVE CommitInv'
  BY <1>16 DEF SyncReturn
<1>17. ASSUME NEW p \in Proc, Sync(p) PROVE CommitInv'
  <2>1. \E l \in {"sync_sleep", "sync_done"} : Goto(p, l)
    BY <1>17 DEF Sync
  <2> QED
    BY <1>17, <2>1 DEF Sync
<1>18. ASSUME NEW p \in Proc, KilledAwake(p) PROVE CommitInv'
  BY <1>18 DEF KilledAwake, Awake
<1>19. ASSUME NEW p \in Proc, NEW b \in Block, LogWrite(p, b) PROVE CommitInv'
  BY <1>19, InOpCounted DEF LogWrite, Absorb, Pin
<1>20. CASE UNCHANGED vars
  BY <1>20 DEF vars
<1> QED
  BY <1>1, <1>2, <1>3, <1>4, <1>5, <1>6, <1>7, <1>8, <1>9, <1>10, <1>11, <1>12,
     <1>13, <1>14, <1>15, <1>16, <1>17, <1>18, <1>19, <1>20 DEF Next, Recover,
     Commit, Wait

(* What an operation has written is in the log, in its reservation. *)
LEMMA StepWrote ==
  TypeOK /\ CountInv /\ CommitInv /\ WroteInv /\ PinInv /\ SpaceReserved /\
  [Next]_vars
  => WroteInv'
<1> SUFFICES ASSUME TypeOK, CountInv, CommitInv, WroteInv, PinInv, SpaceReserved,
                    [Next]_vars
             PROVE  WroteInv'
  OBVIOUS
<1> USE Sizing DEF TypeOK, WroteInv, Running, Op, Logged, Goto, Up
<1>1. CASE ReadHead
  BY <1>1 DEF ReadHead
<1>2. CASE RecoverInstall
  BY <1>2 DEF RecoverInstall, InstallBlock
<1>3. CASE RecoverErase
  <2>1. \A r \in Proc : wrote[r] = {}
    BY <1>3 DEF RecoverErase, CommitInv
  <2> QED
    BY <1>3, <2>1 DEF RecoverErase
<1>4. CASE Crash
  BY <1>4, FS_EmptySet DEF Crash
<1>5. ASSUME NEW p \in Proc, StartOp(p) PROVE WroteInv'
  BY <1>5 DEF StartOp
<1>6. ASSUME NEW p \in Proc, EndOp(p) PROVE WroteInv'
  <2>1. ~committing /\ Running
    BY <1>6, InOpCounted DEF EndOp
  <2>2. /\ UNCHANGED <<lh, kernel>> /\ wrote' = [wrote EXCEPT ![p] = {}]
        /\ op' = [op EXCEPT ![p] = 0] /\ \E l \in {"commit", "idle"} : Goto(p, l)
    BY <1>6, <2>1 DEF EndOp
  <2>3. /\ \A r \in Proc : r # p => wrote'[r] = wrote[r] /\ op'[r] = op[r] /\ pc'[r] = pc[r]
        /\ wrote'[p] = {} /\ pc'[p] \notin {"begin", "begin_sleep", "op"}
    BY <2>2
  <2>4. IsFiniteSet({}) /\ Cardinality({}) = 0
    BY FS_EmptySet
  <2> QED
    BY <2>1, <2>2, <2>3, <2>4
<1>7. ASSUME NEW p \in Proc, CommitTest(p) PROVE WroteInv'
  BY <1>7 DEF CommitTest
<1>8. ASSUME NEW p \in Proc, WriteLog(p) PROVE WroteInv'
  BY <1>8 DEF WriteLog
<1>9. ASSUME NEW p \in Proc, WriteHead(p) PROVE WroteInv'
  BY <1>9 DEF WriteHead
<1>10. ASSUME NEW p \in Proc, Install(p) PROVE WroteInv'
  BY <1>10 DEF Install, InstallBlock
<1>11. ASSUME NEW p \in Proc, Erase(p) PROVE WroteInv'
  <2>1. \A r \in Proc : wrote[r] = {}
    BY <1>11, Alone DEF Erase, Committer
  <2> QED
    BY <1>11, <2>1 DEF Erase
<1>12. ASSUME NEW p \in Proc, EndCommit(p) PROVE WroteInv'
  BY <1>12 DEF EndCommit, WakeAll
<1>13. ASSUME NEW p \in Proc, BeginOp(p) PROVE WroteInv'
  BY <1>13 DEF BeginOp
<1>14. ASSUME NEW p \in Proc, Woken(p) PROVE WroteInv'
  BY <1>14 DEF Woken, Awake
<1>15. ASSUME NEW p \in Proc, SyncLoop(p) PROVE WroteInv'
  BY <1>15 DEF SyncLoop
<1>16. ASSUME NEW p \in Proc, SyncReturn(p) PROVE WroteInv'
  BY <1>16 DEF SyncReturn
<1>17. ASSUME NEW p \in Proc, Sync(p) PROVE WroteInv'
  BY <1>17 DEF Sync
<1>18. ASSUME NEW p \in Proc, KilledAwake(p) PROVE WroteInv'
  BY <1>18 DEF KilledAwake, Awake
<1>19. ASSUME NEW p \in Proc, NEW b \in Block, LogWrite(p, b) PROVE WroteInv'
  <2> HIDE DEF TypeOK, Logged, Running, WroteInv
  <2>1. /\ Running' /\ Running /\ Logged(b)' /\ \A c : Logged(c) => Logged(c)'
    BY <1>19, LogWriteFacts
  <2>2. /\ wrote' = [wrote EXCEPT ![p] = wrote[p] \union {b}] /\ UNCHANGED <<pc, op>>
        /\ pc[p] = "op" /\ (b \in wrote[p] \/ Cardinality(wrote[p]) < MAXOPBLOCKS)
    BY <1>19 DEF LogWrite
  <2>3. IsFiniteSet(wrote[p]) /\ Cardinality(wrote[p]) \in Nat /\ Cardinality(wrote[p]) <= MAXOPBLOCKS
    BY FS_CardinalityType DEF WroteInv
  <2>4. IsFiniteSet(wrote[p] \union {b}) /\ Cardinality(wrote[p] \union {b}) <= MAXOPBLOCKS
    <3>1. CASE b \in wrote[p]
      <4>1. wrote[p] \union {b} = wrote[p]
        BY <3>1
      <4> QED
        BY <2>3, <4>1
    <3>2. CASE b \notin wrote[p]
      <4>1. IsFiniteSet(wrote[p] \union {b}) /\ Cardinality(wrote[p] \union {b}) = Cardinality(wrote[p]) + 1
        BY <2>3, <3>2, FS_AddElement
      <4> QED
        BY <2>2, <2>3, <3>2, <4>1
    <3> QED
      BY <3>1, <3>2
  <2>5. /\ wrote'[p] = wrote[p] \union {b}
        /\ \A r \in Proc : r # p => wrote'[r] = wrote[r]
    BY <2>2 DEF TypeOK
  <2>6. ASSUME NEW r \in Proc
        PROVE  /\ IsFiniteSet(wrote'[r]) /\ Cardinality(wrote'[r]) <= MAXOPBLOCKS
               /\ pc'[r] # "op" => wrote'[r] = {}
               /\ \A c \in wrote'[r] : Logged(c)'
               /\ pc'[r] \in {"begin", "begin_sleep", "op"} => op'[r] \in Op
    <3>1. CASE r = p
      BY <2>1, <2>2, <2>4, <2>5, <3>1 DEF WroteInv
    <3>2. CASE r # p
      BY <2>1, <2>2, <2>5, <3>2 DEF WroteInv
    <3> QED
      BY <3>1, <3>2
  <2> QED
    BY <2>6 DEF WroteInv
<1>20. CASE UNCHANGED vars
  BY <1>20 DEF vars
<1> QED
  BY <1>1, <1>2, <1>3, <1>4, <1>5, <1>6, <1>7, <1>8, <1>9, <1>10, <1>11, <1>12,
     <1>13, <1>14, <1>15, <1>16, <1>17, <1>18, <1>19, <1>20 DEF Next, Recover,
     Commit, Wait

(* Operations that are not saved are in the log, which is empty without them. *)
LEMMA StepUnsaved ==
  TypeOK /\ CountInv /\ CommitInv /\ WroteInv /\ UnsavedInv /\ PinInv /\ SpaceReserved
  /\ [Next]_vars
  => UnsavedInv'
<1> SUFFICES ASSUME TypeOK, CountInv, CommitInv, WroteInv, UnsavedInv, PinInv,
                    SpaceReserved, [Next]_vars
             PROVE  UnsavedInv'
  OBVIOUS
<1> USE DEF TypeOK, UnsavedInv, Running, Goto, Up
<1>1. CASE ReadHead
  <2>1. \A r \in Proc : pc[r] = "idle"
    BY <1>1 DEF ReadHead, CommitInv
  <2> QED
    BY <1>1, <2>1 DEF ReadHead
<1>2. CASE RecoverInstall
  BY <1>2 DEF RecoverInstall, InstallBlock
<1>3. CASE RecoverErase
  <2>1. \A r \in Proc : pc[r] = "idle"
    BY <1>3 DEF RecoverErase, CommitInv
  <2> QED
    BY <1>3, <2>1 DEF RecoverErase, EraseHead
<1>4. CASE Crash
  BY <1>4 DEF Crash
<1>5. ASSUME NEW p \in Proc, StartOp(p) PROVE UnsavedInv'
  BY <1>5 DEF StartOp
<1>6. ASSUME NEW p \in Proc, EndOp(p) PROVE UnsavedInv'
  <2>1. ~committing /\ Running /\ outstanding \in Nat \ {0} /\ \A r \in Proc : ~Committer(r)
    BY <1>6, InOpCounted DEF EndOp
  <2>2. unsaved' # {} => lh # <<>>
    <3>1. CASE wrote[p] = {}
      BY <1>6, <3>1 DEF EndOp
    <3>2. CASE wrote[p] # {}
      BY <2>1, <3>2, LogTyped DEF WroteInv, Logged
    <3> QED
      BY <3>1, <3>2
  <2>3. /\ UNCHANGED <<lh, kernel, tail>> /\ (committing' \/ outstanding' # 0)
        /\ \E l \in {"commit", "idle"} : Goto(p, l)
    BY <1>6, <2>1 DEF EndOp
  <2>4. \A r \in Proc : pc'[r] \notin {"install", "erase", "done", "write_log", "write_head"}
    BY <2>1, <2>3 DEF Committer
  <2> QED
    BY <2>1, <2>2, <2>3, <2>4
<1>7. ASSUME NEW p \in Proc, CommitTest(p) PROVE UnsavedInv'
  <2>1. committing /\ Running /\ \A r \in Proc : r # p => ~Committer(r)
    BY <1>7, Alone DEF CommitTest, Committer
  <2>2. Len(lh) \in Nat /\ (Len(lh) = 0 <=> lh = <<>>)
    BY LogTyped, Sizing
  <2> QED
    BY <1>7, <2>1, <2>2 DEF CommitTest, Committer
<1>8. ASSUME NEW p \in Proc, WriteLog(p) PROVE UnsavedInv'
  <2>1. committing /\ Running /\ \A r \in Proc : r # p => ~Committer(r)
    BY <1>8, Alone DEF WriteLog, Committer
  <2>2. Len(lh) \in Nat /\ tail \in 1..Len(lh)+1
    BY <1>8, LogTyped, Sizing DEF WriteLog
  <2>3. tail' \in 1..Len(lh)+1 /\ (pc' = pc \/ Goto(p, "write_head"))
    BY <1>8, <2>2 DEF WriteLog
  <2> QED
    BY <1>8, <2>1, <2>2, <2>3 DEF WriteLog, Committer
<1>9. ASSUME NEW p \in Proc, WriteHead(p) PROVE UnsavedInv'
  <2>1. committing /\ Running /\ \A r \in Proc : r # p => ~Committer(r)
    BY <1>9, Alone DEF WriteHead, Committer
  <2>2. Len(lh) \in Nat
    BY LogTyped, Sizing
  <2> QED
    BY <1>9, <2>1, <2>2 DEF WriteHead, Committer
<1>10. ASSUME NEW p \in Proc, Install(p) PROVE UnsavedInv'
  <2>1. committing /\ Running /\ \A r \in Proc : r # p => ~Committer(r)
    BY <1>10, Alone DEF Install, Committer
  <2>2. Len(lh) \in Nat /\ tail \in 1..Len(lh)+1
    BY <1>10, LogTyped, Sizing DEF Install
  <2>3. tail' \in 1..Len(lh)+1 /\ (pc' = pc \/ Goto(p, "erase"))
    BY <1>10, <2>2 DEF Install, InstallBlock
  <2> QED
    BY <1>10, <2>1, <2>2, <2>3 DEF Install, Committer
<1>11. ASSUME NEW p \in Proc, Erase(p) PROVE UnsavedInv'
  <2>1. committing /\ Running /\ \A r \in Proc : r # p => ~Committer(r)
    BY <1>11, Alone DEF Erase, Committer
  <2> QED
    BY <1>11, <2>1 DEF Erase, EraseHead, Committer
<1>12. ASSUME NEW p \in Proc, EndCommit(p) PROVE UnsavedInv'
  BY <1>12 DEF EndCommit, WakeAll
<1>13. ASSUME NEW p \in Proc, BeginOp(p) PROVE UnsavedInv'
  BY <1>13 DEF BeginOp
<1>14. ASSUME NEW p \in Proc, Woken(p) PROVE UnsavedInv'
  BY <1>14 DEF Woken, Awake
<1>15. ASSUME NEW p \in Proc, SyncLoop(p) PROVE UnsavedInv'
  BY <1>15 DEF SyncLoop
<1>16. ASSUME NEW p \in Proc, SyncReturn(p) PROVE UnsavedInv'
  BY <1>16 DEF SyncReturn
<1>17. ASSUME NEW p \in Proc, Sync(p) PROVE UnsavedInv'
  BY <1>17 DEF Sync
<1>18. ASSUME NEW p \in Proc, KilledAwake(p) PROVE UnsavedInv'
  BY <1>18 DEF KilledAwake, Awake
<1>19. ASSUME NEW p \in Proc, NEW b \in Block, LogWrite(p, b) PROVE UnsavedInv'
  <2>1. /\ Running' /\ lh' # <<>> /\ ~committing /\ \A r \in Proc : ~Committer(r)
        /\ outstanding \in Nat \ {0}
    BY <1>19, LogWriteFacts
  <2>2. UNCHANGED <<outstanding, pc, unsaved, tail>>
    BY <1>19 DEF LogWrite
  <2> QED
    BY <2>1, <2>2 DEF Committer
<1>20. CASE UNCHANGED vars
  BY <1>20 DEF vars
<1> QED
  BY <1>1, <1>2, <1>3, <1>4, <1>5, <1>6, <1>7, <1>8, <1>9, <1>10, <1>11, <1>12,
     <1>13, <1>14, <1>15, <1>16, <1>17, <1>18, <1>19, <1>20 DEF Next, Recover,
     Commit, Wait

(* The header on the disk is empty, or while blocks go home the one in memory. *)
LEMMA StepHead ==
  TypeOK /\ CountInv /\ CommitInv /\ UnsavedInv /\ WroteInv /\ HeadInv /\ PinInv /\
  SpaceReserved /\ [Next]_vars
  => HeadInv'
<1> SUFFICES ASSUME TypeOK, CountInv, CommitInv, UnsavedInv, WroteInv, HeadInv,
                    PinInv, SpaceReserved, [Next]_vars
             PROVE  HeadInv'
  OBVIOUS
<1> USE DEF TypeOK, HeadInv, Installing, Running, Goto, Up
<1>1. CASE ReadHead
  BY <1>1 DEF ReadHead
<1>2. CASE RecoverInstall
  BY <1>2 DEF RecoverInstall, InstallBlock
<1>3. CASE RecoverErase
  BY <1>3 DEF RecoverErase, EraseHead
<1>4. CASE Crash
  BY <1>4 DEF Crash
<1>5. ASSUME NEW p \in Proc, StartOp(p) PROVE HeadInv'
  BY <1>5 DEF StartOp
<1>6. ASSUME NEW p \in Proc, EndOp(p) PROVE HeadInv'
  BY <1>6 DEF EndOp, WakeAll
<1>7. ASSUME NEW p \in Proc, CommitTest(p) PROVE HeadInv'
  BY <1>7 DEF CommitTest
<1>8. ASSUME NEW p \in Proc, WriteLog(p) PROVE HeadInv'
  BY <1>8 DEF WriteLog
<1>9. ASSUME NEW p \in Proc, WriteHead(p) PROVE HeadInv'
  BY <1>9 DEF WriteHead
<1>10. ASSUME NEW p \in Proc, Install(p) PROVE HeadInv'
  BY <1>10 DEF Install, InstallBlock
<1>11. ASSUME NEW p \in Proc, Erase(p) PROVE HeadInv'
  BY <1>11 DEF Erase, EraseHead
<1>12. ASSUME NEW p \in Proc, EndCommit(p) PROVE HeadInv'
  BY <1>12 DEF EndCommit, WakeAll
<1>13. ASSUME NEW p \in Proc, BeginOp(p) PROVE HeadInv'
  BY <1>13 DEF BeginOp
<1>14. ASSUME NEW p \in Proc, Woken(p) PROVE HeadInv'
  BY <1>14 DEF Woken, Awake
<1>15. ASSUME NEW p \in Proc, SyncLoop(p) PROVE HeadInv'
  BY <1>15 DEF SyncLoop
<1>16. ASSUME NEW p \in Proc, SyncReturn(p) PROVE HeadInv'
  BY <1>16 DEF SyncReturn
<1>17. ASSUME NEW p \in Proc, Sync(p) PROVE HeadInv'
  BY <1>17 DEF Sync
<1>18. ASSUME NEW p \in Proc, KilledAwake(p) PROVE HeadInv'
  BY <1>18 DEF KilledAwake, Awake
<1>19. ASSUME NEW p \in Proc, NEW b \in Block, LogWrite(p, b) PROVE HeadInv'
  <2>1. Running /\ Running' /\ \A r \in Proc : ~Committer(r)
    BY <1>19, LogWriteFacts
  <2>2. UNCHANGED <<pc, head>>
    BY <1>19 DEF LogWrite
  <2> QED
    BY <2>1, <2>2 DEF Committer
<1>20. CASE UNCHANGED vars
  BY <1>20 DEF vars
<1> QED
  BY <1>1, <1>2, <1>3, <1>4, <1>5, <1>6, <1>7, <1>8, <1>9, <1>10, <1>11, <1>12,
     <1>13, <1>14, <1>15, <1>16, <1>17, <1>18, <1>19, <1>20 DEF Next, Recover,
     Commit, Wait

(* In each phase of a commit, which copies are done. *)
LEMMA StepCopy ==
  TypeOK /\ CountInv /\ CommitInv /\ UnsavedInv /\ WroteInv /\ CopyInv /\ PinInv /\
  SpaceReserved /\ [Next]_vars
  => CopyInv'
<1> SUFFICES ASSUME TypeOK, CountInv, CommitInv, UnsavedInv, WroteInv, CopyInv,
                    PinInv, SpaceReserved, [Next]_vars
             PROVE  CopyInv'
  OBVIOUS
<1> USE DEF TypeOK, CopyInv, Goto, Up
<1>1. CASE ReadHead
  <2>1. \A r \in Proc : pc[r] = "idle"
    BY <1>1 DEF ReadHead, CommitInv, Running
  <2> QED
    BY <1>1, <2>1 DEF ReadHead
<1>2. CASE RecoverInstall
  <2>1. \A r \in Proc : pc[r] = "idle"
    BY <1>2 DEF RecoverInstall, CommitInv, Running
  <2> QED
    BY <1>2, <2>1 DEF RecoverInstall
<1>3. CASE RecoverErase
  BY <1>3 DEF RecoverErase, EraseHead
<1>4. CASE Crash
  BY <1>4 DEF Crash
<1>5. ASSUME NEW p \in Proc, StartOp(p) PROVE CopyInv'
  BY <1>5 DEF StartOp
<1>6. ASSUME NEW p \in Proc, EndOp(p) PROVE CopyInv'
  BY <1>6 DEF EndOp, WakeAll
<1>7. ASSUME NEW p \in Proc, CommitTest(p) PROVE CopyInv'
  BY <1>7 DEF CommitTest
<1>8. ASSUME NEW p \in Proc, WriteLog(p) PROVE CopyInv'
  <2>1. committing /\ Running /\ \A r \in Proc : r # p => ~Committer(r)
    BY <1>8, Alone DEF WriteLog, Committer
  <2>6. tail \in 1..Len(lh)+1
    BY <1>8 DEF WriteLog, UnsavedInv
  <2>2. tail \in 1..Len(lh)+1 /\ Len(lh) \in Nat /\ \A k \in 1..Len(lh) : k \in 1..LOGBLOCKS
    BY SMTT(30), <2>6, LogTyped, Sizing
  <2>3. \A k \in 1..Len(lh) : k < tail => logd[k] = cache[lh[k]]
    BY <1>8 DEF WriteLog
  <2>4. CASE tail <= Len(lh)
    <3>1. logd' = [logd EXCEPT ![tail] = cache[lh[tail]]] /\ tail' = tail + 1 /\ UNCHANGED <<pc, lh, cache>>
      BY <1>8, <2>2, <2>4 DEF WriteLog
    <3>2. \A k \in 1..Len(lh') : k < tail' => logd'[k] = cache'[lh'[k]]
      BY <2>2, <2>3, <3>1
    <3> QED
      BY <1>8, <2>1, <3>1, <3>2 DEF WriteLog, Committer
  <2>5. CASE tail > Len(lh)
    <3>1. Goto(p, "write_head") /\ UNCHANGED <<logd, lh, cache>>
      BY <1>8, <2>2, <2>5 DEF WriteLog
    <3>2. \A k \in 1..Len(lh') : logd'[k] = cache'[lh'[k]]
      BY <2>2, <2>3, <2>5, <3>1
    <3> QED
      BY <1>8, <2>1, <3>1, <3>2 DEF WriteLog, Committer
  <2> QED
    BY <2>2, <2>4, <2>5
<1>9. ASSUME NEW p \in Proc, WriteHead(p) PROVE CopyInv'
  BY <1>9 DEF WriteHead
<1>10. ASSUME NEW p \in Proc, Install(p) PROVE CopyInv'
  <2>1. committing /\ Running /\ \A r \in Proc : r # p => ~Committer(r)
    BY <1>10, Alone DEF Install, Committer
  <2>2. cache' = cache /\ UNCHANGED <<logd, lh>> /\ (pc' = pc \/ Goto(p, "erase"))
    BY <1>10, InstallSame DEF Install
  <2> QED
    BY <1>10, <2>1, <2>2 DEF Install, Committer
<1>11. ASSUME NEW p \in Proc, Erase(p) PROVE CopyInv'
  BY <1>11 DEF Erase, EraseHead
<1>12. ASSUME NEW p \in Proc, EndCommit(p) PROVE CopyInv'
  BY <1>12 DEF EndCommit, WakeAll
<1>13. ASSUME NEW p \in Proc, BeginOp(p) PROVE CopyInv'
  BY <1>13 DEF BeginOp
<1>14. ASSUME NEW p \in Proc, Woken(p) PROVE CopyInv'
  BY <1>14 DEF Woken, Awake
<1>15. ASSUME NEW p \in Proc, SyncLoop(p) PROVE CopyInv'
  BY <1>15 DEF SyncLoop
<1>16. ASSUME NEW p \in Proc, SyncReturn(p) PROVE CopyInv'
  BY <1>16 DEF SyncReturn
<1>17. ASSUME NEW p \in Proc, Sync(p) PROVE CopyInv'
  BY <1>17 DEF Sync
<1>18. ASSUME NEW p \in Proc, KilledAwake(p) PROVE CopyInv'
  BY <1>18 DEF KilledAwake, Awake
<1>19. ASSUME NEW p \in Proc, NEW b \in Block, LogWrite(p, b) PROVE CopyInv'
  <2>1. (\A r \in Proc : ~Committer(r)) /\ UNCHANGED pc
    BY <1>19, LogWriteFacts DEF LogWrite
  <2> QED
    BY <2>1 DEF Committer
<1>20. CASE UNCHANGED vars
  BY <1>20 DEF vars
<1> QED
  BY <1>1, <1>2, <1>3, <1>4, <1>5, <1>6, <1>7, <1>8, <1>9, <1>10, <1>11, <1>12,
     <1>13, <1>14, <1>15, <1>16, <1>17, <1>18, <1>19, <1>20 DEF Next, Recover,
     Commit, Wait

(* In each phase of recovery, what the disk holds. *)
LEMMA StepRecover ==
  TypeOK /\ CommitInv /\ RecoverInv /\ WroteInv /\ CountInv /\ PinInv /\ SpaceReserved
  /\ [Next]_vars
  => RecoverInv'
<1> SUFFICES ASSUME TypeOK, CommitInv, RecoverInv, WroteInv, CountInv, PinInv,
                    SpaceReserved, [Next]_vars
             PROVE  RecoverInv'
  OBVIOUS
<1> USE DEF TypeOK, RecoverInv, Installing, Running, Goto, Up
<1>1. CASE ReadHead
  BY <1>1 DEF ReadHead
<1>2. CASE RecoverInstall
  <2>1. /\ lh = head /\ tail \in 1..Len(head)+1 /\ cache = home
        /\ Len(head) \in Nat /\ \A j, k \in 1..Len(head) : head[j] = head[k] => j = k
    BY <1>2, LogTyped, Sizing, SMTT(30) DEF RecoverInstall
  <2>2. \A k \in 1..Len(head) : k < tail => home[head[k]] = logd[k]
    BY <1>2 DEF RecoverInstall
  <2>3. CASE InstallBlock /\ UNCHANGED kernel
    <3>1. tail <= Len(head) /\ tail' = tail + 1 /\ head[tail] \in Block
      BY <2>1, <2>3, LogTyped DEF InstallBlock
    <3>2. home' = [home EXCEPT ![head[tail]] = logd[tail]] /\ cache' = home'
      BY <2>1, <2>3 DEF InstallBlock
    <3>3. \A k \in 1..Len(head) : k < tail' => home'[head[k]] = logd[k]
      BY <2>1, <2>2, <3>1, <3>2
    <3> QED
      BY <1>2, <2>1, <2>3, <3>1, <3>2, <3>3 DEF RecoverInstall
  <2>4. CASE tail > Len(lh) /\ kernel' = "erase" /\ UNCHANGED <<home, cache, tail>>
    BY <1>2, <2>1, <2>2, <2>4 DEF RecoverInstall
  <2> QED
    BY <1>2, <2>3, <2>4 DEF RecoverInstall
<1>3. CASE RecoverErase
  BY <1>3 DEF RecoverErase, EraseHead
<1>4. CASE Crash
  BY <1>4 DEF Crash
<1>5. ASSUME NEW p \in Proc, StartOp(p) PROVE RecoverInv'
  BY <1>5 DEF StartOp
<1>6. ASSUME NEW p \in Proc, EndOp(p) PROVE RecoverInv'
  BY <1>6 DEF EndOp, WakeAll
<1>7. ASSUME NEW p \in Proc, CommitTest(p) PROVE RecoverInv'
  BY <1>7 DEF CommitTest
<1>8. ASSUME NEW p \in Proc, WriteLog(p) PROVE RecoverInv'
  BY <1>8 DEF WriteLog
<1>9. ASSUME NEW p \in Proc, WriteHead(p) PROVE RecoverInv'
  BY <1>9 DEF WriteHead
<1>10. ASSUME NEW p \in Proc, Install(p) PROVE RecoverInv'
  BY <1>10 DEF Install, InstallBlock
<1>11. ASSUME NEW p \in Proc, Erase(p) PROVE RecoverInv'
  BY <1>11 DEF Erase, EraseHead
<1>12. ASSUME NEW p \in Proc, EndCommit(p) PROVE RecoverInv'
  BY <1>12 DEF EndCommit, WakeAll
<1>13. ASSUME NEW p \in Proc, BeginOp(p) PROVE RecoverInv'
  BY <1>13 DEF BeginOp
<1>14. ASSUME NEW p \in Proc, Woken(p) PROVE RecoverInv'
  BY <1>14 DEF Woken, Awake
<1>15. ASSUME NEW p \in Proc, SyncLoop(p) PROVE RecoverInv'
  BY <1>15 DEF SyncLoop
<1>16. ASSUME NEW p \in Proc, SyncReturn(p) PROVE RecoverInv'
  BY <1>16 DEF SyncReturn
<1>17. ASSUME NEW p \in Proc, Sync(p) PROVE RecoverInv'
  BY <1>17 DEF Sync
<1>18. ASSUME NEW p \in Proc, KilledAwake(p) PROVE RecoverInv'
  BY <1>18 DEF KilledAwake, Awake
<1>19. ASSUME NEW p \in Proc, NEW b \in Block, LogWrite(p, b) PROVE RecoverInv'
  <2>1. Running'
    BY <1>19, LogWriteFacts
  <2> QED
    BY <2>1
<1>20. CASE UNCHANGED vars
  BY <1>20 DEF vars
<1> QED
  BY <1>1, <1>2, <1>3, <1>4, <1>5, <1>6, <1>7, <1>8, <1>9, <1>10, <1>11, <1>12,
     <1>13, <1>14, <1>15, <1>16, <1>17, <1>18, <1>19, <1>20 DEF Next, Recover,
     Commit, Wait

(* The blocks pinned are those of the log that are not yet home. *)
LEMMA StepPin ==
  TypeOK /\ CountInv /\ CommitInv /\ WroteInv /\ UnsavedInv /\ PinInv /\ SpaceReserved
  /\ [Next]_vars
  => PinInv'
<1> SUFFICES ASSUME TypeOK, CountInv, CommitInv, WroteInv, UnsavedInv, PinInv,
                    SpaceReserved, [Next]_vars
             PROVE  PinInv'
  OBVIOUS
<1> USE DEF TypeOK, PinInv, Installing, Running, Logged, Goto, Up
<1>1. CASE ReadHead
  <2>1. \A r \in Proc : pc[r] = "idle"
    BY <1>1 DEF ReadHead, CommitInv
  <2> QED
    BY <1>1, <2>1 DEF ReadHead
<1>2. CASE RecoverInstall
  BY <1>2 DEF RecoverInstall, InstallBlock
<1>3. CASE RecoverErase
  <2>1. \A r \in Proc : pc[r] = "idle"
    BY <1>3 DEF RecoverErase, CommitInv
  <2> QED
    BY <1>3, <2>1, EmptyHeader DEF RecoverErase, EraseHead
<1>4. CASE Crash
  BY <1>4 DEF Crash
<1>5. ASSUME NEW p \in Proc, StartOp(p) PROVE PinInv'
  BY <1>5 DEF StartOp
<1>6. ASSUME NEW p \in Proc, EndOp(p) PROVE PinInv'
  BY <1>6, SMTT(30) DEF EndOp, WakeAll
<1>7. ASSUME NEW p \in Proc, CommitTest(p) PROVE PinInv'
  <2>1. committing /\ Running /\ \A r \in Proc : r # p => ~Committer(r)
    BY <1>7, Alone DEF CommitTest, Committer
  <2>2. /\ Goto(p, "write_log") \/ Goto(p, "done")
        /\ UNCHANGED <<pinned, lh, kernel>>
    BY <1>7 DEF CommitTest
  <2> QED
    BY <1>7, <2>1, <2>2 DEF CommitTest, Committer
<1>8. ASSUME NEW p \in Proc, WriteLog(p) PROVE PinInv'
  <2>1. committing /\ Running /\ \A r \in Proc : r # p => ~Committer(r)
    BY <1>8, Alone DEF WriteLog, Committer
  <2>2. (pc' = pc \/ Goto(p, "write_head")) /\ UNCHANGED <<pinned, lh, kernel>>
    BY <1>8 DEF WriteLog
  <2> QED
    BY <1>8, <2>1, <2>2, SMTT(30) DEF WriteLog, Committer
<1>9. ASSUME NEW p \in Proc, WriteHead(p) PROVE PinInv'
  <2>1. committing /\ Running /\ \A r \in Proc : r # p => ~Committer(r)
    BY <1>9, Alone DEF WriteHead, Committer
  <2>2. \A b \in Block : b \in pinned <=> \E k \in 1..Len(lh) : lh[k] = b
    BY <1>9, <2>1 DEF WriteHead, Committer
  <2>3. pinned = {lh[k] : k \in 1..Len(lh)}
    BY SMTT(30), <2>2, LogTyped
  <2>4. tail' = 1 /\ Goto(p, "install") /\ UNCHANGED <<pinned, lh, kernel>>
    BY <1>9 DEF WriteHead
  <2> QED
    BY <2>1, <2>3, <2>4 DEF Committer
<1>10. ASSUME NEW p \in Proc, Install(p) PROVE PinInv'
  <2>1. committing /\ Running /\ \A r \in Proc : r # p => ~Committer(r)
    BY <1>10, Alone DEF Install, Committer
  <2>6. tail \in 1..Len(lh)+1 /\ pinned = {lh[k] : k \in tail..Len(lh)}
    BY <1>10 DEF Install, UnsavedInv
  <2>7. Len(lh) \in Nat
    BY LogTyped, Sizing
  <2>8. \A j, k \in 1..Len(lh) : lh[j] = lh[k] => j = k
    BY LogTyped
  <2>2. /\ Len(lh) \in Nat /\ tail \in 1..Len(lh)+1 /\ pinned = {lh[k] : k \in tail..Len(lh)}
        /\ \A j, k \in 1..Len(lh) : lh[j] = lh[k] => j = k
    BY <2>6, <2>7, <2>8
  <2>3. UNCHANGED <<lh, kernel>>
    BY <1>10 DEF Install
  <2>4. CASE tail <= Len(lh)
    <3>1. tail' = tail + 1 /\ pinned' = pinned \ {lh[tail]} /\ pc' = pc
      BY <1>10, <2>2, <2>4 DEF Install, InstallBlock
    <3>2. \A k \in tail..Len(lh) : lh[k] # lh[tail] <=> k \in (tail + 1)..Len(lh)
      BY <2>2, <2>4
    <3>3. pinned' = {lh[k] : k \in (tail + 1)..Len(lh)}
      <4> HIDE DEF TypeOK, PinInv
      <4> QED
        BY <2>2, <2>4, <3>1, <3>2
    <3>4. pinned' = {lh'[k] : k \in tail'..Len(lh')}
      BY <2>3, <3>1, <3>3
    <3>5. pc[p] = "install" /\ Running
      BY <1>10 DEF Install
    <3> QED
      BY <1>10, <2>1, <2>3, <3>1, <3>4, <3>5 DEF Committer
  <2>5. CASE tail > Len(lh)
    <3>1. pinned' = pinned /\ Goto(p, "erase")
      BY <1>10, <2>2, <2>5 DEF Install, InstallBlock
    <3>2. pinned = {}
      BY <2>2, <2>5
    <3> QED
      BY <1>10, <2>1, <2>3, <3>1, <3>2 DEF Install, Committer
  <2> QED
    BY <2>2, <2>4, <2>5
<1>11. ASSUME NEW p \in Proc, Erase(p) PROVE PinInv'
  <2>1. committing /\ Running /\ \A r \in Proc : r # p => ~Committer(r)
    BY <1>11, Alone DEF Erase, Committer
  <2>2. lh' = <<>> /\ Goto(p, "done") /\ pinned' = {} /\ kernel' = kernel
    BY <1>11 DEF Erase, EraseHead
  <2> QED
    BY <1>11, <2>1, <2>2, EmptyHeader DEF Erase, Committer
<1>12. ASSUME NEW p \in Proc, EndCommit(p) PROVE PinInv'
  BY <1>12 DEF EndCommit, WakeAll
<1>13. ASSUME NEW p \in Proc, BeginOp(p) PROVE PinInv'
  <2>1. \E l \in {"begin_sleep", "op"} : Goto(p, l)
    BY <1>13 DEF BeginOp
  <2> QED
    BY <1>13, <2>1 DEF BeginOp
<1>14. ASSUME NEW p \in Proc, Woken(p) PROVE PinInv'
  BY <1>14 DEF Woken, Awake
<1>15. ASSUME NEW p \in Proc, SyncLoop(p) PROVE PinInv'
  <2>1. \E l \in {"sync_sleep", "sync_done"} : Goto(p, l)
    BY <1>15 DEF SyncLoop
  <2> QED
    BY <1>15, <2>1 DEF SyncLoop
<1>16. ASSUME NEW p \in Proc, SyncReturn(p) PROVE PinInv'
  BY <1>16 DEF SyncReturn
<1>17. ASSUME NEW p \in Proc, Sync(p) PROVE PinInv'
  <2>1. \E l \in {"sync_sleep", "sync_done"} : Goto(p, l)
    BY <1>17 DEF Sync
  <2> QED
    BY <1>17, <2>1 DEF Sync
<1>18. ASSUME NEW p \in Proc, KilledAwake(p) PROVE PinInv'
  BY <1>18 DEF KilledAwake, Awake
<1>19. ASSUME NEW p \in Proc, NEW b \in Block, LogWrite(p, b) PROVE PinInv'
  <2>1. /\ Running' /\ Running /\ pinned' = pinned \union {b}
        /\ (\A r \in Proc : ~Committer(r)) /\ (\A c : Logged(c)' <=> Logged(c) \/ c = b)
    BY <1>19, LogWriteFacts
  <2>2. UNCHANGED pc
    BY <1>19 DEF LogWrite
  <2> QED
    BY <2>1, <2>2 DEF Committer
<1>20. CASE UNCHANGED vars
  BY <1>20 DEF vars
<1> QED
  BY <1>1, <1>2, <1>3, <1>4, <1>5, <1>6, <1>7, <1>8, <1>9, <1>10, <1>11, <1>12,
     <1>13, <1>14, <1>15, <1>16, <1>17, <1>18, <1>19, <1>20 DEF Next, Recover,
     Commit, Wait

(* Who waits in sys_sync() waits for a commit that saves what it is owed. *)
LEMMA StepSync ==
  TypeOK /\ CountInv /\ CommitInv /\ UnsavedInv /\ SyncInv /\ [Next]_vars
  => SyncInv'
<1> SUFFICES ASSUME TypeOK, CountInv, CommitInv, UnsavedInv, SyncInv, [Next]_vars
             PROVE  SyncInv'
  OBVIOUS
<1> USE DEF TypeOK, SyncInv, Goto, Up
<1>1. CASE ReadHead
  BY <1>1 DEF ReadHead
<1>2. CASE RecoverInstall
  BY <1>2 DEF RecoverInstall, InstallBlock
<1>3. CASE RecoverErase
  BY <1>3 DEF RecoverErase, EraseHead
<1>4. CASE Crash
  BY <1>4 DEF Crash
<1>5. ASSUME NEW p \in Proc, StartOp(p) PROVE SyncInv'
  BY <1>5 DEF StartOp
<1>6. ASSUME NEW p \in Proc, EndOp(p) PROVE SyncInv'
  BY <1>6 DEF EndOp, WakeAll
<1>7. ASSUME NEW p \in Proc, CommitTest(p) PROVE SyncInv'
  BY <1>7 DEF CommitTest
<1>8. ASSUME NEW p \in Proc, WriteLog(p) PROVE SyncInv'
  BY <1>8 DEF WriteLog
<1>9. ASSUME NEW p \in Proc, WriteHead(p) PROVE SyncInv'
  BY <1>9 DEF WriteHead
<1>10. ASSUME NEW p \in Proc, Install(p) PROVE SyncInv'
  BY <1>10 DEF Install, InstallBlock
<1>11. ASSUME NEW p \in Proc, Erase(p) PROVE SyncInv'
  BY <1>11 DEF Erase, EraseHead
<1>12. ASSUME NEW p \in Proc, EndCommit(p) PROVE SyncInv'
  <2>1. unsaved = {}
    BY <1>12 DEF EndCommit, UnsavedInv
  <2>2. \A r \in Proc : owed[r] = {}
    BY <2>1
  <2>3. /\ ncommit' = ncommit + 1 /\ Goto(p, "idle")
        /\ UNCHANGED <<owed, unsaved, want, outstanding>>
    BY <1>12 DEF EndCommit
  <2> QED
    BY <2>1, <2>2, <2>3
<1>13. ASSUME NEW p \in Proc, BeginOp(p) PROVE SyncInv'
  BY <1>13 DEF BeginOp
<1>14. ASSUME NEW p \in Proc, Woken(p) PROVE SyncInv'
  BY <1>14 DEF Woken, Awake
<1>15. ASSUME NEW p \in Proc, SyncLoop(p) PROVE SyncInv'
  BY <1>15 DEF SyncLoop
<1>16. ASSUME NEW p \in Proc, SyncReturn(p) PROVE SyncInv'
  BY <1>16 DEF SyncReturn
<1>17. ASSUME NEW p \in Proc, Sync(p) PROVE SyncInv'
  <2>1. CASE SyncMustWait
    <3>1. /\ want' = [want EXCEPT ![p] = ncommit + 1] /\ Goto(p, "sync_sleep")
          /\ owed' = [owed EXCEPT ![p] = unsaved]
          /\ UNCHANGED <<unsaved, ncommit, committing, outstanding>>
      BY <1>17, <2>1 DEF Sync
    <3> QED
      BY <2>1, <3>1 DEF SyncMustWait
  <2>2. CASE ~SyncMustWait
    <3>1. Goto(p, "sync_done") /\ owed' = [owed EXCEPT ![p] = unsaved]
          /\ UNCHANGED <<want, unsaved, ncommit, committing, outstanding>>
      BY <1>17, <2>2 DEF Sync
    <3> QED
      BY <3>1
  <2> QED
    BY <2>1, <2>2
<1>18. ASSUME NEW p \in Proc, KilledAwake(p) PROVE SyncInv'
  BY <1>18 DEF KilledAwake, Awake
<1>19. ASSUME NEW p \in Proc, NEW b \in Block, LogWrite(p, b) PROVE SyncInv'
  BY <1>19 DEF LogWrite, Absorb, Pin
<1>20. CASE UNCHANGED vars
  BY <1>20 DEF vars
<1> QED
  BY <1>1, <1>2, <1>3, <1>4, <1>5, <1>6, <1>7, <1>8, <1>9, <1>10, <1>11, <1>12,
     <1>13, <1>14, <1>15, <1>16, <1>17, <1>18, <1>19, <1>20 DEF Next, Recover,
     Commit, Wait

(* An unpinned buffer holds what the disk has. *)
LEMMA StepEviction ==
  TypeOK /\ CountInv /\ CommitInv /\ WroteInv /\ UnsavedInv /\ CopyInv /\ PinInv /\
  SpaceReserved /\ EvictionSafe /\ [Next]_vars
  => EvictionSafe'
<1> SUFFICES ASSUME TypeOK, CountInv, CommitInv, WroteInv, UnsavedInv, CopyInv,
                    PinInv, SpaceReserved, EvictionSafe, [Next]_vars
             PROVE  EvictionSafe'
  OBVIOUS
<1> USE DEF TypeOK, EvictionSafe, Goto, Up
<1>1. CASE ReadHead
  BY <1>1 DEF ReadHead
<1>2. CASE RecoverInstall
  BY <1>2 DEF RecoverInstall, InstallBlock
<1>3. CASE RecoverErase
  BY <1>3 DEF RecoverErase, EraseHead
<1>4. CASE Crash
  BY <1>4 DEF Crash
<1>5. ASSUME NEW p \in Proc, StartOp(p) PROVE EvictionSafe'
  BY <1>5 DEF StartOp
<1>6. ASSUME NEW p \in Proc, EndOp(p) PROVE EvictionSafe'
  BY <1>6 DEF EndOp, WakeAll
<1>7. ASSUME NEW p \in Proc, CommitTest(p) PROVE EvictionSafe'
  BY <1>7 DEF CommitTest
<1>8. ASSUME NEW p \in Proc, WriteLog(p) PROVE EvictionSafe'
  BY <1>8 DEF WriteLog
<1>9. ASSUME NEW p \in Proc, WriteHead(p) PROVE EvictionSafe'
  BY <1>9 DEF WriteHead
<1>10. ASSUME NEW p \in Proc, Install(p) PROVE EvictionSafe'
  BY <1>10, SMTT(30) DEF Install, InstallBlock
<1>11. ASSUME NEW p \in Proc, Erase(p) PROVE EvictionSafe'
  BY <1>11 DEF Erase, EraseHead
<1>12. ASSUME NEW p \in Proc, EndCommit(p) PROVE EvictionSafe'
  BY <1>12 DEF EndCommit, WakeAll
<1>13. ASSUME NEW p \in Proc, BeginOp(p) PROVE EvictionSafe'
  BY <1>13 DEF BeginOp
<1>14. ASSUME NEW p \in Proc, Woken(p) PROVE EvictionSafe'
  BY <1>14 DEF Woken, Awake
<1>15. ASSUME NEW p \in Proc, SyncLoop(p) PROVE EvictionSafe'
  BY <1>15 DEF SyncLoop
<1>16. ASSUME NEW p \in Proc, SyncReturn(p) PROVE EvictionSafe'
  BY <1>16 DEF SyncReturn
<1>17. ASSUME NEW p \in Proc, Sync(p) PROVE EvictionSafe'
  BY <1>17 DEF Sync
<1>18. ASSUME NEW p \in Proc, KilledAwake(p) PROVE EvictionSafe'
  BY <1>18 DEF KilledAwake, Awake
<1>19. ASSUME NEW p \in Proc, NEW b \in Block, LogWrite(p, b) PROVE EvictionSafe'
  <2>1. pinned' = pinned \union {b}
    BY <1>19, LogWriteFacts
  <2>2. cache' = [cache EXCEPT ![b] = op[p]] /\ home' = home
    BY <1>19 DEF LogWrite
  <2> QED
    BY <2>1, <2>2
<1>20. CASE UNCHANGED vars
  BY <1>20 DEF vars
<1> QED
  BY <1>1, <1>2, <1>3, <1>4, <1>5, <1>6, <1>7, <1>8, <1>9, <1>10, <1>11, <1>12,
     <1>13, <1>14, <1>15, <1>16, <1>17, <1>18, <1>19, <1>20 DEF Next, Recover,
     Commit, Wait

(* What sys_sync() has promised is durable. *)
LEMMA StepDurable ==
  TypeOK /\ CommitInv /\ UnsavedInv /\ SyncInv /\ SyncDurable /\ [Next]_vars
  => SyncDurable'
<1> SUFFICES ASSUME TypeOK, CommitInv, UnsavedInv, SyncInv, SyncDurable, [Next]_vars
             PROVE  SyncDurable'
  OBVIOUS
<1> USE DEF TypeOK, SyncDurable, Goto, Up
<1>1. CASE ReadHead
  BY <1>1 DEF ReadHead
<1>2. CASE RecoverInstall
  BY <1>2 DEF RecoverInstall, InstallBlock
<1>3. CASE RecoverErase
  BY <1>3 DEF RecoverErase, EraseHead
<1>4. CASE Crash
  BY <1>4 DEF Crash
<1>5. ASSUME NEW p \in Proc, StartOp(p) PROVE SyncDurable'
  BY <1>5 DEF StartOp
<1>6. ASSUME NEW p \in Proc, EndOp(p) PROVE SyncDurable'
  BY <1>6 DEF EndOp, WakeAll
<1>7. ASSUME NEW p \in Proc, CommitTest(p) PROVE SyncDurable'
  BY <1>7 DEF CommitTest
<1>8. ASSUME NEW p \in Proc, WriteLog(p) PROVE SyncDurable'
  BY <1>8 DEF WriteLog
<1>9. ASSUME NEW p \in Proc, WriteHead(p) PROVE SyncDurable'
  BY <1>9 DEF WriteHead
<1>10. ASSUME NEW p \in Proc, Install(p) PROVE SyncDurable'
  BY <1>10 DEF Install, InstallBlock
<1>11. ASSUME NEW p \in Proc, Erase(p) PROVE SyncDurable'
  BY <1>11 DEF Erase, EraseHead
<1>12. ASSUME NEW p \in Proc, EndCommit(p) PROVE SyncDurable'
  BY <1>12 DEF EndCommit, WakeAll
<1>13. ASSUME NEW p \in Proc, BeginOp(p) PROVE SyncDurable'
  BY <1>13 DEF BeginOp
<1>14. ASSUME NEW p \in Proc, Woken(p) PROVE SyncDurable'
  BY <1>14 DEF Woken, Awake
<1>15. ASSUME NEW p \in Proc, SyncLoop(p) PROVE SyncDurable'
  <2>1. CASE ncommit < want[p]
    BY <1>15, <2>1 DEF SyncLoop
  <2>2. CASE ~(ncommit < want[p])
    <3>2. ncommit >= want[p] /\ pc[p] = "sync_loop"
      BY <1>15, <2>2 DEF SyncLoop
    <3>1. owed[p] = {}
      BY <3>2 DEF SyncInv
    <3> QED
      BY <1>15, <2>2, <3>1 DEF SyncLoop
  <2> QED
    BY <2>1, <2>2
<1>16. ASSUME NEW p \in Proc, SyncReturn(p) PROVE SyncDurable'
  BY <1>16 DEF SyncReturn
<1>17. ASSUME NEW p \in Proc, Sync(p) PROVE SyncDurable'
  <2>1. CASE SyncMustWait
    BY <1>17, <2>1 DEF Sync
  <2>2. CASE ~SyncMustWait
    <3>1. unsaved = {}
      BY <1>17, <2>2 DEF Sync, SyncMustWait, UnsavedInv, Running
    <3> QED
      BY <1>17, <2>2, <3>1 DEF Sync
  <2> QED
    BY <2>1, <2>2
<1>18. ASSUME NEW p \in Proc, KilledAwake(p) PROVE SyncDurable'
  BY <1>18 DEF KilledAwake, Awake
<1>19. ASSUME NEW p \in Proc, NEW b \in Block, LogWrite(p, b) PROVE SyncDurable'
  BY <1>19 DEF LogWrite, Absorb, Pin
<1>20. CASE UNCHANGED vars
  BY <1>20 DEF vars
<1> QED
  BY <1>1, <1>2, <1>3, <1>4, <1>5, <1>6, <1>7, <1>8, <1>9, <1>10, <1>11, <1>12,
     <1>13, <1>14, <1>15, <1>16, <1>17, <1>18, <1>19, <1>20 DEF Next, Recover,
     Commit, Wait

(* Every change of what a sleeper waits for wakes it. *)
LEMMA StepWakeup ==
  TypeOK /\ CountInv /\ CommitInv /\ WroteInv /\ UnsavedInv /\ PinInv /\ SyncInv /\
  SpaceReserved /\ NoLostWakeup /\ [Next]_vars
  => NoLostWakeup'
<1> SUFFICES ASSUME TypeOK, CountInv, CommitInv, WroteInv, UnsavedInv, PinInv,
                    SyncInv, SpaceReserved, NoLostWakeup, [Next]_vars
             PROVE  NoLostWakeup'
  OBVIOUS
<1> USE DEF TypeOK, NoLostWakeup, Goto, Up
<1>1. CASE ReadHead
  <2>1. \A r \in Proc : pc[r] = "idle"
    BY <1>1 DEF ReadHead, CommitInv, Running
  <2> QED
    BY <1>1, <2>1 DEF ReadHead
<1>2. CASE RecoverInstall
  <2>1. \A r \in Proc : pc[r] = "idle"
    BY <1>2 DEF RecoverInstall, CommitInv, Running
  <2> QED
    BY <1>2, <2>1 DEF RecoverInstall
<1>3. CASE RecoverErase
  <2>1. \A r \in Proc : pc[r] = "idle"
    BY <1>3 DEF RecoverErase, CommitInv, Running
  <2> QED
    BY <1>3, <2>1 DEF RecoverErase
<1>4. CASE Crash
  BY <1>4 DEF Crash
<1>5. ASSUME NEW p \in Proc, StartOp(p) PROVE NoLostWakeup'
  <2>1. MustWait' = MustWait
    BY <1>5 DEF StartOp, MustWait, CommitReason, LogSpaceReason
  <2> QED
    BY <1>5, <2>1 DEF StartOp
<1>6. ASSUME NEW p \in Proc, EndOp(p) PROVE NoLostWakeup'
  <2>1. ~committing
    BY <1>6, InOpCounted DEF EndOp
  <2>2. CASE outstanding = 1
    <3>1. committing' /\ Goto(p, "commit") /\ UNCHANGED <<chan, ncommit, want>>
      BY <1>6, <2>1, <2>2 DEF EndOp
    <3>2. MustWait'
      BY <3>1 DEF MustWait, CommitReason
    <3> QED
      BY <3>1, <3>2
  <2>3. CASE outstanding # 1
    BY <1>6, <2>1, <2>3 DEF EndOp, WakeAll
  <2> QED
    BY <2>2, <2>3
<1>7. ASSUME NEW p \in Proc, CommitTest(p) PROVE NoLostWakeup'
  <2>1. MustWait' = MustWait
    BY <1>7 DEF CommitTest, MustWait, CommitReason, LogSpaceReason
  <2> QED
    BY <1>7, <2>1 DEF CommitTest
<1>8. ASSUME NEW p \in Proc, WriteLog(p) PROVE NoLostWakeup'
  <2>1. MustWait' = MustWait
    BY <1>8 DEF WriteLog, MustWait, CommitReason, LogSpaceReason
  <2> QED
    BY <1>8, <2>1 DEF WriteLog
<1>9. ASSUME NEW p \in Proc, WriteHead(p) PROVE NoLostWakeup'
  <2>1. MustWait' = MustWait
    BY <1>9 DEF WriteHead, MustWait, CommitReason, LogSpaceReason
  <2> QED
    BY <1>9, <2>1 DEF WriteHead
<1>10. ASSUME NEW p \in Proc, Install(p) PROVE NoLostWakeup'
  <2>1. MustWait' = MustWait
    BY <1>10 DEF Install, MustWait, CommitReason, LogSpaceReason
  <2> QED
    BY <1>10, <2>1 DEF Install, InstallBlock
<1>11. ASSUME NEW p \in Proc, Erase(p) PROVE NoLostWakeup'
  <2>1. committing
    BY <1>11, Alone DEF Erase, Committer
  <2>2. committing' /\ Goto(p, "done") /\ UNCHANGED <<chan, ncommit, want>>
    BY <1>11, <2>1 DEF Erase
  <2>3. MustWait'
    BY <2>2 DEF MustWait, CommitReason
  <2> QED
    BY <2>2, <2>3
<1>12. ASSUME NEW p \in Proc, EndCommit(p) PROVE NoLostWakeup'
  BY <1>12 DEF EndCommit, WakeAll
<1>13. ASSUME NEW p \in Proc, BeginOp(p) PROVE NoLostWakeup'
  <2>1. Len(lh) \in Nat /\ outstanding \in Nat
    BY LogTyped, Sizing
  <2>2. CASE MustWait
    <3>1. /\ chan' = chan \union {p} /\ Goto(p, "begin_sleep")
          /\ UNCHANGED <<committing, outstanding, lh, ncommit, want>>
      BY <1>13, <2>2 DEF BeginOp
    <3>2. MustWait'
      BY <2>2, <3>1 DEF MustWait, CommitReason, LogSpaceReason
    <3>3. committing \/ outstanding > 0
      BY <1>13, <2>1, <2>2, QuietHasRoom DEF BeginOp
    <3> QED
      BY <3>1, <3>2, <3>3
  <2>3. CASE ~MustWait
    <3>1. /\ chan' = chan /\ Goto(p, "op") /\ outstanding' = outstanding + 1
          /\ UNCHANGED <<committing, lh, ncommit, want>>
      BY <1>13, <2>3 DEF BeginOp
    <3>2. MustWait => MustWait'
      BY <2>3
    <3> QED
      BY <2>1, <2>3, <3>1, <3>2
  <2> QED
    BY <2>2, <2>3
<1>14. ASSUME NEW p \in Proc, Woken(p) PROVE NoLostWakeup'
  <2>1. MustWait' = MustWait
    BY <1>14 DEF Woken, MustWait, CommitReason, LogSpaceReason
  <2> QED
    BY <1>14, <2>1 DEF Woken, Awake
<1>15. ASSUME NEW p \in Proc, SyncLoop(p) PROVE NoLostWakeup'
  <2>1. MustWait' = MustWait
    BY <1>15 DEF SyncLoop, MustWait, CommitReason, LogSpaceReason
  <2>2. UNCHANGED <<ncommit, want, committing, outstanding>>
    BY <1>15 DEF SyncLoop
  <2>3. CASE ncommit < want[p]
    <3>1. chan' = chan \union {p} /\ Goto(p, "sync_sleep")
      BY <1>15, <2>3 DEF SyncLoop
    <3>2. committing \/ outstanding > 0
      BY <1>15, <2>3 DEF SyncLoop, SyncInv
    <3> QED
      BY <2>1, <2>2, <2>3, <3>1, <3>2
  <2>4. CASE ~(ncommit < want[p])
    BY <1>15, <2>1, <2>2, <2>4 DEF SyncLoop
  <2> QED
    BY <2>3, <2>4
<1>16. ASSUME NEW p \in Proc, SyncReturn(p) PROVE NoLostWakeup'
  <2>1. MustWait' = MustWait
    BY <1>16 DEF SyncReturn, MustWait, CommitReason, LogSpaceReason
  <2> QED
    BY <1>16, <2>1 DEF SyncReturn
<1>17. ASSUME NEW p \in Proc, Sync(p) PROVE NoLostWakeup'
  <2>1. MustWait' = MustWait
    BY <1>17 DEF Sync, MustWait, CommitReason, LogSpaceReason
  <2>2. UNCHANGED <<ncommit, committing, outstanding>>
    BY <1>17 DEF Sync
  <2>3. CASE SyncMustWait
    <3>1. /\ chan' = chan \union {p} /\ Goto(p, "sync_sleep")
          /\ want' = [want EXCEPT ![p] = ncommit + 1]
      BY <1>17, <2>3 DEF Sync
    <3> QED
      BY <2>1, <2>2, <2>3, <3>1 DEF SyncMustWait
  <2>4. CASE ~SyncMustWait
    BY <1>17, <2>1, <2>2, <2>4 DEF Sync
  <2> QED
    BY <2>3, <2>4
<1>18. ASSUME NEW p \in Proc, KilledAwake(p) PROVE NoLostWakeup'
  <2>1. MustWait' = MustWait
    BY <1>18 DEF KilledAwake, MustWait, CommitReason, LogSpaceReason
  <2> QED
    BY <1>18, <2>1 DEF KilledAwake, Awake
<1>19. ASSUME NEW p \in Proc, NEW b \in Block, LogWrite(p, b) PROVE NoLostWakeup'
  <2>1. outstanding \in Nat \ {0} /\ Len(lh') = IF Logged(b) THEN Len(lh) ELSE Len(lh) + 1
    BY <1>19, LogWriteFacts
  <2>2. UNCHANGED <<outstanding, committing, chan, pc, ncommit, want>>
    BY <1>19 DEF LogWrite
  <2>3. Len(lh) \in Nat
    BY LogTyped, Sizing
  <2>4. MustWait => MustWait'
    <3> DEFINE m == (outstanding + 1) * MAXOPBLOCKS
    <3>1. m \in Nat
      <4>1. outstanding + 1 \in Nat /\ MAXOPBLOCKS \in Nat
        BY <2>1, Sizing
      <4> QED
        BY <4>1, SMT
    <3>2. MustWait <=> committing \/ Len(lh) + m > LOGBLOCKS
      BY DEF MustWait, CommitReason, LogSpaceReason
    <3>3. MustWait' <=> committing \/ Len(lh') + m > LOGBLOCKS
      BY <2>2 DEF MustWait, CommitReason, LogSpaceReason
    <3> HIDE DEF m
    <3> QED
      BY <2>1, <2>3, <3>1, <3>2, <3>3, Sizing
  <2> QED
    BY <2>1, <2>2, <2>4
<1>20. CASE UNCHANGED vars
  <2>1. MustWait' = MustWait
    BY <1>20 DEF vars, MustWait, CommitReason, LogSpaceReason
  <2> QED
    BY <1>20, <2>1 DEF vars

<1> QED
  BY <1>1, <1>2, <1>3, <1>4, <1>5, <1>6, <1>7, <1>8, <1>9, <1>10, <1>11, <1>12,
     <1>13, <1>14, <1>15, <1>16, <1>17, <1>18, <1>19, <1>20 DEF Next, Recover,
     Commit, Wait

(* The log has room for what is in it and what is reserved. *)
LEMMA StepSpace ==
  TypeOK /\ CountInv /\ CommitInv /\ WroteInv /\ PinInv /\ SpaceReserved /\
  [Next]_vars
  => SpaceReserved'
<1> SUFFICES ASSUME TypeOK, CountInv, CommitInv, WroteInv, PinInv, SpaceReserved,
                    [Next]_vars
             PROVE  SpaceReserved'
  OBVIOUS
<1> USE DEF Goto, Up
<1>1. CASE ReadHead
  <2>1. (\A r \in Proc : pc'[r] # "op") /\ kernel' # "panic" /\ lh' \in Header
    BY <1>1 DEF ReadHead, CommitInv, Running, TypeOK
  <2>2. Reserved' = {}
    BY <2>1 DEF Reserved
  <2>3. Cardinality(Reserved') = 0 /\ Len(lh') \in 0..LOGBLOCKS
    BY <2>1, <2>2, FS_EmptySet, HeaderFacts
  <2> QED
    BY <2>1, <2>3, Sizing DEF SpaceReserved
<1>2. CASE RecoverInstall
  <2>1. (\A r \in Proc : pc'[r] # "op") /\ kernel' # "panic" /\ lh' \in Header
    BY <1>2 DEF RecoverInstall, CommitInv, Running, TypeOK
  <2>2. Reserved' = {}
    BY <2>1 DEF Reserved
  <2>3. Cardinality(Reserved') = 0 /\ Len(lh') \in 0..LOGBLOCKS
    BY <2>1, <2>2, FS_EmptySet, HeaderFacts
  <2> QED
    BY <2>1, <2>3, Sizing DEF SpaceReserved
<1>3. CASE RecoverErase
  <2>1. (\A r \in Proc : pc'[r] # "op") /\ kernel' # "panic" /\ lh' \in Header
    BY <1>3, EmptyHeader DEF RecoverErase, EraseHead, CommitInv, Running
  <2>2. Reserved' = {}
    BY <2>1 DEF Reserved
  <2>3. Cardinality(Reserved') = 0 /\ Len(lh') \in 0..LOGBLOCKS
    BY <2>1, <2>2, FS_EmptySet, HeaderFacts
  <2> QED
    BY <2>1, <2>3, Sizing DEF SpaceReserved
<1>4. CASE Crash
  <2>1. (\A r \in Proc : pc'[r] # "op") /\ kernel' # "panic" /\ lh' \in Header
    BY <1>4, EmptyHeader DEF Crash
  <2>2. Reserved' = {}
    BY <2>1 DEF Reserved
  <2>3. Cardinality(Reserved') = 0 /\ Len(lh') \in 0..LOGBLOCKS
    BY <2>1, <2>2, FS_EmptySet, HeaderFacts
  <2> QED
    BY <2>1, <2>3, Sizing DEF SpaceReserved
<1>5. ASSUME NEW p \in Proc, StartOp(p) PROVE SpaceReserved'
  <2>1. \E l \in {"begin"} : Goto(p, l)
    BY <1>5 DEF StartOp
  <2> QED
    BY <1>5, <2>1, SpaceSame DEF StartOp
<1>6. ASSUME NEW p \in Proc, EndOp(p) PROVE SpaceReserved'
  <2>1. ~committing
    BY <1>6, InOpCounted DEF EndOp
  <2>2. UNCHANGED <<lh, kernel>> /\ \E l \in {"idle", "commit"} : Goto(p, l)
    BY <1>6, <2>1 DEF EndOp
  <2>3. pc \in [Proc -> PCs] /\ wrote \in [Proc -> SUBSET Block] /\ wrote' = [wrote EXCEPT ![p] = {}]
    BY <1>6 DEF EndOp, TypeOK
  <2>4. \A r \in Proc : pc'[r] = "op" => pc[r] = "op" /\ wrote'[r] = wrote[r]
    BY <2>2, <2>3
  <2>5. Reserved' \subseteq Reserved
    BY <2>4 DEF Reserved
  <2>6. /\ Cardinality(Reserved') \in Nat /\ Cardinality(Reserved) \in Nat
        /\ Cardinality(Reserved') <= Cardinality(Reserved)
    BY <2>5, ReservedFinite, FS_Subset, FS_CardinalityType
  <2>7. Len(lh) \in Nat
    BY LogTyped, Sizing
  <2> QED
    BY <1>6, <2>2, <2>6, <2>7, Sizing DEF EndOp, SpaceReserved
<1>7. ASSUME NEW p \in Proc, CommitTest(p) PROVE SpaceReserved'
  <2>1. \E l \in {"write_log", "done"} : Goto(p, l)
    BY <1>7 DEF CommitTest
  <2> QED
    BY <1>7, <2>1, SpaceSame DEF CommitTest
<1>8. ASSUME NEW p \in Proc, WriteLog(p) PROVE SpaceReserved'
  <2>1. CASE UNCHANGED pc
    <3>1. Reserved' = Reserved
      BY <1>8, <2>1, ReservedSame DEF WriteLog
    <3> QED
      BY <1>8, <3>1 DEF WriteLog, SpaceReserved
  <2>2. CASE Goto(p, "write_head")
    BY <1>8, <2>2, SpaceSame DEF WriteLog
  <2> QED
    BY <1>8, <2>1, <2>2 DEF WriteLog
<1>9. ASSUME NEW p \in Proc, WriteHead(p) PROVE SpaceReserved'
  <2>1. \E l \in {"install"} : Goto(p, l)
    BY <1>9 DEF WriteHead
  <2> QED
    BY <1>9, <2>1, SpaceSame DEF WriteHead
<1>10. ASSUME NEW p \in Proc, Install(p) PROVE SpaceReserved'
  <2>1. CASE UNCHANGED pc
    <3>1. Reserved' = Reserved
      BY <1>10, <2>1, ReservedSame DEF Install
    <3> QED
      BY <1>10, <3>1 DEF Install, SpaceReserved
  <2>2. CASE Goto(p, "erase")
    BY <1>10, <2>2, SpaceSame DEF Install
  <2> QED
    BY <1>10, <2>1, <2>2 DEF Install
<1>11. ASSUME NEW p \in Proc, Erase(p) PROVE SpaceReserved'
  <2>1. Goto(p, "done") /\ pc[p] = "erase" /\ wrote' = wrote /\ kernel' = "up"
    BY <1>11 DEF Erase
  <2>2. \A r \in Proc : pc'[r] = "op" <=> pc[r] = "op"
    BY <2>1 DEF TypeOK
  <2>3. Reserved' = Reserved
    BY <2>1, <2>2, ReservedSame
  <2>4. Len(lh') = 0
    BY <1>11, EmptyHeader DEF Erase, EraseHead
  <2>5. Len(lh) \in Nat
    BY LogTyped, Sizing
  <2> QED
    BY <2>1, <2>3, <2>4, <2>5, ReservedFinite, Sizing DEF SpaceReserved
<1>12. ASSUME NEW p \in Proc, EndCommit(p) PROVE SpaceReserved'
  <2>1. \E l \in {"idle"} : Goto(p, l)
    BY <1>12 DEF EndCommit
  <2> QED
    BY <1>12, <2>1, SpaceSame DEF EndCommit
<1>13. ASSUME NEW p \in Proc, BeginOp(p) PROVE SpaceReserved'
  <2>1. CASE MustWait
    BY <1>13, <2>1, SpaceSame DEF BeginOp
  <2>2. CASE ~MustWait
    <3>1. /\ pc[p] = "begin" /\ Goto(p, "op") /\ outstanding' = outstanding + 1
          /\ UNCHANGED <<lh, kernel>> /\ kernel = "up"
      BY <1>13, <2>2 DEF BeginOp
    <3>2. Cardinality(InOp') = outstanding + 1
      BY <3>1, InOpAdd DEF TypeOK, CountInv
    <3>3. (Cardinality(Reserved) <= Cardinality(InOp) * MAXOPBLOCKS)'
      BY ReservedBound, PTL
    <3>4. (IsFiniteSet(Reserved) /\ Cardinality(Reserved) \in Nat)'
      BY ReservedFinite, PTL
    <3> DEFINE m == (outstanding + 1) * MAXOPBLOCKS
    <3>5. Cardinality(Reserved') <= m
      BY <3>2, <3>3
    <3>6. Len(lh) + m <= LOGBLOCKS
      <4>1. ~(Len(lh) + m > LOGBLOCKS)
        BY <2>2 DEF MustWait, LogSpaceReason
      <4>2. Len(lh) \in Nat /\ outstanding + 1 \in Nat /\ MAXOPBLOCKS \in Nat
        BY LogTyped, Sizing DEF TypeOK
      <4>3. m \in Nat
        BY <4>2, SMT
      <4> HIDE DEF m
      <4> QED
        BY <4>1, <4>2, <4>3, Sizing
    <3>7. m \in Nat
      <4>2. outstanding + 1 \in Nat /\ MAXOPBLOCKS \in Nat
        BY Sizing DEF TypeOK
      <4> QED
        BY <4>2, SMT
    <3>8. Len(lh) \in Nat
      BY LogTyped, Sizing
    <3> HIDE DEF m
    <3> QED
      BY <3>1, <3>4, <3>5, <3>6, <3>7, <3>8, Sizing DEF SpaceReserved
  <2> QED
    BY <2>1, <2>2
<1>14. ASSUME NEW p \in Proc, Woken(p) PROVE SpaceReserved'
  <2>1. \E l \in {"begin", "sync_loop"} : Goto(p, l)
    BY <1>14 DEF Woken, Awake
  <2> QED
    BY <1>14, <2>1, SpaceSame DEF Woken
<1>15. ASSUME NEW p \in Proc, SyncLoop(p) PROVE SpaceReserved'
  <2>1. \E l \in {"sync_sleep", "sync_done"} : Goto(p, l)
    BY <1>15 DEF SyncLoop
  <2> QED
    BY <1>15, <2>1, SpaceSame DEF SyncLoop
<1>16. ASSUME NEW p \in Proc, SyncReturn(p) PROVE SpaceReserved'
  <2>1. \E l \in {"idle"} : Goto(p, l)
    BY <1>16 DEF SyncReturn
  <2> QED
    BY <1>16, <2>1, SpaceSame DEF SyncReturn
<1>17. ASSUME NEW p \in Proc, Sync(p) PROVE SpaceReserved'
  <2>1. \E l \in {"sync_sleep", "sync_done"} : Goto(p, l)
    BY <1>17 DEF Sync
  <2> QED
    BY <1>17, <2>1, SpaceSame DEF Sync
<1>18. ASSUME NEW p \in Proc, KilledAwake(p) PROVE SpaceReserved'
  <2>1. \E l \in {"begin", "sync_loop"} : Goto(p, l)
    BY <1>18 DEF KilledAwake, Awake
  <2> QED
    BY <1>18, <2>1, SpaceSame DEF KilledAwake
<1>19. ASSUME NEW p \in Proc, NEW b \in Block, LogWrite(p, b) PROVE SpaceReserved'
  <2>1. /\ ~committing /\ (kernel' = "panic" => Len(lh) = LOGBLOCKS /\ b \in wrote[p])
        /\ Len(lh') = IF Logged(b) THEN Len(lh) ELSE Len(lh) + 1
    BY <1>19, LogWriteFacts
  <2>2. /\ UNCHANGED <<pc, committing>> /\ wrote' = [wrote EXCEPT ![p] = wrote[p] \union {b}]
        /\ pc[p] = "op" /\ Up /\ (b \in wrote[p] \/ Cardinality(wrote[p]) < MAXOPBLOCKS)
    BY <1>19 DEF LogWrite
  <2>3. Len(lh) \in Nat /\ wrote \in [Proc -> SUBSET Block]
    BY LogTyped, Sizing, SMTT(30) DEF TypeOK
  <2>4. CASE b \in wrote[p]
    <3>1. wrote' = wrote
      <4>1. wrote[p] \union {b} = wrote[p]
        BY <2>4
      <4> QED
        BY <2>2, <2>3, <4>1
    <3>2. Reserved' = Reserved
      BY <2>2, <3>1, ReservedSame
    <3>3. Logged(b)
      BY <2>2, <2>4 DEF WroteInv, Running
    <3> QED
      BY <2>1, <2>2, <3>2, <3>3 DEF SpaceReserved
  <2>5. CASE b \notin wrote[p]
    <3>1. Cardinality(Reserved') = Cardinality(Reserved) - 1
      BY <2>2, <2>3, <2>5, ReservedLess
    <3> QED
      BY <2>1, <2>2, <2>3, <2>5, <3>1, ReservedFinite, Sizing DEF SpaceReserved
  <2> QED
    BY <2>4, <2>5
<1>20. CASE UNCHANGED vars
  BY <1>20 DEF vars, SpaceReserved, Reserved
<1> QED
  BY <1>1, <1>2, <1>3, <1>4, <1>5, <1>6, <1>7, <1>8, <1>9, <1>10, <1>11, <1>12,
     <1>13, <1>14, <1>15, <1>16, <1>17, <1>18, <1>19, <1>20 DEF Next, Recover,
     Commit, Wait

-----------------------------------------------------------------------------
(* The invariant holds: Init, and every step.                              *)

(* The invariant holds on a new file system. *)
LEMMA InitIInv == Init => IInv
<1> SUFFICES ASSUME Init PROVE IInv
  OBVIOUS
<1>1. /\ home \in [Block -> 0..MaxOps] /\ logd \in [1..LOGBLOCKS -> 0..MaxOps]
      /\ cache \in [Block -> 0..MaxOps] /\ op \in [Proc -> 0..MaxOps]
  <2>1. 0 \in 0..MaxOps
    BY Sizing
  <2>2. /\ home = [b \in Block |-> 0] /\ logd = [k \in 1..LOGBLOCKS |-> 0] /\ cache = home
        /\ op = [p \in Proc |-> 0]
    BY DEF Init
  <2> QED
    BY <2>1, <2>2
<1>2. lh \in Header /\ head \in Header
  BY EmptyHeader DEF Init
<1>3. /\ nextop \in 1..MaxOps+1 /\ crashes \in 0..MaxCrashes /\ tail \in 0..LOGBLOCKS+1
      /\ outstanding \in Nat /\ ncommit \in Nat /\ committing \in BOOLEAN
      /\ kernel \in {"up", "panic", "read_head", "install", "erase"}
  <2>1. 0 \in Nat /\ 1 \in 1..MaxOps+1 /\ 0 \in 0..MaxCrashes /\ 0 \in 0..LOGBLOCKS+1
    BY Sizing
  <2>2. /\ nextop = 1 /\ crashes = 0 /\ tail = 0 /\ outstanding = 0 /\ ncommit = 0
        /\ committing = FALSE /\ kernel = "read_head"
    BY DEF Init
  <2> QED
    BY <2>1, <2>2
<1>4. /\ pc \in [Proc -> PCs] /\ wrote \in [Proc -> SUBSET Block] /\ want \in [Proc -> Nat]
      /\ unsaved \subseteq Op /\ owed \in [Proc -> SUBSET Op] /\ pinned \subseteq Block
      /\ chan \subseteq Proc
  BY DEF Init, PCs
<1>5. TypeOK
  BY <1>1, <1>2, <1>3, <1>4 DEF TypeOK
<1>6. InOp = {} /\ CountInv
  <2>1. InOp = {}
    BY DEF Init, InOp
  <2> QED
    BY <2>1, FS_EmptySet DEF CountInv, Init
<1>7. CommitInv
  BY <1>6 DEF Init, CommitInv, Committer, Running
<1>8. WroteInv
  BY FS_EmptySet, Sizing DEF Init, WroteInv, Running
<1>9. UnsavedInv /\ HeadInv /\ CopyInv
  BY DEF Init, UnsavedInv, HeadInv, CopyInv, Running, Installing
<1>10. RecoverInv /\ PinInv /\ SyncInv
  BY DEF Init, RecoverInv, PinInv, SyncInv, Running, Installing
<1>11. SpaceReserved
  <2>1. Cardinality(Reserved) = 0 /\ Len(lh) = 0 /\ kernel # "panic"
    BY ReservedNone, EmptyHeader DEF Init
  <2> QED
    BY <2>1, Sizing DEF SpaceReserved
<1>12. EvictionSafe /\ NoLostWakeup /\ SyncDurable
  BY DEF Init, EvictionSafe, NoLostWakeup, SyncDurable
<1> QED
  BY <1>5, <1>6, <1>7, <1>8, <1>9, <1>10, <1>11, <1>12 DEF IInv

(* Every step keeps the invariant. *)
LEMMA StepIInv == IInv /\ [Next]_vars => IInv'
<1> SUFFICES ASSUME IInv, [Next]_vars PROVE IInv'
  OBVIOUS
<1>1. /\ TypeOK /\ CountInv /\ CommitInv /\ WroteInv /\ UnsavedInv /\ HeadInv /\ CopyInv
      /\ RecoverInv /\ PinInv /\ SyncInv
      /\ SpaceReserved /\ EvictionSafe /\ NoLostWakeup /\ SyncDurable
  BY DEF IInv
<1>2. TypeOK' /\ CountInv' /\ CommitInv' /\ WroteInv' /\ UnsavedInv'
  BY <1>1, StepTypeOK, StepCount, StepCommit, StepWrote, StepUnsaved
<1>3. HeadInv' /\ CopyInv' /\ RecoverInv' /\ PinInv' /\ SyncInv'
  BY <1>1, StepHead, StepCopy, StepRecover, StepPin, StepSync
<1>4. SpaceReserved' /\ EvictionSafe' /\ NoLostWakeup' /\ SyncDurable'
  BY <1>1, StepSpace, StepEviction, StepWakeup, StepDurable
<1> QED
  BY <1>2, <1>3, <1>4 DEF IInv

(* The strengthened invariant holds in every reachable state: kernel/log.c *)
(* counts its operations, one process commits and only when none is in     *)
(* progress, and each phase of commit() and of recovery has written what   *)
(* the next one relies on.                                                 *)
THEOREM Inductive == Spec => []IInv
<1>1. Init => IInv
  BY InitIInv
<1>2. IInv /\ [Next]_vars => IInv'
  BY StepIInv
<1> QED
  BY <1>1, <1>2, PTL DEF Spec

(* The fields of struct log, the disk and the locals have their types, and *)
(* a header never holds a block twice.                                     *)
THEOREM TypeCorrect == Spec => []TypeOK
<1>1. IInv => TypeOK
  BY DEF IInv
<1> QED
  BY <1>1, Inductive, PTL

(* The reservation of begin_op() is enough: log_write() panics only for a  *)
(* block the full log holds already, and end_op() never panics.            *)
THEOREM ReservationHolds == Spec => []SpaceReserved
<1>1. IInv => SpaceReserved
  BY DEF IInv
<1> QED
  BY <1>1, Inductive, PTL

(* bget() may recycle any buffer that is not pinned: log_write() pins what *)
(* it absorbs, and install_trans() writes home before it unpins.           *)
THEOREM PinsProtect == Spec => []EvictionSafe
<1>1. IInv => EvictionSafe
  BY DEF IInv
<1> QED
  BY <1>1, Inductive, PTL

(* begin_op() and sys_sync() never sleep with nothing left to wake them.   *)
THEOREM SleepersWoken == Spec => []NoLostWakeup
<1>1. IInv => NoLostWakeup
  BY DEF IInv
<1> QED
  BY <1>1, Inductive, PTL

(* sys_sync() returns only when the operations that had ended are on the   *)
(* disk: to wait for the next commit is enough.                            *)
THEOREM SyncSaves == Spec => []SyncDurable
<1>1. IInv => SyncDurable
  BY DEF IInv
<1> QED
  BY <1>1, Inductive, PTL

-----------------------------------------------------------------------------
(* Log implements Transactions.                                            *)

(* The disk m with the copies g of the blocks of the header h put home. *)
Merged(h, g, m) == [b \in Block |-> IF \E i \in 1..Len(h) : h[i] = b
                                      THEN g[CHOOSE i \in 1..Len(h) : h[i] = b] ELSE m[b]]

(* What the disk holds, when the blocks of the committed header are X in   *)
(* the log and the other blocks are X at home.                             *)
LEMMA DurableIs ==
  ASSUME NEW h \in Header, NEW g, NEW m, NEW X \in [Block -> 0..MaxOps],
         \A k \in 1..Len(h) : g[k] = X[h[k]],
         \A b \in Block : (\A k \in 1..Len(h) : h[k] # b) => m[b] = X[b]
  PROVE  Merged(h, g, m) = X
<1> DEFINE D(b) == IF \E i \in 1..Len(h) : h[i] = b
                     THEN g[CHOOSE i \in 1..Len(h) : h[i] = b] ELSE m[b]
<1>1. ASSUME NEW b \in Block PROVE D(b) = X[b]
  <2>1. CASE \E i \in 1..Len(h) : h[i] = b
    <3>1. PICK k \in 1..Len(h) : h[k] = b
      BY <2>1
    <3>2. (CHOOSE i \in 1..Len(h) : h[i] = b) = k
      BY <3>1, HeaderPlace
    <3> QED
      BY <2>1, <3>1, <3>2
  <2>2. CASE ~\E i \in 1..Len(h) : h[i] = b
    BY <2>2
  <2> QED
    BY <2>1, <2>2
<1> HIDE DEF D
<1>2. [b \in Block |-> D(b)] = X
  BY <1>1
<1> QED
  BY <1>2 DEF D, Merged

(* What a crash leaves, in these terms. *)
LEMMA DurableMerged ==
  Durable = Merged(head, logd, home) /\ Durable' = Merged(head', logd', home')
  BY DEF Durable, Committed, Merged

(* With an empty header on the disk, the disk is what a crash leaves. *)
LEMMA DurableEmpty == ASSUME TypeOK, head = <<>> PROVE Durable = home
<1>1. \A k \in 1..Len(head) : FALSE
  BY EmptyHeader
<1>2. home \in [Block -> 0..MaxOps]
  BY DEF TypeOK
<1> QED
  BY <1>1, <1>2 DEF Durable, Committed

(* A block that install_trans() writes home was committed already. *)
LEMMA InstallDurable ==
  ASSUME TypeOK, InstallBlock, lh = head, tail \in 1..Len(lh)+1, UNCHANGED <<head, logd>>
  PROVE  Durable' = Durable
<1>1. tail \in 1..Len(head) /\ head[tail] \in Block
  BY LogTyped DEF InstallBlock
<1>2. home' = [home EXCEPT ![head[tail]] = logd[tail]]
  BY DEF InstallBlock
<1>3. \A b \in Block : ~Committed(b) => home'[b] = home[b]
  BY <1>1, <1>2 DEF Committed, TypeOK
<1>4. \A b : Committed(b)' <=> Committed(b)
  BY DEF Committed
<1> QED
  BY <1>3, <1>4 DEF Durable

(* The steps that the file system does not see. *)
LEMMA Unseen ==
  ASSUME UNCHANGED <<home, logd, head, cache, kernel>>, InOp' = InOp
  PROVE  UNCHANGED <<Mem, Durable, InOp>>
  BY DEF Mem, Durable, Committed, Running

(* Recovery changes neither what is durable nor what is seen. *)
LEMMA RecoverUnseen ==
  ASSUME TypeOK, CommitInv, RecoverInv, Recover
  PROVE  UNCHANGED <<Mem, Durable, InOp>>
<1>1. ~Running /\ InOp' = InOp
  BY DEF Recover, ReadHead, RecoverInstall, RecoverErase, Running, InOp
<1>2. CASE ReadHead
  <2>1. Durable' = Durable /\ ~Running'
    BY <1>2 DEF ReadHead, Durable, Committed, Running
  <2> QED
    BY <1>1, <2>1 DEF Mem
<1>3. CASE RecoverInstall
  <2>1. Durable' = Durable
    <3>1. CASE InstallBlock
      BY <1>3, <3>1, InstallDurable DEF RecoverInstall, RecoverInv, Installing
    <3>2. CASE UNCHANGED home
      BY <1>3, <3>2 DEF RecoverInstall, Durable, Committed
    <3> QED
      BY <1>3, <3>1, <3>2 DEF RecoverInstall
  <2>2. ~Running'
    BY <1>3 DEF RecoverInstall, Running
  <2> QED
    BY <1>1, <2>1, <2>2 DEF Mem
<1>4. CASE RecoverErase
  <2>1. /\ UNCHANGED <<home, logd, cache>> /\ head' = <<>> /\ cache = home /\ Running'
        /\ \A k \in 1..Len(head) : logd[k] = home[head[k]]
    BY <1>1, <1>4 DEF RecoverErase, EraseHead, RecoverInv, Running
  <2>2. head \in Header /\ home \in [Block -> 0..MaxOps]
    BY DEF TypeOK
  <2>3. Durable = home
    BY <2>1, <2>2, DurableIs, DurableMerged
  <2>4. Durable' = home
    BY <2>1, <2>2, EmptyHeader, DurableIs, DurableMerged
  <2> QED
    BY <1>1, <2>1, <2>3, <2>4 DEF Mem
<1> QED
  BY <1>2, <1>3, <1>4 DEF Recover

(* Nobody sees the steps of commit() but the write of the header. *)
LEMMA CommitUnseen ==
  ASSUME IInv, NEW p \in Proc,
         CommitTest(p) \/ WriteLog(p) \/ Install(p) \/ Erase(p) \/ EndCommit(p)
  PROVE  UNCHANGED <<Mem, Durable, InOp>>
<1>1. TypeOK /\ CommitInv /\ UnsavedInv /\ HeadInv /\ CopyInv /\ PinInv /\ EvictionSafe
  BY DEF IInv
<1>2. Committer(p)
  BY DEF CommitTest, WriteLog, Install, Erase, EndCommit, Committer
<1>3. Running /\ Running' /\ \A r \in Proc : r # p => ~Committer(r)
  <2>1. kernel' = kernel
    BY DEF CommitTest, WriteLog, Install, Erase, EndCommit
  <2> QED
    BY <1>1, <1>2, <2>1, Alone DEF Running
<1>4. InOp' = InOp
  BY <1>1 DEF InOp, TypeOK, CommitTest, WriteLog, Install, Erase, EndCommit, Goto
<1>5. CASE CommitTest(p) \/ EndCommit(p)
  BY <1>4, <1>5, Unseen DEF CommitTest, EndCommit
<1>6. CASE WriteLog(p)
  <2>1. head = <<>> /\ UNCHANGED <<head, home, cache>>
    BY <1>1, <1>3, <1>6 DEF WriteLog, HeadInv, Committer, Installing
  <2>2. head \in Header /\ home \in [Block -> 0..MaxOps]
    BY <1>1 DEF TypeOK
  <2>3. Durable = home /\ Durable' = home
    BY <2>1, <2>2, EmptyHeader, DurableIs, DurableMerged
  <2> QED
    BY <1>3, <1>4, <2>1, <2>3 DEF Mem
<1>7. CASE Install(p)
  <2>1. cache' = cache
    BY <1>1, <1>7, InstallSame
  <2>2. lh = head /\ tail \in 1..Len(lh)+1 /\ UNCHANGED <<head, logd>>
    BY <1>1, <1>7 DEF Install, HeadInv, UnsavedInv, Installing
  <2>3. Durable' = Durable
    <3>1. CASE InstallBlock
      BY <1>1, <2>2, <3>1, InstallDurable
    <3>2. CASE UNCHANGED home
      BY <2>2, <3>2 DEF Durable, Committed
    <3> QED
      BY <1>7, <3>1, <3>2 DEF Install
  <2> QED
    BY <1>3, <1>4, <2>1, <2>3 DEF Mem
<1>8. CASE Erase(p)
  <2>1. UNCHANGED <<home, logd, cache>> /\ head' = <<>> /\ head = lh /\ pinned = {}
    BY <1>1, <1>8 DEF Erase, EraseHead, HeadInv, PinInv, Installing
  <2>2. head \in Header /\ home \in [Block -> 0..MaxOps] /\ cache \in [Block -> 0..MaxOps]
    BY <1>1 DEF TypeOK
  <2>3. cache = home
    BY <1>1, <2>1, <2>2 DEF EvictionSafe
  <2>4. \A k \in 1..Len(head) : logd[k] = home[head[k]]
    BY <1>1, <1>8, <2>1, <2>3 DEF CopyInv, Erase
  <2>5. Durable = home
    BY <2>2, <2>4, DurableIs, DurableMerged
  <2>6. Durable' = home
    BY <2>1, <2>2, EmptyHeader, DurableIs, DurableMerged
  <2> QED
    BY <1>3, <1>4, <2>1, <2>5, <2>6 DEF Mem
<1> QED
  BY <1>5, <1>6, <1>7, <1>8

(* Writing the header commits what every operation has written. *)
LEMMA WriteHeadCommits ==
  ASSUME IInv, NEW p \in Proc, WriteHead(p)
  PROVE  InOp = {} /\ Durable' = Mem /\ UNCHANGED <<Mem, InOp>>
<1>1. /\ TypeOK /\ CommitInv /\ UnsavedInv /\ CopyInv /\ PinInv /\ EvictionSafe
  BY DEF IInv
<1>2. Running /\ Running' /\ InOp = {} /\ \A r \in Proc : r # p => ~Committer(r)
  <2>1. kernel' = kernel /\ Committer(p)
    BY DEF WriteHead, Committer
  <2> QED
    BY <1>1, <2>1, Alone DEF Running
<1>3. InOp' = InOp
  BY <1>1 DEF InOp, TypeOK, WriteHead, Goto
<1>4. /\ head' = lh /\ UNCHANGED <<home, logd, cache>>
      /\ \A k \in 1..Len(lh) : logd[k] = cache[lh[k]]
  BY <1>1 DEF WriteHead, CopyInv
<1>5. lh \in Header /\ cache \in [Block -> 0..MaxOps]
  BY <1>1 DEF TypeOK
<1>6. ASSUME NEW b \in Block, \A k \in 1..Len(lh) : lh[k] # b PROVE home[b] = cache[b]
  <2>1. pc[p] = "write_head"
    BY DEF WriteHead
  <2>2. b \notin pinned
    BY <1>1, <1>2, <1>6, <2>1 DEF PinInv, Committer, Installing, Logged
  <2> QED
    BY <1>1, <2>2 DEF EvictionSafe
<1>9. \A k \in 1..Len(lh) : logd[k] = cache[lh[k]]
  BY <1>4
<1>10. \A b \in Block : (\A k \in 1..Len(lh) : lh[k] # b) => home[b] = cache[b]
  BY <1>6
<1>7. Merged(lh, logd, home) = cache
  BY <1>5, <1>9, <1>10, DurableIs
<1>8. Durable' = cache
  BY <1>4, <1>7, DurableMerged
<1> QED
  BY <1>2, <1>3, <1>4, <1>8 DEF Mem

(* Every step of Log is a step of Transactions or leaves it alone. *)
LEMMA StepAtomic == IInv /\ [Next]_vars => [T!Next]_<<Mem, Durable, InOp>>
<1> SUFFICES ASSUME IInv, [Next]_vars PROVE [T!Next]_<<Mem, Durable, InOp>>
  OBVIOUS
<1>1. /\ TypeOK /\ CountInv /\ CommitInv /\ WroteInv /\ UnsavedInv /\ RecoverInv /\ PinInv
      /\ SpaceReserved
  BY DEF IInv
<1>2. CASE Recover
  BY <1>1, <1>2, RecoverUnseen
<1>3. CASE Crash
  <2>1. ~Running' /\ Durable' = Durable /\ InOp' = {}
    BY <1>3 DEF Crash, Running, Durable, Committed, InOp
  <2> QED
    BY <2>1 DEF T!Next, T!Crash, Mem
<1>4. ASSUME NEW p \in Proc, EndOp(p) PROVE T!End(p)
  <2>1. ~committing
    BY <1>1, <1>4, InOpCounted DEF EndOp
  <2>2. /\ pc[p] = "op" /\ UNCHANGED <<home, logd, head, cache, kernel>>
        /\ \E l \in {"idle", "commit"} : Goto(p, l)
    BY <1>4, <2>1 DEF EndOp
  <2>3. p \in InOp /\ InOp' = InOp \ {p}
    BY <1>1, <2>2, InOpRemove DEF InOp, TypeOK, Goto
  <2>4. UNCHANGED <<Mem, Durable>>
    BY <2>2 DEF Mem, Durable, Committed, Running
  <2> QED
    BY <2>3, <2>4 DEF T!End
<1>5. ASSUME NEW p \in Proc, CommitTest(p) \/ WriteLog(p) \/ Install(p) \/ Erase(p) \/ EndCommit(p)
      PROVE  UNCHANGED <<Mem, Durable, InOp>>
  BY <1>5, CommitUnseen
<1>6. ASSUME NEW p \in Proc, WriteHead(p) PROVE T!Commit
  BY <1>6, WriteHeadCommits DEF T!Commit
<1>7. ASSUME NEW p \in Proc, BeginOp(p) PROVE T!Begin(p) \/ UNCHANGED <<Mem, Durable, InOp>>
  <2>1. pc[p] = "begin" /\ UNCHANGED <<home, logd, head, cache, kernel>>
    BY <1>7 DEF BeginOp
  <2>2. CASE Goto(p, "op")
    <3>1. p \notin InOp /\ InOp' = InOp \union {p}
      BY <1>1, <2>1, <2>2, InOpAdd DEF InOp, TypeOK, Goto
    <3>2. UNCHANGED <<Mem, Durable>>
      BY <2>1 DEF Mem, Durable, Committed, Running
    <3> QED
      BY <3>1, <3>2 DEF T!Begin
  <2>3. CASE Goto(p, "begin_sleep")
    <3>1. InOp' = InOp
      BY <1>1, <2>1, <2>3, InOpSame DEF TypeOK, Goto
    <3> QED
      BY <2>1, <3>1, Unseen
  <2> QED
    BY <1>7, <2>2, <2>3 DEF BeginOp
<1>8. ASSUME NEW p \in Proc,
             \/ StartOp(p) \/ Woken(p) \/ KilledAwake(p) \/ SyncLoop(p) \/ SyncReturn(p) \/ Sync(p)
      PROVE  UNCHANGED <<Mem, Durable, InOp>>
  <2>1. UNCHANGED <<home, logd, head, cache, kernel>>
    BY <1>8 DEF StartOp, Woken, KilledAwake, SyncLoop, SyncReturn, Sync
  <2>2. pc[p] # "op" /\ \E l \in {"begin", "sync_loop", "sync_sleep", "sync_done", "idle"} : Goto(p, l)
    BY <1>8 DEF StartOp, Woken, KilledAwake, Awake, SyncLoop, SyncReturn, Sync, Goto
  <2>3. InOp' = InOp
    BY <1>1, <2>2, InOpSame DEF TypeOK, Goto
  <2> QED
    BY <2>1, <2>3, Unseen
<1>9. ASSUME NEW p \in Proc, NEW b \in Block, LogWrite(p, b)
      PROVE  \E v \in 0..MaxOps : T!Write(p, b, v)
  <2>1. Running /\ Running'
    BY <1>1, <1>9, LogWriteFacts
  <2>2. /\ pc[p] = "op" /\ cache' = [cache EXCEPT ![b] = op[p]]
        /\ UNCHANGED <<home, logd, head, pc>>
    BY <1>9 DEF LogWrite
  <2>3. op[p] \in 0..MaxOps
    BY <1>1 DEF TypeOK
  <2>4. Durable' = Durable /\ InOp' = InOp /\ p \in InOp /\ Mem = cache /\ Mem' = cache'
    BY <2>1, <2>2 DEF Durable, Committed, InOp, Mem
  <2> QED
    BY <2>2, <2>3, <2>4 DEF T!Write
<1>10. CASE UNCHANGED vars
  <2>1. UNCHANGED <<home, logd, head, cache, kernel>> /\ InOp' = InOp
    BY <1>10 DEF vars, InOp
  <2> QED
    BY <2>1, Unseen
<1> QED
  BY <1>2, <1>3, <1>4, <1>5, <1>6, <1>7, <1>8, <1>9, <1>10 DEF Next, Commit, Wait, T!Next

(* Whatever the interleaving, and whenever the machine stops, what a crash *)
(* leaves is what the file system was at a moment when no operation was in *)
(* progress: the commit point is the write of the header.                  *)
THEOREM CrashesAreAtomic == Spec => CrashAtomic
<1>1. Init => T!Init
  <2> SUFFICES ASSUME Init PROVE Mem = [b \in Block |-> 0] /\ Durable = Mem /\ InOp = {}
    BY DEF T!Init
  <2>1. TypeOK /\ head = <<>> /\ home = [b \in Block |-> 0] /\ ~Running /\ InOp = {}
    BY InitIInv DEF Init, IInv, Running, InOp
  <2> QED
    BY <2>1, DurableEmpty DEF Mem
<1>2. IInv /\ [Next]_vars => [T!Next]_<<Mem, Durable, InOp>>
  BY StepAtomic
<1> QED
  BY <1>1, <1>2, Inductive, PTL DEF Spec, CrashAtomic, T!Spec, T!vars
==============================================================================
