------------------------------ MODULE DiskProofs ------------------------------
(* Theorems about Disk, for every number of processes, blocks, buffers and *)
(* descriptors.                                                            *)
EXTENDS Disk, FiniteSetTheorems, SequenceTheorems, WellFoundedInduction, TLAPS

-----------------------------------------------------------------------------
(* The inductive invariant.                                                *)

Waiting == {"disk", "disk_sleep"}
Writing == {"rw", "desc_sleep"} \union Waiting
Holding == {"have", "written"} \union Writing

(* The parts of TypeOK: the types proper, a block in one buffer, and the   *)
(* counts of references.                                                   *)
Typed ==
  /\ disk \in [Block -> Value]
  /\ avail \subseteq [head : Desc, type : {"in", "out"}, sector : Block, b : Buf]
  /\ used \in Seq(Desc) /\ irq \in BOOLEAN /\ handler \in BOOLEAN
  /\ blockno \in [Buf -> Block \union {None}] /\ valid \subseteq Buf /\ busy \subseteq Buf
  /\ refcnt \in [Buf -> Int] /\ data \in [Buf -> Value] /\ owner \in [Buf -> Proc \union {None}]
  /\ free \subseteq Desc /\ info \in [Desc -> 0..NBUF]
  /\ pinned \subseteq Block
  /\ pc \in [Proc -> PCs] /\ buf \in [Proc -> 0..NBUF] /\ type \in [Proc -> {"in", "out"}]
  /\ idx \in [Proc -> SUBSET Desc] /\ chan \in [Proc -> Chan] /\ kernel \in {"up", "panic"}
LruInv == lru \in [1..NBUF -> Buf] /\ \A k, l \in 1..NBUF : lru[k] = lru[l] => k = l
PinInv == IsFiniteSet(pinned) /\ Cardinality(pinned) <= MaxPinned
OneBuffer == \A b, c \in Buf : blockno[b] = blockno[c] /\ blockno[b] # None => b = c
Users(b) == {p \in Proc : buf[p] = b}
Counted == \A b \in Buf : refcnt[b] = Cardinality(Users(b)) + (IF blockno[b] \in pinned THEN 1 ELSE 0)

(* A buffer in use, valid or pinned holds a block. *)
UserInv ==
  /\ \A p \in Proc : buf[p] = 0 <=> pc[p] = "idle"
  /\ \A p \in Proc : pc[p] # "idle" => blockno[buf[p]] # None
  /\ \A b \in valid : blockno[b] # None
  /\ \A bn \in pinned : \E b \in Buf : blockno[b] = bn

(* The sleep lock of a buffer is had between acquiresleep() and            *)
(* releasesleep().                                                         *)
OwnerInv == \A p \in Proc, b \in Buf : owner[b] = p <=> buf[p] = b /\ pc[p] \in Holding

(* What is read is not valid yet, what is written is. *)
ValidInv == \A p \in Proc :
  /\ pc[p] \in {"have", "written"} => buf[p] \in valid
  /\ pc[p] \in Writing => (type[p] = "out" <=> buf[p] \in valid)
  /\ pc[p] \notin Writing => type[p] = "in"

(* What a process sleeps on. *)
ChanInv == \A p \in Proc : chan[p] # None =>
  /\ pc[p] = "lock_sleep" => chan[p] = LockOf(buf[p])
  /\ pc[p] = "desc_sleep" => chan[p] = FreeDesc
  /\ pc[p] = "disk_sleep" => chan[p] = DiskOf(buf[p])

(* Descriptors are free or belong to one request. *)
DescInv ==
  /\ \A p \in Proc : pc[p] \in Waiting <=> idx[p] # {}
  /\ \A p \in Proc : idx[p] \intersect free = {}
  /\ \A p, r \in Proc : p # r => idx[p] \intersect idx[r] = {}
  /\ free \union UNION {idx[p] : p \in Proc} \in Rings
  /\ \A p \in Proc : pc[p] \in Waiting => info[First(idx[p])] = buf[p]

(* What the device and the used ring have is what processes wait for, once. *)
Request(p) == [head |-> First(idx[p]), type |-> type[p], sector |-> blockno[buf[p]], b |-> buf[p]]
Asks(p) == pc[p] \in Waiting /\ buf[p] \in busy
ReqInv ==
  /\ \A r \in avail : \E p \in Proc : Asks(p) /\ r = Request(p)
  /\ \A k \in 1..Len(used) : \E p \in Proc : Asks(p) /\ used[k] = First(idx[p])
  /\ \A k, l \in 1..Len(used) : used[k] = used[l] => k = l
  /\ \A r \in avail : \A k \in 1..Len(used) : used[k] # r.head
  /\ \A b \in busy : \E p \in Proc : Asks(p) /\ buf[p] = b /\ First(idx[p]) \in Outstanding
IrqInv == used # <<>> => irq \/ handler

(* A valid buffer that is neither pinned nor being written has what the    *)
(* disk has, and so has a buffer whose request is done.                    *)
Clean(b) == data[b] = disk[blockno[b]]
DataInv ==
  /\ \A b \in valid : blockno[b] \notin pinned /\ (\A p \in Proc : buf[p] = b => type[p] = "in")
                        => Clean(b)
  /\ \A p \in Proc : pc[p] = "written" => Clean(buf[p])
  /\ \A p \in Proc : pc[p] \in Waiting /\ (\A r \in avail : r.b # buf[p]) => Clean(buf[p])

(* A sleeper that is not woken yet has something to wait for. *)
SleepInv == \A p \in Proc : chan[p] # None =>
  /\ pc[p] = "lock_sleep" => owner[buf[p]] \notin {None, p}
  /\ pc[p] = "desc_sleep" => ~Enough
  /\ pc[p] = "disk_sleep" => First(idx[p]) \in Outstanding

IInv == /\ Typed /\ LruInv /\ PinInv /\ OneBuffer /\ Counted
        /\ UserInv /\ OwnerInv /\ ValidInv /\ ChanInv /\ DescInv /\ ReqInv /\ IrqInv
        /\ DataInv /\ SleepInv

-----------------------------------------------------------------------------
(* Facts about the constants, the sequences and the sets of the model.     *)

(* The sizes are positive, and None is neither a process nor a block. *)
LEMMA Sizing ==
  /\ NBUF \in Nat \ {0} /\ NUM \in Nat /\ NUM >= 3 /\ MaxPinned \in Nat /\ IsFiniteSet(Proc) /\ Value # {}
  /\ None \notin Proc /\ None \notin Block /\ \A R \in Rings : R \subseteq Desc
  BY DiskAssumption

(* 0 is no buffer. *)
LEMMA Buffers == Buf = (0..NBUF) \ {0} /\ \A b \in Buf : b # 0
  BY Sizing DEF Buf

(* A set of descriptors has a smallest one. *)
LEMMA FirstIn ==
  ASSUME NEW S, S \subseteq Desc, S # {}
  PROVE  First(S) \in S /\ First(S) \in Desc /\ \A e \in S : First(S) <= e
<1>1. S \subseteq Nat
  BY Sizing DEF Desc
<1> DEFINE R == OpToRel(<, Nat)
<1>2. \A x, y \in Nat : <<y, x>> \in R <=> y < x
  BY DEF OpToRel
<1>3. IsWellFoundedOn(R, Nat)
  BY NatLessThanWellFounded
<1> HIDE DEF R
<1>4. PICK x \in S : \A y \in S : ~(<<y, x>> \in R)
  BY <1>1, <1>3, WFMin
<1>6. \A y \in S : x <= y
  <2> TAKE y \in S
  <2>1. x \in Nat /\ y \in Nat
    BY <1>1
  <2>2. ~(y < x)
    BY <1>2, <1>4, <2>1
  <2> QED
    BY <2>1, <2>2
<1>5. First(S) \in S /\ \A e \in S : First(S) <= e
  BY <1>4, <1>6, Zenon DEF First
<1> QED
  BY <1>5

(* alloc3_desc() takes free descriptors. *)
LEMMA ThreeFacts ==
  ASSUME free \subseteq Desc, Enough
  PROVE  Three \subseteq free /\ Three # {} /\ First(Three) \in Three /\ First(Three) \in Desc
<1>1. Three \subseteq free
  BY DEF Three
<1>2. free # {}
  BY FS_EmptySet DEF Enough
<1>3. First(free) \in free /\ \A e \in free : First(free) <= e
  BY <1>2, FirstIn
<1>6. ASSUME NEW e \in free PROVE ~(e < First(free))
  <2>0. First(free) \in free /\ First(free) <= e
    BY <1>3
  <2>3. \A d \in Desc : d \in Int
    BY Sizing DEF Desc
  <2>1. e \in Int /\ First(free) \in Int /\ First(free) <= e
    BY <2>0, <2>3
  <2> QED
    BY <2>1
<1>4. {e \in free : e < First(free)} = {}
  BY <1>6
<1>5. First(free) \in Three
  BY <1>3, <1>4, FS_EmptySet DEF Three
<1> QED
  BY <1>1, <1>5, FirstIn

(* The channels a process waits on after sleep() has returned. *)
LEMMA RetryFacts ==
  /\ DOMAIN Retry = {"lock_sleep", "desc_sleep", "disk_sleep"}
  /\ Retry["lock_sleep"] = "lock" /\ Retry["desc_sleep"] = "rw" /\ Retry["disk_sleep"] = "disk"
  BY DEF Retry

(* The used ring when the device appends, and when the handler takes. *)
LEMMA AppendFacts ==
  ASSUME NEW s \in Seq(Desc), NEW d \in Desc
  PROVE  /\ Append(s, d) \in Seq(Desc) /\ Len(Append(s, d)) = Len(s) + 1 /\ Append(s, d) # <<>>
         /\ \A k \in 1..Len(s) : Append(s, d)[k] = s[k]
         /\ Append(s, d)[Len(s) + 1] = d
  OBVIOUS

LEMMA TailFacts ==
  ASSUME NEW s \in Seq(Desc), s # <<>>
  PROVE  /\ Head(s) = s[1] /\ Head(s) \in Desc /\ Tail(s) \in Seq(Desc) /\ Len(s) \in Nat \ {0}
         /\ Len(Tail(s)) = Len(s) - 1 /\ \A k \in 1..Len(Tail(s)) : Tail(s)[k] = s[k + 1]
<1>1. Len(s) \in Nat \ {0}
  BY EmptySeq
<1> QED
  BY <1>1, HeadTailProperties

(* A list of distinct descriptors is no longer than the ring. *)
LEMMA ShortList ==
  ASSUME NEW s \in Seq(Desc), \A k, l \in 1..Len(s) : s[k] = s[l] => k = l
  PROVE  Len(s) <= NUM
<1>1. Len(s) \in Nat /\ s \in [1..Len(s) -> Desc]
  BY LenProperties
<1>2. IsFiniteSet(1..Len(s)) /\ Cardinality(1..Len(s)) = Len(s)
  BY <1>1, FS_Interval, SMTT(30)
<1>3. IsFiniteSet(Desc) /\ Cardinality(Desc) = NUM
  BY Sizing, FS_Interval DEF Desc
<1>4. ~(Cardinality(Desc) < Cardinality(1..Len(s)))
  BY <1>1, <1>2, <1>3, FS_PigeonHole
<1> QED
  BY <1>1, <1>2, <1>3, <1>4, Sizing

(* The users of a buffer are finitely many. *)
LEMMA UsersFinite ==
  ASSUME NEW b
  PROVE  /\ IsFiniteSet(Users(b)) /\ Cardinality(Users(b)) \in Nat
         /\ Cardinality(Users(b)) <= Cardinality(Proc) /\ Cardinality(Proc) \in Nat
         /\ Cardinality(Users(b)) = 0 <=> Users(b) = {}
<1>1. IsFiniteSet(Users(b)) /\ Cardinality(Users(b)) <= Cardinality(Proc)
  BY Sizing, FS_Subset DEF Users
<1> QED
  BY <1>1, Sizing, FS_CardinalityType, FS_EmptySet

(* bget() adds a user. *)
LEMMA UserEnters ==
  ASSUME Typed, NEW p \in Proc, buf[p] = 0, NEW b \in Buf, buf' = [buf EXCEPT ![p] = b]
  PROVE  /\ Cardinality(Users(b)') = Cardinality(Users(b)) + 1
         /\ \A c \in Buf : c # b => Users(c)' = Users(c)
<1>1. buf \in [Proc -> 0..NBUF] /\ \A c \in Buf : c # 0
  BY Buffers DEF Typed
<1>2. Users(b)' = Users(b) \union {p} /\ p \notin Users(b)
  BY <1>1 DEF Users
<1>3. Cardinality(Users(b) \union {p}) = Cardinality(Users(b)) + 1
  BY <1>2, UsersFinite, FS_AddElement
<1>4. \A c \in Buf : c # b => Users(c)' = Users(c)
  BY <1>1 DEF Users
<1> QED
  BY <1>2, <1>3, <1>4

(* brelse() removes one. *)
LEMMA UserLeaves ==
  ASSUME Typed, NEW p \in Proc, NEW b \in Buf, buf[p] = b, buf' = [buf EXCEPT ![p] = 0]
  PROVE  /\ Cardinality(Users(b)') = Cardinality(Users(b)) - 1
         /\ \A c \in Buf : c # b => Users(c)' = Users(c)
<1>1. buf \in [Proc -> 0..NBUF] /\ \A c \in Buf : c # 0
  BY Buffers DEF Typed
<1>2. Users(b)' = Users(b) \ {p} /\ p \in Users(b)
  BY <1>1 DEF Users
<1>3. Cardinality(Users(b) \ {p}) = Cardinality(Users(b)) - 1
  BY <1>2, UsersFinite, FS_RemoveElement
<1>4. \A c \in Buf : c # b => Users(c)' = Users(c)
  BY <1>1 DEF Users
<1> QED
  BY <1>2, <1>3, <1>4

(* A process outside of bget() has a buffer with a block. *)
LEMMA HasBuffer ==
  ASSUME Typed, UserInv, NEW p \in Proc, pc[p] # "idle"
  PROVE  buf[p] \in Buf /\ blockno[buf[p]] \in Block /\ blockno[buf[p]] # None
<1>1. buf[p] \in Buf
  BY Buffers DEF Typed, UserInv
<1> QED
  BY <1>1 DEF Typed, UserInv

(* bget() recycles a buffer without users whose block is not pinned. *)
LEMMA UnusedFacts ==
  ASSUME Typed, Counted, NEW b \in Buf, refcnt[b] = 0
  PROVE  blockno[b] \notin pinned /\ Cardinality(Users(b)) = 0 /\ \A p \in Proc : buf[p] # b
<1>1. Cardinality(Users(b)) \in Nat /\ refcnt[b] = Cardinality(Users(b)) + (IF blockno[b] \in pinned THEN 1 ELSE 0)
  BY UsersFinite DEF Counted
<1>2. blockno[b] \notin pinned /\ Cardinality(Users(b)) = 0
  BY <1>1
<1>3. Users(b) = {}
  BY <1>2, UsersFinite
<1> QED
  BY <1>2, <1>3 DEF Users

(* Who is between acquiresleep() and releasesleep() has the buffer alone. *)
LEMMA HoldsAlone ==
  ASSUME Typed, UserInv, OwnerInv, NEW p \in Proc, pc[p] \in Holding, NEW r \in Proc,
         pc[r] \in Holding, blockno[buf[r]] = blockno[buf[p]] \/ buf[r] = buf[p], OneBuffer
  PROVE  r = p
<1>1. buf[p] \in Buf /\ buf[r] \in Buf /\ blockno[buf[p]] # None
  BY HasBuffer DEF Holding, Writing, Waiting
<1>2. buf[r] = buf[p]
  BY <1>1 DEF OneBuffer
<1>3. owner[buf[p]] = p /\ owner[buf[r]] = r
  BY <1>1 DEF OwnerInv
<1> QED
  BY <1>2, <1>3

(* sleep() returns to the loop it was called from. *)
LEMMA Returns ==
  ASSUME NEW p \in Proc, Woken(p) \/ KilledAwake(p)
  PROVE  /\ \/ pc[p] = "lock_sleep" /\ pc' = [pc EXCEPT ![p] = "lock"]
            \/ pc[p] = "desc_sleep" /\ pc' = [pc EXCEPT ![p] = "rw"]
            \/ pc[p] = "disk_sleep" /\ pc' = [pc EXCEPT ![p] = "disk"]
         /\ UNCHANGED <<disk, avail, used, irq, blockno, valid, refcnt, data, owner, lru, free, info,
                        busy, handler, pinned, buf, type, idx, chan, kernel>>
<1>1. pc[p] \in DOMAIN Retry /\ pc' = [pc EXCEPT ![p] = Retry[pc[p]]]
  BY DEF Woken, KilledAwake, Goto
<1>2. UNCHANGED <<disk, avail, used, irq, blockno, valid, refcnt, data, owner, lru, free, info,
                  busy, handler, pinned, buf, type, idx, chan, kernel>>
  BY DEF Woken, KilledAwake, device, cache, driver
<1>3. \/ pc[p] = "lock_sleep" /\ pc' = [pc EXCEPT ![p] = "lock"]
      \/ pc[p] = "desc_sleep" /\ pc' = [pc EXCEPT ![p] = "rw"]
      \/ pc[p] = "disk_sleep" /\ pc' = [pc EXCEPT ![p] = "disk"]
  BY <1>1, RetryFacts
<1> QED
  BY <1>2, <1>3

(* Moving a buffer to the front leaves the list a list of the buffers. *)
LEMMA MovedToFront ==
  ASSUME LruInv, NEW b \in Buf, lru' = ToFront(b)
  PROVE  LruInv'
<1> USE DEF LruInv
<1> DEFINE Before(k) == \E l \in k..NBUF : lru[l] = b
<1>1. NBUF \in Nat \ {0}
  BY Sizing
<1>2. /\ lru'[1] = b
      /\ \A k \in 1..NBUF : k # 1 => lru'[k] = IF Before(k) THEN lru[k - 1] ELSE lru[k]
  BY <1>1 DEF ToFront
<1>3. lru' \in [1..NBUF -> Buf]
  <2>1. \A k \in 1..NBUF : k # 1 => k - 1 \in 1..NBUF
    BY <1>1
  <2>2. \A k \in 1..NBUF : (IF k = 1 THEN b ELSE IF Before(k) THEN lru[k - 1] ELSE lru[k]) \in Buf
    BY <2>1
  <2> QED
    BY <2>2 DEF ToFront
<1>4. ASSUME NEW k \in 1..NBUF, k # 1 PROVE lru'[k] # b
  <2>1. CASE Before(k)
    <3>1. PICK l \in k..NBUF : lru[l] = b
      BY <2>1
    <3>2. k - 1 \in 1..NBUF /\ l \in 1..NBUF /\ l # k - 1
      BY <1>1, <1>4, <3>1
    <3> QED
      BY <1>2, <1>4, <2>1, <3>1, <3>2
  <2>2. CASE ~Before(k)
    <3>1. k \in k..NBUF
      BY <1>1
    <3> QED
      BY <1>2, <1>4, <2>2, <3>1
  <2> QED
    BY <2>1, <2>2
<1>5. ASSUME NEW k \in 1..NBUF, NEW m \in 1..NBUF, k # 1, k < m, lru'[k] = lru'[m] PROVE FALSE
  <2>1. m # 1 /\ k - 1 \in 1..NBUF /\ m - 1 \in 1..NBUF /\ k # m /\ k # m - 1 + 1
    BY <1>1, <1>5
  <2>2. Before(m) => Before(k)
    BY <1>1, <1>5
  <2>3. CASE Before(m)
    BY <1>2, <1>5, <2>1, <2>2, <2>3
  <2>4. CASE ~Before(m) /\ ~Before(k)
    BY <1>2, <1>5, <2>1, <2>4
  <2>5. CASE ~Before(m) /\ Before(k)
    <3>1. k - 1 # m
      BY <1>1, <1>5
    <3> QED
      BY <1>2, <1>5, <2>1, <2>5, <3>1
  <2> QED
    BY <2>2, <2>3, <2>4, <2>5
<1>6. \A k, m \in 1..NBUF : lru'[k] = lru'[m] => k = m
  <2> TAKE k, m \in 1..NBUF
  <2> HAVE lru'[k] = lru'[m]
  <2>1. CASE k = 1 \/ m = 1
    BY <1>2, <1>4, <2>1
  <2>2. CASE k # 1 /\ m # 1
    <3>1. ~(k < m) /\ ~(m < k)
      BY <1>5, <2>2
    <3> QED
      BY <1>1, <3>1
  <2> QED
    BY <2>1, <2>2
<1> QED
  BY <1>3, <1>6

(* A step that leaves the users and the pins alone leaves them counted. *)
LEMMA CountedSame ==
  ASSUME Counted, UNCHANGED <<buf, refcnt, blockno, pinned>>
  PROVE  Counted'
  BY DEF Counted, Users

(* A step that leaves the descriptors and the waiting processes alone. *)
LEMMA DescSame ==
  ASSUME DescInv, UNCHANGED <<idx, free, info>>,
         \A r \in Proc : pc'[r] \in Waiting <=> pc[r] \in Waiting,
         \A r \in Proc : pc[r] \in Waiting => buf'[r] = buf[r]
  PROVE  DescInv'
  BY DEF DescInv

(* A step that leaves the requests alone and those who wait for them. *)
LEMMA ReqSame ==
  ASSUME ReqInv, UNCHANGED <<avail, used, busy>>,
         \A r \in Proc : pc[r] \in Waiting /\ buf[r] \in busy =>
            /\ pc'[r] \in Waiting /\ buf'[r] = buf[r] /\ idx'[r] = idx[r] /\ type'[r] = type[r]
            /\ blockno'[buf[r]] = blockno[buf[r]]
  PROVE  ReqInv'
<1>1. Outstanding' = Outstanding
  BY DEF Outstanding
<1>2. \A r \in Proc : Asks(r) => Asks(r)' /\ Request(r)' = Request(r) /\ idx'[r] = idx[r] /\ buf'[r] = buf[r]
  BY DEF Asks, Request
<1>3. \A r \in avail' : \E p \in Proc : Asks(p)' /\ r = Request(p)'
  BY <1>2 DEF ReqInv
<1>4. \A k \in 1..Len(used') : \E p \in Proc : Asks(p)' /\ used'[k] = First(idx'[p])
  BY <1>2 DEF ReqInv
<1>5. \A b \in busy' : \E p \in Proc : Asks(p)' /\ buf'[p] = b /\ First(idx'[p]) \in Outstanding'
  BY <1>1, <1>2 DEF ReqInv
<1> QED
  BY <1>3, <1>4, <1>5 DEF ReqInv

(* The device moves a request to the used ring, the handler takes one out. *)
LEMMA DoneOutstanding ==
  ASSUME used \in Seq(Desc), NEW r \in avail, r.head \in Desc, avail' = avail \ {r},
         used' = Append(used, r.head)
  PROVE  Outstanding \subseteq Outstanding'
<1>1. /\ Len(used') = Len(used) + 1 /\ Len(used) \in Nat /\ used'[Len(used) + 1] = r.head
      /\ \A k \in 1..Len(used) : used'[k] = used[k]
  BY AppendFacts
<1>2. \A o \in avail : o.head \in Outstanding'
  <2>1. Len(used) + 1 \in 1..Len(used')
    BY <1>1
  <2> QED
    BY <1>1, <2>1 DEF Outstanding
<1>3. \A k \in 1..Len(used) : used[k] \in Outstanding'
  <2>1. \A k \in 1..Len(used) : k \in 1..Len(used')
    BY <1>1
  <2> QED
    BY <1>1, <2>1 DEF Outstanding
<1> QED
  BY <1>2, <1>3 DEF Outstanding

LEMMA TakenOutstanding ==
  ASSUME used \in Seq(Desc), used # <<>>, used' = Tail(used), avail' = avail
  PROVE  \A d \in Outstanding : d = used[1] \/ d \in Outstanding'
<1>1. /\ Len(used) \in Nat \ {0} /\ Len(used') = Len(used) - 1
      /\ \A k \in 1..Len(used') : used'[k] = used[k + 1]
  BY TailFacts
<1>2. \A k \in 1..Len(used) : k = 1 \/ (k - 1 \in 1..Len(used') /\ used'[k - 1] = used[k])
  <2> TAKE k \in 1..Len(used)
  <2> SUFFICES ASSUME k # 1 PROVE k - 1 \in 1..Len(used') /\ used'[k - 1] = used[k]
    OBVIOUS
  <2>1. k - 1 \in 1..Len(used') /\ k - 1 + 1 = k
    BY <1>1
  <2> QED
    BY <1>1, <2>1
<1> QED
  BY <1>2 DEF Outstanding

(* A step that leaves alone the data, the disk and the blocks of the buffers, *)
(* and neither unpins a block, ends a request nor makes a buffer valid.     *)
LEMMA DataSame ==
  ASSUME DataInv, UNCHANGED <<disk, data, blockno>>, valid' \subseteq valid,
         pinned \subseteq pinned', avail \subseteq avail',
         \A r \in Proc : pc'[r] = "written" => pc[r] = "written" /\ buf'[r] = buf[r],
         \A r \in Proc : pc'[r] \in Waiting /\ (\A o \in avail' : o.b # buf'[r]) =>
                           pc[r] \in Waiting /\ buf'[r] = buf[r],
         \A r \in Proc, b \in valid : buf[r] = b /\ type[r] = "out" => buf'[r] = b /\ type'[r] = "out",
         type \in [Proc -> {"in", "out"}]
  PROVE  DataInv'
<1>1. \A b : (data'[b] = disk'[blockno'[b]]) <=> Clean(b)
  BY DEF Clean
<1>2. \A b \in valid' : blockno'[b] \notin pinned' /\ (\A r \in Proc : buf'[r] = b => type'[r] = "in")
                          => data'[b] = disk'[blockno'[b]]
  <2> TAKE b \in valid'
  <2> HAVE blockno'[b] \notin pinned' /\ (\A r \in Proc : buf'[r] = b => type'[r] = "in")
  <2>1. \A r \in Proc : buf[r] = b => type[r] = "in"
    OBVIOUS
  <2> QED
    BY <1>1, <2>1 DEF DataInv
<1>3. \A r \in Proc : pc'[r] = "written" => data'[buf'[r]] = disk'[blockno'[buf'[r]]]
  BY <1>1 DEF DataInv
<1>4. \A r \in Proc : pc'[r] \in Waiting /\ (\A o \in avail' : o.b # buf'[r])
                        => data'[buf'[r]] = disk'[blockno'[buf'[r]]]
  BY <1>1 DEF DataInv
<1> QED
  BY <1>2, <1>3, <1>4 DEF DataInv, Clean

(* What wakeup() and sleep_prepare() take is a channel. *)
LEMMA Channels ==
  FreeDesc \in Chan /\ None \in Chan /\ \A b \in Buf : LockOf(b) \in Chan /\ DiskOf(b) \in Chan
  BY DEF Chan, LockOf, DiskOf, FreeDesc

-----------------------------------------------------------------------------
(* Each part of the invariant is preserved by every step.                  *)

(* bget() recycles a buffer for a block only when no buffer has it. *)
LEMMA StepOneBuffer == Typed /\ OneBuffer /\ [Next]_vars => OneBuffer'
<1> SUFFICES ASSUME Typed, OneBuffer, [Next]_vars
             PROVE  OneBuffer'
  OBVIOUS
<1>0. /\ blockno \in [Buf -> Block \union {None}]
  BY DEF Typed
<1> USE <1>0 DEF OneBuffer, Up, Goto, Wakeup, device, cache, driver
<1>1. ASSUME NEW p \in Proc, NEW bn \in Block, BgetHit(p, bn) PROVE OneBuffer'
  BY <1>1 DEF BgetHit
<1>2. ASSUME NEW p \in Proc, NEW bn \in Block, BgetRecycle(p, bn) PROVE OneBuffer'
  <2>1. PICK b \in Buf : blockno' = [blockno EXCEPT ![b] = bn]
    BY <1>2 DEF BgetRecycle
  <2>2. \A c \in Buf : blockno[c] # bn
    BY <1>2 DEF BgetRecycle, Cached
  <2> QED
    BY <2>1, <2>2
<1>3. ASSUME NEW p \in Proc, NEW bn \in Block, BgetPanic(p, bn) PROVE OneBuffer'
  BY <1>3 DEF BgetPanic
<1>4. ASSUME NEW p \in Proc, AcquireSleep(p) PROVE OneBuffer'
  BY <1>4 DEF AcquireSleep
<1>5. ASSUME NEW p \in Proc, LogWrite(p) PROVE OneBuffer'
  BY <1>5 DEF LogWrite, Pin
<1>6. ASSUME NEW p \in Proc, WriteNow(p) PROVE OneBuffer'
  BY <1>6 DEF WriteNow
<1>7. ASSUME NEW p \in Proc, WriteHome(p) PROVE OneBuffer'
  BY <1>7 DEF WriteHome
<1>8. ASSUME NEW p \in Proc, Unpin(p) PROVE OneBuffer'
  BY <1>8 DEF Unpin
<1>9. ASSUME NEW p \in Proc, ReleaseSleep(p) PROVE OneBuffer'
  BY <1>9 DEF ReleaseSleep
<1>10. ASSUME NEW p \in Proc, Brelse(p) PROVE OneBuffer'
  BY <1>10 DEF Brelse
<1>11. ASSUME NEW p \in Proc, Submit(p) PROVE OneBuffer'
  BY <1>11 DEF Submit
<1>12. ASSUME NEW p \in Proc, NoDesc(p) PROVE OneBuffer'
  BY <1>12 DEF NoDesc
<1>13. ASSUME NEW p \in Proc, Wait(p) PROVE OneBuffer'
  BY <1>13 DEF Wait, StillBusy
<1>14. ASSUME NEW p \in Proc, Woken(p) PROVE OneBuffer'
  BY <1>14, Returns
<1>15. ASSUME NEW p \in Proc, KilledAwake(p) PROVE OneBuffer'
  BY <1>15, Returns
<1>16. CASE Device
  BY <1>16 DEF Device
<1>17. CASE Intr
  BY <1>17 DEF Intr
<1>18. CASE IntrUsed
  BY <1>18 DEF IntrUsed
<1>19. CASE IntrEnd
  BY <1>19 DEF IntrEnd, Drained
<1>20. CASE Halted
  BY <1>20 DEF Halted, vars
<1>21. CASE UNCHANGED vars
  BY <1>21 DEF vars
<1> QED
  BY <1>1, <1>2, <1>3, <1>4, <1>5, <1>6, <1>7, <1>8, <1>9, <1>10, <1>11, <1>12,
     <1>13, <1>14, <1>15, <1>16, <1>17, <1>18, <1>19, <1>20, <1>21 DEF Next, Bread,
     User, Rest, Rw, Handler

(* A buffer in use or pinned is not recycled. *)
LEMMA StepUser == Typed /\ UserInv /\ OneBuffer /\ Counted /\ [Next]_vars => UserInv'
<1> SUFFICES ASSUME Typed, UserInv, OneBuffer, Counted, [Next]_vars
             PROVE  UserInv'
  OBVIOUS
<1>0. /\ pc \in [Proc -> PCs]
      /\ buf \in [Proc -> 0..NBUF]
      /\ blockno \in [Buf -> Block \union {None}]
      /\ valid \subseteq Buf
      /\ pinned \subseteq Block
  BY DEF Typed
<1> USE <1>0, Buffers DEF UserInv, Up, Goto, Wakeup, device, cache, driver
<1>1. ASSUME NEW p \in Proc, NEW bn \in Block, BgetHit(p, bn) PROVE UserInv'
  <2>1. PICK b \in Buf : blockno[b] = bn /\ buf' = [buf EXCEPT ![p] = b]
    BY <1>1 DEF BgetHit, Cached
  <2>2. pc' = [pc EXCEPT ![p] = "lock"] /\ UNCHANGED <<blockno, valid, pinned>> /\ bn # None
    BY <1>1, Sizing DEF BgetHit
  <2> QED
    BY <2>1, <2>2
<1>2. ASSUME NEW p \in Proc, NEW bn \in Block, BgetRecycle(p, bn) PROVE UserInv'
  <2>1. PICK b \in Buf : /\ refcnt[b] = 0 /\ blockno' = [blockno EXCEPT ![b] = bn]
                         /\ valid' = valid \ {b} /\ buf' = [buf EXCEPT ![p] = b]
    BY <1>2 DEF BgetRecycle, Victim, Unused
  <2>2. pc' = [pc EXCEPT ![p] = "lock"] /\ UNCHANGED pinned /\ bn # None
    BY <1>2, Sizing DEF BgetRecycle
  <2>3. blockno[b] \notin pinned /\ \A r \in Proc : buf[r] # b
    BY <2>1, UnusedFacts
  <2> QED
    BY <2>1, <2>2, <2>3
<1>3. ASSUME NEW p \in Proc, NEW bn \in Block, BgetPanic(p, bn) PROVE UserInv'
  BY <1>3 DEF BgetPanic
<1>4. ASSUME NEW p \in Proc, AcquireSleep(p) PROVE UserInv'
  <2>1. UNCHANGED <<buf, blockno, valid, pinned>> /\ pc[p] = "lock"
    BY <1>4 DEF AcquireSleep
  <2>2. \E l \in {"lock_sleep", "have", "rw"} : pc' = [pc EXCEPT ![p] = l]
    BY <1>4 DEF AcquireSleep
  <2>3. \A r \in Proc : pc'[r] = "idle" <=> pc[r] = "idle"
    BY <2>1, <2>2
  <2> QED
    BY <2>1, <2>3
<1>5. ASSUME NEW p \in Proc, LogWrite(p) PROVE UserInv'
  BY <1>5 DEF LogWrite, Pin
<1>6. ASSUME NEW p \in Proc, WriteNow(p) PROVE UserInv'
  BY <1>6 DEF WriteNow
<1>7. ASSUME NEW p \in Proc, WriteHome(p) PROVE UserInv'
  BY <1>7 DEF WriteHome
<1>8. ASSUME NEW p \in Proc, Unpin(p) PROVE UserInv'
  BY <1>8 DEF Unpin
<1>9. ASSUME NEW p \in Proc, ReleaseSleep(p) PROVE UserInv'
  BY <1>9 DEF ReleaseSleep
<1>10. ASSUME NEW p \in Proc, Brelse(p) PROVE UserInv'
  BY <1>10 DEF Brelse
<1>11. ASSUME NEW p \in Proc, Submit(p) PROVE UserInv'
  BY <1>11 DEF Submit
<1>12. ASSUME NEW p \in Proc, NoDesc(p) PROVE UserInv'
  BY <1>12 DEF NoDesc
<1>13. ASSUME NEW p \in Proc, Wait(p) PROVE UserInv'
  <2>1. /\ UNCHANGED <<buf, blockno, pinned>> /\ (valid' = valid \/ valid' = valid \union {buf[p]})
        /\ \E l \in {"disk_sleep", "have", "written"} : pc' = [pc EXCEPT ![p] = l]
    BY <1>13 DEF Wait
  <2>2. pc[p] = "disk" /\ buf[p] \in Buf /\ blockno[buf[p]] # None
    BY <1>13, HasBuffer DEF Wait
  <2>3. \A r \in Proc : pc'[r] = "idle" <=> pc[r] = "idle"
    BY <2>1, <2>2
  <2> QED
    BY <2>1, <2>2, <2>3
<1>14. ASSUME NEW p \in Proc, Woken(p) PROVE UserInv'
  <2>1. (\A r \in Proc : pc'[r] = "idle" <=> pc[r] = "idle") /\ UNCHANGED <<buf, blockno, valid, pinned>>
    BY <1>14, Returns
  <2> QED
    BY <2>1
<1>15. ASSUME NEW p \in Proc, KilledAwake(p) PROVE UserInv'
  <2>1. (\A r \in Proc : pc'[r] = "idle" <=> pc[r] = "idle") /\ UNCHANGED <<buf, blockno, valid, pinned>>
    BY <1>15, Returns
  <2> QED
    BY <2>1
<1>16. CASE Device
  BY <1>16 DEF Device
<1>17. CASE Intr
  BY <1>17 DEF Intr
<1>18. CASE IntrUsed
  BY <1>18 DEF IntrUsed
<1>19. CASE IntrEnd
  BY <1>19 DEF IntrEnd, Drained
<1>20. CASE Halted
  BY <1>20 DEF Halted, vars
<1>21. CASE UNCHANGED vars
  BY <1>21 DEF vars
<1> QED
  BY <1>1, <1>2, <1>3, <1>4, <1>5, <1>6, <1>7, <1>8, <1>9, <1>10, <1>11, <1>12,
     <1>13, <1>14, <1>15, <1>16, <1>17, <1>18, <1>19, <1>20, <1>21 DEF Next, Bread,
     User, Rest, Rw, Handler

(* acquiresleep() and releasesleep() bracket every use of a buffer. *)
LEMMA StepOwner == Typed /\ UserInv /\ OwnerInv /\ [Next]_vars => OwnerInv'
<1> SUFFICES ASSUME Typed, UserInv, OwnerInv, [Next]_vars
             PROVE  OwnerInv'
  OBVIOUS
<1>0. /\ pc \in [Proc -> PCs]
      /\ buf \in [Proc -> 0..NBUF]
      /\ owner \in [Buf -> Proc \union {None}]
  BY DEF Typed
<1> USE <1>0 DEF OwnerInv, Holding, Writing, Waiting, Up, Goto, Wakeup, device, cache,
    driver
<1>1. ASSUME NEW p \in Proc, NEW bn \in Block, BgetHit(p, bn) PROVE OwnerInv'
  BY <1>1, Buffers DEF BgetHit, UserInv, Cached
<1>2. ASSUME NEW p \in Proc, NEW bn \in Block, BgetRecycle(p, bn) PROVE OwnerInv'
  BY <1>2 DEF BgetRecycle, Victim, Unused
<1>3. ASSUME NEW p \in Proc, NEW bn \in Block, BgetPanic(p, bn) PROVE OwnerInv'
  BY <1>3 DEF BgetPanic
<1>4. ASSUME NEW p \in Proc, AcquireSleep(p) PROVE OwnerInv'
  <2>1. pc[p] = "lock" /\ buf[p] \in Buf /\ p # None
    BY <1>4, HasBuffer, Sizing DEF AcquireSleep
  <2>2. /\ UNCHANGED buf
        /\ \/ owner' = owner /\ pc' = [pc EXCEPT ![p] = "lock_sleep"]
           \/ /\ owner[buf[p]] = None /\ owner' = [owner EXCEPT ![buf[p]] = p]
              /\ \E l \in {"have", "rw"} : pc' = [pc EXCEPT ![p] = l]
    BY <1>4 DEF AcquireSleep
  <2> QED
    BY <2>1, <2>2, Sizing
<1>5. ASSUME NEW p \in Proc, LogWrite(p) PROVE OwnerInv'
  BY <1>5 DEF LogWrite, Pin
<1>6. ASSUME NEW p \in Proc, WriteNow(p) PROVE OwnerInv'
  BY <1>6 DEF WriteNow
<1>7. ASSUME NEW p \in Proc, WriteHome(p) PROVE OwnerInv'
  BY <1>7 DEF WriteHome
<1>8. ASSUME NEW p \in Proc, Unpin(p) PROVE OwnerInv'
  BY <1>8 DEF Unpin
<1>9. ASSUME NEW p \in Proc, ReleaseSleep(p) PROVE OwnerInv'
  <2>1. pc[p] = "have" /\ buf[p] \in Buf /\ owner[buf[p]] = p
    BY <1>9, HasBuffer DEF ReleaseSleep
  <2>2. UNCHANGED buf /\ owner' = [owner EXCEPT ![buf[p]] = None] /\ pc' = [pc EXCEPT ![p] = "release"]
    BY <1>9 DEF ReleaseSleep
  <2> QED
    BY <2>1, <2>2, Sizing
<1>10. ASSUME NEW p \in Proc, Brelse(p) PROVE OwnerInv'
  BY <1>10 DEF Brelse
<1>11. ASSUME NEW p \in Proc, Submit(p) PROVE OwnerInv'
  BY <1>11 DEF Submit
<1>12. ASSUME NEW p \in Proc, NoDesc(p) PROVE OwnerInv'
  BY <1>12 DEF NoDesc
<1>13. ASSUME NEW p \in Proc, Wait(p) PROVE OwnerInv'
  <2>1. /\ UNCHANGED <<buf, owner>> /\ pc[p] = "disk"
        /\ \E l \in {"disk_sleep", "have", "written"} : pc' = [pc EXCEPT ![p] = l]
    BY <1>13 DEF Wait
  <2> QED
    BY <2>1
<1>14. ASSUME NEW p \in Proc, Woken(p) PROVE OwnerInv'
  BY <1>14, Returns
<1>15. ASSUME NEW p \in Proc, KilledAwake(p) PROVE OwnerInv'
  BY <1>15, Returns
<1>16. CASE Device
  BY <1>16 DEF Device
<1>17. CASE Intr
  BY <1>17 DEF Intr
<1>18. CASE IntrUsed
  BY <1>18 DEF IntrUsed
<1>19. CASE IntrEnd
  BY <1>19 DEF IntrEnd, Drained
<1>20. CASE Halted
  BY <1>20 DEF Halted, vars
<1>21. CASE UNCHANGED vars
  BY <1>21 DEF vars
<1> QED
  BY <1>1, <1>2, <1>3, <1>4, <1>5, <1>6, <1>7, <1>8, <1>9, <1>10, <1>11, <1>12,
     <1>13, <1>14, <1>15, <1>16, <1>17, <1>18, <1>19, <1>20, <1>21 DEF Next, Bread,
     User, Rest, Rw, Handler

(* b->valid is what bread() and virtio_disk_rw() take it for. *)
LEMMA StepValid ==
  Typed /\ UserInv /\ OwnerInv /\ OneBuffer /\ Counted /\ ValidInv /\ [Next]_vars
  => ValidInv'
<1> SUFFICES ASSUME Typed, UserInv, OwnerInv, OneBuffer, Counted, ValidInv,
                    [Next]_vars
             PROVE  ValidInv'
  OBVIOUS
<1>0. /\ pc \in [Proc -> PCs]
      /\ buf \in [Proc -> 0..NBUF]
      /\ type \in [Proc -> {"in", "out"}]
      /\ valid \subseteq Buf
  BY DEF Typed
<1> USE <1>0 DEF ValidInv, Writing, Waiting, Up, Goto, Wakeup, device, cache, driver
<1>1. ASSUME NEW p \in Proc, NEW bn \in Block, BgetHit(p, bn) PROVE ValidInv'
  BY <1>1 DEF BgetHit
<1>2. ASSUME NEW p \in Proc, NEW bn \in Block, BgetRecycle(p, bn) PROVE ValidInv'
  <2>1. PICK b \in Buf : /\ refcnt[b] = 0 /\ valid' = valid \ {b} /\ buf' = [buf EXCEPT ![p] = b]
    BY <1>2 DEF BgetRecycle, Victim, Unused
  <2>2. pc' = [pc EXCEPT ![p] = "lock"] /\ UNCHANGED type /\ pc[p] = "idle"
    BY <1>2 DEF BgetRecycle
  <2>3. \A r \in Proc : buf[r] # b
    BY <2>1, UnusedFacts
  <2> QED
    BY <2>1, <2>2, <2>3
<1>3. ASSUME NEW p \in Proc, NEW bn \in Block, BgetPanic(p, bn) PROVE ValidInv'
  BY <1>3 DEF BgetPanic
<1>4. ASSUME NEW p \in Proc, AcquireSleep(p) PROVE ValidInv'
  <2>1. /\ UNCHANGED <<buf, valid, type>> /\ pc[p] = "lock"
        /\ \/ pc' = [pc EXCEPT ![p] = "lock_sleep"]
           \/ buf[p] \in valid /\ pc' = [pc EXCEPT ![p] = "have"]
           \/ buf[p] \notin valid /\ pc' = [pc EXCEPT ![p] = "rw"]
    BY <1>4 DEF AcquireSleep
  <2> QED
    BY <2>1
<1>5. ASSUME NEW p \in Proc, LogWrite(p) PROVE ValidInv'
  BY <1>5 DEF LogWrite, Pin
<1>6. ASSUME NEW p \in Proc, WriteNow(p) PROVE ValidInv'
  BY <1>6 DEF WriteNow
<1>7. ASSUME NEW p \in Proc, WriteHome(p) PROVE ValidInv'
  BY <1>7 DEF WriteHome
<1>8. ASSUME NEW p \in Proc, Unpin(p) PROVE ValidInv'
  BY <1>8 DEF Unpin
<1>9. ASSUME NEW p \in Proc, ReleaseSleep(p) PROVE ValidInv'
  BY <1>9 DEF ReleaseSleep
<1>10. ASSUME NEW p \in Proc, Brelse(p) PROVE ValidInv'
  BY <1>10 DEF Brelse
<1>11. ASSUME NEW p \in Proc, Submit(p) PROVE ValidInv'
  BY <1>11 DEF Submit
<1>12. ASSUME NEW p \in Proc, NoDesc(p) PROVE ValidInv'
  BY <1>12 DEF NoDesc
<1>13. ASSUME NEW p \in Proc, Wait(p) PROVE ValidInv'
  <2>1. pc[p] = "disk" /\ buf' = buf /\ p \in Proc /\ pc[p] \in Holding
    BY <1>13 DEF Wait, Holding
  <2>2. CASE valid' = valid /\ type' = type /\ pc' = [pc EXCEPT ![p] = "disk_sleep"]
    BY <2>1, <2>2
  <2>3. CASE /\ valid' = valid \union {buf[p]} /\ type' = [type EXCEPT ![p] = "in"]
             /\ \E l \in {"have", "written"} : pc' = [pc EXCEPT ![p] = l]
    <3>1. \A r \in Proc : pc[r] \in Holding /\ buf[r] = buf[p] => r = p
      BY <2>1, HoldsAlone
    <3> QED
      BY <2>1, <2>3, <3>1 DEF Holding
  <2> QED
    BY <1>13, <2>2, <2>3 DEF Wait
<1>14. ASSUME NEW p \in Proc, Woken(p) PROVE ValidInv'
  BY <1>14, Returns
<1>15. ASSUME NEW p \in Proc, KilledAwake(p) PROVE ValidInv'
  BY <1>15, Returns
<1>16. CASE Device
  BY <1>16 DEF Device
<1>17. CASE Intr
  BY <1>17 DEF Intr
<1>18. CASE IntrUsed
  BY <1>18 DEF IntrUsed
<1>19. CASE IntrEnd
  BY <1>19 DEF IntrEnd, Drained
<1>20. CASE Halted
  BY <1>20 DEF Halted, vars
<1>21. CASE UNCHANGED vars
  BY <1>21 DEF vars
<1> QED
  BY <1>1, <1>2, <1>3, <1>4, <1>5, <1>6, <1>7, <1>8, <1>9, <1>10, <1>11, <1>12,
     <1>13, <1>14, <1>15, <1>16, <1>17, <1>18, <1>19, <1>20, <1>21 DEF Next, Bread,
     User, Rest, Rw, Handler

(* A process sleeps on the channel it prepared last. *)
LEMMA StepChan == Typed /\ ChanInv /\ [Next]_vars => ChanInv'
<1> SUFFICES ASSUME Typed, ChanInv, [Next]_vars
             PROVE  ChanInv'
  OBVIOUS
<1>0. /\ pc \in [Proc -> PCs]
      /\ chan \in [Proc -> Chan]
      /\ buf \in [Proc -> 0..NBUF]
  BY DEF Typed
<1> USE <1>0 DEF ChanInv, Up, Goto, Wakeup, device, cache, driver
<1>1. ASSUME NEW p \in Proc, NEW bn \in Block, BgetHit(p, bn) PROVE ChanInv'
  BY <1>1 DEF BgetHit
<1>2. ASSUME NEW p \in Proc, NEW bn \in Block, BgetRecycle(p, bn) PROVE ChanInv'
  BY <1>2 DEF BgetRecycle, Victim, Unused
<1>3. ASSUME NEW p \in Proc, NEW bn \in Block, BgetPanic(p, bn) PROVE ChanInv'
  BY <1>3 DEF BgetPanic
<1>4. ASSUME NEW p \in Proc, AcquireSleep(p) PROVE ChanInv'
  BY <1>4 DEF AcquireSleep
<1>5. ASSUME NEW p \in Proc, LogWrite(p) PROVE ChanInv'
  BY <1>5 DEF LogWrite, Pin
<1>6. ASSUME NEW p \in Proc, WriteNow(p) PROVE ChanInv'
  BY <1>6 DEF WriteNow
<1>7. ASSUME NEW p \in Proc, WriteHome(p) PROVE ChanInv'
  BY <1>7 DEF WriteHome
<1>8. ASSUME NEW p \in Proc, Unpin(p) PROVE ChanInv'
  BY <1>8 DEF Unpin
<1>9. ASSUME NEW p \in Proc, ReleaseSleep(p) PROVE ChanInv'
  BY <1>9 DEF ReleaseSleep
<1>10. ASSUME NEW p \in Proc, Brelse(p) PROVE ChanInv'
  BY <1>10 DEF Brelse
<1>11. ASSUME NEW p \in Proc, Submit(p) PROVE ChanInv'
  BY <1>11 DEF Submit
<1>12. ASSUME NEW p \in Proc, NoDesc(p) PROVE ChanInv'
  BY <1>12 DEF NoDesc
<1>13. ASSUME NEW p \in Proc, Wait(p) PROVE ChanInv'
  <2>1. pc[p] = "disk" /\ buf' = buf
    BY <1>13 DEF Wait
  <2>2. CASE chan' = [chan EXCEPT ![p] = DiskOf(buf[p])] /\ pc' = [pc EXCEPT ![p] = "disk_sleep"]
    BY <2>1, <2>2
  <2>3. CASE /\ \E l \in {"have", "written"} : pc' = [pc EXCEPT ![p] = l]
             /\ \A r \in Proc : chan'[r] = None \/ chan'[r] = chan[r]
    BY <2>1, <2>3
  <2> QED
    BY <1>13, <2>2, <2>3 DEF Wait
<1>14. ASSUME NEW p \in Proc, Woken(p) PROVE ChanInv'
  BY <1>14, Returns
<1>15. ASSUME NEW p \in Proc, KilledAwake(p) PROVE ChanInv'
  BY <1>15, Returns
<1>16. CASE Device
  BY <1>16 DEF Device
<1>17. CASE Intr
  BY <1>17 DEF Intr
<1>18. CASE IntrUsed
  BY <1>18 DEF IntrUsed
<1>19. CASE IntrEnd
  BY <1>19 DEF IntrEnd, Drained
<1>20. CASE Halted
  BY <1>20 DEF Halted, vars
<1>21. CASE UNCHANGED vars
  BY <1>21 DEF vars
<1> QED
  BY <1>1, <1>2, <1>3, <1>4, <1>5, <1>6, <1>7, <1>8, <1>9, <1>10, <1>11, <1>12,
     <1>13, <1>14, <1>15, <1>16, <1>17, <1>18, <1>19, <1>20, <1>21 DEF Next, Bread,
     User, Rest, Rw, Handler

(* What is in the used ring has raised the interrupt, or the handler runs. *)
LEMMA StepIrq == Typed /\ IrqInv /\ [Next]_vars => IrqInv'
<1> SUFFICES ASSUME Typed, IrqInv, [Next]_vars
             PROVE  IrqInv'
  OBVIOUS
<1>0. /\ used \in Seq(Desc)
      /\ irq \in BOOLEAN /\ handler \in BOOLEAN
  BY DEF Typed
<1> USE <1>0 DEF IrqInv, Up, Goto, Wakeup, device, cache, driver
<1>1. ASSUME NEW p \in Proc, NEW bn \in Block, BgetHit(p, bn) PROVE IrqInv'
  BY <1>1 DEF BgetHit
<1>2. ASSUME NEW p \in Proc, NEW bn \in Block, BgetRecycle(p, bn) PROVE IrqInv'
  BY <1>2 DEF BgetRecycle, Victim, Unused
<1>3. ASSUME NEW p \in Proc, NEW bn \in Block, BgetPanic(p, bn) PROVE IrqInv'
  BY <1>3 DEF BgetPanic
<1>4. ASSUME NEW p \in Proc, AcquireSleep(p) PROVE IrqInv'
  BY <1>4 DEF AcquireSleep
<1>5. ASSUME NEW p \in Proc, LogWrite(p) PROVE IrqInv'
  BY <1>5 DEF LogWrite, Pin
<1>6. ASSUME NEW p \in Proc, WriteNow(p) PROVE IrqInv'
  BY <1>6 DEF WriteNow
<1>7. ASSUME NEW p \in Proc, WriteHome(p) PROVE IrqInv'
  BY <1>7 DEF WriteHome
<1>8. ASSUME NEW p \in Proc, Unpin(p) PROVE IrqInv'
  BY <1>8 DEF Unpin
<1>9. ASSUME NEW p \in Proc, ReleaseSleep(p) PROVE IrqInv'
  BY <1>9 DEF ReleaseSleep
<1>10. ASSUME NEW p \in Proc, Brelse(p) PROVE IrqInv'
  BY <1>10 DEF Brelse
<1>11. ASSUME NEW p \in Proc, Submit(p) PROVE IrqInv'
  BY <1>11 DEF Submit
<1>12. ASSUME NEW p \in Proc, NoDesc(p) PROVE IrqInv'
  BY <1>12 DEF NoDesc
<1>13. ASSUME NEW p \in Proc, Wait(p) PROVE IrqInv'
  BY <1>13 DEF Wait, StillBusy
<1>14. ASSUME NEW p \in Proc, Woken(p) PROVE IrqInv'
  BY <1>14, Returns
<1>15. ASSUME NEW p \in Proc, KilledAwake(p) PROVE IrqInv'
  BY <1>15, Returns
<1>16. CASE Device
  BY <1>16 DEF Device
<1>17. CASE Intr
  BY <1>17 DEF Intr
<1>18. CASE IntrUsed
  BY <1>18 DEF IntrUsed
<1>19. CASE IntrEnd
  BY <1>19 DEF IntrEnd, Drained
<1>20. CASE Halted
  BY <1>20 DEF Halted, vars
<1>21. CASE UNCHANGED vars
  BY <1>21 DEF vars
<1> QED
  BY <1>1, <1>2, <1>3, <1>4, <1>5, <1>6, <1>7, <1>8, <1>9, <1>10, <1>11, <1>12,
     <1>13, <1>14, <1>15, <1>16, <1>17, <1>18, <1>19, <1>20, <1>21 DEF Next, Bread,
     User, Rest, Rw, Handler

(* The list has each buffer once. *)
LEMMA StepLru == Typed /\ UserInv /\ LruInv /\ [Next]_vars => LruInv'
<1> SUFFICES ASSUME Typed, UserInv, LruInv, [Next]_vars
             PROVE  LruInv'
  OBVIOUS
<1> USE DEF LruInv, Up, Goto, Wakeup, device, cache, driver
<1>1. ASSUME NEW p \in Proc, NEW bn \in Block, BgetHit(p, bn) PROVE LruInv'
  BY <1>1 DEF BgetHit
<1>2. ASSUME NEW p \in Proc, NEW bn \in Block, BgetRecycle(p, bn) PROVE LruInv'
  BY <1>2 DEF BgetRecycle, Victim, Unused
<1>3. ASSUME NEW p \in Proc, NEW bn \in Block, BgetPanic(p, bn) PROVE LruInv'
  BY <1>3 DEF BgetPanic
<1>4. ASSUME NEW p \in Proc, AcquireSleep(p) PROVE LruInv'
  BY <1>4 DEF AcquireSleep
<1>5. ASSUME NEW p \in Proc, LogWrite(p) PROVE LruInv'
  BY <1>5 DEF LogWrite, Pin
<1>6. ASSUME NEW p \in Proc, WriteNow(p) PROVE LruInv'
  BY <1>6 DEF WriteNow
<1>7. ASSUME NEW p \in Proc, WriteHome(p) PROVE LruInv'
  BY <1>7 DEF WriteHome
<1>8. ASSUME NEW p \in Proc, Unpin(p) PROVE LruInv'
  BY <1>8 DEF Unpin
<1>9. ASSUME NEW p \in Proc, ReleaseSleep(p) PROVE LruInv'
  BY <1>9 DEF ReleaseSleep
<1>10. ASSUME NEW p \in Proc, Brelse(p) PROVE LruInv'
  <2>1. CASE lru' = lru
    BY <2>1
  <2>2. CASE lru' = ToFront(buf[p]) /\ buf[p] \in Buf
    BY <2>2, MovedToFront
  <2> QED
    BY <1>10, <2>1, <2>2, HasBuffer DEF Brelse
<1>11. ASSUME NEW p \in Proc, Submit(p) PROVE LruInv'
  BY <1>11 DEF Submit
<1>12. ASSUME NEW p \in Proc, NoDesc(p) PROVE LruInv'
  BY <1>12 DEF NoDesc
<1>13. ASSUME NEW p \in Proc, Wait(p) PROVE LruInv'
  BY <1>13 DEF Wait, StillBusy
<1>14. ASSUME NEW p \in Proc, Woken(p) PROVE LruInv'
  BY <1>14, Returns
<1>15. ASSUME NEW p \in Proc, KilledAwake(p) PROVE LruInv'
  BY <1>15, Returns
<1>16. CASE Device
  BY <1>16 DEF Device
<1>17. CASE Intr
  BY <1>17 DEF Intr
<1>18. CASE IntrUsed
  BY <1>18 DEF IntrUsed
<1>19. CASE IntrEnd
  BY <1>19 DEF IntrEnd, Drained
<1>20. CASE Halted
  BY <1>20 DEF Halted, vars
<1>21. CASE UNCHANGED vars
  BY <1>21 DEF vars
<1> QED
  BY <1>1, <1>2, <1>3, <1>4, <1>5, <1>6, <1>7, <1>8, <1>9, <1>10, <1>11, <1>12,
     <1>13, <1>14, <1>15, <1>16, <1>17, <1>18, <1>19, <1>20, <1>21 DEF Next, Bread,
     User, Rest, Rw, Handler

(* The log pins no more blocks than it may. *)
LEMMA StepPin == Typed /\ PinInv /\ [Next]_vars => PinInv'
<1> SUFFICES ASSUME Typed, PinInv, [Next]_vars
             PROVE  PinInv'
  OBVIOUS
<1>0. /\ pinned \subseteq Block
  BY DEF Typed
<1> USE <1>0 DEF PinInv, Up, Goto, Wakeup, device, cache, driver
<1>1. ASSUME NEW p \in Proc, NEW bn \in Block, BgetHit(p, bn) PROVE PinInv'
  BY <1>1 DEF BgetHit
<1>2. ASSUME NEW p \in Proc, NEW bn \in Block, BgetRecycle(p, bn) PROVE PinInv'
  BY <1>2 DEF BgetRecycle, Victim, Unused
<1>3. ASSUME NEW p \in Proc, NEW bn \in Block, BgetPanic(p, bn) PROVE PinInv'
  BY <1>3 DEF BgetPanic
<1>4. ASSUME NEW p \in Proc, AcquireSleep(p) PROVE PinInv'
  BY <1>4 DEF AcquireSleep
<1>5. ASSUME NEW p \in Proc, LogWrite(p) PROVE PinInv'
  <2>1. pinned' = pinned \union {blockno[buf[p]]}
    BY <1>5 DEF LogWrite
  <2>2. blockno[buf[p]] \in pinned \/ Cardinality(pinned) < MaxPinned
    BY <1>5 DEF LogWrite
  <2>3. IsFiniteSet(pinned') /\ Cardinality(pinned') = IF blockno[buf[p]] \in pinned THEN Cardinality(pinned) ELSE Cardinality(pinned) + 1
    BY <2>1, FS_AddElement
  <2> QED
    BY <2>2, <2>3, Sizing, FS_CardinalityType
<1>6. ASSUME NEW p \in Proc, WriteNow(p) PROVE PinInv'
  BY <1>6 DEF WriteNow
<1>7. ASSUME NEW p \in Proc, WriteHome(p) PROVE PinInv'
  BY <1>7 DEF WriteHome
<1>8. ASSUME NEW p \in Proc, Unpin(p) PROVE PinInv'
  <2>1. pinned' \subseteq pinned
    BY <1>8 DEF Unpin
  <2>2. IsFiniteSet(pinned') /\ Cardinality(pinned') <= Cardinality(pinned)
    BY <2>1, FS_Subset
  <2> QED
    BY <2>2, Sizing, FS_CardinalityType
<1>9. ASSUME NEW p \in Proc, ReleaseSleep(p) PROVE PinInv'
  BY <1>9 DEF ReleaseSleep
<1>10. ASSUME NEW p \in Proc, Brelse(p) PROVE PinInv'
  BY <1>10 DEF Brelse
<1>11. ASSUME NEW p \in Proc, Submit(p) PROVE PinInv'
  BY <1>11 DEF Submit
<1>12. ASSUME NEW p \in Proc, NoDesc(p) PROVE PinInv'
  BY <1>12 DEF NoDesc
<1>13. ASSUME NEW p \in Proc, Wait(p) PROVE PinInv'
  BY <1>13 DEF Wait, StillBusy
<1>14. ASSUME NEW p \in Proc, Woken(p) PROVE PinInv'
  BY <1>14, Returns
<1>15. ASSUME NEW p \in Proc, KilledAwake(p) PROVE PinInv'
  BY <1>15, Returns
<1>16. CASE Device
  BY <1>16 DEF Device
<1>17. CASE Intr
  BY <1>17 DEF Intr
<1>18. CASE IntrUsed
  BY <1>18 DEF IntrUsed
<1>19. CASE IntrEnd
  BY <1>19 DEF IntrEnd, Drained
<1>20. CASE Halted
  BY <1>20 DEF Halted, vars
<1>21. CASE UNCHANGED vars
  BY <1>21 DEF vars
<1> QED
  BY <1>1, <1>2, <1>3, <1>4, <1>5, <1>6, <1>7, <1>8, <1>9, <1>10, <1>11, <1>12,
     <1>13, <1>14, <1>15, <1>16, <1>17, <1>18, <1>19, <1>20, <1>21 DEF Next, Bread,
     User, Rest, Rw, Handler

(* b->refcnt counts the processes that use the buffer, and its pin. *)
LEMMA StepCounted == Typed /\ UserInv /\ OneBuffer /\ Counted /\ [Next]_vars => Counted'
<1> SUFFICES ASSUME Typed, UserInv, OneBuffer, Counted, [Next]_vars
             PROVE  Counted'
  OBVIOUS
<1>0. /\ buf \in [Proc -> 0..NBUF]
      /\ refcnt \in [Buf -> Int]
      /\ blockno \in [Buf -> Block \union {None}]
      /\ pinned \subseteq Block
  BY DEF Typed
<1> USE <1>0 DEF Up, Goto, Wakeup, device, cache, driver
<1>1. ASSUME NEW p \in Proc, NEW bn \in Block, BgetHit(p, bn) PROVE Counted'
  <2>1. PICK b \in Buf : refcnt' = [refcnt EXCEPT ![b] = refcnt[b] + 1] /\ buf' = [buf EXCEPT ![p] = b]
    BY <1>1 DEF BgetHit, Cached
  <2>2. buf[p] = 0 /\ UNCHANGED <<blockno, pinned>>
    BY <1>1 DEF BgetHit, UserInv
  <2>3. Cardinality(Users(b)') = Cardinality(Users(b)) + 1 /\ \A c \in Buf : c # b => Users(c)' = Users(c)
    BY <2>1, <2>2, UserEnters
  <2>4. Cardinality(Users(b)) \in Nat /\ refcnt'[b] = refcnt[b] + 1 /\ \A c \in Buf : c # b => refcnt'[c] = refcnt[c]
    BY <2>1, UsersFinite
  <2> QED
    BY <2>2, <2>3, <2>4 DEF Counted
<1>2. ASSUME NEW p \in Proc, NEW bn \in Block, BgetRecycle(p, bn) PROVE Counted'
  <2>1. PICK b \in Buf : /\ refcnt[b] = 0 /\ blockno' = [blockno EXCEPT ![b] = bn]
                         /\ refcnt' = [refcnt EXCEPT ![b] = 1] /\ buf' = [buf EXCEPT ![p] = b]
    BY <1>2 DEF BgetRecycle, Victim, Unused
  <2>2. buf[p] = 0 /\ UNCHANGED pinned
    BY <1>2 DEF BgetRecycle, UserInv
  <2>3. Cardinality(Users(b)') = Cardinality(Users(b)) + 1 /\ \A c \in Buf : c # b => Users(c)' = Users(c)
    BY <2>1, <2>2, UserEnters
  <2>4. Cardinality(Users(b)) = 0
    BY <2>1, UnusedFacts
  <2>5. \A c \in Buf : c # b => refcnt'[c] = refcnt[c] /\ blockno'[c] = blockno[c]
    BY <2>1
  <2>6. bn \notin pinned
    BY <1>2 DEF BgetRecycle, Cached, UserInv
  <2>7. refcnt'[b] = 1 /\ blockno'[b] = bn
    BY <2>1
  <2>8. ASSUME NEW c \in Buf
        PROVE  refcnt'[c] = Cardinality(Users(c)') + (IF blockno'[c] \in pinned' THEN 1 ELSE 0)
    <3>1. CASE c = b
      BY <2>2, <2>3, <2>4, <2>6, <2>7, <3>1
    <3>2. CASE c # b
      BY <2>2, <2>3, <2>5, <3>2 DEF Counted
    <3> QED
      BY <3>1, <3>2
  <2> QED
    BY <2>8 DEF Counted
<1>3. ASSUME NEW p \in Proc, NEW bn \in Block, BgetPanic(p, bn) PROVE Counted'
  <2>1. UNCHANGED <<buf, refcnt, blockno, pinned>>
    BY <1>3 DEF BgetPanic
  <2> QED
    BY <2>1, CountedSame
<1>4. ASSUME NEW p \in Proc, AcquireSleep(p) PROVE Counted'
  <2>1. UNCHANGED <<buf, refcnt, blockno, pinned>>
    BY <1>4 DEF AcquireSleep
  <2> QED
    BY <2>1, CountedSame
<1>5. ASSUME NEW p \in Proc, LogWrite(p) PROVE Counted'
  <2>1. pinned' = pinned \union {blockno[buf[p]]} /\ UNCHANGED <<buf, blockno>>
    BY <1>5 DEF LogWrite
  <2>4. Pin(buf[p])
    BY <1>5 DEF LogWrite
  <2>5. refcnt' = [refcnt EXCEPT ![buf[p]] = IF blockno[buf[p]] \in pinned THEN refcnt[buf[p]] ELSE refcnt[buf[p]] + 1]
    BY <2>4, Zenon DEF Pin
  <2>2. buf[p] \in Buf /\ blockno[buf[p]] # None
    BY <1>5, HasBuffer DEF LogWrite
  <2>3. ASSUME NEW c \in Buf
        PROVE  refcnt'[c] = Cardinality(Users(c)) + (IF blockno[c] \in pinned' THEN 1 ELSE 0)
    <3>0. Cardinality(Users(c)) \in Nat /\ refcnt[c] = Cardinality(Users(c)) + (IF blockno[c] \in pinned THEN 1 ELSE 0)
      BY UsersFinite DEF Counted
    <3>1. CASE c = buf[p]
      <4>1. refcnt'[c] = (IF blockno[c] \in pinned THEN refcnt[c] ELSE refcnt[c] + 1) /\ blockno[c] \in pinned'
        BY <2>1, <2>5, <3>1
      <4> QED
        BY <3>0, <4>1
    <3>2. CASE c # buf[p]
      <4>1. blockno[c] # blockno[buf[p]]
        BY <2>2, <3>2 DEF OneBuffer
      <4>2. refcnt'[c] = refcnt[c] /\ (blockno[c] \in pinned' <=> blockno[c] \in pinned)
        BY <2>1, <2>5, <3>2, <4>1
      <4> QED
        BY <3>0, <4>2
    <3> QED
      BY <3>1, <3>2
  <2> QED
    BY <2>1, <2>3 DEF Counted, Users
<1>6. ASSUME NEW p \in Proc, WriteNow(p) PROVE Counted'
  <2>1. UNCHANGED <<buf, refcnt, blockno, pinned>>
    BY <1>6 DEF WriteNow
  <2> QED
    BY <2>1, CountedSame
<1>7. ASSUME NEW p \in Proc, WriteHome(p) PROVE Counted'
  <2>1. UNCHANGED <<buf, refcnt, blockno, pinned>>
    BY <1>7 DEF WriteHome
  <2> QED
    BY <2>1, CountedSame
<1>8. ASSUME NEW p \in Proc, Unpin(p) PROVE Counted'
  <2>1. UNCHANGED <<buf, blockno>>
    BY <1>8 DEF Unpin
  <2>4. CASE UNCHANGED <<refcnt, pinned>>
    BY <2>1, <2>4, CountedSame
  <2>5. CASE /\ refcnt' = [refcnt EXCEPT ![buf[p]] = refcnt[buf[p]] - 1] /\ blockno[buf[p]] \in pinned
             /\ pinned' = pinned \ {blockno[buf[p]]}
    <3>2. buf[p] \in Buf /\ blockno[buf[p]] # None
      BY <1>8, HasBuffer DEF Unpin
    <3>3. ASSUME NEW c \in Buf
          PROVE  refcnt'[c] = Cardinality(Users(c)) + (IF blockno[c] \in pinned' THEN 1 ELSE 0)
      <4>0. Cardinality(Users(c)) \in Nat /\ refcnt[c] = Cardinality(Users(c)) + (IF blockno[c] \in pinned THEN 1 ELSE 0)
        BY UsersFinite DEF Counted
      <4>1. CASE c = buf[p]
        BY <2>5, <3>2, <4>0, <4>1
      <4>2. CASE c # buf[p]
        <5>1. blockno[c] # blockno[buf[p]]
          BY <3>2, <4>2 DEF OneBuffer
        <5> QED
          BY <2>5, <3>2, <4>0, <4>2, <5>1
      <4> QED
        BY <4>1, <4>2
    <3> QED
      BY <2>1, <3>3 DEF Counted, Users
  <2> QED
    BY <1>8, <2>4, <2>5 DEF Unpin
<1>9. ASSUME NEW p \in Proc, ReleaseSleep(p) PROVE Counted'
  <2>1. UNCHANGED <<buf, refcnt, blockno, pinned>>
    BY <1>9 DEF ReleaseSleep
  <2> QED
    BY <2>1, CountedSame
<1>10. ASSUME NEW p \in Proc, Brelse(p) PROVE Counted'
  <2>1. PICK b \in Buf : buf[p] = b
    BY <1>10, HasBuffer DEF Brelse
  <2>2. refcnt' = [refcnt EXCEPT ![b] = refcnt[b] - 1] /\ buf' = [buf EXCEPT ![p] = 0] /\ UNCHANGED <<blockno, pinned>>
    BY <1>10, <2>1 DEF Brelse
  <2>3. Cardinality(Users(b)') = Cardinality(Users(b)) - 1 /\ \A c \in Buf : c # b => Users(c)' = Users(c)
    BY <2>1, <2>2, UserLeaves
  <2>4. ASSUME NEW c \in Buf
        PROVE  refcnt'[c] = Cardinality(Users(c)') + (IF blockno'[c] \in pinned' THEN 1 ELSE 0)
    <3>0. Cardinality(Users(c)) \in Nat /\ refcnt[c] = Cardinality(Users(c)) + (IF blockno[c] \in pinned THEN 1 ELSE 0)
      BY UsersFinite DEF Counted
    <3>1. CASE c = b
      BY <2>2, <2>3, <3>0, <3>1
    <3>2. CASE c # b
      BY <2>2, <2>3, <3>0, <3>2
    <3> QED
      BY <3>1, <3>2
  <2> QED
    BY <2>4 DEF Counted
<1>11. ASSUME NEW p \in Proc, Submit(p) PROVE Counted'
  <2>1. UNCHANGED <<buf, refcnt, blockno, pinned>>
    BY <1>11 DEF Submit
  <2> QED
    BY <2>1, CountedSame
<1>12. ASSUME NEW p \in Proc, NoDesc(p) PROVE Counted'
  <2>1. UNCHANGED <<buf, refcnt, blockno, pinned>>
    BY <1>12 DEF NoDesc
  <2> QED
    BY <2>1, CountedSame
<1>13. ASSUME NEW p \in Proc, Wait(p) PROVE Counted'
  <2>1. UNCHANGED <<buf, refcnt, blockno, pinned>>
    BY <1>13 DEF Wait
  <2> QED
    BY <2>1, CountedSame
<1>14. ASSUME NEW p \in Proc, Woken(p) PROVE Counted'
  <2>1. UNCHANGED <<buf, refcnt, blockno, pinned>>
    BY <1>14, Returns
  <2> QED
    BY <2>1, CountedSame
<1>15. ASSUME NEW p \in Proc, KilledAwake(p) PROVE Counted'
  <2>1. UNCHANGED <<buf, refcnt, blockno, pinned>>
    BY <1>15, Returns
  <2> QED
    BY <2>1, CountedSame
<1>16. CASE Device
  <2>1. UNCHANGED <<buf, refcnt, blockno, pinned>>
    BY <1>16 DEF Device
  <2> QED
    BY <2>1, CountedSame
<1>17. CASE Intr
  <2>1. UNCHANGED <<buf, refcnt, blockno, pinned>>
    BY <1>17 DEF Intr
  <2> QED
    BY <2>1, CountedSame
<1>18. CASE IntrUsed
  <2>1. UNCHANGED <<buf, refcnt, blockno, pinned>>
    BY <1>18 DEF IntrUsed
  <2> QED
    BY <2>1, CountedSame
<1>19. CASE IntrEnd
  <2>1. UNCHANGED <<buf, refcnt, blockno, pinned>>
    BY <1>19 DEF IntrEnd
  <2> QED
    BY <2>1, CountedSame
<1>20. CASE Halted
  <2>1. UNCHANGED <<buf, refcnt, blockno, pinned>>
    BY <1>20 DEF Halted, vars
  <2> QED
    BY <2>1, CountedSame
<1>21. CASE UNCHANGED vars
  <2>1. UNCHANGED <<buf, refcnt, blockno, pinned>>
    BY <1>21 DEF vars
  <2> QED
    BY <2>1, CountedSame

<1> QED
  BY <1>1, <1>2, <1>3, <1>4, <1>5, <1>6, <1>7, <1>8, <1>9, <1>10, <1>11, <1>12,
     <1>13, <1>14, <1>15, <1>16, <1>17, <1>18, <1>19, <1>20, <1>21 DEF Next, Bread,
     User, Rest, Rw, Handler

(* Descriptors stay free or of one request, and none gets lost. *)
LEMMA StepDesc == Typed /\ UserInv /\ DescInv /\ [Next]_vars => DescInv'
<1> SUFFICES ASSUME Typed, UserInv, DescInv, [Next]_vars
             PROVE  DescInv'
  OBVIOUS
<1>0. /\ pc \in [Proc -> PCs]
      /\ buf \in [Proc -> 0..NBUF]
      /\ idx \in [Proc -> SUBSET Desc]
      /\ free \subseteq Desc
      /\ info \in [Desc -> 0..NBUF]
  BY DEF Typed
<1> USE <1>0 DEF Up, Goto, Wakeup, device, cache, driver
<1>1. ASSUME NEW p \in Proc, NEW bn \in Block, BgetHit(p, bn) PROVE DescInv'
  <2>1. UNCHANGED <<idx, free, info>>
    BY <1>1 DEF BgetHit
  <2>2. \A r \in Proc : pc'[r] \in Waiting <=> pc[r] \in Waiting
    BY <1>1 DEF Waiting, BgetHit
  <2>3. \A r \in Proc : pc[r] \in Waiting => buf'[r] = buf[r]
    BY <1>1 DEF Waiting, BgetHit
  <2> QED
    BY <2>1, <2>2, <2>3, DescSame
<1>2. ASSUME NEW p \in Proc, NEW bn \in Block, BgetRecycle(p, bn) PROVE DescInv'
  <2>1. UNCHANGED <<idx, free, info>>
    BY <1>2 DEF BgetRecycle
  <2>2. \A r \in Proc : pc'[r] \in Waiting <=> pc[r] \in Waiting
    BY <1>2 DEF Waiting, BgetRecycle
  <2>3. \A r \in Proc : pc[r] \in Waiting => buf'[r] = buf[r]
    BY <1>2 DEF Waiting, BgetRecycle
  <2> QED
    BY <2>1, <2>2, <2>3, DescSame
<1>3. ASSUME NEW p \in Proc, NEW bn \in Block, BgetPanic(p, bn) PROVE DescInv'
  <2>1. UNCHANGED <<idx, free, info>>
    BY <1>3 DEF BgetPanic
  <2>2. \A r \in Proc : pc'[r] \in Waiting <=> pc[r] \in Waiting
    BY <1>3 DEF Waiting, BgetPanic
  <2>3. \A r \in Proc : pc[r] \in Waiting => buf'[r] = buf[r]
    BY <1>3 DEF Waiting, BgetPanic
  <2> QED
    BY <2>1, <2>2, <2>3, DescSame
<1>4. ASSUME NEW p \in Proc, AcquireSleep(p) PROVE DescInv'
  <2>1. UNCHANGED <<idx, free, info>>
    BY <1>4 DEF AcquireSleep
  <2>2. \A r \in Proc : pc'[r] \in Waiting <=> pc[r] \in Waiting
    BY <1>4 DEF Waiting, AcquireSleep
  <2>3. \A r \in Proc : pc[r] \in Waiting => buf'[r] = buf[r]
    BY <1>4 DEF Waiting, AcquireSleep
  <2> QED
    BY <2>1, <2>2, <2>3, DescSame
<1>5. ASSUME NEW p \in Proc, LogWrite(p) PROVE DescInv'
  <2>1. UNCHANGED <<idx, free, info>>
    BY <1>5 DEF LogWrite
  <2>2. \A r \in Proc : pc'[r] \in Waiting <=> pc[r] \in Waiting
    BY <1>5 DEF Waiting, LogWrite
  <2>3. \A r \in Proc : pc[r] \in Waiting => buf'[r] = buf[r]
    BY <1>5 DEF Waiting, LogWrite
  <2> QED
    BY <2>1, <2>2, <2>3, DescSame
<1>6. ASSUME NEW p \in Proc, WriteNow(p) PROVE DescInv'
  <2>1. UNCHANGED <<idx, free, info>>
    BY <1>6 DEF WriteNow
  <2>2. \A r \in Proc : pc'[r] \in Waiting <=> pc[r] \in Waiting
    BY <1>6 DEF Waiting, WriteNow
  <2>3. \A r \in Proc : pc[r] \in Waiting => buf'[r] = buf[r]
    BY <1>6 DEF Waiting, WriteNow
  <2> QED
    BY <2>1, <2>2, <2>3, DescSame
<1>7. ASSUME NEW p \in Proc, WriteHome(p) PROVE DescInv'
  <2>1. UNCHANGED <<idx, free, info>>
    BY <1>7 DEF WriteHome
  <2>2. \A r \in Proc : pc'[r] \in Waiting <=> pc[r] \in Waiting
    BY <1>7 DEF Waiting, WriteHome
  <2>3. \A r \in Proc : pc[r] \in Waiting => buf'[r] = buf[r]
    BY <1>7 DEF Waiting, WriteHome
  <2> QED
    BY <2>1, <2>2, <2>3, DescSame
<1>8. ASSUME NEW p \in Proc, Unpin(p) PROVE DescInv'
  <2>1. UNCHANGED <<idx, free, info>>
    BY <1>8 DEF Unpin
  <2>2. \A r \in Proc : pc'[r] \in Waiting <=> pc[r] \in Waiting
    BY <1>8 DEF Waiting, Unpin
  <2>3. \A r \in Proc : pc[r] \in Waiting => buf'[r] = buf[r]
    BY <1>8 DEF Waiting, Unpin
  <2> QED
    BY <2>1, <2>2, <2>3, DescSame
<1>9. ASSUME NEW p \in Proc, ReleaseSleep(p) PROVE DescInv'
  <2>1. UNCHANGED <<idx, free, info>>
    BY <1>9 DEF ReleaseSleep
  <2>2. \A r \in Proc : pc'[r] \in Waiting <=> pc[r] \in Waiting
    BY <1>9 DEF Waiting, ReleaseSleep
  <2>3. \A r \in Proc : pc[r] \in Waiting => buf'[r] = buf[r]
    BY <1>9 DEF Waiting, ReleaseSleep
  <2> QED
    BY <2>1, <2>2, <2>3, DescSame
<1>10. ASSUME NEW p \in Proc, Brelse(p) PROVE DescInv'
  <2>1. UNCHANGED <<idx, free, info>>
    BY <1>10 DEF Brelse
  <2>2. \A r \in Proc : pc'[r] \in Waiting <=> pc[r] \in Waiting
    BY <1>10 DEF Waiting, Brelse
  <2>3. \A r \in Proc : pc[r] \in Waiting => buf'[r] = buf[r]
    BY <1>10 DEF Waiting, Brelse
  <2> QED
    BY <2>1, <2>2, <2>3, DescSame
<1>11. ASSUME NEW p \in Proc, Submit(p) PROVE DescInv'
  <2>1. /\ free' = free \ Three /\ idx' = [idx EXCEPT ![p] = Three]
        /\ info' = [info EXCEPT ![First(Three)] = buf[p]] /\ UNCHANGED buf
        /\ pc[p] = "rw" /\ pc' = [pc EXCEPT ![p] = "disk_sleep"]
    BY <1>11 DEF Submit
  <2>2. Three \subseteq free /\ Three # {} /\ First(Three) \in Three /\ First(Three) \in Desc
    BY <1>11, ThreeFacts DEF Submit
  <2>3. idx[p] = {}
    BY <2>1 DEF DescInv, Waiting
  <2>4. \A r \in Proc : pc'[r] \in Waiting <=> idx'[r] # {}
    BY <2>1, <2>2 DEF DescInv, Waiting
  <2>5. \A r \in Proc : idx'[r] \intersect free' = {}
    BY <2>1, <2>2 DEF DescInv
  <2>6. \A q, r \in Proc : q # r => idx'[q] \intersect idx'[r] = {}
    BY <2>1, <2>2 DEF DescInv
  <2>7. free' \union UNION {idx'[q] : q \in Proc} = free \union UNION {idx[q] : q \in Proc}
    <3> DEFINE U == UNION {idx[q] : q \in Proc}
               V == UNION {idx'[q] : q \in Proc}
    <3>1. \A d \in V : d \in U \/ d \in Three
      BY <2>1
    <3>2. \A d \in U : d \in V
      BY <2>1, <2>3
    <3>3. \A d \in Three : d \in V
      BY <2>1
    <3> HIDE DEF U, V
    <3>4. free' \union V = free \union U
      BY <2>1, <2>2, <3>1, <3>2, <3>3
    <3> QED
      BY <3>4 DEF U, V
  <2>8. \A r \in Proc : pc'[r] \in Waiting => info'[First(idx'[r])] = buf'[r]
    <3> SUFFICES ASSUME NEW r \in Proc, pc'[r] \in Waiting
                 PROVE  info'[First(idx'[r])] = buf'[r]
      OBVIOUS
    <3>1. CASE r = p
      BY <2>1, <2>2, <3>1
    <3>2. CASE r # p
      <4>1. pc[r] \in Waiting /\ idx'[r] = idx[r] /\ idx[r] # {} /\ idx[r] \subseteq Desc
        BY <2>1, <3>2 DEF DescInv
      <4>2. First(idx[r]) \in idx[r]
        BY <4>1, FirstIn
      <4>3. First(idx[r]) # First(Three)
        BY <2>2, <4>2 DEF DescInv
      <4> QED
        BY <2>1, <4>1, <4>3 DEF DescInv
    <3> QED
      BY <3>1, <3>2
  <2> QED
    BY <2>1, <2>4, <2>5, <2>6, <2>7, <2>8 DEF DescInv
<1>12. ASSUME NEW p \in Proc, NoDesc(p) PROVE DescInv'
  <2>1. UNCHANGED <<idx, free, info>>
    BY <1>12 DEF NoDesc
  <2>2. \A r \in Proc : pc'[r] \in Waiting <=> pc[r] \in Waiting
    BY <1>12 DEF Waiting, NoDesc
  <2>3. \A r \in Proc : pc[r] \in Waiting => buf'[r] = buf[r]
    BY <1>12 DEF Waiting, NoDesc
  <2> QED
    BY <2>1, <2>2, <2>3, DescSame
<1>13. ASSUME NEW p \in Proc, Wait(p) PROVE DescInv'
  <2>1. pc[p] = "disk" /\ UNCHANGED buf
    BY <1>13 DEF Wait
  <2>2. CASE UNCHANGED <<idx, free, info>> /\ pc' = [pc EXCEPT ![p] = "disk_sleep"]
    BY <2>1, <2>2, DescSame DEF Waiting
  <2>3. CASE /\ info' = [info EXCEPT ![First(idx[p])] = 0] /\ free' = free \union idx[p]
             /\ idx' = [idx EXCEPT ![p] = {}] /\ \E l \in {"have", "written"} : pc' = [pc EXCEPT ![p] = l]
    <3>1. First(idx[p]) \in idx[p]
      BY <2>1, FirstIn DEF DescInv, Waiting
    <3>2. \A r \in Proc : pc'[r] \in Waiting <=> idx'[r] # {}
      BY <2>3 DEF DescInv, Waiting
    <3>3. \A r \in Proc : idx'[r] \intersect free' = {}
      BY <2>3 DEF DescInv
    <3>4. \A q, r \in Proc : q # r => idx'[q] \intersect idx'[r] = {}
      BY <2>3 DEF DescInv
    <3>5. free' \union UNION {idx'[q] : q \in Proc} = free \union UNION {idx[q] : q \in Proc}
      <4> DEFINE U == UNION {idx[q] : q \in Proc}
                 V == UNION {idx'[q] : q \in Proc}
      <4>1. \A d \in U : d \in V \/ d \in idx[p]
        BY <2>3
      <4>2. \A d \in V : d \in U
        BY <2>3
      <4>3. \A d \in idx[p] : d \in U
        OBVIOUS
      <4> HIDE DEF U, V
      <4>4. free' \union V = free \union U
        BY <2>3, <4>1, <4>2, <4>3
      <4> QED
        BY <4>4 DEF U, V
    <3>6. \A r \in Proc : pc'[r] \in Waiting => info'[First(idx'[r])] = buf'[r]
      <4> SUFFICES ASSUME NEW r \in Proc, pc'[r] \in Waiting
                   PROVE  info'[First(idx'[r])] = buf'[r]
        OBVIOUS
      <4>1. r # p /\ pc[r] \in Waiting /\ idx'[r] = idx[r] /\ idx[r] # {} /\ idx[r] \subseteq Desc
        BY <2>3 DEF DescInv, Waiting
      <4>2. First(idx[r]) \in idx[r] /\ First(idx[r]) \in Desc
        BY <4>1, FirstIn
      <4>3. First(idx[r]) # First(idx[p])
        BY <3>1, <4>1, <4>2 DEF DescInv
      <4> QED
        BY <2>1, <2>3, <4>1, <4>2, <4>3 DEF DescInv
    <3> QED
      BY <2>3, <3>2, <3>3, <3>4, <3>5, <3>6 DEF DescInv
  <2> QED
    BY <1>13, <2>2, <2>3 DEF Wait
<1>14. ASSUME NEW p \in Proc, Woken(p) PROVE DescInv'
  <2>1. UNCHANGED <<idx, free, info>>
    BY <1>14, Returns
  <2>2. \A r \in Proc : pc'[r] \in Waiting <=> pc[r] \in Waiting
    BY <1>14, Returns DEF Waiting
  <2>3. \A r \in Proc : pc[r] \in Waiting => buf'[r] = buf[r]
    BY <1>14, Returns
  <2> QED
    BY <2>1, <2>2, <2>3, DescSame
<1>15. ASSUME NEW p \in Proc, KilledAwake(p) PROVE DescInv'
  <2>1. UNCHANGED <<idx, free, info>>
    BY <1>15, Returns
  <2>2. \A r \in Proc : pc'[r] \in Waiting <=> pc[r] \in Waiting
    BY <1>15, Returns DEF Waiting
  <2>3. \A r \in Proc : pc[r] \in Waiting => buf'[r] = buf[r]
    BY <1>15, Returns
  <2> QED
    BY <2>1, <2>2, <2>3, DescSame
<1>16. CASE Device
  <2>1. UNCHANGED <<idx, free, info>>
    BY <1>16 DEF Device
  <2>2. \A r \in Proc : pc'[r] \in Waiting <=> pc[r] \in Waiting
    BY <1>16 DEF Waiting, Device
  <2>3. \A r \in Proc : pc[r] \in Waiting => buf'[r] = buf[r]
    BY <1>16 DEF Waiting, Device
  <2> QED
    BY <2>1, <2>2, <2>3, DescSame
<1>17. CASE Intr
  <2>1. UNCHANGED <<idx, free, info>>
    BY <1>17 DEF Intr
  <2>2. \A r \in Proc : pc'[r] \in Waiting <=> pc[r] \in Waiting
    BY <1>17 DEF Waiting, Intr
  <2>3. \A r \in Proc : pc[r] \in Waiting => buf'[r] = buf[r]
    BY <1>17 DEF Waiting, Intr
  <2> QED
    BY <2>1, <2>2, <2>3, DescSame
<1>18. CASE IntrUsed
  <2>1. UNCHANGED <<idx, free, info>>
    BY <1>18 DEF IntrUsed
  <2>2. \A r \in Proc : pc'[r] \in Waiting <=> pc[r] \in Waiting
    BY <1>18 DEF Waiting, IntrUsed
  <2>3. \A r \in Proc : pc[r] \in Waiting => buf'[r] = buf[r]
    BY <1>18 DEF Waiting, IntrUsed
  <2> QED
    BY <2>1, <2>2, <2>3, DescSame
<1>19. CASE IntrEnd
  <2>1. UNCHANGED <<idx, free, info>>
    BY <1>19 DEF IntrEnd
  <2>2. \A r \in Proc : pc'[r] \in Waiting <=> pc[r] \in Waiting
    BY <1>19 DEF Waiting, IntrEnd
  <2>3. \A r \in Proc : pc[r] \in Waiting => buf'[r] = buf[r]
    BY <1>19 DEF Waiting, IntrEnd
  <2> QED
    BY <2>1, <2>2, <2>3, DescSame
<1>20. CASE Halted
  <2>1. UNCHANGED <<idx, free, info>>
    BY <1>20 DEF Halted, vars
  <2>2. \A r \in Proc : pc'[r] \in Waiting <=> pc[r] \in Waiting
    BY <1>20 DEF Waiting, Halted, vars
  <2>3. \A r \in Proc : pc[r] \in Waiting => buf'[r] = buf[r]
    BY <1>20 DEF Waiting, Halted, vars
  <2> QED
    BY <2>1, <2>2, <2>3, DescSame
<1>21. CASE UNCHANGED vars
  <2>1. UNCHANGED <<idx, free, info>>
    BY <1>21 DEF vars
  <2>2. \A r \in Proc : pc'[r] \in Waiting <=> pc[r] \in Waiting
    BY <1>21 DEF vars
  <2>3. \A r \in Proc : pc[r] \in Waiting => buf'[r] = buf[r]
    BY <1>21 DEF vars
  <2> QED
    BY <2>1, <2>2, <2>3, DescSame

<1> QED
  BY <1>1, <1>2, <1>3, <1>4, <1>5, <1>6, <1>7, <1>8, <1>9, <1>10, <1>11, <1>12,
     <1>13, <1>14, <1>15, <1>16, <1>17, <1>18, <1>19, <1>20, <1>21 DEF Next, Bread,
     User, Rest, Rw, Handler

(* Every request of the device, or completion in the used ring, is of one process
   that waits for it. *)
LEMMA StepReq ==
  Typed /\ UserInv /\ OwnerInv /\ OneBuffer /\ Counted /\ DescInv /\ ReqInv /\
  [Next]_vars
  => ReqInv'
<1> SUFFICES ASSUME Typed, UserInv, OwnerInv, OneBuffer, Counted, DescInv, ReqInv,
                    [Next]_vars
             PROVE  ReqInv'
  OBVIOUS
<1>0. /\ pc \in [Proc -> PCs]
      /\ buf \in [Proc -> 0..NBUF]
      /\ idx \in [Proc -> SUBSET Desc]
      /\ avail \subseteq [head : Desc, type : {"in", "out"}, sector : Block, b : Buf]
      /\ used \in Seq(Desc)
      /\ busy \subseteq Buf
      /\ type \in [Proc -> {"in", "out"}]
      /\ blockno \in [Buf -> Block \union {None}]
      /\ free \subseteq Desc
      /\ info \in [Desc -> 0..NBUF]
  BY DEF Typed
<1> USE <1>0 DEF Up, Goto, Wakeup, device, cache, driver
<1>1. ASSUME NEW p \in Proc, NEW bn \in Block, BgetHit(p, bn) PROVE ReqInv'
  <2>1. UNCHANGED <<avail, used, busy>>
    BY <1>1 DEF BgetHit
  <2>2. \A r \in Proc : pc[r] \in Waiting =>
            /\ pc'[r] \in Waiting /\ buf'[r] = buf[r] /\ idx'[r] = idx[r] /\ type'[r] = type[r]
            /\ blockno'[buf[r]] = blockno[buf[r]]
    BY <1>1 DEF Waiting, BgetHit
  <2> QED
    BY <2>1, <2>2, ReqSame
<1>2. ASSUME NEW p \in Proc, NEW bn \in Block, BgetRecycle(p, bn) PROVE ReqInv'
  <2>1. PICK b \in Buf : /\ refcnt[b] = 0 /\ blockno' = [blockno EXCEPT ![b] = bn] /\ buf' = [buf EXCEPT ![p] = b]
    BY <1>2 DEF BgetRecycle, Victim, Unused
  <2>2. /\ UNCHANGED <<avail, used, busy, idx, type>>
        /\ pc[p] = "idle" /\ pc' = [pc EXCEPT ![p] = "lock"]
    BY <1>2 DEF BgetRecycle
  <2>3. \A r \in Proc : buf[r] # b
    BY <2>1, UnusedFacts
  <2>4. \A r \in Proc : pc[r] \in Waiting =>
            /\ pc'[r] \in Waiting /\ buf'[r] = buf[r] /\ idx'[r] = idx[r] /\ type'[r] = type[r]
            /\ blockno'[buf[r]] = blockno[buf[r]]
    BY <2>1, <2>2, <2>3 DEF Waiting
  <2> QED
    BY <2>2, <2>4, ReqSame
<1>3. ASSUME NEW p \in Proc, NEW bn \in Block, BgetPanic(p, bn) PROVE ReqInv'
  <2>1. UNCHANGED <<avail, used, busy>>
    BY <1>3 DEF BgetPanic
  <2>2. \A r \in Proc : pc[r] \in Waiting =>
            /\ pc'[r] \in Waiting /\ buf'[r] = buf[r] /\ idx'[r] = idx[r] /\ type'[r] = type[r]
            /\ blockno'[buf[r]] = blockno[buf[r]]
    BY <1>3 DEF Waiting, BgetPanic
  <2> QED
    BY <2>1, <2>2, ReqSame
<1>4. ASSUME NEW p \in Proc, AcquireSleep(p) PROVE ReqInv'
  <2>1. UNCHANGED <<avail, used, busy>>
    BY <1>4 DEF AcquireSleep
  <2>2. \A r \in Proc : pc[r] \in Waiting =>
            /\ pc'[r] \in Waiting /\ buf'[r] = buf[r] /\ idx'[r] = idx[r] /\ type'[r] = type[r]
            /\ blockno'[buf[r]] = blockno[buf[r]]
    BY <1>4 DEF Waiting, AcquireSleep
  <2> QED
    BY <2>1, <2>2, ReqSame
<1>5. ASSUME NEW p \in Proc, LogWrite(p) PROVE ReqInv'
  <2>1. UNCHANGED <<avail, used, busy>>
    BY <1>5 DEF LogWrite
  <2>2. \A r \in Proc : pc[r] \in Waiting =>
            /\ pc'[r] \in Waiting /\ buf'[r] = buf[r] /\ idx'[r] = idx[r] /\ type'[r] = type[r]
            /\ blockno'[buf[r]] = blockno[buf[r]]
    BY <1>5 DEF Waiting, LogWrite
  <2> QED
    BY <2>1, <2>2, ReqSame
<1>6. ASSUME NEW p \in Proc, WriteNow(p) PROVE ReqInv'
  <2>1. UNCHANGED <<avail, used, busy>>
    BY <1>6 DEF WriteNow
  <2>2. \A r \in Proc : pc[r] \in Waiting =>
            /\ pc'[r] \in Waiting /\ buf'[r] = buf[r] /\ idx'[r] = idx[r] /\ type'[r] = type[r]
            /\ blockno'[buf[r]] = blockno[buf[r]]
    BY <1>6 DEF Waiting, WriteNow
  <2> QED
    BY <2>1, <2>2, ReqSame
<1>7. ASSUME NEW p \in Proc, WriteHome(p) PROVE ReqInv'
  <2>1. UNCHANGED <<avail, used, busy>>
    BY <1>7 DEF WriteHome
  <2>2. \A r \in Proc : pc[r] \in Waiting =>
            /\ pc'[r] \in Waiting /\ buf'[r] = buf[r] /\ idx'[r] = idx[r] /\ type'[r] = type[r]
            /\ blockno'[buf[r]] = blockno[buf[r]]
    BY <1>7 DEF Waiting, WriteHome
  <2> QED
    BY <2>1, <2>2, ReqSame
<1>8. ASSUME NEW p \in Proc, Unpin(p) PROVE ReqInv'
  <2>1. UNCHANGED <<avail, used, busy>>
    BY <1>8 DEF Unpin
  <2>2. \A r \in Proc : pc[r] \in Waiting =>
            /\ pc'[r] \in Waiting /\ buf'[r] = buf[r] /\ idx'[r] = idx[r] /\ type'[r] = type[r]
            /\ blockno'[buf[r]] = blockno[buf[r]]
    BY <1>8 DEF Waiting, Unpin
  <2> QED
    BY <2>1, <2>2, ReqSame
<1>9. ASSUME NEW p \in Proc, ReleaseSleep(p) PROVE ReqInv'
  <2>1. UNCHANGED <<avail, used, busy>>
    BY <1>9 DEF ReleaseSleep
  <2>2. \A r \in Proc : pc[r] \in Waiting =>
            /\ pc'[r] \in Waiting /\ buf'[r] = buf[r] /\ idx'[r] = idx[r] /\ type'[r] = type[r]
            /\ blockno'[buf[r]] = blockno[buf[r]]
    BY <1>9 DEF Waiting, ReleaseSleep
  <2> QED
    BY <2>1, <2>2, ReqSame
<1>10. ASSUME NEW p \in Proc, Brelse(p) PROVE ReqInv'
  <2>1. UNCHANGED <<avail, used, busy>>
    BY <1>10 DEF Brelse
  <2>2. \A r \in Proc : pc[r] \in Waiting =>
            /\ pc'[r] \in Waiting /\ buf'[r] = buf[r] /\ idx'[r] = idx[r] /\ type'[r] = type[r]
            /\ blockno'[buf[r]] = blockno[buf[r]]
    BY <1>10 DEF Waiting, Brelse
  <2> QED
    BY <2>1, <2>2, ReqSame
<1>11. ASSUME NEW p \in Proc, Submit(p) PROVE ReqInv'
  <2> DEFINE q == [head |-> First(Three), type |-> type[p], sector |-> blockno[buf[p]], b |-> buf[p]]
  <2>1. /\ idx' = [idx EXCEPT ![p] = Three] /\ busy' = busy \union {buf[p]} /\ avail' = avail \union {q}
        /\ UNCHANGED <<used, buf, type, blockno>> /\ pc[p] = "rw" /\ pc' = [pc EXCEPT ![p] = "disk_sleep"]
    BY <1>11 DEF Submit
  <2>2. Three \subseteq free /\ Three # {} /\ First(Three) \in Three
    BY <1>11, ThreeFacts DEF Submit
  <2>3. Asks(p)' /\ Request(p)' = q /\ q.head = First(Three) /\ idx'[p] = Three
    BY <2>1 DEF Asks, Request, Waiting
  <2>4. \A r \in Proc : Asks(r) =>
          /\ Asks(r)' /\ Request(r)' = Request(r) /\ idx'[r] = idx[r] /\ Request(r).head = First(idx[r])
          /\ First(idx[r]) # First(Three)
    <3> SUFFICES ASSUME NEW r \in Proc, Asks(r)
                 PROVE  /\ Asks(r)' /\ Request(r)' = Request(r) /\ idx'[r] = idx[r]
                        /\ Request(r).head = First(idx[r]) /\ First(idx[r]) # First(Three)
      OBVIOUS
    <3>1. r # p /\ pc[r] \in Waiting /\ pc'[r] = pc[r] /\ idx'[r] = idx[r] /\ buf[r] \in busy
      BY <2>1 DEF Asks, Waiting
    <3>2. First(idx[r]) \in idx[r] /\ idx[r] \intersect free = {}
      BY <3>1, FirstIn DEF DescInv
    <3>3. First(idx[r]) # First(Three)
      BY <2>2, <3>2
    <3>4. Asks(r)' /\ Request(r)' = Request(r) /\ Request(r).head = First(idx[r])
      BY <2>1, <3>1 DEF Asks, Request
    <3> QED
      BY <3>1, <3>3, <3>4
  <2> HIDE DEF q
  <2>5. \A r \in avail' : \E s \in Proc : Asks(s)' /\ r = Request(s)'
    BY <2>1, <2>3, <2>4 DEF ReqInv
  <2>6. \A k \in 1..Len(used') : \E s \in Proc : Asks(s)' /\ used'[k] = First(idx'[s])
    BY <2>1, <2>4 DEF ReqInv
  <2>7. \A r \in avail' : \A k \in 1..Len(used') : used'[k] # r.head
    <3>1. \A k \in 1..Len(used) : used[k] # q.head
      BY <2>3, <2>4 DEF ReqInv
    <3> QED
      BY <2>1, <3>1 DEF ReqInv
  <2>8. \A b \in busy' : \E s \in Proc : Asks(s)' /\ buf'[s] = b /\ First(idx'[s]) \in Outstanding'
    <3>1. Outstanding \subseteq Outstanding' /\ First(Three) \in Outstanding'
      BY <2>1, <2>3 DEF Outstanding
    <3> QED
      BY <2>1, <2>3, <2>4, <3>1 DEF ReqInv
  <2>9. \A k, l \in 1..Len(used') : used'[k] = used'[l] => k = l
    <3>1. used' = used
      BY <2>1
    <3> QED
      BY <3>1 DEF ReqInv
  <2> QED
    BY <2>5, <2>6, <2>7, <2>8, <2>9 DEF ReqInv
<1>12. ASSUME NEW p \in Proc, NoDesc(p) PROVE ReqInv'
  <2>1. UNCHANGED <<avail, used, busy>>
    BY <1>12 DEF NoDesc
  <2>2. \A r \in Proc : pc[r] \in Waiting =>
            /\ pc'[r] \in Waiting /\ buf'[r] = buf[r] /\ idx'[r] = idx[r] /\ type'[r] = type[r]
            /\ blockno'[buf[r]] = blockno[buf[r]]
    BY <1>12 DEF Waiting, NoDesc
  <2> QED
    BY <2>1, <2>2, ReqSame
<1>13. ASSUME NEW p \in Proc, Wait(p) PROVE ReqInv'
  <2>1. pc[p] = "disk" /\ UNCHANGED <<avail, used, busy, buf, blockno>>
    BY <1>13 DEF Wait
  <2>2. CASE UNCHANGED <<idx, type>> /\ pc' = [pc EXCEPT ![p] = "disk_sleep"]
    <3>1. \A r \in Proc : pc[r] \in Waiting => pc'[r] \in Waiting
      BY <2>1, <2>2 DEF Waiting
    <3> QED
      BY <2>1, <2>2, <3>1, ReqSame
  <2>3. CASE /\ buf[p] \notin busy /\ idx' = [idx EXCEPT ![p] = {}] /\ type' = [type EXCEPT ![p] = "in"]
             /\ \E l \in {"have", "written"} : pc' = [pc EXCEPT ![p] = l]
    <3>1. \A r \in Proc : pc[r] \in Waiting /\ buf[r] \in busy =>
            pc'[r] \in Waiting /\ idx'[r] = idx[r] /\ type'[r] = type[r]
      BY <2>1, <2>3
    <3> QED
      BY <2>1, <3>1, ReqSame
  <2> QED
    BY <1>13, <2>2, <2>3 DEF Wait, StillBusy
<1>14. ASSUME NEW p \in Proc, Woken(p) PROVE ReqInv'
  <2>1. UNCHANGED <<avail, used, busy>>
    BY <1>14, Returns
  <2>2. \A r \in Proc : pc[r] \in Waiting =>
            /\ pc'[r] \in Waiting /\ buf'[r] = buf[r] /\ idx'[r] = idx[r] /\ type'[r] = type[r]
            /\ blockno'[buf[r]] = blockno[buf[r]]
    BY <1>14, Returns DEF Waiting
  <2> QED
    BY <2>1, <2>2, ReqSame
<1>15. ASSUME NEW p \in Proc, KilledAwake(p) PROVE ReqInv'
  <2>1. UNCHANGED <<avail, used, busy>>
    BY <1>15, Returns
  <2>2. \A r \in Proc : pc[r] \in Waiting =>
            /\ pc'[r] \in Waiting /\ buf'[r] = buf[r] /\ idx'[r] = idx[r] /\ type'[r] = type[r]
            /\ blockno'[buf[r]] = blockno[buf[r]]
    BY <1>15, Returns DEF Waiting
  <2> QED
    BY <2>1, <2>2, ReqSame
<1>16. CASE Device
  <2>1. PICK r \in avail : /\ avail' = avail \ {r} /\ used' = Append(used, r.head)
                            /\ UNCHANGED <<blockno, busy, pc, buf, type, idx>>
    BY <1>16 DEF Device
  <2>2. PICK s \in Proc : Asks(s) /\ r = Request(s)
    BY DEF ReqInv
  <2>3. r.head \in Desc /\ r.head = First(idx[s])
    BY <2>2 DEF Request
  <2>4. /\ Len(used') = Len(used) + 1 /\ Len(used) \in Nat /\ used'[Len(used) + 1] = r.head
        /\ \A k \in 1..Len(used) : used'[k] = used[k]
    BY <2>1, <2>3, AppendFacts
  <2>5. \A k \in 1..Len(used') : k \in 1..Len(used) \/ k = Len(used) + 1
    BY <2>4
  <2>6. \A t \in Proc : Asks(t)' = Asks(t) /\ Request(t)' = Request(t)
    BY <2>1 DEF Asks, Request
  <2>7. \A o \in avail' : o.head # r.head
    <3> SUFFICES ASSUME NEW o \in avail, o # r PROVE o.head # r.head
      BY <2>1
    <3>1. PICK t \in Proc : Asks(t) /\ o = Request(t)
      BY DEF ReqInv
    <3>2. t # s /\ o.head = First(idx[t])
      BY <2>2, <3>1 DEF Request
    <3>3. First(idx[t]) \in idx[t] /\ First(idx[s]) \in idx[s]
      BY <2>2, <3>1, FirstIn DEF Asks, DescInv
    <3> QED
      BY <2>3, <3>2, <3>3 DEF DescInv
  <2>8. \A o \in avail' : \E t \in Proc : Asks(t)' /\ o = Request(t)'
    BY <2>1, <2>6 DEF ReqInv
  <2>9. \A k \in 1..Len(used') : \E t \in Proc : Asks(t)' /\ used'[k] = First(idx'[t])
    <3> TAKE k \in 1..Len(used')
    <3>1. CASE k \in 1..Len(used)
      BY <2>1, <2>4, <2>6, <3>1 DEF ReqInv
    <3>2. CASE k = Len(used) + 1
      BY <2>1, <2>2, <2>3, <2>4, <2>6, <3>2
    <3> QED
      BY <2>5, <3>1, <3>2
  <2>10. \A k, l \in 1..Len(used') : used'[k] = used'[l] => k = l
    <3>1. \A k \in 1..Len(used) : used[k] # r.head
      BY DEF ReqInv
    <3> TAKE k, l \in 1..Len(used')
    <3>2. CASE k \in 1..Len(used) /\ l \in 1..Len(used)
      BY <2>4, <3>2 DEF ReqInv
    <3>3. CASE k = Len(used) + 1 \/ l = Len(used) + 1
      BY <2>4, <2>5, <3>1, <3>3
    <3> QED
      BY <2>5, <3>2, <3>3
  <2>11. \A o \in avail' : \A k \in 1..Len(used') : used'[k] # o.head
    BY <2>1, <2>4, <2>5, <2>7 DEF ReqInv
  <2>12. Outstanding \subseteq Outstanding'
    BY <2>1, <2>3, DoneOutstanding
  <2>13. \A b \in busy' : \E t \in Proc : Asks(t)' /\ buf'[t] = b /\ First(idx'[t]) \in Outstanding'
    BY <2>1, <2>6, <2>12 DEF ReqInv
  <2> QED
    BY <2>8, <2>9, <2>10, <2>11, <2>13 DEF ReqInv
<1>17. CASE Intr
  <2>1. UNCHANGED <<avail, used, busy>>
    BY <1>17 DEF Intr
  <2>2. \A r \in Proc : pc[r] \in Waiting =>
            /\ pc'[r] \in Waiting /\ buf'[r] = buf[r] /\ idx'[r] = idx[r] /\ type'[r] = type[r]
            /\ blockno'[buf[r]] = blockno[buf[r]]
    BY <1>17 DEF Waiting, Intr
  <2> QED
    BY <2>1, <2>2, ReqSame
<1>18. CASE IntrUsed
  <2>1. /\ used # <<>> /\ busy' = busy \ {info[Head(used)]} /\ used' = Tail(used)
        /\ UNCHANGED <<avail, blockno, pc, buf, type, idx>>
    BY <1>18 DEF IntrUsed
  <2>2. /\ Head(used) = used[1] /\ Len(used) \in Nat \ {0} /\ Len(used') = Len(used) - 1
        /\ \A k \in 1..Len(used') : used'[k] = used[k + 1]
    BY <2>1, TailFacts
  <2>3. 1 \in 1..Len(used) /\ \A k \in 1..Len(used') : k + 1 \in 1..Len(used) /\ k + 1 # 1
    BY <2>2
  <2>4. PICK s \in Proc : Asks(s) /\ used[1] = First(idx[s])
    BY <2>3 DEF ReqInv
  <2>5. busy' = busy \ {buf[s]}
    BY <2>1, <2>2, <2>4 DEF DescInv, Asks
  <2>6. \A t \in Proc : Asks(t) /\ t # s =>
            Asks(t)' /\ Request(t)' = Request(t) /\ idx'[t] = idx[t] /\ buf'[t] = buf[t] /\ First(idx[t]) # used[1]
    <3> SUFFICES ASSUME NEW t \in Proc, Asks(t), t # s
                 PROVE  /\ Asks(t)' /\ Request(t)' = Request(t) /\ idx'[t] = idx[t]
                        /\ buf'[t] = buf[t] /\ First(idx[t]) # used[1]
      OBVIOUS
    <3>1. buf[t] # buf[s]
      BY <2>4, HoldsAlone DEF Asks, Holding, Writing
    <3>2. First(idx[t]) \in idx[t] /\ First(idx[s]) \in idx[s]
      BY <2>4, FirstIn DEF Asks, DescInv
    <3>3. First(idx[t]) # used[1]
      BY <2>4, <3>2 DEF DescInv
    <3> QED
      BY <2>1, <2>5, <3>1, <3>3 DEF Asks, Request
  <2>7. \A r \in avail' : \E t \in Proc : Asks(t)' /\ r = Request(t)'
    <3> TAKE r \in avail'
    <3>1. PICK t \in Proc : Asks(t) /\ r = Request(t)
      BY <2>1 DEF ReqInv
    <3>2. r.head = First(idx[t]) /\ r.head # used[1]
      BY <2>1, <2>3, <3>1 DEF ReqInv, Request
    <3> QED
      BY <2>4, <2>6, <3>1, <3>2
  <2>8. \A k \in 1..Len(used') : \E t \in Proc : Asks(t)' /\ used'[k] = First(idx'[t])
    <3> TAKE k \in 1..Len(used')
    <3>1. used'[k] = used[k + 1] /\ k + 1 \in 1..Len(used) /\ used[k + 1] # used[1]
      BY <2>2, <2>3 DEF ReqInv
    <3>2. PICK t \in Proc : Asks(t) /\ used[k + 1] = First(idx[t])
      BY <3>1 DEF ReqInv
    <3> QED
      BY <2>4, <2>6, <3>1, <3>2
  <2>9. \A k, l \in 1..Len(used') : used'[k] = used'[l] => k = l
    <3> TAKE k, l \in 1..Len(used')
    <3> HAVE used'[k] = used'[l]
    <3>1. used[k + 1] = used[l + 1] /\ k + 1 \in 1..Len(used) /\ l + 1 \in 1..Len(used)
      BY <2>2, <2>3
    <3>2. k + 1 = l + 1
      BY <3>1 DEF ReqInv
    <3> QED
      BY <3>2
  <2>10. \A r \in avail' : \A k \in 1..Len(used') : used'[k] # r.head
    BY <2>1, <2>2, <2>3 DEF ReqInv
  <2>11. \A d \in Outstanding : d = used[1] \/ d \in Outstanding'
    BY <2>1, TakenOutstanding
  <2>12. \A b \in busy' : \E t \in Proc : Asks(t)' /\ buf'[t] = b /\ First(idx'[t]) \in Outstanding'
    <3> TAKE b \in busy'
    <3>1. PICK t \in Proc : Asks(t) /\ buf[t] = b /\ First(idx[t]) \in Outstanding
      BY <2>5 DEF ReqInv
    <3>2. t # s
      BY <2>5, <3>1
    <3> QED
      BY <2>6, <2>11, <3>1, <3>2
  <2> QED
    BY <2>7, <2>8, <2>9, <2>10, <2>12 DEF ReqInv
<1>19. CASE IntrEnd
  <2>1. UNCHANGED <<avail, used, busy>>
    BY <1>19 DEF IntrEnd
  <2>2. \A r \in Proc : pc[r] \in Waiting =>
            /\ pc'[r] \in Waiting /\ buf'[r] = buf[r] /\ idx'[r] = idx[r] /\ type'[r] = type[r]
            /\ blockno'[buf[r]] = blockno[buf[r]]
    BY <1>19 DEF Waiting, IntrEnd
  <2> QED
    BY <2>1, <2>2, ReqSame
<1>20. CASE Halted
  <2>1. UNCHANGED <<avail, used, busy>>
    BY <1>20 DEF Halted, vars
  <2>2. \A r \in Proc : pc[r] \in Waiting =>
            /\ pc'[r] \in Waiting /\ buf'[r] = buf[r] /\ idx'[r] = idx[r] /\ type'[r] = type[r]
            /\ blockno'[buf[r]] = blockno[buf[r]]
    BY <1>20 DEF Waiting, Halted, vars
  <2> QED
    BY <2>1, <2>2, ReqSame
<1>21. CASE UNCHANGED vars
  <2>1. UNCHANGED <<avail, used, busy>>
    BY <1>21 DEF vars
  <2>2. \A r \in Proc : pc[r] \in Waiting =>
            /\ pc'[r] \in Waiting /\ buf'[r] = buf[r] /\ idx'[r] = idx[r] /\ type'[r] = type[r]
            /\ blockno'[buf[r]] = blockno[buf[r]]
    BY <1>21 DEF vars
  <2> QED
    BY <2>1, <2>2, ReqSame

<1> QED
  BY <1>1, <1>2, <1>3, <1>4, <1>5, <1>6, <1>7, <1>8, <1>9, <1>10, <1>11, <1>12,
     <1>13, <1>14, <1>15, <1>16, <1>17, <1>18, <1>19, <1>20, <1>21 DEF Next, Bread,
     User, Rest, Rw, Handler

(* Every wakeup() that makes a sleeper's wait pointless reaches it. *)
LEMMA StepSleep ==
  Typed /\ UserInv /\ OwnerInv /\ OneBuffer /\ ChanInv /\ DescInv /\ ReqInv /\
  SleepInv /\ [Next]_vars
  => SleepInv'
<1> SUFFICES ASSUME Typed, UserInv, OwnerInv, OneBuffer, ChanInv, DescInv, ReqInv,
                    SleepInv, [Next]_vars
             PROVE  SleepInv'
  OBVIOUS
<1>0. /\ pc \in [Proc -> PCs]
      /\ buf \in [Proc -> 0..NBUF]
      /\ idx \in [Proc -> SUBSET Desc]
      /\ avail \subseteq [head : Desc, type : {"in", "out"}, sector : Block, b : Buf]
      /\ used \in Seq(Desc)
      /\ chan \in [Proc -> Chan]
      /\ owner \in [Buf -> Proc \union {None}]
      /\ free \subseteq Desc
      /\ info \in [Desc -> 0..NBUF]
  BY DEF Typed
<1> USE <1>0 DEF Up, Goto, Wakeup, device, cache, driver
<1>1. ASSUME NEW p \in Proc, NEW bn \in Block, BgetHit(p, bn) PROVE SleepInv'
  <2>1. UNCHANGED <<free, idx, avail, used>>
    BY <1>1 DEF BgetHit
  <2>2. Outstanding' = Outstanding /\ Enough' = Enough
    BY <2>1 DEF Outstanding, Enough
  <2>3. \A r \in Proc : chan'[r] # None /\ pc'[r] \in {"lock_sleep", "desc_sleep", "disk_sleep"} =>
            chan[r] # None /\ pc'[r] = pc[r] /\ buf'[r] = buf[r] /\ owner'[buf[r]] = owner[buf[r]]
    BY <1>1 DEF BgetHit
  <2> QED
    BY <2>1, <2>2, <2>3 DEF SleepInv
<1>2. ASSUME NEW p \in Proc, NEW bn \in Block, BgetRecycle(p, bn) PROVE SleepInv'
  <2>1. UNCHANGED <<free, idx, avail, used>>
    BY <1>2 DEF BgetRecycle
  <2>2. Outstanding' = Outstanding /\ Enough' = Enough
    BY <2>1 DEF Outstanding, Enough
  <2>3. \A r \in Proc : chan'[r] # None /\ pc'[r] \in {"lock_sleep", "desc_sleep", "disk_sleep"} =>
            chan[r] # None /\ pc'[r] = pc[r] /\ buf'[r] = buf[r] /\ owner'[buf[r]] = owner[buf[r]]
    BY <1>2 DEF BgetRecycle
  <2> QED
    BY <2>1, <2>2, <2>3 DEF SleepInv
<1>3. ASSUME NEW p \in Proc, NEW bn \in Block, BgetPanic(p, bn) PROVE SleepInv'
  <2>1. UNCHANGED <<free, idx, avail, used>>
    BY <1>3 DEF BgetPanic
  <2>2. Outstanding' = Outstanding /\ Enough' = Enough
    BY <2>1 DEF Outstanding, Enough
  <2>3. \A r \in Proc : chan'[r] # None /\ pc'[r] \in {"lock_sleep", "desc_sleep", "disk_sleep"} =>
            chan[r] # None /\ pc'[r] = pc[r] /\ buf'[r] = buf[r] /\ owner'[buf[r]] = owner[buf[r]]
    BY <1>3 DEF BgetPanic
  <2> QED
    BY <2>1, <2>2, <2>3 DEF SleepInv
<1>4. ASSUME NEW p \in Proc, AcquireSleep(p) PROVE SleepInv'
  <2>1. UNCHANGED <<free, idx, avail, used, buf>> /\ pc[p] = "lock" /\ buf[p] \in Buf
    BY <1>4, HasBuffer DEF AcquireSleep
  <2>2. Outstanding' = Outstanding /\ Enough' = Enough
    BY <2>1 DEF Outstanding, Enough
  <2>3. CASE owner[buf[p]] # None /\ owner' = owner /\ pc' = [pc EXCEPT ![p] = "lock_sleep"]
              /\ chan' = [chan EXCEPT ![p] = LockOf(buf[p])]
    <3>1. owner[buf[p]] # p
      BY <2>1 DEF OwnerInv, Holding, Writing, Waiting
    <3> QED
      BY <2>1, <2>2, <2>3, <3>1 DEF SleepInv
  <2>4. CASE /\ owner[buf[p]] = None /\ owner' = [owner EXCEPT ![buf[p]] = p] /\ chan' = chan
             /\ \E l \in {"have", "rw"} : pc' = [pc EXCEPT ![p] = l]
    <3>1. \A r \in Proc : chan'[r] # None /\ pc'[r] \in {"lock_sleep", "desc_sleep", "disk_sleep"} =>
            r # p /\ chan[r] # None /\ pc'[r] = pc[r]
      BY <2>4
    <3>2. \A r \in Proc : owner[buf[r]] # None => owner'[buf[r]] = owner[buf[r]]
      BY <2>4
    <3> QED
      BY <2>1, <2>2, <3>1, <3>2 DEF SleepInv
  <2> QED
    BY <1>4, <2>3, <2>4 DEF AcquireSleep
<1>5. ASSUME NEW p \in Proc, LogWrite(p) PROVE SleepInv'
  <2>1. UNCHANGED <<free, idx, avail, used>>
    BY <1>5 DEF LogWrite
  <2>2. Outstanding' = Outstanding /\ Enough' = Enough
    BY <2>1 DEF Outstanding, Enough
  <2>3. \A r \in Proc : chan'[r] # None /\ pc'[r] \in {"lock_sleep", "desc_sleep", "disk_sleep"} =>
            chan[r] # None /\ pc'[r] = pc[r] /\ buf'[r] = buf[r] /\ owner'[buf[r]] = owner[buf[r]]
    BY <1>5 DEF LogWrite
  <2> QED
    BY <2>1, <2>2, <2>3 DEF SleepInv
<1>6. ASSUME NEW p \in Proc, WriteNow(p) PROVE SleepInv'
  <2>1. UNCHANGED <<free, idx, avail, used>>
    BY <1>6 DEF WriteNow
  <2>2. Outstanding' = Outstanding /\ Enough' = Enough
    BY <2>1 DEF Outstanding, Enough
  <2>3. \A r \in Proc : chan'[r] # None /\ pc'[r] \in {"lock_sleep", "desc_sleep", "disk_sleep"} =>
            chan[r] # None /\ pc'[r] = pc[r] /\ buf'[r] = buf[r] /\ owner'[buf[r]] = owner[buf[r]]
    BY <1>6 DEF WriteNow
  <2> QED
    BY <2>1, <2>2, <2>3 DEF SleepInv
<1>7. ASSUME NEW p \in Proc, WriteHome(p) PROVE SleepInv'
  <2>1. UNCHANGED <<free, idx, avail, used>>
    BY <1>7 DEF WriteHome
  <2>2. Outstanding' = Outstanding /\ Enough' = Enough
    BY <2>1 DEF Outstanding, Enough
  <2>3. \A r \in Proc : chan'[r] # None /\ pc'[r] \in {"lock_sleep", "desc_sleep", "disk_sleep"} =>
            chan[r] # None /\ pc'[r] = pc[r] /\ buf'[r] = buf[r] /\ owner'[buf[r]] = owner[buf[r]]
    BY <1>7 DEF WriteHome
  <2> QED
    BY <2>1, <2>2, <2>3 DEF SleepInv
<1>8. ASSUME NEW p \in Proc, Unpin(p) PROVE SleepInv'
  <2>1. UNCHANGED <<free, idx, avail, used>>
    BY <1>8 DEF Unpin
  <2>2. Outstanding' = Outstanding /\ Enough' = Enough
    BY <2>1 DEF Outstanding, Enough
  <2>3. \A r \in Proc : chan'[r] # None /\ pc'[r] \in {"lock_sleep", "desc_sleep", "disk_sleep"} =>
            chan[r] # None /\ pc'[r] = pc[r] /\ buf'[r] = buf[r] /\ owner'[buf[r]] = owner[buf[r]]
    BY <1>8 DEF Unpin
  <2> QED
    BY <2>1, <2>2, <2>3 DEF SleepInv
<1>9. ASSUME NEW p \in Proc, ReleaseSleep(p) PROVE SleepInv'
  <2>1. /\ UNCHANGED <<free, idx, avail, used, buf>> /\ pc[p] = "have" /\ pc' = [pc EXCEPT ![p] = "release"]
        /\ owner' = [owner EXCEPT ![buf[p]] = None]
        /\ chan' = [r \in Proc |-> IF chan[r] = LockOf(buf[p]) THEN None ELSE chan[r]]
    BY <1>9 DEF ReleaseSleep
  <2>2. Outstanding' = Outstanding /\ Enough' = Enough
    BY <2>1 DEF Outstanding, Enough
  <2>3. \A r \in Proc : chan'[r] # None /\ pc'[r] \in {"lock_sleep", "desc_sleep", "disk_sleep"} =>
            r # p /\ chan[r] # None /\ pc'[r] = pc[r] /\ chan[r] # LockOf(buf[p])
    BY <2>1
  <2>4. \A r \in Proc : chan'[r] # None /\ pc'[r] = "lock_sleep" => owner'[buf[r]] = owner[buf[r]]
    BY <2>1, <2>3 DEF ChanInv
  <2> QED
    BY <2>1, <2>2, <2>3, <2>4 DEF SleepInv
<1>10. ASSUME NEW p \in Proc, Brelse(p) PROVE SleepInv'
  <2>1. UNCHANGED <<free, idx, avail, used>>
    BY <1>10 DEF Brelse
  <2>2. Outstanding' = Outstanding /\ Enough' = Enough
    BY <2>1 DEF Outstanding, Enough
  <2>3. \A r \in Proc : chan'[r] # None /\ pc'[r] \in {"lock_sleep", "desc_sleep", "disk_sleep"} =>
            chan[r] # None /\ pc'[r] = pc[r] /\ buf'[r] = buf[r] /\ owner'[buf[r]] = owner[buf[r]]
    BY <1>10 DEF Brelse
  <2> QED
    BY <2>1, <2>2, <2>3 DEF SleepInv
<1>11. ASSUME NEW p \in Proc, Submit(p) PROVE SleepInv'
  <2> DEFINE q == [head |-> First(Three), type |-> type[p], sector |-> blockno[buf[p]], b |-> buf[p]]
  <2>1. /\ idx' = [idx EXCEPT ![p] = Three] /\ avail' = avail \union {q} /\ chan' = [chan EXCEPT ![p] = DiskOf(buf[p])]
        /\ UNCHANGED <<used, buf, owner>> /\ pc[p] = "rw" /\ pc' = [pc EXCEPT ![p] = "disk_sleep"] /\ Enough
    BY <1>11 DEF Submit
  <2>2. Outstanding \subseteq Outstanding'
    BY <2>1 DEF Outstanding
  <2>3. First(idx'[p]) \in Outstanding'
    <3>1. q \in avail' /\ q.head = First(Three) /\ idx'[p] = Three
      BY <2>1
    <3> QED
      BY <3>1 DEF Outstanding
  <2>4. \A r \in Proc : chan'[r] # None /\ r # p => chan[r] # None /\ pc'[r] = pc[r] /\ idx'[r] = idx[r]
    BY <2>1
  <2>5. \A r \in Proc : chan'[r] # None => pc'[r] # "desc_sleep"
    BY <2>1, <2>4 DEF SleepInv
  <2>6. pc'[p] = "disk_sleep"
    BY <2>1
  <2> QED
    BY <2>1, <2>2, <2>3, <2>4, <2>5, <2>6 DEF SleepInv
<1>12. ASSUME NEW p \in Proc, NoDesc(p) PROVE SleepInv'
  <2>1. UNCHANGED <<free, idx, avail, used, buf, owner>> /\ ~Enough /\ pc' = [pc EXCEPT ![p] = "desc_sleep"]
    BY <1>12 DEF NoDesc
  <2>2. Outstanding' = Outstanding /\ Enough' = Enough
    BY <2>1 DEF Outstanding, Enough
  <2>3. \A r \in Proc : chan'[r] # None /\ r # p => chan[r] # None /\ pc'[r] = pc[r]
    BY <1>12, <2>1 DEF NoDesc
  <2>4. pc'[p] = "desc_sleep"
    BY <2>1
  <2> QED
    BY <2>1, <2>2, <2>3, <2>4 DEF SleepInv
<1>13. ASSUME NEW p \in Proc, Wait(p) PROVE SleepInv'
  <2>1. pc[p] = "disk" /\ UNCHANGED <<avail, used, buf, owner>> /\ Outstanding' = Outstanding
    BY <1>13 DEF Wait, Outstanding
  <2>2. CASE /\ buf[p] \in busy /\ chan' = [chan EXCEPT ![p] = DiskOf(buf[p])]
             /\ pc' = [pc EXCEPT ![p] = "disk_sleep"] /\ UNCHANGED <<free, idx>>
    <3>1. PICK q \in Proc : Asks(q) /\ buf[q] = buf[p] /\ First(idx[q]) \in Outstanding
      BY <2>2 DEF ReqInv
    <3>2. q = p
      BY <2>1, <3>1, HoldsAlone DEF Asks, Holding, Writing, Waiting
    <3>3. Enough' = Enough
      BY <2>2 DEF Enough
    <3>4. \A r \in Proc : r # p => chan'[r] = chan[r] /\ pc'[r] = pc[r]
      BY <2>2
    <3>5. pc'[p] = "disk_sleep"
      BY <2>2
    <3> QED
      BY <2>1, <2>2, <3>1, <3>2, <3>3, <3>4, <3>5 DEF SleepInv
  <2>3. CASE /\ chan' = [r \in Proc |-> IF chan[r] = FreeDesc THEN None ELSE chan[r]]
             /\ idx' = [idx EXCEPT ![p] = {}] /\ \E l \in {"have", "written"} : pc' = [pc EXCEPT ![p] = l]
    <3>1. \A r \in Proc : chan'[r] # None /\ pc'[r] \in {"lock_sleep", "desc_sleep", "disk_sleep"} =>
            /\ chan[r] # None /\ chan[r] # FreeDesc /\ pc'[r] = pc[r] /\ idx'[r] = idx[r]
            /\ pc[r] # "desc_sleep"
      BY <2>3 DEF ChanInv
    <3> QED
      BY <2>1, <3>1 DEF SleepInv
  <2> QED
    BY <1>13, <2>2, <2>3 DEF Wait
<1>14. ASSUME NEW p \in Proc, Woken(p) PROVE SleepInv'
  <2>1. UNCHANGED <<free, idx, avail, used>>
    BY <1>14, Returns
  <2>2. Outstanding' = Outstanding /\ Enough' = Enough
    BY <2>1 DEF Outstanding, Enough
  <2>3. \A r \in Proc : chan'[r] # None /\ pc'[r] \in {"lock_sleep", "desc_sleep", "disk_sleep"} =>
            chan[r] # None /\ pc'[r] = pc[r] /\ buf'[r] = buf[r] /\ owner'[buf[r]] = owner[buf[r]]
    BY <1>14, Returns
  <2> QED
    BY <2>1, <2>2, <2>3 DEF SleepInv
<1>15. ASSUME NEW p \in Proc, KilledAwake(p) PROVE SleepInv'
  <2>1. UNCHANGED <<free, idx, avail, used>>
    BY <1>15, Returns
  <2>2. Outstanding' = Outstanding /\ Enough' = Enough
    BY <2>1 DEF Outstanding, Enough
  <2>3. \A r \in Proc : chan'[r] # None /\ pc'[r] \in {"lock_sleep", "desc_sleep", "disk_sleep"} =>
            chan[r] # None /\ pc'[r] = pc[r] /\ buf'[r] = buf[r] /\ owner'[buf[r]] = owner[buf[r]]
    BY <1>15, Returns
  <2> QED
    BY <2>1, <2>2, <2>3 DEF SleepInv
<1>16. CASE Device
  <2>1. PICK r \in avail : /\ avail' = avail \ {r} /\ used' = Append(used, r.head)
                            /\ UNCHANGED <<pc, buf, idx, owner, free, chan>>
    BY <1>16 DEF Device
  <2>5. Outstanding \subseteq Outstanding' /\ Enough' = Enough
    BY <2>1, DoneOutstanding DEF Enough
  <2> QED
    BY <2>1, <2>5 DEF SleepInv
<1>17. CASE Intr
  <2>1. UNCHANGED <<free, idx, avail, used>>
    BY <1>17 DEF Intr
  <2>2. Outstanding' = Outstanding /\ Enough' = Enough
    BY <2>1 DEF Outstanding, Enough
  <2>3. \A r \in Proc : chan'[r] # None /\ pc'[r] \in {"lock_sleep", "desc_sleep", "disk_sleep"} =>
            chan[r] # None /\ pc'[r] = pc[r] /\ buf'[r] = buf[r] /\ owner'[buf[r]] = owner[buf[r]]
    BY <1>17 DEF Intr
  <2> QED
    BY <2>1, <2>2, <2>3 DEF SleepInv
<1>18. CASE IntrUsed
  <2>1. /\ used # <<>> /\ used' = Tail(used)
        /\ chan' = [r \in Proc |-> IF chan[r] = DiskOf(info[Head(used)]) THEN None ELSE chan[r]]
        /\ UNCHANGED <<avail, pc, buf, idx, owner, free>>
    BY <1>18 DEF IntrUsed
  <2>2. /\ Head(used) = used[1] /\ Len(used) \in Nat \ {0} /\ Len(used') = Len(used) - 1
        /\ \A k \in 1..Len(used') : used'[k] = used[k + 1]
    BY <2>1, TailFacts
  <2>3. \A d \in Outstanding : d = used[1] \/ d \in Outstanding'
    BY <2>1, TakenOutstanding
  <2>4. \A r \in Proc : chan'[r] # None => chan[r] # None /\ chan[r] # DiskOf(info[used[1]])
    BY <2>1, <2>2
  <2>5. \A r \in Proc : chan'[r] # None /\ pc[r] = "disk_sleep" => First(idx[r]) # used[1]
    <3> SUFFICES ASSUME NEW r \in Proc, chan'[r] # None, pc[r] = "disk_sleep", First(idx[r]) = used[1]
                 PROVE  FALSE
      OBVIOUS
    <3>1. info[used[1]] = buf[r]
      BY DEF DescInv, Waiting
    <3>2. chan[r] = DiskOf(buf[r])
      BY <2>4 DEF ChanInv
    <3> QED
      BY <2>4, <3>1, <3>2
  <2>6. Enough' = Enough
    BY <2>1 DEF Enough
  <2> QED
    BY <2>1, <2>3, <2>4, <2>5, <2>6 DEF SleepInv
<1>19. CASE IntrEnd
  <2>1. UNCHANGED <<free, idx, avail, used>>
    BY <1>19 DEF IntrEnd
  <2>2. Outstanding' = Outstanding /\ Enough' = Enough
    BY <2>1 DEF Outstanding, Enough
  <2>3. \A r \in Proc : chan'[r] # None /\ pc'[r] \in {"lock_sleep", "desc_sleep", "disk_sleep"} =>
            chan[r] # None /\ pc'[r] = pc[r] /\ buf'[r] = buf[r] /\ owner'[buf[r]] = owner[buf[r]]
    BY <1>19 DEF IntrEnd
  <2> QED
    BY <2>1, <2>2, <2>3 DEF SleepInv
<1>20. CASE Halted
  <2>1. UNCHANGED <<free, idx, avail, used>>
    BY <1>20 DEF Halted, vars
  <2>2. Outstanding' = Outstanding /\ Enough' = Enough
    BY <2>1 DEF Outstanding, Enough
  <2>3. \A r \in Proc : chan'[r] # None /\ pc'[r] \in {"lock_sleep", "desc_sleep", "disk_sleep"} =>
            chan[r] # None /\ pc'[r] = pc[r] /\ buf'[r] = buf[r] /\ owner'[buf[r]] = owner[buf[r]]
    BY <1>20 DEF Halted, vars
  <2> QED
    BY <2>1, <2>2, <2>3 DEF SleepInv
<1>21. CASE UNCHANGED vars
  <2>1. UNCHANGED <<free, idx, avail, used>>
    BY <1>21 DEF vars
  <2>2. Outstanding' = Outstanding /\ Enough' = Enough
    BY <2>1 DEF Outstanding, Enough
  <2>3. \A r \in Proc : chan'[r] # None /\ pc'[r] \in {"lock_sleep", "desc_sleep", "disk_sleep"} =>
            chan[r] # None /\ pc'[r] = pc[r] /\ buf'[r] = buf[r] /\ owner'[buf[r]] = owner[buf[r]]
    BY <1>21 DEF vars
  <2> QED
    BY <2>1, <2>2, <2>3 DEF SleepInv

<1> QED
  BY <1>1, <1>2, <1>3, <1>4, <1>5, <1>6, <1>7, <1>8, <1>9, <1>10, <1>11, <1>12,
     <1>13, <1>14, <1>15, <1>16, <1>17, <1>18, <1>19, <1>20, <1>21 DEF Next, Bread,
     User, Rest, Rw, Handler

(* What a buffer has and what the disk has differ only while the block is pinned or
   its write is on the way. *)
LEMMA StepData ==
  Typed /\ OneBuffer /\ Counted /\ UserInv /\ OwnerInv /\ ValidInv /\ ReqInv /\
  DataInv /\ [Next]_vars
  => DataInv'
<1> SUFFICES ASSUME Typed, OneBuffer, Counted, UserInv, OwnerInv, ValidInv, ReqInv,
                    DataInv, [Next]_vars
             PROVE  DataInv'
  OBVIOUS
<1>0. /\ pc \in [Proc -> PCs]
      /\ buf \in [Proc -> 0..NBUF]
      /\ avail \subseteq [head : Desc, type : {"in", "out"}, sector : Block, b : Buf]
      /\ valid \subseteq Buf
      /\ blockno \in [Buf -> Block \union {None}]
      /\ data \in [Buf -> Value]
      /\ disk \in [Block -> Value]
      /\ type \in [Proc -> {"in", "out"}]
      /\ pinned \subseteq Block
  BY DEF Typed
<1> USE <1>0 DEF Up, Goto, Wakeup, device, cache, driver
<1>1. ASSUME NEW p \in Proc, NEW bn \in Block, BgetHit(p, bn) PROVE DataInv'
  <2>1. UNCHANGED <<disk, data, blockno, valid, pinned>> /\ avail \subseteq avail'
    BY <1>1 DEF BgetHit
  <2>2. \A r \in Proc : pc'[r] = "written" => pc[r] = "written" /\ buf'[r] = buf[r]
    BY <1>1 DEF BgetHit
  <2>3. \A r \in Proc : pc'[r] \in Waiting /\ (\A o \in avail' : o.b # buf'[r]) =>
                          pc[r] \in Waiting /\ buf'[r] = buf[r]
    BY <1>1 DEF Waiting, BgetHit
  <2>4. \A r \in Proc, b \in valid : buf[r] = b /\ type[r] = "out" => buf'[r] = b /\ type'[r] = "out"
    BY <1>1 DEF ValidInv, Writing, Waiting, BgetHit
  <2> QED
    BY <2>1, <2>2, <2>3, <2>4, DataSame
<1>2. ASSUME NEW p \in Proc, NEW bn \in Block, BgetRecycle(p, bn) PROVE DataInv'
  <2>1. PICK b \in Buf : /\ refcnt[b] = 0 /\ blockno' = [blockno EXCEPT ![b] = bn]
                         /\ valid' = valid \ {b} /\ buf' = [buf EXCEPT ![p] = b]
    BY <1>2 DEF BgetRecycle, Victim, Unused
  <2>2. /\ UNCHANGED <<disk, data, pinned, avail, type>> /\ pc[p] = "idle" /\ pc' = [pc EXCEPT ![p] = "lock"]
    BY <1>2 DEF BgetRecycle
  <2>3. \A r \in Proc : buf[r] # b
    BY <2>1, UnusedFacts
  <2>4. \A c \in Buf : c # b => ((data'[c] = disk'[blockno'[c]]) <=> Clean(c))
    BY <2>1, <2>2 DEF Clean
  <2>5. \A c \in valid' : blockno'[c] \notin pinned' /\ (\A r \in Proc : buf'[r] = c => type'[r] = "in")
                            => data'[c] = disk'[blockno'[c]]
    <3> TAKE c \in valid'
    <3> HAVE blockno'[c] \notin pinned' /\ (\A r \in Proc : buf'[r] = c => type'[r] = "in")
    <3>1. c \in valid /\ c # b /\ c \in Buf /\ blockno'[c] = blockno[c]
      BY <2>1
    <3>2. \A r \in Proc : buf[r] = c => type[r] = "in"
      BY <2>1, <2>2 DEF ValidInv, Writing, Waiting
    <3> QED
      BY <2>2, <2>4, <3>1, <3>2 DEF DataInv
  <2>6. \A r \in Proc : pc'[r] # "lock" => pc'[r] = pc[r] /\ buf'[r] = buf[r] /\ buf[r] # b
    BY <2>1, <2>2, <2>3
  <2>7. \A r \in Proc : pc[r] # "idle" => buf[r] \in Buf
    BY HasBuffer
  <2>8. \A r \in Proc : pc'[r] = "written" => data'[buf'[r]] = disk'[blockno'[buf'[r]]]
    BY <2>4, <2>6, <2>7 DEF DataInv
  <2>9. \A r \in Proc : pc'[r] \in Waiting /\ (\A o \in avail' : o.b # buf'[r])
                          => data'[buf'[r]] = disk'[blockno'[buf'[r]]]
    BY <2>2, <2>4, <2>6, <2>7 DEF DataInv, Waiting
  <2> QED
    BY <2>5, <2>8, <2>9 DEF DataInv, Clean
<1>3. ASSUME NEW p \in Proc, NEW bn \in Block, BgetPanic(p, bn) PROVE DataInv'
  <2>1. UNCHANGED <<disk, data, blockno, valid, pinned>> /\ avail \subseteq avail'
    BY <1>3 DEF BgetPanic
  <2>2. \A r \in Proc : pc'[r] = "written" => pc[r] = "written" /\ buf'[r] = buf[r]
    BY <1>3 DEF BgetPanic
  <2>3. \A r \in Proc : pc'[r] \in Waiting /\ (\A o \in avail' : o.b # buf'[r]) =>
                          pc[r] \in Waiting /\ buf'[r] = buf[r]
    BY <1>3 DEF Waiting, BgetPanic
  <2>4. \A r \in Proc, b \in valid : buf[r] = b /\ type[r] = "out" => buf'[r] = b /\ type'[r] = "out"
    BY <1>3 DEF ValidInv, Writing, Waiting, BgetPanic
  <2> QED
    BY <2>1, <2>2, <2>3, <2>4, DataSame
<1>4. ASSUME NEW p \in Proc, AcquireSleep(p) PROVE DataInv'
  <2>1. UNCHANGED <<disk, data, blockno, valid, pinned>> /\ avail \subseteq avail'
    BY <1>4 DEF AcquireSleep
  <2>2. \A r \in Proc : pc'[r] = "written" => pc[r] = "written" /\ buf'[r] = buf[r]
    BY <1>4 DEF AcquireSleep
  <2>3. \A r \in Proc : pc'[r] \in Waiting /\ (\A o \in avail' : o.b # buf'[r]) =>
                          pc[r] \in Waiting /\ buf'[r] = buf[r]
    BY <1>4 DEF Waiting, AcquireSleep
  <2>4. \A r \in Proc, b \in valid : buf[r] = b /\ type[r] = "out" => buf'[r] = b /\ type'[r] = "out"
    BY <1>4 DEF ValidInv, Writing, Waiting, AcquireSleep
  <2> QED
    BY <2>1, <2>2, <2>3, <2>4, DataSame
<1>5. ASSUME NEW p \in Proc, LogWrite(p) PROVE DataInv'
  <2>1. PICK v \in Value : data' = [data EXCEPT ![buf[p]] = v]
    BY <1>5 DEF LogWrite
  <2>2. UNCHANGED <<disk, blockno, valid, avail, buf>> /\ pc[p] = "have" /\ buf[p] \in Buf
    BY <1>5, HasBuffer DEF LogWrite
  <2>3. \A c \in Buf : c # buf[p] => ((data'[c] = disk'[blockno'[c]]) <=> Clean(c))
    BY <2>1, <2>2 DEF Clean
  <2>4. \A c \in valid' : blockno'[c] \notin pinned' /\ (\A r \in Proc : buf'[r] = c => type'[r] = "in")
                            => data'[c] = disk'[blockno'[c]]
    <3> TAKE c \in valid'
    <3> HAVE blockno'[c] \notin pinned' /\ (\A r \in Proc : buf'[r] = c => type'[r] = "in")
    <3>0. pinned' = pinned \union {blockno[buf[p]]} /\ UNCHANGED type
      BY <1>5 DEF LogWrite
    <3>1. c # buf[p] /\ c \in Buf
      BY <2>2, <3>0
    <3>2. blockno[c] \notin pinned /\ \A r \in Proc : buf[r] = c => type[r] = "in"
      BY <2>2, <3>0
    <3> QED
      BY <2>2, <2>3, <3>1, <3>2 DEF DataInv
  <2>5. \A r \in Proc : r # p /\ pc[r] \in Holding => buf[r] # buf[p]
    BY <2>2, HoldsAlone DEF Holding
  <2>6. \A r \in Proc : pc[r] # "idle" => buf[r] \in Buf
    BY HasBuffer
  <2>7. \A r \in Proc : pc'[r] \in {"written"} \union Waiting => r # p /\ pc'[r] = pc[r]
    BY <1>5 DEF LogWrite, Waiting
  <2>8. \A r \in Proc : pc'[r] = "written" => data'[buf'[r]] = disk'[blockno'[buf'[r]]]
    BY <2>2, <2>3, <2>5, <2>6, <2>7 DEF DataInv, Holding
  <2>9. \A r \in Proc : pc'[r] \in Waiting /\ (\A o \in avail' : o.b # buf'[r])
                          => data'[buf'[r]] = disk'[blockno'[buf'[r]]]
    <3> TAKE r \in Proc
    <3> HAVE pc'[r] \in Waiting /\ (\A o \in avail' : o.b # buf'[r])
    <3>1. r # p /\ pc'[r] = pc[r]
      BY <2>7
    <3>2. buf[r] # buf[p] /\ buf[r] \in Buf
      BY <2>5, <2>6, <3>1 DEF Holding, Writing, Waiting
    <3> QED
      BY <2>2, <2>3, <3>1, <3>2 DEF DataInv
  <2> QED
    BY <2>4, <2>8, <2>9 DEF DataInv, Clean
<1>6. ASSUME NEW p \in Proc, WriteNow(p) PROVE DataInv'
  <2>1. PICK v \in Value : data' = [data EXCEPT ![buf[p]] = v]
    BY <1>6 DEF WriteNow
  <2>2. UNCHANGED <<disk, blockno, valid, avail, buf>> /\ pc[p] = "have" /\ buf[p] \in Buf
    BY <1>6, HasBuffer DEF WriteNow
  <2>3. \A c \in Buf : c # buf[p] => ((data'[c] = disk'[blockno'[c]]) <=> Clean(c))
    BY <2>1, <2>2 DEF Clean
  <2>4. \A c \in valid' : blockno'[c] \notin pinned' /\ (\A r \in Proc : buf'[r] = c => type'[r] = "in")
                            => data'[c] = disk'[blockno'[c]]
    <3> TAKE c \in valid'
    <3> HAVE blockno'[c] \notin pinned' /\ (\A r \in Proc : buf'[r] = c => type'[r] = "in")
    <3>0. UNCHANGED pinned /\ type' = [type EXCEPT ![p] = "out"]
      BY <1>6 DEF WriteNow
    <3>1. c # buf[p] /\ c \in Buf
      BY <2>2, <3>0
    <3>2. blockno[c] \notin pinned /\ \A r \in Proc : buf[r] = c => type[r] = "in"
      BY <2>2, <3>0, <3>1
    <3> QED
      BY <2>2, <2>3, <3>1, <3>2 DEF DataInv
  <2>5. \A r \in Proc : r # p /\ pc[r] \in Holding => buf[r] # buf[p]
    BY <2>2, HoldsAlone DEF Holding
  <2>6. \A r \in Proc : pc[r] # "idle" => buf[r] \in Buf
    BY HasBuffer
  <2>7. \A r \in Proc : pc'[r] \in {"written"} \union Waiting => r # p /\ pc'[r] = pc[r]
    BY <1>6 DEF WriteNow, Waiting
  <2>8. \A r \in Proc : pc'[r] = "written" => data'[buf'[r]] = disk'[blockno'[buf'[r]]]
    BY <2>2, <2>3, <2>5, <2>6, <2>7 DEF DataInv, Holding
  <2>9. \A r \in Proc : pc'[r] \in Waiting /\ (\A o \in avail' : o.b # buf'[r])
                          => data'[buf'[r]] = disk'[blockno'[buf'[r]]]
    <3> TAKE r \in Proc
    <3> HAVE pc'[r] \in Waiting /\ (\A o \in avail' : o.b # buf'[r])
    <3>1. r # p /\ pc'[r] = pc[r]
      BY <2>7
    <3>2. buf[r] # buf[p] /\ buf[r] \in Buf
      BY <2>5, <2>6, <3>1 DEF Holding, Writing, Waiting
    <3> QED
      BY <2>2, <2>3, <3>1, <3>2 DEF DataInv
  <2> QED
    BY <2>4, <2>8, <2>9 DEF DataInv, Clean
<1>7. ASSUME NEW p \in Proc, WriteHome(p) PROVE DataInv'
  <2>1. UNCHANGED <<disk, data, blockno, valid, pinned>> /\ avail \subseteq avail'
    BY <1>7 DEF WriteHome
  <2>2. \A r \in Proc : pc'[r] = "written" => pc[r] = "written" /\ buf'[r] = buf[r]
    BY <1>7 DEF WriteHome
  <2>3. \A r \in Proc : pc'[r] \in Waiting /\ (\A o \in avail' : o.b # buf'[r]) =>
                          pc[r] \in Waiting /\ buf'[r] = buf[r]
    BY <1>7 DEF Waiting, WriteHome
  <2>4. \A r \in Proc, b \in valid : buf[r] = b /\ type[r] = "out" => buf'[r] = b /\ type'[r] = "out"
    BY <1>7 DEF ValidInv, Writing, Waiting, WriteHome
  <2> QED
    BY <2>1, <2>2, <2>3, <2>4, DataSame
<1>8. ASSUME NEW p \in Proc, Unpin(p) PROVE DataInv'
  <2>1. UNCHANGED <<disk, data, blockno, valid, avail, buf, type>> /\ pc[p] = "written" /\ pc' = [pc EXCEPT ![p] = "have"]
    BY <1>8 DEF Unpin
  <2>2. pinned' = pinned \/ pinned' = pinned \ {blockno[buf[p]]}
    BY <1>8 DEF Unpin
  <2>3. \A c : (data'[c] = disk'[blockno'[c]]) <=> Clean(c)
    BY <2>1 DEF Clean
  <2>4. \A c \in valid' : blockno'[c] \notin pinned' /\ (\A r \in Proc : buf'[r] = c => type'[r] = "in")
                            => data'[c] = disk'[blockno'[c]]
    <3> TAKE c \in valid'
    <3> HAVE blockno'[c] \notin pinned' /\ (\A r \in Proc : buf'[r] = c => type'[r] = "in")
    <3>1. CASE c = buf[p]
      BY <2>1, <2>3, <3>1 DEF DataInv
    <3>2. CASE c # buf[p]
      <4>1. blockno[c] # blockno[buf[p]]
        BY <2>1, <3>2, HasBuffer DEF OneBuffer
      <4> QED
        BY <2>1, <2>2, <2>3, <4>1 DEF DataInv
    <3> QED
      BY <3>1, <3>2
  <2>5. \A r \in Proc : pc'[r] = "written" => data'[buf'[r]] = disk'[blockno'[buf'[r]]]
    BY <2>1, <2>3 DEF DataInv
  <2>6. \A r \in Proc : pc'[r] \in Waiting /\ (\A o \in avail' : o.b # buf'[r])
                          => data'[buf'[r]] = disk'[blockno'[buf'[r]]]
    BY <2>1, <2>3 DEF DataInv, Waiting
  <2> QED
    BY <2>4, <2>5, <2>6 DEF DataInv, Clean
<1>9. ASSUME NEW p \in Proc, ReleaseSleep(p) PROVE DataInv'
  <2>1. UNCHANGED <<disk, data, blockno, valid, pinned>> /\ avail \subseteq avail'
    BY <1>9 DEF ReleaseSleep
  <2>2. \A r \in Proc : pc'[r] = "written" => pc[r] = "written" /\ buf'[r] = buf[r]
    BY <1>9 DEF ReleaseSleep
  <2>3. \A r \in Proc : pc'[r] \in Waiting /\ (\A o \in avail' : o.b # buf'[r]) =>
                          pc[r] \in Waiting /\ buf'[r] = buf[r]
    BY <1>9 DEF Waiting, ReleaseSleep
  <2>4. \A r \in Proc, b \in valid : buf[r] = b /\ type[r] = "out" => buf'[r] = b /\ type'[r] = "out"
    BY <1>9 DEF ValidInv, Writing, Waiting, ReleaseSleep
  <2> QED
    BY <2>1, <2>2, <2>3, <2>4, DataSame
<1>10. ASSUME NEW p \in Proc, Brelse(p) PROVE DataInv'
  <2>1. UNCHANGED <<disk, data, blockno, valid, pinned>> /\ avail \subseteq avail'
    BY <1>10 DEF Brelse
  <2>2. \A r \in Proc : pc'[r] = "written" => pc[r] = "written" /\ buf'[r] = buf[r]
    BY <1>10 DEF Brelse
  <2>3. \A r \in Proc : pc'[r] \in Waiting /\ (\A o \in avail' : o.b # buf'[r]) =>
                          pc[r] \in Waiting /\ buf'[r] = buf[r]
    BY <1>10 DEF Waiting, Brelse
  <2>4. \A r \in Proc, b \in valid : buf[r] = b /\ type[r] = "out" => buf'[r] = b /\ type'[r] = "out"
    BY <1>10 DEF ValidInv, Writing, Waiting, Brelse
  <2> QED
    BY <2>1, <2>2, <2>3, <2>4, DataSame
<1>11. ASSUME NEW p \in Proc, Submit(p) PROVE DataInv'
  <2> DEFINE q == [head |-> First(Three), type |-> type[p], sector |-> blockno[buf[p]], b |-> buf[p]]
  <2>1. /\ UNCHANGED <<disk, data, blockno, valid, pinned, buf, type>> /\ avail' = avail \union {q}
        /\ pc' = [pc EXCEPT ![p] = "disk_sleep"]
    BY <1>11 DEF Submit
  <2>2. q \in avail' /\ q.b = buf'[p]
    BY <2>1
  <2>3. \A r \in Proc : pc'[r] = "written" => pc[r] = "written"
    BY <2>1
  <2>4. \A r \in Proc : pc'[r] \in Waiting /\ (\A o \in avail' : o.b # buf'[r]) => pc[r] \in Waiting
    BY <2>1, <2>2
  <2> HIDE DEF q
  <2> QED
    BY <2>1, <2>3, <2>4, DataSame
<1>12. ASSUME NEW p \in Proc, NoDesc(p) PROVE DataInv'
  <2>1. UNCHANGED <<disk, data, blockno, valid, pinned>> /\ avail \subseteq avail'
    BY <1>12 DEF NoDesc
  <2>2. \A r \in Proc : pc'[r] = "written" => pc[r] = "written" /\ buf'[r] = buf[r]
    BY <1>12 DEF NoDesc
  <2>3. \A r \in Proc : pc'[r] \in Waiting /\ (\A o \in avail' : o.b # buf'[r]) =>
                          pc[r] \in Waiting /\ buf'[r] = buf[r]
    BY <1>12 DEF Waiting, NoDesc
  <2>4. \A r \in Proc, b \in valid : buf[r] = b /\ type[r] = "out" => buf'[r] = b /\ type'[r] = "out"
    BY <1>12 DEF ValidInv, Writing, Waiting, NoDesc
  <2> QED
    BY <2>1, <2>2, <2>3, <2>4, DataSame
<1>13. ASSUME NEW p \in Proc, Wait(p) PROVE DataInv'
  <2>1. /\ pc[p] = "disk" /\ UNCHANGED <<disk, data, blockno, pinned, avail, buf>>
    BY <1>13 DEF Wait
  <2>2. CASE UNCHANGED <<valid, type>> /\ pc' = [pc EXCEPT ![p] = "disk_sleep"]
    <3>1. \A r \in Proc : (pc'[r] = "written" => pc[r] = "written") /\ (pc'[r] \in Waiting => pc[r] \in Waiting)
      BY <2>1, <2>2 DEF Waiting
    <3> QED
      BY <2>1, <2>2, <3>1, DataSame
  <2>3. CASE /\ buf[p] \notin busy /\ valid' = valid \union {buf[p]} /\ type' = [type EXCEPT ![p] = "in"]
             /\ \E l \in {"have", "written"} : pc' = [pc EXCEPT ![p] = l]
    <3>1. Clean(buf[p])
      <4>1. \A o \in avail : o.b # buf[p]
        BY <2>3 DEF ReqInv, Asks, Request
      <4> QED
        BY <2>1, <4>1 DEF DataInv, Waiting
    <3>2. \A c : (data'[c] = disk'[blockno'[c]]) <=> Clean(c)
      BY <2>1 DEF Clean
    <3>3. \A c \in valid' : blockno'[c] \notin pinned' /\ (\A r \in Proc : buf'[r] = c => type'[r] = "in")
                              => data'[c] = disk'[blockno'[c]]
      <4> TAKE c \in valid'
      <4> HAVE blockno'[c] \notin pinned' /\ (\A r \in Proc : buf'[r] = c => type'[r] = "in")
      <4>1. CASE c = buf[p]
        BY <3>1, <3>2, <4>1
      <4>2. CASE c # buf[p]
        <5>1. c \in valid /\ blockno[c] \notin pinned
          BY <2>1, <2>3, <4>2
        <5>2. \A r \in Proc : buf[r] = c => type[r] = "in"
          BY <2>1, <2>3, <4>2
        <5> QED
          BY <3>2, <5>1, <5>2 DEF DataInv
      <4> QED
        BY <4>1, <4>2
    <3>4. \A r \in Proc : pc'[r] = "written" => r = p \/ pc[r] = "written"
      BY <2>3
    <3>5. \A r \in Proc : pc'[r] = "written" => data'[buf'[r]] = disk'[blockno'[buf'[r]]]
      BY <2>1, <3>1, <3>2, <3>4 DEF DataInv
    <3>6. \A r \in Proc : pc'[r] \in Waiting => pc[r] \in Waiting
      BY <2>3 DEF Waiting
    <3>7. \A r \in Proc : pc'[r] \in Waiting /\ (\A o \in avail' : o.b # buf'[r])
                            => data'[buf'[r]] = disk'[blockno'[buf'[r]]]
      BY <2>1, <3>2, <3>6 DEF DataInv
    <3> QED
      BY <3>3, <3>5, <3>7 DEF DataInv, Clean
  <2> QED
    BY <1>13, <2>2, <2>3 DEF Wait, StillBusy
<1>14. ASSUME NEW p \in Proc, Woken(p) PROVE DataInv'
  <2>1. UNCHANGED <<disk, data, blockno, valid, pinned>> /\ avail \subseteq avail'
    BY <1>14, Returns
  <2>2. \A r \in Proc : pc'[r] = "written" => pc[r] = "written" /\ buf'[r] = buf[r]
    BY <1>14, Returns
  <2>3. \A r \in Proc : pc'[r] \in Waiting /\ (\A o \in avail' : o.b # buf'[r]) =>
                          pc[r] \in Waiting /\ buf'[r] = buf[r]
    BY <1>14, Returns DEF Waiting
  <2>4. \A r \in Proc, b \in valid : buf[r] = b /\ type[r] = "out" => buf'[r] = b /\ type'[r] = "out"
    BY <1>14, Returns
  <2> QED
    BY <2>1, <2>2, <2>3, <2>4, DataSame
<1>15. ASSUME NEW p \in Proc, KilledAwake(p) PROVE DataInv'
  <2>1. UNCHANGED <<disk, data, blockno, valid, pinned>> /\ avail \subseteq avail'
    BY <1>15, Returns
  <2>2. \A r \in Proc : pc'[r] = "written" => pc[r] = "written" /\ buf'[r] = buf[r]
    BY <1>15, Returns
  <2>3. \A r \in Proc : pc'[r] \in Waiting /\ (\A o \in avail' : o.b # buf'[r]) =>
                          pc[r] \in Waiting /\ buf'[r] = buf[r]
    BY <1>15, Returns DEF Waiting
  <2>4. \A r \in Proc, b \in valid : buf[r] = b /\ type[r] = "out" => buf'[r] = b /\ type'[r] = "out"
    BY <1>15, Returns
  <2> QED
    BY <2>1, <2>2, <2>3, <2>4, DataSame
<1>16. CASE Device
  <2>1. PICK o \in avail :
          /\ avail' = avail \ {o} /\ UNCHANGED <<blockno, valid, pinned, pc, buf, type>>
          /\ IF o.type = "in"
               THEN data' = [data EXCEPT ![o.b] = disk[o.sector]] /\ UNCHANGED disk
               ELSE disk' = [disk EXCEPT ![o.sector] = data[o.b]] /\ UNCHANGED data
    BY <1>16 DEF Device
  <2>2. PICK s \in Proc : Asks(s) /\ o = Request(s)
    BY DEF ReqInv
  <2>3. /\ o.b = buf[s] /\ o.sector = blockno[buf[s]] /\ o.type = type[s]
        /\ buf[s] \in Buf /\ blockno[buf[s]] \in Block /\ pc[s] \in Waiting /\ blockno[buf[s]] # None
    BY <2>2, HasBuffer DEF Request, Asks, Waiting
  <2>4. data'[buf[s]] = disk'[blockno'[buf[s]]]
    BY <2>1, <2>3
  <2>5. \A c \in Buf : c # buf[s] /\ blockno[c] # None => ((data'[c] = disk'[blockno'[c]]) <=> Clean(c))
    <3> TAKE c \in Buf
    <3> HAVE c # buf[s] /\ blockno[c] # None
    <3>1. blockno[c] # blockno[buf[s]]
      BY <2>3 DEF OneBuffer
    <3>2. data'[c] = data[c] /\ disk'[blockno[c]] = disk[blockno[c]]
      BY <2>1, <2>3, <3>1
    <3> QED
      BY <2>1, <3>2 DEF Clean
  <2>6. \A c \in valid' : blockno'[c] \notin pinned' /\ (\A r \in Proc : buf'[r] = c => type'[r] = "in")
                            => data'[c] = disk'[blockno'[c]]
    <3> TAKE c \in valid'
    <3> HAVE blockno'[c] \notin pinned' /\ (\A r \in Proc : buf'[r] = c => type'[r] = "in")
    <3>1. c \in Buf /\ blockno[c] # None
      BY <2>1 DEF UserInv
    <3>2. Clean(c)
      BY <2>1 DEF DataInv
    <3> QED
      BY <2>4, <2>5, <3>1, <3>2
  <2>7. \A r \in Proc : pc[r] # "idle" => buf[r] \in Buf /\ blockno[buf[r]] # None
    BY HasBuffer
  <2>8. \A r \in Proc : pc'[r] = "written" => data'[buf'[r]] = disk'[blockno'[buf'[r]]]
    <3> TAKE r \in Proc
    <3> HAVE pc'[r] = "written"
    <3>1. pc[r] = "written" /\ buf'[r] = buf[r] /\ buf[r] \in Buf /\ blockno[buf[r]] # None /\ Clean(buf[r])
      BY <2>1, <2>7 DEF DataInv
    <3> QED
      BY <2>4, <2>5, <3>1
  <2>9. \A r \in Proc : pc'[r] \in Waiting /\ (\A q \in avail' : q.b # buf'[r])
                          => data'[buf'[r]] = disk'[blockno'[buf'[r]]]
    <3> TAKE r \in Proc
    <3> HAVE pc'[r] \in Waiting /\ (\A q \in avail' : q.b # buf'[r])
    <3>1. pc[r] \in Waiting /\ buf'[r] = buf[r] /\ buf[r] \in Buf /\ blockno[buf[r]] # None
      BY <2>1, <2>7 DEF Waiting
    <3>2. CASE buf[r] = buf[s]
      BY <2>4, <3>1, <3>2
    <3>3. CASE buf[r] # buf[s]
      <4>1. \A q \in avail : q.b # buf[r]
        BY <2>1, <2>3, <3>1, <3>3
      <4> QED
        BY <2>5, <3>1, <3>3, <4>1 DEF DataInv
    <3> QED
      BY <3>2, <3>3
  <2> QED
    BY <2>6, <2>8, <2>9 DEF DataInv, Clean
<1>17. CASE Intr
  <2>1. UNCHANGED <<disk, data, blockno, valid, pinned>> /\ avail \subseteq avail'
    BY <1>17 DEF Intr
  <2>2. \A r \in Proc : pc'[r] = "written" => pc[r] = "written" /\ buf'[r] = buf[r]
    BY <1>17 DEF Intr
  <2>3. \A r \in Proc : pc'[r] \in Waiting /\ (\A o \in avail' : o.b # buf'[r]) =>
                          pc[r] \in Waiting /\ buf'[r] = buf[r]
    BY <1>17 DEF Waiting, Intr
  <2>4. \A r \in Proc, b \in valid : buf[r] = b /\ type[r] = "out" => buf'[r] = b /\ type'[r] = "out"
    BY <1>17 DEF ValidInv, Writing, Waiting, Intr
  <2> QED
    BY <2>1, <2>2, <2>3, <2>4, DataSame
<1>18. CASE IntrUsed
  <2>1. UNCHANGED <<disk, data, blockno, valid, pinned>> /\ avail \subseteq avail'
    BY <1>18 DEF IntrUsed
  <2>2. \A r \in Proc : pc'[r] = "written" => pc[r] = "written" /\ buf'[r] = buf[r]
    BY <1>18 DEF IntrUsed
  <2>3. \A r \in Proc : pc'[r] \in Waiting /\ (\A o \in avail' : o.b # buf'[r]) =>
                          pc[r] \in Waiting /\ buf'[r] = buf[r]
    BY <1>18 DEF Waiting, IntrUsed
  <2>4. \A r \in Proc, b \in valid : buf[r] = b /\ type[r] = "out" => buf'[r] = b /\ type'[r] = "out"
    BY <1>18 DEF ValidInv, Writing, Waiting, IntrUsed
  <2> QED
    BY <2>1, <2>2, <2>3, <2>4, DataSame
<1>19. CASE IntrEnd
  <2>1. UNCHANGED <<disk, data, blockno, valid, pinned>> /\ avail \subseteq avail'
    BY <1>19 DEF IntrEnd
  <2>2. \A r \in Proc : pc'[r] = "written" => pc[r] = "written" /\ buf'[r] = buf[r]
    BY <1>19 DEF IntrEnd
  <2>3. \A r \in Proc : pc'[r] \in Waiting /\ (\A o \in avail' : o.b # buf'[r]) =>
                          pc[r] \in Waiting /\ buf'[r] = buf[r]
    BY <1>19 DEF Waiting, IntrEnd
  <2>4. \A r \in Proc, b \in valid : buf[r] = b /\ type[r] = "out" => buf'[r] = b /\ type'[r] = "out"
    BY <1>19 DEF ValidInv, Writing, Waiting, IntrEnd
  <2> QED
    BY <2>1, <2>2, <2>3, <2>4, DataSame
<1>20. CASE Halted
  <2>1. UNCHANGED <<disk, data, blockno, valid, pinned>> /\ avail \subseteq avail'
    BY <1>20 DEF Halted, vars
  <2>2. \A r \in Proc : pc'[r] = "written" => pc[r] = "written" /\ buf'[r] = buf[r]
    BY <1>20 DEF Halted, vars
  <2>3. \A r \in Proc : pc'[r] \in Waiting /\ (\A o \in avail' : o.b # buf'[r]) =>
                          pc[r] \in Waiting /\ buf'[r] = buf[r]
    BY <1>20 DEF Waiting, Halted, vars
  <2>4. \A r \in Proc, b \in valid : buf[r] = b /\ type[r] = "out" => buf'[r] = b /\ type'[r] = "out"
    BY <1>20 DEF ValidInv, Writing, Waiting, Halted, vars
  <2> QED
    BY <2>1, <2>2, <2>3, <2>4, DataSame
<1>21. CASE UNCHANGED vars
  <2>1. UNCHANGED <<disk, data, blockno, valid, pinned>> /\ avail \subseteq avail'
    BY <1>21 DEF vars
  <2>2. \A r \in Proc : pc'[r] = "written" => pc[r] = "written" /\ buf'[r] = buf[r]
    BY <1>21 DEF vars
  <2>3. \A r \in Proc : pc'[r] \in Waiting /\ (\A o \in avail' : o.b # buf'[r]) =>
                          pc[r] \in Waiting /\ buf'[r] = buf[r]
    BY <1>21 DEF vars
  <2>4. \A r \in Proc, b \in valid : buf[r] = b /\ type[r] = "out" => buf'[r] = b /\ type'[r] = "out"
    BY <1>21 DEF vars
  <2> QED
    BY <2>1, <2>2, <2>3, <2>4, DataSame

<1> QED
  BY <1>1, <1>2, <1>3, <1>4, <1>5, <1>6, <1>7, <1>8, <1>9, <1>10, <1>11, <1>12,
     <1>13, <1>14, <1>15, <1>16, <1>17, <1>18, <1>19, <1>20, <1>21 DEF Next, Bread,
     User, Rest, Rw, Handler

(* Every variable keeps its type. *)
LEMMA StepTyped == Typed /\ UserInv /\ [Next]_vars => Typed'
<1> SUFFICES ASSUME Typed, UserInv, [Next]_vars
             PROVE  Typed'
  OBVIOUS
<1> USE DEF Up, Goto, Wakeup, device, cache, driver
<1>1. ASSUME NEW p \in Proc, NEW bn \in Block, BgetHit(p, bn) PROVE Typed'
  <2>1. UNCHANGED <<disk, avail, used, irq, handler, blockno, valid, data, owner,
                    free, info, busy, pinned, type, idx, chan, kernel>>
    BY <1>1 DEF BgetHit
  <2>2. refcnt' \in [Buf -> Int]
    BY <1>1 DEF Typed, BgetHit, Cached
  <2>3. buf' \in [Proc -> 0..NBUF]
    BY <1>1, Buffers, Sizing DEF Typed, BgetHit, Cached
  <2>4. pc' \in [Proc -> PCs]
    BY <1>1 DEF Typed, BgetHit, PCs
  <2> QED
    BY <2>1, <2>2, <2>3, <2>4 DEF Typed
<1>2. ASSUME NEW p \in Proc, NEW bn \in Block, BgetRecycle(p, bn) PROVE Typed'
  <2>1. UNCHANGED <<disk, avail, used, irq, handler, data, owner, free, info, busy,
                    pinned, type, idx, chan, kernel>>
    BY <1>2 DEF BgetRecycle
  <2>2. blockno' \in [Buf -> Block \union {None}]
    BY <1>2 DEF Typed, BgetRecycle, Victim
  <2>3. valid' \subseteq Buf
    BY <1>2 DEF Typed, BgetRecycle, Victim
  <2>4. refcnt' \in [Buf -> Int]
    BY <1>2 DEF Typed, BgetRecycle, Victim
  <2>5. buf' \in [Proc -> 0..NBUF]
    BY <1>2, Buffers, Sizing DEF Typed, BgetRecycle, Victim
  <2>6. pc' \in [Proc -> PCs]
    BY <1>2 DEF Typed, BgetRecycle, PCs, Victim
  <2> QED
    BY <2>1, <2>2, <2>3, <2>4, <2>5, <2>6 DEF Typed
<1>3. ASSUME NEW p \in Proc, NEW bn \in Block, BgetPanic(p, bn) PROVE Typed'
  BY <1>3 DEF Typed, BgetPanic
<1>4. ASSUME NEW p \in Proc, AcquireSleep(p) PROVE Typed'
  <2>0. buf[p] \in Buf /\ blockno[buf[p]] \in Block
    BY <1>4, HasBuffer DEF AcquireSleep
  <2>1. UNCHANGED <<disk, avail, used, irq, handler, blockno, valid, refcnt, data,
                    free, info, busy, pinned, buf, type, idx, kernel>>
    BY <1>4 DEF AcquireSleep
  <2>2. owner' \in [Buf -> Proc \union {None}]
    BY <1>4, <2>0 DEF Typed, AcquireSleep
  <2>3. chan' \in [Proc -> Chan]
    <3>1. \/ chan' = [chan EXCEPT ![p] = LockOf(buf[p])]
          \/ chan' = chan
      BY <1>4 DEF AcquireSleep
    <3>2. chan \in [Proc -> Chan] /\ LockOf(buf[p]) \in Chan /\ None \in Chan
      BY <2>0, Channels DEF Typed
    <3> QED
      BY <3>1, <3>2
  <2>4. pc' \in [Proc -> PCs]
    BY <1>4, <2>0 DEF Typed, AcquireSleep, PCs
  <2> QED
    BY <2>1, <2>2, <2>3, <2>4 DEF Typed
<1>5. ASSUME NEW p \in Proc, LogWrite(p) PROVE Typed'
  <2>0. buf[p] \in Buf /\ blockno[buf[p]] \in Block
    BY <1>5, HasBuffer DEF LogWrite
  <2>1. UNCHANGED <<disk, avail, used, irq, handler, blockno, valid, owner, free,
                    info, busy, pc, buf, type, idx, chan, kernel>>
    BY <1>5 DEF LogWrite
  <2>2. data' \in [Buf -> Value]
    BY <1>5, <2>0 DEF Typed, LogWrite
  <2>3. refcnt' \in [Buf -> Int]
    BY <1>5, <2>0 DEF Typed, LogWrite, Pin
  <2>4. pinned' \subseteq Block
    BY <1>5, <2>0 DEF Typed, LogWrite
  <2> QED
    BY <2>1, <2>2, <2>3, <2>4 DEF Typed
<1>6. ASSUME NEW p \in Proc, WriteNow(p) PROVE Typed'
  <2>1. UNCHANGED <<disk, avail, used, irq, handler, blockno, valid, refcnt, owner,
                    free, info, busy, pinned, buf, idx, chan, kernel>>
    BY <1>6 DEF WriteNow
  <2>2. data' \in [Buf -> Value]
    BY <1>6 DEF Typed, WriteNow
  <2>3. pc' \in [Proc -> PCs]
    BY <1>6 DEF Typed, WriteNow, PCs
  <2>4. type' \in [Proc -> {"in", "out"}]
    BY <1>6 DEF Typed, WriteNow
  <2> QED
    BY <2>1, <2>2, <2>3, <2>4 DEF Typed
<1>7. ASSUME NEW p \in Proc, WriteHome(p) PROVE Typed'
  <2>1. UNCHANGED <<disk, avail, used, irq, handler, blockno, valid, refcnt, data,
                    owner, free, info, busy, pinned, buf, idx, chan, kernel>>
    BY <1>7 DEF WriteHome
  <2>2. pc' \in [Proc -> PCs]
    BY <1>7 DEF Typed, WriteHome, PCs
  <2>3. type' \in [Proc -> {"in", "out"}]
    BY <1>7 DEF Typed, WriteHome
  <2> QED
    BY <2>1, <2>2, <2>3 DEF Typed
<1>8. ASSUME NEW p \in Proc, Unpin(p) PROVE Typed'
  <2>1. UNCHANGED <<disk, avail, used, irq, handler, blockno, valid, data, owner,
                    free, info, busy, buf, type, idx, chan, kernel>>
    BY <1>8 DEF Unpin
  <2>2. refcnt' \in [Buf -> Int]
    BY <1>8 DEF Typed, Unpin
  <2>3. pinned' \subseteq Block
    BY <1>8 DEF Typed, Unpin
  <2>4. pc' \in [Proc -> PCs]
    BY <1>8 DEF Typed, Unpin, PCs
  <2> QED
    BY <2>1, <2>2, <2>3, <2>4 DEF Typed
<1>9. ASSUME NEW p \in Proc, ReleaseSleep(p) PROVE Typed'
  <2>1. UNCHANGED <<disk, avail, used, irq, handler, blockno, valid, refcnt, data,
                    free, info, busy, pinned, buf, type, idx, kernel>>
    BY <1>9 DEF ReleaseSleep
  <2>2. owner' \in [Buf -> Proc \union {None}]
    BY <1>9 DEF Typed, ReleaseSleep
  <2>3. chan' \in [Proc -> Chan]
    BY <1>9, Channels DEF Typed, ReleaseSleep
  <2>4. pc' \in [Proc -> PCs]
    BY <1>9 DEF Typed, ReleaseSleep, PCs
  <2> QED
    BY <2>1, <2>2, <2>3, <2>4 DEF Typed
<1>10. ASSUME NEW p \in Proc, Brelse(p) PROVE Typed'
  <2>0. buf[p] \in Buf /\ blockno[buf[p]] \in Block
    BY <1>10, HasBuffer DEF Brelse
  <2>1. UNCHANGED <<disk, avail, used, irq, handler, blockno, valid, data, owner,
                    free, info, busy, pinned, type, idx, chan, kernel>>
    BY <1>10 DEF Brelse
  <2>2. refcnt' \in [Buf -> Int]
    BY <1>10, <2>0 DEF Typed, Brelse
  <2>3. buf' \in [Proc -> 0..NBUF]
    BY <1>10, <2>0, Buffers, Sizing DEF Typed, Brelse
  <2>4. pc' \in [Proc -> PCs]
    BY <1>10, <2>0 DEF Typed, Brelse, PCs
  <2> QED
    BY <2>1, <2>2, <2>3, <2>4 DEF Typed
<1>11. ASSUME NEW p \in Proc, Submit(p) PROVE Typed'
  <2>0. /\ buf[p] \in Buf /\ blockno[buf[p]] \in Block
        /\ Three \subseteq free /\ First(Three) \in Desc
    BY <1>11, HasBuffer, ThreeFacts DEF Submit, Typed
  <2>1. UNCHANGED <<disk, used, irq, handler, blockno, valid, refcnt, data, owner,
                    pinned, buf, type, kernel>>
    BY <1>11 DEF Submit
  <2>2. free' \subseteq Desc
    BY <1>11, <2>0 DEF Typed, Submit
  <2>3. idx' \in [Proc -> SUBSET Desc]
    BY <1>11, <2>0 DEF Typed, Submit
  <2>4. info' \in [Desc -> 0..NBUF]
    BY <1>11, <2>0, Buffers, Sizing DEF Typed, Submit
  <2>5. busy' \subseteq Buf
    BY <1>11, <2>0 DEF Typed, Submit
  <2>6. avail' \subseteq [head : Desc, type : {"in", "out"}, sector : Block, b : Buf]
    BY <1>11, <2>0 DEF Typed, Submit
  <2>7. chan' \in [Proc -> Chan]
    BY <1>11, <2>0, Channels DEF Typed, Submit
  <2>8. pc' \in [Proc -> PCs]
    BY <1>11, <2>0 DEF Typed, Submit, PCs
  <2> QED
    BY <2>1, <2>2, <2>3, <2>4, <2>5, <2>6, <2>7, <2>8 DEF Typed
<1>12. ASSUME NEW p \in Proc, NoDesc(p) PROVE Typed'
  <2>1. UNCHANGED <<disk, avail, used, irq, handler, blockno, valid, refcnt, data,
                    owner, free, info, busy, pinned, buf, type, idx, kernel>>
    BY <1>12 DEF NoDesc
  <2>2. chan' \in [Proc -> Chan]
    BY <1>12, Channels DEF Typed, NoDesc
  <2>3. pc' \in [Proc -> PCs]
    BY <1>12 DEF Typed, NoDesc, PCs
  <2> QED
    BY <2>1, <2>2, <2>3 DEF Typed
<1>13. ASSUME NEW p \in Proc, Wait(p) PROVE Typed'
  <2>0. buf[p] \in Buf /\ blockno[buf[p]] \in Block
    BY <1>13, HasBuffer DEF Wait
  <2>1. UNCHANGED <<disk, avail, used, irq, handler, blockno, refcnt, data, owner,
                    busy, pinned, buf, kernel>>
    BY <1>13 DEF Wait
  <2>2. valid' \subseteq Buf
    BY <1>13, <2>0 DEF Typed, Wait, StillBusy
  <2>3. free' \subseteq Desc
    BY <1>13, <2>0 DEF Typed, Wait, StillBusy
  <2>4. info' \in [Desc -> 0..NBUF]
    <3>1. info' = info \/ info' = [info EXCEPT ![First(idx[p])] = 0]
      BY <1>13 DEF Wait
    <3>2. info \in [Desc -> 0..NBUF] /\ 0 \in 0..NBUF
      BY Sizing DEF Typed
    <3>3. [info EXCEPT ![First(idx[p])] = 0] \in [Desc -> 0..NBUF]
      BY <3>2
    <3> QED
      BY <3>1, <3>2, <3>3
  <2>5. type' \in [Proc -> {"in", "out"}]
    BY <1>13, <2>0 DEF Typed, Wait, StillBusy
  <2>6. idx' \in [Proc -> SUBSET Desc]
    BY <1>13, <2>0 DEF Typed, Wait, StillBusy
  <2>7. chan' \in [Proc -> Chan]
    <3>1. \/ chan' = [chan EXCEPT ![p] = DiskOf(buf[p])]
          \/ chan' = [r \in Proc |-> IF chan[r] = FreeDesc THEN None ELSE chan[r]]
      BY <1>13 DEF Wait
    <3>2. chan \in [Proc -> Chan] /\ DiskOf(buf[p]) \in Chan /\ None \in Chan
      BY <2>0, Channels DEF Typed
    <3> QED
      BY <3>1, <3>2
  <2>8. pc' \in [Proc -> PCs]
    BY <1>13, <2>0 DEF Typed, Wait, PCs, StillBusy
  <2> QED
    BY <2>1, <2>2, <2>3, <2>4, <2>5, <2>6, <2>7, <2>8 DEF Typed
<1>14. ASSUME NEW p \in Proc, Woken(p) PROVE Typed'
  <2>1. UNCHANGED <<disk, avail, used, irq, handler, blockno, valid, refcnt, data,
                    owner, free, info, busy, pinned, buf, type, idx, chan, kernel>>
    BY <1>14, Returns
  <2>2. pc' \in [Proc -> PCs]
    BY <1>14, Returns DEF Typed, PCs
  <2> QED
    BY <2>1, <2>2 DEF Typed
<1>15. ASSUME NEW p \in Proc, KilledAwake(p) PROVE Typed'
  <2>1. UNCHANGED <<disk, avail, used, irq, handler, blockno, valid, refcnt, data,
                    owner, free, info, busy, pinned, buf, type, idx, chan, kernel>>
    BY <1>15, Returns
  <2>2. pc' \in [Proc -> PCs]
    BY <1>15, Returns DEF Typed, PCs
  <2> QED
    BY <2>1, <2>2 DEF Typed
<1>16. CASE Device
  <2>1. UNCHANGED <<handler, blockno, valid, refcnt, owner, free, info, busy,
                    pinned, pc, buf, type, idx, chan, kernel>>
    BY <1>16 DEF Device
  <2>2. avail' \subseteq [head : Desc, type : {"in", "out"}, sector : Block, b : Buf]
    BY <1>16 DEF Typed, Device
  <2>3. used' \in Seq(Desc)
    BY <1>16, AppendFacts DEF Typed, Device
  <2>4. irq' \in BOOLEAN
    BY <1>16 DEF Typed, Device
  <2>5. data' \in [Buf -> Value]
    <3>1. PICK r \in avail : IF r.type = "in"
                             THEN data' = [data EXCEPT ![r.b] = disk[r.sector]] /\ UNCHANGED disk
                             ELSE disk' = [disk EXCEPT ![r.sector] = data[r.b]] /\ UNCHANGED data
      BY <1>16 DEF Device
    <3>2. r.b \in Buf /\ r.sector \in Block
      BY DEF Typed
    <3> QED
      BY <3>1, <3>2 DEF Typed
  <2>6. disk' \in [Block -> Value]
    <3>1. PICK r \in avail : IF r.type = "in"
                             THEN data' = [data EXCEPT ![r.b] = disk[r.sector]] /\ UNCHANGED disk
                             ELSE disk' = [disk EXCEPT ![r.sector] = data[r.b]] /\ UNCHANGED data
      BY <1>16 DEF Device
    <3>2. r.b \in Buf /\ r.sector \in Block
      BY DEF Typed
    <3> QED
      BY <3>1, <3>2 DEF Typed
  <2> QED
    BY <2>1, <2>2, <2>3, <2>4, <2>5, <2>6 DEF Typed
<1>17. CASE Intr
  BY <1>17 DEF Typed, Intr
<1>18. CASE IntrUsed
  <2>0. used # <<>> /\ Head(used) \in Desc /\ Tail(used) \in Seq(Desc)
    BY <1>18, TailFacts DEF IntrUsed, Typed
  <2>1. UNCHANGED <<disk, avail, irq, handler, blockno, valid, refcnt, data, owner,
                    free, info, pinned, pc, buf, type, idx, kernel>>
    BY <1>18 DEF IntrUsed
  <2>2. busy' \subseteq Buf
    BY <1>18, <2>0 DEF Typed, IntrUsed
  <2>3. used' \in Seq(Desc)
    BY <1>18, <2>0 DEF Typed, IntrUsed
  <2>4. chan' \in [Proc -> Chan]
    BY <1>18, <2>0, Channels DEF Typed, IntrUsed
  <2> QED
    BY <2>1, <2>2, <2>3, <2>4 DEF Typed
<1>19. CASE IntrEnd
  BY <1>19 DEF Typed, IntrEnd
<1>20. CASE Halted
  BY <1>20 DEF Typed, Halted, vars
<1>21. CASE UNCHANGED vars
  BY <1>21 DEF Typed, vars

<1> QED
  BY <1>1, <1>2, <1>3, <1>4, <1>5, <1>6, <1>7, <1>8, <1>9, <1>10, <1>11, <1>12,
     <1>13, <1>14, <1>15, <1>16, <1>17, <1>18, <1>19, <1>20, <1>21 DEF Next, Bread,
     User, Rest, Rw, Handler

-----------------------------------------------------------------------------
(* The invariant.                                                          *)

(* It holds after binit() and virtio_disk_init(). *)
LEMMA InitIInv == Init => IInv
<1> SUFFICES ASSUME Init PROVE IInv
  OBVIOUS
<1>1. Typed
  <2>1. free \subseteq Desc
    BY Sizing DEF Init
  <2>2. (CHOOSE v \in Value : TRUE) \in Value
    BY Sizing
  <2>3. data \in [Buf -> Value]
    BY <2>2 DEF Init
  <2>4. used \in Seq(Desc)
    BY DEF Init
  <2>5. info \in [Desc -> 0..NBUF] /\ buf \in [Proc -> 0..NBUF]
    BY Sizing DEF Init
  <2>6. chan \in [Proc -> Chan]
    BY Channels DEF Init
  <2>7. disk \in [Block -> Value] /\ avail = {} /\ irq \in BOOLEAN /\ handler \in BOOLEAN /\ kernel \in {"up", "panic"}
    BY DEF Init
  <2>8. /\ blockno \in [Buf -> Block \union {None}] /\ valid \subseteq Buf /\ busy \subseteq Buf
        /\ refcnt \in [Buf -> Int] /\ owner \in [Buf -> Proc \union {None}] /\ pinned \subseteq Block
    BY DEF Init
  <2>9. pc \in [Proc -> PCs] /\ type \in [Proc -> {"in", "out"}] /\ idx \in [Proc -> SUBSET Desc]
    BY DEF Init, PCs
  <2> QED
    BY <2>1, <2>3, <2>4, <2>5, <2>6, <2>7, <2>8, <2>9 DEF Typed
<1>2. LruInv
  <2>1. \A k \in 1..NBUF : NBUF + 1 - k \in Buf
    BY Sizing DEF Buf
  <2> QED
    BY <2>1, Sizing DEF Init, LruInv
<1>3. PinInv
  BY FS_EmptySet, Sizing DEF Init, PinInv
<1>4. OneBuffer
  BY DEF Init, OneBuffer
<1>5. Counted
  <2> SUFFICES ASSUME NEW b \in Buf
               PROVE  refcnt[b] = Cardinality(Users(b)) + (IF blockno[b] \in pinned THEN 1 ELSE 0)
    BY DEF Counted
  <2>1. Users(b) = {}
    BY Buffers DEF Init, Users
  <2>2. Cardinality(Users(b)) = 0
    BY <2>1, UsersFinite
  <2> QED
    BY <2>2 DEF Init
<1>6. UserInv /\ ValidInv
  BY DEF Init, UserInv, ValidInv, Writing, Waiting
<1>7. OwnerInv
  BY Sizing DEF Init, OwnerInv, Holding, Writing, Waiting
<1>8. ChanInv /\ SleepInv /\ IrqInv
  BY DEF Init, ChanInv, SleepInv, IrqInv
<1>9. DescInv
  <2>1. UNION {idx[p] : p \in Proc} = {}
    BY DEF Init
  <2>2. free \union UNION {idx[p] : p \in Proc} \in Rings
    BY <2>1 DEF Init
  <2> QED
    BY <2>2 DEF Init, DescInv, Waiting
<1>10. ReqInv
  BY DEF Init, ReqInv
<1>11. DataInv
  BY DEF Init, DataInv, Waiting
<1> QED
  BY <1>1, <1>2, <1>3, <1>4, <1>5, <1>6, <1>7, <1>8, <1>9, <1>10, <1>11 DEF IInv

(* Every step preserves it. *)
LEMMA StepIInv == IInv /\ [Next]_vars => IInv'
<1> SUFFICES ASSUME IInv, [Next]_vars PROVE IInv'
  OBVIOUS
<1>1. /\ Typed /\ LruInv /\ PinInv /\ OneBuffer /\ Counted /\ UserInv /\ OwnerInv /\ ValidInv
      /\ ChanInv /\ DescInv /\ ReqInv /\ IrqInv /\ DataInv /\ SleepInv
  BY DEF IInv
<1>2. Typed' /\ LruInv' /\ PinInv' /\ OneBuffer' /\ Counted'
  BY <1>1, StepTyped, StepLru, StepPin, StepOneBuffer, StepCounted
<1>3. UserInv' /\ OwnerInv' /\ ValidInv' /\ ChanInv' /\ IrqInv'
  BY <1>1, StepUser, StepOwner, StepValid, StepChan, StepIrq
<1>4. DescInv' /\ ReqInv' /\ DataInv' /\ SleepInv'
  BY <1>1, StepDesc, StepReq, StepData, StepSleep
<1> QED
  BY <1>2, <1>3, <1>4 DEF IInv

(* The invariant of the buffer cache and the disk driver holds in every    *)
(* state they can reach.                                                   *)
THEOREM Inductive == Spec => []IInv
<1>1. Init => IInv
  BY InitIInv
<1>2. IInv /\ [Next]_vars => IInv'
  BY StepIInv
<1> QED
  BY <1>1, <1>2, PTL DEF Spec

-----------------------------------------------------------------------------
(* What follows from it.                                                   *)

(* Every variable has its type, the used ring never has more entries than  *)
(* there are descriptors, and b->refcnt is never negative.                 *)
LEMMA TypesOK == IInv => TypeOK
<1> SUFFICES ASSUME IInv PROVE TypeOK
  OBVIOUS
<1>1. Typed /\ LruInv /\ PinInv /\ OneBuffer /\ Counted /\ ReqInv
  BY DEF IInv
<1>2. Len(used) <= NUM
  BY <1>1, ShortList DEF Typed, ReqInv
<1>3. refcnt \in [Buf -> 0..Cardinality(Proc)+1]
  <2>1. \A b \in Buf : refcnt[b] \in 0..Cardinality(Proc)+1
    <3> TAKE b \in Buf
    <3>1. /\ Cardinality(Users(b)) \in Nat /\ Cardinality(Proc) \in Nat
          /\ Cardinality(Users(b)) <= Cardinality(Proc)
      BY UsersFinite
    <3>2. refcnt[b] = Cardinality(Users(b)) + (IF blockno[b] \in pinned THEN 1 ELSE 0)
      BY <1>1 DEF Counted
    <3> QED
      BY <3>1, <3>2
  <2> QED
    BY <1>1, <2>1 DEF Typed
<1>4. \A b \in Buf : refcnt[b] = Cardinality({p \in Proc : buf[p] = b}) + (IF blockno[b] \in pinned THEN 1 ELSE 0)
  BY <1>1 DEF Counted, Users
<1>5. pinned \subseteq Block /\ Cardinality(pinned) <= MaxPinned
  BY <1>1 DEF Typed, PinInv
<1>6. lru \in [1..NBUF -> Buf] /\ \A k, l \in 1..NBUF : lru[k] = lru[l] => k = l
  BY <1>1 DEF LruInv
<1>7. \A b, c \in Buf : blockno[b] = blockno[c] /\ blockno[b] # None => b = c
  BY <1>1 DEF OneBuffer
<1>8. /\ disk \in [Block -> Value]
      /\ avail \subseteq [head : Desc, type : {"in", "out"}, sector : Block, b : Buf]
      /\ used \in Seq(Desc) /\ irq \in BOOLEAN /\ handler \in BOOLEAN
      /\ blockno \in [Buf -> Block \union {None}] /\ valid \subseteq Buf /\ busy \subseteq Buf
      /\ data \in [Buf -> Value] /\ owner \in [Buf -> Proc \union {None}]
      /\ free \subseteq Desc /\ info \in [Desc -> 0..NBUF]
      /\ pc \in [Proc -> PCs] /\ buf \in [Proc -> 0..NBUF] /\ type \in [Proc -> {"in", "out"}]
      /\ idx \in [Proc -> SUBSET Desc] /\ chan \in [Proc -> Chan] /\ kernel \in {"up", "panic"}
  BY <1>1 DEF Typed
<1> QED
  BY <1>2, <1>3, <1>4, <1>5, <1>6, <1>7, <1>8, Zenon DEF TypeOK

(* A block is in one buffer, a buffer's count says who uses it, the list   *)
(* has each buffer once.                                                   *)
THEOREM TypeCorrect == Spec => []TypeOK
  BY Inductive, TypesOK, PTL

(* A descriptor is free or belongs to one request, and each completion is  *)
(* of a request a process waits for: free_desc() does not panic.           *)
THEOREM DescriptorsOwned == Spec => []DescOwned
<1>1. IInv => DescOwned
  <2> SUFFICES ASSUME IInv PROVE DescOwned
    OBVIOUS
  <2>1. DescInv /\ ReqInv
    BY DEF IInv
  <2>2. ASSUME NEW d \in Outstanding
        PROVE  \E p \in Proc : Asks(p) /\ d = First(idx[p])
    <3>1. CASE \E r \in avail : d = r.head
      BY <2>1, <3>1 DEF ReqInv, Request
    <3>2. CASE \E k \in 1..Len(used) : d = used[k]
      BY <2>1, <3>2 DEF ReqInv
    <3> QED
      BY <3>1, <3>2 DEF Outstanding
  <2>3. \A d \in Outstanding : \E p \in Proc :
          pc[p] \in {"disk", "disk_sleep"} /\ d = First(idx[p]) /\ info[d] = buf[p] /\ buf[p] \in busy
    BY <2>1, <2>2 DEF Asks, Waiting, DescInv
  <2> QED
    BY <2>1, <2>3 DEF DescInv, DescOwned
<1> QED
  BY <1>1, Inductive, PTL

(* Nobody sleeps on a buffer's lock, on the free descriptors or on a       *)
(* request that nothing will wake.                                         *)
THEOREM SleepersWoken == Spec => []NoLostWakeup
<1>1. IInv => NoLostWakeup
  BY DEF IInv, SleepInv, IrqInv, NoLostWakeup
<1> QED
  BY <1>1, Inductive, PTL

-----------------------------------------------------------------------------
(* The cache and the disk are one array of blocks.                         *)

(* A block is where its valid buffer is, or on the disk. *)
LEMMA InBuffer ==
  ASSUME IInv, NEW b \in valid, NEW bn, bn = blockno[b]
  PROVE  Content(bn) = data[b] /\ b \in Buf /\ bn \in Block
<1>1. b \in Buf /\ bn # None /\ bn \in Block
  BY DEF IInv, Typed, UserInv
<1>2. \A c \in valid : blockno[c] = bn => c = b
  BY <1>1 DEF IInv, OneBuffer, Typed
<1>3. (CHOOSE c \in valid : blockno[c] = bn) = b
  BY <1>2
<1> QED
  BY <1>1, <1>3 DEF Content

LEMMA OnDisk ==
  ASSUME NEW bn, \A b \in valid : blockno[b] # bn
  PROVE  Content(bn) = disk[bn]
  BY DEF Content

(* The same after a step. *)
LEMMA InBufferNext ==
  ASSUME IInv', NEW b \in valid', NEW bn, bn = blockno'[b]
  PROVE  Content(bn)' = data'[b]
<1>1. b \in Buf /\ bn # None
  BY DEF IInv, Typed, UserInv
<1>2. \A c \in valid' : blockno'[c] = bn => c = b
  BY <1>1 DEF IInv, OneBuffer, Typed
<1>3. (CHOOSE c \in valid' : blockno'[c] = bn) = b
  BY <1>2
<1> QED
  BY <1>3 DEF Content

LEMMA OnDiskNext ==
  ASSUME NEW bn, \A b \in valid' : blockno'[b] # bn
  PROVE  Content(bn)' = disk'[bn]
  BY DEF Content

(* One step of the store, or none. *)
Refines == [Store!Next]_<<Contents, HasBlock>>

LEMMA Stutters ==
  ASSUME \A bn \in Block : Content(bn)' = Content(bn), \A r \in Proc : Has(r)' = Has(r)
  PROVE  Refines
<1>1. Contents' = Contents
  BY DEF Contents
<1>2. HasBlock' = HasBlock
  BY DEF HasBlock
<1> QED
  BY <1>1, <1>2 DEF Refines

LEMMA Gets ==
  ASSUME NEW p \in Proc, NEW bn \in Block, \A x \in Block : Content(x)' = Content(x),
         \A r \in Proc : bn \notin Has(r), Has(p)' = Has(p) \union {bn},
         \A r \in Proc : r # p => Has(r)' = Has(r)
  PROVE  Refines
<1>1. Contents' = Contents
  BY DEF Contents
<1>2. HasBlock' = [HasBlock EXCEPT ![p] = @ \union {bn}] /\ \A r \in Proc : bn \notin HasBlock[r]
  BY DEF HasBlock
<1>3. Store!Get(p, bn)
  BY <1>1, <1>2 DEF Store!Get
<1> QED
  BY <1>3 DEF Refines, Store!Next

LEMMA Puts ==
  ASSUME NEW p \in Proc, NEW bn \in Block, \A x \in Block : Content(x)' = Content(x),
         bn \in Has(p), Has(p)' = Has(p) \ {bn}, \A r \in Proc : r # p => Has(r)' = Has(r)
  PROVE  Refines
<1>1. Contents' = Contents
  BY DEF Contents
<1>2. HasBlock' = [HasBlock EXCEPT ![p] = @ \ {bn}] /\ bn \in HasBlock[p]
  BY DEF HasBlock
<1>3. Store!Put(p, bn)
  BY <1>1, <1>2 DEF Store!Put
<1> QED
  BY <1>3 DEF Refines, Store!Next

LEMMA Stores ==
  ASSUME NEW p \in Proc, NEW bn \in Block, NEW v \in Value, bn \in Has(p), Content(bn)' = v,
         \A x \in Block : x # bn => Content(x)' = Content(x), \A r \in Proc : Has(r)' = Has(r)
  PROVE  Refines
<1>1. Contents' = [Contents EXCEPT ![bn] = v]
  BY DEF Contents
<1>2. HasBlock' = HasBlock /\ bn \in HasBlock[p]
  BY DEF HasBlock
<1>3. Store!Store(p, bn, v)
  BY <1>1, <1>2 DEF Store!Store
<1> QED
  BY <1>3 DEF Refines, Store!Next

(* A step that leaves the blocks alone, and who has one. *)
LEMMA SameContents ==
  ASSUME UNCHANGED <<disk, data, blockno, valid>>
  PROVE  \A bn \in Block : Content(bn)' = Content(bn)
  BY DEF Content

(* Every step of the cache, the driver or the device is one of the store, or none. *)
LEMMA StepRefines == IInv /\ IInv' /\ [Next]_vars => Refines
<1> SUFFICES ASSUME IInv, IInv', [Next]_vars
             PROVE  Refines
  OBVIOUS
<1>0. /\ pc \in [Proc -> PCs]
      /\ buf \in [Proc -> 0..NBUF]
      /\ valid \subseteq Buf
      /\ blockno \in [Buf -> Block \union {None}]
      /\ data \in [Buf -> Value]
      /\ disk \in [Block -> Value]
      /\ type \in [Proc -> {"in", "out"}]
      /\ avail \subseteq [head : Desc, type : {"in", "out"}, sector : Block, b : Buf]
  BY DEF IInv, Typed
<1>00. \A r \in Proc : type[r] = "out" => pc[r] \in Writing /\ pc[r] \in {"rw", "desc_sleep", "disk", "disk_sleep"}
  BY DEF IInv, ValidInv, Typed, Writing, Waiting
<1> USE <1>0 DEF Up, Goto, Wakeup, device, cache, driver
<1>1. ASSUME NEW p \in Proc, NEW bn \in Block, BgetHit(p, bn) PROVE Refines
  <2>1. UNCHANGED <<disk, data, blockno, valid>>
    BY <1>1 DEF BgetHit
  <2>2. \A r \in Proc : Has(r)' = Has(r)
    BY <1>1, <1>00 DEF Has, BgetHit
  <2> QED
    BY <2>1, <2>2, SameContents, Stutters
<1>2. ASSUME NEW p \in Proc, NEW bn \in Block, BgetRecycle(p, bn) PROVE Refines
  <2>1. PICK b \in Buf : /\ refcnt[b] = 0 /\ blockno' = [blockno EXCEPT ![b] = bn]
                         /\ valid' = valid \ {b} /\ buf' = [buf EXCEPT ![p] = b]
    BY <1>2 DEF BgetRecycle, Victim, Unused
  <2>2. /\ UNCHANGED <<disk, data, type>> /\ pc[p] = "idle" /\ pc' = [pc EXCEPT ![p] = "lock"]
        /\ \A c \in Buf : blockno[c] # bn
    BY <1>2 DEF BgetRecycle, Cached
  <2>3. blockno[b] \notin pinned /\ \A r \in Proc : buf[r] # b
    BY <2>1, UnusedFacts DEF IInv
  <2>4. \A r \in Proc : Has(r)' = Has(r)
    <3> TAKE r \in Proc
    <3>1. CASE r = p
      BY <2>2, <3>1, <1>00 DEF Has
    <3>2. CASE r # p /\ pc[r] = "idle"
      BY <2>2, <3>2, <1>00 DEF Has
    <3>3. CASE r # p /\ pc[r] # "idle"
      <4>1. buf[r] \in Buf /\ buf[r] # b
        BY <2>3, <3>3, HasBuffer DEF IInv
      <4>2. blockno'[buf[r]] = blockno[buf[r]] /\ buf'[r] = buf[r] /\ pc'[r] = pc[r] /\ type'[r] = type[r]
        BY <2>1, <2>2, <3>3, <4>1
      <4> QED
        BY <4>2 DEF Has
    <3> QED
      BY <3>1, <3>2, <3>3
  <2>5. \A x \in Block : Content(x)' = Content(x)
    <3> TAKE x \in Block
    <3>1. CASE \E c \in valid' : blockno'[c] = x
      <4>1. PICK c \in valid' : blockno'[c] = x
        BY <3>1
      <4>2. c \in valid /\ c # b /\ blockno[c] = x
        BY <2>1, <4>1
      <4>3. Content(x)' = data'[c]
        BY <4>1, InBufferNext
      <4>4. Content(x) = data[c]
        BY <4>2, InBuffer
      <4> QED
        BY <2>2, <4>3, <4>4
    <3>2. CASE ~ \E c \in valid' : blockno'[c] = x
      <4>1. Content(x)' = disk'[x]
        BY <3>2, OnDiskNext
      <4>2. CASE b \in valid /\ blockno[b] = x
        <5>1. Clean(b)
          BY <2>3, <4>2 DEF IInv, DataInv
        <5>2. Content(x) = data[b]
          BY <4>2, InBuffer
        <5> QED
          BY <2>2, <4>1, <4>2, <5>1, <5>2 DEF Clean
      <4>3. CASE ~(b \in valid /\ blockno[b] = x)
        <5>1. \A c \in valid : blockno[c] # x
          BY <2>1, <3>2, <4>3
        <5>2. Content(x) = disk[x]
          BY <5>1, OnDisk
        <5> QED
          BY <2>2, <4>1, <5>2
      <4> QED
        BY <4>2, <4>3
    <3> QED
      BY <3>1, <3>2
  <2> QED
    BY <2>4, <2>5, Stutters
<1>3. ASSUME NEW p \in Proc, NEW bn \in Block, BgetPanic(p, bn) PROVE Refines
  <2>1. UNCHANGED <<disk, data, blockno, valid>>
    BY <1>3 DEF BgetPanic
  <2>2. \A r \in Proc : Has(r)' = Has(r)
    BY <1>3, <1>00 DEF Has, BgetPanic
  <2> QED
    BY <2>1, <2>2, SameContents, Stutters
<1>4. ASSUME NEW p \in Proc, AcquireSleep(p) PROVE Refines
  <2>1. UNCHANGED <<disk, data, blockno, valid, buf, type>> /\ pc[p] = "lock" /\ buf[p] \in Buf /\ blockno[buf[p]] \in Block
    BY <1>4, HasBuffer DEF AcquireSleep, IInv
  <2>2. \A x \in Block : Content(x)' = Content(x)
    BY <2>1, SameContents
  <2>3. Has(p) = {}
    BY <2>1, <1>00 DEF Has
  <2>4. CASE \E l \in {"lock_sleep", "rw"} : pc' = [pc EXCEPT ![p] = l]
    <3>1. \A r \in Proc : Has(r)' = Has(r)
      BY <2>1, <2>4 DEF Has
    <3> QED
      BY <2>2, <3>1, Stutters
  <2>5. CASE owner[buf[p]] = None /\ pc' = [pc EXCEPT ![p] = "have"]
    <3>1. \A r \in Proc : blockno[buf[p]] \notin Has(r)
      <4> SUFFICES ASSUME NEW r \in Proc, blockno[buf[p]] \in Has(r) PROVE FALSE
        OBVIOUS
      <4>1. pc[r] \in Holding /\ blockno[buf[r]] = blockno[buf[p]]
        BY <1>00 DEF Has, Holding
      <4>2. buf[r] \in Buf /\ blockno[buf[r]] # None
        BY <4>1, HasBuffer DEF IInv, Holding, Writing, Waiting
      <4>3. buf[r] = buf[p]
        BY <2>1, <4>1, <4>2 DEF IInv, OneBuffer
      <4>4. owner[buf[r]] = r
        BY <4>1, <4>2 DEF IInv, OwnerInv
      <4> QED
        BY <2>5, <4>3, <4>4, Sizing
    <3>2. Has(p)' = {blockno[buf[p]]}
      BY <2>1, <2>5 DEF Has
    <3>3. \A r \in Proc : r # p => Has(r)' = Has(r)
      BY <2>1, <2>5 DEF Has
    <3> DEFINE bn == blockno[buf[p]]
    <3>4. bn \in Block /\ (\A r \in Proc : bn \notin Has(r)) /\ Has(p)' = Has(p) \union {blockno[buf[p]]}
      BY <2>1, <2>3, <3>1, <3>2
    <3>5. PICK x \in Block : x = blockno[buf[p]]
      BY <2>1
    <3> QED
      BY <2>2, <3>3, <3>4, <3>5, Gets
  <2> QED
    BY <1>4, <2>4, <2>5 DEF AcquireSleep
<1>5. ASSUME NEW p \in Proc, LogWrite(p) PROVE Refines
  <2>1. PICK v \in Value : data' = [data EXCEPT ![buf[p]] = v]
    BY <1>5 DEF LogWrite
  <2>2. UNCHANGED <<disk, blockno, valid, buf>> /\ pc[p] = "have"
    BY <1>5 DEF LogWrite
  <2>3. buf[p] \in Buf /\ buf[p] \in valid
    BY <2>2, HasBuffer DEF IInv, ValidInv
  <2>4. PICK bn \in Block : bn = blockno[buf[p]]
    BY <2>2, HasBuffer DEF IInv
  <2>5. bn \in Has(p) /\ \A r \in Proc : Has(r)' = Has(r)
    BY <1>5, <2>4 DEF Has, LogWrite
  <2>6. Content(bn)' = v
    <3>1. PICK b \in valid : b = buf[p]
      BY <2>3
    <3>2. b \in valid' /\ blockno'[b] = bn /\ data'[b] = v
      BY <2>1, <2>2, <2>3, <2>4, <3>1
    <3> QED
      BY <3>2, InBufferNext
  <2>7. \A x \in Block : x # bn => Content(x)' = Content(x)
    <3> TAKE x \in Block
    <3> HAVE x # bn
    <3>1. CASE \E c \in valid : blockno[c] = x
      <4>1. PICK c \in valid : blockno[c] = x
        BY <3>1
      <4>2. c \in valid' /\ blockno'[c] = x /\ data'[c] = data[c]
        BY <2>1, <2>2, <2>4, <4>1
      <4> QED
        BY <4>1, <4>2, InBuffer, InBufferNext
    <3>2. CASE ~ \E c \in valid : blockno[c] = x
      <4>1. Content(x) = disk[x]
        BY <3>2, OnDisk
      <4>2. Content(x)' = disk'[x]
        BY <2>2, <3>2, OnDiskNext
      <4> QED
        BY <2>2, <4>1, <4>2
    <3> QED
      BY <3>1, <3>2
  <2> QED
    BY <2>5, <2>6, <2>7, Stores
<1>6. ASSUME NEW p \in Proc, WriteNow(p) PROVE Refines
  <2>1. PICK v \in Value : data' = [data EXCEPT ![buf[p]] = v]
    BY <1>6 DEF WriteNow
  <2>2. UNCHANGED <<disk, blockno, valid, buf>> /\ pc[p] = "have"
    BY <1>6 DEF WriteNow
  <2>3. buf[p] \in Buf /\ buf[p] \in valid
    BY <2>2, HasBuffer DEF IInv, ValidInv
  <2>4. PICK bn \in Block : bn = blockno[buf[p]]
    BY <2>2, HasBuffer DEF IInv
  <2>5. bn \in Has(p) /\ \A r \in Proc : Has(r)' = Has(r)
    BY <1>6, <2>4 DEF Has, WriteNow
  <2>6. Content(bn)' = v
    <3>1. PICK b \in valid : b = buf[p]
      BY <2>3
    <3>2. b \in valid' /\ blockno'[b] = bn /\ data'[b] = v
      BY <2>1, <2>2, <2>3, <2>4, <3>1
    <3> QED
      BY <3>2, InBufferNext
  <2>7. \A x \in Block : x # bn => Content(x)' = Content(x)
    <3> TAKE x \in Block
    <3> HAVE x # bn
    <3>1. CASE \E c \in valid : blockno[c] = x
      <4>1. PICK c \in valid : blockno[c] = x
        BY <3>1
      <4>2. c \in valid' /\ blockno'[c] = x /\ data'[c] = data[c]
        BY <2>1, <2>2, <2>4, <4>1
      <4> QED
        BY <4>1, <4>2, InBuffer, InBufferNext
    <3>2. CASE ~ \E c \in valid : blockno[c] = x
      <4>1. Content(x) = disk[x]
        BY <3>2, OnDisk
      <4>2. Content(x)' = disk'[x]
        BY <2>2, <3>2, OnDiskNext
      <4> QED
        BY <2>2, <4>1, <4>2
    <3> QED
      BY <3>1, <3>2
  <2> QED
    BY <2>5, <2>6, <2>7, Stores
<1>7. ASSUME NEW p \in Proc, WriteHome(p) PROVE Refines
  <2>1. UNCHANGED <<disk, data, blockno, valid>>
    BY <1>7 DEF WriteHome
  <2>2. \A r \in Proc : Has(r)' = Has(r)
    BY <1>7, <1>00 DEF Has, WriteHome
  <2> QED
    BY <2>1, <2>2, SameContents, Stutters
<1>8. ASSUME NEW p \in Proc, Unpin(p) PROVE Refines
  <2>1. UNCHANGED <<disk, data, blockno, valid>>
    BY <1>8 DEF Unpin
  <2>2. \A r \in Proc : Has(r)' = Has(r)
    BY <1>8, <1>00 DEF Has, Unpin
  <2> QED
    BY <2>1, <2>2, SameContents, Stutters
<1>9. ASSUME NEW p \in Proc, ReleaseSleep(p) PROVE Refines
  <2>1. UNCHANGED <<disk, data, blockno, valid, buf, type>> /\ pc[p] = "have" /\ pc' = [pc EXCEPT ![p] = "release"]
    BY <1>9 DEF ReleaseSleep
  <2>2. PICK bn \in Block : bn = blockno[buf[p]]
    BY <2>1, HasBuffer DEF IInv
  <2>3. Has(p) = {bn} /\ Has(p)' = {} /\ \A r \in Proc : r # p => Has(r)' = Has(r)
    BY <2>1, <2>2, <1>00 DEF Has
  <2>4. bn \in Has(p) /\ Has(p)' = Has(p) \ {bn}
    BY <2>3
  <2>5. \A x \in Block : Content(x)' = Content(x)
    BY <2>1, SameContents
  <2> QED
    BY <2>3, <2>4, <2>5, Puts
<1>10. ASSUME NEW p \in Proc, Brelse(p) PROVE Refines
  <2>1. UNCHANGED <<disk, data, blockno, valid>>
    BY <1>10 DEF Brelse
  <2>2. \A r \in Proc : Has(r)' = Has(r)
    BY <1>10, <1>00 DEF Has, Brelse
  <2> QED
    BY <2>1, <2>2, SameContents, Stutters
<1>11. ASSUME NEW p \in Proc, Submit(p) PROVE Refines
  <2>1. UNCHANGED <<disk, data, blockno, valid>>
    BY <1>11 DEF Submit
  <2>2. \A r \in Proc : Has(r)' = Has(r)
    BY <1>11, <1>00 DEF Has, Submit
  <2> QED
    BY <2>1, <2>2, SameContents, Stutters
<1>12. ASSUME NEW p \in Proc, NoDesc(p) PROVE Refines
  <2>1. UNCHANGED <<disk, data, blockno, valid>>
    BY <1>12 DEF NoDesc
  <2>2. \A r \in Proc : Has(r)' = Has(r)
    BY <1>12, <1>00 DEF Has, NoDesc
  <2> QED
    BY <2>1, <2>2, SameContents, Stutters
<1>13. ASSUME NEW p \in Proc, Wait(p) PROVE Refines
  <2>1. pc[p] = "disk" /\ UNCHANGED <<disk, data, blockno, buf>> /\ buf[p] \in Buf
    BY <1>13, HasBuffer DEF Wait, IInv
  <2>2. CASE UNCHANGED <<valid, type>> /\ pc' = [pc EXCEPT ![p] = "disk_sleep"]
    <3>1. \A r \in Proc : Has(r)' = Has(r)
      BY <2>1, <2>2 DEF Has
    <3> QED
      BY <2>1, <2>2, <3>1, SameContents, Stutters
  <2>3. CASE /\ buf[p] \notin busy /\ valid' = valid \union {buf[p]} /\ type' = [type EXCEPT ![p] = "in"]
             /\ pc' = [pc EXCEPT ![p] = IF type[p] = "in" THEN "have" ELSE "written"]
    <3>1. PICK bn \in Block : bn = blockno[buf[p]]
      BY <2>1, HasBuffer DEF IInv
    <3>2. Has(p)' = {bn} /\ \A r \in Proc : r # p => Has(r)' = Has(r)
      BY <2>1, <2>3, <3>1 DEF Has
    <3>3. CASE type[p] = "out"
      <4>1. buf[p] \in valid
        BY <2>1, <3>3 DEF IInv, ValidInv, Writing, Waiting
      <4>2. valid' = valid
        BY <2>3, <4>1
      <4>3. Has(p) = {bn}
        BY <3>1, <3>3 DEF Has
      <4> QED
        BY <2>1, <3>2, <4>2, <4>3, SameContents, Stutters
    <3>4. CASE type[p] = "in"
      <4>1. buf[p] \notin valid /\ Has(p) = {}
        BY <2>1, <3>4 DEF IInv, ValidInv, Writing, Waiting, Has
      <4>2. \A c \in valid : blockno[c] # bn
        BY <2>1, <3>1, <4>1, HasBuffer DEF IInv, OneBuffer
      <4>3. Clean(buf[p])
        <5>1. \A o \in avail : o.b # buf[p]
          BY <2>3 DEF IInv, ReqInv, Asks, Request
        <5> QED
          BY <2>1, <5>1 DEF IInv, DataInv, Waiting
      <4>4. \A x \in Block : Content(x)' = Content(x)
        <5> TAKE x \in Block
        <5>1. CASE x = bn
          <6>1. Content(x) = disk[x]
            BY <4>2, <5>1, OnDisk
          <6>2. PICK b \in valid' : b = buf[p]
            BY <2>3
          <6>3. Content(x)' = data'[b]
            BY <2>1, <3>1, <5>1, <6>2, InBufferNext
          <6> QED
            BY <2>1, <3>1, <4>3, <5>1, <6>1, <6>2, <6>3 DEF Clean
        <5>2. CASE x # bn /\ \E c \in valid : blockno[c] = x
          <6>1. PICK c \in valid : blockno[c] = x
            BY <5>2
          <6>2. c \in valid' /\ blockno'[c] = x
            BY <2>1, <2>3, <6>1
          <6> QED
            BY <2>1, <6>1, <6>2, InBuffer, InBufferNext
        <5>3. CASE x # bn /\ ~ \E c \in valid : blockno[c] = x
          <6>1. \A c \in valid' : blockno'[c] # x
            BY <2>1, <2>3, <3>1, <5>3
          <6> QED
            BY <2>1, <5>3, <6>1, OnDisk, OnDiskNext
        <5> QED
          BY <5>1, <5>2, <5>3
      <4>5. \A r \in Proc : bn \notin Has(r)
        <5> SUFFICES ASSUME NEW r \in Proc, bn \in Has(r) PROVE FALSE
          OBVIOUS
        <5>1. pc[r] \in Holding /\ blockno[buf[r]] = blockno[buf[p]]
          BY <3>1, <1>00 DEF Has, Holding
        <5>2. r = p
          BY <2>1, <5>1, HoldsAlone DEF IInv, Holding, Writing, Waiting
        <5> QED
          BY <4>1, <5>2
      <4>6. Has(p)' = Has(p) \union {bn}
        BY <3>2, <4>1
      <4> QED
        BY <3>2, <4>4, <4>5, <4>6, Gets
    <3> QED
      BY <3>3, <3>4
  <2> QED
    BY <1>13, <2>2, <2>3 DEF Wait, StillBusy
<1>14. ASSUME NEW p \in Proc, Woken(p) PROVE Refines
  <2>1. UNCHANGED <<disk, data, blockno, valid>>
    BY <1>14, Returns
  <2>2. \A r \in Proc : Has(r)' = Has(r)
    BY <1>14, Returns DEF Has
  <2> QED
    BY <2>1, <2>2, SameContents, Stutters
<1>15. ASSUME NEW p \in Proc, KilledAwake(p) PROVE Refines
  <2>1. UNCHANGED <<disk, data, blockno, valid>>
    BY <1>15, Returns
  <2>2. \A r \in Proc : Has(r)' = Has(r)
    BY <1>15, Returns DEF Has
  <2> QED
    BY <2>1, <2>2, SameContents, Stutters
<1>16. CASE Device
  <2>1. PICK o \in avail :
          /\ UNCHANGED <<blockno, valid, pc, buf, type>>
          /\ IF o.type = "in"
               THEN data' = [data EXCEPT ![o.b] = disk[o.sector]] /\ UNCHANGED disk
               ELSE disk' = [disk EXCEPT ![o.sector] = data[o.b]] /\ UNCHANGED data
    BY <1>16 DEF Device
  <2>2. PICK s \in Proc : Asks(s) /\ o = Request(s)
    BY DEF IInv, ReqInv
  <2>3. /\ o.b = buf[s] /\ o.sector = blockno[buf[s]] /\ o.type = type[s]
        /\ buf[s] \in Buf /\ pc[s] \in Waiting /\ (type[s] = "out" <=> buf[s] \in valid)
    BY <2>2, HasBuffer DEF IInv, ValidInv, Request, Asks, Writing, Waiting
  <2>4. \A r \in Proc : Has(r)' = Has(r)
    BY <2>1 DEF Has
  <2>5. \A x \in Block : Content(x)' = Content(x)
    <3> TAKE x \in Block
    <3>1. CASE \E c \in valid : blockno[c] = x
      <4>1. PICK c \in valid : blockno[c] = x
        BY <3>1
      <4>2. c \in valid' /\ blockno'[c] = x /\ data'[c] = data[c]
        BY <2>1, <2>3, <4>1
      <4> QED
        BY <4>1, <4>2, InBuffer, InBufferNext
    <3>2. CASE ~ \E c \in valid : blockno[c] = x
      <4>1. disk'[x] = disk[x]
        BY <2>1, <2>3, <3>2
      <4>2. \A c \in valid' : blockno'[c] # x
        BY <2>1, <3>2
      <4> QED
        BY <3>2, <4>1, <4>2, OnDisk, OnDiskNext
    <3> QED
      BY <3>1, <3>2
  <2> QED
    BY <2>4, <2>5, Stutters
<1>17. CASE Intr
  <2>1. UNCHANGED <<disk, data, blockno, valid>>
    BY <1>17 DEF Intr
  <2>2. \A r \in Proc : Has(r)' = Has(r)
    BY <1>17, <1>00 DEF Has, Intr
  <2> QED
    BY <2>1, <2>2, SameContents, Stutters
<1>18. CASE IntrUsed
  <2>1. UNCHANGED <<disk, data, blockno, valid>>
    BY <1>18 DEF IntrUsed
  <2>2. \A r \in Proc : Has(r)' = Has(r)
    BY <1>18, <1>00 DEF Has, IntrUsed
  <2> QED
    BY <2>1, <2>2, SameContents, Stutters
<1>19. CASE IntrEnd
  <2>1. UNCHANGED <<disk, data, blockno, valid>>
    BY <1>19 DEF IntrEnd
  <2>2. \A r \in Proc : Has(r)' = Has(r)
    BY <1>19, <1>00 DEF Has, IntrEnd
  <2> QED
    BY <2>1, <2>2, SameContents, Stutters
<1>20. CASE Halted
  <2>1. UNCHANGED <<disk, data, blockno, valid>>
    BY <1>20 DEF Halted, vars
  <2>2. \A r \in Proc : Has(r)' = Has(r)
    BY <1>20, <1>00 DEF Has, Halted, vars
  <2> QED
    BY <2>1, <2>2, SameContents, Stutters
<1>21. CASE UNCHANGED vars
  <2>1. UNCHANGED <<disk, data, blockno, valid>>
    BY <1>21 DEF vars
  <2>2. \A r \in Proc : Has(r)' = Has(r)
    BY <1>21 DEF Has, vars
  <2> QED
    BY <2>1, <2>2, SameContents, Stutters

<1> QED
  BY <1>1, <1>2, <1>3, <1>4, <1>5, <1>6, <1>7, <1>8, <1>9, <1>10, <1>11, <1>12,
     <1>13, <1>14, <1>15, <1>16, <1>17, <1>18, <1>19, <1>20, <1>21 DEF Next, Bread,
     User, Rest, Rw, Handler

(* The cache and the disk together are the store of BlockStore: whoever    *)
(* has a block sees what was last stored in it, and nobody else has it.    *)
THEOREM CacheCoherent == Spec => BlocksCoherent
<1>1. Init => Store!Init
  <2> SUFFICES ASSUME Init PROVE Store!Init
    OBVIOUS
  <2>1. \A bn \in Block : Content(bn) = disk[bn]
    BY DEF Init, Content
  <2>2. Contents \in [Block -> Value]
    BY <2>1 DEF Init, Contents
  <2>3. HasBlock = [p \in Proc |-> {}]
    BY DEF Init, HasBlock, Has
  <2> QED
    BY <2>2, <2>3 DEF Store!Init
<1>2. IInv /\ IInv' /\ [Next]_vars => [Store!Next]_<<Contents, HasBlock>>
  BY StepRefines DEF Refines
<1> QED
  BY <1>1, <1>2, Inductive, PTL DEF Spec, BlocksCoherent, Store!Spec
==============================================================================
